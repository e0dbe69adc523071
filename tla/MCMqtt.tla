-------------------------------- MODULE MCMqtt --------------------------------
EXTENDS Mqtt
================================================================================
