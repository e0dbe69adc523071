-------------------------------- MODULE MCLink ---------------------------------
EXTENDS Link
MCInbound == <<1, 2>>
MCOutbound == <<4, 4, 1>>
================================================================================
