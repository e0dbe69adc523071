------------------------------- MODULE MCDevConn -------------------------------
EXTENDS DevConn
================================================================================
