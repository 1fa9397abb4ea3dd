---------------------------- MODULE MCWakeStreams ----------------------------
EXTENDS WakeStreams
=============================================================================
