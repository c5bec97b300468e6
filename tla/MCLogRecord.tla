---------------------------- MODULE MCLogRecord ----------------------------
(***************************************************************************)
(* LogRecord with a buffer of 14 bytes, in the proportions of the code:    *)
(* a number wants more room than it takes, a double less than a number.    *)
(***************************************************************************)
EXTENDS LogRecordProps
===========================================================================
