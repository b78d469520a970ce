---------------------------- MODULE MCHandlerCode ----------------------------
(* HandlerCode for TLC. *)
EXTENDS HandlerCode

CONSTANT e1
===============================================================================
