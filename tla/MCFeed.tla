------------------------------ MODULE MCFeed ------------------------------
(***************************************************************************)
(* The daemon's main goroutine and the heartbeat, and clients that may be  *)
(* too slow for their one-event channels.                                  *)
(***************************************************************************)
EXTENDS Feed, TLC

CONSTANTS C1, C2, Q
===========================================================================
