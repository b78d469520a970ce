------------------------- MODULE MCEffectRuntime -------------------------
(***************************************************************************)
(* Two effects and Trys nested two deep.  Programs whose handlers both     *)
(* perform and abort are left out: a perform abandoned in a handler ends   *)
(* the goroutine of the loop that runs it and unwinds its Try while the    *)
(* Trys inside go on, and then neither invariant on the stack holds.       *)
(***************************************************************************)
EXTENDS EffectRuntime

CONSTANTS A, B

MCPrograms == {{}, {"abort"}, {"perform"}}
AbortingPrograms == {{"abort"}}
=============================================================================
