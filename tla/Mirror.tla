-------------------------------- MODULE Mirror --------------------------------
(***************************************************************************)
(* What the daemon promises of its graph: for each file it keeps what it  *)
(* made of one version of that file, the copy.  Copies only move forward, *)
(* and a copy that has fallen behind is due to be refreshed, unless the   *)
(* file changed without anybody hearing of it.                             *)
(***************************************************************************)
EXTENDS Naturals

CONSTANT Files

VARIABLES
  original,  \* file -> the number of its present version
  copy,      \* file -> the number of the version last copied, 0 for none
  due,       \* the files that are going to be copied
  unheard    \* the files whose last change nobody heard of

vars == <<original, copy, due, unheard>>

Init ==
  /\ original = [f \in Files |-> 1]
  /\ copy = [f \in Files |-> 0]
  /\ due = Files
  /\ unheard = {}

(* A file changes, and this is heard of ...                                 *)
ChangeHeard(f) ==
  /\ original' = [original EXCEPT ![f] = @ + 1]
  /\ due' = due \cup {f}
  /\ unheard' = unheard \ {f}
  /\ UNCHANGED copy

(* ... or not: a copy in the making may then be of an older version.        *)
ChangeUnheard(f) ==
  /\ original' = [original EXCEPT ![f] = @ + 1]
  /\ due' \in {due, due \ {f}}
  /\ unheard' = unheard \cup {f}
  /\ UNCHANGED copy

(* A file is found as it is, before it is copied.                           *)
Notice(f) ==
  /\ f \in due
  /\ unheard' = unheard \ {f}
  /\ UNCHANGED <<original, copy, due>>

(* A version is copied that is no older than the copy, and the file remains *)
(* due unless this is its present version.                                  *)
Refresh(f) ==
  /\ f \in due \cup unheard
  /\ \E v \in copy[f] .. original[f] :
       /\ copy' = [copy EXCEPT ![f] = v]
       /\ \/ UNCHANGED <<due, unheard>>
          \/ /\ v = original[f]
             /\ due' \in {due, due \ {f}}
             /\ unheard' \in {unheard, unheard \ {f}}
  /\ UNCHANGED original

(* A file that cannot be read is left alone.                                *)
GiveUp(f) ==
  /\ f \in unheard \/ copy[f] = original[f]
  /\ due' = due \ {f}
  /\ UNCHANGED <<original, copy, unheard>>

Next ==
  \E f \in Files :
    ChangeHeard(f) \/ ChangeUnheard(f) \/ Notice(f) \/ Refresh(f) \/ GiveUp(f)

Spec == Init /\ [][Next]_vars

-----------------------------------------------------------------------------
(* A copy is of the present version unless it is due or nobody could know.  *)
InStep ==
  \A f \in Files : copy[f] <= original[f] /\ (copy[f] = original[f] \/ f \in due \cup unheard)

(* A copy never goes back to an older version.                              *)
Forward == \A f \in Files : copy[f] <= copy'[f]
MovesForward == [][Forward]_vars
===============================================================================
