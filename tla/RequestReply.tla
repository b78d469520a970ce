----------------------------- MODULE RequestReply -----------------------------
(***************************************************************************)
(* What the language server promises its editor: requests are taken one   *)
(* at a time and each is answered once, in order, with nothing or with    *)
(* gopls' answer to this very request.                                    *)
(***************************************************************************)
EXTENDS Naturals, Sequences

VARIABLES
  asked,     \* how many requests the server has taken
  replies    \* replies[n] is {n} for gopls' answer to request n, or {}

vars == <<asked, replies>>

Init == asked = 0 /\ replies = << >>

Take ==
  /\ asked = Len(replies)
  /\ asked' = asked + 1
  /\ UNCHANGED replies

Reply ==
  /\ asked = Len(replies) + 1
  /\ \E r \in {{}, {asked}} : replies' = Append(replies, r)
  /\ UNCHANGED asked

\* A request the server answers by itself is taken and answered in one step.
TakeAndReply ==
  /\ asked = Len(replies)
  /\ asked' = asked + 1
  /\ replies' = Append(replies, {})

Next == Take \/ Reply \/ TakeAndReply

Spec == Init /\ [][Next]_vars

\* Every request that is taken is answered.
FairSpec == Spec /\ WF_vars(Reply)
===============================================================================
