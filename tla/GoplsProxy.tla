------------------------------ MODULE GoplsProxy ------------------------------
(***************************************************************************)
(* lsp/gopls.go: the goroutine of Server.Run sends requests and           *)
(* notifications to gopls and waits for at most one answer at a time,     *)
(* readLoop hands the answers over, and gopls itself, a process that      *)
(* answers in any order, late, or never, and may die.                     *)
(*                                                                        *)
(* `pc` is the place of the goroutine of Server.Run and `then` the place  *)
(* it goes on from when Call or Notify returns; LspServer extends this    *)
(* module with the handlers in between.                                   *)
(***************************************************************************)
EXTENDS Naturals, Sequences

CONSTANTS
  Docs,      \* the .tg files of the workspace
  PipeSize   \* messages a pipe to or from gopls holds before a write blocks

ASSUME GoplsProxyAssumption == PipeSize \in Nat \ {0}

VARIABLES
  pc, then,
  out,        \* the message being written to gopls
  answer,     \* what the last Call returned: {response}, or {} for an error
  nextID, pending,
  channel,    \* what is in the channel of the current call
  inHand,     \* {response} that readLoop took out of pending and has yet to send
  gopls,      \* "none" (nil, or not started), "up" or "dead"
  toGopls, fromGopls,
  owed,       \* the calls gopls has read and not answered
  known       \* the text of each document open in gopls, else NoText

callVars    == <<pc, then, out, answer, nextID, channel>>
processVars == <<gopls, toGopls, owed, known>>
others      == <<inHand, gopls, toGopls, fromGopls, owed, known>>
notifyFrame == <<answer, nextID, pending, channel, others>>
proxyVars   == <<pc, then, out, answer, nextID, pending, channel, inHand,
                 gopls, toGopls, fromGopls, owed, known>>

NoText == 0
Views  == [Docs -> Nat]

\* `about` is the number of the editor's request that a call is made for;
\* `view` the texts gopls had when it answered.
CallMsgs == [kind : {"call"}, id : Nat, about : Nat]
DocMsgs  == [kind : {"open", "change", "close"}, doc : Docs, text : Nat]
Notes    == [kind : {"initialized", "exit"}]
Answers  == [kind : {"answer"}, id : Nat, about : Nat, ok : BOOLEAN, view : Views]
DiagMsgs == [kind : {"diagnostics"}, doc : Docs, text : Nat]

CallMsg(i, n)      == [kind |-> "call", id |-> i, about |-> n]
DocMsg(k, d, text) == [kind |-> k, doc |-> d, text |-> text]
Note(k)            == [kind |-> k]

ProxyTypeOK ==
  /\ out \in CallMsgs \cup DocMsgs \cup Notes
  /\ answer \subseteq Answers
  /\ nextID \in Nat
  /\ pending \subseteq Nat
  /\ channel \subseteq Answers
  /\ inHand \subseteq Answers
  /\ gopls \in {"none", "up", "dead"}
  /\ toGopls \in Seq(CallMsgs \cup DocMsgs \cup Notes)
  /\ fromGopls \in Seq(Answers \cup DiagMsgs)
  /\ owed \subseteq CallMsgs
  /\ known \in Views

ProxyInit ==
  /\ out = Note("initialized")
  /\ answer = {}
  /\ nextID = 0 /\ pending = {} /\ channel = {} /\ inHand = {}
  /\ gopls = "none" /\ toGopls = << >> /\ fromGopls = << >>
  /\ owed = {} /\ known = [d \in Docs |-> NoText]

-----------------------------------------------------------------------------
(***************************************************************************)
(* The goroutine of Server.Run.  BeginCall and BeginNotify are what Call  *)
(* and Notify do before the write.                                        *)
(***************************************************************************)
BeginCall(n, next) ==
  /\ out' = CallMsg(nextID, n)
  /\ pending' = pending \cup {nextID}
  /\ nextID' = nextID + 1
  /\ channel' = {}
  /\ pc' = "write" /\ then' = next

BeginNotify(m, next) ==
  /\ out' = m
  /\ pc' = "write" /\ then' = next

CurrentID == nextID - 1

\* The write blocks while the pipe is full.
Write ==
  /\ pc = "write" /\ gopls = "up"
  /\ Len(toGopls) < PipeSize
  /\ toGopls' = Append(toGopls, out)
  /\ pc' = IF out.kind = "call" THEN "wait" ELSE then
  /\ UNCHANGED <<then, out, answer, nextID, pending, channel, inHand, gopls,
                 fromGopls, owed, known>>

\* The pipe of a process that is gone: Call returns at once and leaves its
\* entry in pending.
WriteFails ==
  /\ pc = "write" /\ gopls = "dead"
  /\ answer' = {}
  /\ pc' = then
  /\ UNCHANGED <<then, out, nextID, pending, channel, others>>

TakeAnswer ==
  /\ pc = "wait"
  /\ channel # {}
  /\ answer' = channel
  /\ channel' = {}
  /\ pc' = then
  /\ UNCHANGED <<then, out, nextID, pending, others>>

\* Defect: the request is sent again.
ExpireRetries ==
  /\ pc = "wait"
  /\ pc' = "write"
  /\ UNCHANGED <<then, out, answer, nextID, pending, channel, others>>

\* The ten seconds are over; pending is cleaned up in a step of its own.
Expire ==
  /\ pc = "wait"
  /\ pc' = "expired"
  /\ UNCHANGED <<then, out, answer, nextID, pending, channel, others>>

\* Defect: the entry of an expired call stays.
ForgetCallNot ==
  /\ pc = "expired"
  /\ pc' = then
  /\ answer' = {}
  /\ UNCHANGED <<then, out, nextID, pending, channel, others>>

ForgetCall ==
  /\ pc = "expired"
  /\ pending' = pending \ {CurrentID}
  /\ pc' = then
  /\ answer' = {}
  /\ UNCHANGED <<then, out, nextID, channel, others>>

-----------------------------------------------------------------------------
Ended == {"exited", "aborted"}

(***************************************************************************)
(* readLoop.  The channel of a call has room for its one answer, so that  *)
(* handing it over never blocks, even if nobody waits any more.           *)
(***************************************************************************)
\* Defect: an answer goes to whoever waits.
ReadAnyAnswer ==
  /\ pc \notin Ended
  /\ inHand = {} /\ fromGopls # << >>
  /\ Head(fromGopls).kind = "answer"
  /\ inHand' = {[Head(fromGopls) EXCEPT !.id = CurrentID]}
  /\ pending' = pending \ {CurrentID}
  /\ fromGopls' = Tail(fromGopls)
  /\ UNCHANGED <<callVars, processVars>>

\* Defect: a notification is taken for an answer.
ReadAnyMessage ==
  /\ pc \notin Ended
  /\ inHand = {} /\ fromGopls # << >>
  /\ inHand' = {Head(fromGopls)}
  /\ fromGopls' = Tail(fromGopls)
  /\ UNCHANGED <<callVars, pending, processVars>>

ReadAnswer ==
  /\ pc \notin Ended
  /\ inHand = {} /\ fromGopls # << >>
  /\ LET r == Head(fromGopls) IN
       /\ r.kind = "answer"
       /\ inHand' = IF r.id \in pending THEN {r} ELSE {}
       /\ pending' = pending \ {r.id}
  /\ fromGopls' = Tail(fromGopls)
  /\ UNCHANGED <<callVars, processVars>>

\* Defect: the channel has no buffer.
HandOverToReceiver ==
  /\ pc = "wait"
  /\ \E r \in inHand : r.id = CurrentID
  /\ channel' = inHand
  /\ inHand' = {}
  /\ UNCHANGED <<pc, then, out, answer, nextID, pending, processVars, fromGopls>>

HandOver ==
  /\ pc \notin Ended
  /\ inHand # {}
  /\ channel' = IF \E r \in inHand : r.id = CurrentID THEN inHand ELSE channel
  /\ inHand' = {}
  /\ UNCHANGED <<pc, then, out, answer, nextID, pending, processVars, fromGopls>>

-----------------------------------------------------------------------------
(***************************************************************************)
(* gopls.  It handles what it reads in order.                             *)
(***************************************************************************)
GoplsReads ==
  /\ gopls = "up" /\ toGopls # << >>
  /\ toGopls' = Tail(toGopls)
  /\ LET m == Head(toGopls) IN
       /\ owed' = IF m.kind = "call" THEN owed \cup {m} ELSE owed
       /\ known' = CASE m.kind \in {"open", "change"} -> [known EXCEPT ![m.doc] = m.text]
                     [] m.kind = "close" -> [known EXCEPT ![m.doc] = NoText]
                     [] OTHER -> known
       /\ gopls' = IF m.kind = "exit" THEN "dead" ELSE "up"
  /\ UNCHANGED <<callVars, pending, inHand, fromGopls>>

GoplsAnswers ==
  /\ gopls = "up" /\ Len(fromGopls) < PipeSize
  /\ \E c \in owed, ok \in BOOLEAN :
       /\ owed' = owed \ {c}
       /\ fromGopls' = Append(fromGopls, [kind |-> "answer", id |-> c.id,
                                          about |-> c.about, ok |-> ok, view |-> known])
  /\ UNCHANGED <<callVars, pending, inHand, gopls, toGopls, known>>

GoplsPublishes ==
  /\ gopls = "up" /\ Len(fromGopls) < PipeSize
  /\ \E d \in Docs :
       /\ known[d] # NoText
       /\ fromGopls' = Append(fromGopls, [kind |-> "diagnostics", doc |-> d,
                                          text |-> known[d]])
  /\ UNCHANGED <<callVars, pending, inHand, processVars>>

\* What it has written can still be read; what it has not read is lost.
GoplsDies ==
  /\ gopls = "up"
  /\ gopls' = "dead"
  /\ toGopls' = << >>
  /\ owed' = {}
  /\ known' = [d \in Docs |-> NoText]
  /\ UNCHANGED <<callVars, pending, inHand, fromGopls>>
===============================================================================
