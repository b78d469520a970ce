------------------------------ MODULE LspServer ------------------------------
(***************************************************************************)
(* lsp/server.go with shadow.go, documents.go and completion.go: one      *)
(* goroutine reads the editor's messages and handles each to its end,     *)
(* readLoop forwards the diagnostics of gopls beside it.                  *)
(*                                                                        *)
(* The editor keeps to its protocol: it initializes once and first, opens *)
(* documents before it changes them, and only exits after shutdown.  A    *)
(* text is a number, later texts have larger ones; a document's text is   *)
(* either rejected by the preprocessor or mirrored in the shadow file.    *)
(***************************************************************************)
EXTENDS GoplsProxy

CONSTANT MaxMessages    \* bound: messages of the editor besides exit

ASSUME LspAssumption == MaxMessages \in Nat

VARIABLES
  session,     \* "new", "running" or "shutdown"
  received,    \* how many messages the editor has sent
  docs,        \* the DocumentStore: the text of each open document, else NoText
  shadow,      \* the text mirrored in each shadow file, NoText if there is none
  opened,      \* goplsOpened
  forwarded,   \* the text of the last diagnostics forwarded for each document
  asked, replies

serverVars == <<session, received, docs, shadow, opened, forwarded, asked, replies>>
vars == <<proxyVars, serverVars>>

Places == {"idle", "write", "wait", "expired", "greet", "respond", "bye", "stop",
           "exited", "aborted"}

TypeOK ==
  /\ ProxyTypeOK
  /\ pc \in Places /\ then \in Places
  /\ session \in {"new", "running", "shutdown"}
  /\ received \in Nat /\ asked \in Nat
  /\ docs \in Views /\ shadow \in Views /\ forwarded \in Views
  /\ opened \subseteq Docs
  /\ replies \in Seq(SUBSET Nat)

Init ==
  /\ ProxyInit
  /\ pc = "idle" /\ then = "idle"
  /\ session = "new" /\ received = 0 /\ asked = 0 /\ replies = << >>
  /\ docs = [d \in Docs |-> NoText] /\ shadow = docs /\ forwarded = docs
  /\ opened = {}

-----------------------------------------------------------------------------
Receive(s) ==
  /\ pc = "idle" /\ session = s
  /\ received < MaxMessages
  /\ received' = received + 1

\* The text of the message being received; the files on disk have text 1.
NewText == received + 2

\* ShadowProject.Init mirrors the files that are there and valid.
Mirrors == {[d \in Docs |-> IF d \in valid THEN 1 ELSE NoText] : valid \in SUBSET Docs}

\* If gopls cannot be started the server goes on without it.
Initialize ==
  /\ Receive("new")
  /\ session' = "running"
  /\ asked' = asked + 1
  /\ shadow' \in Mirrors
  /\ \/ /\ gopls' = "up"
        /\ BeginCall(asked', "greet")
        /\ UNCHANGED replies
     \/ /\ replies' = Append(replies, {})
        /\ UNCHANGED <<gopls, pc, then, out, nextID, pending, channel>>
  /\ UNCHANGED <<answer, inHand, toGopls, fromGopls, owed, known,
                 docs, opened, forwarded>>

\* GoplsProxy.Initialize: initialized is sent only after an answer.
Greet ==
  /\ pc = "greet"
  /\ IF answer = {} THEN pc' = "respond" /\ UNCHANGED <<then, out>>
                    ELSE BeginNotify(Note("initialized"), "respond")
  /\ answer' = {}
  /\ UNCHANGED <<nextID, pending, channel, others, serverVars>>

\* Hover, definition, references, formatting, signatureHelp, completion.
\* Running() stays true when gopls dies.
Query ==
  /\ Receive("running")
  /\ asked' = asked + 1
  /\ IF gopls = "none"
     THEN /\ replies' = Append(replies, {})
          /\ UNCHANGED <<pc, then, out, nextID, pending, channel>>
     ELSE BeginCall(asked', "respond") /\ UNCHANGED replies
  /\ UNCHANGED <<answer, others, session, docs, shadow, opened, forwarded>>

\* A timeout, a write error and an error of gopls all become an empty result.
Respond ==
  /\ pc = "respond"
  /\ replies' = Append(replies, {r.about : r \in {a \in answer : a.ok}})
  /\ answer' = {}
  /\ pc' = "idle"
  /\ UNCHANGED <<then, out, nextID, pending, channel, others,
                 session, received, docs, shadow, opened, forwarded, asked>>

\* shutdown only sets a flag; the default case answers unknown requests.
Shutdown ==
  /\ Receive("running")
  /\ session' = "shutdown"
  /\ asked' = asked + 1
  /\ replies' = Append(replies, {})
  /\ UNCHANGED <<proxyVars, docs, shadow, opened, forwarded>>

UnknownRequest ==
  /\ Receive("running")
  /\ asked' = asked + 1
  /\ replies' = Append(replies, {})
  /\ UNCHANGED <<proxyVars, session, docs, shadow, opened, forwarded>>

-----------------------------------------------------------------------------
(***************************************************************************)
(* Documents.  gopls is sent what the shadow file holds.                  *)
(***************************************************************************)
\* ShadowProject.SyncFile leaves the shadow file alone if the text is rejected.
Synced(d, text, valid) == IF valid THEN text ELSE shadow[d]

\* Defect: gopls is sent the document's text instead of the shadow file's.
SyncSendsText(d, text, valid) ==
  /\ shadow' = [shadow EXCEPT ![d] = IF valid THEN text ELSE @]
  /\ IF shadow'[d] # NoText /\ gopls # "none"
     THEN /\ opened' = opened \cup {d}
          /\ BeginNotify(DocMsg(IF d \in opened THEN "change" ELSE "open", d, text), "idle")
     ELSE UNCHANGED <<opened, pc, then, out>>

SyncAndDiagnose(d, text, valid) ==
  LET content == Synced(d, text, valid) IN
  /\ shadow' = [shadow EXCEPT ![d] = content]
  /\ IF content # NoText /\ gopls # "none"
     THEN /\ opened' = opened \cup {d}
          /\ BeginNotify(DocMsg(IF d \in opened THEN "change" ELSE "open", d, content),
                         "idle")
     ELSE UNCHANGED <<opened, pc, then, out>>

DidOpen(d) ==
  /\ Receive("running") /\ docs[d] = NoText
  /\ docs' = [docs EXCEPT ![d] = NewText]
  /\ \E valid \in BOOLEAN : SyncAndDiagnose(d, NewText, valid)
  /\ UNCHANGED <<notifyFrame, session, forwarded, asked, replies>>

DidChange(d) ==
  /\ Receive("running") /\ docs[d] # NoText
  /\ docs' = [docs EXCEPT ![d] = NewText]
  /\ \E valid \in BOOLEAN : SyncAndDiagnose(d, NewText, valid)
  /\ UNCHANGED <<notifyFrame, session, forwarded, asked, replies>>

\* The saved text is the document's; it is valid if it has been mirrored.
DidSave(d) ==
  /\ Receive("running") /\ docs[d] # NoText
  /\ SyncAndDiagnose(d, docs[d], shadow[d] = docs[d])
  /\ UNCHANGED <<notifyFrame, session, docs, forwarded, asked, replies>>

\* Defect: the entry of goplsOpened is not deleted.
DidCloseKeepsEntry(d) ==
  /\ Receive("running") /\ docs[d] # NoText
  /\ docs' = [docs EXCEPT ![d] = NoText]
  /\ IF d \in opened /\ gopls # "none" THEN BeginNotify(DocMsg("close", d, NoText), "idle")
                                       ELSE UNCHANGED <<pc, then, out>>
  /\ UNCHANGED <<notifyFrame, session, shadow, opened, forwarded, asked, replies>>

DidClose(d) ==
  /\ Receive("running") /\ docs[d] # NoText
  /\ docs' = [docs EXCEPT ![d] = NoText]
  /\ opened' = opened \ {d}
  /\ IF d \in opened /\ gopls # "none" THEN BeginNotify(DocMsg("close", d, NoText), "idle")
                                       ELSE UNCHANGED <<pc, then, out>>
  /\ UNCHANGED <<notifyFrame, session, shadow, forwarded, asked, replies>>

\* Defect: each notification is forwarded by a goroutine of its own.
ForwardUnordered ==
  /\ pc \notin Ended
  /\ \E i \in DOMAIN fromGopls :
       LET m == fromGopls[i] IN
       /\ m.kind = "diagnostics"
       /\ forwarded' = [forwarded EXCEPT ![m.doc] = m.text]
       /\ fromGopls' = SubSeq(fromGopls, 1, i - 1) \o SubSeq(fromGopls, i + 1, Len(fromGopls))
  /\ UNCHANGED <<callVars, pending, inHand, processVars,
                 session, received, docs, shadow, opened, asked, replies>>

\* readLoop calls handleGoplsNotification before it reads on.
Forward ==
  /\ pc \notin Ended
  /\ inHand = {} /\ fromGopls # << >>
  /\ LET m == Head(fromGopls) IN
       /\ m.kind = "diagnostics"
       /\ forwarded' = [forwarded EXCEPT ![m.doc] = m.text]
  /\ fromGopls' = Tail(fromGopls)
  /\ UNCHANGED <<callVars, pending, inHand, processVars,
                 session, received, docs, shadow, opened, asked, replies>>

-----------------------------------------------------------------------------
(***************************************************************************)
(* The end.  Stop calls shutdown, notifies exit and waits five seconds.   *)
(***************************************************************************)
CleanedUp == [d \in Docs |-> NoText]

Exit ==
  /\ pc = "idle" /\ session = "shutdown"
  /\ IF gopls = "none"
     THEN /\ pc' = "exited"
          /\ shadow' = CleanedUp
          /\ UNCHANGED <<then, out, nextID, pending, channel>>
     ELSE BeginCall(asked + 1, "bye") /\ UNCHANGED shadow
  /\ UNCHANGED <<answer, others, session, received, docs, opened, forwarded, asked, replies>>

Bye ==
  /\ pc = "bye"
  /\ BeginNotify(Note("exit"), "stop")
  /\ answer' = {}
  /\ UNCHANGED <<nextID, pending, channel, others, serverVars>>

\* Wait returns, or the process is killed; then Cleanup and os.Exit.
Stopped ==
  /\ pc = "stop"
  /\ gopls' = "dead"
  /\ pc' = "exited"
  /\ shadow' = CleanedUp
  /\ UNCHANGED <<then, out, answer, nextID, pending, channel, inHand, toGopls, fromGopls,
                 owed, known, session, received, docs, opened, forwarded, asked, replies>>

\* The editor closes its end: Run returns and main exits, cleaning up nothing.
EditorGone ==
  /\ pc = "idle"
  /\ pc' = "aborted"
  /\ UNCHANGED <<then, out, answer, nextID, pending, channel, others, serverVars>>

Terminated == pc \in Ended /\ UNCHANGED vars

-----------------------------------------------------------------------------
Handle ==
  \/ Initialize \/ Query \/ Shutdown \/ UnknownRequest
  \/ \E d \in Docs : DidOpen(d) \/ DidChange(d) \/ DidSave(d) \/ DidClose(d)
  \/ Exit \/ EditorGone

Continue ==
  \/ Greet \/ Respond \/ Bye \/ Stopped
  \/ (Write \/ WriteFails \/ TakeAnswer \/ Expire \/ ForgetCall) /\ UNCHANGED serverVars

ReadLoop == ((ReadAnswer \/ HandOver) /\ UNCHANGED serverVars) \/ Forward

\* What gopls does after the server has gone is left out.
Gopls ==
  /\ pc \notin Ended
  /\ (GoplsReads \/ GoplsAnswers \/ GoplsPublishes \/ GoplsDies) /\ UNCHANGED serverVars

Next == Handle \/ Continue \/ ReadLoop \/ Gopls \/ Terminated

Spec == Init /\ [][Next]_vars

\* Goroutines go on and timers fire.  Of gopls it is assumed that it reads its
\* input for as long as it lives, not that it answers.
FairSpec ==
  /\ Spec
  /\ WF_vars(Continue) /\ WF_vars(ReadLoop)
  /\ WF_vars(pc \notin Ended /\ GoplsReads /\ UNCHANGED serverVars)

-----------------------------------------------------------------------------
(***************************************************************************)
(* Properties.                                                            *)
(***************************************************************************)
\* Each request of the editor is answered once, in order, by nothing or by
\* gopls' answer to that request, though answers arrive after their call has
\* timed out (gopls.go:136-143), gopls answers in any order, or it dies; and
\* every request is answered.
Promise == INSTANCE RequestReply WITH asked <- asked, replies <- replies
AnswersOnceInOrder == Promise!FairSpec

\* No entry of Call's pending map outlives its call (gopls.go:139), unless the
\* call could not be written because gopls is gone.
PendingIsAwaited ==
  \A i \in pending : gopls = "dead" \/ (i = CurrentID /\ pc \in {"write", "wait", "expired"})

UnderWay == IF pc = "write" THEN Append(toGopls, out) ELSE toGopls

Says(i, d) == UnderWay[i].kind \in {"open", "change", "close"} /\ UnderWay[i].doc = d

\* When the n-th message under way arrives, gopls has this text of d: the one of
\* the last message about d before it, else the one it has already.
HasBefore(n, d, text) ==
  \/ known[d] = text /\ \A i \in 1 .. n - 1 : ~Says(i, d)
  \/ \E i \in 1 .. n - 1 : /\ Says(i, d) /\ UnderWay[i].text = text
                           /\ \A j \in i + 1 .. n - 1 : ~Says(j, d)

\* With all that is under way, gopls has open what the editor has open and has
\* been valid at least once, with the last valid text, and nothing else
\* (server.go:255-285, 219-230).
GoplsAgreesWithEditor ==
  gopls = "up" =>
    \A d \in Docs : HasBefore(Len(UnderWay) + 1, d,
                              IF docs[d] = NoText THEN NoText ELSE shadow[d])

\* gopls is never told to open a document it has open, nor to change or close
\* one it has not (server.go:261-266, 221-226).
GoplsProtocol ==
  gopls = "up" =>
    \A i \in 1 .. Len(UnderWay) : LET m == UnderWay[i] IN
      /\ m.kind = "open" => HasBefore(i, m.doc, NoText)
      /\ m.kind \in {"change", "close"} => ~HasBefore(i, m.doc, NoText)

\* An answer the editor is given was made from the last valid text of every
\* open document: notifications and requests go through one pipe in order.
AnswersAreUpToDate ==
  pc = "respond" =>
    \A r \in answer, d \in Docs : docs[d] # NoText => r.view[d] = shadow[d]

\* Diagnostics of gopls reach the editor in the order of the texts, although
\* every text is sent to gopls as version 2 (server.go:279).
DiagnosticsMoveForward == [][\A d \in Docs : forwarded'[d] >= forwarded[d]]_vars

\* readLoop gets rid of an answer even if nobody waits for it any more: the
\* channel of a call has room for it (gopls.go:91-93, 112).
ReadLoopProceeds == (inHand # {}) ~> (inHand = {} \/ pc \in Ended)

\* Once the editor has said exit the server ends, though gopls may not answer
\* its shutdown call (gopls.go:194-207).
ExitTerminates == (session = "shutdown" /\ pc # "idle") ~> (pc \in Ended)
===============================================================================
