-------------------------- MODULE LspServer_proofs --------------------------
(***************************************************************************)
(* Theorems about the language server, for any documents, any capacity of *)
(* the pipes and any number of messages: its types, the pending map, what *)
(* exit leaves behind, that it implements RequestReply (the safety part   *)
(* of AnswersOnceInOrder), the order of the diagnostics, that gopls has   *)
(* what the editor has, and that the answers are up to date.              *)
(***************************************************************************)
EXTENDS LspServer, Functions, TLAPS

(* The messages of gopls and the server, told apart by their kind.          *)
LEMMA Kinds ==
  /\ \A m \in CallMsgs : m.kind = "call" /\ m.id \in Nat /\ m.about \in Nat
  /\ \A m \in DocMsgs : /\ m.kind \in {"open", "change", "close"}
                        /\ m.doc \in Docs /\ m.text \in Nat
  /\ \A m \in Notes : m.kind \in {"initialized", "exit"}
  /\ \A m \in Answers : m.kind = "answer" /\ m.id \in Nat /\ m.about \in Nat
  /\ \A m \in DiagMsgs : m.kind = "diagnostics" /\ m.doc \in Docs /\ m.text \in Nat
BY DEF CallMsgs, DocMsgs, Notes, Answers, DiagMsgs

LEMMA Made ==
  /\ \A i, n \in Nat : CallMsg(i, n) \in CallMsgs
  /\ \A d \in Docs, t \in Nat, k \in {"open", "change", "close"} : DocMsg(k, d, t) \in DocMsgs
  /\ \A k \in {"initialized", "exit"} : Note(k) \in Notes
BY DEF CallMsg, DocMsg, Note, CallMsgs, DocMsgs, Notes

LEMMA Blank == [d \in Docs |-> NoText] \in Views
BY DEF Views, NoText

(* What a message does to the texts gopls has keeps them texts.             *)
LEMMA Typed ==
  ASSUME NEW view \in Views, NEW d \in Docs, NEW t \in Nat
  PROVE  [view EXCEPT ![d] = t] \in Views
BY DEF Views

(* The handlers of the editor's messages.                                   *)
LEMMA SyncTypes ==
  ASSUME TypeOK, NEW d \in Docs, NEW text \in Nat, NEW valid \in BOOLEAN,
         SyncAndDiagnose(d, text, valid)
  PROVE  /\ shadow' \in Views /\ opened' \subseteq Docs
         /\ out' \in CallMsgs \cup DocMsgs \cup Notes
         /\ pc' \in Places /\ then' \in Places
<1>1. Synced(d, text, valid) \in Nat
  BY DEF TypeOK, Views, Synced
<1>2. shadow' \in Views
  BY <1>1, Typed DEF TypeOK, SyncAndDiagnose
<1> QED BY <1>1, <1>2, Made DEF TypeOK, ProxyTypeOK, SyncAndDiagnose, BeginNotify, Places

LEMMA BeginCallTypes ==
  ASSUME TypeOK, NEW next, \E n \in Nat : BeginCall(n, next)
  PROVE  out' \in CallMsgs /\ nextID' \in Nat /\ pending' \subseteq Nat
<1>1. PICK n \in Nat : BeginCall(n, next)
  OBVIOUS
<1>2. nextID \in Nat /\ pending \subseteq Nat
  BY DEF TypeOK, ProxyTypeOK
<1>3. CallMsg(nextID, n) \in CallMsgs
  BY <1>2, Made
<1> QED BY <1>1, <1>2, <1>3 DEF BeginCall

LEMMA EditorTypes ==
  ASSUME TypeOK, Handle
  PROVE  TypeOK'
<1> USE DEF notifyFrame, others, proxyVars
<1>1. CASE Initialize
  <2>1. asked' \in Nat /\ received' \in Nat /\ replies' \in Seq(SUBSET Nat)
    BY <1>1 DEF TypeOK, Initialize, Receive
  <2>2. shadow' \in Views
    BY <1>1 DEF Initialize, Mirrors, Views, NoText
  <2>3. out' \in CallMsgs \cup DocMsgs \cup Notes /\ nextID' \in Nat /\ pending' \subseteq Nat
    <3>1. CASE BeginCall(asked', "greet")
      BY <3>1, <2>1, BeginCallTypes
    <3>2. CASE UNCHANGED <<out, nextID, pending>>
      BY <3>2 DEF TypeOK, ProxyTypeOK
    <3> QED BY <1>1, <3>1, <3>2 DEF Initialize
  <2> QED BY <1>1, <2>1, <2>2, <2>3
    DEF TypeOK, ProxyTypeOK, Initialize, Receive, BeginCall, Places
<1>2. CASE Query
  <2>1. asked' \in Nat /\ received' \in Nat /\ replies' \in Seq(SUBSET Nat)
    BY <1>2 DEF TypeOK, Query, Receive
  <2>2. out' \in CallMsgs \cup DocMsgs \cup Notes /\ nextID' \in Nat /\ pending' \subseteq Nat
    <3>1. CASE BeginCall(asked', "respond")
      BY <3>1, <2>1, BeginCallTypes
    <3>2. CASE UNCHANGED <<out, nextID, pending>>
      BY <3>2 DEF TypeOK, ProxyTypeOK
    <3> QED BY <1>2, <3>1, <3>2 DEF Query
  <2> QED BY <1>2, <2>1, <2>2 DEF TypeOK, ProxyTypeOK, Query, Receive, BeginCall, Places
<1>3. CASE Shutdown
  BY <1>3 DEF TypeOK, ProxyTypeOK, Shutdown, Receive
<1>4. CASE UnknownRequest
  BY <1>4 DEF TypeOK, ProxyTypeOK, UnknownRequest, Receive
<1>5. ASSUME NEW d \in Docs, DidOpen(d) \/ DidChange(d) \/ DidSave(d) PROVE TypeOK'
  <2>1. NewText \in Nat /\ received' \in Nat /\ docs[d] \in Nat
    BY <1>5 DEF TypeOK, Views, NewText, DidOpen, DidChange, DidSave, Receive
  <2>2. docs' \in Views
    BY <1>5, <2>1, Typed DEF TypeOK, DidOpen, DidChange, DidSave
  <2>3. \E text \in Nat, valid \in BOOLEAN : SyncAndDiagnose(d, text, valid)
    <3>1. (shadow[d] = docs[d]) \in BOOLEAN
      OBVIOUS
    <3> QED BY <1>5, <2>1, <3>1 DEF DidOpen, DidChange, DidSave
  <2>4. /\ shadow' \in Views /\ opened' \subseteq Docs
        /\ out' \in CallMsgs \cup DocMsgs \cup Notes /\ pc' \in Places /\ then' \in Places
    BY <2>3, SyncTypes
  <2>5. UNCHANGED <<notifyFrame, session, forwarded, asked, replies>>
    BY <1>5 DEF DidOpen, DidChange, DidSave
  <2> QED BY <2>1, <2>2, <2>4, <2>5 DEF TypeOK, ProxyTypeOK
<1>6. ASSUME NEW d \in Docs, DidClose(d) PROVE TypeOK'
  <2>1. docs' \in Views
    BY <1>6, Typed DEF TypeOK, DidClose, NoText
  <2>2. out' \in CallMsgs \cup DocMsgs \cup Notes /\ pc' \in Places /\ then' \in Places
    BY <1>6, Made DEF TypeOK, ProxyTypeOK, DidClose, BeginNotify, Places, NoText
  <2> QED BY <1>6, <2>1, <2>2 DEF TypeOK, ProxyTypeOK, DidClose, Receive
<1>7. CASE Exit
  <2>1. shadow' \in Views
    BY <1>7, Blank DEF TypeOK, Exit, CleanedUp
  <2>2. out' \in CallMsgs \cup DocMsgs \cup Notes /\ nextID' \in Nat /\ pending' \subseteq Nat
    <3>1. CASE BeginCall(asked + 1, "bye")
      <4>1. asked + 1 \in Nat
        BY DEF TypeOK
      <4> QED BY <3>1, <4>1, BeginCallTypes
    <3>2. CASE UNCHANGED <<out, nextID, pending>>
      BY <3>2 DEF TypeOK, ProxyTypeOK
    <3> QED BY <1>7, <3>1, <3>2 DEF Exit
  <2> QED BY <1>7, <2>1, <2>2 DEF TypeOK, ProxyTypeOK, Exit, BeginCall, Places
<1>8. CASE EditorGone
  BY <1>8 DEF TypeOK, ProxyTypeOK, EditorGone, serverVars, Places
<1> QED BY <1>1, <1>2, <1>3, <1>4, <1>5, <1>6, <1>7, <1>8 DEF Handle

(* The rest of Server.Run.                                                  *)
LEMMA ContinueTypes ==
  ASSUME TypeOK, Continue
  PROVE  TypeOK'
<1> USE DEF others, serverVars
<1>1. CASE Greet
  BY <1>1, Made DEF TypeOK, ProxyTypeOK, Greet, BeginNotify, Places
<1>2. CASE Respond
  <2>1. {r.about : r \in {a \in answer : a.ok}} \subseteq Nat
    BY Kinds DEF TypeOK, ProxyTypeOK
  <2>2. replies' \in Seq(SUBSET Nat)
    BY <1>2, <2>1 DEF TypeOK, Respond
  <2> QED BY <1>2, <2>2 DEF TypeOK, ProxyTypeOK, Respond, Places
<1>3. CASE Bye
  BY <1>3, Made DEF TypeOK, ProxyTypeOK, Bye, BeginNotify, Places
<1>4. CASE Stopped
  BY <1>4, Blank DEF TypeOK, ProxyTypeOK, Stopped, CleanedUp, Places
<1>5. CASE Write /\ UNCHANGED serverVars
  BY <1>5 DEF TypeOK, ProxyTypeOK, Write, Places
<1>6. CASE (WriteFails \/ TakeAnswer \/ Expire \/ ForgetCall) /\ UNCHANGED serverVars
  BY <1>6 DEF TypeOK, ProxyTypeOK, WriteFails, TakeAnswer, Expire, ForgetCall, Places
<1> QED BY <1>1, <1>2, <1>3, <1>4, <1>5, <1>6 DEF Continue

(* readLoop and gopls.                                                      *)
LEMMA HeadOfAnswers ==
  ASSUME TypeOK, fromGopls # <<>>
  PROVE  /\ Head(fromGopls) \in Answers \cup DiagMsgs
         /\ Tail(fromGopls) \in Seq(Answers \cup DiagMsgs)
         /\ Head(fromGopls).kind = "answer" => Head(fromGopls) \in Answers
         /\ Head(fromGopls).kind = "diagnostics" => Head(fromGopls) \in DiagMsgs
<1>1. Head(fromGopls) \in Answers \cup DiagMsgs /\ Tail(fromGopls) \in Seq(Answers \cup DiagMsgs)
  BY DEF TypeOK, ProxyTypeOK
<1> QED BY <1>1, Kinds

LEMMA ReadLoopTypes ==
  ASSUME TypeOK, ReadLoop
  PROVE  TypeOK'
<1> USE DEF callVars, processVars, serverVars
<1>1. CASE ReadAnswer /\ UNCHANGED serverVars
  BY <1>1, HeadOfAnswers DEF TypeOK, ProxyTypeOK, ReadAnswer
<1>2. CASE HandOver /\ UNCHANGED serverVars
  BY <1>2 DEF TypeOK, ProxyTypeOK, HandOver
<1>3. CASE Forward
  <2>1. Head(fromGopls) \in DiagMsgs /\ Tail(fromGopls) \in Seq(Answers \cup DiagMsgs)
    BY <1>3, HeadOfAnswers DEF Forward
  <2>2. forwarded' \in Views
    BY <1>3, <2>1, Kinds, Typed DEF TypeOK, Forward
  <2> QED BY <1>3, <2>1, <2>2 DEF TypeOK, ProxyTypeOK, Forward
<1> QED BY <1>1, <1>2, <1>3 DEF ReadLoop

LEMMA GoplsTypes ==
  ASSUME TypeOK, Gopls
  PROVE  TypeOK'
<1> USE DEF callVars, processVars, serverVars
<1>1. CASE GoplsReads /\ UNCHANGED serverVars
  <2> DEFINE m == Head(toGopls)
  <2>1. /\ m \in CallMsgs \cup DocMsgs \cup Notes
        /\ Tail(toGopls) \in Seq(CallMsgs \cup DocMsgs \cup Notes)
    BY <1>1 DEF TypeOK, ProxyTypeOK, GoplsReads
  <2>2. /\ m.kind = "call" => m \in CallMsgs
        /\ m.kind \in {"open", "change", "close"} => m \in DocMsgs
    BY <2>1, Kinds
  <2> HIDE DEF m
  <2>3. toGopls' = Tail(toGopls) /\ owed' \subseteq CallMsgs
    BY <1>1, <2>2 DEF TypeOK, ProxyTypeOK, GoplsReads, m
  <2>4. known' \in Views
    <3>1. m.kind \in {"open", "change", "close"} =>
            /\ [known EXCEPT ![m.doc] = m.text] \in Views
            /\ [known EXCEPT ![m.doc] = NoText] \in Views
      BY <2>2, Kinds, Typed DEF TypeOK, ProxyTypeOK, NoText
    <3>2. known' = CASE m.kind \in {"open", "change"} -> [known EXCEPT ![m.doc] = m.text]
                     [] m.kind = "close" -> [known EXCEPT ![m.doc] = NoText]
                     [] OTHER -> known
      BY <1>1 DEF GoplsReads, m
    <3> QED BY <3>1, <3>2 DEF TypeOK, ProxyTypeOK
  <2> QED BY <1>1, <2>1, <2>3, <2>4 DEF TypeOK, ProxyTypeOK, GoplsReads
<1>2. CASE GoplsAnswers /\ UNCHANGED serverVars
  <2>1. PICK c \in owed, ok \in BOOLEAN :
          /\ owed' = owed \ {c}
          /\ fromGopls' = Append(fromGopls, [kind |-> "answer", id |-> c.id,
                                             about |-> c.about, ok |-> ok, view |-> known])
    BY <1>2 DEF GoplsAnswers
  <2>2. [kind |-> "answer", id |-> c.id, about |-> c.about, ok |-> ok, view |-> known] \in Answers
    BY Kinds DEF TypeOK, ProxyTypeOK, Answers
  <2> QED BY <1>2, <2>1, <2>2 DEF TypeOK, ProxyTypeOK, GoplsAnswers
<1>3. CASE GoplsPublishes /\ UNCHANGED serverVars
  <2>1. PICK d \in Docs :
          fromGopls' = Append(fromGopls, [kind |-> "diagnostics", doc |-> d, text |-> known[d]])
    BY <1>3 DEF GoplsPublishes
  <2>2. [kind |-> "diagnostics", doc |-> d, text |-> known[d]] \in DiagMsgs
    BY DEF TypeOK, ProxyTypeOK, DiagMsgs, Views
  <2> QED BY <1>3, <2>1, <2>2 DEF TypeOK, ProxyTypeOK, GoplsPublishes
<1>4. CASE GoplsDies /\ UNCHANGED serverVars
  BY <1>4, Blank DEF TypeOK, ProxyTypeOK, GoplsDies
<1> QED BY <1>1, <1>2, <1>3, <1>4 DEF Gopls

LEMMA TypeStep ==
  ASSUME TypeOK, [Next]_vars
  PROVE  TypeOK'
<1>1. CASE Terminated \/ UNCHANGED vars
  BY <1>1 DEF TypeOK, ProxyTypeOK, Terminated, vars, proxyVars, serverVars
<1> QED BY <1>1, EditorTypes, ContinueTypes, ReadLoopTypes, GoplsTypes DEF Next

(* Messages, maps and the places of Server.Run stay what they are.          *)
THEOREM LspTypeCorrect == Spec => []TypeOK
<1>1. Init => TypeOK
  BY Blank, Made DEF Init, ProxyInit, TypeOK, ProxyTypeOK, Places
<1>2. TypeOK /\ [Next]_vars => TypeOK'
  BY TypeStep
<1> QED BY <1>1, <1>2, PTL DEF Spec

-----------------------------------------------------------------------------
(***************************************************************************)
(* The inductive invariant: where Server.Run is between taking a request  *)
(* and answering it (Turns), that identifiers are used once (Fresh), who  *)
(* may still use an entry of pending (Awaited), and that whatever bears   *)
(* the identifier of a call was made for that call (OwnAnswer).           *)
(***************************************************************************)
\* The identifier and the request of each call and answer that is under way.
Carried ==
  {<<m.id, m.about>> :
     m \in {x \in Range(toGopls) : x.kind = "call"} \cup owed
           \cup {x \in Range(fromGopls) : x.kind = "answer"} \cup inHand \cup channel}

InCall == pc \in {"write", "wait", "expired"}
Busy == pc \in {"greet", "respond"} \/ (InCall /\ then \in {"greet", "respond"})

Turns ==
  /\ session = "new" => gopls = "none" /\ pc \in {"idle", "aborted"}
  /\ InCall => then \in {"idle", "greet", "respond", "bye", "stop"}
  /\ pc \in {"wait", "expired"} => out.kind = "call"
  /\ InCall /\ out.kind = "call" => then \in {"greet", "respond", "bye"}
  /\ answer # {} => pc \in {"greet", "respond", "bye"}
  /\ asked = Len(replies) + (IF Busy THEN 1 ELSE 0)

Fresh ==
  /\ out.kind = "call" => out.id = CurrentID /\ nextID > 0
  /\ \A i \in pending : i < nextID
  /\ \A p \in Carried : p[1] < nextID
  /\ \A r \in channel : r.id = CurrentID
  /\ \A r, s \in inHand : r = s

Awaited ==
  /\ \A i \in pending : gopls = "dead" \/ (i = CurrentID /\ InCall /\ out.kind = "call")
  /\ \A r \in inHand \cup channel : r.id \notin pending

OwnAnswer ==
  /\ InCall /\ out.kind = "call" /\ then # "bye" => out.about = asked
  /\ out.kind = "call" => \A p \in Carried : p[1] = out.id => p[2] = out.about
  /\ pc \in {"greet", "respond"} => \A r \in answer : r.about = asked

LEMMA MadeKinds ==
  /\ \A i, n : CallMsg(i, n).kind = "call" /\ CallMsg(i, n).id = i /\ CallMsg(i, n).about = n
  /\ \A k, d, t : DocMsg(k, d, t).kind = k
  /\ \A k : Note(k).kind = k
BY DEF CallMsg, DocMsg, Note

(* A handler takes the request it answers at once, or leaves it to Respond. *)
LEMMA EditorTurns ==
  ASSUME TypeOK, Turns, Handle
  PROVE  Turns'
<1> USE MadeKinds DEF notifyFrame, others, proxyVars, InCall, Busy
<1>0. pc = "idle" /\ asked = Len(replies) /\ answer = {} /\ answer' = {}
  BY DEF Turns, Handle, Initialize, Query, Shutdown, UnknownRequest, DidOpen, DidChange,
         DidSave, DidClose, Exit, EditorGone, Receive
<1>1. \A r : Len(Append(replies, r)) = Len(replies) + 1
  BY DEF TypeOK
<1>2. CASE Initialize
  BY <1>0, <1>1, <1>2 DEF Turns, TypeOK, Initialize, Receive, BeginCall
<1>3. CASE Query
  BY <1>0, <1>1, <1>3 DEF Turns, TypeOK, Query, Receive, BeginCall
<1>4. CASE Shutdown \/ UnknownRequest
  BY <1>0, <1>1, <1>4 DEF Turns, TypeOK, Shutdown, UnknownRequest, Receive
<1>5. ASSUME NEW d \in Docs, DidOpen(d) \/ DidChange(d) \/ DidSave(d) \/ DidClose(d)
      PROVE  Turns'
  <2>1. /\ UNCHANGED <<notifyFrame, session, asked, replies>> /\ session = "running"
        /\ \/ UNCHANGED <<pc, then, out>>
           \/ \E m : m.kind # "call" /\ BeginNotify(m, "idle")
    BY <1>5 DEF DidOpen, DidChange, DidSave, DidClose, SyncAndDiagnose, Receive
  <2> QED BY <1>0, <2>1 DEF Turns, TypeOK, BeginNotify
<1>6. CASE Exit \/ EditorGone
  BY <1>0, <1>6 DEF Turns, TypeOK, Exit, EditorGone, BeginCall, CleanedUp, serverVars
<1> QED BY <1>2, <1>3, <1>4, <1>5, <1>6 DEF Handle

LEMMA ContinueTurns ==
  ASSUME TypeOK, Turns, Continue
  PROVE  Turns'
<1> USE MadeKinds DEF others, serverVars, InCall, Busy
<1>1. CASE Greet
  BY <1>1 DEF Turns, TypeOK, Greet, BeginNotify
<1>2. CASE Respond
  BY <1>2 DEF Turns, TypeOK, Respond
<1>3. CASE Bye
  BY <1>3 DEF Turns, TypeOK, Bye, BeginNotify
<1>4. CASE Stopped
  BY <1>4 DEF Turns, TypeOK, Stopped, CleanedUp
<1>5. CASE Write /\ UNCHANGED serverVars
  BY <1>5 DEF Turns, TypeOK, Write
<1>6. CASE WriteFails /\ UNCHANGED serverVars
  BY <1>6 DEF Turns, TypeOK, WriteFails
<1>7. CASE (TakeAnswer \/ Expire \/ ForgetCall) /\ UNCHANGED serverVars
  BY <1>7 DEF Turns, TypeOK, TakeAnswer, Expire, ForgetCall
<1> QED BY <1>1, <1>2, <1>3, <1>4, <1>5, <1>6, <1>7 DEF Continue

(* readLoop and gopls leave the turns of Server.Run alone.                  *)
LEMMA OthersTurns ==
  ASSUME TypeOK, Turns, ReadLoop \/ Gopls
  PROVE  Turns'
<1>1. UNCHANGED <<pc, then, out, answer, session, asked, replies, shadow>>
  BY DEF ReadLoop, ReadAnswer, HandOver, Forward, Gopls, GoplsReads, GoplsAnswers,
         GoplsPublishes, GoplsDies, serverVars, callVars
<1>2. gopls' = gopls \/ (gopls = "up" /\ gopls' = "dead")
  BY DEF ReadLoop, ReadAnswer, HandOver, Forward, Gopls, GoplsReads, GoplsAnswers,
         GoplsPublishes, GoplsDies, processVars
<1> QED BY <1>1, <1>2 DEF Turns, InCall, Busy

LEMMA TurnsStep ==
  ASSUME TypeOK, Turns, [Next]_vars
  PROVE  Turns'
<1>1. CASE Terminated \/ UNCHANGED vars
  BY <1>1 DEF Terminated, vars, proxyVars, serverVars, Turns, InCall, Busy
<1> QED BY <1>1, EditorTurns, ContinueTurns, OthersTurns DEF Next

LEMMA TurnsInit == Init => Turns
BY MadeKinds DEF Init, ProxyInit, Turns, InCall, Busy

-----------------------------------------------------------------------------
(* What a pipe holds after a write and after a read.                        *)
LEMMA Pipe ==
  ASSUME NEW S, NEW s \in Seq(S)
  PROVE  /\ \A x \in S : Range(Append(s, x)) = Range(s) \cup {x}
         /\ s # << >> => Range(Tail(s)) \subseteq Range(s) /\ Head(s) \in Range(s)
         /\ Range(<< >>) = {}
<1>1. ASSUME NEW x \in S PROVE Range(Append(s, x)) = Range(s) \cup {x}
  <2>1. /\ DOMAIN s = 1 .. Len(s) /\ DOMAIN Append(s, x) = 1 .. (Len(s) + 1)
        /\ \A i \in 1 .. Len(s) : Append(s, x)[i] = s[i]
        /\ Append(s, x)[Len(s) + 1] = x
    OBVIOUS
  <2>2. Len(s) \in Nat
    OBVIOUS
  <2> QED BY <2>1, <2>2 DEF Range
<1>2. ASSUME s # << >> PROVE Range(Tail(s)) \subseteq Range(s) /\ Head(s) \in Range(s)
  <2>1. /\ DOMAIN s = 1 .. Len(s) /\ Len(s) \in Nat \ {0}
        /\ DOMAIN Tail(s) = 1 .. (Len(s) - 1) /\ Head(s) = s[1]
        /\ \A i \in 1 .. (Len(s) - 1) : Tail(s)[i] = s[i + 1]
    BY <1>2
  <2> QED BY <2>1 DEF Range
<1>3. Range(<< >>) = {}
  BY DEF Range
<1> QED BY <1>1, <1>2, <1>3

(* An identifier enters what is under way with the call it was made for and *)
(* keeps its request from then on.                                          *)
Written == IF pc = "write" /\ out.kind = "call" THEN {<<out.id, out.about>>} ELSE {}

\* The calls and answers that Carried collects.
Bearers ==
  {x \in Range(toGopls) : x.kind = "call"} \cup owed
    \cup {x \in Range(fromGopls) : x.kind = "answer"} \cup inHand \cup channel

LEMMA CarriedBears == Carried = {<<m.id, m.about>> : m \in Bearers}
BY DEF Carried, Bearers

LEMMA PipesTyped ==
  ASSUME TypeOK
  PROVE  /\ toGopls \in Seq(CallMsgs \cup DocMsgs \cup Notes)
         /\ fromGopls \in Seq(Answers \cup DiagMsgs)
         /\ out \in CallMsgs \cup DocMsgs \cup Notes
BY DEF TypeOK, ProxyTypeOK

LEMMA BearersStep ==
  ASSUME TypeOK, [Next]_vars
  PROVE  /\ Carried' \subseteq Carried \cup Written
         /\ Carried' \subseteq Carried \/ Write
<1> DEFINE Less == Bearers' \subseteq Bearers
<1>0. ASSUME Less PROVE Carried' \subseteq Carried
  BY <1>0 DEF Carried, Bearers
<1>1. CASE UNCHANGED <<toGopls, fromGopls, owed, inHand>> /\ channel' \in {channel, {}}
  <2>1. Less
    BY <1>1 DEF Bearers
  <2> QED BY <2>1, <1>0
<1>2. CASE Write
  <2>1. Range(toGopls') = Range(toGopls) \cup {out}
    BY <1>2, PipesTyped, Pipe DEF Write
  <2>2. Bearers' \subseteq Bearers \cup {x \in {out} : x.kind = "call"}
    BY <1>2, <2>1 DEF Write, Bearers
  <2>3. pc = "write"
    BY <1>2 DEF Write
  <2>4. Carried' \subseteq Carried \cup Written
    BY <2>2, <2>3 DEF Carried, Bearers, Written
  <2> QED BY <1>2, <2>4
<1>3. CASE ReadAnswer
  <2>1. /\ Range(fromGopls') \subseteq Range(fromGopls)
        /\ Head(fromGopls) \in {x \in Range(fromGopls) : x.kind = "answer"}
    BY <1>3, PipesTyped, Pipe DEF ReadAnswer
  <2>2. Less
    BY <1>3, <2>1 DEF ReadAnswer, Bearers, callVars, processVars
  <2> QED BY <2>2, <1>0
<1>4. CASE HandOver
  <2>1. Less
    BY <1>4 DEF HandOver, Bearers, processVars
  <2> QED BY <2>1, <1>0
<1>5. CASE Forward
  <2>1. Range(fromGopls') \subseteq Range(fromGopls)
    BY <1>5, PipesTyped, Pipe DEF Forward
  <2>2. Less
    BY <1>5, <2>1 DEF Forward, Bearers, callVars, processVars
  <2> QED BY <2>2, <1>0
<1>6. CASE GoplsReads
  <2>1. Range(toGopls') \subseteq Range(toGopls) /\ Head(toGopls) \in Range(toGopls)
    BY <1>6, PipesTyped, Pipe DEF GoplsReads
  <2>2. /\ owed' = IF Head(toGopls).kind = "call" THEN owed \cup {Head(toGopls)} ELSE owed
        /\ UNCHANGED <<fromGopls, inHand, channel>>
    BY <1>6 DEF GoplsReads, callVars
  <2>3. Less
    BY <2>1, <2>2 DEF Bearers
  <2> QED BY <2>3, <1>0
<1>7. CASE GoplsAnswers
  <2>1. PICK c \in owed, ok \in BOOLEAN :
          /\ owed' = owed \ {c}
          /\ fromGopls' = Append(fromGopls, [kind |-> "answer", id |-> c.id,
                                             about |-> c.about, ok |-> ok, view |-> known])
    BY <1>7 DEF GoplsAnswers
  <2> DEFINE r == [kind |-> "answer", id |-> c.id, about |-> c.about, ok |-> ok,
                   view |-> known]
  <2>2. r \in Answers
    BY Kinds DEF TypeOK, ProxyTypeOK, Answers
  <2>3. r.id = c.id /\ r.about = c.about
    OBVIOUS
  <2> HIDE DEF r
  <2>4. Range(fromGopls') = Range(fromGopls) \cup {r}
    BY <2>1, <2>2, PipesTyped, Pipe DEF r
  <2>5. Bearers' \subseteq Bearers \cup {r} /\ c \in Bearers
    BY <1>7, <2>1, <2>4 DEF GoplsAnswers, Bearers, callVars
  <2> QED BY <2>3, <2>5, CarriedBears DEF Carried, Bearers
<1>8. CASE GoplsPublishes
  <2>1. PICK d \in Docs :
          fromGopls' = Append(fromGopls, [kind |-> "diagnostics", doc |-> d, text |-> known[d]])
    BY <1>8 DEF GoplsPublishes
  <2> DEFINE m == [kind |-> "diagnostics", doc |-> d, text |-> known[d]]
  <2>2. m \in DiagMsgs /\ m.kind = "diagnostics"
    BY DEF TypeOK, ProxyTypeOK, DiagMsgs, Views
  <2> HIDE DEF m
  <2>3. Range(fromGopls') = Range(fromGopls) \cup {m}
    BY <2>1, <2>2, PipesTyped, Pipe DEF m
  <2>4. Less
    BY <1>8, <2>2, <2>3 DEF GoplsPublishes, Bearers, callVars, processVars
  <2> QED BY <2>4, <1>0
<1>9. CASE GoplsDies
  <2>1. Range(toGopls') = {}
    BY <1>9, Pipe, PipesTyped DEF GoplsDies
  <2>2. Less
    BY <1>9, <2>1 DEF GoplsDies, Bearers, callVars
  <2> QED BY <2>2, <1>0
<1>10. CASE Handle
  BY <1>10, <1>1
     DEF Handle, Initialize, Query, Shutdown, UnknownRequest, DidOpen, DidChange, DidSave,
         DidClose, Exit, EditorGone, SyncAndDiagnose, BeginCall, BeginNotify, notifyFrame,
         others, proxyVars
<1>11. CASE Continue
  BY <1>11, <1>1, <1>2
     DEF Continue, Greet, Respond, Bye, Stopped, WriteFails, TakeAnswer, Expire, ForgetCall,
         BeginNotify, others
<1>12. CASE Terminated \/ UNCHANGED vars
  BY <1>12, <1>1 DEF Terminated, vars, proxyVars
<1> QED BY <1>3, <1>4, <1>5, <1>6, <1>7, <1>8, <1>9, <1>10, <1>11, <1>12
        DEF Next, ReadLoop, Gopls

-----------------------------------------------------------------------------
(***************************************************************************)
(* Identifiers are used once.                                             *)
(***************************************************************************)
IdTypes == nextID \in Nat /\ pending \subseteq Nat /\ asked \in Nat /\ replies \in Seq(SUBSET Nat)

LEMMA TypedIds == TypeOK => IdTypes
BY DEF TypeOK, ProxyTypeOK, IdTypes

\* What the handlers do to the proxy: a call, a notification or nothing.
Notifies == \E m, next : m.kind # "call" /\ BeginNotify(m, next)

LEMMA HandleCases ==
  ASSUME TypeOK, Handle
  PROVE  /\ pc = "idle"
         /\ UNCHANGED <<answer, inHand, toGopls, fromGopls, owed, known>>
         /\ gopls' = gopls \/ session = "new"
         /\ \/ BeginCall(asked', "greet") \/ BeginCall(asked', "respond")
            \/ BeginCall(asked + 1, "bye") /\ asked' = asked
            \/ Notifies /\ UNCHANGED <<nextID, pending, channel>> /\ then' = "idle"
            \/ UNCHANGED <<out, nextID, pending, channel>> /\ pc' \in {"idle", "exited", "aborted"}
<1> USE MadeKinds DEF Notifies, notifyFrame, others, proxyVars
<1>1. CASE Initialize
  BY <1>1 DEF Initialize, Receive
<1>2. CASE Query
  BY <1>2 DEF Query, Receive
<1>3. CASE Shutdown \/ UnknownRequest
  BY <1>3 DEF Shutdown, UnknownRequest, Receive
<1>4. ASSUME NEW d \in Docs, DidOpen(d) \/ DidChange(d) \/ DidSave(d) \/ DidClose(d)
      PROVE  /\ pc = "idle" /\ UNCHANGED notifyFrame
             /\ \/ Notifies /\ then' = "idle"
                \/ UNCHANGED <<out, pc>>
  <2>1. UNCHANGED notifyFrame /\ pc = "idle"
    BY <1>4 DEF DidOpen, DidChange, DidSave, DidClose, Receive
  <2>2. \/ UNCHANGED <<out, pc>>
        \/ \E k \in {"open", "change", "close"} : \E t : BeginNotify(DocMsg(k, d, t), "idle")
    BY <1>4 DEF DidOpen, DidChange, DidSave, DidClose, SyncAndDiagnose
  <2> QED BY <2>1, <2>2 DEF BeginNotify
<1>5. CASE Exit \/ EditorGone
  BY <1>5 DEF Exit, EditorGone, serverVars
<1> QED BY <1>1, <1>2, <1>3, <1>4, <1>5 DEF Handle

\* What the others leave alone of Server.Run's calls.
LEMMA OthersCases ==
  ASSUME ReadLoop \/ Gopls
  PROVE  /\ UNCHANGED <<pc, then, out, answer, nextID, session, asked, replies>>
         /\ gopls' = gopls \/ (gopls = "up" /\ gopls' = "dead")
         /\ ReadAnswer \/ HandOver \/ UNCHANGED <<pending, channel, inHand>>
BY DEF ReadLoop, ReadAnswer, HandOver, Forward, Gopls, GoplsReads, GoplsAnswers,
       GoplsPublishes, GoplsDies, serverVars, callVars, processVars

\* What Server.Run does between two messages of the editor.
LEMMA ContinueCases ==
  ASSUME TypeOK, Turns, Continue
  PROVE  /\ UNCHANGED <<nextID, inHand, asked, session>>
         /\ gopls' = gopls \/ gopls' = "dead"
         /\ pending' = pending \/ (pc = "expired" /\ pending' = pending \ {CurrentID})
         /\ channel' = channel \/ (pc = "wait" /\ channel' = {} /\ answer' = channel)
         /\ answer' \in {answer, {}} \/ (pc = "wait" /\ channel # {} /\ answer' = channel)
         /\ \/ out' = out /\ UNCHANGED then
               /\ (InCall' => InCall) /\ (pc = "wait" /\ ~InCall' => channel # {})
            \/ out'.kind # "call" /\ pc' = "write" /\ ~InCall
BY MadeKinds DEF Continue, Greet, Respond, Bye, Stopped, Write, WriteFails, TakeAnswer, Expire,
       ForgetCall, BeginNotify, others, serverVars, Turns, InCall

LEMMA CarriedTyped ==
  ASSUME TypeOK, [Next]_vars
  PROVE  \A p \in Carried' : p[1] \in Nat
<1>1. \A m \in Bearers : m.id \in Nat
  <2>1. Range(toGopls) \subseteq CallMsgs \cup DocMsgs \cup Notes
    BY PipesTyped DEF Range
  <2>2. Range(fromGopls) \subseteq Answers \cup DiagMsgs
    BY PipesTyped DEF Range
  <2>3. owed \subseteq CallMsgs /\ inHand \subseteq Answers /\ channel \subseteq Answers
    BY DEF TypeOK, ProxyTypeOK
  <2> QED BY <2>1, <2>2, <2>3, Kinds DEF Bearers
<1>2. out.kind = "call" => out.id \in Nat
  BY PipesTyped, Kinds
<1> QED BY <1>1, <1>2, BearersStep, CarriedBears DEF Written

LEMMA FreshStep ==
  ASSUME TypeOK, Turns, Fresh, [Next]_vars
  PROVE  Fresh'
<1>0. IdTypes /\ CurrentID = nextID - 1 /\ CurrentID' = nextID' - 1
  BY TypedIds DEF CurrentID
<1>1. \A p \in Carried' : p[1] < nextID
  <2>1. out.kind = "call" => out.id < nextID
    BY <1>0 DEF Fresh, IdTypes
  <2> QED BY <2>1, BearersStep DEF Fresh, Written
<1>2. CASE Handle
  <2>1. CASE \E n, next : BeginCall(n, next) /\ inHand' = inHand
    <3>1. /\ nextID' = nextID + 1 /\ out'.id = nextID /\ channel' = {}
          /\ pending' = pending \cup {nextID} /\ inHand' = inHand
      BY <2>1, MadeKinds DEF BeginCall
    <3>2. \A p \in Carried' : p[1] < nextID + 1
      <4>1. ASSUME NEW p \in Carried' PROVE p[1] < nextID + 1
        <5>1. p[1] < nextID /\ p[1] \in Nat
          BY <1>1, CarriedTyped
        <5> QED BY <5>1, <1>0 DEF IdTypes
      <4> QED BY <4>1
    <3> QED BY <3>1, <3>2, <1>0 DEF Fresh, IdTypes
  <2>2. CASE UNCHANGED <<nextID, pending, channel, inHand>> /\ (out'.kind # "call" \/ out' = out)
    BY <2>2, <1>0, <1>1 DEF Fresh
  <2> QED BY <1>2, <2>1, <2>2, HandleCases DEF Notifies, BeginNotify
<1>3. CASE Continue
  BY <1>0, <1>1, <1>3, ContinueCases DEF Fresh
<1>4. CASE ReadLoop \/ Gopls
  <2>1. CASE ReadAnswer
    BY <1>0, <1>1, <1>4, <2>1, OthersCases DEF Fresh, ReadAnswer, callVars
  <2>2. CASE HandOver
    BY <1>0, <1>1, <1>4, <2>2, OthersCases DEF Fresh, HandOver
  <2>3. CASE UNCHANGED <<pending, channel, inHand>>
    BY <1>0, <1>1, <1>4, <2>3, OthersCases DEF Fresh
  <2> QED BY <1>4, <2>1, <2>2, <2>3, OthersCases
<1>5. CASE Terminated \/ UNCHANGED vars
  BY <1>0, <1>1, <1>5 DEF Terminated, vars, proxyVars, Fresh
<1> QED BY <1>2, <1>3, <1>4, <1>5 DEF Next

LEMMA FreshInit == Init => Fresh
<1> SUFFICES ASSUME Init PROVE Fresh
  OBVIOUS
<1>1. Carried = {}
  BY Pipe DEF Init, ProxyInit, Carried, Range
<1> QED BY <1>1, MadeKinds DEF Init, ProxyInit, Fresh

(***************************************************************************)
(* Who may still use an entry of pending.                                 *)
(***************************************************************************)
LEMMA BearersFresh ==
  ASSUME Fresh
  PROVE  \A m \in Bearers : m.id < nextID
<1>1. \A m \in Bearers : <<m.id, m.about>> \in Carried
  BY CarriedBears
<1> QED BY <1>1 DEF Fresh

LEMMA AwaitedStep ==
  ASSUME TypeOK, Turns, Fresh, Awaited, [Next]_vars
  PROVE  Awaited'
<1>0. IdTypes /\ CurrentID = nextID - 1 /\ CurrentID' = nextID' - 1
  BY TypedIds DEF CurrentID
<1>1. CASE Handle
  <2>1. /\ pc = "idle" /\ ~InCall /\ inHand' = inHand
        /\ \A i \in pending : gopls' = "dead"
    BY <1>1, HandleCases DEF Awaited, Turns, InCall
  <2>2. CASE \E n, next : BeginCall(n, next)
    <3>1. /\ nextID' = nextID + 1 /\ out'.kind = "call" /\ channel' = {} /\ pc' = "write"
          /\ pending' = pending \cup {nextID}
      BY <2>2, MadeKinds DEF BeginCall
    <3>2. \A r \in inHand : r.id # nextID
      BY <1>0, BearersFresh DEF Bearers, IdTypes
    <3> QED BY <1>0, <2>1, <3>1, <3>2 DEF Awaited, InCall, IdTypes
  <2>3. CASE UNCHANGED <<nextID, pending, channel>>
    BY <1>0, <2>1, <2>3 DEF Awaited
  <2> QED BY <1>1, <2>2, <2>3, HandleCases
<1>2. CASE Continue
  <2>1. /\ nextID' = nextID /\ inHand' = inHand /\ channel' \subseteq channel
        /\ pending' \subseteq pending
    BY <1>2, ContinueCases
  <2>2. ASSUME NEW i \in pending', gopls # "dead"
        PROVE  i = CurrentID' /\ InCall' /\ out'.kind = "call"
    <3>1. i = CurrentID /\ InCall /\ out.kind = "call" /\ i \in pending
      BY <2>1, <2>2 DEF Awaited
    <3>2. pc # "expired"
      BY <1>2, <2>2, <3>1 DEF Continue, Greet, Respond, Bye, Stopped, Write, WriteFails,
                              TakeAnswer, Expire, ForgetCall
    <3>3. channel = {}
      BY <3>1 DEF Awaited, Fresh
    <3>4. InCall' /\ out' = out
      BY <1>2, <2>2, <3>1, <3>2, <3>3
         DEF Continue, Greet, Respond, Bye, Stopped, Write, WriteFails, TakeAnswer, Expire,
             ForgetCall, InCall
    <3> QED BY <1>0, <2>1, <3>1, <3>4
  <2>3. gopls = "dead" => gopls' = "dead"
    BY <1>2, ContinueCases
  <2> QED BY <2>1, <2>2, <2>3 DEF Awaited
<1>3. CASE ReadLoop \/ Gopls
  <2>1. /\ UNCHANGED <<pc, out, nextID>> /\ InCall' = InCall /\ CurrentID' = CurrentID
        /\ gopls = "dead" => gopls' = "dead"
    BY <1>0, <1>3, OthersCases DEF InCall
  <2>2. CASE ReadAnswer
    BY <2>1, <2>2 DEF Awaited, ReadAnswer, callVars
  <2>3. CASE HandOver
    BY <2>1, <2>3 DEF Awaited, HandOver
  <2>4. CASE UNCHANGED <<pending, channel, inHand>>
    BY <2>1, <2>4 DEF Awaited
  <2> QED BY <1>3, <2>2, <2>3, <2>4, OthersCases
<1>4. CASE Terminated \/ UNCHANGED vars
  BY <1>0, <1>4 DEF Terminated, vars, proxyVars, Awaited, InCall
<1> QED BY <1>1, <1>2, <1>3, <1>4 DEF Next

(***************************************************************************)
(* What bears the identifier of a call was made for it.                   *)
(***************************************************************************)
LEMMA OwnAnswerStep ==
  ASSUME TypeOK, Turns, Fresh, OwnAnswer, [Next]_vars
  PROVE  OwnAnswer'
<1>0. IdTypes
  BY TypedIds
<1>1. out.kind = "call" => \A p \in Carried' : p[1] = out.id => p[2] = out.about
  BY BearersStep DEF OwnAnswer, Written
<1>2. CASE Handle
  <2>1. pc = "idle" /\ answer' = answer /\ answer = {}
    BY <1>2, HandleCases DEF Turns
  <2>2. CASE \E n, next : /\ BeginCall(n, next)
                          /\ next # "bye" => n = asked'
    <3>1. PICK n, next : BeginCall(n, next) /\ (next # "bye" => n = asked')
      BY <2>2
    <3>2. /\ out'.kind = "call" /\ out'.id = nextID /\ out'.about = n
          /\ then' = next /\ pc' = "write"
      BY <3>1, MadeKinds DEF BeginCall
    <3>3. Carried' \subseteq Carried
      BY <2>1, BearersStep DEF Written
    <3>4. \A p \in Carried' : p[1] # nextID
      BY <1>0, <3>3 DEF Fresh, IdTypes
    <3> QED BY <2>1, <3>1, <3>2, <3>4 DEF OwnAnswer, InCall
  <2>3. CASE Notifies
    BY <2>1, <2>3 DEF Notifies, BeginNotify, OwnAnswer
  <2>4. CASE out' = out /\ pc' \in {"idle", "exited", "aborted"}
    BY <1>1, <2>1, <2>4 DEF OwnAnswer, InCall
  <2> QED BY <1>2, <2>2, <2>3, <2>4, HandleCases
<1>3. CASE Continue
  <2>1. asked' = asked
    BY <1>3, ContinueCases
  <2>2. CASE out'.kind # "call" /\ pc' = "write"
    BY <2>2 DEF OwnAnswer
  <2>3. CASE out' = out /\ UNCHANGED then /\ (InCall' => InCall)
    <3>1. pc' \in {"greet", "respond"} => \A r \in answer' : r.about = asked
      <4>1. CASE TakeAnswer
        <5>1. \A r \in channel : r.id = out.id /\ <<r.id, r.about>> \in Carried
          BY <4>1, CarriedBears DEF Fresh, Turns, TakeAnswer, Bearers
        <5>2. \A r \in channel : r.about = out.about
          BY <4>1, <5>1 DEF OwnAnswer, Turns, TakeAnswer
        <5> QED BY <4>1, <5>2 DEF OwnAnswer, Turns, TakeAnswer, InCall
      <4>2. CASE answer' = {}
        BY <4>2
      <4>3. CASE answer' = answer /\ ~TakeAnswer
        BY <1>3, <4>3 DEF OwnAnswer, Turns, Continue, Greet, Respond, Bye, Stopped, Write,
                          WriteFails, TakeAnswer, Expire, ForgetCall, BeginNotify, InCall
      <4> QED BY <1>3, <4>1, <4>2, <4>3 DEF Continue, Greet, Respond, Bye, Stopped, Write,
                          WriteFails, TakeAnswer, Expire, ForgetCall
    <3> QED BY <1>1, <2>1, <2>3, <3>1 DEF OwnAnswer
  <2> QED BY <1>3, <2>2, <2>3, ContinueCases
<1>4. CASE ReadLoop \/ Gopls
  BY <1>1, <1>4, OthersCases DEF OwnAnswer, InCall
<1>5. CASE Terminated \/ UNCHANGED vars
  BY <1>1, <1>5 DEF Terminated, vars, proxyVars, serverVars, OwnAnswer, InCall
<1> QED BY <1>2, <1>3, <1>4, <1>5 DEF Next

-----------------------------------------------------------------------------
(***************************************************************************)
(* The invariant and what follows from it.                                *)
(***************************************************************************)
IInv == TypeOK /\ Turns /\ Fresh /\ Awaited /\ OwnAnswer

\* The invariant holds throughout, for any documents, pipes and messages.
THEOREM LspInductive == Spec => []IInv
<1>1. Init => Turns /\ Fresh /\ Awaited /\ OwnAnswer
  BY TurnsInit, FreshInit, MadeKinds DEF Init, ProxyInit, Awaited, OwnAnswer, InCall
<1>2. TypeOK /\ Turns /\ Fresh /\ Awaited /\ OwnAnswer /\ [Next]_vars
        => Turns' /\ Fresh' /\ Awaited' /\ OwnAnswer'
  BY TurnsStep, FreshStep, AwaitedStep, OwnAnswerStep
<1> QED BY <1>1, <1>2, LspTypeCorrect, PTL DEF Spec, IInv

(* No entry of the pending map outlives its call while gopls lives.         *)
THEOREM PendingEntriesAwaited == Spec => []PendingIsAwaited
<1>1. IInv => PendingIsAwaited
  BY DEF IInv, Awaited, PendingIsAwaited, InCall
<1> QED BY <1>1, LspInductive, PTL

(* The language server implements RequestReply: each request is answered    *)
(* once and in order, with nothing or with gopls' answer to it.  This is    *)
(* the safety part of AnswersOnceInOrder.                                   *)
LEMMA StepImplements ==
  ASSUME IInv, [Next]_vars
  PROVE  [Promise!Next]_(Promise!vars)
<1> USE DEF IInv, Promise!Next, Promise!vars, Promise!Take, Promise!Reply, Promise!TakeAndReply
<1>1. CASE Handle
  <2>1. asked = Len(replies)
    BY <1>1, HandleCases DEF Turns, Busy, InCall
  <2>2. \/ asked' = asked + 1 /\ replies' \in {replies, Append(replies, {})}
        \/ UNCHANGED <<asked, replies>>
    BY <1>1 DEF Handle, Initialize, Query, Shutdown, UnknownRequest, DidOpen, DidChange,
                DidSave, DidClose, Exit, EditorGone, serverVars
  <2> QED BY <2>1, <2>2
<1>2. CASE Respond
  <2>1. asked = Len(replies) + 1 /\ asked' = asked
    BY <1>2 DEF Respond, Turns, Busy
  <2>2. {r.about : r \in {a \in answer : a.ok}} \in {{}, {asked}}
    BY <1>2 DEF Respond, OwnAnswer
  <2> QED BY <1>2, <2>1, <2>2 DEF Respond
<1>3. CASE Continue /\ ~Respond
  BY <1>3 DEF Continue, Greet, Bye, Stopped, serverVars
<1>4. CASE ReadLoop \/ Gopls
  BY <1>4, OthersCases
<1>5. CASE Terminated \/ UNCHANGED vars
  BY <1>5 DEF Terminated, vars, serverVars
<1> QED BY <1>1, <1>2, <1>3, <1>4, <1>5 DEF Next

\* Each step of the server is one of RequestReply, or none it sees.
THEOREM ImplementsRequestReply == Spec => Promise!Spec
<1>1. Init => Promise!Init
  BY DEF Init, Promise!Init
<1>2. IInv /\ [Next]_vars => [Promise!Next]_(Promise!vars)
  BY StepImplements
<1> QED BY <1>1, <1>2, LspInductive, PTL DEF Spec, Promise!Spec
-----------------------------------------------------------------------------
(***************************************************************************)
(* Diagnostics in the order of the texts.  A text of a document comes from *)
(* its shadow file to the message being written, the pipe, gopls, the     *)
(* pipe back and the editor; along this way texts only get older, and     *)
(* between the stations there are texts a, b and c that divide them.      *)
(***************************************************************************)
About(m, kinds, d) == m.kind \in kinds /\ m.doc = d

Sets  == {"open", "change"}
Tells == {"diagnostics"}

\* The texts of d in the messages of the kinds lie in order from low to high.
Rising(s, kinds, d, low, high) ==
  /\ \A i \in 1 .. Len(s) : About(s[i], kinds, d) => low <= s[i].text /\ s[i].text <= high
  /\ \A i, j \in 1 .. Len(s) :
       i < j /\ About(s[i], kinds, d) /\ About(s[j], kinds, d) => s[i].text <= s[j].text

InOrder(d, a, b, c) ==
  /\ forwarded[d] <= a /\ a <= b /\ b <= c /\ c <= shadow[d]
  /\ Rising(fromGopls, Tells, d, forwarded[d], a)
  /\ known[d] # NoText => a <= known[d] /\ known[d] <= b
  /\ Rising(toGopls, Sets, d, b, c)
  /\ pc = "write" /\ About(out, Sets, d) => out.text = shadow[d]

Ordered ==
  pc \notin Ended =>
    /\ \A d \in Docs : \E a, b, c \in Nat : InOrder(d, a, b, c)
    /\ \A d \in Docs : shadow[d] <= received + 1
    /\ session = "new" => \A d \in Docs : shadow[d] = NoText

\* What a write and a read do to the order of a pipe.
LEMMA RisingAppend ==
  ASSUME NEW S, NEW s \in Seq(S), NEW x \in S, NEW kinds, NEW d,
         NEW low \in Nat, NEW high \in Nat, low <= high,
         \A m \in S : m.kind \in kinds => m.text \in Nat,
         Rising(s, kinds, d, low, high)
  PROVE  /\ ~About(x, kinds, d) => Rising(Append(s, x), kinds, d, low, high)
         /\ About(x, kinds, d) /\ high <= x.text =>
              Rising(Append(s, x), kinds, d, low, x.text)
<1> DEFINE t == Append(s, x)
<1>1. /\ Len(s) \in Nat /\ Len(t) = Len(s) + 1
      /\ \A i \in 1 .. Len(s) : t[i] = s[i] /\ s[i] \in S
      /\ t[Len(s) + 1] = x
  OBVIOUS
<1> HIDE DEF t
<1>2. \A i \in 1 .. Len(t) : i \in 1 .. Len(s) \/ i = Len(s) + 1
  BY <1>1
<1>3. \A i \in 1 .. Len(s) : About(s[i], kinds, d) =>
        s[i].text \in Nat /\ low <= s[i].text /\ s[i].text <= high
  BY <1>1 DEF About, Rising
<1>4. ASSUME ~About(x, kinds, d)
      PROVE  Rising(t, kinds, d, low, high)
  BY <1>1, <1>2, <1>4 DEF Rising
<1>5. ASSUME About(x, kinds, d), high <= x.text
      PROVE  Rising(t, kinds, d, low, x.text)
  <2>1. x.text \in Nat
    BY <1>5 DEF About
  <2>2. \A i \in 1 .. Len(t) : About(t[i], kinds, d) =>
          low <= t[i].text /\ t[i].text <= x.text
    BY <1>1, <1>2, <1>3, <1>5, <2>1
  <2>3. ASSUME NEW i \in 1 .. Len(t), NEW j \in 1 .. Len(t), i < j,
               About(t[i], kinds, d), About(t[j], kinds, d)
        PROVE  t[i].text <= t[j].text
    <3>1. i \in 1 .. Len(s)
      BY <1>1, <1>2, <2>3
    <3>2. CASE j \in 1 .. Len(s)
      BY <1>1, <2>3, <3>1, <3>2 DEF Rising
    <3>3. CASE j = Len(s) + 1
      BY <1>1, <2>2, <2>3, <3>3
    <3> QED BY <1>2, <3>2, <3>3
  <2> QED BY <2>2, <2>3 DEF Rising
<1> QED BY <1>4, <1>5 DEF t

LEMMA RisingTail ==
  ASSUME NEW S, NEW s \in Seq(S), s # << >>, NEW kinds, NEW d, NEW low, NEW high,
         Rising(s, kinds, d, low, high)
  PROVE  /\ Rising(Tail(s), kinds, d, low, high)
         /\ About(Head(s), kinds, d) =>
              /\ low <= Head(s).text /\ Head(s).text <= high
              /\ Rising(Tail(s), kinds, d, Head(s).text, high)
<1> DEFINE t == Tail(s)
<1>1. /\ Len(s) \in Nat \ {0} /\ Len(t) = Len(s) - 1 /\ Head(s) = s[1]
      /\ \A i \in 1 .. Len(t) : t[i] = s[i + 1]
  OBVIOUS
<1> HIDE DEF t
<1>2. 1 \in 1 .. Len(s) /\ \A i \in 1 .. Len(t) : i + 1 \in 1 .. Len(s) /\ 1 < i + 1
  BY <1>1
<1>3. Rising(t, kinds, d, low, high)
  <2>1. \A i \in 1 .. Len(t) : About(t[i], kinds, d) => low <= t[i].text /\ t[i].text <= high
    BY <1>1, <1>2 DEF Rising
  <2>2. ASSUME NEW i \in 1 .. Len(t), NEW j \in 1 .. Len(t), i < j,
               About(t[i], kinds, d), About(t[j], kinds, d)
        PROVE  t[i].text <= t[j].text
    <3>1. i + 1 < j + 1
      BY <1>1, <2>2
    <3> QED BY <1>1, <1>2, <2>2, <3>1 DEF Rising
  <2> QED BY <2>1, <2>2 DEF Rising
<1>4. ASSUME About(s[1], kinds, d)
      PROVE  /\ low <= s[1].text /\ s[1].text <= high
             /\ Rising(t, kinds, d, s[1].text, high)
  <2>1. low <= s[1].text /\ s[1].text <= high
    BY <1>2, <1>4 DEF Rising
  <2>2. \A i \in 1 .. Len(t) : About(t[i], kinds, d) => s[1].text <= t[i].text
    BY <1>1, <1>2, <1>4 DEF Rising
  <2> QED BY <1>3, <2>1, <2>2 DEF Rising
<1> QED BY <1>1, <1>3, <1>4 DEF t

LEMMA RisingEmpty == \A kinds, d, low, high : Rising(<< >>, kinds, d, low, high)
BY DEF Rising

\* Texts are numbers wherever they are.
LEMMA TextsTyped ==
  ASSUME TypeOK
  PROVE  /\ \A d \in Docs : /\ forwarded[d] \in Nat /\ known[d] \in Nat
                            /\ shadow[d] \in Nat /\ docs[d] \in Nat
         /\ \A m \in Answers \cup DiagMsgs : m.kind \in Tells => m.text \in Nat
         /\ \A m \in CallMsgs \cup DocMsgs \cup Notes : m.kind \in Sets => m.text \in Nat
         /\ received \in Nat
BY Kinds DEF TypeOK, ProxyTypeOK, Views, Tells, Sets

-----------------------------------------------------------------------------
(* The editor's messages: each shadow file gets a text that is not older,   *)
(* and a document that is written to gopls has the shadow file's text.      *)
Advanced ==
  /\ \A d \in Docs : shadow[d] <= shadow'[d] /\ shadow'[d] <= received' + 1
  /\ pc' = "write" => \A d \in Docs : About(out', Sets, d) => out'.text = shadow'[d]
  /\ session' = "new" => \A d \in Docs : shadow'[d] = NoText

LEMMA SyncAdvances ==
  ASSUME TypeOK, Ordered, pc = "idle", received' = received + 1, session' # "new",
         NEW d \in Docs, NEW text \in Nat, NEW valid \in BOOLEAN,
         valid => shadow[d] <= text /\ text <= received' + 1,
         SyncAndDiagnose(d, text, valid)
  PROVE  Advanced
<1> DEFINE content == Synced(d, text, valid)
<1>1. /\ shadow \in [Docs -> Nat] /\ received \in Nat
      /\ \A e \in Docs : shadow[e] \in Nat /\ shadow[e] <= received + 1
  BY TextsTyped DEF TypeOK, Views, Ordered, Ended
<1>2. content \in Nat /\ shadow[d] <= content /\ content <= received' + 1
  BY <1>1 DEF Synced
<1>3. shadow' = [shadow EXCEPT ![d] = content]
  BY DEF SyncAndDiagnose
<1>4. \A e \in Docs : shadow[e] <= shadow'[e] /\ shadow'[e] <= received' + 1
  BY <1>1, <1>2, <1>3
<1>5. pc' = "write" => out'.doc = d /\ out'.text = content
  BY DEF SyncAndDiagnose, BeginNotify, DocMsg
<1> HIDE DEF content
<1>6. pc' = "write" => \A e \in Docs : About(out', Sets, e) => out'.text = shadow'[e]
  BY <1>1, <1>3, <1>5 DEF About
<1> QED BY <1>4, <1>6 DEF Advanced

LEMMA HandleAdvances ==
  ASSUME TypeOK, Ordered, Handle, pc' \notin Ended
  PROVE  Advanced /\ UNCHANGED <<forwarded, fromGopls, toGopls, known>>
<1>1. pc = "idle" /\ UNCHANGED <<fromGopls, toGopls, known>>
  BY HandleCases
<1>2. UNCHANGED forwarded
  BY DEF Handle, Initialize, Query, Shutdown, UnknownRequest, DidOpen, DidChange,
         DidSave, DidClose, Exit, EditorGone, serverVars
<1>3. /\ received \in Nat /\ \A d \in Docs : shadow[d] \in Nat /\ docs[d] \in Nat
      /\ \A d \in Docs : shadow[d] <= received + 1
      /\ session = "new" => \A d \in Docs : shadow[d] = NoText
  BY <1>1, TextsTyped DEF Ordered, Ended
<1>4. CASE Initialize
  <2>1. /\ session = "new" /\ session' = "running" /\ received' = received + 1
        /\ \A d \in Docs : shadow'[d] \in {1, NoText}
    BY <1>4 DEF Initialize, Receive, Mirrors
  <2>2. pc' = "write" => out'.kind = "call"
    BY <1>1, <1>4, MadeKinds DEF Initialize, BeginCall
  <2> QED BY <1>1, <1>2, <1>3, <2>1, <2>2 DEF Advanced, About, Sets, NoText
<1>5. CASE Query \/ Shutdown \/ UnknownRequest
  <2>1. /\ session' # "new" /\ received' = received + 1 /\ shadow' = shadow
        /\ pc' = "write" => out'.kind = "call"
    BY <1>1, <1>5, MadeKinds
    DEF Query, Shutdown, UnknownRequest, Receive, BeginCall, proxyVars
  <2> QED BY <1>1, <1>2, <1>3, <2>1 DEF Advanced, About, Sets
<1>6. ASSUME NEW d \in Docs, DidOpen(d) \/ DidChange(d) PROVE Advanced
  <2>1. PICK valid \in BOOLEAN : SyncAndDiagnose(d, NewText, valid)
    BY <1>6 DEF DidOpen, DidChange
  <2>2. received' = received + 1 /\ session' # "new" /\ NewText = received + 2
    BY <1>6 DEF DidOpen, DidChange, Receive, NewText
  <2>3. NewText \in Nat /\ shadow[d] <= NewText /\ NewText <= received' + 1
    BY <1>3, <2>2
  <2> QED BY <1>1, <2>1, <2>2, <2>3, SyncAdvances
<1>7. ASSUME NEW d \in Docs, DidSave(d) PROVE Advanced
  <2> DEFINE valid == shadow[d] = docs[d]
  <2>1. SyncAndDiagnose(d, docs[d], valid) /\ valid \in BOOLEAN
    BY <1>7 DEF DidSave
  <2>2. received' = received + 1 /\ session' # "new" /\ docs[d] \in Nat
    BY <1>3, <1>7 DEF DidSave, Receive
  <2>3. valid => shadow[d] <= docs[d] /\ docs[d] <= received' + 1
    BY <1>3, <2>2
  <2> HIDE DEF valid
  <2> QED BY <1>1, <2>1, <2>2, <2>3, SyncAdvances
<1>8. ASSUME NEW d \in Docs, DidClose(d) PROVE Advanced
  <2>1. /\ session' # "new" /\ received' = received + 1 /\ shadow' = shadow
        /\ pc' = "write" => out'.kind = "close"
    BY <1>1, <1>8, MadeKinds DEF DidClose, Receive, BeginNotify
  <2> QED BY <1>1, <1>3, <2>1 DEF Advanced, About, Sets
<1>9. CASE Exit
  <2>1. /\ session' = session /\ session # "new" /\ received' = received /\ shadow' = shadow
        /\ pc' = "write" => out'.kind = "call"
    BY <1>9, MadeKinds DEF Exit, BeginCall, Ended
  <2> QED BY <1>1, <1>2, <1>3, <2>1 DEF Advanced, About, Sets
<1>10. ~EditorGone
  BY DEF EditorGone, Ended
<1> QED BY <1>1, <1>2, <1>4, <1>5, <1>6, <1>7, <1>8, <1>9, <1>10 DEF Handle

-----------------------------------------------------------------------------
LEMMA OrderedInit == Init => Ordered
<1> SUFFICES ASSUME Init PROVE Ordered
  OBVIOUS
<1>1. /\ \A d \in Docs : forwarded[d] = 0 /\ known[d] = 0 /\ shadow[d] = 0
      /\ fromGopls = << >> /\ toGopls = << >> /\ pc = "idle" /\ received = 0
  BY DEF Init, ProxyInit, NoText
<1>2. ASSUME NEW d \in Docs PROVE InOrder(d, 0, 0, 0)
  BY <1>1, RisingEmpty DEF InOrder, NoText
<1> QED BY <1>1, <1>2 DEF Ordered, NoText

\* The editor's part leaves a, b and c.
LEMMA HandleOrdered ==
  ASSUME TypeOK, Ordered, Handle
  PROVE  Ordered'
<1> SUFFICES ASSUME pc' \notin Ended PROVE Ordered'
  BY DEF Ordered
<1>1. Advanced /\ UNCHANGED <<forwarded, fromGopls, toGopls, known>>
  BY HandleAdvances
<1>2. TypeOK' /\ pc = "idle"
  BY EditorTypes, HandleCases
<1>3. ASSUME NEW d \in Docs, NEW a \in Nat, NEW b \in Nat, NEW c \in Nat, InOrder(d, a, b, c)
      PROVE  InOrder(d, a, b, c)'
  <2>1. shadow[d] \in Nat /\ shadow'[d] \in Nat
    BY <1>2, TextsTyped DEF TypeOK, Views
  <2>2. c <= shadow'[d]
    BY <1>1, <1>3, <2>1 DEF Advanced, InOrder
  <2> QED BY <1>1, <1>3, <2>2 DEF Advanced, InOrder
<1>4. \A d \in Docs : \E a, b, c \in Nat : InOrder(d, a, b, c)
  BY <1>2 DEF Ordered, Ended
<1>5. \A d \in Docs : \E a, b, c \in Nat : InOrder(d, a, b, c)'
  BY <1>3, <1>4
<1> QED BY <1>1, <1>5 DEF Ordered, Advanced

\* A step of the proxy or of gopls moves one text along.
Moved(d) ==
  \A a, b, c \in Nat : InOrder(d, a, b, c) => \E e, f, g \in Nat : InOrder(d, e, f, g)'

LEMMA MovedOrdered ==
  ASSUME Ordered, pc \notin Ended, UNCHANGED <<shadow, received, session>>,
         \A d \in Docs : Moved(d)
  PROVE  Ordered'
BY DEF Ordered, Moved

\* Nothing that InOrder sees of d has changed.
LEMMA Unmoved ==
  ASSUME UNCHANGED <<forwarded, known, shadow, fromGopls, toGopls>>, NEW d \in Docs,
         pc' = "write" => ~About(out', Sets, d)
  PROVE  Moved(d)
BY DEF Moved, InOrder

LEMMA WriteMoves ==
  ASSUME TypeOK, Turns, Write, UNCHANGED serverVars, NEW d \in Docs
  PROVE  Moved(d)
<1> SUFFICES ASSUME NEW a \in Nat, NEW b \in Nat, NEW c \in Nat, InOrder(d, a, b, c)
             PROVE  \E e, f, g \in Nat : InOrder(d, e, f, g)'
  BY DEF Moved
<1>1. /\ pc = "write" /\ toGopls' = Append(toGopls, out) /\ pc' # "write"
      /\ UNCHANGED <<forwarded, known, shadow, fromGopls>>
  BY DEF Write, serverVars, Turns, InCall
<1>2. /\ a <= b /\ b <= c /\ c <= shadow[d] /\ Rising(toGopls, Sets, d, b, c)
      /\ forwarded[d] <= a /\ Rising(fromGopls, Tells, d, forwarded[d], a)
      /\ known[d] # NoText => a <= known[d] /\ known[d] <= b
      /\ About(out, Sets, d) => out.text = shadow[d]
  BY <1>1 DEF InOrder
<1>3. /\ ~About(out, Sets, d) => Rising(toGopls', Sets, d, b, c)
      /\ About(out, Sets, d) /\ c <= out.text => Rising(toGopls', Sets, d, b, out.text)
  BY <1>1, <1>2, RisingAppend, PipesTyped, TextsTyped
<1>4. CASE About(out, Sets, d)
  <2>1. shadow[d] \in Nat /\ b <= shadow[d]
    BY <1>2, TextsTyped
  <2>2. InOrder(d, a, b, shadow[d])'
    BY <1>1, <1>2, <1>3, <1>4, <2>1 DEF InOrder
  <2> QED BY <1>1, <2>1, <2>2
<1>5. CASE ~About(out, Sets, d)
  <2>1. InOrder(d, a, b, c)'
    BY <1>1, <1>2, <1>3, <1>5 DEF InOrder
  <2> QED BY <2>1
<1> QED BY <1>4, <1>5

LEMMA ContinueOrdered ==
  ASSUME TypeOK, Turns, Ordered, Continue
  PROVE  Ordered'
<1>1. CASE Stopped
  BY <1>1 DEF Stopped, Ordered, Ended
<1>2. CASE Write
  <2>1. pc \notin Ended /\ UNCHANGED <<shadow, received, session>>
    BY <1>2 DEF Continue, Greet, Respond, Bye, Stopped, Write, WriteFails, TakeAnswer, Expire,
                ForgetCall, Ended, serverVars
  <2>2. UNCHANGED serverVars
    BY <1>2 DEF Continue, Greet, Respond, Bye, Stopped, Write
  <2> QED BY <1>2, <2>1, <2>2, WriteMoves, MovedOrdered
<1>3. CASE Continue /\ ~Stopped /\ ~Write
  <2>1. /\ pc \notin Ended /\ UNCHANGED <<forwarded, known, shadow, fromGopls, toGopls>>
        /\ UNCHANGED <<received, session>>
    BY <1>3 DEF Continue, Greet, Respond, Bye, WriteFails, TakeAnswer, Expire, ForgetCall,
                others, serverVars, Ended
  <2>2. pc' = "write" => out'.kind \in {"initialized", "exit"}
    BY <1>3, MadeKinds DEF Continue, Greet, Respond, Bye, WriteFails, TakeAnswer, Expire,
                ForgetCall, BeginNotify, Turns, InCall
  <2>3. \A d \in Docs : Moved(d)
    BY <2>1, <2>2, Unmoved DEF About, Sets
  <2> QED BY <2>1, <2>3, MovedOrdered
<1> QED BY <1>1, <1>2, <1>3

LEMMA ForwardMoves ==
  ASSUME TypeOK, Forward, NEW d \in Docs
  PROVE  Moved(d)
<1> SUFFICES ASSUME NEW a \in Nat, NEW b \in Nat, NEW c \in Nat, InOrder(d, a, b, c)
             PROVE  \E e, f, g \in Nat : InOrder(d, e, f, g)'
  BY DEF Moved
<1> DEFINE m == Head(fromGopls)
<1>1. /\ fromGopls # << >> /\ m.kind \in Tells /\ fromGopls' = Tail(fromGopls)
      /\ forwarded' = [forwarded EXCEPT ![m.doc] = m.text]
      /\ UNCHANGED <<pc, out, known, shadow, toGopls>>
  BY DEF Forward, callVars, processVars, Tells
<1>2. Rising(fromGopls, Tells, d, forwarded[d], a)
  BY DEF InOrder
<1>3. /\ Rising(fromGopls', Tells, d, forwarded[d], a)
      /\ About(m, Tells, d) => m.text <= a /\ Rising(fromGopls', Tells, d, m.text, a)
  BY <1>1, <1>2, RisingTail, PipesTyped
<1>4. forwarded'[d] = IF About(m, Tells, d) THEN m.text ELSE forwarded[d]
  BY <1>1 DEF TypeOK, Views, About
<1> HIDE DEF m
<1>5. InOrder(d, a, b, c)'
  BY <1>1, <1>3, <1>4 DEF InOrder
<1> QED BY <1>5

LEMMA ReadLoopOrdered ==
  ASSUME TypeOK, Ordered, ReadLoop
  PROVE  Ordered'
<1>1. pc \notin Ended /\ UNCHANGED <<pc, out, shadow, received, session, known, toGopls>>
  BY DEF ReadLoop, ReadAnswer, HandOver, Forward, serverVars, callVars, processVars
<1>2. ASSUME NEW d \in Docs PROVE Moved(d)
  <2>1. CASE Forward
    BY <2>1, ForwardMoves
  <2>2. CASE ~Forward
    <3>1. UNCHANGED forwarded /\ (fromGopls' = fromGopls \/
            (fromGopls # << >> /\ fromGopls' = Tail(fromGopls)))
      BY <2>2 DEF ReadLoop, ReadAnswer, HandOver, serverVars
    <3>2. \A a : Rising(fromGopls, Tells, d, forwarded[d], a)
                   => Rising(fromGopls', Tells, d, forwarded[d], a)
      BY <3>1, RisingTail, PipesTyped
    <3> QED BY <1>1, <3>1, <3>2 DEF Moved, InOrder
  <2> QED BY <2>1, <2>2
<1> QED BY <1>1, <1>2, MovedOrdered

LEMMA ReadMoves ==
  ASSUME TypeOK, GoplsReads, UNCHANGED serverVars, NEW d \in Docs
  PROVE  Moved(d)
<1> SUFFICES ASSUME NEW a \in Nat, NEW b \in Nat, NEW c \in Nat, InOrder(d, a, b, c)
             PROVE  \E e, f, g \in Nat : InOrder(d, e, f, g)'
  BY DEF Moved
<1> DEFINE m == Head(toGopls)
<1>1. /\ toGopls # << >> /\ toGopls' = Tail(toGopls)
      /\ UNCHANGED <<pc, out, forwarded, shadow, fromGopls>>
  BY DEF GoplsReads, callVars, serverVars
<1>2. /\ a <= b /\ b <= c /\ c <= shadow[d] /\ Rising(toGopls, Sets, d, b, c)
      /\ forwarded[d] <= a /\ Rising(fromGopls, Tells, d, forwarded[d], a)
      /\ known[d] # NoText => a <= known[d] /\ known[d] <= b
      /\ pc = "write" /\ About(out, Sets, d) => out.text = shadow[d]
  BY DEF InOrder
<1>3. /\ Rising(toGopls', Sets, d, b, c)
      /\ About(m, Sets, d) => /\ b <= m.text /\ m.text <= c
                              /\ Rising(toGopls', Sets, d, m.text, c)
  BY <1>1, <1>2, RisingTail, PipesTyped
<1>4. known'[d] \in {known[d], NoText} \/ (About(m, Sets, d) /\ known'[d] = m.text)
  BY DEF GoplsReads, TypeOK, ProxyTypeOK, Views, About, Sets
<1>5. m.kind \in Sets => m.text \in Nat
  <2>1. m \in CallMsgs \cup DocMsgs \cup Notes
    BY <1>1, PipesTyped
  <2> HIDE DEF m
  <2> QED BY <2>1, TextsTyped
<1> HIDE DEF m
<1>6. CASE About(m, Sets, d) /\ known'[d] = m.text
  <2>1. PICK k \in Nat : k = m.text
    BY <1>5, <1>6 DEF About
  <2>2. /\ b <= k /\ k <= c /\ known'[d] = k
        /\ Rising(toGopls', Sets, d, k, c)
    BY <1>3, <1>6, <2>1
  <2>3. InOrder(d, a, k, c)'
    BY <1>1, <1>2, <2>2 DEF InOrder
  <2> QED BY <2>3
<1>7. CASE known'[d] \in {known[d], NoText}
  <2>1. InOrder(d, a, b, c)'
    BY <1>1, <1>2, <1>3, <1>7 DEF InOrder
  <2> QED BY <2>1
<1> QED BY <1>4, <1>6, <1>7

LEMMA PublishMoves ==
  ASSUME TypeOK, GoplsPublishes, UNCHANGED serverVars, NEW d \in Docs
  PROVE  Moved(d)
<1> SUFFICES ASSUME NEW a \in Nat, NEW b \in Nat, NEW c \in Nat, InOrder(d, a, b, c)
             PROVE  \E e, f, g \in Nat : InOrder(d, e, f, g)'
  BY DEF Moved
<1>1. PICK p \in Docs : /\ known[p] # NoText
                        /\ fromGopls' = Append(fromGopls, [kind |-> "diagnostics", doc |-> p,
                                                           text |-> known[p]])
  BY DEF GoplsPublishes
<1> DEFINE x == [kind |-> "diagnostics", doc |-> p, text |-> known[p]]
<1>2. x \in Answers \cup DiagMsgs /\ x.text = known[p] /\ (About(x, Tells, d) <=> p = d)
  BY TextsTyped DEF DiagMsgs, About, Tells
<1>3. fromGopls' = Append(fromGopls, x)
  BY <1>1
<1> HIDE DEF x
<1>4. UNCHANGED <<pc, out, forwarded, known, shadow, toGopls>>
  BY DEF GoplsPublishes, callVars, processVars, serverVars
<1>5. /\ a <= b /\ b <= c /\ c <= shadow[d] /\ Rising(toGopls, Sets, d, b, c)
      /\ forwarded[d] <= a /\ Rising(fromGopls, Tells, d, forwarded[d], a)
      /\ known[d] # NoText => a <= known[d] /\ known[d] <= b
      /\ pc = "write" /\ About(out, Sets, d) => out.text = shadow[d]
      /\ forwarded[d] \in Nat /\ known[d] \in Nat
  BY TextsTyped DEF InOrder
<1>6. /\ ~About(x, Tells, d) => Rising(fromGopls', Tells, d, forwarded[d], a)
      /\ About(x, Tells, d) /\ a <= x.text => Rising(fromGopls', Tells, d, forwarded[d], x.text)
  BY <1>2, <1>3, <1>5, RisingAppend, PipesTyped, TextsTyped
<1>7. CASE p = d
  <2>1. PICK k \in Nat : k = known[d]
    BY <1>5
  <2>2. a <= k /\ k <= b /\ Rising(fromGopls', Tells, d, forwarded[d], k)
    BY <1>1, <1>2, <1>5, <1>6, <1>7, <2>1
  <2>3. InOrder(d, k, b, c)'
    BY <1>4, <1>5, <2>1, <2>2 DEF InOrder
  <2> QED BY <2>3
<1>8. CASE p # d
  <2>1. InOrder(d, a, b, c)'
    BY <1>2, <1>4, <1>5, <1>6, <1>8 DEF InOrder
  <2> QED BY <2>1
<1> QED BY <1>7, <1>8

LEMMA AnswerMoves ==
  ASSUME TypeOK, GoplsAnswers, UNCHANGED serverVars, NEW d \in Docs
  PROVE  Moved(d)
<1> SUFFICES ASSUME NEW a \in Nat, NEW b \in Nat, NEW c \in Nat, InOrder(d, a, b, c)
             PROVE  InOrder(d, a, b, c)'
  BY DEF Moved
<1>1. PICK x : x \in Answers /\ fromGopls' = Append(fromGopls, x)
  BY Kinds DEF GoplsAnswers, TypeOK, ProxyTypeOK, Answers
<1>2. ~About(x, Tells, d)
  BY <1>1, Kinds DEF About, Tells
<1>3. /\ forwarded[d] \in Nat /\ forwarded[d] <= a
      /\ Rising(fromGopls, Tells, d, forwarded[d], a)
  BY TextsTyped DEF InOrder
<1>4. Rising(fromGopls', Tells, d, forwarded[d], a)
  BY <1>1, <1>2, <1>3, RisingAppend, PipesTyped, TextsTyped
<1>5. UNCHANGED <<pc, out, forwarded, known, shadow, toGopls>>
  BY DEF GoplsAnswers, callVars, serverVars
<1> QED BY <1>4, <1>5 DEF InOrder

LEMMA DeathMoves ==
  ASSUME GoplsDies, UNCHANGED serverVars, NEW d \in Docs
  PROVE  Moved(d)
<1>1. /\ toGopls' = << >> /\ known'[d] = NoText
      /\ UNCHANGED <<pc, out, forwarded, shadow, fromGopls>>
  BY DEF GoplsDies, callVars, serverVars
<1> QED BY <1>1, RisingEmpty DEF Moved, InOrder

LEMMA GoplsOrdered ==
  ASSUME TypeOK, Ordered, Gopls
  PROVE  Ordered'
<1>1. /\ pc \notin Ended /\ UNCHANGED serverVars
      /\ GoplsReads \/ GoplsAnswers \/ GoplsPublishes \/ GoplsDies
  BY DEF Gopls
<1>2. \A d \in Docs : Moved(d)
  BY <1>1, ReadMoves, AnswerMoves, PublishMoves, DeathMoves
<1>3. UNCHANGED <<shadow, received, session>>
  BY <1>1 DEF serverVars
<1> QED BY <1>1, <1>2, <1>3, MovedOrdered

LEMMA OrderedStep ==
  ASSUME TypeOK, Turns, Ordered, [Next]_vars
  PROVE  Ordered'
<1>1. CASE Terminated \/ UNCHANGED vars
  BY <1>1 DEF Terminated, vars, proxyVars, serverVars, Ordered, InOrder
<1> QED BY <1>1, HandleOrdered, ContinueOrdered, ReadLoopOrdered, GoplsOrdered DEF Next

LEMMA ForwardedRises ==
  ASSUME TypeOK, Ordered, [Next]_vars, NEW d \in Docs
  PROVE  forwarded'[d] >= forwarded[d]
<1>1. forwarded[d] \in Nat
  BY TextsTyped
<1>2. CASE Forward
  <2> DEFINE m == Head(fromGopls)
  <2>1. /\ fromGopls # << >> /\ m.kind \in Tells /\ pc \notin Ended
        /\ forwarded' = [forwarded EXCEPT ![m.doc] = m.text]
    BY <1>2 DEF Forward, Tells
  <2>2. PICK a, b, c \in Nat : InOrder(d, a, b, c)
    BY <2>1 DEF Ordered
  <2>3. About(m, Tells, d) => forwarded[d] <= m.text
    BY <2>1, <2>2, RisingTail, PipesTyped DEF InOrder
  <2>4. forwarded'[d] = IF About(m, Tells, d) THEN m.text ELSE forwarded[d]
    BY <2>1 DEF TypeOK, Views, About
  <2>5. m.text \in Nat
    <3>1. m \in Answers \cup DiagMsgs
      BY <2>1, PipesTyped
    <3> HIDE DEF m
    <3> QED BY <2>1, <3>1, TextsTyped
  <2> HIDE DEF m
  <2> QED BY <1>1, <2>3, <2>4, <2>5
<1>3. CASE ~Forward
  <2>1. forwarded' = forwarded
    BY <1>3 DEF Next, Handle, Initialize, Query, Shutdown, UnknownRequest, DidOpen, DidChange,
         DidSave, DidClose, Exit, EditorGone, Continue, Greet, Respond, Bye, Stopped, ReadLoop,
         Gopls, Terminated, vars, serverVars
  <2> QED BY <1>1, <2>1
<1> QED BY <1>2, <1>3

\* Diagnostics of gopls reach the editor in the order of the texts, for any
\* documents and capacity of the pipes, although all bear version 2.
THEOREM DiagnosticsInOrder == Spec => DiagnosticsMoveForward
<1>1. TypeOK /\ Ordered /\ [Next]_vars => [\A d \in Docs : forwarded'[d] >= forwarded[d]]_vars
  BY ForwardedRises
<1>2. TypeOK /\ Turns /\ Ordered /\ [Next]_vars => Ordered'
  BY OrderedStep
<1>3. IInv => TypeOK /\ Turns
  BY DEF IInv
<1> QED BY <1>1, <1>2, <1>3, OrderedInit, LspInductive, PTL DEF Spec, DiagnosticsMoveForward
-----------------------------------------------------------------------------
(***************************************************************************)
(* What gopls has open.  `Had` is HasBefore of any sequence of messages   *)
(* and any text gopls starts from; its lemmas say what a message that is  *)
(* begun and one that is read do to it.                                   *)
(***************************************************************************)
Speaks(m, d) == m.kind \in {"open", "change", "close"} /\ m.doc = d

Had(s, first, n, d, text) ==
  \/ first = text /\ \A i \in 1 .. n - 1 : ~Speaks(s[i], d)
  \/ \E i \in 1 .. n - 1 : /\ Speaks(s[i], d) /\ s[i].text = text
                           /\ \A j \in i + 1 .. n - 1 : ~Speaks(s[j], d)

LEMMA HadHasBefore ==
  \A n, d, text : HasBefore(n, d, text) <=> Had(UnderWay, known[d], n, d, text)
BY DEF HasBefore, Had, Says, Speaks

\* There is one text that gopls has of a document.
LEMMA HadOnce ==
  ASSUME NEW s, NEW first, NEW n \in Nat, NEW d, NEW t, NEW u,
         Had(s, first, n, d, t), Had(s, first, n, d, u)
  PROVE  t = u
<1>1. CASE \A i \in 1 .. n - 1 : ~Speaks(s[i], d)
  BY <1>1 DEF Had
<1>2. CASE \E i \in 1 .. n - 1 : Speaks(s[i], d)
  <2>1. PICK i \in 1 .. n - 1 : /\ Speaks(s[i], d) /\ s[i].text = t
                                /\ \A j \in i + 1 .. n - 1 : ~Speaks(s[j], d)
    BY <1>2 DEF Had
  <2>2. PICK k \in 1 .. n - 1 : /\ Speaks(s[k], d) /\ s[k].text = u
                                /\ \A j \in k + 1 .. n - 1 : ~Speaks(s[j], d)
    BY <1>2 DEF Had
  <2>3. ~(i < k) /\ ~(k < i)
    BY <2>1, <2>2
  <2> QED BY <2>1, <2>2, <2>3
<1> QED BY <1>1, <1>2

LEMMA HadAppend ==
  ASSUME NEW S, NEW s \in Seq(S), NEW x \in S, NEW first, NEW d, NEW t
  PROVE  /\ \A n \in 1 .. Len(s) + 1 :
              Had(s, first, n, d, t) => Had(Append(s, x), first, n, d, t)
         /\ Speaks(x, d) => Had(Append(s, x), first, Len(s) + 2, d, x.text)
         /\ ~Speaks(x, d) /\ Had(s, first, Len(s) + 1, d, t)
              => Had(Append(s, x), first, Len(s) + 2, d, t)
<1> DEFINE a == Append(s, x)
<1>1. /\ Len(s) \in Nat /\ \A i \in 1 .. Len(s) : a[i] = s[i]
      /\ a[Len(s) + 1] = x
  OBVIOUS
<1> HIDE DEF a
<1>2. ASSUME NEW n \in 1 .. Len(s) + 1, Had(s, first, n, d, t) PROVE Had(a, first, n, d, t)
  <2>1. \A i \in 1 .. n - 1 : a[i] = s[i]
    BY <1>1
  <2>2. CASE first = t /\ \A i \in 1 .. n - 1 : ~Speaks(s[i], d)
    BY <2>1, <2>2 DEF Had
  <2>3. CASE \E i \in 1 .. n - 1 : /\ Speaks(s[i], d) /\ s[i].text = t
                                   /\ \A j \in i + 1 .. n - 1 : ~Speaks(s[j], d)
    <3>1. PICK i \in 1 .. n - 1 : /\ Speaks(s[i], d) /\ s[i].text = t
                                  /\ \A j \in i + 1 .. n - 1 : ~Speaks(s[j], d)
      BY <2>3
    <3>2. \A j \in i + 1 .. n - 1 : j \in 1 .. n - 1
      OBVIOUS
    <3> QED BY <2>1, <3>1, <3>2 DEF Had
  <2> QED BY <1>2, <2>2, <2>3 DEF Had
<1>3. ASSUME Speaks(x, d) PROVE Had(a, first, Len(s) + 2, d, x.text)
  <2>1. /\ Len(s) + 1 \in 1 .. (Len(s) + 2) - 1
        /\ \A j \in (Len(s) + 1) + 1 .. (Len(s) + 2) - 1 : FALSE
    BY <1>1
  <2> QED BY <1>1, <1>3, <2>1 DEF Had
<1>4. ASSUME ~Speaks(x, d), Had(s, first, Len(s) + 1, d, t)
      PROVE  Had(a, first, Len(s) + 2, d, t)
  <2>1. \A i \in 1 .. (Len(s) + 2) - 1 : i \in 1 .. (Len(s) + 1) - 1 \/ a[i] = x
    BY <1>1
  <2>2. Had(a, first, Len(s) + 1, d, t)
    BY <1>1, <1>2, <1>4
  <2>3. CASE first = t /\ \A i \in 1 .. (Len(s) + 1) - 1 : ~Speaks(a[i], d)
    BY <1>4, <2>1, <2>3 DEF Had
  <2>4. CASE \E i \in 1 .. (Len(s) + 1) - 1 :
               /\ Speaks(a[i], d) /\ a[i].text = t
               /\ \A j \in i + 1 .. (Len(s) + 1) - 1 : ~Speaks(a[j], d)
    <3>1. PICK i \in 1 .. (Len(s) + 1) - 1 :
               /\ Speaks(a[i], d) /\ a[i].text = t
               /\ \A j \in i + 1 .. (Len(s) + 1) - 1 : ~Speaks(a[j], d)
      BY <2>4
    <3>2. i \in 1 .. (Len(s) + 2) - 1
      BY <1>1
    <3>3. \A j \in i + 1 .. (Len(s) + 2) - 1 : j \in i + 1 .. (Len(s) + 1) - 1 \/ a[j] = x
      BY <1>1
    <3>4. \A j \in i + 1 .. (Len(s) + 2) - 1 : ~Speaks(a[j], d)
      BY <1>4, <3>1, <3>3
    <3> QED BY <3>1, <3>2, <3>4 DEF Had
  <2> QED BY <2>2, <2>3, <2>4 DEF Had
<1> QED BY <1>2, <1>3, <1>4 DEF a

LEMMA HadTail ==
  ASSUME NEW S, NEW s \in Seq(S), s # << >>, NEW first, NEW d, NEW t,
         NEW n \in 1 .. Len(s), Had(s, first, n + 1, d, t)
  PROVE  Had(Tail(s), IF Speaks(Head(s), d) THEN Head(s).text ELSE first, n, d, t)
<1> DEFINE r   == Tail(s)
           now == IF Speaks(Head(s), d) THEN Head(s).text ELSE first
<1> SUFFICES Had(r, now, n, d, t)
  OBVIOUS
<1>1. /\ Len(s) \in Nat \ {0} /\ Head(s) = s[1]
      /\ \A i \in 1 .. Len(s) - 1 : r[i] = s[i + 1]
  OBVIOUS
<1> HIDE DEF r
<1>2. \A i \in 1 .. n - 1 : r[i] = s[i + 1] /\ i + 1 \in 1 .. (n + 1) - 1
  BY <1>1
<1>3. CASE first = t /\ \A i \in 1 .. (n + 1) - 1 : ~Speaks(s[i], d)
  <2>1. 1 \in 1 .. (n + 1) - 1
    OBVIOUS
  <2>2. now = t /\ \A i \in 1 .. n - 1 : ~Speaks(r[i], d)
    BY <1>1, <1>2, <1>3, <2>1
  <2> HIDE DEF now
  <2> QED BY <2>2 DEF Had
<1>4. CASE \E i \in 1 .. (n + 1) - 1 : /\ Speaks(s[i], d) /\ s[i].text = t
                                       /\ \A j \in i + 1 .. (n + 1) - 1 : ~Speaks(s[j], d)
  <2>1. PICK i \in 1 .. (n + 1) - 1 : /\ Speaks(s[i], d) /\ s[i].text = t
                                      /\ \A j \in i + 1 .. (n + 1) - 1 : ~Speaks(s[j], d)
    BY <1>4
  <2>2. \A j \in i .. n - 1 : j + 1 \in i + 1 .. (n + 1) - 1 /\ j \in 1 .. n - 1
    OBVIOUS
  <2>3. \A j \in i .. n - 1 : ~Speaks(r[j], d)
    BY <1>2, <2>1, <2>2
  <2>4. CASE i = 1
    <3>1. now = t
      BY <1>1, <2>1, <2>4
    <3>2. \A j \in 1 .. n - 1 : ~Speaks(r[j], d)
      BY <2>3, <2>4
    <3> HIDE DEF now
    <3> QED BY <3>1, <3>2 DEF Had
  <2>5. CASE i # 1
    <3>1. i - 1 \in 1 .. n - 1 /\ (i - 1) + 1 = i
      BY <2>5
    <3>2. Speaks(r[i - 1], d) /\ r[i - 1].text = t
      BY <1>2, <2>1, <3>1
    <3> HIDE DEF now
    <3> QED BY <2>3, <3>1, <3>2 DEF Had
  <2> QED BY <2>4, <2>5
<1> QED BY <1>3, <1>4 DEF Had

(***************************************************************************)
(* The conversation with gopls: what is under way leaves open in gopls    *)
(* what goplsOpened says, with the text expected of it, and every message *)
(* under way fits the ones before it.                                     *)
(***************************************************************************)
Expected(d) == IF docs[d] = NoText THEN NoText ELSE shadow[d]

\* A document is opened if it is not open, and changed or closed if it is.
Fits(m, s, first, n) ==
  /\ m.kind = "open" => Had(s, first[m.doc], n, m.doc, NoText)
  /\ m.kind \in {"change", "close"} =>
       \E t \in Nat \ {NoText} : Had(s, first[m.doc], n, m.doc, t)
  /\ m.kind = "close" => m.text = NoText

Polite(s, first) == \A i \in 1 .. Len(s) : Fits(s[i], s, first, i)

Dialogue ==
  /\ session = "new" => /\ toGopls = << >> /\ opened = {}
                        /\ \A d \in Docs : known[d] = NoText /\ docs[d] = NoText
  /\ gopls = "up" =>
       /\ Polite(UnderWay, known)
       /\ \A d \in Docs : /\ Had(UnderWay, known[d], Len(UnderWay) + 1, d, Expected(d))
                          /\ d \in opened <=> Expected(d) # NoText

Messages == CallMsgs \cup DocMsgs \cup Notes

LEMMA UnderWayTyped == TypeOK => UnderWay \in Seq(Messages) /\ toGopls \in Seq(Messages)
BY PipesTyped DEF UnderWay, Messages

LEMMA MessageKinds ==
  \A m \in Messages : m.kind \in {"open", "change", "close"} =>
                        m \in DocMsgs /\ m.doc \in Docs /\ m.text \in Nat
BY Kinds DEF Messages

LEMMA PoliteAppend ==
  ASSUME NEW s \in Seq(Messages), NEW x \in Messages, NEW first \in Views,
         Polite(s, first), Fits(x, s, first, Len(s) + 1)
  PROVE  Polite(Append(s, x), first)
<1> DEFINE a == Append(s, x)
<1>1. /\ Len(s) \in Nat /\ Len(a) = Len(s) + 1
      /\ \A i \in 1 .. Len(s) : a[i] = s[i]
      /\ a[Len(s) + 1] = x
  OBVIOUS
<1>2. ASSUME NEW m, NEW n \in 1 .. Len(s) + 1, Fits(m, s, first, n)
      PROVE  Fits(m, a, first, n)
  BY <1>2, HadAppend DEF Fits
<1> HIDE DEF a
<1>3. \A i \in 1 .. Len(a) : i \in 1 .. Len(s) \/ i = Len(s) + 1
  BY <1>1
<1>4. \A i \in 1 .. Len(a) : Fits(a[i], a, first, i)
  <2>1. ASSUME NEW i \in 1 .. Len(s) PROVE Fits(a[i], a, first, i)
    <3>1. Fits(s[i], s, first, i) /\ i \in 1 .. Len(s) + 1
      BY <1>1 DEF Polite
    <3> QED BY <1>1, <1>2, <3>1
  <2>2. Fits(a[Len(s) + 1], a, first, Len(s) + 1)
    <3>1. Len(s) + 1 \in 1 .. Len(s) + 1
      BY <1>1
    <3> QED BY <1>1, <1>2, <3>1
  <2> QED BY <1>3, <2>1, <2>2
<1> QED BY <1>4 DEF Polite, a

\* What gopls has after it has read m.
Heard(first, m) == [d \in Docs |-> IF Speaks(m, d) THEN m.text ELSE first[d]]

LEMMA PoliteTail ==
  ASSUME NEW s \in Seq(Messages), s # << >>, NEW first \in Views, Polite(s, first)
  PROVE  Polite(Tail(s), Heard(first, Head(s)))
<1> DEFINE r   == Tail(s)
           now == Heard(first, Head(s))
<1>1. /\ Len(s) \in Nat \ {0} /\ Len(r) = Len(s) - 1
      /\ \A i \in 1 .. Len(r) : r[i] = s[i + 1] /\ s[i + 1] \in Messages
  OBVIOUS
<1>2. ASSUME NEW d \in Docs, NEW t, NEW i \in 1 .. Len(s), Had(s, first[d], i + 1, d, t)
      PROVE  Had(r, now[d], i, d, t)
  <2>1. Had(r, IF Speaks(Head(s), d) THEN Head(s).text ELSE first[d], i, d, t)
    BY <1>2, HadTail
  <2> QED BY <2>1 DEF Heard
<1> HIDE DEF r, now
<1>3. ASSUME NEW i \in 1 .. Len(r) PROVE Fits(r[i], r, now, i)
  <2>1. Fits(s[i + 1], s, first, i + 1) /\ r[i] = s[i + 1] /\ i \in 1 .. Len(s)
    BY <1>1 DEF Polite
  <2>2. r[i].kind \in {"open", "change", "close"} => r[i].doc \in Docs
    BY <1>1, MessageKinds
  <2> QED BY <1>2, <2>1, <2>2 DEF Fits
<1> QED BY <1>3 DEF Polite, r, now

\* What a step of Server.Run does to the conversation: nothing, or it begins
\* a message that is not about a document, or one that brings the expected
\* text of a document.
Same == opened' = opened /\ \A d \in Docs : Expected(d)' = Expected(d)

Brings(k, d) ==
  LET t == Expected(d)' IN
  /\ UnderWay' = Append(UnderWay, DocMsg(k, d, t))
  /\ k = "open" => Expected(d) = NoText
  /\ k \in {"change", "close"} => Expected(d) # NoText
  /\ k = "close" => t = NoText
  /\ d \in opened' <=> t # NoText
  /\ \A e \in Docs \ {d} : Expected(e)' = Expected(e) /\ (e \in opened' <=> e \in opened)

Converses ==
  \/ Same /\ UnderWay' = UnderWay
  \/ Same /\ \E x \in CallMsgs \cup Notes : UnderWay' = Append(UnderWay, x)
  \/ \E k \in {"open", "change", "close"}, d \in Docs : Brings(k, d)

LEMMA ConversesKeeps ==
  ASSUME TypeOK, TypeOK', Dialogue, gopls = "up", session' # "new", known' = known, Converses
  PROVE  Dialogue'
<1>1. /\ UnderWay \in Seq(Messages) /\ known \in Views /\ Polite(UnderWay, known)
      /\ \A d \in Docs : /\ Had(UnderWay, known[d], Len(UnderWay) + 1, d, Expected(d))
                         /\ d \in opened <=> Expected(d) # NoText
  BY UnderWayTyped DEF Dialogue, TypeOK, ProxyTypeOK
<1>2. CASE Same /\ UnderWay' = UnderWay
  BY <1>1, <1>2 DEF Dialogue, Same
<1>3. CASE Same /\ \E x \in CallMsgs \cup Notes : UnderWay' = Append(UnderWay, x)
  <2>1. PICK x \in CallMsgs \cup Notes : UnderWay' = Append(UnderWay, x)
    BY <1>3
  <2>2. x.kind \notin {"open", "change", "close"} /\ x \in Messages
    BY Kinds DEF Messages
  <2>3. Polite(UnderWay', known)
    BY <1>1, <2>1, <2>2, PoliteAppend DEF Fits
  <2>4. Len(UnderWay') + 1 = Len(UnderWay) + 2
    BY <1>1, <2>1, <2>2
  <2>5. \A d \in Docs : Had(UnderWay', known[d], Len(UnderWay') + 1, d, Expected(d))
    BY <1>1, <2>1, <2>2, <2>4, HadAppend DEF Speaks
  <2> QED BY <1>1, <1>3, <2>3, <2>5 DEF Dialogue, Same
<1>4. ASSUME NEW k \in {"open", "change", "close"}, NEW d \in Docs, Brings(k, d)
      PROVE  Dialogue'
  <2> DEFINE t == Expected(d)'
             x == DocMsg(k, d, t)
  <2>1. t \in Nat
    BY DEF Expected, TypeOK, Views, NoText
  <2>2. x \in Messages /\ x.kind = k /\ x.doc = d /\ x.text = t
    BY <2>1, Made DEF Messages, DocMsg
  <2>3. /\ UnderWay' = Append(UnderWay, x)
        /\ k = "open" => Expected(d) = NoText
        /\ k \in {"change", "close"} => Expected(d) # NoText
        /\ k = "close" => t = NoText
        /\ d \in opened' <=> t # NoText
        /\ \A e \in Docs \ {d} : Expected(e)' = Expected(e) /\ (e \in opened' <=> e \in opened)
    BY <1>4 DEF Brings
  <2>4. Expected(d) \in Nat /\ Had(UnderWay, known[d], Len(UnderWay) + 1, d, Expected(d))
    BY <1>1, TextsTyped DEF Expected, NoText
  <2> HIDE DEF t, x
  <2>5. Fits(x, UnderWay, known, Len(UnderWay) + 1)
    BY <2>2, <2>3, <2>4 DEF Fits
  <2>6. Polite(UnderWay', known)
    BY <1>1, <2>2, <2>3, <2>5, PoliteAppend
  <2>7. Len(UnderWay') + 1 = Len(UnderWay) + 2
    BY <1>1, <2>2, <2>3
  <2>8. Had(UnderWay', known[d], Len(UnderWay') + 1, d, t)
    BY <1>1, <2>2, <2>3, <2>7, HadAppend DEF Speaks
  <2>9. \A e \in Docs \ {d} : Had(UnderWay', known[e], Len(UnderWay') + 1, e, Expected(e)')
    BY <1>1, <2>2, <2>3, <2>7, HadAppend DEF Speaks
  <2>10. \A e \in Docs : /\ Had(UnderWay', known[e], Len(UnderWay') + 1, e, Expected(e)')
                         /\ e \in opened' <=> Expected(e)' # NoText
    BY <1>1, <2>3, <2>8, <2>9 DEF t
  <2> QED BY <2>6, <2>10 DEF Dialogue
<1> QED BY <1>2, <1>3, <1>4 DEF Converses

LEMMA SyncConverses ==
  ASSUME TypeOK, Dialogue, gopls = "up", pc = "idle", toGopls' = toGopls,
         NEW d \in Docs, NEW text \in Nat \ {NoText}, NEW valid \in BOOLEAN,
         \E was \in Nat \ {NoText} : docs' = [docs EXCEPT ![d] = was],
         SyncAndDiagnose(d, text, valid)
  PROVE  Converses
<1> DEFINE content == Synced(d, text, valid)
           k       == IF d \in opened THEN "change" ELSE "open"
<1>1. /\ docs \in [Docs -> Nat] /\ shadow \in [Docs -> Nat]
      /\ \A e \in Docs : e \in opened <=> Expected(e) # NoText
  BY DEF TypeOK, Views, Dialogue
<1>2. /\ shadow' = [shadow EXCEPT ![d] = content]
      /\ content # NoText => opened' = opened \cup {d} /\ BeginNotify(DocMsg(k, d, content), "idle")
      /\ content = NoText => UNCHANGED <<opened, pc, out>>
  BY DEF SyncAndDiagnose
<1>3. content = NoText => shadow[d] = NoText
  BY DEF Synced
<1>4. UnderWay = toGopls
  BY DEF UnderWay
<1> HIDE DEF content
<1>5. Expected(d)' = content /\ \A e \in Docs \ {d} : Expected(e)' = Expected(e)
  BY <1>1, <1>2 DEF Expected
<1>6. CASE content = NoText
  <2>1. UnderWay' = UnderWay
    BY <1>2, <1>4, <1>6 DEF UnderWay
  <2>2. Expected(d) = NoText
    BY <1>3, <1>6 DEF Expected
  <2>3. Same
    BY <1>2, <1>5, <1>6, <2>2 DEF Same
  <2> QED BY <2>1, <2>3 DEF Converses
<1>7. CASE content # NoText
  <2>1. k \in {"open", "change", "close"} /\ UnderWay' = Append(UnderWay, DocMsg(k, d, content))
    BY <1>2, <1>4, <1>7 DEF UnderWay, BeginNotify
  <2>2. /\ k = "open" => Expected(d) = NoText
        /\ k \in {"change", "close"} => Expected(d) # NoText
        /\ k # "close"
    BY <1>1
  <2> HIDE DEF k
  <2>3. Brings(k, d)
    BY <1>2, <1>5, <1>7, <2>1, <2>2 DEF Brings
  <2> QED BY <2>1, <2>3 DEF Converses
<1> QED BY <1>6, <1>7

LEMMA CloseConverses ==
  ASSUME TypeOK, Dialogue, gopls = "up", pc = "idle", NEW d \in Docs, DidClose(d)
  PROVE  Converses
<1>1. /\ docs \in [Docs -> Nat] /\ \A e \in Docs : e \in opened <=> Expected(e) # NoText
  BY DEF TypeOK, Views, Dialogue
<1>2. /\ docs' = [docs EXCEPT ![d] = NoText] /\ opened' = opened \ {d}
      /\ shadow' = shadow /\ toGopls' = toGopls
      /\ d \in opened => BeginNotify(DocMsg("close", d, NoText), "idle")
      /\ d \notin opened => UNCHANGED <<pc, out>>
  BY DEF DidClose, notifyFrame, others
<1>3. Expected(d)' = NoText /\ \A e \in Docs \ {d} : Expected(e)' = Expected(e)
  BY <1>1, <1>2 DEF Expected
<1>4. CASE d \in opened
  <2>1. UnderWay' = Append(UnderWay, DocMsg("close", d, NoText))
    BY <1>2, <1>4 DEF UnderWay, BeginNotify
  <2>2. Brings("close", d)
    BY <1>1, <1>2, <1>3, <1>4, <2>1 DEF Brings
  <2> QED BY <2>2 DEF Converses
<1>5. CASE d \notin opened
  <2>1. Same /\ UnderWay' = UnderWay
    BY <1>1, <1>2, <1>3, <1>5 DEF Same, UnderWay
  <2> QED BY <2>1 DEF Converses
<1> QED BY <1>4, <1>5

LEMMA HandleConverses ==
  ASSUME TypeOK, TypeOK', Turns, Dialogue, Handle, gopls = "up"
  PROVE  Converses
<1>0. session # "new" /\ pc = "idle" /\ toGopls' = toGopls /\ UnderWay = toGopls
  BY HandleCases DEF Turns, UnderWay
<1>1. ASSUME NEW d \in Docs, DidOpen(d) \/ DidChange(d) PROVE Converses
  <2>1. NewText \in Nat \ {NoText} /\ docs' = [docs EXCEPT ![d] = NewText]
    BY <1>1 DEF DidOpen, DidChange, NewText, NoText, TypeOK
  <2>2. PICK valid \in BOOLEAN : SyncAndDiagnose(d, NewText, valid)
    BY <1>1 DEF DidOpen, DidChange
  <2> QED BY <1>0, <2>1, <2>2, SyncConverses
<1>2. ASSUME NEW d \in Docs, DidSave(d) PROVE Converses
  <2>1. docs[d] \in Nat \ {NoText} /\ docs' = [docs EXCEPT ![d] = docs[d]]
    BY <1>2 DEF DidSave, TypeOK, Views
  <2>2. PICK valid \in BOOLEAN : SyncAndDiagnose(d, docs[d], valid)
    <3>1. (shadow[d] = docs[d]) \in BOOLEAN
      OBVIOUS
    <3> QED BY <1>2, <3>1 DEF DidSave
  <2> QED BY <1>0, <2>1, <2>2, SyncConverses
<1>3. ASSUME NEW d \in Docs, DidClose(d) PROVE Converses
  BY <1>0, <1>3, CloseConverses
<1>4. CASE Query \/ Shutdown \/ UnknownRequest \/ Exit \/ EditorGone
  <2>1. Same
    BY <1>4 DEF Same, Expected, Query, Shutdown, UnknownRequest, Exit, EditorGone, serverVars
  <2>2. \/ \E n : BeginCall(n, "respond") \/ BeginCall(n, "bye")
        \/ out' = out /\ pc' \in {"idle", "exited", "aborted"}
    BY <1>0, <1>4 DEF Query, Shutdown, UnknownRequest, Exit, EditorGone, serverVars, proxyVars
  <2>3. ASSUME \E n : BeginCall(n, "respond") \/ BeginCall(n, "bye")
        PROVE  UnderWay' = Append(UnderWay, out') /\ out' \in CallMsgs
    <3>1. pc' = "write" /\ out'.kind = "call"
      BY <2>3, MadeKinds DEF BeginCall
    <3>2. out' \in CallMsgs
      BY <3>1, Kinds DEF TypeOK, ProxyTypeOK
    <3> QED BY <1>0, <3>1, <3>2 DEF UnderWay
  <2>4. ASSUME pc' \in {"idle", "exited", "aborted"} PROVE UnderWay' = UnderWay
    BY <1>0, <2>4 DEF UnderWay
  <2> QED BY <2>1, <2>2, <2>3, <2>4 DEF Converses
<1>5. ~Initialize
  BY <1>0 DEF Initialize, Receive
<1> QED BY <1>1, <1>2, <1>3, <1>4, <1>5 DEF Handle

LEMMA ContinueConverses ==
  ASSUME TypeOK, TypeOK', Turns, Continue, gopls = "up", gopls' = "up"
  PROVE  Converses /\ known' = known /\ session' = session
<1>1. Same /\ known' = known /\ session' = session
  BY DEF Same, Expected, Continue, Greet, Respond, Bye, Stopped, Write, WriteFails, TakeAnswer,
         Expire, ForgetCall, others, serverVars
<1>2. CASE Write
  <2>1. UnderWay' = UnderWay
    BY <1>2, MadeKinds DEF Write, UnderWay, Turns, InCall
  <2> QED BY <1>1, <2>1 DEF Converses
<1>3. CASE \E next : \E k \in {"initialized", "exit"} : BeginNotify(Note(k), next)
           /\ pc # "write" /\ toGopls' = toGopls
  <2>1. PICK k \in {"initialized", "exit"} : UnderWay' = Append(UnderWay, Note(k))
    BY <1>3 DEF UnderWay, BeginNotify
  <2> QED BY <1>1, <2>1, Made DEF Converses
<1>4. CASE pc # "write" /\ pc' # "write" /\ toGopls' = toGopls
  <2>1. UnderWay' = UnderWay
    BY <1>4 DEF UnderWay
  <2> QED BY <1>1, <2>1 DEF Converses
<1>5. \/ Write
      \/ \E next : \E k \in {"initialized", "exit"} : BeginNotify(Note(k), next)
         /\ pc # "write" /\ toGopls' = toGopls
      \/ pc # "write" /\ pc' # "write" /\ toGopls' = toGopls
  BY DEF Continue, Greet, Respond, Bye, Stopped, WriteFails, TakeAnswer,
         Expire, ForgetCall, others, Turns, InCall
<1> QED BY <1>1, <1>2, <1>3, <1>4, <1>5

\* What is under way when the message at the head of the pipe is read.
LEMMA ReadUnderWay ==
  ASSUME TypeOK, GoplsReads
  PROVE  /\ UnderWay # << >> /\ Head(UnderWay) = Head(toGopls)
         /\ UnderWay' = Tail(UnderWay)
<1>1. /\ toGopls \in Seq(Messages) /\ toGopls # << >> /\ toGopls' = Tail(toGopls)
      /\ out \in Messages /\ UNCHANGED <<pc, out>>
  BY PipesTyped DEF GoplsReads, callVars, Messages
<1>2. /\ Append(toGopls, out) # << >> /\ Head(Append(toGopls, out)) = Head(toGopls)
      /\ Tail(Append(toGopls, out)) = Append(Tail(toGopls), out)
  BY <1>1
<1> QED BY <1>1, <1>2 DEF UnderWay

LEMMA ReadKeeps ==
  ASSUME TypeOK, Turns, Dialogue, GoplsReads, UNCHANGED serverVars, gopls' = "up"
  PROVE  Dialogue'
<1> DEFINE m == Head(UnderWay)
<1>1. /\ UnderWay # << >> /\ m = Head(toGopls) /\ UnderWay' = Tail(UnderWay)
      /\ gopls = "up" /\ session' # "new"
  BY ReadUnderWay DEF GoplsReads, Turns, serverVars
<1>2. /\ UnderWay \in Seq(Messages) /\ known \in Views /\ Polite(UnderWay, known)
      /\ \A d \in Docs : /\ Had(UnderWay, known[d], Len(UnderWay) + 1, d, Expected(d))
                         /\ d \in opened <=> Expected(d) # NoText
  BY <1>1, UnderWayTyped DEF Dialogue, TypeOK, ProxyTypeOK
<1>3. known' = Heard(known, m)
  <2>1. m \in Messages /\ Fits(m, UnderWay, known, 1)
    BY <1>1, <1>2 DEF Polite
  <2>2. /\ m.kind \in {"open", "change", "close"} => m.doc \in Docs
        /\ m.kind = "close" => m.text = NoText
    BY <2>1, MessageKinds DEF Fits
  <2>3. known' = CASE m.kind \in {"open", "change"} -> [known EXCEPT ![m.doc] = m.text]
                   [] m.kind = "close" -> [known EXCEPT ![m.doc] = NoText]
                   [] OTHER -> known
    BY <1>1 DEF GoplsReads
  <2> HIDE DEF m
  <2> QED BY <1>2, <2>2, <2>3 DEF Heard, Speaks, Views
<1>4. Polite(UnderWay', known')
  BY <1>1, <1>2, <1>3, PoliteTail
<1>5. Len(UnderWay) \in Nat \ {0} /\ Len(UnderWay') + 1 = Len(UnderWay)
  BY <1>1, <1>2
<1>6. ASSUME NEW d \in Docs PROVE Had(UnderWay', known'[d], Len(UnderWay') + 1, d, Expected(d))
  <2>1. Had(Tail(UnderWay), IF Speaks(m, d) THEN m.text ELSE known[d], Len(UnderWay), d,
            Expected(d))
    BY <1>1, <1>2, <1>5, HadTail
  <2> HIDE DEF m
  <2> QED BY <1>1, <1>3, <1>5, <2>1 DEF Heard
<1>7. opened' = opened /\ \A d \in Docs : Expected(d)' = Expected(d)
  BY DEF Expected, serverVars
<1> QED BY <1>1, <1>2, <1>4, <1>6, <1>7 DEF Dialogue

LEMMA DialogueStep ==
  ASSUME TypeOK, TypeOK', Turns, Turns', Dialogue, [Next]_vars
  PROVE  Dialogue'
<1>1. CASE gopls' # "up" /\ session' # "new"
  BY <1>1 DEF Dialogue
<1>2. CASE Handle
  <2>1. CASE session = "new"
    <3>1. CASE Initialize
      <4>1. /\ toGopls' = << >> /\ opened' = {} /\ session' # "new"
            /\ \A d \in Docs : known'[d] = NoText /\ docs'[d] = NoText
        BY <2>1, <3>1 DEF Dialogue, Initialize
      <4>2. ASSUME gopls' = "up" PROVE pc' = "write" /\ out'.kind = "call"
        <5>1. gopls = "none"
          BY <2>1 DEF Turns
        <5>2. BeginCall(asked', "greet")
          BY <3>1, <4>2, <5>1 DEF Initialize
        <5> QED BY <5>2, MadeKinds DEF BeginCall
      <4> DEFINE m == out'
      <4>3. ASSUME gopls' = "up" PROVE UnderWay' = << m >> /\ m.kind = "call"
        BY <4>1, <4>2, <4>3 DEF UnderWay
      <4> HIDE DEF m
      <4>4. /\ Len(<< m >>) = 1 /\ \A i \in 1 .. 1 : << m >>[i] = m
        OBVIOUS
      <4>5. ASSUME gopls' = "up" PROVE Polite(UnderWay', known')
        BY <4>3, <4>4, <4>5 DEF Polite, Fits
      <4>6. ASSUME gopls' = "up", NEW d \in Docs
            PROVE  Had(UnderWay', known'[d], Len(UnderWay') + 1, d, NoText)
        <5>1. \A i \in 1 .. (1 + 1) - 1 : << m >>[i] = m
          BY <4>4
        <5> QED BY <4>1, <4>3, <4>4, <4>6, <5>1 DEF Had, Speaks
      <4> QED BY <4>1, <4>5, <4>6 DEF Dialogue, Expected
    <3>2. CASE EditorGone
      BY <2>1, <3>2 DEF Dialogue, EditorGone, others, serverVars, Turns
    <3>3. Initialize \/ EditorGone
      BY <1>2, <2>1 DEF Handle, Query, Shutdown, UnknownRequest, DidOpen, DidChange, DidSave,
                        DidClose, Exit, Receive
    <3> QED BY <3>1, <3>2, <3>3
  <2>2. CASE session # "new"
    <3>1. /\ gopls' = gopls /\ known' = known /\ session' # "new"
      BY <1>2, <2>2, HandleCases DEF Handle, Initialize, Query, Shutdown, UnknownRequest, DidOpen,
              DidChange, DidSave, DidClose, Exit, EditorGone, serverVars, Receive
    <3> QED BY <1>1, <1>2, <3>1, HandleConverses, ConversesKeeps
  <2> QED BY <2>1, <2>2
<1>3. CASE Continue
  <2>1. session' = session /\ (gopls' = gopls \/ gopls' = "dead")
    BY <1>3, ContinueCases
  <2>2. CASE gopls' = "up"
    BY <1>3, <2>1, <2>2, ContinueConverses, ConversesKeeps DEF Turns
  <2>3. CASE session = "new"
    BY <1>3, <2>3 DEF Continue, Greet, Respond, Bye, Stopped, Write, WriteFails, TakeAnswer,
                      Expire, ForgetCall, Turns
  <2> QED BY <1>1, <2>1, <2>2, <2>3
<1>4. CASE ReadLoop \/ (Gopls /\ ~GoplsReads /\ ~GoplsDies)
  <2>1. UNCHANGED <<pc, out, toGopls, known, gopls, session, docs, shadow, opened>>
    BY <1>4 DEF ReadLoop, ReadAnswer, HandOver, Forward, Gopls, GoplsAnswers, GoplsPublishes,
                callVars, processVars, serverVars
  <2> QED BY <2>1 DEF Dialogue, UnderWay, Expected
<1>5. CASE Gopls /\ (GoplsReads \/ GoplsDies)
  <2>1. gopls = "up" /\ session' = session /\ session # "new" /\ UNCHANGED serverVars
    BY <1>5 DEF Gopls, GoplsReads, GoplsDies, Turns, serverVars
  <2> QED BY <1>1, <1>5, <2>1, ReadKeeps DEF GoplsDies
<1>6. CASE Terminated \/ UNCHANGED vars
  <2>1. UNCHANGED <<pc, out, toGopls, known, gopls, session, docs, shadow, opened>>
    BY <1>6 DEF Terminated, vars, proxyVars, serverVars
  <2> QED BY <2>1 DEF Dialogue, UnderWay, Expected
<1> QED BY <1>2, <1>3, <1>4, <1>5, <1>6 DEF Next

LEMMA DialogueInit == Init => Dialogue
BY DEF Init, ProxyInit, Dialogue

\* What is under way to gopls fits what gopls knows and the server holds.
THEOREM LspDialogue == Spec => []Dialogue
<1>1. IInv => TypeOK /\ Turns
  BY DEF IInv
<1>2. TypeOK /\ TypeOK' /\ Turns /\ Turns' /\ Dialogue /\ [Next]_vars => Dialogue'
  BY DialogueStep
<1> QED BY <1>1, <1>2, DialogueInit, LspInductive, PTL DEF Spec

\* With all that is under way, gopls has what the editor has open, with its
\* last valid text, for any documents, messages and capacity of the pipes.
THEOREM GoplsAgrees == Spec => []GoplsAgreesWithEditor
<1>1. Dialogue => GoplsAgreesWithEditor
  BY HadHasBefore DEF Dialogue, GoplsAgreesWithEditor, Expected
<1> QED BY <1>1, LspDialogue, PTL

\* gopls is never told to open what it has open, nor to change or close what
\* it has not.
THEOREM ProtocolKept == Spec => []GoplsProtocol
<1>1. Dialogue /\ TypeOK => GoplsProtocol
  <2> SUFFICES ASSUME Dialogue, TypeOK, gopls = "up", NEW i \in 1 .. Len(UnderWay)
               PROVE  LET m == UnderWay[i] IN
                        /\ m.kind = "open" => HasBefore(i, m.doc, NoText)
                        /\ m.kind \in {"change", "close"} => ~HasBefore(i, m.doc, NoText)
    BY DEF GoplsProtocol
  <2> DEFINE m == UnderWay[i]
  <2>1. Fits(m, UnderWay, known, i) /\ i \in Nat
    BY UnderWayTyped DEF Dialogue, Polite
  <2> HIDE DEF m
  <2>2. m.kind = "open" => HasBefore(i, m.doc, NoText)
    BY <2>1, HadHasBefore DEF Fits
  <2>3. ASSUME m.kind \in {"change", "close"}, HasBefore(i, m.doc, NoText) PROVE FALSE
    <3>1. PICK t \in Nat \ {NoText} : Had(UnderWay, known[m.doc], i, m.doc, t)
      BY <2>1, <2>3 DEF Fits
    <3>2. Had(UnderWay, known[m.doc], i, m.doc, NoText)
      BY <2>3, HadHasBefore
    <3> QED BY <2>1, <3>1, <3>2, HadOnce
  <2> QED BY <2>2, <2>3 DEF m
<1> QED BY <1>1, LspDialogue, LspTypeCorrect, PTL

-----------------------------------------------------------------------------
(***************************************************************************)
(* Answers are up to date.  While a call is written nothing bears its     *)
(* identifier; while it is waited for, the call is the last message in    *)
(* the pipe, or it has been read and nothing is behind it: an answer made *)
(* then is made from the expected texts, by Dialogue, and the handler     *)
(* that waits leaves the documents alone.                                 *)
(***************************************************************************)
Current(view) == \A d \in Docs : docs[d] # NoText => view[d] = shadow[d]

Replied == {r \in Range(fromGopls) : r.kind = "answer"} \cup inHand \cup channel

IsOut(m) == m.kind = "call" /\ m.id = out.id

UpToDate ==
  /\ pc = "write" /\ out.kind = "call" => \A p \in Carried : p[1] # out.id
  /\ pc = "wait" =>
       /\ \A i \in 1 .. Len(toGopls) : IsOut(toGopls[i]) => i = Len(toGopls)
       /\ \A c \in owed : c.id = out.id => toGopls = << >>
       /\ \A r \in Replied : r.id = out.id => Current(r.view)
  /\ pc = "respond" => \A r \in answer : Current(r.view)

LEMMA BearersOf ==
  ASSUME UpToDate, pc = "write", out.kind = "call"
  PROVE  \A m \in Bearers : m.id # out.id
<1>1. \A m \in Bearers : <<m.id, m.about>> \in Carried
  BY CarriedBears
<1> QED BY <1>1 DEF UpToDate

LEMMA WriteUpToDate ==
  ASSUME TypeOK, Turns, UpToDate, Write, UNCHANGED serverVars
  PROVE  UpToDate'
<1>1. /\ pc = "write" /\ toGopls' = Append(toGopls, out)
      /\ pc' = (IF out.kind = "call" THEN "wait" ELSE then)
      /\ UNCHANGED <<out, answer, owed, fromGopls, inHand, channel>>
  BY DEF Write
<1>2. answer = {}
  BY <1>1 DEF Turns
<1>3. CASE out.kind = "call"
  <2>1. \A m \in Bearers : m.id # out.id
    BY <1>1, <1>3, BearersOf
  <2>2. /\ \A i \in 1 .. Len(toGopls) : ~IsOut(toGopls[i])
        /\ \A c \in owed : c.id # out.id
        /\ \A r \in Replied : r.id # out.id
    BY <2>1, PipesTyped DEF Bearers, Replied, IsOut, Range
  <2>3. /\ Len(toGopls) \in Nat /\ Len(toGopls') = Len(toGopls) + 1
        /\ \A i \in 1 .. Len(toGopls) : toGopls'[i] = toGopls[i]
    BY <1>1, PipesTyped
  <2>4. \A i \in 1 .. Len(toGopls') : i \in 1 .. Len(toGopls) \/ i = Len(toGopls')
    BY <2>3
  <2>5. Replied' = Replied
    BY <1>1 DEF Replied
  <2>6. \A i \in 1 .. Len(toGopls') : IsOut(toGopls'[i]) => i = Len(toGopls')
    BY <2>2, <2>3, <2>4
  <2>7. pc' = "wait"
    BY <1>1, <1>3
  <2> QED BY <1>1, <2>2, <2>5, <2>6, <2>7 DEF UpToDate, IsOut
<1>4. CASE out.kind # "call"
  BY <1>1, <1>2, <1>4 DEF UpToDate, Turns, InCall
<1> QED BY <1>3, <1>4

LEMMA ContinueUpToDate ==
  ASSUME TypeOK, Turns, Fresh, UpToDate, Continue
  PROVE  UpToDate'
<1>1. CASE Write
  BY <1>1, WriteUpToDate DEF Continue, Greet, Respond, Bye, Stopped, Write
<1>2. CASE TakeAnswer
  <2>1. pc = "wait" /\ answer' = channel /\ UNCHANGED serverVars /\ pc' = then
    BY <1>2 DEF TakeAnswer, Continue, Greet, Respond, Bye, Stopped
  <2>2. pc' # "write" /\ pc' # "wait" /\ \A r \in channel : r.id = out.id
    BY <2>1 DEF Turns, InCall, Fresh
  <2>3. \A r \in channel : Current(r.view)
    BY <2>1, <2>2 DEF UpToDate, Replied
  <2>4. \A view : Current(view)' <=> Current(view)
    BY <2>1 DEF Current, serverVars
  <2>5. \A r \in answer' : Current(r.view)'
    BY <2>1, <2>3, <2>4
  <2> QED BY <2>2, <2>5 DEF UpToDate
<1>3. CASE ~Write /\ ~TakeAnswer
  <2>1. pc' # "wait" /\ (pc' = "write" => out'.kind # "call")
    BY <1>3, MadeKinds DEF Continue, Greet, Respond, Bye, Stopped, WriteFails, Expire, ForgetCall,
                BeginNotify, Turns, InCall
  <2>2. pc' = "respond" => answer' = {}
    BY <1>3 DEF Continue, Greet, Respond, Bye, Stopped, WriteFails, Expire, ForgetCall, BeginNotify
  <2> QED BY <2>1, <2>2 DEF UpToDate
<1> QED BY <1>1, <1>2, <1>3

LEMMA HandleUpToDate ==
  ASSUME TypeOK, Turns, Fresh, Handle
  PROVE  UpToDate'
<1>0. IdTypes
  BY TypedIds
<1>1. pc = "idle" /\ Carried' \subseteq Carried
  BY HandleCases, BearersStep DEF Written, Next
<1>2. CASE \E n, next : BeginCall(n, next)
  <2>1. out'.id = nextID /\ pc' = "write"
    BY <1>2, MadeKinds DEF BeginCall
  <2>2. \A p \in Carried' : p[1] # nextID
    BY <1>0, <1>1 DEF Fresh, IdTypes
  <2> QED BY <2>1, <2>2 DEF UpToDate
<1>3. CASE Notifies
  BY <1>3 DEF Notifies, BeginNotify, UpToDate
<1>4. CASE pc' \in {"idle", "exited", "aborted"}
  BY <1>4 DEF UpToDate
<1> QED BY <1>2, <1>3, <1>4, HandleCases

\* readLoop and gopls: nothing new bears the identifier, the pipe to gopls
\* only gets shorter, and an answer gopls makes is current.
LEMMA OthersUpToDate ==
  ASSUME TypeOK, Turns, Dialogue, UpToDate, ReadLoop \/ Gopls
  PROVE  UpToDate'
<1>1. UNCHANGED <<pc, out, answer, docs, shadow>>
  BY DEF ReadLoop, ReadAnswer, HandOver, Forward, Gopls, GoplsReads, GoplsAnswers,
         GoplsPublishes, GoplsDies, serverVars, callVars
<1>2. \A view : Current(view)' <=> Current(view)
  BY <1>1 DEF Current
<1>3. pc = "write" => Carried' \subseteq Carried
  <2>1. ~Write \/ pc' # "write"
    BY DEF Write, Turns, InCall
  <2> QED BY <1>1, <2>1, BearersStep DEF Next
<1>4. ASSUME pc = "wait"
      PROVE  /\ \A i \in 1 .. Len(toGopls') : IsOut(toGopls'[i]) => i = Len(toGopls')
             /\ \A c \in owed' : c.id = out.id => toGopls' = << >>
  <2>1. CASE UNCHANGED toGopls /\ owed' \subseteq owed
    BY <1>4, <2>1 DEF UpToDate
  <2>2. CASE toGopls' = << >>
    BY <2>2
  <2>3. CASE GoplsReads
    <3>1. /\ toGopls # << >> /\ toGopls' = Tail(toGopls)
          /\ owed' \subseteq owed \cup {Head(toGopls)}
          /\ Head(toGopls) \in owed' => Head(toGopls) \in owed \/ Head(toGopls).kind = "call"
      BY <2>3 DEF GoplsReads
    <3>2. /\ Len(toGopls) \in Nat \ {0} /\ Head(toGopls) = toGopls[1]
          /\ Len(toGopls') = Len(toGopls) - 1
          /\ \A i \in 1 .. Len(toGopls') : toGopls'[i] = toGopls[i + 1]
          /\ Len(toGopls) = 1 => toGopls' = << >>
      BY <3>1, PipesTyped
    <3>3. \A c \in owed : c.id # out.id
      BY <1>4, <3>1 DEF UpToDate
    <3>4. \A i \in 1 .. Len(toGopls) : IsOut(toGopls[i]) => i = Len(toGopls)
      BY <1>4 DEF UpToDate
    <3>5. \A i \in 1 .. Len(toGopls') : IsOut(toGopls'[i]) => i = Len(toGopls')
      BY <3>2, <3>4
    <3>6. ASSUME NEW c \in owed', c.id = out.id PROVE toGopls' = << >>
      <4>1. c = toGopls[1] /\ IsOut(toGopls[1])
        BY <3>1, <3>2, <3>3, <3>6 DEF IsOut
      <4> QED BY <3>2, <3>4, <4>1
    <3> QED BY <3>5, <3>6
  <2> QED BY <2>1, <2>2, <2>3
      DEF ReadLoop, ReadAnswer, HandOver, Forward, Gopls, GoplsAnswers, GoplsPublishes, GoplsDies,
          callVars, processVars
<1>5. ASSUME pc = "wait", NEW r \in Replied', r.id = out.id PROVE Current(r.view)
  <2>1. CASE r \in Replied
    BY <1>5, <2>1 DEF UpToDate
  <2>2. CASE GoplsAnswers
    <3>1. PICK c \in owed, ok \in BOOLEAN :
            fromGopls' = Append(fromGopls, [kind |-> "answer", id |-> c.id,
                                            about |-> c.about, ok |-> ok, view |-> known])
      BY <2>2 DEF GoplsAnswers
    <3> DEFINE a == [kind |-> "answer", id |-> c.id, about |-> c.about, ok |-> ok,
                     view |-> known]
    <3>2. a \in Answers /\ a.id = c.id /\ a.view = known
      BY Kinds DEF TypeOK, ProxyTypeOK, Answers
    <3> HIDE DEF a
    <3>3. Range(fromGopls') = Range(fromGopls) \cup {a}
      BY <3>1, <3>2, PipesTyped, Pipe DEF a
    <3>4. r \in Replied \/ r = a
      BY <2>2, <3>3 DEF Replied, GoplsAnswers, callVars
    <3>5. ASSUME r = a PROVE Current(known)
      <4>1. UnderWay = << >> /\ gopls = "up"
        BY <1>5, <2>2, <3>2, <3>5 DEF UpToDate, UnderWay, GoplsAnswers
      <4>2. \A d \in Docs : Had(<< >>, known[d], Len(<< >>) + 1, d, Expected(d))
        BY <4>1 DEF Dialogue
      <4>3. \A d \in Docs : known[d] = Expected(d)
        <5>1. \A i \in 1 .. (Len(<< >>) + 1) - 1 : FALSE
          OBVIOUS
        <5> QED BY <4>2, <5>1 DEF Had
      <4> QED BY <4>3 DEF Current, Expected
    <3> QED BY <2>1, <3>2, <3>4, <3>5
  <2>3. CASE ReadAnswer
    <3>1. /\ Range(fromGopls') \subseteq Range(fromGopls)
          /\ Head(fromGopls) \in {x \in Range(fromGopls) : x.kind = "answer"}
      BY <2>3, PipesTyped, Pipe DEF ReadAnswer
    <3>2. Replied' \subseteq Replied
      BY <2>3, <3>1 DEF ReadAnswer, Replied, callVars
    <3> QED BY <2>1, <3>2
  <2>4. CASE HandOver
    <3>1. Replied' \subseteq Replied
      BY <2>4 DEF HandOver, Replied
    <3> QED BY <2>1, <3>1
  <2>5. CASE Forward
    <3>1. Range(fromGopls') \subseteq Range(fromGopls)
      BY <2>5, PipesTyped, Pipe DEF Forward
    <3>2. Replied' \subseteq Replied
      BY <2>5, <3>1 DEF Forward, Replied, callVars
    <3> QED BY <2>1, <3>2
  <2>6. CASE GoplsReads \/ GoplsDies
    <3>1. Replied' = Replied
      BY <2>6 DEF GoplsReads, GoplsDies, Replied, callVars
    <3> QED BY <2>1, <3>1
  <2>7. CASE GoplsPublishes
    <3>1. PICK d \in Docs :
            fromGopls' = Append(fromGopls, [kind |-> "diagnostics", doc |-> d, text |-> known[d]])
      BY <2>7 DEF GoplsPublishes
    <3> DEFINE m == [kind |-> "diagnostics", doc |-> d, text |-> known[d]]
    <3>2. m \in DiagMsgs /\ m.kind = "diagnostics"
      BY DEF TypeOK, ProxyTypeOK, DiagMsgs, Views
    <3> HIDE DEF m
    <3>3. Range(fromGopls') = Range(fromGopls) \cup {m}
      BY <3>1, <3>2, PipesTyped, Pipe DEF m
    <3>4. Replied' \subseteq Replied
      BY <2>7, <3>2, <3>3 DEF GoplsPublishes, Replied, callVars
    <3> QED BY <2>1, <3>4
  <2> QED BY <2>2, <2>3, <2>4, <2>5, <2>6, <2>7 DEF ReadLoop, Gopls
<1> QED BY <1>1, <1>2, <1>3, <1>4, <1>5 DEF UpToDate, IsOut

LEMMA UpToDateStep ==
  ASSUME TypeOK, Turns, Fresh, Dialogue, UpToDate, [Next]_vars
  PROVE  UpToDate'
<1>1. CASE Terminated \/ UNCHANGED vars
  BY <1>1 DEF Terminated, vars, proxyVars, serverVars, UpToDate, Carried, Replied, IsOut, Current
<1> QED BY <1>1, HandleUpToDate, ContinueUpToDate, OthersUpToDate DEF Next

\* An answer the editor is given was made from the last valid text of every
\* open document, whenever gopls answers and whichever calls were abandoned.
THEOREM AnswersCurrent == Spec => []AnswersAreUpToDate
<1>1. Init => UpToDate
  BY DEF Init, UpToDate
<1>2. TypeOK /\ Turns /\ Fresh /\ Dialogue /\ UpToDate /\ [Next]_vars => UpToDate'
  BY UpToDateStep
<1>3. IInv => TypeOK /\ Turns /\ Fresh
  BY DEF IInv
<1>4. UpToDate => AnswersAreUpToDate
  BY DEF UpToDate, AnswersAreUpToDate, Current
<1> QED BY <1>1, <1>2, <1>3, <1>4, LspDialogue, LspInductive, PTL DEF Spec
===========================================================================
