----------------------- MODULE EffectRuntime_proofs -----------------------
(***************************************************************************)
(* Theorems about the effects runtime, for any effects, depth of nesting   *)
(* and number of Trys, performs and resumes: its types, that the stack     *)
(* holds the handlers of the Trys under way in order, and that the         *)
(* innermost one handles.  The last two are about programs whose handlers  *)
(* do not both perform and return without resuming (Tame).                 *)
(***************************************************************************)
EXTENDS EffectRuntime, SequenceTheorems, WellFoundedInduction, TLAPS

(* A set of numbers up to n has a greatest member, and Max returns it.      *)
LEMMA LeastNumber ==
  ASSUME NEW T \in SUBSET Nat, T # {}
  PROVE  \E x \in T : \A y \in T : x <= y
<1> DEFINE less == {ss \in Nat \X Nat : ss[1] < ss[2]}
<1>1. IsWellFoundedOn(less, Nat)
  BY NatLessThanWellFounded DEF OpToRel
<1> HIDE DEF less
<1>2. PICK x \in T : \A y \in T : <<y, x>> \notin less
  BY <1>1, WFMin
<1>3. ASSUME NEW y \in T PROVE x <= y
  <2>1. <<y, x>> \in Nat \X Nat /\ <<y, x>>[1] = y /\ <<y, x>>[2] = x
    OBVIOUS
  <2>2. ~ (y < x)
    BY <1>2, <2>1 DEF less
  <2> QED BY <2>2
<1> QED BY <1>3

LEMMA GreatestNumber ==
  ASSUME NEW n \in Nat, NEW S \in SUBSET (0..n), S # {}
  PROVE  \E x \in S : \A y \in S : x >= y
<1> DEFINE below == {n - x : x \in S}
<1>1. below \in SUBSET Nat
  <2>1. \A x \in 0..n : n - x \in Nat
    OBVIOUS
  <2> QED BY <2>1
<1>2. PICK d \in below : \A y \in below : d <= y
  <2>1. below # {}
    OBVIOUS
  <2> QED BY <1>1, <2>1, LeastNumber
<1>3. PICK x \in S : d = n - x
  BY <1>2
<1>4. \A y \in S : x >= y
  BY <1>2, <1>3
<1> QED BY <1>4

LEMMA MaxIsGreatest ==
  ASSUME NEW n \in Nat, NEW S \in SUBSET (0..n), S # {}
  PROVE  Max(S) \in S /\ \A y \in S : y <= Max(S)
<1>1. \E x \in S : \A y \in S : x >= y
  BY GreatestNumber
<1> QED BY <1>1 DEF Max

(* What is left of a sequence when one of its elements is removed.          *)
LEMMA Removed ==
  ASSUME NEW S, NEW s \in Seq(S), NEW i \in 1..Len(s)
  PROVE  /\ RemoveAt(s, i) \in Seq(S) /\ Len(RemoveAt(s, i)) = Len(s) - 1
         /\ \A j \in 1..(Len(s) - 1) : RemoveAt(s, i)[j] = IF j < i THEN s[j] ELSE s[j + 1]
<1> DEFINE n == Len(s)
           a == SubSeq(s, 1, i - 1)
           b == SubSeq(s, i + 1, n)
<1>1. n \in Nat /\ i \in 1..n /\ \A j \in 1..n : s[j] \in S
  OBVIOUS
<1>2. a \in Seq(S) /\ Len(a) = i - 1 /\ \A j \in 1..(i - 1) : a[j] = s[j]
  BY <1>1, SubSeqProperties
<1>3. b \in Seq(S) /\ Len(b) = n - i /\ \A j \in 1..(n - i) : b[j] = s[j + i]
  BY <1>1, SubSeqProperties
<1>4. RemoveAt(s, i) = a \o b
  BY DEF RemoveAt
<1> HIDE DEF n, a, b
<1>5. /\ a \o b \in Seq(S) /\ Len(a \o b) = n - 1
      /\ \A j \in 1..(n - 1) : (a \o b)[j] = IF j <= i - 1 THEN a[j] ELSE b[j - (i - 1)]
  <2>1. /\ a \o b \in Seq(S) /\ Len(a \o b) = Len(a) + Len(b)
        /\ \A j \in 1..(Len(a) + Len(b)) :
             (a \o b)[j] = IF j <= Len(a) THEN a[j] ELSE b[j - Len(a)]
    BY <1>2, <1>3, ConcatProperties
  <2>2. Len(a) = i - 1 /\ Len(a) + Len(b) = n - 1
    BY <1>1, <1>2, <1>3
  <2> QED BY <2>1, <2>2
<1>6. ASSUME NEW j \in 1..(n - 1) PROVE (a \o b)[j] = IF j < i THEN s[j] ELSE s[j + 1]
  <2>1. CASE j < i
    BY <1>1, <1>2, <1>5, <2>1
  <2>2. CASE ~(j < i)
    <3>1. j - (i - 1) \in 1..(n - i) /\ (j - (i - 1)) + i = j + 1 /\ ~(j <= i - 1)
      BY <1>1, <2>2
    <3> QED BY <1>3, <1>5, <2>2, <3>1
  <2> QED BY <2>1, <2>2
<1> QED BY <1>4, <1>5, <1>6 DEF n

-----------------------------------------------------------------------------
(* findHandler's frame is the topmost of its effect.                        *)
LEMMA TopmostFrame ==
  ASSUME stack \in Seq(Frame), NEW e
  PROVE  /\ FrameOf(e) \in 0..Len(stack)
         /\ FrameOf(e) = 0 => \A i \in DOMAIN stack : stack[i].effect # e
         /\ FrameOf(e) # 0 => /\ FrameOf(e) \in DOMAIN stack /\ stack[FrameOf(e)].effect = e
                              /\ \A i \in DOMAIN stack : stack[i].effect = e => i <= FrameOf(e)
<1> DEFINE frames == {i \in 1..Len(stack) : stack[i].effect = e}
<1>1. FrameOf(e) = IF frames # {} THEN Max(frames) ELSE 0
  BY DEF FrameOf, SelectLastInSeq
<1>2. DOMAIN stack = 1..Len(stack) /\ Len(stack) \in Nat /\ frames \in SUBSET (0..Len(stack))
  OBVIOUS
<1>3. CASE frames = {}
  BY <1>1, <1>2, <1>3
<1>4. CASE frames # {}
  <2>1. Max(frames) \in frames /\ \A i \in frames : i <= Max(frames)
    BY <1>2, <1>4, MaxIsGreatest
  <2> QED BY <1>1, <1>2, <1>4, <2>1
<1> QED BY <1>3, <1>4

LEMMA InnermostTry ==
  ASSUME NEW g \in Goroutines, NEW e
  PROVE  LET around == {t \in 1..g : e \in installs[t - 1]}
         IN /\ Innermost(g, e) \in 0..Depth
            /\ around # {} => Innermost(g, e) \in around /\ \A t \in around : t <= Innermost(g, e)
<1> DEFINE around == {t \in 1..g : e \in installs[t - 1]}
<1>1. g \in Nat /\ g <= Depth /\ Depth \in Nat /\ around \in SUBSET (0..g)
  BY EffectRuntimeAssumption DEF Goroutines
<1>2. Innermost(g, e) = IF around = {} THEN 0 ELSE CHOOSE t \in around : \A u \in around : u <= t
  BY DEF Innermost
<1> HIDE DEF around
<1>3. CASE around = {}
  BY <1>1, <1>2, <1>3 DEF around
<1>4. CASE around # {}
  <2>1. \E t \in around : \A u \in around : u <= t
    <3>1. \E t \in around : \A u \in around : t >= u
      BY <1>1, <1>4, GreatestNumber
    <3> QED BY <1>1, <3>1
  <2>2. Innermost(g, e) \in around /\ \A t \in around : t <= Innermost(g, e)
    BY <1>2, <1>4, <2>1
  <2> QED BY <1>1, <2>2 DEF around
<1> QED BY <1>3, <1>4

-----------------------------------------------------------------------------
(* What a goroutine may be doing while its function performs, or is inside  *)
(* a Try, and that performs and handlers under way have their requests.     *)
Control ==
  /\ \A g \in Goroutines : at[g] \notin {"none", "function"} => g < Depth
  /\ \A g \in Goroutines : call[g] # {} => at[g] \in {"function", "handler"}
  /\ \A g \in Goroutines : at[g] \in {"handler", "resume"} => handling[g] \in DOMAIN requests
  /\ \A g \in Goroutines : \A p \in call[g] : p.id \in 0..Len(requests)

TypeInv == TypeOK /\ Control

LEMMA RequestsType ==
  ASSUME TypeInv
  PROVE  /\ Len(requests) \in Nat /\ DOMAIN requests = 1..Len(requests)
         /\ \A i \in DOMAIN requests : requests[i] \in Request
         /\ Depth \in Nat \ {0} /\ \A g \in Goroutines : g \in Nat /\ g <= Depth
<1>1. requests \in Seq(Request)
  BY DEF TypeInv, TypeOK
<1> QED BY <1>1, EffectRuntimeAssumption DEF Goroutines

(* A reply changes the request it belongs to, and nothing else about it.    *)
LEMMA ReplyType ==
  ASSUME TypeInv, NEW i \in DOMAIN requests, NEW r \in {<<>>, <<"value">>, <<"abort">>},
         requests' = [requests EXCEPT ![i].reply = r]
  PROVE  /\ requests' \in Seq(Request) /\ Len(requests') = Len(requests)
         /\ DOMAIN requests' = DOMAIN requests
         /\ \A j \in DOMAIN requests : requests'[j] = IF j = i THEN [requests[i] EXCEPT !.reply = r]
                                                               ELSE requests[j]
<1>1. requests \in Seq(Request) /\ requests[i] \in Request
  BY RequestsType DEF TypeInv, TypeOK
<1>2. [requests[i] EXCEPT !.reply = r] \in Request
  BY <1>1 DEF Request
<1>3. requests' = [requests EXCEPT ![i] = [requests[i] EXCEPT !.reply = r]]
  BY <1>1
<1> QED BY <1>1, <1>2, <1>3, ExceptSeq, RequestsType

LEMMA TryStepsType ==
  ASSUME TypeInv, NEW g \in Goroutines,
         \/ \E effects \in SUBSET Effects \ {{}} : Enter(g, effects)
         \/ StartRun(g) \/ FunctionReturns(g) \/ RunReturns(g) \/ Leave(g)
  PROVE  TypeInv'
<1> USE RequestsType, EffectRuntimeAssumption DEF TypeInv, TypeOK, Control, rest
<1>1. CASE \E effects \in SUBSET Effects \ {{}} : Enter(g, effects)
  BY <1>1 DEF Enter, Executes
<1>2. CASE StartRun(g)
  BY <1>2 DEF StartRun
<1>3. CASE FunctionReturns(g)
  BY <1>3 DEF FunctionReturns, Executes
<1>4. CASE RunReturns(g)
  BY <1>4 DEF RunReturns
<1>5. CASE Leave(g)
  BY <1>5 DEF Leave
<1> QED BY <1>1, <1>2, <1>3, <1>4, <1>5

LEMMA HandlerStepsType ==
  ASSUME TypeInv, NEW g \in Goroutines,
         Resume(g) \/ SendValue(g) \/ HandlerReturns(g) \/ HandlerAborts(g)
  PROVE  TypeInv'
<1>1. CASE Resume(g)
  BY <1>1, EffectRuntimeAssumption DEF TypeInv, TypeOK, Control, rest, Resume, Executes
<1>2. CASE HandlerReturns(g)
  BY <1>2, RequestsType DEF TypeInv, TypeOK, Control, rest, HandlerReturns, Executes
<1>3. CASE SendValue(g)
  <2>1. handling[g] \in DOMAIN requests
    BY <1>3 DEF TypeInv, Control, SendValue
  <2>2. /\ requests' \in Seq(Request) /\ Len(requests') = Len(requests)
        /\ DOMAIN requests' = DOMAIN requests
    BY <1>3, <2>1, ReplyType DEF SendValue
  <2> QED BY <1>3, <2>2 DEF TypeInv, TypeOK, Control, rest, SendValue
<1>4. CASE HandlerAborts(g)
  <2>1. handling[g] \in DOMAIN requests
    BY <1>4 DEF TypeInv, Control, HandlerAborts
  <2>2. /\ requests' \in Seq(Request) /\ Len(requests') = Len(requests)
        /\ DOMAIN requests' = DOMAIN requests
    BY <1>4, <2>1, ReplyType DEF HandlerAborts
  <2>3. abandoned' \subseteq 1..Depth
    BY <1>4, <2>1, RequestsType DEF TypeInv, TypeOK, HandlerAborts, Request
  <2>4. g < Depth /\ at' = [at EXCEPT ![g] = "drain"] /\ call[g] = {} /\ UNCHANGED call
        /\ handling' = [handling EXCEPT ![g] = 0]
    BY <1>4 DEF TypeInv, Control, HandlerAborts, Executes
  <2>5. TypeOK'
    BY <1>4, <2>2, <2>3, <2>4, RequestsType DEF TypeInv, TypeOK, HandlerAborts
  <2>6. Control'
    BY <2>2, <2>4, RequestsType DEF TypeInv, TypeOK, Control
  <2> QED BY <2>5, <2>6 DEF TypeInv
<1> QED BY <1>1, <1>2, <1>3, <1>4

LEMMA StackStepsType ==
  ASSUME TypeInv, NEW g \in Goroutines, NEW e \in Effects, Handle(g, e) \/ Unhandle(g, e)
  PROVE  TypeInv'
<1>1. stack' \in Seq(Frame)
  <2>1. CASE Handle(g, e)
    <3>1. g + 1 \in 1..Depth
      BY <2>1, RequestsType DEF TypeInv, Control, Handle
    <3> QED BY <2>1, <3>1 DEF TypeInv, TypeOK, Frame, Handle
  <2>2. CASE Unhandle(g, e)
    BY <2>2, TopmostFrame, Removed DEF TypeInv, TypeOK, Unhandle
  <2> QED BY <2>1, <2>2
<1> QED BY <1>1 DEF TypeInv, TypeOK, Control, rest, Handle, Unhandle

LEMMA PerformStepsType ==
  ASSUME TypeInv, NEW g \in Goroutines,
         (\E e \in Effects : StartPerform(g, e)) \/ TakeReply(g)
  PROVE  TypeInv'
<1>1. CASE \E e \in Effects : StartPerform(g, e)
  BY <1>1 DEF TypeInv, TypeOK, Control, rest, Perform, StartPerform, Executes
<1>2. CASE TakeReply(g)
  <2>1. PICK p \in call[g] :
          /\ p.id # 0 /\ requests[p.id].reply # <<>>
          /\ requests' = [requests EXCEPT ![p.id].reply = <<>>]
    BY <1>2 DEF TakeReply
  <2>2. /\ requests' \in Seq(Request) /\ Len(requests') = Len(requests)
        /\ DOMAIN requests' = DOMAIN requests
    <3>1. CASE p.id \in DOMAIN requests
      BY <2>1, <3>1, ReplyType
    <3>2. CASE p.id \notin DOMAIN requests
      <4>1. requests' = requests
        BY <2>1, <3>2 DEF TypeInv, TypeOK
      <4> QED BY <4>1 DEF TypeInv, TypeOK
    <3> QED BY <3>1, <3>2
  <2>3. /\ \/ at' = at
           \/ at' = [at EXCEPT ![g] = "none"]
           \/ at' = [at EXCEPT ![g] = "unwind"] /\ at[g] # "function"
        /\ todo' \in [Goroutines -> SUBSET Effects]
        /\ at[g] \in {"function", "handler"}
    <3>1. at[g] \in {"function", "handler"}
      BY <2>1 DEF TypeInv, Control
    <3>2. installs[g] \in SUBSET Effects /\ todo \in [Goroutines -> SUBSET Effects]
      BY DEF TypeInv, TypeOK
    <3> QED BY <1>2, <3>1, <3>2 DEF TakeReply
  <2>4. UNCHANGED <<stack, installs, handling, resumed, rest>> /\ call' = [call EXCEPT ![g] = {}]
    BY <1>2 DEF TakeReply
  <2>5. TypeOK'
    BY <2>2, <2>3, <2>4 DEF TypeInv, TypeOK, rest
  <2>6. Control'
    <3>1. \A h \in Goroutines : at'[h] \notin {"none", "function"} => h < Depth
      BY <2>3 DEF TypeInv, TypeOK, Control
    <3>2. \A h \in Goroutines : call'[h] # {} => at'[h] \in {"function", "handler"}
      BY <2>3, <2>4 DEF TypeInv, TypeOK, Control
    <3>3. \A h \in Goroutines : at'[h] \in {"handler", "resume"} => handling'[h] \in DOMAIN requests'
      BY <2>2, <2>3, <2>4 DEF TypeInv, TypeOK, Control
    <3>4. \A h \in Goroutines : \A q \in call'[h] : q.id \in 0..Len(requests')
      BY <2>2, <2>4 DEF TypeInv, TypeOK, Control
    <3> QED BY <3>1, <3>2, <3>3, <3>4 DEF Control
  <2> QED BY <2>5, <2>6 DEF TypeInv
<1> QED BY <1>1, <1>2

(* A request received joins those received before it.                       *)
LEMMA ReceiveType ==
  ASSUME TypeInv, NEW l \in Goroutines, NEW g \in Goroutines, Receive(l, g)
  PROVE  TypeInv'
<1>1. PICK p \in call[g] :
        \/ UNCHANGED <<at, call, handling, resumed, requests>> /\ crashed' \in BOOLEAN
        \/ /\ FrameOf(p.effect) # 0
           /\ requests' = Append(requests,
                [by |-> g, effect |-> p.effect, reply |-> <<>>,
                 try |-> stack[FrameOf(p.effect)].try,
                 innermost |-> Innermost(g, p.effect), from |-> at[g]])
           /\ call' = [call EXCEPT ![g] = {[p EXCEPT !.id = Len(requests) + 1]}]
           /\ at' = [at EXCEPT ![l] = "handler"]
           /\ handling' = [handling EXCEPT ![l] = Len(requests) + 1]
           /\ resumed' = [resumed EXCEPT ![l] = 0]
           /\ UNCHANGED crashed
  BY DEF Receive
<1>2. CASE UNCHANGED <<at, call, handling, resumed, requests>> /\ crashed' \in BOOLEAN
  BY <1>2 DEF TypeInv, TypeOK, Control, Receive
<1>3. CASE ~(UNCHANGED <<at, call, handling, resumed, requests>> /\ crashed' \in BOOLEAN)
  <2> DEFINE r == [by |-> g, effect |-> p.effect, reply |-> <<>>,
                   try |-> stack[FrameOf(p.effect)].try,
                   innermost |-> Innermost(g, p.effect), from |-> at[g]]
             n == Len(requests) + 1
  <2>1. p \in Perform /\ at[g] \in {"function", "handler"} /\ at[l] = "select" /\ l # g
    BY DEF TypeInv, TypeOK, Control, Receive
  <2>2. r \in Request
    <3>1. stack[FrameOf(p.effect)] \in Frame
      BY <1>1, <1>3, TopmostFrame DEF TypeInv, TypeOK
    <3> QED BY <2>1, <3>1, InnermostTry DEF Request, Perform, Frame
  <2>3. /\ requests' = Append(requests, r) /\ requests \in Seq(Request)
        /\ call' = [call EXCEPT ![g] = {[p EXCEPT !.id = n]}]
        /\ at' = [at EXCEPT ![l] = "handler"] /\ handling' = [handling EXCEPT ![l] = n]
        /\ resumed' = [resumed EXCEPT ![l] = 0] /\ crashed' = crashed
    BY <1>1, <1>3 DEF TypeInv, TypeOK
  <2>4. [p EXCEPT !.id = n] \in Perform /\ n \in Nat
    BY <2>1, RequestsType DEF Perform
  <2>5. /\ requests' \in Seq(Request) /\ Len(requests') = n /\ DOMAIN requests' = 1..n
        /\ n = Len(requests) + 1
    BY <2>2, <2>3, AppendProperties
  <2> HIDE DEF r, n
  <2>6. l < Depth
    BY <2>1, RequestsType DEF TypeInv, Control
  <2>7. handling' \in [Goroutines -> 0..Len(requests')]
    BY <2>3, <2>4, <2>5, RequestsType DEF TypeInv, TypeOK
  <2>8. TypeOK'
    BY <2>3, <2>4, <2>5, <2>7, EffectRuntimeAssumption DEF TypeInv, TypeOK, Receive
  <2>9. Control'
    <3>1. \A h \in Goroutines : at'[h] \notin {"none", "function"} => h < Depth
      BY <2>3, <2>6 DEF TypeInv, TypeOK, Control
    <3>2. \A h \in Goroutines : call'[h] # {} => at'[h] \in {"function", "handler"}
      BY <2>1, <2>3 DEF TypeInv, TypeOK, Control
    <3>3. \A h \in Goroutines : at'[h] \in {"handler", "resume"} => handling'[h] \in DOMAIN requests'
      BY <2>3, <2>4, <2>5, RequestsType DEF TypeInv, TypeOK, Control
    <3>4. [p EXCEPT !.id = n].id = n
      BY <2>1 DEF Perform
    <3>5. ASSUME NEW h \in Goroutines, NEW q \in call'[h] PROVE q.id \in 0..Len(requests')
      <4>1. CASE h = g
        <5>1. q.id = n
          BY <2>3, <3>4, <4>1 DEF TypeInv, TypeOK
        <5> QED BY <2>4, <2>5, <5>1
      <4>2. CASE h # g
        <5>1. q.id \in 0..Len(requests)
          BY <2>3, <4>2 DEF TypeInv, TypeOK, Control
        <5> QED BY <2>5, <5>1, RequestsType
      <4> QED BY <4>1, <4>2
    <3> QED BY <3>1, <3>2, <3>3, <3>5 DEF Control
  <2> QED BY <2>8, <2>9 DEF TypeInv
<1> QED BY <1>2, <1>3

LEMMA TypeInvariant ==
  ASSUME TypeInv, [Next]_vars
  PROVE  TypeInv'
<1>1. CASE UNCHANGED vars
  BY <1>1 DEF TypeInv, TypeOK, Control, vars, rest
<1>2. CASE \E g \in Goroutines : Step(g)
  BY <1>2, TryStepsType, HandlerStepsType, StackStepsType, PerformStepsType, ReceiveType DEF Step
<1> QED BY <1>1, <1>2 DEF Next

LEMMA TypeInit == Init => TypeInv
<1> SUFFICES ASSUME Init PROVE TypeInv
  OBVIOUS
<1>1. stack \in Seq(Frame) /\ requests \in Seq(Request) /\ Len(requests) = 0
  BY DEF Init
<1>2. handling \in [Goroutines -> 0..Len(requests)] /\ resumed \in [Goroutines -> 0..MaxResumes]
  BY <1>1, EffectRuntimeAssumption DEF Init
<1>3. /\ at \in [Goroutines -> {"none", "function", "push", "select", "handler", "resume", "drain",
                             "pop", "unwind"}]
      /\ call \in [Goroutines -> SUBSET Perform]
      /\ installs \in [Goroutines -> SUBSET Effects] /\ todo \in [Goroutines -> SUBSET Effects]
  BY DEF Init
<1>4. /\ tries \in 0..MaxTries
      /\ abandoned \subseteq 1..Depth
      /\ crashed \in BOOLEAN
      /\ liberties \in Programs
  <2>1. tries = 0 /\ abandoned = {} /\ crashed = FALSE /\ liberties \in Programs
    BY DEF Init
  <2>2. 0 \in 0..MaxTries
    BY EffectRuntimeAssumption
  <2>3. crashed \in BOOLEAN
    BY <2>1
  <2> QED BY <2>1, <2>2, <2>3, Zenon
<1>5. Control
  BY EffectRuntimeAssumption DEF Init, Control
<1> QED BY <1>1, <1>2, <1>3, <1>4, <1>5 DEF TypeInv, TypeOK

(* TypeOK holds in every reachable state.                                   *)
THEOREM RuntimeTypeCorrect == Spec => []TypeOK
<1>1. Init => TypeInv
  BY TypeInit
<1>2. TypeInv /\ [Next]_vars => TypeInv'
  BY TypeInvariant
<1>3. TypeInv => TypeOK
  BY DEF TypeInv
<1> QED BY <1>1, <1>2, <1>3, PTL DEF Spec
-----------------------------------------------------------------------------
(* Programs that do not both perform in handlers and return without resume. *)
Tame == liberties # {"abort", "perform"}

(* What StackMatchesTrys rests on: the goroutines below one that lives run  *)
(* the loops and handlers of their Trys, no Try is unwound, and a goroutine *)
(* that is in no Try of its own has none installed.                         *)
Runs == {"select", "handler", "resume", "drain"}

Tower == \A g, h \in Goroutines : h < g /\ at[g] # "none" => at[h] \in Runs

NoneUnwound ==
  /\ \A g \in Goroutines : at[g] # "unwind"
  /\ \A g \in Goroutines : at[g] = "handler" /\ call[g] # {} => "perform" \in liberties
  /\ \A i \in DOMAIN requests : requests[i].reply = <<"abort">> => "abort" \in liberties

OwnInstalls ==
  /\ \A g \in Goroutines : todo[g] \subseteq installs[g]
  /\ \A g \in Goroutines : at[g] \in {"none", "function"} => installs[g] = {}

TowerInv == Tower /\ NoneUnwound /\ OwnInstalls

(* In a tame program no perform of a handler is aborted.                    *)
LEMMA TakeReplyCases ==
  ASSUME TypeInv, Tame, NoneUnwound, NEW g \in Goroutines, TakeReply(g)
  PROVE  /\ todo' = todo
         /\ \/ at' = at
            \/ at[g] = "function" /\ at' = [at EXCEPT ![g] = "none"]
         /\ \A i \in DOMAIN requests' : requests'[i].reply = <<"abort">> => "abort" \in liberties
<1>1. PICK p \in call[g] :
        /\ p.id # 0 /\ requests[p.id].reply # <<>>
        /\ IF requests[p.id].reply = <<"value">>
           THEN UNCHANGED <<at, todo>>
           ELSE IF at[g] = "function"
                THEN at' = [at EXCEPT ![g] = "none"] /\ UNCHANGED todo
                ELSE at' = [at EXCEPT ![g] = "unwind"] /\ todo' = [todo EXCEPT ![g] = installs[g]]
        /\ requests' = [requests EXCEPT ![p.id].reply = <<>>]
  BY DEF TakeReply
<1>2. p.id \in DOMAIN requests
  BY <1>1, RequestsType DEF TypeInv, Control
<1>3. requests[p.id].reply \in {<<"value">>, <<"abort">>}
  BY <1>1, <1>2, RequestsType DEF Request
<1>4. at[g] = "handler" => "perform" \in liberties
  BY <1>1 DEF NoneUnwound
<1>5. at[g] # "function" => requests[p.id].reply = <<"value">>
  <2> SUFFICES ASSUME at[g] # "function", requests[p.id].reply = <<"abort">> PROVE FALSE
    BY <1>3
  <2>1. at[g] = "handler"
    BY <1>1 DEF TypeInv, Control
  <2>2. "abort" \in liberties /\ "perform" \in liberties
    BY <1>2, <1>4, <2>1 DEF NoneUnwound
  <2>3. liberties \subseteq {"abort", "perform"}
    BY EffectRuntimeAssumption DEF TypeInv, TypeOK
  <2> QED BY <2>2, <2>3 DEF Tame
<1>6. \A i \in DOMAIN requests' : requests'[i].reply = <<"abort">> => requests[i].reply = <<"abort">>
  <2>1. /\ DOMAIN requests' = DOMAIN requests
        /\ \A i \in DOMAIN requests :
             requests'[i] = IF i = p.id THEN [requests[i] EXCEPT !.reply = <<>>] ELSE requests[i]
    BY <1>1, <1>2, ReplyType
  <2>2. [requests[p.id] EXCEPT !.reply = <<>>].reply # <<"abort">>
    BY <1>2, RequestsType DEF Request
  <2> QED BY <2>1, <2>2
<1>7. DOMAIN requests' = DOMAIN requests
  BY <1>1, <1>2, ReplyType
<1> QED BY <1>1, <1>5, <1>6, <1>7 DEF NoneUnwound

(* How a step moves its goroutine, and whom else.                           *)
OthersStay(g) == \A h \in Goroutines : h # g => at'[h] = at[h]

LEMMA AtCases ==
  ASSUME TypeInv, Tame, TowerInv, NEW g \in Goroutines, Step(g)
  PROVE  \/ at' = at
         \/ at[g] \in {"function", "pop"} /\ OthersStay(g)
         \/ at[g] \in Runs /\ at'[g] \in Runs /\ OthersStay(g)
         \/ at[g] \in Runs /\ at'[g] = "pop" /\ at[g + 1] = "none" /\ OthersStay(g) /\ g < Depth
         \/ /\ at[g] = "push" /\ at'[g] = "select" /\ at'[g + 1] = "function" /\ g < Depth
            /\ \A h \in Goroutines : h # g /\ h # g + 1 => at'[h] = at[h]
<1>1. at \in [Goroutines -> {"none", "function", "push", "select", "handler", "resume", "drain",
                             "pop", "unwind"}]
      /\ \A h \in Goroutines : at[h] \notin {"none", "function"} => h < Depth
  BY DEF TypeInv, TypeOK, Control
<1> USE DEF OthersStay, Runs
<1>2. CASE \E effects \in SUBSET Effects \ {{}} : Enter(g, effects)
  BY <1>1, <1>2 DEF Enter
<1>3. CASE StartRun(g)
  <2>1. g < Depth /\ g + 1 \in Goroutines /\ g + 1 # g
    BY <1>1, <1>3, RequestsType DEF StartRun, Goroutines
  <2> QED BY <1>1, <1>3, <2>1 DEF StartRun
<1>4. CASE FunctionReturns(g)
  BY <1>1, <1>4 DEF FunctionReturns
<1>5. CASE RunReturns(g)
  BY <1>1, <1>5 DEF RunReturns
<1>6. CASE Leave(g)
  BY <1>1, <1>6 DEF Leave, TowerInv, NoneUnwound
<1>7. CASE TakeReply(g)
  BY <1>1, <1>7, TakeReplyCases DEF TowerInv
<1>8. CASE \E h \in Goroutines : Receive(g, h)
  BY <1>1, <1>8 DEF Receive
<1>9. CASE Resume(g) \/ SendValue(g) \/ HandlerReturns(g) \/ HandlerAborts(g)
  BY <1>1, <1>9 DEF Resume, SendValue, HandlerReturns, HandlerAborts
<1>10. CASE \E e \in Effects : Handle(g, e) \/ StartPerform(g, e) \/ Unhandle(g, e)
  BY <1>10 DEF Handle, StartPerform, Unhandle
<1> QED BY <1>2, <1>3, <1>4, <1>5, <1>6, <1>7, <1>8, <1>9, <1>10 DEF Step

LEMMA TowerKept ==
  ASSUME TypeInv, Tame, TowerInv, NEW g \in Goroutines, Step(g)
  PROVE  Tower'
<1> SUFFICES ASSUME NEW x \in Goroutines, NEW h \in Goroutines, h < x, at'[x] # "none"
             PROVE  at'[h] \in Runs
  BY DEF Tower
<1>1. Tower /\ \A y \in Goroutines : y \in Nat /\ y <= Depth
  BY RequestsType DEF TowerInv
<1>2. CASE at' = at
  BY <1>1, <1>2 DEF Tower
<1>3. CASE at[g] \in {"function", "pop"} /\ OthersStay(g)
  BY <1>1, <1>3 DEF Tower, OthersStay, Runs
<1>4. CASE at[g] \in Runs /\ at'[g] \in Runs /\ OthersStay(g)
  BY <1>1, <1>4 DEF Tower, OthersStay, Runs
<1>5. CASE at[g] \in Runs /\ at'[g] = "pop" /\ at[g + 1] = "none" /\ OthersStay(g) /\ g < Depth
  <2>1. g + 1 \in Goroutines
    BY <1>1, <1>5, RequestsType DEF Goroutines
  <2>2. ~(g < x)
    <3> SUFFICES ASSUME g < x PROVE FALSE
      OBVIOUS
    <3>1. at[x] # "none" /\ x # g + 1
      BY <1>1, <1>5 DEF OthersStay
    <3>2. g + 1 < x
      BY <1>1, <3>1
    <3> QED BY <1>1, <1>5, <2>1, <3>1, <3>2 DEF Tower, Runs
  <2> QED BY <1>1, <1>5, <2>2 DEF Tower, OthersStay, Runs
<1>6. CASE /\ at[g] = "push" /\ at'[g] = "select" /\ at'[g + 1] = "function" /\ g < Depth
           /\ \A y \in Goroutines : y # g /\ y # g + 1 => at'[y] = at[y]
  <2>1. ~(g + 1 < x)
    BY <1>1, <1>6 DEF Tower, Runs
  <2>2. CASE h = g
    BY <1>6, <2>2 DEF Runs
  <2>3. CASE h # g
    <3>1. h < g
      BY <1>1, <2>1, <2>3
    <3> QED BY <1>1, <1>6, <3>1 DEF Tower
  <2> QED BY <2>2, <2>3
<1> QED BY <1>2, <1>3, <1>4, <1>5, <1>6, AtCases

(* A request just received has no reply.                                    *)
LEMMA ReceivedReply ==
  ASSUME TypeInv, NoneUnwound, NEW r, requests' = Append(requests, r), r.reply = <<>>
  PROVE  \A i \in DOMAIN requests' : requests'[i].reply = <<"abort">> => "abort" \in liberties
<1>1. requests \in Seq(Request)
  BY DEF TypeInv, TypeOK
<1>2. /\ DOMAIN requests = 1..Len(requests) /\ DOMAIN requests' = 1..(Len(requests) + 1)
      /\ requests'[Len(requests) + 1] = r /\ \A i \in 1..Len(requests) : requests'[i] = requests[i]
      /\ Len(requests) \in Nat
  BY <1>1
<1>3. ASSUME NEW i \in DOMAIN requests', requests'[i].reply = <<"abort">>
      PROVE  i \in DOMAIN requests /\ requests[i].reply = <<"abort">>
  <2>1. <<>> # <<"abort">>
    OBVIOUS
  <2>2. i # Len(requests) + 1
    BY <1>2, <1>3, <2>1
  <2> QED BY <1>2, <1>3, <2>2
<1> QED BY <1>3 DEF NoneUnwound

(* The replies, and who may await one.                                      *)
LEMMA RepliesKept ==
  ASSUME TypeInv, Tame, TowerInv, NEW g \in Goroutines, Step(g)
  PROVE  /\ liberties' = liberties
         /\ \A i \in DOMAIN requests' : requests'[i].reply = <<"abort">> => "abort" \in liberties
<1> USE RequestsType DEF TypeInv, TypeOK, TowerInv, NoneUnwound
<1>1. CASE SendValue(g)
  <2>1. /\ handling[g] \in DOMAIN requests /\ liberties' = liberties
        /\ requests' = [requests EXCEPT ![handling[g]].reply = <<"value">>]
    BY <1>1 DEF SendValue, Control, rest
  <2>2. [requests[handling[g]] EXCEPT !.reply = <<"value">>].reply # <<"abort">>
    BY <2>1 DEF Request
  <2> QED BY <2>1, <2>2, ReplyType
<1>2. CASE HandlerAborts(g)
  BY <1>2 DEF HandlerAborts
<1>3. CASE TakeReply(g)
  BY <1>3, TakeReplyCases DEF TakeReply, rest
<1>4. CASE \E h \in Goroutines : Receive(g, h)
  <2>1. PICK h \in Goroutines : Receive(g, h)
    BY <1>4
  <2>2. \/ requests' = requests
        \/ \E r : requests' = Append(requests, r) /\ r.reply = <<>>
    BY <2>1 DEF Receive
  <2> QED BY <2>1, <2>2, ReceivedReply DEF Receive
<1>5. CASE \/ \E effects \in SUBSET Effects \ {{}} : Enter(g, effects)
           \/ \E e \in Effects : Handle(g, e) \/ StartPerform(g, e) \/ Unhandle(g, e)
           \/ StartRun(g) \/ FunctionReturns(g) \/ Resume(g) \/ HandlerReturns(g)
           \/ RunReturns(g) \/ Leave(g)
  BY <1>5 DEF Enter, Handle, StartPerform, Unhandle, StartRun, FunctionReturns, Resume,
              HandlerReturns, RunReturns, Leave, rest
<1> QED BY <1>1, <1>2, <1>3, <1>4, <1>5 DEF Step

LEMMA NoneUnwoundKept ==
  ASSUME TypeInv, Tame, TowerInv, NEW g \in Goroutines, Step(g)
  PROVE  NoneUnwound'
<1> SUFFICES ASSUME NEW h \in Goroutines
             PROVE  at'[h] # "unwind" /\ (at'[h] = "handler" /\ call'[h] # {} => "perform" \in liberties)
  BY RepliesKept DEF NoneUnwound
<1> USE RequestsType DEF TypeInv, TypeOK, TowerInv, NoneUnwound, Control
<1>1. CASE \E effects \in SUBSET Effects \ {{}} : Enter(g, effects)
  BY <1>1 DEF Enter
<1>2. CASE StartRun(g)
  BY <1>2 DEF StartRun
<1>3. CASE FunctionReturns(g)
  BY <1>3 DEF FunctionReturns
<1>4. CASE RunReturns(g) \/ Leave(g)
  BY <1>4 DEF RunReturns, Leave
<1>5. CASE TakeReply(g)
  BY <1>5, TakeReplyCases DEF TakeReply
<1>6. CASE \E s \in Goroutines : Receive(g, s)
  BY <1>6 DEF Receive
<1>7. CASE Resume(g) \/ SendValue(g) \/ HandlerReturns(g) \/ HandlerAborts(g)
  BY <1>7 DEF Resume, SendValue, HandlerReturns, HandlerAborts, Executes
<1>8. CASE \E e \in Effects : Handle(g, e) \/ StartPerform(g, e) \/ Unhandle(g, e)
  BY <1>8 DEF Handle, StartPerform, Unhandle
<1> QED BY <1>1, <1>2, <1>3, <1>4, <1>5, <1>6, <1>7, <1>8 DEF Step

LEMMA OwnInstallsKept ==
  ASSUME TypeInv, Tame, TowerInv, NEW g \in Goroutines, Step(g)
  PROVE  OwnInstalls'
<1> SUFFICES ASSUME NEW h \in Goroutines
             PROVE  /\ todo'[h] \subseteq installs'[h]
                    /\ at'[h] \in {"none", "function"} => installs'[h] = {}
  BY DEF OwnInstalls
<1> USE RequestsType DEF TypeInv, TypeOK, TowerInv, OwnInstalls
<1>1. CASE \E effects \in SUBSET Effects \ {{}} : Enter(g, effects)
  <2>1. PICK effects \in SUBSET Effects \ {{}} : Enter(g, effects)
    BY <1>1
  <2>2. CASE h = g
    <3>1. todo'[g] = effects /\ installs'[g] = effects /\ at'[g] = "push"
      BY <2>1 DEF Enter
    <3> QED BY <2>2, <3>1
  <2>3. CASE h # g
    <3>1. todo'[h] = todo[h] /\ installs'[h] = installs[h] /\ at'[h] = at[h]
      BY <2>1, <2>3 DEF Enter
    <3> QED BY <3>1
  <2> QED BY <2>2, <2>3
<1>2. CASE StartRun(g)
  <2>1. installs' = installs /\ todo' = todo /\ at' = [at EXCEPT ![g] = "select", ![g + 1] = "function"]
        /\ at[g] = "push"
    BY <1>2 DEF StartRun
  <2>2. CASE h = g
    BY <2>1, <2>2
  <2>3. CASE h = g + 1
    <3>1. at[h] = "none"
      <4>1. g < h /\ at[g] \notin Runs
        BY <2>1, <2>3, RequestsType DEF Runs
      <4>2. Tower
        BY DEF TowerInv
      <4> HIDE DEF TypeOK
      <4> QED BY <4>1, <4>2 DEF Tower
    <3> QED BY <2>1, <3>1
  <2>4. CASE h # g /\ h # g + 1
    BY <2>1, <2>4
  <2> QED BY <2>2, <2>3, <2>4
<1>3. CASE FunctionReturns(g)
  BY <1>3 DEF FunctionReturns, Executes
<1>8. CASE RunReturns(g)
  BY <1>8 DEF RunReturns
<1>9. CASE Leave(g)
  BY <1>9 DEF Leave
<1>4. CASE TakeReply(g)
  BY <1>4, TakeReplyCases DEF TakeReply
<1>5. CASE \E s \in Goroutines : Receive(g, s)
  BY <1>5 DEF Receive
<1>6. CASE Resume(g) \/ SendValue(g) \/ HandlerReturns(g) \/ HandlerAborts(g)
  BY <1>6 DEF Resume, SendValue, HandlerReturns, HandlerAborts
<1>7. CASE \E e \in Effects : Handle(g, e) \/ StartPerform(g, e) \/ Unhandle(g, e)
  BY <1>7 DEF Handle, StartPerform, Unhandle
<1> QED BY <1>1, <1>2, <1>3, <1>4, <1>5, <1>6, <1>7, <1>8, <1>9 DEF Step

LEMMA TowerInvariant ==
  ASSUME TypeInv, Tame, TowerInv, NEW g \in Goroutines, Step(g)
  PROVE  TowerInv'
BY TowerKept, NoneUnwoundKept, OwnInstallsKept DEF TowerInv

-----------------------------------------------------------------------------
(* StackMatchesTrys, part by part: what a Try has on the stack, the order   *)
(* of the Trys there, and that no handler is there twice.                   *)
Frames(t) == {stack[i].effect : i \in {j \in DOMAIN stack : stack[j].try = t}}

Matched == \A t \in 1..Depth : Installed(t) = Frames(t)

Ordered ==
  \A i, j \in DOMAIN stack : i < j => stack[i].try <= stack[j].try /\ stack[i] # stack[j]

LEMMA StackParts == StackMatchesTrys <=> Matched /\ Ordered
BY DEF StackMatchesTrys, Matched, Ordered, Frames

LEMMA StackPartsNext == StackMatchesTrys' <=> Matched' /\ Ordered'
BY DEF StackMatchesTrys, Matched, Ordered, Frames

LEMMA StackType ==
  ASSUME TypeInv
  PROVE  /\ stack \in Seq(Frame) /\ DOMAIN stack = 1..Len(stack) /\ Len(stack) \in Nat
         /\ \A i \in DOMAIN stack : /\ stack[i].effect \in Effects /\ stack[i].try \in 1..Depth
                                    /\ stack[i] = [effect |-> stack[i].effect, try |-> stack[i].try]
<1>1. stack \in Seq(Frame)
  BY DEF TypeInv, TypeOK
<1>2. \A i \in DOMAIN stack : stack[i] \in Frame
  BY <1>1
<1> QED BY <1>1, <1>2 DEF Frame

(* Which goroutine a Try runs on, and what it has installed so far.         *)
LEMMA TryOf ==
  ASSUME NEW t \in 1..Depth
  PROVE  t - 1 \in Goroutines /\ t \in Goroutines /\ (t - 1) + 1 = t
BY EffectRuntimeAssumption DEF Goroutines

LEMMA InstalledCases ==
  ASSUME TypeInv, NEW t \in 1..Depth
  PROVE  /\ at[t - 1] = "push" => Installed(t) = installs[t - 1] \ todo[t - 1]
         /\ at[t - 1] \in {"pop", "unwind"} => Installed(t) = todo[t - 1]
         /\ at[t - 1] \notin {"push", "pop", "unwind"} => Installed(t) = installs[t - 1]
BY DEF Installed

LEMMA InstalledCasesNext ==
  ASSUME NEW t \in 1..Depth
  PROVE  /\ at'[t - 1] = "push" => Installed(t)' = installs'[t - 1] \ todo'[t - 1]
         /\ at'[t - 1] \in {"pop", "unwind"} => Installed(t)' = todo'[t - 1]
         /\ at'[t - 1] \notin {"push", "pop", "unwind"} => Installed(t)' = installs'[t - 1]
BY DEF Installed

(* Steps that leave the stack alone leave alone what the Trys have there.   *)
LEMMA OthersMatch ==
  ASSUME TypeInv, Tame, TowerInv, StackMatchesTrys, NEW g \in Goroutines, Step(g),
         ~ \E e \in Effects : Handle(g, e) \/ Unhandle(g, e)
  PROVE  StackMatchesTrys'
<1>1. ASSUME NEW t \in 1..Depth,
             at'[t - 1] = at[t - 1], installs'[t - 1] = installs[t - 1], todo'[t - 1] = todo[t - 1]
      PROVE  Installed(t)' = Installed(t)
  BY <1>1, InstalledCases, InstalledCasesNext
<1>2. ASSUME NEW t \in 1..Depth PROVE Installed(t)' = Installed(t)
  <2> DEFINE h == t - 1
  <2>1. h \in Goroutines
    BY TryOf
  <2>2. /\ todo[h] \subseteq installs[h]
        /\ at[h] \in {"none", "function"} => installs[h] = {}
        /\ at[h] # "unwind"
    BY <2>1 DEF TowerInv, OwnInstalls, NoneUnwound
  <2>3. /\ at[h] = "push" => Installed(t) = installs[h] \ todo[h]
        /\ at[h] \in {"pop", "unwind"} => Installed(t) = todo[h]
        /\ at[h] \notin {"push", "pop", "unwind"} => Installed(t) = installs[h]
    BY InstalledCases
  <2>4. /\ at'[h] = "push" => Installed(t)' = installs'[h] \ todo'[h]
        /\ at'[h] \in {"pop", "unwind"} => Installed(t)' = todo'[h]
        /\ at'[h] \notin {"push", "pop", "unwind"} => Installed(t)' = installs'[h]
    BY InstalledCasesNext
  <2>5. at'[h] = at[h] /\ installs'[h] = installs[h] /\ todo'[h] = todo[h]
          => Installed(t)' = Installed(t)
    BY <1>1
  <2>6. /\ at \in [Goroutines -> {"none", "function", "push", "select", "handler", "resume", "drain",
                                  "pop", "unwind"}]
        /\ installs \in [Goroutines -> SUBSET Effects] /\ todo \in [Goroutines -> SUBSET Effects]
    BY DEF TypeInv, TypeOK
  <2> HIDE DEF h
  <2>7. CASE \E effects \in SUBSET Effects \ {{}} : Enter(g, effects)
    <3>1. PICK effects \in SUBSET Effects \ {{}} : Enter(g, effects)
      BY <2>7
    <3>2. CASE h = g
      <4>1. /\ at[h] = "function" /\ at'[h] = "push"
            /\ installs'[h] = effects /\ todo'[h] = effects
        BY <2>1, <2>6, <3>1, <3>2 DEF Enter
      <4> QED BY <2>2, <2>3, <2>4, <4>1
    <3>3. CASE h # g
      BY <2>1, <2>5, <2>6, <3>1, <3>3 DEF Enter
    <3> QED BY <3>2, <3>3
  <2>8. CASE StartRun(g)
    <3>1. /\ at[g] = "push" /\ todo[g] = {} /\ installs' = installs /\ todo' = todo
          /\ at' = [at EXCEPT ![g] = "select", ![g + 1] = "function"]
      BY <2>8 DEF StartRun
    <3>2. CASE h = g
      <4>1. at'[h] = "select"
        BY <2>1, <2>6, <3>1, <3>2, RequestsType
      <4> QED BY <2>3, <2>4, <3>1, <3>2, <4>1
    <3>3. CASE h = g + 1
      <4>1. g < h /\ at[g] \notin Runs
        BY <3>1, <3>3, RequestsType DEF Runs
      <4>2. at[h] = "none" /\ at'[h] = "function"
        BY <2>1, <2>6, <3>1, <3>3, <4>1 DEF TowerInv, Tower
      <4> QED BY <2>3, <2>4, <3>1, <4>2
    <3>4. CASE h # g /\ h # g + 1
      BY <2>1, <2>5, <2>6, <3>1, <3>4
    <3> QED BY <3>2, <3>3, <3>4
  <2>9. CASE FunctionReturns(g)
    BY <2>1, <2>3, <2>4, <2>6, <2>9 DEF FunctionReturns
  <2>10. CASE RunReturns(g)
    BY <2>1, <2>3, <2>4, <2>5, <2>6, <2>10 DEF RunReturns
  <2>11. CASE Leave(g)
    BY <2>1, <2>2, <2>3, <2>4, <2>5, <2>6, <2>11 DEF Leave
  <2>12. CASE TakeReply(g)
    <3>1. /\ todo' = todo /\ installs' = installs
          /\ \/ at' = at
             \/ at[g] = "function" /\ at' = [at EXCEPT ![g] = "none"]
      BY <2>12, TakeReplyCases DEF TakeReply, TowerInv
    <3> QED BY <2>1, <2>3, <2>4, <2>5, <2>6, <3>1
  <2>13. CASE \E s \in Goroutines : Receive(g, s)
    <3>1. /\ todo' = todo /\ installs' = installs
          /\ \/ at' = at
             \/ at[g] = "select" /\ at' = [at EXCEPT ![g] = "handler"]
      BY <2>13 DEF Receive
    <3> QED BY <2>1, <2>3, <2>4, <2>5, <2>6, <3>1
  <2>14. CASE Resume(g) \/ SendValue(g) \/ HandlerReturns(g) \/ HandlerAborts(g)
    BY <2>1, <2>3, <2>4, <2>5, <2>6, <2>14 DEF Resume, SendValue, HandlerReturns, HandlerAborts
  <2>15. CASE \E e \in Effects : StartPerform(g, e)
    BY <2>5, <2>15 DEF StartPerform
  <2> QED BY <2>7, <2>8, <2>9, <2>10, <2>11, <2>12, <2>13, <2>14, <2>15 DEF Step
<1>3. stack' = stack
  BY DEF Step, Enter, StartPerform, Receive, StartRun, FunctionReturns, Resume, SendValue,
         HandlerReturns, HandlerAborts, TakeReply, RunReturns, Leave
<1>4. Matched'
  BY <1>2, <1>3, StackParts DEF Matched, Frames
<1>5. Ordered'
  BY <1>3, StackParts DEF Ordered
<1> QED BY <1>4, <1>5, StackPartsNext

(* A goroutine that waits in no Try of its own has no Trys above it.        *)
LEMMA NoneAbove ==
  ASSUME TypeInv, TowerInv, StackMatchesTrys, NEW g \in Goroutines,
         at[g] \notin Runs, at[g] # "none", NEW i \in DOMAIN stack
  PROVE  stack[i].try <= g + 1 /\ (at[g] = "function" => stack[i].try <= g)
<1> DEFINE t == stack[i].try
           h == t - 1
<1>1. t \in 1..Depth /\ h \in Goroutines /\ t \in Nat /\ g \in Nat /\ h + 1 = t /\ h \in Nat
  BY StackType, TryOf, RequestsType
<1>2. stack[i].effect \in Installed(t)
  <2>1. stack[i].effect \in Frames(t)
    BY DEF Frames
  <2> QED BY <1>1, <2>1, StackParts DEF Matched
<1>3. at[h] \notin {"none", "function"}
  <2>1. Installed(t) = installs[h] \/ at[h] \in {"push", "pop", "unwind"}
    BY <1>1, InstalledCases
  <2>2. at[h] \in {"none", "function"} => installs[h] = {}
    BY <1>1 DEF TowerInv, OwnInstalls
  <2> QED BY <1>2, <2>1, <2>2
<1> HIDE DEF h
<1>4. ~(g < h)
  BY <1>1, <1>3 DEF TowerInv, Tower
<1>5. h = g => at[g] # "function"
  BY <1>3
<1> HIDE DEF t
<1>6. t <= g + 1 /\ (at[g] = "function" => t <= g)
  BY <1>1, <1>4, <1>5
<1> QED BY <1>6 DEF t

(* A handler is pushed on top of those of the Trys around its own.          *)
LEMMA HandleMatches ==
  ASSUME TypeInv, Tame, TowerInv, StackMatchesTrys, NEW g \in Goroutines,
         NEW e \in Effects, Handle(g, e)
  PROVE  StackMatchesTrys'
<1> DEFINE n == Len(stack)
           f == [effect |-> e, try |-> g + 1]
<1>1. /\ at[g] = "push" /\ g < Depth /\ e \in todo[g] /\ e \in installs[g]
      /\ at' = at /\ installs' = installs /\ todo' = [todo EXCEPT ![g] = @ \ {e}]
      /\ todo \in [Goroutines -> SUBSET Effects]
  BY DEF Handle, TypeInv, TypeOK, Control, TowerInv, OwnInstalls
<1>2. g \in Nat /\ g + 1 \in 1..Depth /\ (g + 1) - 1 = g
  BY <1>1, RequestsType
<1>3. /\ n \in Nat /\ DOMAIN stack = 1..n /\ DOMAIN stack' = 1..(n + 1)
      /\ \A i \in 1..n : stack'[i] = stack[i]
      /\ stack'[n + 1] = f
  <2>1. stack' = Append(stack, f) /\ stack \in Seq(Frame)
    BY StackType DEF Handle
  <2> QED BY <2>1
<1> HIDE DEF n
<1>4. 1..(n + 1) = 1..n \cup {n + 1}
  BY <1>3
<1>5. f.effect = e /\ f.try = g + 1
  OBVIOUS
<1> HIDE DEF f
<1>6. \A t \in 1..Depth : Frames(t)' = IF t = g + 1 THEN Frames(t) \cup {e} ELSE Frames(t)
  BY <1>3, <1>4, <1>5 DEF Frames
<1>7. \A t \in 1..Depth : Installed(t) = Frames(t)
  BY StackParts DEF Matched
<1>8. Installed(g + 1) = installs[g] \ todo[g]
  BY <1>1, <1>2, InstalledCases
<1>9. Matched'
  <2> SUFFICES ASSUME NEW t \in 1..Depth PROVE Installed(t)' = Frames(t)'
    BY DEF Matched
  <2>1. CASE t = g + 1
    <3>1. Installed(t)' = installs[g] \ todo'[g]
      BY <1>1, <1>2, <2>1, InstalledCasesNext
    <3>2. todo'[g] = todo[g] \ {e}
      BY <1>1
    <3> QED BY <1>1, <1>6, <1>7, <1>8, <2>1, <3>1, <3>2
  <2>2. CASE t # g + 1
    <3>1. t - 1 \in Goroutines /\ t - 1 # g
      BY <1>2, <2>2, TryOf
    <3>2. Installed(t)' = Installed(t)
      BY <1>1, <3>1, InstalledCases, InstalledCasesNext
    <3> QED BY <1>6, <1>7, <2>2, <3>2
  <2> QED BY <2>1, <2>2
<1>10. Ordered'
  <2> SUFFICES ASSUME NEW i \in 1..(n + 1), NEW j \in 1..(n + 1), i < j
               PROVE  stack'[i].try <= stack'[j].try /\ stack'[i] # stack'[j]
    BY <1>3 DEF Ordered
  <2>1. i \in 1..n
    BY <1>3
  <2>2. CASE j \in 1..n
    BY <1>3, <2>1, <2>2, StackParts DEF Ordered
  <2>3. CASE j = n + 1
    <3>1. stack[i].try <= g + 1
      BY <1>1, <1>3, <2>1, NoneAbove DEF Runs
    <3>2. stack[i] # f
      <4> SUFFICES ASSUME stack[i] = f PROVE FALSE
        OBVIOUS
      <4>1. e \in Frames(g + 1)
        BY <1>3, <1>5, <2>1 DEF Frames
      <4> QED BY <1>1, <1>2, <1>7, <1>8, <4>1
    <3> QED BY <1>3, <1>5, <2>1, <2>3, <3>1, <3>2
  <2> QED BY <1>4, <2>2, <2>3
<1> QED BY <1>9, <1>10, StackPartsNext

(* The topmost frame of the effect, which Unhandle removes, is the Try's.   *)
LEMMA UnhandleMatches ==
  ASSUME TypeInv, Tame, TowerInv, StackMatchesTrys, NEW g \in Goroutines,
         NEW e \in Effects, Unhandle(g, e)
  PROVE  StackMatchesTrys'
<1> DEFINE n == Len(stack)
           m == FrameOf(e)
<1>1. /\ at[g] = "pop" /\ g < Depth /\ e \in todo[g]
      /\ at' = at /\ installs' = installs /\ todo' = [todo EXCEPT ![g] = @ \ {e}]
      /\ todo \in [Goroutines -> SUBSET Effects]
  BY DEF Unhandle, TypeInv, TypeOK, Control, TowerInv, NoneUnwound
<1>2. g \in Nat /\ g + 1 \in 1..Depth /\ (g + 1) - 1 = g
  BY <1>1, RequestsType
<1>3. \A t \in 1..Depth : Installed(t) = Frames(t)
  BY StackParts DEF Matched
<1>4. Installed(g + 1) = todo[g]
  BY <1>1, <1>2, InstalledCases
<1>5. PICK k \in DOMAIN stack : stack[k].try = g + 1 /\ stack[k].effect = e
  <2>1. e \in Frames(g + 1)
    BY <1>1, <1>2, <1>3, <1>4
  <2> QED BY <2>1 DEF Frames
<1>6. m \in 1..n /\ stack[m].effect = e /\ k <= m /\ n \in Nat /\ DOMAIN stack = 1..n
  BY <1>5, TopmostFrame, StackType
<1>7. /\ DOMAIN stack' = 1..(n - 1)
      /\ \A j \in 1..(n - 1) : stack'[j] = IF j < m THEN stack[j] ELSE stack[j + 1]
  <2>1. stack' = RemoveAt(stack, m) /\ stack \in Seq(Frame)
    BY <1>6, StackType DEF Unhandle
  <2>2. stack' \in Seq(Frame) /\ Len(stack') = n - 1
    BY <1>6, <2>1, Removed
  <2> QED BY <1>6, <2>1, <2>2, Removed
<1> HIDE DEF n, m
<1>8. m = k
  <2> SUFFICES ASSUME k < m PROVE FALSE
    BY <1>5, <1>6
  <2>1. stack[k].try <= stack[m].try /\ stack[k] # stack[m]
    BY <1>5, <1>6, StackParts DEF Ordered
  <2>2. stack[m].try <= g + 1
    BY <1>1, <1>6, NoneAbove DEF Runs
  <2>3. stack[m].try = g + 1
    BY <1>2, <1>5, <1>6, <2>1, <2>2, StackType
  <2> QED BY <1>5, <1>6, <2>1, <2>3, StackType
<1>9. \A i \in 1..n : i # m => ~(stack[i].try = g + 1 /\ stack[i].effect = e)
  <2> SUFFICES ASSUME NEW i \in 1..n, i # m, stack[i].try = g + 1, stack[i].effect = e PROVE FALSE
    OBVIOUS
  <2>1. stack[i] = stack[m]
    BY <1>5, <1>6, <1>8, StackType
  <2> QED BY <1>6, <2>1, StackParts DEF Ordered
<1>10. \A t \in 1..Depth : Frames(t)' = {stack[i].effect : i \in {j \in (1..n) \ {m} : stack[j].try = t}}
  <2> TAKE t \in 1..Depth
  <2> DEFINE left == {stack[i].effect : i \in {j \in (1..n) \ {m} : stack[j].try = t}}
  <2>1. ASSUME NEW x \in Frames(t)' PROVE x \in left
    <3>1. PICK j \in 1..(n - 1) : stack'[j].try = t /\ x = stack'[j].effect
      BY <1>7, <2>1 DEF Frames
    <3>2. CASE j < m
      BY <1>6, <1>7, <3>1, <3>2
    <3>3. CASE ~(j < m)
      <4>1. j + 1 \in (1..n) \ {m} /\ stack'[j] = stack[j + 1]
        BY <1>6, <1>7, <3>3
      <4> QED BY <3>1, <4>1
    <3> QED BY <3>2, <3>3
  <2>2. ASSUME NEW x \in left PROVE x \in Frames(t)'
    <3>1. PICK j \in (1..n) \ {m} : stack[j].try = t /\ x = stack[j].effect
      BY <2>2
    <3>2. CASE j < m
      <4>1. j \in 1..(n - 1) /\ stack'[j] = stack[j]
        BY <1>6, <1>7, <3>2
      <4> QED BY <1>7, <3>1, <4>1 DEF Frames
    <3>3. CASE m < j
      <4>1. j - 1 \in 1..(n - 1) /\ ~(j - 1 < m) /\ (j - 1) + 1 = j
        BY <1>6, <3>3
      <4>2. stack'[j - 1] = stack[j]
        BY <1>7, <4>1
      <4> QED BY <1>7, <3>1, <4>1, <4>2 DEF Frames
    <3> QED BY <1>6, <3>1, <3>2, <3>3
  <2> QED BY <2>1, <2>2
<1>11. Matched'
  <2> SUFFICES ASSUME NEW t \in 1..Depth PROVE Installed(t)' = Frames(t)'
    BY DEF Matched
  <2>1. CASE t = g + 1
    <3>1. Installed(t)' = todo'[g]
      BY <1>1, <1>2, <2>1, InstalledCasesNext
    <3>2. todo'[g] = todo[g] \ {e}
      BY <1>1
    <3>3. Frames(t)' = Frames(t) \ {e}
      <4>1. ASSUME NEW x \in Frames(t)' PROVE x \in Frames(t) \ {e}
        <5>1. PICK j \in (1..n) \ {m} : stack[j].try = t /\ x = stack[j].effect
          BY <1>10, <4>1
        <5> QED BY <1>6, <1>9, <2>1, <5>1 DEF Frames
      <4>2. ASSUME NEW x \in Frames(t), x # e PROVE x \in Frames(t)'
        <5>1. PICK j \in 1..n : stack[j].try = t /\ x = stack[j].effect
          BY <1>6, <4>2 DEF Frames
        <5>2. j # m
          BY <1>6, <4>2, <5>1
        <5> QED BY <1>10, <5>1, <5>2
      <4>3. e \notin Frames(t)'
        <5>1. ASSUME NEW j \in (1..n) \ {m}, stack[j].try = t PROVE stack[j].effect # e
          BY <1>9, <2>1, <5>1
        <5> QED BY <1>10, <5>1
      <4> QED BY <4>1, <4>2, <4>3
    <3> QED BY <1>3, <1>4, <2>1, <3>1, <3>2, <3>3
  <2>2. CASE t # g + 1
    <3>1. t - 1 \in Goroutines /\ t - 1 # g
      BY <1>2, <2>2, TryOf
    <3>2. Installed(t)' = Installed(t)
      BY <1>1, <3>1, InstalledCases, InstalledCasesNext
    <3>3. Frames(t)' = Frames(t)
      BY <1>5, <1>6, <1>8, <1>10, <2>2 DEF Frames
    <3> QED BY <1>3, <3>2, <3>3
  <2> QED BY <2>1, <2>2
<1>12. Ordered'
  <2> SUFFICES ASSUME NEW i \in 1..(n - 1), NEW j \in 1..(n - 1), i < j
               PROVE  stack'[i].try <= stack'[j].try /\ stack'[i] # stack'[j]
    BY <1>7 DEF Ordered
  <2>1. \E x, y \in 1..n : x < y /\ stack'[i] = stack[x] /\ stack'[j] = stack[y]
    <3>1. i + 1 \in 1..n /\ j + 1 \in 1..n /\ i \in 1..n /\ j \in 1..n
      BY <1>6
    <3>2. CASE j < m
      BY <1>6, <1>7, <3>1, <3>2
    <3>3. CASE i < m /\ ~(j < m)
      <4>1. i < j + 1 /\ stack'[i] = stack[i] /\ stack'[j] = stack[j + 1]
        BY <1>6, <1>7, <3>3
      <4> QED BY <3>1, <4>1
    <3>4. CASE ~(i < m)
      <4>1. i + 1 < j + 1 /\ ~(j < m)
        BY <1>6, <3>4
      <4>2. stack'[i] = stack[i + 1] /\ stack'[j] = stack[j + 1]
        BY <1>7, <3>4, <4>1
      <4> QED BY <3>1, <4>1, <4>2
    <3> QED BY <3>2, <3>3, <3>4
  <2> QED BY <1>6, <2>1, StackParts DEF Ordered
<1> QED BY <1>11, <1>12, StackPartsNext

LEMMA StackInvariant ==
  ASSUME TypeInv, Tame, TowerInv, StackMatchesTrys, NEW g \in Goroutines, Step(g)
  PROVE  StackMatchesTrys'
BY OthersMatch, HandleMatches, UnhandleMatches

-----------------------------------------------------------------------------
(* The topmost frame of an effect that a function performs is that of the   *)
(* innermost Try around the function which handles the effect.              *)
LEMMA TopmostIsInnermost ==
  ASSUME TypeInv, TowerInv, StackMatchesTrys, NEW g \in Goroutines, NEW e,
         at[g] = "function", FrameOf(e) # 0
  PROVE  stack[FrameOf(e)].try = Innermost(g, e)
<1> DEFINE m == FrameOf(e)
           t == stack[m].try
           u == Innermost(g, e)
           around == {v \in 1..g : e \in installs[v - 1]}
<1>1. m \in DOMAIN stack /\ stack[m].effect = e /\ \A i \in DOMAIN stack : stack[i].effect = e => i <= m
  BY TopmostFrame, StackType
<1>2. \A v \in 1..g : v \in 1..Depth /\ Installed(v) = installs[v - 1] /\ Installed(v) = Frames(v)
  <2> TAKE v \in 1..g
  <2>1. v \in 1..Depth /\ v - 1 < g
    BY RequestsType
  <2>2. at[v - 1] \in Runs
    BY <2>1, TryOf DEF TowerInv, Tower
  <2> QED BY <2>1, <2>2, InstalledCases, StackParts DEF Matched, Runs
<1>3. t \in 1..g /\ e \in Frames(t)
  <2>1. t <= g /\ t \in 1..Depth
    BY <1>1, NoneAbove, StackType DEF Runs
  <2> QED BY <1>1, <2>1, RequestsType DEF Frames
<1>4. t \in around
  BY <1>2, <1>3
<1>5. u \in around /\ t <= u
  BY <1>4, InnermostTry
<1>6. PICK k \in DOMAIN stack : stack[k].try = u /\ stack[k].effect = e
  BY <1>2, <1>5 DEF Frames
<1>7. k <= m
  BY <1>1, <1>6
<1>8. u <= t
  <2>1. CASE k = m
    BY <1>3, <1>6, <2>1
  <2>2. CASE k # m
    <3>1. k < m
      BY <1>1, <1>7, <2>2, StackType
    <3> QED BY <1>1, <1>6, <3>1, StackParts DEF Ordered
  <2> QED BY <2>1, <2>2
<1> QED BY <1>3, <1>5, <1>8

(* Replies leave alone who handled a request, and a new one has its own.    *)
LEMMA InnermostKept ==
  ASSUME TypeInv, TowerInv, StackMatchesTrys, InnermostHandles, NEW g \in Goroutines, Step(g)
  PROVE  InnermostHandles'
<1>1. ASSUME NEW i \in DOMAIN requests, NEW r \in {<<>>, <<"value">>, <<"abort">>},
             requests' = [requests EXCEPT ![i].reply = r]
      PROVE  InnermostHandles'
  <2>1. /\ DOMAIN requests' = DOMAIN requests
        /\ \A j \in DOMAIN requests :
             requests'[j] = IF j = i THEN [requests[i] EXCEPT !.reply = r] ELSE requests[j]
    BY <1>1, ReplyType
  <2>2. ASSUME NEW j \in DOMAIN requests
        PROVE  /\ requests'[j].from = requests[j].from /\ requests'[j].try = requests[j].try
               /\ requests'[j].innermost = requests[j].innermost
    <3> DEFINE q == requests[i]
    <3>1. q \in Request
      BY RequestsType
    <3> HIDE DEF q
    <3>2. /\ [q EXCEPT !.reply = r].from = q.from /\ [q EXCEPT !.reply = r].try = q.try
          /\ [q EXCEPT !.reply = r].innermost = q.innermost
      BY <3>1 DEF Request
    <3> QED BY <2>1, <3>2 DEF q
  <2> QED BY <2>1, <2>2 DEF InnermostHandles
<1>2. CASE SendValue(g)
  <2>1. handling[g] \in DOMAIN requests
    BY <1>2 DEF SendValue, TypeInv, Control
  <2> QED BY <1>1, <1>2, <2>1 DEF SendValue
<1>3. CASE HandlerAborts(g)
  <2>1. handling[g] \in DOMAIN requests
    BY <1>3 DEF HandlerAborts, TypeInv, Control
  <2> QED BY <1>1, <1>3, <2>1 DEF HandlerAborts
<1>4. CASE TakeReply(g)
  <2>1. PICK p \in call[g] : p.id # 0 /\ requests' = [requests EXCEPT ![p.id].reply = <<>>]
    BY <1>4 DEF TakeReply
  <2>2. p.id \in DOMAIN requests
    BY <2>1, RequestsType DEF TypeInv, Control
  <2> QED BY <1>1, <2>1, <2>2
<1>5. CASE \E h \in Goroutines : Receive(g, h)
  <2>1. PICK h \in Goroutines : Receive(g, h)
    BY <1>5
  <2>2. PICK p \in call[h] :
          \/ requests' = requests
          \/ /\ FrameOf(p.effect) # 0
             /\ requests' = Append(requests,
                  [by |-> h, effect |-> p.effect, reply |-> <<>>,
                   try |-> stack[FrameOf(p.effect)].try,
                   innermost |-> Innermost(h, p.effect), from |-> at[h]])
    BY <2>1 DEF Receive
  <2>3. CASE requests' = requests
    BY <2>3 DEF InnermostHandles
  <2>4. CASE requests' # requests
    <3> DEFINE r == [by |-> h, effect |-> p.effect, reply |-> <<>>,
                     try |-> stack[FrameOf(p.effect)].try,
                     innermost |-> Innermost(h, p.effect), from |-> at[h]]
               n == Len(requests)
    <3>1. r.from = "function" => r.try = r.innermost
      BY <2>2, <2>4, TopmostIsInnermost
    <3>2. requests' = Append(requests, r) /\ requests \in Seq(Request)
      BY <2>2, <2>4 DEF TypeInv, TypeOK
    <3> HIDE DEF r
    <3>3. /\ n \in Nat /\ DOMAIN requests = 1..n /\ DOMAIN requests' = 1..(n + 1)
          /\ requests'[n + 1] = r /\ \A i \in 1..n : requests'[i] = requests[i]
      BY <3>2
    <3> HIDE DEF n
    <3>4. 1..(n + 1) = 1..n \cup {n + 1}
      BY <3>3
    <3> QED BY <3>1, <3>3, <3>4 DEF InnermostHandles
  <2> QED BY <2>3, <2>4
<1>6. CASE \/ \E effects \in SUBSET Effects \ {{}} : Enter(g, effects)
           \/ \E e \in Effects : Handle(g, e) \/ StartPerform(g, e) \/ Unhandle(g, e)
           \/ StartRun(g) \/ FunctionReturns(g) \/ Resume(g) \/ HandlerReturns(g)
           \/ RunReturns(g) \/ Leave(g)
  <2>1. requests' = requests
    BY <1>6 DEF Enter, Handle, StartPerform, Unhandle, StartRun, FunctionReturns, Resume,
                HandlerReturns, RunReturns, Leave
  <2> QED BY <2>1 DEF InnermostHandles
<1> QED BY <1>2, <1>3, <1>4, <1>5, <1>6 DEF Step

-----------------------------------------------------------------------------
RuntimeInv == TypeInv /\ (Tame => TowerInv /\ StackMatchesTrys /\ InnermostHandles)

LEMMA RuntimeInit == Init => RuntimeInv
<1> SUFFICES ASSUME Init PROVE RuntimeInv
  OBVIOUS
<1>1. TowerInv
  <2>1. \A g \in Goroutines : g \in Nat
    BY DEF Goroutines
  <2>2. Tower
    BY <2>1 DEF Init, Tower, Goroutines
  <2>3. NoneUnwound
    BY DEF Init, NoneUnwound
  <2>4. OwnInstalls
    BY DEF Init, OwnInstalls
  <2> QED BY <2>2, <2>3, <2>4 DEF TowerInv
<1>2. DOMAIN stack = {} /\ DOMAIN requests = {}
  BY DEF Init
<1>3. Matched
  <2> SUFFICES ASSUME NEW t \in 1..Depth PROVE Installed(t) = {} /\ Frames(t) = {}
    BY DEF Matched
  <2>1. installs[t - 1] = {} /\ at[t - 1] \in {"none", "function"}
    BY TryOf DEF Init
  <2>2. Installed(t) = {}
    BY <2>1, InstalledCases, TypeInit
  <2> QED BY <1>2, <2>2 DEF Frames
<1>4. Ordered /\ InnermostHandles
  BY <1>2 DEF Ordered, InnermostHandles
<1> QED BY <1>1, <1>3, <1>4, TypeInit, StackParts DEF RuntimeInv

LEMMA RuntimeInvariant == RuntimeInv /\ [Next]_vars => RuntimeInv'
<1> SUFFICES ASSUME RuntimeInv, [Next]_vars PROVE RuntimeInv'
  OBVIOUS
<1>1. TypeInv'
  BY TypeInvariant DEF RuntimeInv
<1>2. ASSUME Tame', UNCHANGED vars
      PROVE  (TowerInv /\ StackMatchesTrys /\ InnermostHandles)'
  <2>1. TowerInv /\ StackMatchesTrys /\ InnermostHandles
    BY <1>2 DEF RuntimeInv, Tame, vars, rest
  <2>2. TowerInv'
    BY <1>2, <2>1 DEF vars, rest, TowerInv, Tower, NoneUnwound, OwnInstalls
  <2>3. StackMatchesTrys'
    BY <1>2, <2>1 DEF vars, rest, StackMatchesTrys, Installed
  <2>4. InnermostHandles'
    BY <1>2, <2>1 DEF vars, rest, InnermostHandles
  <2> QED BY <2>2, <2>3, <2>4
<1>3. ASSUME Tame', NEW g \in Goroutines, Step(g)
      PROVE  (TowerInv /\ StackMatchesTrys /\ InnermostHandles)'
  <2>1. liberties' = liberties
    BY <1>3 DEF Step, Enter, Handle, StartPerform, Unhandle, Receive, StartRun, FunctionReturns,
                Resume, SendValue, HandlerReturns, HandlerAborts, TakeReply, RunReturns, Leave, rest
  <2>2. TypeInv /\ Tame /\ TowerInv /\ StackMatchesTrys /\ InnermostHandles
    BY <1>3, <2>1 DEF RuntimeInv, Tame
  <2>3. TowerInv'
    BY <1>3, <2>2, TowerInvariant
  <2>4. StackMatchesTrys'
    BY <1>3, <2>2, StackInvariant
  <2>5. InnermostHandles'
    BY <1>3, <2>2, InnermostKept
  <2> QED BY <2>3, <2>4, <2>5
<1> QED BY <1>1, <1>2, <1>3 DEF RuntimeInv, Next

(* In a tame program the stack holds the handlers of the Trys under way and *)
(* nothing else, in the order of the Trys (Context.stack, Try, Unhandle).   *)
THEOREM StackIsTrys == Spec => [](Tame => StackMatchesTrys)
<1>1. RuntimeInv => (Tame => StackMatchesTrys)
  BY DEF RuntimeInv
<1> QED BY <1>1, RuntimeInit, RuntimeInvariant, PTL DEF Spec

(* In a tame program an effect that a function performs is handled by the   *)
(* innermost Try around it, whichever loop receives it (Context.Run).       *)
THEOREM InnermostTryHandles == Spec => [](Tame => InnermostHandles)
<1>1. RuntimeInv => (Tame => InnermostHandles)
  BY DEF RuntimeInv
<1> QED BY <1>1, RuntimeInit, RuntimeInvariant, PTL DEF Spec
===========================================================================
