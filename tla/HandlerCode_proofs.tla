-------------------------- MODULE HandlerCode_proofs --------------------------
(***************************************************************************)
(* Proofs about HandlerCode, for every bound on goroutines and performs   *)
(* and any effects: the state stays well typed, no channel of a request   *)
(* holds more than one value, that value answers the request, it comes    *)
(* from the innermost handle around the perform that has a case for it,   *)
(* and a tame program never performs after its handle has returned.       *)
(***************************************************************************)
EXTENDS HandlerCode, FiniteSetTheorems, WellFoundedInduction, TLAPS

(***************************************************************************)
(* The invariant, goroutine by goroutine: one that waits has a request,   *)
(* and only who awaits a reply has one, to that request.                  *)
(***************************************************************************)
Sound(g) ==
  /\ g \in Task
  /\ g.at \in {"performing", "awaiting"} => g.request # 0
  /\ g.reply # {} => g.at = "awaiting"
  /\ \A r \in g.reply : r.request = g.request
  /\ \A r, s \in g.reply : r = s

HandlerInv ==
  /\ DOMAIN task = Tasks
  /\ task = [t \in Tasks |-> task[t]]
  /\ \A t \in Tasks : Sound(task[t])
  /\ used \in Tasks /\ performs \in 0 .. MaxPerforms /\ tame \in BOOLEAN

-----------------------------------------------------------------------------
(***************************************************************************)
(* What the actions do to one goroutine.                                  *)
(***************************************************************************)
LEMMA FreshSound == Sound([Fresh EXCEPT !.at = "running"]) /\ Sound(Fresh)
  BY HandlerCodeAssumption DEF Sound, Fresh, Task, Constructs, Nobody

\* A child of a construct.
LEMMA ChildSound ==
  ASSUME NEW t \in Tasks, NEW c \in Constructs, NEW cases \in SUBSET Effects,
         NEW f \in 0 .. MaxTasks
  PROVE  Sound([Fresh EXCEPT !.at = "running", !.parent = t, !.role = c,
                             !.cases = cases, !.frame = f])
<1> DEFINE g == Fresh
           h == [g EXCEPT !.at = "running", !.parent = t, !.role = c,
                          !.cases = cases, !.frame = f]
<1>1. t \in 0 .. MaxTasks
  BY HandlerCodeAssumption DEF Tasks
<1>2. g \in Task /\ g.reply = {}
  BY FreshSound DEF Sound, Fresh
<1> HIDE DEF g
<1>3. h \in Task /\ h.at = "running" /\ h.reply = {}
  BY <1>1, <1>2 DEF Task
<1>4. Sound(h)
  BY <1>3 DEF Sound
<1> QED  BY <1>4 DEF g

\* Who does not await anything may go anywhere but to perform.
LEMMA MoveSound ==
  ASSUME NEW g, Sound(g), g.at # "awaiting",
         NEW place \in {"running", "blocked", "casing", "stuck", "done"}
  PROVE  Sound([g EXCEPT !.at = place])
  BY DEF Sound, Task

\* The fields that serve to wait in a construct or to handle a request are free.
LEMMA WaitSound ==
  ASSUME NEW g, Sound(g), NEW c \in Constructs, NEW kids \in SUBSET Tasks,
         NEW results \in SUBSET Tasks
  PROVE  /\ Sound([g EXCEPT !.construct = c, !.kids = kids])
         /\ Sound([g EXCEPT !.construct = c, !.kids = kids, !.results = results])
         /\ Sound([g EXCEPT !.results = results])
  BY DEF Sound, Task

LEMMA ServeSound ==
  ASSUME NEW g, Sound(g), NEW p \in 0 .. MaxTasks, NEW n \in 0 .. MaxPerforms,
         NEW k \in 0 .. 2
  PROVE  /\ Sound([g EXCEPT !.serving = p, !.served = n, !.resumes = k])
         /\ Sound([g EXCEPT !.resumes = k])
  BY DEF Sound, Task

LEMMA OutSound ==
  ASSUME NEW o \in Tasks, Sound(task[o]), task[o].at # "awaiting",
         NEW place \in {"running", "blocked", "stuck"}
  PROVE  Sound(Out(o, place)) /\ Out(o, place).at = place
<1> DEFINE g == [task[o] EXCEPT !.at = place]
<1>1. Sound(g) /\ g.at = place
  <2>1. Sound(g)
    BY MoveSound
  <2>2. g.at = place
    BY DEF Sound, Task
  <2> QED  BY <2>1, <2>2
<1>2. Out(o, place) = [g EXCEPT !.serving = 0, !.served = 0, !.resumes = 0]
  BY DEF Out, Nobody, Sound, Task
<1> HIDE DEF g
<1>3. Sound(Out(o, place))
  <2>1. 0 \in 0 .. MaxTasks /\ 0 \in 0 .. MaxPerforms /\ 0 \in 0 .. 2
    BY HandlerCodeAssumption
  <2>2. Sound([g EXCEPT !.serving = 0, !.served = 0, !.resumes = 0])
    BY <1>1, <2>1, ServeSound
  <2> QED  BY <1>2, <2>2
<1>4. Out(o, place).at = place
  BY <1>1, <1>2 DEF Sound, Task
<1> QED  BY <1>3, <1>4

LEMMA LeftSound ==
  ASSUME NEW o \in Tasks, Sound(task[o]), task[o].at # "awaiting"
  PROVE  Sound(Left(o))
  BY OutSound, WaitSound DEF Left, Constructs

-----------------------------------------------------------------------------
LEMMA InitHandlerInv == Init => HandlerInv
  BY FreshSound, HandlerCodeAssumption DEF Init, HandlerInv, Tasks, Main

\* Whoever leaves a construct was not awaiting a reply.
LEMMA LeavesKeeps ==
  ASSUME HandlerInv, NEW o \in Tasks, task[o].at # "awaiting", Leaves(o)
  PROVE  HandlerInv'
<1>1. Sound(Left(o))
  BY LeftSound DEF HandlerInv
<1> QED  BY <1>1 DEF HandlerInv, Leaves

\* A construct starts its goroutines, with a frame of their own or the parent's.
LEMMA StartKeeps ==
  ASSUME HandlerInv, NEW t \in Tasks, NEW c \in Constructs, NEW n \in {1, 2},
         NEW own \in BOOLEAN, NEW cases \in SUBSET Effects,
         Start(t, c, n, own, cases)
  PROVE  HandlerInv'
<1> DEFINE kids == used + 1 .. used + n
           child(u) == [Fresh EXCEPT !.at = "running", !.parent = t, !.role = c,
                                     !.cases = cases,
                                     !.frame = IF own THEN u ELSE task[t].frame]
           waiter == [task[t] EXCEPT !.at = "blocked", !.construct = c, !.kids = kids]
<1>1. /\ task[t].at = "running" /\ used + n <= MaxTasks /\ used' = used + n
      /\ task' = [u \in Tasks |-> CASE u \in kids -> child(u)
                                    [] u = t      -> waiter
                                    [] OTHER      -> task[u]]
      /\ UNCHANGED <<performs, tame>>
  BY DEF Start, At
<1>2. kids \subseteq Tasks /\ used' \in Tasks
  <2>1. used \in 1 .. MaxTasks /\ MaxTasks \in Nat
    BY HandlerCodeAssumption DEF HandlerInv, Tasks
  <2>2. used + n <= MaxTasks /\ used' = used + n
    BY DEF Start
  <2>3. used + n \in 1 .. MaxTasks
    BY <2>1, <2>2
  <2>4. ASSUME NEW u \in used + 1 .. used + n
        PROVE  u \in 1 .. MaxTasks
    BY <2>1, <2>2
  <2> QED  BY <2>2, <2>3, <2>4 DEF Tasks
<1>3. \A u \in Tasks : Sound(child(u))
  <2> SUFFICES ASSUME NEW u \in Tasks
               PROVE  Sound(child(u))
    OBVIOUS
  <2> DEFINE f == IF own THEN u ELSE task[t].frame
  <2>1. f \in 0 .. MaxTasks
    <3>1. task[t].frame \in 0 .. MaxTasks
      BY DEF HandlerInv, Sound, Task
    <3>2. u \in 0 .. MaxTasks
      BY HandlerCodeAssumption DEF Tasks
    <3> QED  BY <3>1, <3>2
  <2> HIDE DEF f
  <2>2. Sound([Fresh EXCEPT !.at = "running", !.parent = t, !.role = c,
                            !.cases = cases, !.frame = f])
    BY <2>1, ChildSound
  <2> QED  BY <2>2 DEF f
<1>4. Sound(waiter)
  <2> DEFINE g == [task[t] EXCEPT !.at = "blocked"]
  <2>1. Sound(g)
    BY <1>1, MoveSound DEF HandlerInv
  <2>2. waiter = [g EXCEPT !.construct = c, !.kids = kids]
    BY DEF HandlerInv, Sound, Task
  <2> HIDE DEF g, kids, waiter
  <2> QED  BY <1>2, <2>1, <2>2, WaitSound
<1> HIDE DEF kids, child, waiter
<1>5. \A u \in Tasks : task'[u] \in {child(u), waiter, task[u]}
  BY <1>1
<1>6. \A u \in Tasks : Sound(task'[u])
  BY <1>3, <1>4, <1>5 DEF HandlerInv
<1>7. DOMAIN task' = Tasks /\ task' = [u \in Tasks |-> task'[u]]
  BY <1>1
<1> QED  BY <1>1, <1>2, <1>6, <1>7 DEF HandlerInv

LEMMA FinishKeeps ==
  ASSUME HandlerInv, NEW t \in Tasks, Finish(t)
  PROVE  HandlerInv'
<1>1. \E returns \in BOOLEAN :
        task' = [u \in Tasks |->
          IF u = t THEN [task[t] EXCEPT !.at = "done"]
          ELSE IF (/\ returns /\ task[t].role = "race"
                   /\ t \in task[task[t].parent].kids)
                  /\ u = task[t].parent
               THEN [task[u] EXCEPT !.results = @ \union {t}]
               ELSE task[u]]
  BY DEF Finish
<1>2. task[t].at = "running" /\ UNCHANGED <<used, performs, tame>>
  BY DEF Finish, At
<1>3. Sound([task[t] EXCEPT !.at = "done"])
  BY <1>2, MoveSound DEF HandlerInv
<1>4. ASSUME NEW u \in Tasks
      PROVE  Sound([task[u] EXCEPT !.results = @ \union {t}])
  <2>1. Sound(task[u]) /\ task[u].results \union {t} \in SUBSET Tasks
    BY DEF HandlerInv, Sound, Task
  <2> QED  BY <2>1, WaitSound DEF Constructs
<1>5. DOMAIN task' = Tasks /\ task' = [u \in Tasks |-> task'[u]]
  BY <1>1
<1>6. \A u \in Tasks : Sound(task'[u])
  <2> SUFFICES ASSUME NEW u \in Tasks
               PROVE  Sound(task'[u])
    OBVIOUS
  <2>1. \/ u = t /\ task'[u] = [task[t] EXCEPT !.at = "done"]
        \/ task'[u] = [task[u] EXCEPT !.results = @ \union {t}]
        \/ task'[u] = task[u]
    BY <1>1
  <2> QED  BY <1>3, <1>4, <2>1 DEF HandlerInv
<1> QED  BY <1>2, <1>5, <1>6 DEF HandlerInv

LEMMA PerformKeeps ==
  ASSUME HandlerInv, NEW t \in Tasks, Perform(t)
  PROVE  HandlerInv'
<1>1. PICK e \in Effects :
        task' = [task EXCEPT ![t].at = "performing", ![t].wants = {e},
                             ![t].request = performs + 1]
  BY DEF Perform
<1>2. /\ task[t].at = "running" /\ performs < MaxPerforms
      /\ performs' = performs + 1 /\ UNCHANGED <<used, tame>>
  BY DEF Perform, At
<1>3. performs + 1 \in 0 .. MaxPerforms /\ performs + 1 # 0
  BY <1>2, HandlerCodeAssumption DEF HandlerInv
<1>4. Sound([task[t] EXCEPT !.at = "performing", !.wants = {e}, !.request = performs + 1])
  <2> DEFINE n == performs + 1
             g == task[t]
             h == [g EXCEPT !.at = "performing", !.wants = {e}, !.request = n]
  <2>1. Sound(g) /\ g.at = "running" /\ n \in 0 .. MaxPerforms /\ n # 0
    BY <1>2, <1>3 DEF HandlerInv
  <2> HIDE DEF n, g
  <2>2. h \in Task /\ h.request = n /\ h.reply = g.reply
    BY <2>1 DEF Sound, Task
  <2>3. g.reply = {}
    BY <2>1 DEF Sound
  <2>4. Sound(h)
    BY <2>1, <2>2, <2>3 DEF Sound
  <2> QED  BY <2>4 DEF n, g
<1>5. task' = [u \in Tasks |-> IF u = t THEN [task[t] EXCEPT !.at = "performing",
                                                 !.wants = {e}, !.request = performs + 1]
                               ELSE task[u]]
  BY <1>1 DEF HandlerInv
<1> QED  BY <1>2, <1>3, <1>4, <1>5 DEF HandlerInv

LEMMA TakeReplyKeeps ==
  ASSUME HandlerInv, NEW t \in Tasks, TakeReply(t)
  PROVE  HandlerInv'
<1>1. Sound([task[t] EXCEPT !.at = "running", !.wants = {}, !.request = 0, !.reply = {}])
  <2> DEFINE g == task[t]
             h == [g EXCEPT !.at = "running", !.wants = {}, !.request = 0, !.reply = {}]
  <2>1. Sound(g) /\ 0 \in 0 .. MaxPerforms
    BY HandlerCodeAssumption DEF HandlerInv
  <2> HIDE DEF g
  <2>2. h \in Task /\ h.at = "running" /\ h.reply = {}
    BY <2>1 DEF Sound, Task
  <2>3. Sound(h)
    BY <2>2 DEF Sound
  <2> QED  BY <2>3 DEF g
<1>2. task' = [u \in Tasks |-> IF u = t THEN [task[t] EXCEPT !.at = "running",
                                  !.wants = {}, !.request = 0, !.reply = {}]
                               ELSE task[u]]
  BY DEF HandlerInv, TakeReply
<1>3. UNCHANGED <<used, performs, tame>>
  BY DEF TakeReply
<1> QED  BY <1>1, <1>2, <1>3 DEF HandlerInv

LEMMA ReceiveKeeps ==
  ASSUME HandlerInv, NEW o \in Tasks, Receive(o)
  PROVE  HandlerInv'
<1> DEFINE asker(u) == [task[u] EXCEPT !.at = "awaiting"]
           server(u, p) == [task[u] EXCEPT !.at = "casing", !.serving = p,
                                           !.served = task[p].request, !.resumes = 0]
           listed(p) == task[p].wants \subseteq task[task[p].frame].cases
<1>1. PICK p \in Tasks :
        /\ task[p].at = "performing"
        /\ task' = [u \in Tasks |-> CASE u = p               -> asker(u)
                                      [] u = o /\ listed(p)  -> server(u, p)
                                      [] OTHER               -> task[u]]
  BY DEF Receive
<1>2. task[o].at = "blocked" /\ UNCHANGED <<used, performs, tame>>
  BY DEF Receive, WaitsIn, At
<1>3. Sound(asker(p))
  <2> DEFINE g == task[p]
  <2>1. Sound(g) /\ g.at = "performing"
    BY <1>1 DEF HandlerInv
  <2> HIDE DEF g
  <2>2. Sound([g EXCEPT !.at = "awaiting"])
    BY <2>1 DEF Sound, Task
  <2> QED  BY <2>2 DEF g
<1>4. Sound(server(o, p))
  <2> DEFINE g == [task[o] EXCEPT !.at = "casing"]
             h == server(o, p)
  <2>1. Sound(g)
    BY <1>2, MoveSound DEF HandlerInv
  <2>2. h = [g EXCEPT !.serving = p, !.served = task[p].request, !.resumes = 0]
    BY DEF HandlerInv, Sound, Task
  <2>3. p \in 0 .. MaxTasks /\ task[p].request \in 0 .. MaxPerforms
    <3>1. task[p].request \in 0 .. MaxPerforms
      BY DEF HandlerInv, Sound, Task
    <3>2. p \in 0 .. MaxTasks
      BY HandlerCodeAssumption DEF Tasks
    <3> QED  BY <3>1, <3>2
  <2>4. 0 \in 0 .. 2
    OBVIOUS
  <2> HIDE DEF g, h
  <2>5. Sound(h)
    BY <2>1, <2>2, <2>3, <2>4, ServeSound
  <2> QED  BY <2>5 DEF h
<1> HIDE DEF asker, server, listed
<1>5. DOMAIN task' = Tasks /\ task' = [u \in Tasks |-> task'[u]]
  BY <1>1
<1>6. ASSUME NEW u \in Tasks
      PROVE  Sound(task'[u])
  <2>1. \/ u = p /\ task'[u] = asker(p)
        \/ u = o /\ task'[u] = server(o, p)
        \/ task'[u] = task[u]
    BY <1>1
  <2> QED  BY <1>3, <1>4, <2>1 DEF HandlerInv
<1> QED  BY <1>2, <1>5, <1>6 DEF HandlerInv

\* The value sent answers the request that p awaits the reply to.
LEMMA ResumeKeeps ==
  ASSUME HandlerInv, NEW o \in Tasks, Resume(o)
  PROVE  HandlerInv'
<1> DEFINE p == task[o].serving
           answer == {[by |-> o, request |-> task[o].served]}
           read == Reads(p, task[o].served)
<1>1. /\ task[o].at = "casing" /\ task[o].resumes < 2
      /\ UNCHANGED <<used, performs, tame>>
      /\ task' = [u \in Tasks |->
           CASE u = o -> [task[o] EXCEPT !.resumes = @ + 1]
             [] u = p /\ read -> [task[p] EXCEPT !.reply = answer]
             [] OTHER -> task[u]]
  BY DEF Resume, At
<1>2. Sound([task[o] EXCEPT !.resumes = @ + 1])
  <2>1. Sound(task[o]) /\ task[o].resumes + 1 \in 0 .. 2
    BY <1>1 DEF HandlerInv, Sound, Task
  <2> DEFINE g == task[o]
             k == task[o].resumes + 1
  <2>2. 0 \in 0 .. MaxTasks /\ 0 \in 0 .. MaxPerforms
    BY HandlerCodeAssumption
  <2>3. Sound(g) /\ k \in 0 .. 2
    BY <2>1
  <2> HIDE DEF g, k
  <2>4. Sound([g EXCEPT !.resumes = k])
    BY <2>2, <2>3, ServeSound
  <2> QED  BY <2>4 DEF g, k
<1>3. ASSUME p \in Tasks, read
      PROVE  Sound([task[p] EXCEPT !.reply = answer])
  <2>1. /\ task[p].at = "awaiting" /\ task[p].request = task[o].served
        /\ Sound(task[p])
    BY <1>3 DEF Reads, HandlerInv
  <2>2. answer \in SUBSET [by : Tasks, request : 1 .. MaxPerforms]
    BY <2>1, HandlerCodeAssumption DEF Sound, Task
  <2>3. \A r \in answer : r.request = task[p].request
    BY <2>1
  <2>4. \A r, s \in answer : r = s
    OBVIOUS
  <2> HIDE DEF answer, p
  <2> QED  BY <2>1, <2>2, <2>3, <2>4 DEF Sound, Task
<1> HIDE DEF p, answer, read
<1>4. ASSUME NEW u \in Tasks
      PROVE  Sound(task'[u])
  BY <1>1, <1>2, <1>3 DEF HandlerInv
<1>5. DOMAIN task' = Tasks /\ task' = [u \in Tasks |-> task'[u]]
  BY <1>1
<1> QED  BY <1>1, <1>4, <1>5 DEF HandlerInv

LEMMA CaseKeeps ==
  ASSUME HandlerInv, NEW o \in Tasks, NEW place \in {"blocked", "stuck"},
         task[o].at = "casing", task' = [task EXCEPT ![o] = Out(o, place)],
         UNCHANGED <<used, performs, tame>>
  PROVE  HandlerInv'
<1>1. Sound(Out(o, place))
  BY OutSound DEF HandlerInv
<1> QED  BY <1>1 DEF HandlerInv

LEMMA NextHandlerInv == HandlerInv /\ [Next]_vars => HandlerInv'
<1> SUFFICES ASSUME HandlerInv, [Next]_vars
             PROVE  HandlerInv'
  OBVIOUS
<1>1. ASSUME NEW t \in Tasks, EnterHandle(t)
      PROVE  HandlerInv'
  BY <1>1, StartKeeps DEF EnterHandle, Constructs
<1>2. ASSUME NEW t \in Tasks, EnterParallel(t) \/ EnterRace(t) \/ EnterTimeout(t)
      PROVE  HandlerInv'
  <2>1. \/ Start(t, "parallel", 2, FALSE, {})
        \/ Start(t, "race", 2, FALSE, {})
        \/ Start(t, "timeout", 1, FALSE, {})
    BY <1>2 DEF EnterParallel, EnterRace, EnterTimeout
  <2>2. /\ {"parallel", "race", "timeout"} \subseteq Constructs
        /\ {} \in SUBSET Effects /\ FALSE \in BOOLEAN
    BY DEF Constructs
  <2>3. CASE Start(t, "parallel", 2, FALSE, {})
    BY <2>2, <2>3, StartKeeps
  <2>4. CASE Start(t, "race", 2, FALSE, {})
    BY <2>2, <2>4, StartKeeps
  <2>5. CASE Start(t, "timeout", 1, FALSE, {})
    BY <2>2, <2>5, StartKeeps
  <2> QED  BY <2>1, <2>3, <2>4, <2>5
<1>3. ASSUME NEW t \in Tasks, EndCase(t) \/ CallEffectful(t)
      PROVE  HandlerInv'
  BY <1>3, CaseKeeps DEF EndCase, CallEffectful, At
<1>4. ASSUME NEW t \in Tasks,
             \/ ReturnFromCase(t) \/ Complete(t) \/ Join(t)
             \/ WinRace(t)        \/ BodyInTime(t) \/ TimedOut(t)
      PROVE  HandlerInv'
  <2>1. task[t].at # "awaiting" /\ Leaves(t)
    BY <1>4 DEF ReturnFromCase, Complete, Join, WinRace, BodyInTime, TimedOut,
                WaitsIn, At
  <2> QED  BY <2>1, LeavesKeeps
<1>5. CASE UNCHANGED vars
  BY <1>5 DEF vars, HandlerInv
<1> QED
  BY <1>1, <1>2, <1>3, <1>4, <1>5, FinishKeeps, PerformKeeps, TakeReplyKeeps,
     ReceiveKeeps, ResumeKeeps DEF Next, Step

LEMMA HandlerInductive == Spec => []HandlerInv
  BY InitHandlerInv, NextHandlerInv, PTL DEF Spec

-----------------------------------------------------------------------------
\* Every reachable state of the generated code is well typed, and no channel
\* made for a reply (__rch, effects.go) holds more than the one value it has
\* room for.
THEOREM HandlersTypeCorrect == Spec => []TypeOK
<1>1. ASSUME HandlerInv
      PROVE  TypeOK
  <2>1. task \in [Tasks -> Task]
    BY <1>1 DEF HandlerInv, Sound
  <2>2. ASSUME NEW t \in Tasks
        PROVE  Cardinality(task[t].reply) <= 1
    <3>1. CASE task[t].reply = {}
      BY <3>1, FS_EmptySet
    <3>2. CASE task[t].reply # {}
      <4>1. PICK r : r \in task[t].reply
        BY <3>2
      <4>2. task[t].reply = {r}
        BY <1>1, <4>1 DEF HandlerInv, Sound
      <4>3. Cardinality({r}) = 1
        BY FS_Singleton
      <4> QED  BY <4>2, <4>3
    <3> QED  BY <3>1, <3>2
  <2> QED  BY <1>1, <2>1, <2>2 DEF TypeOK, HandlerInv
<1> QED  BY <1>1, HandlerInductive, PTL

\* The value that a perform returns was meant for that perform: the request
\* carries its own channel, so that a late or second resume reaches nobody else.
THEOREM RepliesAnswerRequests == Spec => []AnswersOwnRequest
<1>1. HandlerInv => AnswersOwnRequest
  BY DEF HandlerInv, Sound, AnswersOwnRequest
<1> QED  BY <1>1, HandlerInductive, PTL
-----------------------------------------------------------------------------
(***************************************************************************)
(* Who answers whom.  A goroutine's frame is its own if it is the body of *)
(* a handle, else that of who started it; a construct's kids are still    *)
(* its own while it waits; a request is only served by the goroutine that *)
(* waits in the handle whose body is the performer's frame; and a tame    *)
(* program leaves no handle and no parallel before its goroutines ended.  *)
(***************************************************************************)
Started == 1 .. used

Tree ==
  /\ task[Main].parent = Nobody /\ task[Main].role = "none" /\ task[Main].frame = Nobody
  /\ \A u \in Started \ {Main} :
       /\ task[u].parent \in 1 .. u - 1
       /\ task[u].role \in Constructs \ {"none"}
       /\ task[u].frame = IF task[u].role = "handle" THEN u ELSE task[task[u].parent].frame
  /\ \A u \in Started : task[u].frame \in 0 .. u
  /\ \A u \in Tasks \ Started : task[u].at = "free" /\ task[u].kids = {} /\ task[u].reply = {}

InConstruct == {"blocked", "casing", "stuck"}

Waiting ==
  \A o \in Tasks :
    /\ task[o].kids # {} => task[o].at \in InConstruct
    /\ \A k \in task[o].kids :
         /\ k \in Started \ {Main}
         /\ task[k].parent = o /\ task[k].role = task[o].construct

Served(p, o) == p \in Started /\ task[p].frame # Nobody /\ task[task[p].frame].parent = o

Serving ==
  \A t \in Tasks :
    /\ task[t].at = "performing" => task[t].frame # Nobody
    /\ task[t].at = "casing" => Served(task[t].serving, t)
    /\ \A r \in task[t].reply : Served(t, r.by)

Joined == {"handle", "parallel"}

Attached ==
  tame => \A u \in Started :
    task[u].role \in Joined /\ task[u].at # "done" => u \in task[task[u].parent].kids

Structure == Tree /\ Waiting /\ Serving /\ Attached

-----------------------------------------------------------------------------
(***************************************************************************)
(* What every step but the start of a construct does to a goroutine u,    *)
(* from g to h.                                                           *)
(***************************************************************************)
Over(g) == tame => \A k \in g.kids : task[k].role \in Joined => task[k].at = "done"

Change(u, g, h) ==
  /\ h.parent = g.parent /\ h.role = g.role /\ h.frame = g.frame
  /\ \/ h.kids = g.kids /\ h.construct = g.construct
     \/ h.kids = {} /\ Over(g)
  /\ \/ h.at = g.at
     \/ /\ g.at \notin {"free", "done"} /\ h.at # "free"
        /\ h.kids # {} => h.at \in InConstruct
  /\ h.at = "performing" => g.frame # Nobody
  /\ h.at = "casing" => Served(h.serving, u)
  /\ \A r \in h.reply : Served(u, r.by)

LEMMA Idle ==
  ASSUME Structure, NEW u \in Tasks
  PROVE  Change(u, task[u], task[u])
  BY DEF Structure, Serving, Change

LEMMA QuietStep ==
  ASSUME HandlerInv, Structure, used' = used, tame' = tame,
         \A u \in Tasks : Change(u, task[u], task'[u])
  PROVE  Structure'
<1>1. Started' = Started /\ Started \subseteq Tasks /\ Main \in Tasks
  BY HandlerCodeAssumption DEF Started, HandlerInv, Tasks, Main
<1>2. \A u \in Tasks : /\ task'[u].parent = task[u].parent
                       /\ task'[u].role = task[u].role
                       /\ task'[u].frame = task[u].frame
  BY DEF Change
<1>3. \A u \in Started \ {Main} : task[u].parent \in Tasks
  <2>1. \A u \in Started \ {Main} : task[u].parent \in 1 .. u - 1
    BY DEF Structure, Tree
  <2> QED  BY <1>1, <2>1, HandlerCodeAssumption DEF Tasks
<1>4. \A u \in Started : task[u].frame # Nobody => task[u].frame \in Tasks
  <2>1. \A u \in Started : task[u].frame \in 0 .. u
    BY DEF Structure, Tree
  <2> QED  BY <1>1, <2>1, HandlerCodeAssumption DEF Tasks, Nobody
<1>5. \A p, o : Served(p, o) => Served(p, o)'
  BY <1>1, <1>2, <1>4 DEF Served
<1>6. Tree'
  <2>1. \A u \in Tasks \ Started :
          task'[u].at = "free" /\ task'[u].kids = {} /\ task'[u].reply = {}
    BY DEF Structure, Tree, Change, Served
  <2> QED  BY <1>1, <1>2, <1>3, <2>1 DEF Structure, Tree
<1>7. Waiting'
  <2> SUFFICES ASSUME NEW o \in Tasks
               PROVE  /\ task'[o].kids # {} => task'[o].at \in InConstruct
                      /\ \A k \in task'[o].kids :
                           /\ k \in Started \ {Main}
                           /\ task'[k].parent = o /\ task'[k].role = task'[o].construct
    BY <1>1 DEF Waiting
  <2>1. task'[o].kids # {} =>
          task'[o].kids = task[o].kids /\ task'[o].construct = task[o].construct
    BY DEF Change
  <2>2. task'[o].kids # {} => task'[o].at \in InConstruct
    BY <2>1 DEF Change, Structure, Waiting
  <2>3. \A k \in task'[o].kids :
          /\ k \in Started \ {Main}
          /\ task'[k].parent = o /\ task'[k].role = task'[o].construct
    BY <1>1, <1>2, <2>1 DEF Structure, Waiting
  <2> QED  BY <2>2, <2>3
<1>8. Serving'
  <2> SUFFICES ASSUME NEW t \in Tasks
               PROVE  /\ task'[t].at = "performing" => task'[t].frame # Nobody
                      /\ task'[t].at = "casing" => Served(task[t].serving, t)'
                      /\ \A r \in task'[t].reply : Served(t, r.by)'
    BY DEF Serving
  <2> QED  BY <1>2, <1>5 DEF Change
<1>9. Attached'
  <2> SUFFICES ASSUME tame, NEW u \in Started,
                      task[u].role \in Joined, task'[u].at # "done"
               PROVE  u \in task'[task[u].parent].kids
    BY <1>1, <1>2 DEF Attached
  <2>1. u # Main /\ task[u].parent \in Tasks
    BY <1>3 DEF Structure, Tree, Joined
  <2>2. task[u].at # "done"
    BY <1>1 DEF Change
  <2>3. u \in task[task[u].parent].kids
    BY <2>2 DEF Structure, Attached
  <2>4. ~ Over(task[task[u].parent])
    BY <2>2, <2>3 DEF Over
  <2> QED  BY <2>1, <2>3, <2>4 DEF Change
<1> QED  BY <1>6, <1>7, <1>8, <1>9 DEF Structure

-----------------------------------------------------------------------------
(* The quiet steps, action by action.                                       *)

LEMMA FinishQuiet ==
  ASSUME HandlerInv, Structure, NEW t \in Tasks, Finish(t)
  PROVE  Structure'
<1>1. task[t].at = "running" /\ used' = used /\ tame' = tame
  BY DEF Finish, At
<1>2. ASSUME NEW u \in Tasks
      PROVE  /\ task'[u].parent = task[u].parent /\ task'[u].role = task[u].role
             /\ task'[u].frame = task[u].frame /\ task'[u].kids = task[u].kids
             /\ task'[u].construct = task[u].construct
             /\ task'[u].serving = task[u].serving /\ task'[u].reply = task[u].reply
             /\ task'[u].at = IF u = t THEN "done" ELSE task[u].at
  <2>1. \/ u = t /\ task'[u] = [task[t] EXCEPT !.at = "done"]
        \/ u # t /\ task'[u] = [task[u] EXCEPT !.results = @ \union {t}]
        \/ u # t /\ task'[u] = task[u]
    BY DEF Finish
  <2>2. task[u] \in Task /\ task[t] \in Task
    BY DEF HandlerInv, Sound
  <2> QED  BY <2>1, <2>2 DEF Task
<1>3. task[t].kids = {}
  BY <1>1 DEF Structure, Waiting, InConstruct
<1>4. \A u \in Tasks : Change(u, task[u], task'[u])
  BY <1>1, <1>2, <1>3, Idle DEF Change
<1> QED  BY <1>1, <1>4, QuietStep

LEMMA PerformQuiet ==
  ASSUME HandlerInv, Structure, NEW t \in Tasks, Perform(t)
  PROVE  Structure'
<1>1. /\ task[t].at = "running" /\ task[t].frame # Nobody
      /\ used' = used /\ tame' = tame
  BY DEF Perform, At
<1>2. PICK e \in Effects :
        task' = [task EXCEPT ![t].at = "performing", ![t].wants = {e},
                             ![t].request = performs + 1]
  BY DEF Perform
<1> DEFINE g == task[t]
           h == [g EXCEPT !.at = "performing", !.wants = {e}, !.request = performs + 1]
<1>3. g \in Task
  BY DEF HandlerInv, Sound
<1>4. task'[t] = h /\ \A u \in Tasks \ {t} : task'[u] = task[u]
  BY <1>2 DEF HandlerInv
<1>5. g.kids = {}
  BY <1>1 DEF Structure, Waiting, InConstruct
<1>6. g.at = "running" /\ g.frame # Nobody /\ \A r \in g.reply : Served(t, r.by)
  BY <1>1 DEF Structure, Serving
<1> HIDE DEF g
<1>7. /\ h.parent = g.parent /\ h.role = g.role /\ h.frame = g.frame /\ h.kids = g.kids
      /\ h.construct = g.construct /\ h.reply = g.reply /\ h.at = "performing"
  BY <1>3 DEF Task
<1> HIDE DEF h
<1>8. Change(t, g, h)
  BY <1>5, <1>6, <1>7 DEF Change
<1>9. \A u \in Tasks : Change(u, task[u], task'[u])
  BY <1>4, <1>8, Idle DEF g
<1> QED  BY <1>1, <1>9, QuietStep

LEMMA TakeReplyQuiet ==
  ASSUME HandlerInv, Structure, NEW t \in Tasks, TakeReply(t)
  PROVE  Structure'
<1>1. task[t].at = "awaiting" /\ used' = used /\ tame' = tame
  BY DEF TakeReply, At
<1> DEFINE g == task[t]
           h == [g EXCEPT !.at = "running", !.wants = {}, !.request = 0, !.reply = {}]
<1>2. g \in Task
  BY DEF HandlerInv, Sound
<1>3. task'[t] = h /\ \A u \in Tasks \ {t} : task'[u] = task[u]
  BY DEF TakeReply, HandlerInv
<1>4. g.kids = {} /\ g.at = "awaiting"
  BY <1>1 DEF Structure, Waiting, InConstruct
<1> HIDE DEF g
<1>5. /\ h.parent = g.parent /\ h.role = g.role /\ h.frame = g.frame /\ h.kids = g.kids
      /\ h.construct = g.construct /\ h.reply = {} /\ h.at = "running"
  BY <1>2 DEF Task
<1> HIDE DEF h
<1>6. Change(t, g, h)
  BY <1>4, <1>5 DEF Change
<1>7. \A u \in Tasks : Change(u, task[u], task'[u])
  BY <1>3, <1>6, Idle DEF g
<1> QED  BY <1>1, <1>7, QuietStep

\* The request comes from the body of the handle that receives it.
LEMMA ReceiveQuiet ==
  ASSUME HandlerInv, Structure, NEW o \in Tasks, Receive(o)
  PROVE  Structure'
<1>1. task[o].at = "blocked" /\ used' = used /\ tame' = tame
  BY DEF Receive, WaitsIn, At
<1> DEFINE asker(u) == [task[u] EXCEPT !.at = "awaiting"]
           server(u, p) == [task[u] EXCEPT !.at = "casing", !.serving = p,
                                           !.served = task[p].request, !.resumes = 0]
           listed(p) == task[p].wants \subseteq task[task[p].frame].cases
<1>2. PICK p \in Tasks :
        /\ task[p].at = "performing" /\ task[p].frame \in task[o].kids
        /\ task' = [u \in Tasks |-> CASE u = p               -> asker(u)
                                      [] u = o /\ listed(p)  -> server(u, p)
                                      [] OTHER               -> task[u]]
  BY DEF Receive
<1>a. task[p].at = "performing" /\ task[p].frame \in task[o].kids
  BY <1>2
<1>3. Served(p, o)
  <2>1. p \in Started
    BY <1>a DEF Structure, Tree
  <2>2. task[p].frame # Nobody
    BY <1>a DEF Structure, Serving
  <2>3. task[task[p].frame].parent = o
    BY <1>a DEF Structure, Waiting
  <2> QED  BY <2>1, <2>2, <2>3 DEF Served
<1>4. task[p].kids = {}
  BY <1>a DEF Structure, Waiting, InConstruct
<1>5. task[p] \in Task /\ task[o] \in Task
  BY DEF HandlerInv, Sound
<1>6. Change(p, task[p], asker(p))
  <2> DEFINE g == task[p]
             h == [g EXCEPT !.at = "awaiting"]
  <2>1. g \in Task /\ g.kids = {} /\ g.at = "performing" /\ \A r \in g.reply : Served(p, r.by)
    BY <1>a, <1>4, <1>5 DEF Structure, Serving
  <2> HIDE DEF g
  <2>2. /\ h.parent = g.parent /\ h.role = g.role /\ h.frame = g.frame /\ h.kids = g.kids
        /\ h.construct = g.construct /\ h.reply = g.reply /\ h.at = "awaiting"
    BY <2>1 DEF Task
  <2> HIDE DEF h
  <2>3. Change(p, g, h)
    BY <2>1, <2>2 DEF Change
  <2> QED  BY <2>3 DEF g, h
<1>7. Change(o, task[o], server(o, p))
  <2> DEFINE g == task[o]
             n == task[p].request
             h == [g EXCEPT !.at = "casing", !.serving = p, !.served = n, !.resumes = 0]
  <2>1. g \in Task /\ g.at = "blocked" /\ \A r \in g.reply : Served(o, r.by)
    BY <1>1, <1>5 DEF Structure, Serving
  <2> HIDE DEF g, n
  <2>2. /\ h.parent = g.parent /\ h.role = g.role /\ h.frame = g.frame /\ h.kids = g.kids
        /\ h.construct = g.construct /\ h.reply = g.reply /\ h.at = "casing"
        /\ h.serving = p
    BY <2>1 DEF Task
  <2> HIDE DEF h
  <2>3. Change(o, g, h)
    BY <1>3, <2>1, <2>2 DEF Change, InConstruct
  <2> QED  BY <2>3 DEF g, h, n
<1> HIDE DEF asker, server, listed
<1>8. \A u \in Tasks : \/ u = p /\ task'[u] = asker(p)
                       \/ u = o /\ task'[u] = server(o, p)
                       \/ task'[u] = task[u]
  BY <1>2
<1>9. \A u \in Tasks : Change(u, task[u], task'[u])
  BY <1>6, <1>7, <1>8, Idle
<1> QED  BY <1>1, <1>9, QuietStep

\* The reply of a handler case goes to whom it serves.
LEMMA ResumeQuiet ==
  ASSUME HandlerInv, Structure, NEW o \in Tasks, Resume(o)
  PROVE  Structure'
<1> DEFINE p == task[o].serving
           answer == {[by |-> o, request |-> task[o].served]}
           read == Reads(p, task[o].served)
<1>1. /\ task[o].at = "casing" /\ used' = used /\ tame' = tame
      /\ task' = [u \in Tasks |->
           CASE u = o -> [task[o] EXCEPT !.resumes = @ + 1]
             [] u = p /\ read -> [task[p] EXCEPT !.reply = answer]
             [] OTHER -> task[u]]
  BY DEF Resume, At
<1>2. ASSUME NEW u \in Tasks
      PROVE  \/ task'[u] = [task[u] EXCEPT !.resumes = @ + 1]
             \/ u = p /\ task'[u] = [task[u] EXCEPT !.reply = answer]
             \/ task'[u] = task[u]
  BY <1>1
<1>3. task[o].at = "casing" /\ used' = used /\ tame' = tame
  BY <1>1
<1>4. Served(p, o)
  BY <1>3 DEF Structure, Serving
<1> HIDE DEF p, answer, read
<1>5. ASSUME NEW u \in Tasks
      PROVE  /\ task'[u].parent = task[u].parent /\ task'[u].role = task[u].role
             /\ task'[u].frame = task[u].frame /\ task'[u].kids = task[u].kids
             /\ task'[u].construct = task[u].construct
             /\ task'[u].serving = task[u].serving /\ task'[u].at = task[u].at
             /\ \/ task'[u].reply = task[u].reply
                \/ u = p /\ task'[u].reply = answer
  <2> DEFINE g == task[u]
             more == [g EXCEPT !.resumes = @ + 1]
             told == [g EXCEPT !.reply = answer]
  <2>1. g \in Task
    BY DEF HandlerInv, Sound
  <2> HIDE DEF g
  <2>2. /\ more.parent = g.parent /\ more.role = g.role /\ more.frame = g.frame
        /\ more.kids = g.kids /\ more.construct = g.construct
        /\ more.serving = g.serving /\ more.at = g.at /\ more.reply = g.reply
    BY <2>1 DEF Task
  <2>3. /\ told.parent = g.parent /\ told.role = g.role /\ told.frame = g.frame
        /\ told.kids = g.kids /\ told.construct = g.construct
        /\ told.serving = g.serving /\ told.at = g.at /\ told.reply = answer
    BY <2>1 DEF Task
  <2>4. \/ task'[u] = more
        \/ u = p /\ task'[u] = told
        \/ task'[u] = g
    BY <1>2 DEF g
  <2> HIDE DEF more, told
  <2>5. /\ task'[u].parent = g.parent /\ task'[u].role = g.role
        /\ task'[u].frame = g.frame /\ task'[u].kids = g.kids
        /\ task'[u].construct = g.construct
        /\ task'[u].serving = g.serving /\ task'[u].at = g.at
        /\ \/ task'[u].reply = g.reply
           \/ u = p /\ task'[u].reply = answer
    BY <2>2, <2>3, <2>4
  <2> QED  BY <2>5 DEF g
<1>6. \A r \in answer : r.by = o
  BY DEF answer
<1>7. \A u \in Tasks : Change(u, task[u], task'[u])
  BY <1>4, <1>5, <1>6, Idle DEF Change
<1> QED  BY <1>3, <1>7, QuietStep

\* A handler case ends, or gets stuck.
LEMMA CaseQuiet ==
  ASSUME HandlerInv, Structure, NEW o \in Tasks, NEW place \in {"blocked", "stuck"},
         task[o].at = "casing", task' = [task EXCEPT ![o] = Out(o, place)],
         used' = used, tame' = tame
  PROVE  Structure'
<1> DEFINE g == task[o]
           h == [g EXCEPT !.at = place, !.serving = Nobody, !.served = 0, !.resumes = 0]
<1>1. g \in Task /\ g.at = "casing" /\ \A r \in g.reply : Served(o, r.by)
  BY DEF HandlerInv, Sound, Structure, Serving
<1>2. task'[o] = h /\ \A u \in Tasks \ {o} : task'[u] = task[u]
  BY DEF HandlerInv, Out
<1> HIDE DEF g
<1>3. /\ h.parent = g.parent /\ h.role = g.role /\ h.frame = g.frame /\ h.kids = g.kids
      /\ h.construct = g.construct /\ h.reply = g.reply /\ h.at = place
  BY <1>1 DEF Task
<1> HIDE DEF h
<1>4. Change(o, g, h)
  BY <1>1, <1>3 DEF Change, InConstruct
<1>5. \A u \in Tasks : Change(u, task[u], task'[u])
  BY <1>2, <1>4, Idle DEF g
<1> QED  BY <1>5, QuietStep

\* Whoever leaves a construct is done with its kids, if it is tame.
LEMMA LeavesQuiet ==
  ASSUME HandlerInv, Structure, NEW o \in Tasks, task[o].at \in {"blocked", "casing"},
         Over(task[o]), Leaves(o), used' = used, tame' = tame
  PROVE  Structure'
<1> DEFINE g == task[o]
           h == [[g EXCEPT !.at = "running", !.serving = Nobody, !.served = 0, !.resumes = 0]
                   EXCEPT !.construct = "none", !.kids = {}, !.results = {}]
<1>1. /\ g \in Task /\ g.at \in {"blocked", "casing"} /\ Over(g)
      /\ \A r \in g.reply : Served(o, r.by)
  BY DEF HandlerInv, Sound, Structure, Serving
<1>2. task'[o] = h /\ \A u \in Tasks \ {o} : task'[u] = task[u]
  BY DEF HandlerInv, Leaves, Left, Out
<1> HIDE DEF g
<1>3. /\ h.parent = g.parent /\ h.role = g.role /\ h.frame = g.frame /\ h.kids = {}
      /\ h.reply = g.reply /\ h.at = "running"
  BY <1>1 DEF Task
<1> HIDE DEF h
<1>4. Change(o, g, h)
  BY <1>1, <1>3 DEF Change
<1>5. \A u \in Tasks : Change(u, task[u], task'[u])
  BY <1>2, <1>4, Idle DEF g
<1> QED  BY <1>5, QuietStep

LEMMA LeavingQuiet ==
  ASSUME HandlerInv, Structure, NEW o \in Tasks,
         \/ ReturnFromCase(o) \/ Complete(o) \/ Join(o)
         \/ WinRace(o)        \/ BodyInTime(o) \/ TimedOut(o)
  PROVE  Structure'
<1>1. task[o].at \in {"blocked", "casing"} /\ Leaves(o) /\ used' = used /\ tame' = tame
  BY DEF ReturnFromCase, Complete, Join, WinRace, BodyInTime, TimedOut, WaitsIn, At, Leaves
<1>2. Over(task[o])
  <2>1. CASE ReturnFromCase(o)
    BY <2>1 DEF ReturnFromCase, Over
  <2>2. CASE Complete(o) \/ Join(o) \/ BodyInTime(o)
    BY <2>2 DEF Complete, Join, BodyInTime, Ended, Over
  <2>3. CASE WinRace(o) \/ TimedOut(o)
    <3>1. task[o].construct \in {"race", "timeout"}
      BY <2>3 DEF WinRace, TimedOut, WaitsIn
    <3>2. \A k \in task[o].kids : task[k].role \notin Joined
      BY <3>1 DEF Structure, Waiting, Joined
    <3> QED  BY <3>2 DEF Over
  <2> QED  BY <2>1, <2>2, <2>3
<1> QED  BY <1>1, <1>2, LeavesQuiet

-----------------------------------------------------------------------------
(* The start of a construct: new goroutines, and one that waits for them.   *)
LEMMA StartStructure ==
  ASSUME HandlerInv, Structure, NEW t \in Tasks,
         NEW c \in Constructs \ {"none"}, NEW n \in {1, 2},
         NEW own \in BOOLEAN, own <=> c = "handle", NEW cases \in SUBSET Effects,
         Start(t, c, n, own, cases)
  PROVE  Structure'
<1> DEFINE kids == used + 1 .. used + n
           child(u) == [Fresh EXCEPT !.at = "running", !.parent = t, !.role = c,
                                     !.cases = cases,
                                     !.frame = IF own THEN u ELSE task[t].frame]
           waiter == [task[t] EXCEPT !.at = "blocked", !.construct = c, !.kids = kids]
<1>1. /\ task[t].at = "running" /\ used + n <= MaxTasks /\ used' = used + n /\ tame' = tame
      /\ task' = [u \in Tasks |-> CASE u \in kids -> child(u)
                                    [] u = t      -> waiter
                                    [] OTHER      -> task[u]]
  BY DEF Start, At
<1>2. used \in 1 .. MaxTasks /\ MaxTasks \in Nat /\ used + n <= MaxTasks /\ used' = used + n
  BY <1>1, HandlerCodeAssumption DEF HandlerInv, Tasks
<1>3. /\ Started \subseteq Tasks /\ Started' \subseteq Tasks /\ Main \in Started
      /\ Started' = Started \cup kids /\ Started \cap kids = {} /\ kids \subseteq Tasks
      /\ \A u \in kids, v \in Started : u \in Nat /\ v \in 1 .. u - 1
  BY <1>2 DEF Started, Tasks, Main
<1>4. t \in Started
  <2>1. task[t].at = "running"
    BY <1>1
  <2> QED  BY <2>1 DEF Structure, Tree
<1>5. task[t].kids = {} /\ \A r \in task[t].reply : Served(t, r.by)
  <2>1. task[t].at = "running"
    BY <1>1
  <2> QED  BY <2>1 DEF Structure, Waiting, Serving, InConstruct
<1>6. ASSUME NEW u
      PROVE  /\ child(u).parent = t /\ child(u).role = c /\ child(u).kids = {}
             /\ child(u).frame = IF own THEN u ELSE task[t].frame
             /\ child(u).at = "running" /\ child(u).reply = {}
  BY DEF Fresh
<1>7. /\ waiter.parent = task[t].parent /\ waiter.role = task[t].role
      /\ waiter.frame = task[t].frame /\ waiter.at = "blocked" /\ waiter.construct = c
      /\ waiter.kids = kids /\ waiter.reply = task[t].reply
  <2>1. task[t] \in Task
    BY DEF HandlerInv, Sound
  <2> HIDE DEF kids
  <2> QED  BY <2>1 DEF Task
<1> HIDE DEF child, waiter
<1>8. /\ \A u \in kids : task'[u] = child(u)
      /\ task'[t] = waiter
      /\ \A u \in Tasks \ (kids \cup {t}) : task'[u] = task[u]
  BY <1>1, <1>3, <1>4
<1> HIDE DEF kids
<1>9. \A u \in Tasks \ kids : /\ task'[u].parent = task[u].parent
                              /\ task'[u].role = task[u].role
                              /\ task'[u].frame = task[u].frame
                              /\ task'[u].reply = task[u].reply
  BY <1>7, <1>8
<1>10. /\ \A u \in Started \ {Main} : task[u].parent \in Started
       /\ \A u \in Started : task[u].frame # Nobody => task[u].frame \in Started
  <2>1. /\ \A u \in Started \ {Main} : task[u].parent \in 1 .. u - 1
        /\ \A u \in Started : task[u].frame \in 0 .. u
    BY DEF Structure, Tree
  <2> QED  BY <1>2, <2>1 DEF Started, Nobody
<1>11. Tree'
  <2>1. /\ task'[Main].parent = Nobody /\ task'[Main].role = "none"
        /\ task'[Main].frame = Nobody
    BY <1>3, <1>9 DEF Structure, Tree
  <2>2. ASSUME NEW u \in Started' \ {Main}
        PROVE  /\ task'[u].parent \in 1 .. u - 1
               /\ task'[u].role \in Constructs \ {"none"}
               /\ task'[u].frame = IF task'[u].role = "handle" THEN u
                                   ELSE task'[task'[u].parent].frame
    <3>1. CASE u \in kids
      <4>1. task'[u].parent = t /\ task'[u].role = c
            /\ task'[u].frame = IF own THEN u ELSE task[t].frame
        BY <1>6, <1>8, <3>1
      <4>2. task'[t].frame = task[t].frame
        BY <1>7, <1>8
      <4> QED  BY <1>3, <1>4, <3>1, <4>1, <4>2
    <3>2. CASE u \in Started \ {Main}
      <4>1. u \in Tasks \ kids /\ task[u].parent \in Tasks \ kids
        BY <1>3, <1>10, <3>2
      <4>2. /\ task[u].parent \in 1 .. u - 1
            /\ task[u].role \in Constructs \ {"none"}
            /\ task[u].frame = IF task[u].role = "handle" THEN u
                               ELSE task[task[u].parent].frame
        BY <3>2 DEF Structure, Tree
      <4> QED  BY <1>9, <4>1, <4>2
    <3> QED  BY <1>3, <2>2, <3>1, <3>2
  <2>3. ASSUME NEW u \in Started'
        PROVE  task'[u].frame \in 0 .. u
    <3>1. CASE u \in kids
      <4>1. task'[u].frame = u \/ task'[u].frame = task[t].frame
        BY <1>6, <1>8, <3>1
      <4>2. task[t].frame \in 0 .. t /\ u \in Nat /\ t \in 1 .. u - 1
        BY <1>3, <1>4, <3>1 DEF Structure, Tree
      <4> QED  BY <4>1, <4>2
    <3>2. CASE u \in Started
      BY <1>3, <1>9, <3>2 DEF Structure, Tree
    <3> QED  BY <1>3, <2>3, <3>1, <3>2
  <2>4. ASSUME NEW u \in Tasks \ Started'
        PROVE  task'[u].at = "free" /\ task'[u].kids = {} /\ task'[u].reply = {}
    <3>1. u \notin kids /\ u # t /\ u \notin Started
      BY <1>3, <1>4, <2>4
    <3> QED  BY <1>8, <3>1 DEF Structure, Tree
  <2> QED  BY <2>1, <2>2, <2>3, <2>4 DEF Tree
<1>12. Waiting'
  <2> SUFFICES ASSUME NEW o \in Tasks
               PROVE  /\ task'[o].kids # {} => task'[o].at \in InConstruct
                      /\ \A k \in task'[o].kids :
                           /\ k \in Started' \ {Main}
                           /\ task'[k].parent = o /\ task'[k].role = task'[o].construct
    BY DEF Waiting
  <2>1. CASE o \in kids
    BY <1>6, <1>8, <2>1
  <2>2. CASE o = t
    BY <1>3, <1>6, <1>7, <1>8, <2>2 DEF InConstruct
  <2>3. CASE o \notin kids /\ o # t
    <3>1. task'[o] = task[o]
      BY <1>8, <2>3
    <3>2. \A k \in task[o].kids : k \in Started \ {Main} /\ k \in Tasks \ kids
      BY <1>3 DEF Structure, Waiting
    <3> QED  BY <1>3, <1>9, <3>1, <3>2 DEF Structure, Waiting
  <2> QED  BY <2>1, <2>2, <2>3
<1>13. \A p, o : Served(p, o) => Served(p, o)'
  <2>1. ASSUME NEW p, NEW o, Served(p, o)
        PROVE  Served(p, o)'
    <3>1. p \in Started /\ task[p].frame \in Started /\ task[task[p].frame].parent = o
          /\ task[p].frame # Nobody
      BY <1>10, <2>1 DEF Served
    <3>2. p \in Tasks \ kids /\ task[p].frame \in Tasks \ kids
      BY <1>3, <3>1
    <3>3. task'[p].frame = task[p].frame
          /\ task'[task[p].frame].parent = task[task[p].frame].parent
      BY <1>9, <3>2
    <3> QED  BY <1>3, <3>1, <3>3 DEF Served
  <2> QED  BY <2>1
<1>14. Serving'
  <2> SUFFICES ASSUME NEW u \in Tasks
               PROVE  /\ task'[u].at = "performing" => task'[u].frame # Nobody
                      /\ task'[u].at = "casing" => Served(task[u].serving, u)'
                      /\ \A r \in task'[u].reply : Served(u, r.by)'
    BY DEF Serving
  <2>1. CASE u \in kids
    BY <1>6, <1>8, <2>1
  <2>2. CASE u = t
    BY <1>5, <1>7, <1>8, <1>13, <2>2
  <2>3. CASE u \notin kids /\ u # t
    <3>1. task'[u] = task[u]
      BY <1>8, <2>3
    <3> QED  BY <1>13, <3>1 DEF Structure, Serving
  <2> QED  BY <2>1, <2>2, <2>3
<1>15. Attached'
  <2> SUFFICES ASSUME tame, NEW u \in Started',
                      task'[u].role \in Joined, task'[u].at # "done"
               PROVE  u \in task'[task'[u].parent].kids
    BY <1>1 DEF Attached
  <2>1. CASE u \in kids
    BY <1>6, <1>7, <1>8, <2>1
  <2>2. CASE u \in Started
    <3>1. u \in Tasks \ kids /\ u # Main /\ task'[u].parent = task[u].parent
          /\ task[u].role \in Joined /\ task[u].parent \in Tasks \ kids
      BY <1>3, <1>9, <1>10, <2>2 DEF Structure, Tree, Joined
    <3>2. task[u].at # "done"
      <4>1. CASE u = t
        <5>1. task[t].at = "running"
          BY <1>1
        <5> QED  BY <4>1, <5>1
      <4>2. CASE u # t
        BY <1>8, <3>1, <4>2
      <4> QED  BY <4>1, <4>2
    <3>3. u \in task[task[u].parent].kids
      BY <2>2, <3>1, <3>2 DEF Structure, Attached
    <3>4. task[u].parent # t
      BY <1>5, <3>3
    <3> QED  BY <1>8, <3>1, <3>3, <3>4
  <2> QED  BY <1>3, <2>1, <2>2
<1> QED  BY <1>11, <1>12, <1>14, <1>15 DEF Structure

LEMMA NextStructure == HandlerInv /\ Structure /\ [Next]_vars => Structure'
<1> SUFFICES ASSUME HandlerInv, Structure, [Next]_vars
             PROVE  Structure'
  OBVIOUS
<1>1. ASSUME NEW t \in Tasks, EnterHandle(t)
      PROVE  Structure'
  <2>1. PICK cases \in SUBSET Effects : Start(t, "handle", 1, TRUE, cases)
    BY <1>1 DEF EnterHandle
  <2>2. "handle" \in Constructs \ {"none"} /\ 1 \in {1, 2} /\ TRUE \in BOOLEAN
        /\ (TRUE <=> "handle" = "handle")
    BY DEF Constructs
  <2> QED  BY <2>1, <2>2, StartStructure
<1>2. ASSUME NEW t \in Tasks, EnterParallel(t) \/ EnterRace(t) \/ EnterTimeout(t)
      PROVE  Structure'
  <2>1. PICK c \in {"parallel", "race", "timeout"}, n \in {1, 2} :
          Start(t, c, n, FALSE, {})
    BY <1>2 DEF EnterParallel, EnterRace, EnterTimeout
  <2>2. c \in Constructs \ {"none"} /\ (FALSE <=> c = "handle")
        /\ {} \in SUBSET Effects /\ FALSE \in BOOLEAN
    BY DEF Constructs
  <2> QED  BY <2>1, <2>2, StartStructure
<1>3. ASSUME NEW t \in Tasks, EndCase(t) \/ CallEffectful(t)
      PROVE  Structure'
  <2>1. PICK place \in {"blocked", "stuck"} : task' = [task EXCEPT ![t] = Out(t, place)]
    BY <1>3 DEF EndCase, CallEffectful
  <2>2. task[t].at = "casing" /\ used' = used /\ tame' = tame
    BY <1>3 DEF EndCase, CallEffectful, At
  <2> QED  BY <2>1, <2>2, CaseQuiet
<1>4. CASE UNCHANGED vars
  BY <1>4, Idle, QuietStep DEF vars
<1> QED
  BY <1>1, <1>2, <1>3, <1>4, FinishQuiet, PerformQuiet, TakeReplyQuiet, ReceiveQuiet,
     ResumeQuiet, LeavingQuiet DEF Next, Step

LEMMA InitStructure == Init => Structure
<1> SUFFICES ASSUME Init
             PROVE  Structure
  OBVIOUS
<1>1. /\ used = 1 /\ Started = {Main} /\ Main \in Tasks
      /\ task = [t \in Tasks |-> IF t = Main THEN [Fresh EXCEPT !.at = "running"] ELSE Fresh]
  BY HandlerCodeAssumption DEF Init, Started, Main, Tasks
<1>2. \A t \in Tasks : /\ task[t].parent = Nobody /\ task[t].role = "none"
                       /\ task[t].frame = Nobody /\ task[t].kids = {} /\ task[t].reply = {}
                       /\ task[t].at = IF t = Main THEN "running" ELSE "free"
  BY <1>1 DEF Fresh
<1>3. Tree
  <2>1. Started \ {Main} = {} /\ \A u \in Tasks \ Started : u # Main
    BY <1>1
  <2>2. \A u \in Started : task[u].frame \in 0 .. u
    BY <1>1, <1>2 DEF Nobody, Main
  <2> QED  BY <1>1, <1>2, <2>1, <2>2 DEF Tree
<1>4. Waiting /\ Serving
  BY <1>2 DEF Waiting, Serving
<1>5. Attached
  BY <1>1, <1>2 DEF Attached, Joined
<1> QED  BY <1>3, <1>4, <1>5 DEF Structure

LEMMA StructureInductive == Spec => [](HandlerInv /\ Structure)
<1>1. Init => HandlerInv /\ Structure
  BY InitHandlerInv, InitStructure
<1>2. HandlerInv /\ Structure /\ [Next]_vars => (HandlerInv /\ Structure)'
  BY NextHandlerInv, NextStructure
<1> QED  BY <1>1, <1>2, PTL DEF Spec

-----------------------------------------------------------------------------
(***************************************************************************)
(* The line of a goroutine: the least set that has it and, with a member, *)
(* who started that one.                                                  *)
(***************************************************************************)
LEMMA LeastElement ==
  ASSUME NEW T \in SUBSET Nat, T # {}
  PROVE  \E x \in T : \A y \in T : x <= y
<1> DEFINE R == OpToRel(<, Nat)
<1>1. IsWellFoundedOn(R, Nat)
  BY NatLessThanWellFounded
<1>2. \A y, x \in Nat : y < x => <<y, x>> \in R
  BY DEF OpToRel
<1> HIDE DEF R
<1>3. \E x \in T : \A y \in T : ~ (<<y, x>> \in R)
  BY <1>1, WFMin
<1>4. PICK x \in T : \A y \in T : ~ (<<y, x>> \in R)
  BY <1>3
<1>5. ASSUME NEW y \in T
      PROVE  x <= y
  <2>1. ~ (y < x)
    BY <1>2, <1>4, <1>5
  <2> QED  BY <2>1
<1> QED  BY <1>5

UpClosed(S) == \A u \in S : task[u].parent \in S \union {Nobody}

LEMMA LineLeast ==
  ASSUME NEW t \in Tasks
  PROVE  /\ t \in Line(t) /\ Line(t) \subseteq Tasks
         /\ \A u \in Line(t) : task[u].parent \in Tasks => task[u].parent \in Line(t)
         /\ \A S \in SUBSET Tasks : t \in S /\ UpClosed(S) => Line(t) \subseteq S
<1>1. Line(t) = {u \in Tasks : \A S \in SUBSET Tasks : t \in S /\ UpClosed(S) => u \in S}
  BY DEF Line, UpClosed
<1>2. ASSUME NEW u \in Line(t), task[u].parent \in Tasks
      PROVE  task[u].parent \in Line(t)
  <2> SUFFICES ASSUME NEW S \in SUBSET Tasks, t \in S, UpClosed(S)
               PROVE  task[u].parent \in S
    BY <1>1, <1>2
  <2>1. u \in S
    BY <1>1
  <2>2. task[u].parent # Nobody
    BY <1>2 DEF Tasks, Nobody
  <2> QED  BY <2>1, <2>2 DEF UpClosed
<1> QED  BY <1>1, <1>2

\* A goroutine's frame is the body of the innermost handle around it.
LEMMA FrameEncloses ==
  ASSUME HandlerInv, Structure, NEW t \in Started, task[t].frame # Nobody
  PROVE  task[t].frame \in Enclosing(t)
<1> DEFINE b == task[t].frame
<1>1. Started \subseteq Tasks /\ Started \subseteq Nat /\ used \in Nat
  BY HandlerCodeAssumption DEF Started, HandlerInv, Tasks
<1>2. b \in Started /\ b # Nobody
  BY <1>1 DEF Structure, Tree, Started, Nobody
<1> HIDE DEF b
<1>3. \A u \in Started : task[u].frame = b =>
        /\ u # Main /\ u \in Nat
        /\ task[u].parent \in Started /\ task[u].parent < u
        /\ task[u].role = "handle" => u = b
        /\ task[u].role # "handle" => task[task[u].parent].frame = b
  <2> SUFFICES ASSUME NEW u \in Started, task[u].frame = b
               PROVE  /\ u # Main /\ u \in Nat
                      /\ task[u].parent \in Started /\ task[u].parent < u
                      /\ task[u].role = "handle" => u = b
                      /\ task[u].role # "handle" => task[task[u].parent].frame = b
    OBVIOUS
  <2>1. u # Main
    BY <1>2 DEF Structure, Tree
  <2>2. /\ task[u].parent \in 1 .. u - 1
        /\ task[u].frame = IF task[u].role = "handle" THEN u ELSE task[task[u].parent].frame
    BY <2>1 DEF Structure, Tree
  <2>3. task[u].parent \in Started /\ task[u].parent < u
    BY <1>1, <2>2 DEF Started
  <2> QED  BY <1>1, <2>1, <2>2, <2>3
<1>4. b \in Line(t) /\ task[b].role = "handle"
  <2>1. ASSUME NEW S \in SUBSET Tasks, t \in S, UpClosed(S)
        PROVE  b \in S /\ task[b].role = "handle"
    <3> DEFINE T == {u \in S \cap Started : task[u].frame = b}
    <3>1. T \in SUBSET Nat /\ T # {}
      BY <1>1, <2>1 DEF b
    <3>2. PICK m \in T : \A y \in T : m <= y
      BY <3>1, LeastElement
    <3>3. m \in Started /\ m \in S /\ task[m].frame = b
      BY <3>2
    <3>4. task[m].parent \in S /\ task[m].parent \in Started /\ task[m].parent < m
      <4>1. task[m].parent \in Started /\ task[m].parent < m
        BY <1>3, <3>3
      <4>2. task[m].parent # Nobody
        BY <4>1, <1>1 DEF Started, Nobody
      <4> QED  BY <2>1, <3>3, <4>1, <4>2 DEF UpClosed
    <3>5. task[m].role = "handle"
      <4> SUFFICES ASSUME task[m].role # "handle"
                   PROVE  FALSE
        OBVIOUS
      <4>1. task[m].parent \in T
        BY <1>3, <3>3, <3>4
      <4>2. m <= task[m].parent
        BY <3>2, <4>1
      <4>3. m \in Nat /\ task[m].parent \in Nat
        BY <1>1, <3>3, <3>4
      <4> QED  BY <3>4, <4>2, <4>3
    <3>6. m = b
      BY <1>3, <3>3, <3>5
    <3> QED  BY <3>3, <3>5, <3>6
  <2>2. t \in Tasks /\ UpClosed(Tasks)
    <3>1. \A u \in Tasks : task[u].parent \in 0 .. MaxTasks
      BY DEF HandlerInv, Sound, Task
    <3> QED  BY <1>1, <3>1, HandlerCodeAssumption DEF UpClosed, Tasks, Nobody
  <2>3. Tasks \in SUBSET Tasks
    OBVIOUS
  <2>4. task[b].role = "handle"
    BY <2>1, <2>2, <2>3
  <2>5. b \in Line(t)
    BY <1>1, <1>2, <2>1 DEF Line, UpClosed
  <2> QED  BY <2>4, <2>5
<1>5. ASSUME NEW c \in Line(t), c > b
      PROVE  task[c].role # "handle"
  <2> DEFINE S == {u \in Started : u <= b \/ task[u].frame = b}
  <2>1. S \in SUBSET Tasks /\ t \in S
    BY <1>1 DEF b
  <2>2. UpClosed(S)
    <3> SUFFICES ASSUME NEW u \in S
                 PROVE  task[u].parent \in S \union {Nobody}
      BY DEF UpClosed
    <3>1. CASE u = Main
      BY <3>1 DEF Structure, Tree
    <3>2. CASE u # Main /\ u <= b
      <4>1. task[u].parent \in 1 .. u - 1
        BY <3>2 DEF Structure, Tree
      <4> QED  BY <1>1, <1>2, <3>2, <4>1 DEF Started
    <3>3. CASE ~ (u <= b)
      <4>1. u \in Started /\ task[u].frame = b /\ u # b
        BY <1>1, <1>2, <3>3
      <4> QED  BY <1>3, <4>1
    <3> QED  BY <3>1, <3>2, <3>3
  <2> HIDE DEF S
  <2>3. c \in S
    BY <1>1, <2>1, <2>2, LineLeast
  <2>4. c \in Started /\ task[c].frame = b /\ c # b
    <3>1. c \in Started /\ (c <= b \/ task[c].frame = b)
      BY <2>3 DEF S
    <3>2. c \in Nat /\ b \in Nat
      BY <1>1, <1>2, <3>1
    <3> QED  BY <1>5, <3>1, <3>2
  <2> QED  BY <1>3, <2>4
<1> QED  BY <1>4, <1>5 DEF Enclosing, b

-----------------------------------------------------------------------------
(***************************************************************************)
(* What is answered has a case.  A request that is served, or whose reply *)
(* has been sent, is for an effect that the performer's handle lists; the *)
(* numbers of requests only grow, so that no old case serves a new one.   *)
(***************************************************************************)
Listed(t) == task[t].wants \subseteq task[task[t].frame].cases

CaseInv ==
  /\ \A t \in Tasks : /\ task[t].request <= performs /\ task[t].served <= performs
                      /\ task[t].wants # {} => /\ task[t].at \in {"performing", "awaiting"}
                                               /\ task[t].frame # Nobody
                      /\ task[t].reply # {} => Listed(t)
  /\ \A o, p \in Tasks :
       task[o].serving = p /\ task[o].served = task[p].request => Listed(p)

\* Whoever performs has its frame among the goroutines started.
LEMMA WantsFramed ==
  ASSUME HandlerInv, Structure, CaseInv, NEW t \in Tasks, task[t].wants # {}
  PROVE  t \in Started /\ task[t].frame \in Started
<1>1. task[t].at \in {"performing", "awaiting"} /\ task[t].frame # Nobody
  BY DEF CaseInv
<1>2. t \in Started
  BY <1>1 DEF Structure, Tree
<1>3. task[t].frame \in 0 .. t
  BY <1>2 DEF Structure, Tree
<1>4. used \in Nat
  BY HandlerCodeAssumption DEF HandlerInv, Tasks
<1> QED  BY <1>1, <1>2, <1>3, <1>4 DEF Started, Nobody

LEMMA ListedStays ==
  ASSUME HandlerInv, Structure, CaseInv, NEW t \in Tasks, Listed(t),
         task'[t].wants = task[t].wants, task'[t].frame = task[t].frame,
         \A u \in Started : task'[u].cases = task[u].cases
  PROVE  Listed(t)'
<1>1. CASE task[t].wants = {}
  BY <1>1 DEF Listed
<1>2. CASE task[t].wants # {}
  BY <1>2, WantsFramed DEF Listed
<1> QED  BY <1>1, <1>2

\* What most steps do to a goroutine u, from g to h.
Serves(u, g, h) ==
  /\ h.cases = g.cases /\ h.frame = g.frame /\ h.wants = g.wants /\ h.request = g.request
  /\ \/ h.at = g.at
     \/ g.at \notin {"performing", "awaiting"}
     \/ h.at = "awaiting"
  /\ \/ h.serving = g.serving /\ h.served = g.served
     \/ h.serving = Nobody /\ h.served = 0
     \/ h.serving \in Tasks /\ Listed(h.serving) /\ h.served = task[h.serving].request
  /\ h.reply = g.reply \/ Listed(u)

LEMMA ServesSame == \A u \in Tasks : Serves(u, task[u], task[u])
  BY DEF Serves

LEMMA ServesStep ==
  ASSUME HandlerInv, Structure, CaseInv, performs' = performs,
         \A u \in Tasks : Serves(u, task[u], task'[u])
  PROVE  CaseInv'
<1>1. \A u \in Tasks : Listed(u) => Listed(u)'
  <2>1. Started \subseteq Tasks
    BY HandlerCodeAssumption DEF Started, HandlerInv, Tasks
  <2> QED  BY <2>1, ListedStays DEF Serves
<1>2. ASSUME NEW t \in Tasks
      PROVE  /\ task'[t].request <= performs /\ task'[t].served <= performs
             /\ task'[t].wants # {} => /\ task'[t].at \in {"performing", "awaiting"}
                                       /\ task'[t].frame # Nobody
             /\ task'[t].reply # {} => Listed(t)'
  <2>1. performs \in Nat /\ 0 <= performs
    BY HandlerCodeAssumption DEF HandlerInv
  <2>2. Serves(t, task[t], task'[t])
    OBVIOUS
  <2>3. task'[t].request <= performs /\ task'[t].served <= performs
    BY <2>1, <2>2 DEF Serves, CaseInv
  <2>4. task'[t].wants # {} => /\ task'[t].at \in {"performing", "awaiting"}
                              /\ task'[t].frame # Nobody
    BY <2>2 DEF Serves, CaseInv
  <2>5. task'[t].reply # {} => Listed(t)
    BY <2>2 DEF Serves, CaseInv
  <2> QED  BY <1>1, <2>3, <2>4, <2>5
<1>3. ASSUME NEW o \in Tasks, NEW p \in Tasks,
             task'[o].serving = p, task'[o].served = task'[p].request
      PROVE  Listed(p)'
  <2>1. Serves(o, task[o], task'[o]) /\ Serves(p, task[p], task'[p])
    OBVIOUS
  <2>2. p # Nobody /\ task'[p].request = task[p].request
    BY <2>1 DEF Serves, Tasks, Nobody
  <2>3. Listed(p)
    BY <1>3, <2>1, <2>2 DEF Serves, CaseInv
  <2> QED  BY <1>1, <2>3
<1> QED  BY <1>2, <1>3 DEF CaseInv

LEMMA FinishServes ==
  ASSUME HandlerInv, Structure, CaseInv, NEW t \in Tasks, Finish(t)
  PROVE  CaseInv'
<1>1. task[t].at = "running" /\ performs' = performs
  BY DEF Finish, At
<1>2. ASSUME NEW u \in Tasks
      PROVE  Serves(u, task[u], task'[u])
  <2> DEFINE g == task[u]
             ended == [g EXCEPT !.at = "done"]
             sent == [g EXCEPT !.results = @ \union {t}]
  <2>1. g \in Task /\ (u = t => g.at = "running")
    BY <1>1 DEF HandlerInv, Sound
  <2>2. \/ u = t /\ task'[u] = ended
        \/ task'[u] = sent
        \/ task'[u] = g
    BY DEF Finish
  <2> HIDE DEF g
  <2>3. Serves(u, g, sent)
    BY <2>1 DEF Task, Serves
  <2>4. u = t => Serves(u, g, ended)
    BY <2>1 DEF Task, Serves
  <2> HIDE DEF ended, sent
  <2>5. Serves(u, g, task'[u])
    BY <2>2, <2>3, <2>4, ServesSame DEF g
  <2> QED  BY <2>5 DEF g
<1> QED  BY <1>1, <1>2, ServesStep

LEMMA ReceiveServes ==
  ASSUME HandlerInv, Structure, CaseInv, NEW o \in Tasks, Receive(o)
  PROVE  CaseInv'
<1>1. task[o].at = "blocked" /\ performs' = performs
  BY DEF Receive, WaitsIn, At
<1> DEFINE asker(u) == [task[u] EXCEPT !.at = "awaiting"]
           server(u, p) == [task[u] EXCEPT !.at = "casing", !.serving = p,
                                           !.served = task[p].request, !.resumes = 0]
           listed(p) == task[p].wants \subseteq task[task[p].frame].cases
<1>2. PICK p \in Tasks :
        task' = [u \in Tasks |-> CASE u = p               -> asker(u)
                                   [] u = o /\ listed(p)  -> server(u, p)
                                   [] OTHER               -> task[u]]
  BY DEF Receive
<1>3. listed(p) <=> Listed(p)
  BY DEF Listed
<1>4. Serves(p, task[p], asker(p))
  <2> DEFINE g == task[p]
             h == [g EXCEPT !.at = "awaiting"]
  <2>1. g \in Task
    BY DEF HandlerInv, Sound
  <2> HIDE DEF g
  <2>2. Serves(p, g, h)
    BY <2>1 DEF Task, Serves
  <2> QED  BY <2>2 DEF g, h
<1>5. Listed(p) => Serves(o, task[o], server(o, p))
  <2> DEFINE g == task[o]
             n == task[p].request
             h == [g EXCEPT !.at = "casing", !.serving = p, !.served = n, !.resumes = 0]
  <2>1. g \in Task /\ g.at = "blocked"
    BY <1>1 DEF HandlerInv, Sound
  <2>2. n = task[p].request
    OBVIOUS
  <2> HIDE DEF g, n
  <2>3. /\ h.cases = g.cases /\ h.frame = g.frame /\ h.wants = g.wants
        /\ h.request = g.request /\ h.serving = p /\ h.served = n /\ h.reply = g.reply
    BY <2>1 DEF Task
  <2> HIDE DEF h
  <2>4. Listed(p) => Serves(o, g, h)
    BY <2>1, <2>2, <2>3 DEF Serves
  <2> QED  BY <2>4 DEF g, h, n
<1> HIDE DEF asker, server, listed
<1>6. \A u \in Tasks : \/ u = p /\ task'[u] = asker(p)
                       \/ u = o /\ listed(p) /\ task'[u] = server(o, p)
                       \/ task'[u] = task[u]
  BY <1>2
<1>7. \A u \in Tasks : Serves(u, task[u], task'[u])
  BY <1>3, <1>4, <1>5, <1>6, ServesSame
<1> QED  BY <1>1, <1>7, ServesStep

LEMMA ResumeServes ==
  ASSUME HandlerInv, Structure, CaseInv, NEW o \in Tasks, Resume(o)
  PROVE  CaseInv'
<1> DEFINE p == task[o].serving
           answer == {[by |-> o, request |-> task[o].served]}
           read == Reads(p, task[o].served)
<1>1. /\ performs' = performs
      /\ task' = [u \in Tasks |->
           CASE u = o -> [task[o] EXCEPT !.resumes = @ + 1]
             [] u = p /\ read -> [task[p] EXCEPT !.reply = answer]
             [] OTHER -> task[u]]
  BY DEF Resume
<1>2. p \in Tasks /\ read => Listed(p)
  BY DEF Reads, CaseInv
<1>3. ASSUME NEW u \in Tasks
      PROVE  \/ task'[u] = [task[u] EXCEPT !.resumes = @ + 1]
             \/ Listed(u) /\ task'[u] = [task[u] EXCEPT !.reply = answer]
             \/ task'[u] = task[u]
  <2> HIDE DEF answer, read, p
  <2> QED  BY <1>1, <1>2
<1> HIDE DEF answer
<1>4. ASSUME NEW u \in Tasks
      PROVE  Serves(u, task[u], task'[u])
  <2> DEFINE g == task[u]
             more == [g EXCEPT !.resumes = @ + 1]
             told == [g EXCEPT !.reply = answer]
  <2>1. g \in Task
    BY DEF HandlerInv, Sound
  <2>2. \/ task'[u] = more
        \/ Listed(u) /\ task'[u] = told
        \/ task'[u] = g
    BY <1>3
  <2> HIDE DEF g
  <2>3. Serves(u, g, more)
    BY <2>1 DEF Task, Serves
  <2>4. Listed(u) => Serves(u, g, told)
    BY <2>1 DEF Task, Serves
  <2> HIDE DEF more, told
  <2>5. Serves(u, g, task'[u])
    BY <2>2, <2>3, <2>4, ServesSame DEF g
  <2> QED  BY <2>5 DEF g
<1> QED  BY <1>1, <1>4, ServesStep

\* A case ends, or whoever waits leaves the construct.
LEMMA OutServes ==
  ASSUME HandlerInv, Structure, CaseInv, NEW o \in Tasks, performs' = performs,
         task[o].at \in {"blocked", "casing"},
         \/ \E place \in {"blocked", "stuck"} : task' = [task EXCEPT ![o] = Out(o, place)]
         \/ Leaves(o)
  PROVE  CaseInv'
<1> DEFINE g == task[o]
           h(place) == [g EXCEPT !.at = place, !.serving = Nobody, !.served = 0, !.resumes = 0]
           left == [h("running") EXCEPT !.construct = "none", !.kids = {}, !.results = {}]
<1>1. g \in Task /\ g.at \in {"blocked", "casing"}
  BY DEF HandlerInv, Sound
<1>2. /\ \A u \in Tasks \ {o} : task'[u] = task[u]
      /\ task'[o] = left \/ \E place \in {"blocked", "stuck"} : task'[o] = h(place)
  BY DEF HandlerInv, Leaves, Left, Out
<1> HIDE DEF g
<1>3. Serves(o, g, left) /\ \A place \in {"blocked", "stuck"} : Serves(o, g, h(place))
  BY <1>1 DEF Task, Serves
<1> HIDE DEF h, left
<1>4. \A u \in Tasks : Serves(u, task[u], task'[u])
  BY <1>2, <1>3, ServesSame DEF g
<1> QED  BY <1>4, ServesStep

LEMMA PerformServes ==
  ASSUME HandlerInv, Structure, CaseInv, NEW t \in Tasks, Perform(t)
  PROVE  CaseInv'
<1> DEFINE g == task[t]
<1>1. /\ g.at = "running" /\ g.frame # Nobody /\ performs' = performs + 1
      /\ g \in Task /\ g.reply = {} /\ performs \in Nat
  BY HandlerCodeAssumption DEF Perform, At, HandlerInv, Sound
<1>2. PICK e \in Effects :
        task' = [task EXCEPT ![t].at = "performing", ![t].wants = {e},
                             ![t].request = performs + 1]
  BY DEF Perform
<1> DEFINE h == [g EXCEPT !.at = "performing", !.wants = {e}, !.request = performs + 1]
<1>3. task'[t] = h /\ \A u \in Tasks \ {t} : task'[u] = task[u]
  BY <1>2 DEF HandlerInv
<1>4. g.served <= performs
  BY DEF CaseInv
<1> HIDE DEF g
<1>5. /\ h.cases = g.cases /\ h.frame = g.frame /\ h.request = performs + 1
      /\ h.at = "performing" /\ h.reply = {} /\ h.serving = g.serving /\ h.served = g.served
  BY <1>1 DEF Task
<1> HIDE DEF h
<1>6. \A u \in Tasks : /\ task'[u].cases = task[u].cases /\ task'[u].frame = task[u].frame
                       /\ task'[u].serving = task[u].serving
                       /\ task'[u].served = task[u].served
  BY <1>3, <1>5 DEF g
<1>7. \A u \in Tasks \ {t} : Listed(u) => Listed(u)'
  <2>1. Started \subseteq Tasks
    BY HandlerCodeAssumption DEF Started, HandlerInv, Tasks
  <2> QED  BY <1>3, <1>6, <2>1, ListedStays
<1>8. ASSUME NEW u \in Tasks
      PROVE  /\ task'[u].request <= performs' /\ task'[u].served <= performs'
             /\ task'[u].wants # {} => /\ task'[u].at \in {"performing", "awaiting"}
                                       /\ task'[u].frame # Nobody
             /\ task'[u].reply # {} => Listed(u)'
  <2>1. CASE u = t
    <3>1. h.served \in Nat /\ h.served <= performs
      BY <1>1, <1>4, <1>5 DEF Task
    <3> QED  BY <1>1, <1>3, <1>5, <2>1, <3>1
  <2>2. CASE u # t
    <3>1. task[u].request \in Nat /\ task[u].served \in Nat
      BY DEF HandlerInv, Sound, Task
    <3>2. task[u].request <= performs + 1 /\ task[u].served <= performs + 1
      BY <1>1, <3>1 DEF CaseInv
    <3> QED  BY <1>1, <1>3, <1>7, <2>2, <3>2 DEF CaseInv
  <2> QED  BY <2>1, <2>2
<1>9. ASSUME NEW o \in Tasks, NEW p \in Tasks,
             task'[o].serving = p, task'[o].served = task'[p].request
      PROVE  Listed(p)'
  <2>1. p # t
    <3>1. task[o].served \in Nat /\ task[o].served <= performs
      BY DEF HandlerInv, Sound, Task, CaseInv
    <3>2. task'[o].served # performs + 1
      BY <1>1, <1>6, <3>1
    <3> QED  BY <1>3, <1>5, <1>9, <3>2
  <2>2. Listed(p)
    BY <1>3, <1>6, <1>9, <2>1 DEF CaseInv
  <2> QED  BY <1>7, <2>1, <2>2
<1> QED  BY <1>8, <1>9 DEF CaseInv

LEMMA TakeReplyServes ==
  ASSUME HandlerInv, Structure, CaseInv, NEW t \in Tasks, TakeReply(t)
  PROVE  CaseInv'
<1> DEFINE g == task[t]
           h == [g EXCEPT !.at = "running", !.wants = {}, !.request = 0, !.reply = {}]
<1>1. g \in Task /\ performs' = performs /\ performs \in Nat /\ g.served <= performs
  BY HandlerCodeAssumption DEF HandlerInv, Sound, TakeReply, CaseInv
<1>2. task'[t] = h /\ \A u \in Tasks \ {t} : task'[u] = task[u]
  BY DEF TakeReply, HandlerInv
<1> HIDE DEF g
<1>3. /\ h.cases = g.cases /\ h.frame = g.frame /\ h.request = 0 /\ h.wants = {}
      /\ h.reply = {} /\ h.serving = g.serving /\ h.served = g.served
  BY <1>1 DEF Task
<1> HIDE DEF h
<1>4. \A u \in Tasks : /\ task'[u].cases = task[u].cases /\ task'[u].frame = task[u].frame
                       /\ task'[u].serving = task[u].serving
                       /\ task'[u].served = task[u].served
  BY <1>2, <1>3 DEF g
<1>5. \A u \in Tasks : Listed(u) => Listed(u)'
  <2>1. Started \subseteq Tasks
    BY HandlerCodeAssumption DEF Started, HandlerInv, Tasks
  <2>2. Listed(t)'
    BY <1>2, <1>3 DEF Listed
  <2> QED  BY <1>2, <1>4, <2>1, <2>2, ListedStays
<1>6. Listed(t)'
  BY <1>2, <1>3 DEF Listed
<1> QED  BY <1>1, <1>2, <1>3, <1>4, <1>5, <1>6 DEF CaseInv, g

LEMMA StartServes ==
  ASSUME HandlerInv, Structure, CaseInv, NEW t \in Tasks, NEW c, NEW n \in {1, 2},
         NEW own, NEW cases, Start(t, c, n, own, cases)
  PROVE  CaseInv'
<1> DEFINE kids == used + 1 .. used + n
           child(u) == [Fresh EXCEPT !.at = "running", !.parent = t, !.role = c,
                                     !.cases = cases,
                                     !.frame = IF own THEN u ELSE task[t].frame]
           waiter == [task[t] EXCEPT !.at = "blocked", !.construct = c, !.kids = kids]
<1>1. /\ task[t].at = "running" /\ performs' = performs
      /\ task' = [u \in Tasks |-> CASE u \in kids -> child(u)
                                    [] u = t      -> waiter
                                    [] OTHER      -> task[u]]
  BY DEF Start, At
<1>2. used \in Nat /\ Started \subseteq Tasks /\ Started \cap kids = {}
  BY HandlerCodeAssumption DEF HandlerInv, Tasks, Started
<1>3. t \in Started
  <2>1. task[t].at = "running"
    BY <1>1
  <2> QED  BY <2>1 DEF Structure, Tree
<1>4. ASSUME NEW u
      PROVE  /\ child(u).wants = {} /\ child(u).reply = {} /\ child(u).request = 0
             /\ child(u).serving = Nobody /\ child(u).served = 0
  BY DEF Fresh
<1>5. /\ waiter.cases = task[t].cases /\ waiter.frame = task[t].frame
      /\ waiter.wants = task[t].wants /\ waiter.request = task[t].request
      /\ waiter.serving = task[t].serving /\ waiter.served = task[t].served
      /\ waiter.reply = task[t].reply
  <2>1. task[t] \in Task
    BY DEF HandlerInv, Sound
  <2> HIDE DEF kids
  <2> QED  BY <2>1 DEF Task
<1> HIDE DEF child, waiter, kids
<1>6. /\ \A u \in Tasks \cap kids : task'[u] = child(u)
      /\ task'[t] = waiter
      /\ \A u \in Tasks \ (kids \cup {t}) : task'[u] = task[u]
  BY <1>1, <1>2, <1>3
<1>7. \A u \in Tasks \ kids :
        /\ task'[u].cases = task[u].cases /\ task'[u].frame = task[u].frame
        /\ task'[u].wants = task[u].wants /\ task'[u].request = task[u].request
        /\ task'[u].serving = task[u].serving /\ task'[u].served = task[u].served
        /\ task'[u].reply = task[u].reply
  BY <1>5, <1>6
<1>8. \A u \in Tasks \ kids : Listed(u) => Listed(u)'
  BY <1>2, <1>7, ListedStays
<1>9. \A u \in Tasks \cap kids : Listed(u)'
  BY <1>4, <1>6 DEF Listed
<1>10. ASSUME NEW u \in Tasks
       PROVE  /\ task'[u].request <= performs' /\ task'[u].served <= performs'
              /\ task'[u].wants # {} => /\ task'[u].at \in {"performing", "awaiting"}
                                        /\ task'[u].frame # Nobody
              /\ task'[u].reply # {} => Listed(u)'
  <2>1. CASE u \in kids
    <3>1. 0 <= performs
      BY HandlerCodeAssumption DEF HandlerInv
    <3> QED  BY <1>1, <1>4, <1>6, <2>1, <3>1
  <2>2. CASE u \notin kids
    <3>1. task'[u].request <= performs' /\ task'[u].served <= performs'
      BY <1>1, <1>7, <2>2 DEF CaseInv
    <3>2. task'[u].reply # {} => Listed(u)'
      BY <1>7, <1>8, <2>2 DEF CaseInv
    <3>3. task[t].wants = {}
      <4>1. task[t].at = "running"
        BY <1>1
      <4> QED  BY <4>1 DEF CaseInv
    <3>4. task'[u].wants # {} => u # t
      BY <1>7, <2>2, <3>3
    <3>5. task'[u].wants # {} => /\ task'[u].at \in {"performing", "awaiting"}
                                /\ task'[u].frame # Nobody
      BY <1>6, <2>2, <3>4 DEF CaseInv
    <3> QED  BY <3>1, <3>2, <3>5
  <2> QED  BY <2>1, <2>2
<1>11. ASSUME NEW o \in Tasks, NEW p \in Tasks,
              task'[o].serving = p, task'[o].served = task'[p].request
       PROVE  Listed(p)'
  <2>1. CASE p \in kids
    BY <1>9, <2>1
  <2>2. CASE p \notin kids
    <3>1. o \notin kids
      <4>1. p # Nobody
        BY DEF Tasks, Nobody
      <4> QED  BY <1>4, <1>6, <1>11, <4>1
    <3>2. Listed(p)
      BY <1>7, <1>11, <2>2, <3>1 DEF CaseInv
    <3> QED  BY <1>8, <2>2, <3>2
  <2> QED  BY <2>1, <2>2
<1> QED  BY <1>10, <1>11 DEF CaseInv

LEMMA NextServes == HandlerInv /\ Structure /\ CaseInv /\ [Next]_vars => CaseInv'
<1> SUFFICES ASSUME HandlerInv, Structure, CaseInv, [Next]_vars
             PROVE  CaseInv'
  OBVIOUS
<1>1. ASSUME NEW t \in Tasks,
             EnterHandle(t) \/ EnterParallel(t) \/ EnterRace(t) \/ EnterTimeout(t)
      PROVE  CaseInv'
  BY <1>1, StartServes DEF EnterHandle, EnterParallel, EnterRace, EnterTimeout
<1>2. ASSUME NEW t \in Tasks,
             \/ EndCase(t) \/ CallEffectful(t) \/ ReturnFromCase(t) \/ Complete(t)
             \/ Join(t) \/ WinRace(t) \/ BodyInTime(t) \/ TimedOut(t)
      PROVE  CaseInv'
  <2>1. task[t].at \in {"blocked", "casing"} /\ performs' = performs
    BY <1>2 DEF EndCase, CallEffectful, ReturnFromCase, Complete, Join, WinRace,
                BodyInTime, TimedOut, WaitsIn, At, Leaves
  <2>2. \/ \E place \in {"blocked", "stuck"} : task' = [task EXCEPT ![t] = Out(t, place)]
        \/ Leaves(t)
    BY <1>2 DEF EndCase, CallEffectful, ReturnFromCase, Complete, Join, WinRace,
                BodyInTime, TimedOut
  <2> QED  BY <2>1, <2>2, OutServes
<1>3. CASE UNCHANGED vars
  BY <1>3, ServesSame, ServesStep DEF vars
<1> QED
  BY <1>1, <1>2, <1>3, FinishServes, PerformServes, TakeReplyServes, ReceiveServes,
     ResumeServes DEF Next, Step

LEMMA CaseInductive == Spec => [](HandlerInv /\ Structure /\ CaseInv)
<1>1. Init => CaseInv
  <2> SUFFICES ASSUME Init
               PROVE  CaseInv
    OBVIOUS
  <2>1. performs = 0 /\ \A t \in Tasks : /\ task[t].wants = {} /\ task[t].reply = {}
                                         /\ task[t].request = 0 /\ task[t].served = 0
    BY DEF Init, Fresh
  <2> QED  BY <2>1 DEF CaseInv, Listed
<1>2. HandlerInv /\ Structure /\ CaseInv /\ [Next]_vars => CaseInv'
  BY NextServes
<1> QED  BY <1>1, <1>2, StructureInductive, PTL DEF Spec

-----------------------------------------------------------------------------
\* Whatever constructs and goroutines lie between a perform and the handles
\* around it, and however late a handler case resumes, the reply is sent by the
\* innermost handle that has a case for the effect: the body of each handle
\* declares its own __eff (effects.go:455), everybody else inherits one, and a
\* loop that has no case for a request answers nothing.
THEOREM InnermostAnswers == Spec => []InnermostCaseAnswers
<1>1. HandlerInv /\ Structure /\ CaseInv => InnermostCaseAnswers
  <2> SUFFICES ASSUME HandlerInv, Structure, CaseInv,
                      NEW t \in Tasks, NEW r \in task[t].reply
               PROVE  \E b \in Catching(t) : task[b].parent = r.by
    BY DEF InnermostCaseAnswers
  <2> DEFINE b == task[t].frame
  <2>1. Served(t, r.by)
    BY DEF Structure, Serving
  <2>2. b \in Enclosing(t) /\ task[b].parent = r.by
    BY <2>1, FrameEncloses DEF Served
  <2>3. task[t].wants \subseteq task[b].cases
    BY DEF CaseInv, Listed
  <2> HIDE DEF b
  <2>4. /\ b \in Line(t) /\ task[b].role = "handle"
        /\ \A c \in Line(t) : c > b => task[c].role # "handle"
    BY <2>2 DEF Enclosing
  <2>5. Line(t) \subseteq Nat
    BY LineLeast DEF Tasks
  <2>6. \A c \in Line(t) : task[c].role = "handle" => c <= b
    BY <2>4, <2>5
  <2>7. b \in Catching(t)
    BY <2>3, <2>4, <2>6 DEF Catching
  <2> QED  BY <2>2, <2>7
<1> QED  BY <1>1, CaseInductive, PTL

\* Nobody in the line of a goroutine that is awaited, and has not ended, has
\* ended or been left behind.
LEMMA LineHolds ==
  ASSUME HandlerInv, Structure, tame, NEW t \in Started,
         task[t].at # "done", Awaited(t)
  PROVE  \A u \in Line(t) : u = Main \/ u \in task[task[u].parent].kids
<1> DEFINE S == {u \in Line(t) \cap Started : task[u].at # "done"}
<1>1. Started \subseteq Tasks /\ t \in Tasks
  BY HandlerCodeAssumption DEF Started, HandlerInv, Tasks
<1>2. ASSUME NEW u \in S, u # Main
      PROVE  /\ task[u].parent \in S /\ u \in task[task[u].parent].kids
  <2>1. u \in Started /\ u \in Line(t) /\ task[u].at # "done"
    BY <1>2
  <2>2. task[u].parent \in 1 .. u - 1 /\ task[u].role \in Constructs \ {"none"}
    BY <1>2, <2>1 DEF Structure, Tree
  <2>3. task[u].parent \in Started /\ task[u].parent \in Tasks
    <3>1. used \in Nat /\ u \in 1 .. used
      BY <2>1, HandlerCodeAssumption DEF Started, HandlerInv, Tasks
    <3> QED  BY <1>1, <2>2, <3>1 DEF Started
  <2>4. u \in task[task[u].parent].kids
    <3>1. CASE task[u].role \in Joined
      BY <2>1, <3>1 DEF Structure, Attached
    <3>2. CASE task[u].role \in {"race", "timeout"}
      BY <2>1, <3>2 DEF Awaited
    <3> QED  BY <2>2, <3>1, <3>2 DEF Joined, Constructs
  <2>5. task[task[u].parent].at # "done"
    BY <2>3, <2>4 DEF Structure, Waiting, InConstruct
  <2>6. task[u].parent \in Line(t)
    BY <1>1, <2>1, <2>3, LineLeast
  <2> QED  BY <2>3, <2>4, <2>5, <2>6
<1>3. UpClosed(S)
  <2>1. task[Main].parent = Nobody
    BY DEF Structure, Tree
  <2> QED  BY <1>2, <2>1 DEF UpClosed
<1>4. S \in SUBSET Tasks /\ t \in S
  BY <1>1, LineLeast
<1> HIDE DEF S
<1>5. Line(t) \subseteq S
  BY <1>1, <1>3, <1>4, LineLeast
<1> QED  BY <1>2, <1>5

\* In a tame program a goroutine that was not left behind by a race or a
\* timeout performs only while the handle around it still listens: the loop of
\* a handle ends when its body has, and a body ends after what it waits for.
THEOREM HandleOutlives == Spec => []HandleOutlivesPerform
<1>1. HandlerInv /\ Structure => HandleOutlivesPerform
  <2> SUFFICES ASSUME HandlerInv, Structure, tame, NEW t \in Tasks,
                      task[t].at = "performing", Awaited(t)
               PROVE  Handled(t)
    BY DEF HandleOutlivesPerform
  <2> DEFINE b == task[t].frame
  <2>1. t \in Started /\ b # Nobody
    BY DEF Structure, Tree, Serving
  <2>2. b \in Enclosing(t)
    BY <2>1, FrameEncloses
  <2> HIDE DEF b
  <2>3. b \in Line(t) /\ task[b].role = "handle"
    BY <2>2 DEF Enclosing
  <2>4. b # Main
    BY <2>3 DEF Structure, Tree
  <2>5. b \in task[task[b].parent].kids
    BY <2>1, <2>3, <2>4, LineHolds
  <2> QED  BY <2>2, <2>5 DEF Handled
<1> QED  BY <1>1, StructureInductive, PTL
=============================================================================
