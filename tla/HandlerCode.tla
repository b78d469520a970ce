----------------------------- MODULE HandlerCode -----------------------------
(***************************************************************************)
(* The Go that the preprocessor emits for perform, handle/with, parallel, *)
(* race and timeout (preprocess/effects.go, preprocess/concurrency.go):   *)
(* the goroutines of one program and the channels between them.           *)
(*                                                                        *)
(* A program is arbitrary within the bounds.  Goroutine 1 is main, which  *)
(* has no __eff.  Every construct is a function literal that starts       *)
(* goroutines and waits; `frame` says whose __eff a goroutine sees: that  *)
(* of the handle whose body is that goroutine.                            *)
(***************************************************************************)
EXTENDS Naturals, Sequences, FiniteSets

CONSTANTS
  MaxTasks,      \* bound: goroutines of the program
  MaxPerforms,   \* bound: performs of the program
  Effects

ASSUME HandlerCodeAssumption == MaxTasks \in Nat \ {0} /\ MaxPerforms \in Nat

Tasks  == 1 .. MaxTasks
Main   == 1
Nobody == 0

VARIABLES
  task,       \* the goroutines
  used,       \* how many have been started
  performs,   \* how many performs have been begun: the last one's number
  tame        \* the program is tame, see Init

vars == <<task, used, performs, tame>>

Constructs == {"none", "handle", "parallel", "race", "timeout"}

Task == [
  at        : {"free", "running", "performing", "awaiting", "blocked", "casing",
               "stuck", "done"},
  parent    : 0 .. MaxTasks,        \* who started it
  role      : Constructs,           \* as part of what
  frame     : 0 .. MaxTasks,        \* whose __eff it sends on
  cases     : SUBSET Effects,       \* of the handle that it is the body of
  construct : Constructs,           \* what it waits in ...
  kids      : SUBSET Tasks,         \* ... for which goroutines
  results   : SUBSET Tasks,         \* the racers that have sent on its __ch
  wants     : SUBSET Effects,       \* the effect of its last perform ...
  request   : 0 .. MaxPerforms,     \* ... and that perform's number
  reply     : SUBSET [by : Tasks, request : 1 .. MaxPerforms],   \* in __rch
  serving   : 0 .. MaxTasks,        \* whose request its handler case is about ...
  served    : 0 .. MaxPerforms,     \* ... and that request's number
  resumes   : 0 .. 2]               \* the resume calls of the case so far

Fresh == [at |-> "free", parent |-> Nobody, role |-> "none", frame |-> Nobody,
          cases |-> {}, construct |-> "none", kids |-> {}, results |-> {},
          wants |-> {}, request |-> 0, reply |-> {},
          serving |-> Nobody, served |-> 0, resumes |-> 0]

\* __rch has room for one value.
TypeOK ==
  /\ task \in [Tasks -> Task]
  /\ used \in Tasks /\ performs \in 0 .. MaxPerforms /\ tame \in BOOLEAN
  /\ \A t \in Tasks : Cardinality(task[t].reply) <= 1

(***************************************************************************)
(* In a tame program every handler case resumes, once or twice, before it *)
(* ends, no case returns or calls an effectful function, the nearest      *)
(* handle has a case for whatever is performed, and every branch of a     *)
(* race returns a value.                                                  *)
(***************************************************************************)
Init ==
  /\ task = [t \in Tasks |-> IF t = Main THEN [Fresh EXCEPT !.at = "running"] ELSE Fresh]
  /\ used = 1 /\ performs = 0
  /\ tame \in BOOLEAN

\* The end of main is the end of the program.
At(t, place) == task[Main].at # "done" /\ task[t].at = place

WaitsIn(t, construct) == At(t, "blocked") /\ task[t].construct = construct

-----------------------------------------------------------------------------
(***************************************************************************)
(* A construct starts n goroutines and waits for them.  They see the      *)
(* __eff that surrounds the construct, or (own) one that it declares.     *)
(***************************************************************************)
Start(t, construct, n, own, cases) ==
  LET kids == used + 1 .. used + n IN
  /\ At(t, "running") /\ used + n <= MaxTasks
  /\ used' = used + n
  /\ task' = [u \in Tasks |->
       CASE u \in kids -> [Fresh EXCEPT !.at = "running", !.parent = t,
                             !.role = construct, !.cases = cases,
                             !.frame = IF own THEN u ELSE task[t].frame]
         [] u = t      -> [task[t] EXCEPT !.at = "blocked", !.construct = construct,
                                          !.kids = kids]
         [] OTHER      -> task[u]]
  /\ UNCHANGED <<performs, tame>>

\* Defect: a handle inside a handle does not declare its own __eff.
EnterHandleShared(t) ==
  \E cases \in SUBSET Effects : Start(t, "handle", 1, task[t].frame = Nobody, cases)

EnterHandle(t) ==
  \E cases \in SUBSET Effects : Start(t, "handle", 1, TRUE, cases)

EnterParallel(t) == Start(t, "parallel", 2, FALSE, {})
EnterRace(t)     == Start(t, "race", 2, FALSE, {})
EnterTimeout(t)  == Start(t, "timeout", 1, FALSE, {})

\* A racer returns a value, which __ch has room for, or nothing.  Nobody reads
\* the __ch of a race that is over.
Finish(t) ==
  /\ At(t, "running")
  /\ \E returns \in BOOLEAN :
       LET p    == task[t].parent
           sent == returns /\ task[t].role = "race" /\ t \in task[p].kids IN
       /\ tame => returns
       /\ task' = [u \in Tasks |->
            IF u = t THEN [task[t] EXCEPT !.at = "done"]
            ELSE IF sent /\ u = p THEN [task[u] EXCEPT !.results = @ \union {t}]
            ELSE task[u]]
  /\ UNCHANGED <<used, performs, tame>>

-----------------------------------------------------------------------------
(***************************************************************************)
(* perform: a new __rch, the request sent on the unbuffered __eff, the    *)
(* reply received.                                                        *)
(***************************************************************************)
Perform(t) ==
  /\ At(t, "running") /\ task[t].frame # Nobody
  /\ performs < MaxPerforms
  /\ performs' = performs + 1
  /\ \E e \in Effects :
       /\ tame => e \in task[task[t].frame].cases
       /\ task' = [task EXCEPT ![t].at = "performing", ![t].wants = {e},
                               ![t].request = performs + 1]
  /\ UNCHANGED <<used, tame>>

TakeReply(t) ==
  /\ At(t, "awaiting") /\ task[t].reply # {}
  /\ task' = [task EXCEPT ![t].at = "running", ![t].wants = {}, ![t].request = 0,
                          ![t].reply = {}]
  /\ UNCHANGED <<used, performs, tame>>

(***************************************************************************)
(* The loop of the handle that o waits in: a request for which there is   *)
(* no case is dropped.                                                    *)
(***************************************************************************)
Receive(o) ==
  /\ WaitsIn(o, "handle")
  /\ \E p \in Tasks :
       /\ task[p].at = "performing" /\ task[p].frame \in task[o].kids
       /\ LET listed == task[p].wants \subseteq task[task[p].frame].cases IN
          task' = [u \in Tasks |->
            CASE u = p            -> [task[u] EXCEPT !.at = "awaiting"]
              [] u = o /\ listed  -> [task[u] EXCEPT !.at = "casing", !.serving = p,
                                        !.served = task[p].request, !.resumes = 0]
              [] OTHER            -> task[u]]
  /\ UNCHANGED <<used, performs, tame>>

\* The channel of the request that o serves is the one its performer reads.
Reads(p, request) == task[p].at = "awaiting" /\ task[p].request = request

\* Defect: __rch has room for two values.
ResumeRoomForTwo(o) ==
  LET p == task[o].serving IN
  /\ At(o, "casing") /\ task[o].resumes < 2
  /\ task' = [task EXCEPT ![o].resumes = @ + 1,
                          ![p].reply = @ \union {[by |-> o, request |-> task[o].resumes + 1]}]
  /\ UNCHANGED <<used, performs, tame>>

\* Defect: one __rch for all the performs of a goroutine.
ResumeSharedChannel(o) ==
  LET p == task[o].serving IN
  /\ At(o, "casing") /\ task[o].resumes < 2 /\ task[p].reply = {}
  /\ task' = [task EXCEPT ![o].resumes = @ + 1,
                          ![p].reply = {[by |-> o, request |-> task[o].served]}]
  /\ UNCHANGED <<used, performs, tame>>

\* resume sends on the request's own __rch: a second one waits until the first
\* has been read, and is never read itself.  (A third would wait for ever.)
Resume(o) ==
  LET p == task[o].serving IN
  /\ At(o, "casing") /\ task[o].resumes < 2
  /\ Reads(p, task[o].served) => task[p].reply = {}
  /\ task' = [u \in Tasks |->
       CASE u = o -> [task[o] EXCEPT !.resumes = @ + 1]
         [] u = p /\ Reads(p, task[o].served)
                -> [task[p] EXCEPT !.reply = {[by |-> o, request |-> task[o].served]}]
         [] OTHER -> task[u]]
  /\ UNCHANGED <<used, performs, tame>>

Out(o, place) ==
  [task[o] EXCEPT !.at = place, !.serving = Nobody, !.served = 0, !.resumes = 0]

\* The goroutine leaves the construct; what it started may still run.
Left(o) == [Out(o, "running") EXCEPT !.construct = "none", !.kids = {}, !.results = {}]

Leaves(o) == task' = [task EXCEPT ![o] = Left(o)] /\ UNCHANGED <<used, performs, tame>>

\* Defect: the handle does not loop: after one case it only waits for __done.
EndCaseNoLoop(o) ==
  /\ At(o, "casing")
  /\ tame => task[o].resumes > 0
  /\ task' = [task EXCEPT ![o] = [Out(o, "blocked") EXCEPT !.construct = "parallel"]]
  /\ UNCHANGED <<used, performs, tame>>

\* The case ends, with or without a resume, and the loop goes round.
EndCase(o) ==
  /\ At(o, "casing")
  /\ tame => task[o].resumes > 0
  /\ task' = [task EXCEPT ![o] = Out(o, "blocked")]
  /\ UNCHANGED <<used, performs, tame>>

\* A return in a case leaves the function literal that is the handle.
ReturnFromCase(o) == ~tame /\ At(o, "casing") /\ Leaves(o)

\* An effectful function called in a case sends on this handle's __eff, which
\* only this goroutine receives from.
CallEffectful(o) ==
  /\ ~tame /\ At(o, "casing")
  /\ task' = [task EXCEPT ![o] = Out(o, "stuck")]
  /\ UNCHANGED <<used, performs, tame>>

-----------------------------------------------------------------------------
Ended(o) == \A k \in task[o].kids : task[k].at = "done"

\* __done is closed.
Complete(o) == WaitsIn(o, "handle") /\ Ended(o) /\ Leaves(o)

\* Defect: __wg counts one branch too few.
JoinEarly(o) ==
  /\ WaitsIn(o, "parallel")
  /\ \E k \in task[o].kids : task[k].at = "done"
  /\ Leaves(o)

Join(o) == WaitsIn(o, "parallel") /\ Ended(o) /\ Leaves(o)

\* The first value is the race's; the other branches run on.
WinRace(o) == WaitsIn(o, "race") /\ task[o].results # {} /\ Leaves(o)

BodyInTime(o) == WaitsIn(o, "timeout") /\ Ended(o) /\ Leaves(o)

\* The fallback runs while the body runs on.
TimedOut(o) == WaitsIn(o, "timeout") /\ Leaves(o)

-----------------------------------------------------------------------------
Step(t) ==
  \/ EnterHandle(t)  \/ EnterParallel(t) \/ EnterRace(t) \/ EnterTimeout(t)
  \/ Finish(t)       \/ Perform(t)       \/ TakeReply(t)
  \/ Receive(t)      \/ Resume(t)        \/ EndCase(t)
  \/ ReturnFromCase(t)                   \/ CallEffectful(t)
  \/ Complete(t)     \/ Join(t)          \/ WinRace(t)
  \/ BodyInTime(t)   \/ TimedOut(t)

Next == \E t \in Tasks : Step(t)

Spec == Init /\ [][Next]_vars

\* The Go scheduler runs every goroutine that can run; a goroutine's program is
\* finite, and timers fire.
Fairness == \A t \in Tasks : WF_vars(Step(t))

FairSpec == Spec /\ Fairness

-----------------------------------------------------------------------------
(***************************************************************************)
(* What is promised.                                                      *)
(***************************************************************************)
\* t, who started it, who started that one, and so on: the least set that has
\* t and who started its members.
Line(t) ==
  LET Closed(S) == t \in S /\ \A u \in S : task[u].parent \in S \union {Nobody}
  IN  {u \in Tasks : \A S \in SUBSET Tasks : Closed(S) => u \in S}

\* The body of the innermost handle around t: goroutines are numbered in the
\* order they start.
Enclosing(t) ==
  {b \in Line(t) : /\ task[b].role = "handle"
                   /\ \A c \in Line(t) : c > b => task[c].role # "handle"}

\* The body of the innermost handle around t that has a case for what t wants.
Catching(t) ==
  LET handles == {b \in Line(t) : /\ task[b].role = "handle"
                                  /\ task[t].wants \subseteq task[b].cases}
  IN  {b \in handles : \A c \in handles : c <= b}

\* A perform is answered by the innermost handle around it that has a case for
\* the effect (llms.txt:129, "inner handlers shadow outer ones for the same
\* effect"), whatever constructs and goroutines lie between.
InnermostCaseAnswers ==
  \A t \in Tasks : \A r \in task[t].reply :
    \E b \in Catching(t) : task[b].parent = r.by

\* The value that a perform returns was meant for that perform, however often
\* and however late its handler case resumes.
AnswersOwnRequest ==
  \A t \in Tasks : \A r \in task[t].reply : r.request = task[t].request

\* Neither t nor anyone in its line lost a race or ran out of time.
Awaited(t) ==
  \A u \in Line(t) :
    task[u].role \in {"race", "timeout"} => u \in task[task[u].parent].kids

\* The handle around t has not returned.
Handled(t) == \E b \in Enclosing(t) : b \in task[task[b].parent].kids

\* In a tame program a goroutine that was not left behind never performs after
\* the handle around it has returned: it would wait for ever.
HandleOutlivesPerform ==
  tame => \A t \in Tasks :
    task[t].at = "performing" /\ Awaited(t) => Handled(t)

\* A tame program ends: the generated channels, loops and wait groups never
\* leave its goroutines waiting for each other.
TameProgramEnds == tame => <>(task[Main].at = "done")

\* llms.txt:78, "The effect bubbles up through the call stack until a handle/with
\* catches it": no request is dropped for want of a case while a handle around
\* the perform has one.  (The nearest handle receives it, and its switch has no
\* default: the performer waits for ever.)
BubblesUpToACase ==
  \A t \in Tasks :
    task[t].at = "awaiting" /\ Catching(t) # {} =>
      task[t].wants \subseteq task[task[t].frame].cases

\* t's request was received and its handler case has ended without a resume.
Abandoned(t) ==
  LET b == task[t].frame IN
  /\ task[t].at = "awaiting" /\ task[t].reply = {}
  /\ task[t].wants \subseteq task[b].cases
  /\ \A o \in Tasks : task[o].served # task[t].request

\* llms.txt: "If resume() is not called, the computation is abandoned": the
\* handle does not wait for a computation that can never go on.
AbandonedIsLeft ==
  \A t \in Tasks :
    Abandoned(t) ~> (task[Main].at = "done" \/ ~Handled(t))
===============================================================================
