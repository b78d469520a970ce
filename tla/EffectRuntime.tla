-------------------------- MODULE EffectRuntime --------------------------
(***************************************************************************)
(* The algebraic-effects runtime (runtime/effects.go) on one Context.      *)
(*                                                                         *)
(* Try installs handlers and calls Run, which starts a goroutine for the   *)
(* effectful function and serves its performs until it ends.  The nesting  *)
(* of Trys makes a tower: goroutine g executes the function of Try g and,  *)
(* while that function is inside a Try of its own, the loop and the        *)
(* handlers of Try g + 1, on goroutine g + 1.  Goroutine 0 is the caller.  *)
(* All of them share the handler stack and ONE unbuffered channel of       *)
(* requests, so any waiting loop of the tower may receive any request.     *)
(*                                                                         *)
(* What the effectful functions and handlers do is arbitrary: a function   *)
(* performs effects, enters Trys and returns; a handler performs effects,  *)
(* resumes (on its own goroutine, any number of times up to a bound) and   *)
(* returns.  Handlers do not enter Trys of their own.  liberties says      *)
(* which of the two things that can go wrong the program's handlers do at  *)
(* all: return without resuming, and perform.                              *)
(***************************************************************************)
EXTENDS Naturals, Sequences, FiniteSets, SequencesExt

CONSTANTS
  Effects,
  Depth,            (* how deep Trys nest                                  *)
  MaxTries,         (* bound: Trys entered                                 *)
  MaxPerforms,      (* bound: effects performed                            *)
  MaxResumes,       (* bound: calls of resume by one handler               *)
  Programs          (* the liberties the handlers of a program may take    *)

ASSUME EffectRuntimeAssumption ==
  /\ Depth \in Nat \ {0} /\ MaxTries \in Nat
  /\ MaxPerforms \in Nat /\ MaxResumes \in Nat \ {0}
  /\ Programs \subseteq SUBSET {"abort", "perform"}

Goroutines == 0..Depth

(* handlerFrame: the effect and, in place of the handler, the Try that       *)
(* installed it.                                                             *)
Frame == [effect : Effects, try : 1..Depth]

(***************************************************************************)
(* performReq with its reply channel of capacity 1.  As history: the Try   *)
(* whose handler got it, the Try whose handler should have, and whether a  *)
(* function or a handler performed it.                                     *)
(***************************************************************************)
Request == [by : Goroutines, effect : Effects, reply : {<<>>, <<"value">>, <<"abort">>},
            try : 1..Depth, innermost : 0..Depth, from : {"function", "handler"}]

(* A perform in progress: its request, 0 until a loop has received it.       *)
Perform == [effect : Effects, id : Nat]

VARIABLES
  stack,     (* Context.stack                                              *)
  at,        (* goroutine -> what it is doing                              *)
  call,      (* goroutine -> its Perform in progress, if any               *)
  installs,  (* goroutine -> the effects its current Try handles           *)
  todo,      (* goroutine -> of these, those still to be pushed or popped  *)
  handling,  (* goroutine -> the request its handler was called with       *)
  resumed,   (* goroutine -> how often that handler has called resume      *)
  requests,  (* every request received so far                              *)
  tries,     (* how many Trys were entered                                 *)
  abandoned, (* history: Trys whose handler returned without resuming      *)
  crashed,   (* an unhandled effect has panicked                           *)
  liberties  (* of {"abort", "perform"}, those the handlers take           *)

rest == <<tries, abandoned, crashed, liberties>>
vars == <<stack, at, call, installs, todo, handling, resumed, requests, rest>>

Init ==
  /\ stack = <<>>
  /\ at = [g \in Goroutines |-> IF g = 0 THEN "function" ELSE "none"]
  /\ call = [g \in Goroutines |-> {}]
  /\ installs = [g \in Goroutines |-> {}]
  /\ todo = [g \in Goroutines |-> {}]
  /\ handling = [g \in Goroutines |-> 0]
  /\ resumed = [g \in Goroutines |-> 0]
  /\ requests = <<>>
  /\ tries = 0
  /\ abandoned = {}
  /\ crashed = FALSE
  /\ liberties \in Programs

(* User code runs on g: not inside a perform, a Try or the runtime.           *)
Executes(g) == ~crashed /\ at[g] \in {"function", "handler"} /\ call[g] = {}

-----------------------------------------------------------------------------
(* Try: the handlers are pushed one by one, in map order ...                  *)
Enter(g, effects) ==
  /\ Executes(g) /\ at[g] = "function" /\ g < Depth /\ at[g + 1] = "none"
  /\ tries < MaxTries
  /\ tries' = tries + 1
  /\ installs' = [installs EXCEPT ![g] = effects]
  /\ todo' = [todo EXCEPT ![g] = effects]
  /\ at' = [at EXCEPT ![g] = "push"]
  /\ UNCHANGED <<stack, call, handling, resumed, requests, crashed, abandoned, liberties>>

Handle(g, e) ==
  /\ ~crashed /\ at[g] = "push" /\ e \in todo[g]
  /\ stack' = Append(stack, [effect |-> e, try |-> g + 1])
  /\ todo' = [todo EXCEPT ![g] = @ \ {e}]
  /\ UNCHANGED <<at, call, installs, handling, resumed, requests, rest>>

(* ... and Run starts the goroutine of the function and waits in its loop.    *)
StartRun(g) ==
  /\ ~crashed /\ at[g] = "push" /\ todo[g] = {}
  /\ at' = [at EXCEPT ![g] = "select", ![g + 1] = "function"]
  /\ UNCHANGED <<stack, call, installs, todo, handling, resumed, requests, rest>>

(* The function returns: the deferred close(done) ends its goroutine.         *)
FunctionReturns(g) ==
  /\ Executes(g) /\ at[g] = "function" /\ g > 0
  /\ at' = [at EXCEPT ![g] = "none"]
  /\ UNCHANGED <<stack, call, installs, todo, handling, resumed, requests, rest>>

-----------------------------------------------------------------------------
Performs == Len(requests) + Cardinality({g \in Goroutines : \E p \in call[g] : p.id = 0})

(* Perform: from here on g is blocked, first in the send of the request.      *)
StartPerform(g, e) ==
  /\ Executes(g) /\ (at[g] = "function" \/ "perform" \in liberties)
  /\ Performs < MaxPerforms
  /\ call' = [call EXCEPT ![g] = {[effect |-> e, id |-> 0]}]
  /\ UNCHANGED <<stack, at, installs, todo, handling, resumed, requests, rest>>

(* Defect: the oldest frame is found.                                         *)
FrameOfOldest(e) == SelectInSeq(stack, LAMBDA frame : frame.effect = e)

(* findHandler: the topmost frame of the effect, 0 if there is none.          *)
FrameOf(e) == SelectLastInSeq(stack, LAMBDA frame : frame.effect = e)

(* The Trys around g's code, and the innermost of them that handles e.        *)
Innermost(g, e) ==
  LET around == {t \in 1..g : e \in installs[t - 1]}
  IN IF around = {} THEN 0 ELSE CHOOSE t \in around : \A u \in around : u <= t

(* A loop receives the request of g and calls its handler, or panics.  That   *)
(* ends the process, or the goroutine of the outermost caller if it recovers. *)
Receive(l, g) ==
  /\ ~crashed /\ at[l] = "select"
  /\ \E p \in call[g] :
       /\ p.id = 0
       /\ IF FrameOf(p.effect) = 0
          THEN crashed' = TRUE /\ UNCHANGED <<at, call, handling, resumed, requests>>
          ELSE /\ requests' = Append(requests,
                    [by |-> g, effect |-> p.effect, reply |-> <<>>,
                     try |-> stack[FrameOf(p.effect)].try,
                     innermost |-> Innermost(g, p.effect), from |-> at[g]])
               /\ call' = [call EXCEPT ![g] = {[p EXCEPT !.id = Len(requests) + 1]}]
               /\ at' = [at EXCEPT ![l] = "handler"]
               /\ handling' = [handling EXCEPT ![l] = Len(requests) + 1]
               /\ resumed' = [resumed EXCEPT ![l] = 0]
               /\ UNCHANGED crashed
  /\ UNCHANGED <<stack, installs, todo, tries, abandoned, liberties>>

(* The handler calls resume, which blocks while an earlier value of this      *)
(* handler fills the reply channel.                                           *)
Resume(l) ==
  /\ Executes(l) /\ at[l] = "handler" /\ resumed[l] < MaxResumes
  /\ resumed' = [resumed EXCEPT ![l] = @ + 1]
  /\ at' = [at EXCEPT ![l] = "resume"]
  /\ UNCHANGED <<stack, call, installs, todo, handling, requests, rest>>

(* Defect: the reply channel has room for more.                               *)
SendValueAnyway(l) ==
  /\ ~crashed /\ at[l] = "resume"
  /\ requests' = [requests EXCEPT ![handling[l]].reply = Append(@, "value")]
  /\ at' = [at EXCEPT ![l] = "handler"]
  /\ UNCHANGED <<stack, call, installs, todo, handling, resumed, rest>>

(* The value is sent once there is room for it.                               *)
SendValue(l) ==
  /\ ~crashed /\ at[l] = "resume" /\ requests[handling[l]].reply = <<>>
  /\ requests' = [requests EXCEPT ![handling[l]].reply = <<"value">>]
  /\ at' = [at EXCEPT ![l] = "handler"]
  /\ UNCHANGED <<stack, call, installs, todo, handling, resumed, rest>>

(* Defect: only a handler that resumed exactly once counts as having resumed. *)
HandlerReturnsOnce(l) ==
  /\ Executes(l) /\ at[l] = "handler" /\ resumed[l] > 0
  /\ at' = [at EXCEPT ![l] = IF resumed[l] = 1 THEN "select" ELSE "drain"]
  /\ handling' = [handling EXCEPT ![l] = 0]
  /\ UNCHANGED <<stack, call, installs, todo, resumed, requests, rest>>

(* The handler has resumed and returns: the loop goes on.                     *)
HandlerReturns(l) ==
  /\ Executes(l) /\ at[l] = "handler" /\ resumed[l] > 0
  /\ at' = [at EXCEPT ![l] = "select"]
  /\ handling' = [handling EXCEPT ![l] = 0]
  /\ UNCHANGED <<stack, call, installs, todo, resumed, requests, rest>>

(* It returns without: the performer is told to abort, and the loop waits     *)
(* for the end of ITS function, serving no request any more.                  *)
HandlerAborts(l) ==
  /\ "abort" \in liberties
  /\ Executes(l) /\ at[l] = "handler" /\ resumed[l] = 0
  /\ requests' = [requests EXCEPT ![handling[l]].reply = <<"abort">>]
  /\ at' = [at EXCEPT ![l] = "drain"]
  /\ handling' = [handling EXCEPT ![l] = 0]
  /\ abandoned' = abandoned \cup {requests[handling[l]].try}
  /\ UNCHANGED <<stack, call, installs, todo, resumed, tries, crashed, liberties>>

(* The blocked performer gets a reply: Perform returns the value, or ends the *)
(* goroutine with its deferred calls.  In a function only close(done) is      *)
(* deferred; in a handler also the Unhandles of the Try that runs it.         *)
TakeReply(g) ==
  /\ ~crashed
  /\ \E p \in call[g] :
       /\ p.id # 0 /\ requests[p.id].reply # <<>>
       /\ IF requests[p.id].reply = <<"value">>
          THEN UNCHANGED <<at, todo>>
          ELSE IF at[g] = "function"
               THEN at' = [at EXCEPT ![g] = "none"] /\ UNCHANGED todo
               ELSE at' = [at EXCEPT ![g] = "unwind"] /\ todo' = [todo EXCEPT ![g] = installs[g]]
       /\ requests' = [requests EXCEPT ![p.id].reply = <<>>]
  /\ call' = [call EXCEPT ![g] = {}]
  /\ UNCHANGED <<stack, installs, handling, resumed, rest>>

-----------------------------------------------------------------------------
(* Defect: a Try whose computation was abandoned keeps its handlers.          *)
RunReturnsKeeping(l) ==
  /\ ~crashed /\ at[l] \in {"select", "drain"} /\ at[l + 1] = "none"
  /\ at' = [at EXCEPT ![l] = "pop"]
  /\ todo' = [todo EXCEPT ![l] = IF at[l] = "select" THEN installs[l] ELSE {}]
  /\ abandoned' = abandoned \ {l + 1}
  /\ UNCHANGED <<stack, call, installs, handling, resumed, requests, tries, crashed, liberties>>

(* Run returns when done is closed, and Try's deferred Unhandles begin.       *)
RunReturns(l) ==
  /\ ~crashed /\ at[l] \in {"select", "drain"} /\ at[l + 1] = "none"
  /\ at' = [at EXCEPT ![l] = "pop"]
  /\ todo' = [todo EXCEPT ![l] = installs[l]]
  /\ abandoned' = abandoned \ {l + 1}
  /\ UNCHANGED <<stack, call, installs, handling, resumed, requests, tries, crashed, liberties>>

(* Unhandle removes the topmost frame of the effect, whoever pushed it.       *)
Unhandle(g, e) ==
  /\ ~crashed /\ at[g] \in {"pop", "unwind"} /\ e \in todo[g]
  /\ stack' = IF FrameOf(e) = 0 THEN stack ELSE RemoveAt(stack, FrameOf(e))
  /\ todo' = [todo EXCEPT ![g] = @ \ {e}]
  /\ UNCHANGED <<at, call, installs, handling, resumed, requests, rest>>

(* Try returns to the function that called it; an aborted goroutine ends.     *)
Leave(g) ==
  /\ ~crashed /\ at[g] \in {"pop", "unwind"} /\ todo[g] = {}
  /\ installs' = [installs EXCEPT ![g] = {}]
  /\ at' = [at EXCEPT ![g] = IF @ = "pop" THEN "function" ELSE "none"]
  /\ UNCHANGED <<stack, call, todo, handling, resumed, requests, rest>>

-----------------------------------------------------------------------------
Step(g) ==
  \/ \E effects \in SUBSET Effects \ {{}} : Enter(g, effects)
  \/ \E e \in Effects : Handle(g, e) \/ StartPerform(g, e) \/ Unhandle(g, e)
  \/ \E sender \in Goroutines : Receive(g, sender)
  \/ StartRun(g) \/ FunctionReturns(g)
  \/ Resume(g) \/ SendValue(g) \/ HandlerReturns(g) \/ HandlerAborts(g)
  \/ TakeReply(g) \/ RunReturns(g) \/ Leave(g)

Next == \E g \in Goroutines : Step(g)

Spec == Init /\ [][Next]_vars

(* Every goroutine that can take a step does, and user code comes to an end.  *)
FairSpec == Spec /\ \A g \in Goroutines : WF_vars(Step(g))
-----------------------------------------------------------------------------
(* Every variable has its type.                                               *)
TypeOK ==
  /\ stack \in Seq(Frame)
  /\ at \in [Goroutines -> {"none", "function", "push", "select", "handler", "resume",
                            "drain", "pop", "unwind"}]
  /\ call \in [Goroutines -> SUBSET Perform]
  /\ installs \in [Goroutines -> SUBSET Effects] /\ todo \in [Goroutines -> SUBSET Effects]
  /\ handling \in [Goroutines -> 0..Len(requests)] /\ resumed \in [Goroutines -> 0..MaxResumes]
  /\ requests \in Seq(Request)
  /\ tries \in 0..MaxTries /\ abandoned \subseteq 1..Depth
  /\ crashed \in BOOLEAN /\ liberties \in Programs

(* Whichever loop of the tower receives it, an effect performed by a function *)
(* is handled by the innermost Try around that function that handles it.      *)
InnermostHandles ==
  \A i \in DOMAIN requests :
    requests[i].from = "function" => requests[i].try = requests[i].innermost

(* The stack holds the handlers of the Trys under way and nothing else, in    *)
(* order, also when computations are abandoned or handlers perform.           *)
Installed(t) ==
  CASE at[t - 1] = "push" -> installs[t - 1] \ todo[t - 1]
    [] at[t - 1] \in {"pop", "unwind"} -> todo[t - 1]
    [] OTHER -> installs[t - 1]

StackMatchesTrys ==
  /\ \A t \in 1..Depth :
       Installed(t) = {stack[i].effect : i \in {j \in DOMAIN stack : stack[j].try = t}}
  /\ \A i, j \in DOMAIN stack : i < j => stack[i].try <= stack[j].try /\ stack[i] # stack[j]

(* The reply channel holds one value and its perform reads one: the second    *)
(* resume of a handler is never read, and the third waits for ever.           *)
ResumesForEver(l) == at[l] = "resume" /\ resumed[l] > 2

(* Every Try returns to its caller, so that every perform in it is answered,  *)
(* when handlers resume and do not perform: no request is taken by a loop     *)
(* that cannot serve it, however the loops of the tower share the channel.    *)
(* All that can hold a Try is a handler that resumes a third time.            *)
TrysReturn ==
  \A g \in Goroutines :
    at[g] = "push" /\ liberties = {} ~>
      at[g] = "function" \/ crashed \/ \E l \in Goroutines : ResumesForEver(l)

(* runtime/effects.go:29, "If resume is not called, the effectful computation *)
(* is abandoned": the function of the Try whose handler did not resume does   *)
(* not go on.                                                                 *)
AbandonedMeansStopped == \A t \in abandoned : ~(at[t] = "function" /\ call[t] = {})
=============================================================================
