--------------------------- MODULE EffectAnalysis ---------------------------
(***************************************************************************)
(* How the preprocessor finds the effectful functions of one file and     *)
(* wires them (preprocess/effects.go), and how far the daemon's own scan   *)
(* of that file (daemon/state.go; ScanOutcomes of ModuleGraph) sees the    *)
(* same.  Both work on the text, each step with a recognizer of its own,   *)
(* so that a call or a perform is represented with the way it is written.  *)
(***************************************************************************)
EXTENDS ModuleGraph, Sequences, Functions

CONSTANTS
  Text,      \* the functions declared in the file, in the order of its text
  Sources    \* what may be written in them

\* The places of a text: a found function's body, or all the rest: methods,
\* generic functions, initializers.  main may be called like any other.
Funcs   == Range(Text)
Places  == Funcs \cup {"outside"}
Callees == Names \cup {"main"}

\* How an occurrence of the name g is written.
Spellings ==
  {"plain",        \* `g(`, also of a method, x.g(
   "spaced",       \* `g (`
   "piped",        \* `x |> g`, which TransformSugar has rewritten to g(x)
   "suffix",       \* `autog(`: the name of another function ends in g
   "declaration"}  \* `func (r T) g(`

\* How a function's body mentions `perform `.
Forms ==
  {"statement",    \* at the start of a line or after `= `
   "inner",        \* within an expression: return perform E
   "comment"}      \* with no effect name after it, in a comment

IsText(s) ==
  /\ s = [declares |-> s.declares, performs |-> s.performs, calls |-> s.calls]
  /\ s.declares \in BOOLEAN      \* an effect declaration or a handle block
  /\ s.performs \subseteq Funcs \X Forms
  /\ s.calls \subseteq Places \X Callees \X Spellings
  /\ \A c \in s.calls : c[3] = "declaration" => c[1] = "outside"

ASSUME EffectAnalysisAssumption ==
  /\ Text \in Seq(Names \cup {"main"})
  /\ \A i, j \in DOMAIN Text : i # j => Text[i] # Text[j]
  /\ "outside" \notin Names /\ Effects # {}
  /\ \A s \in Sources : IsText(s)

VARIABLES
  source,      \* the text
  phase,
  at,          \* the function the pass is at
  changed,
  effectful,
  params,      \* the functions declared with a __eff parameter
  args         \* <<p, g>>: the occurrences of g in place p are given __eff

vars == <<source, phase, at, changed, effectful, params, args>>

TypeOK ==
  /\ IsText(source)
  /\ phase \in {"filter", "untouched", "seed", "pass", "params", "args", "wired"}
  /\ at \in 1 .. Len(Text) + 1
  /\ changed \in BOOLEAN
  /\ effectful \subseteq Funcs /\ params \subseteq Names
  /\ args \subseteq Places \X Names

Init ==
  /\ source \in Sources
  /\ phase = "filter" /\ at = 1 /\ changed = FALSE
  /\ effectful = {} /\ params = {} /\ args = {}

-----------------------------------------------------------------------------
(***************************************************************************)
(* The recognizers.                                                       *)
(***************************************************************************)
Written(p, g, spellings) == \E s \in spellings : <<p, g, s>> \in source.calls
Mentions(f, forms)       == \E m \in forms : <<f, m>> \in source.performs

\* containsEffectSyntax: the file is looked at only if something at the start
\* of a line, or after an assignment, is effect syntax.
ContainsEffectSyntax == source.declares \/ \E f \in Funcs : Mentions(f, {"statement"})

\* containsCall: white space may stand before the parenthesis.
Calls(f, g) == Written(f, g, {"plain", "spaced", "piped"})

\* Defect: the character before the name is not looked at.
GivenEffUnbounded(p, g) == Written(p, g, {"plain", "piped", "declaration", "suffix"})

\* injectEffArgs: no white space may; only a func before the name tells a
\* declaration from a call, and before a method's name there is none.
GivenEff(p, g) == Written(p, g, {"plain", "piped", "declaration"})

\* The daemon: any `g(`, and in the text as it was written.
SeenByDaemon(f, g) == Written(f, g, {"plain", "suffix"})

\* Defect: a perform counts only where the pre-filter would see it.
PerformersOfStatements == {f \in Funcs : Mentions(f, {"statement"})}

Performers == {f \in Funcs : Mentions(f, Forms)}

\* The functions of the text as the daemon sees them.  Which effects a perform
\* names is not represented.
DaemonText ==
  [f \in Funcs |->
     [performs |-> IF Mentions(f, {"statement", "inner"}) THEN Effects ELSE {},
      calls    |-> {g \in Names : SeenByDaemon(f, g)}]]

-----------------------------------------------------------------------------
Filter ==
  /\ phase = "filter"
  /\ phase' = IF ContainsEffectSyntax THEN "seed" ELSE "untouched"
  /\ UNCHANGED <<source, at, changed, effectful, params, args>>

\* The functions with a perform in their body.
Seed ==
  /\ phase = "seed" /\ phase' = "pass"
  /\ effectful' = Performers
  /\ UNCHANGED <<source, at, changed, params, args>>

\* Defect: functions that are effectful already are visited again.
VisitAgain ==
  LET f == Text[at]
      found == f \in effectful \/ \E g \in effectful : Calls(f, g) IN
  /\ phase = "pass" /\ at <= Len(Text)
  /\ at' = at + 1
  /\ effectful' = IF found THEN effectful \cup {f} ELSE effectful
  /\ changed' = (changed \/ found)
  /\ UNCHANGED <<source, phase, params, args>>

\* The next function of the pass: effectful if it calls one that is.
Visit ==
  LET f == Text[at]
      found == f \notin effectful /\ \E g \in effectful : Calls(f, g) IN
  /\ phase = "pass" /\ at <= Len(Text)
  /\ at' = at + 1
  /\ effectful' = IF found THEN effectful \cup {f} ELSE effectful
  /\ changed' = (changed \/ found)
  /\ UNCHANGED <<source, phase, params, args>>

\* Defect: a single pass over the functions.
EndPassAtOnce ==
  /\ phase = "pass" /\ at > Len(Text)
  /\ phase' = "params" /\ effectful' = effectful \ {"main"}
  /\ at' = 1 /\ changed' = FALSE
  /\ UNCHANGED <<source, params, args>>

\* Defect: main stays in.
EndPassKeepsMain ==
  /\ phase = "pass" /\ at > Len(Text)
  /\ phase' = IF changed THEN "pass" ELSE "params"
  /\ at' = 1 /\ changed' = FALSE
  /\ UNCHANGED <<source, effectful, params, args>>

\* Passes are made until one changes nothing; then main is taken out.
EndPass ==
  /\ phase = "pass" /\ at > Len(Text)
  /\ IF changed
     THEN UNCHANGED <<phase, effectful>>
     ELSE phase' = "params" /\ effectful' = effectful \ {"main"}
  /\ at' = 1 /\ changed' = FALSE
  /\ UNCHANGED <<source, params, args>>

InjectEffParams ==
  /\ phase = "params" /\ phase' = "args"
  /\ params' = effectful
  /\ UNCHANGED <<source, at, changed, effectful, args>>

\* What looks like a call of an effectful function anywhere in the file.
InjectEffArgs ==
  /\ phase = "args" /\ phase' = "wired"
  /\ args' = {c \in Places \X effectful : GivenEff(c[1], c[2])}
  /\ UNCHANGED <<source, at, changed, effectful, params>>

Next == Filter \/ Seed \/ Visit \/ EndPass \/ InjectEffParams \/ InjectEffArgs

Spec == Init /\ [][Next]_vars

\* The preprocessor runs to its end.
FairSpec == Spec /\ WF_vars(Next)

-----------------------------------------------------------------------------
(***************************************************************************)
(* What is promised.                                                      *)
(***************************************************************************)
Found == phase \in {"params", "args", "wired"}

\* S holds whoever performs, and whoever calls a member.
ClosedUnderCalls(S) ==
  /\ Performers \subseteq S
  /\ \A f \in Funcs : (\E g \in S : Calls(f, g)) => f \in S

\* Whatever the order of the functions in the file, exactly those are found
\* from which a perform can be reached through calls.  (main is one of them
\* for the loop, but is not wired.)
FoundIsLeast ==
  /\ \A S \in SUBSET Funcs : ClosedUnderCalls(S) => effectful \subseteq S
  /\ Found => \E S \in {effectful, effectful \cup {"main"}} : ClosedUnderCalls(S)

\* The generated functions have the __eff they use: one that performs, or in
\* which a call was given __eff, has it as a parameter, although the two
\* recognizers differ; main has it from its handle blocks only.
UsersHaveContext ==
  phase = "wired" =>
    \A f \in Funcs \ {"main"} :
      Mentions(f, {"statement", "inner"}) \/ (\E g \in Names : <<f, g>> \in args)
        => f \in params

\* How far the daemon, which reads the text by itself, agrees, whichever callee
\* its map iteration happens to yield first.  It shows every effectful function
\* as a module unless it is so through a call with white space, a pipe, a
\* comment or a call of main only; and no other, unless a longer name hides
\* that of a module.
DaemonAgrees ==
  phase = "wired" =>
    \A d \in ScanOutcomes(<<>>, DaemonText) :
      /\ (\A c \in source.calls : c[3] \notin {"spaced", "piped"} /\ c[2] # "main")
           /\ (\A p \in source.performs : p[2] # "comment")
         => effectful \subseteq DOMAIN d
      /\ (\A c \in source.calls : c[3] # "suffix") => DOMAIN d \subseteq effectful

\* The passes come to an end.
AnalysisEnds == <>(phase \in {"wired", "untouched"})
===============================================================================
