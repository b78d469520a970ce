---------------------------- MODULE ModuleGraph ----------------------------
(***************************************************************************)
(* The module graph of the gotyped daemon (daemon/state.go): what a scan   *)
(* of one .tg source text declares, which modules a change invalidates and *)
(* how a failing module taints its neighbours.                             *)
(*                                                                         *)
(* A "module" is a Go function that performs effects.  A source text is    *)
(* reduced to what the daemon can tell apart in it: its functions (which   *)
(* effects each performs in its own body, which names its body calls),     *)
(* whether the preprocessor accepts it and the Go compiler what it makes   *)
(* of it, and its failing tests, each given as the set of function names   *)
(* that occur in its generated Go name.                                    *)
(***************************************************************************)
EXTENDS Naturals, FiniteSets

CONSTANTS
  Files,     (* the .tg files under the project root                       *)
  Names,     (* function names other than main                             *)
  Effects    (* effect names                                               *)

ASSUME ModuleGraphAssumption == "main" \notin Names

Function == [performs : SUBSET Effects, calls : SUBSET Names]

IsSource(s) ==
  /\ s = [funcs |-> s.funcs, build |-> s.build, failing |-> s.failing]
  /\ DOMAIN s.funcs \subseteq Names \cup {"main"} /\ s.funcs \in [DOMAIN s.funcs -> Function]
  /\ s.build \in {"rejected", "fails", "succeeds"}
  /\ s.failing \subseteq SUBSET Names

States == {"unknown", "healthy", "failing", "stale", "tainted", "running"}

(***************************************************************************)
(* A Module object.  Its name, file and effects never change after it is   *)
(* allocated; gen tells apart the objects that successive scans of one     *)
(* file allocate, so that equality of two of these records is equality of  *)
(* two *Module pointers.  born is history: the version of the file that    *)
(* was scanned.                                                            *)
(***************************************************************************)
Object == [name : Names, file : Files, performs : SUBSET Effects,
           gen : Nat, born : Nat]

(***************************************************************************)
(* What the graph holds under a name: the object, its mutable State and,   *)
(* as history, the version of its file whose tests the last applied run    *)
(* executed (0: that run executed none of them, or no run was applied) and *)
(* whether the last run that marked it running gave up on it.              *)
(***************************************************************************)
Module == [obj : Object, state : States, judged : Nat, abandoned : BOOLEAN]

(* Graph.Modules: a map from some of the names, each to a module of that name. *)
IsGraph(mods) ==
  /\ DOMAIN mods \subseteq Names /\ mods \in [DOMAIN mods -> Module]
  /\ \A n \in DOMAIN mods : mods[n].obj.name = n

-----------------------------------------------------------------------------
(* Defect: the old entries are left to be overwritten.                      *)
WithoutNothing(mods, f) == mods

(* The entries of one file are dropped before it is scanned again.          *)
Without(mods, f) ==
  [n \in {m \in DOMAIN mods : mods[m].obj.file # f} |-> mods[n]]

(* Defect: main is a module like any other function.                        *)
DeclarableMain(funcs) == DOMAIN funcs

(* The functions of a text that can become modules: all but main.           *)
Declarable(funcs) == DOMAIN funcs \ {"main"}

(***************************************************************************)
(* The possible results of scanFile on a text, as functions from the names *)
(* it declares to their effects, when the graph already holds others.      *)
(* A function that performs effects itself gets exactly those.  One that   *)
(* performs none, and whose name is not in the graph yet, inherits the     *)
(* effects of ONE module it calls: the first that Go's map iteration       *)
(* happens to yield among those known at that point.                       *)
(* rank is the order in which the propagation loop adds the inheritors,    *)
(* and the last conjunct is the loop's exit condition.  The functions'     *)
(* order in the text is not represented: every order is allowed.           *)
(***************************************************************************)
ScanOutcomes(others, funcs) ==
  LET direct == {n \in Declarable(funcs) : funcs[n].performs # {}}
      callers == Declarable(funcs) \ (direct \cup DOMAIN others)
      known(d) == DOMAIN d \cup DOMAIN others
      effects(d, n) == IF n \in DOMAIN d THEN d[n] ELSE others[n].obj.performs
      inherits(d, rank, n) ==
        \E callee \in funcs[n].calls \cap known(d) :
          /\ d[n] = effects(d, callee)
          /\ callee \in DOMAIN rank => rank[callee] < rank[n]
  IN {d \in UNION {[direct \cup S -> SUBSET Effects] : S \in SUBSET callers} :
        /\ \A n \in direct : d[n] = funcs[n].performs
        /\ \E rank \in [DOMAIN d \ direct -> 1..Cardinality(callers)] :
             \A n \in DOMAIN rank : inherits(d, rank, n)
        /\ \A n \in callers \ DOMAIN d : funcs[n].calls \cap known(d) = {}}

(* The graph after a scan of version v of f that declared d: new objects, all *)
(* of unknown health, also for names another file had declared.               *)
Declare(others, f, g, v, d) ==
  [n \in DOMAIN others \cup DOMAIN d |->
     IF n \in DOMAIN d
     THEN [obj |-> [name |-> n, file |-> f, performs |-> d[n], gen |-> g, born |-> v],
           state |-> "unknown", judged |-> 0, abandoned |-> FALSE]
     ELSE others[n]]

Share(a, b) == a.performs \cap b.performs # {}

(* The names a change of some files invalidates: the modules of those files *)
(* and every module that performs an effect one of them performs.           *)
Invalidate(mods, changedFiles) ==
  LET affected == {n \in DOMAIN mods : mods[n].obj.file \in changedFiles}
  IN affected \cup {n \in DOMAIN mods :
                      \E m \in affected : Share(mods[n].obj, mods[m].obj)}

(* Defect: modules are told apart by name, not by pointer.                  *)
AmongByName(o, objs) == \E p \in objs : p.name = o.name

(* A goroutine's list of modules is a list of pointers: it contains the     *)
(* object itself, not one that a later scan has put in its place.           *)
Among(o, objs) == o \in objs

(* Assigning State through such a list: what is no longer in the graph      *)
(* nobody sees.                                                             *)
Mark(mods, objs, s) ==
  [n \in DOMAIN mods |->
     IF Among(mods[n].obj, objs)
     THEN [mods[n] EXCEPT !.state = s, !.abandoned = FALSE]
     ELSE mods[n]]

(* A run gives up: history only, State stays what it is.                    *)
Abandon(mods, objs) ==
  [n \in DOMAIN mods |->
     IF Among(mods[n].obj, objs) THEN [mods[n] EXCEPT !.abandoned = TRUE] ELSE mods[n]]

(* Defect: a module's own file is not looked at.                            *)
TaintsOtherFile(m, n) ==
  m.state = "failing" /\ m.obj.file # n.obj.file /\ Share(m.obj, n.obj)

Taints(m, n) == m.state = "failing" /\ Share(m.obj, n.obj)

(* A healthy module that shares an effect with a failing one becomes tainted. *)
Cascade(mods) ==
  [n \in DOMAIN mods |->
     IF mods[n].state = "healthy" /\ \E m \in DOMAIN mods \ {n} : Taints(mods[m], mods[n])
     THEN [mods[n] EXCEPT !.state = "tainted"]
     ELSE mods[n]]

(* No healthy module shares an effect with a failing one.                   *)
Isolated(mods) ==
  \A m, n \in DOMAIN mods :
    mods[m].state = "healthy" /\ mods[n].state = "failing" => ~Share(mods[m].obj, mods[n].obj)
=============================================================================
