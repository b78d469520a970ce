----------------------- MODULE EffectAnalysis_proofs -----------------------
(***************************************************************************)
(* Theorems about EffectAnalysis, for any file.                           *)
(***************************************************************************)
EXTENDS EffectAnalysis, FiniteSetTheorems, WellFoundedInduction, TLAPS

(* The names of a text are its entries.                                     *)
LEMMA TextLength == Len(Text) \in Nat /\ DOMAIN Text = 1 .. Len(Text)
BY EffectAnalysisAssumption

LEMMA TextNames ==
  /\ Funcs \subseteq Names \cup {"main"}
  /\ \A i \in 1 .. Len(Text) : Text[i] \in Funcs
  /\ \A f \in Funcs : \E i \in 1 .. Len(Text) : Text[i] = f
BY EffectAnalysisAssumption, TextLength DEF Funcs, Range

(* Calls are made in the text's places, of its names or main.               *)
LEMMA CallsAreNames ==
  ASSUME TypeOK, NEW f, NEW g, Calls(f, g) \/ GivenEff(f, g)
  PROVE  f \in Places /\ g \in Callees
BY DEF TypeOK, IsText, Calls, GivenEff, Written

MainIsOut == Found => "main" \notin effectful

LEMMA TypesAndMain == Spec => [](TypeOK /\ MainIsOut)
<1>1. Init => TypeOK /\ MainIsOut
  <2>1. 1 \in 1 .. Len(Text) + 1
    BY TextLength
  <2>2. Init => IsText(source)
    BY EffectAnalysisAssumption DEF Init
  <2> QED BY <2>1, <2>2 DEF Init, TypeOK, MainIsOut, Found
<1>2. TypeOK /\ MainIsOut /\ [Next]_vars => TypeOK' /\ MainIsOut'
  <2> SUFFICES ASSUME TypeOK, MainIsOut, [Next]_vars PROVE TypeOK' /\ MainIsOut'
    OBVIOUS
  <2>0. CASE Filter
    BY <2>0 DEF TypeOK, MainIsOut, Found, Filter, IsText
  <2>1. CASE Seed
    BY <2>1 DEF TypeOK, MainIsOut, Found, Seed, Performers, IsText
  <2>2. CASE Visit
    <3>1. at' \in 1 .. Len(Text) + 1 /\ Text[at] \in Funcs
      BY <2>2, TextLength, TextNames DEF TypeOK, Visit
    <3> QED BY <2>2, <3>1 DEF TypeOK, MainIsOut, Found, Visit, IsText
  <2>3. CASE EndPass
    <3>1. at' \in 1 .. Len(Text) + 1
      BY <2>3, TextLength DEF EndPass
    <3> QED BY <2>3, <3>1 DEF TypeOK, MainIsOut, Found, EndPass, IsText
  <2>4. CASE InjectEffParams
    BY <2>4, TextNames DEF TypeOK, MainIsOut, Found, InjectEffParams, IsText
  <2>5. CASE InjectEffArgs
    BY <2>5, TextNames DEF TypeOK, MainIsOut, Found, InjectEffArgs, IsText
  <2>6. CASE UNCHANGED vars
    BY <2>6 DEF TypeOK, MainIsOut, Found, vars, IsText
  <2> QED BY <2>0, <2>1, <2>2, <2>3, <2>4, <2>5, <2>6 DEF Next
<1> QED BY <1>1, <1>2, PTL DEF Spec

(* The wiring never leaves the names of the file, and main gets no parameter *)
(* (effects.go:176).                                                        *)
THEOREM AnalysisTypeCorrect == Spec => []TypeOK
BY TypesAndMain, PTL

-----------------------------------------------------------------------------
(***************************************************************************)
(* The inductive invariant.  A pass that has changed nothing so far has    *)
(* seen no caller of an effectful function outside of effectful, so that   *)
(* at its end effectful is closed; and it never outgrows a closed set.     *)
(***************************************************************************)
Least == \A S \in SUBSET Funcs : ClosedUnderCalls(S) => effectful \subseteq S

Seen ==
  phase = "pass" =>
    /\ Performers \subseteq effectful
    /\ ~changed => \A i \in 1 .. at - 1 :
                     (\E g \in effectful : Calls(Text[i], g)) => Text[i] \in effectful

Closed ==
  Found => \E S \in {effectful, effectful \cup {"main"}} : ClosedUnderCalls(S)

AtStart == phase \in {"filter", "seed"} => effectful = {} /\ at = 1 /\ ~changed

Wired ==
  /\ phase \in {"args", "wired"} => params = effectful
  /\ phase = "wired" => args = {c \in Places \X effectful : GivenEff(c[1], c[2])}

AnalysisInv == Least /\ Seen /\ Closed /\ AtStart /\ Wired

LEMMA SeedKeeps ==
  ASSUME TypeOK, AnalysisInv, Seed
  PROVE  AnalysisInv'
<1>1. Performers' = Performers /\ \A f, g : Calls(f, g)' <=> Calls(f, g)
  BY DEF Seed, Performers, Mentions, Calls, Written
<1>2. effectful' = Performers /\ phase' = "pass" /\ at' = 1 /\ ~changed'
  BY DEF Seed, AnalysisInv, AtStart
<1>3. Least'
  BY <1>1, <1>2 DEF Least, ClosedUnderCalls
<1>4. Seen'
  BY <1>1, <1>2 DEF Seen
<1> QED BY <1>2, <1>3, <1>4 DEF AnalysisInv, Closed, Found, AtStart, Wired

LEMMA VisitKeeps ==
  ASSUME TypeOK, AnalysisInv, Visit
  PROVE  AnalysisInv'
<1>1. Performers' = Performers /\ \A f, g : Calls(f, g)' <=> Calls(f, g)
  BY DEF Visit, Performers, Mentions, Calls, Written
<1>2. /\ at \in 1 .. Len(Text) /\ Text[at] \in Funcs
      /\ at' = at + 1 /\ phase = "pass" /\ phase' = "pass"
  BY TextLength, TextNames DEF TypeOK, Visit
<1>3. CASE Text[at] \notin effectful /\ \E g \in effectful : Calls(Text[at], g)
  <2>1. effectful' = effectful \cup {Text[at]} /\ changed'
    BY <1>3 DEF Visit
  <2>2. Least'
    BY <2>1, <1>1, <1>2, <1>3 DEF AnalysisInv, Least, ClosedUnderCalls
  <2>3. Seen'
    BY <2>1, <1>1, <1>2, <1>3 DEF AnalysisInv, Seen
  <2> QED BY <1>2, <2>2, <2>3 DEF AnalysisInv, Closed, Found, AtStart, Wired
<1>4. CASE ~(Text[at] \notin effectful /\ \E g \in effectful : Calls(Text[at], g))
  <2>1. effectful' = effectful /\ (changed' <=> changed)
    BY <1>4 DEF TypeOK, Visit
  <2>2. Least'
    BY <2>1, <1>1 DEF AnalysisInv, Least, ClosedUnderCalls
  <2>3. \A i \in 1 .. at' - 1 : i \in 1 .. at - 1 \/ i = at
    BY <1>2
  <2>4. Seen'
    BY <2>1, <2>3, <1>1, <1>2, <1>4 DEF AnalysisInv, Seen
  <2> QED BY <1>2, <2>2, <2>4 DEF AnalysisInv, Closed, Found, AtStart, Wired
<1> QED BY <1>3, <1>4

LEMMA EndPassKeeps ==
  ASSUME TypeOK, AnalysisInv, EndPass
  PROVE  AnalysisInv'
<1>1. Performers' = Performers /\ \A f, g : Calls(f, g)' <=> Calls(f, g)
  BY DEF EndPass, Performers, Mentions, Calls, Written
<1>2. phase = "pass" /\ at > Len(Text) /\ at' = 1 /\ ~changed'
  BY DEF EndPass
<1>3. CASE changed
  <2>1. effectful' = effectful /\ phase' = "pass"
    BY <1>2, <1>3 DEF EndPass
  <2> QED BY <1>1, <1>2, <2>1
    DEF AnalysisInv, Least, ClosedUnderCalls, Seen, Closed, Found, AtStart, Wired
<1>4. CASE ~changed
  <2>1. effectful' = effectful \ {"main"} /\ phase' = "params"
    BY <1>4 DEF EndPass
  <2>2. ClosedUnderCalls(effectful)
    <3>1. ASSUME NEW f \in Funcs, NEW g \in effectful, Calls(f, g) PROVE f \in effectful
      <4>1. PICK i \in 1 .. Len(Text) : Text[i] = f
        BY TextNames
      <4>2. i \in 1 .. at - 1
        BY <1>2, TextLength DEF TypeOK
      <4> QED BY <1>2, <1>4, <3>1, <4>1, <4>2 DEF AnalysisInv, Seen
    <3> QED BY <1>2, <3>1 DEF AnalysisInv, Seen, ClosedUnderCalls
  <2>3. \E S \in {effectful', effectful' \cup {"main"}} : S = effectful
    BY <2>1
  <2>4. Closed'
    BY <1>1, <2>2, <2>3 DEF Closed, Found, ClosedUnderCalls
  <2>5. Least'
    BY <1>1, <2>1 DEF AnalysisInv, Least, ClosedUnderCalls
  <2> QED BY <2>1, <2>4, <2>5 DEF AnalysisInv, Seen, AtStart, Wired
<1> QED BY <1>3, <1>4

LEMMA WiringKeeps ==
  ASSUME TypeOK, AnalysisInv,
         Filter \/ InjectEffParams \/ InjectEffArgs \/ UNCHANGED vars
  PROVE  AnalysisInv'
<1>1. /\ Performers' = Performers /\ \A f, g : Calls(f, g)' <=> Calls(f, g)
      /\ \A p, g : GivenEff(p, g)' <=> GivenEff(p, g)
  BY DEF Filter, InjectEffParams, InjectEffArgs, vars, Performers, Mentions, Calls,
         GivenEff, Written
<1>2. effectful' = effectful /\ at' = at /\ changed' = changed
  BY DEF Filter, InjectEffParams, InjectEffArgs, vars
<1>3. Least'
  BY <1>1, <1>2 DEF AnalysisInv, Least, ClosedUnderCalls
<1>4. Closed'
  BY <1>1, <1>2
  DEF AnalysisInv, Closed, Found, ClosedUnderCalls, Filter, InjectEffParams, InjectEffArgs, vars
<1>5. Seen' /\ AtStart'
  BY <1>1, <1>2 DEF AnalysisInv, Seen, AtStart, Filter, InjectEffParams, InjectEffArgs, vars
<1>6. Wired'
  <2>1. CASE InjectEffParams
    BY <2>1 DEF Wired, InjectEffParams
  <2>2. CASE InjectEffArgs
    BY <2>2, <1>1 DEF AnalysisInv, Wired, InjectEffArgs
  <2>0. CASE Filter
    BY <2>0 DEF AnalysisInv, Wired, Filter
  <2>3. CASE UNCHANGED vars
    BY <2>3, <1>1 DEF AnalysisInv, Wired, vars
  <2> QED BY <2>0, <2>1, <2>2, <2>3
<1> QED BY <1>3, <1>4, <1>5, <1>6 DEF AnalysisInv

LEMMA AnalysisInvariant == Spec => []AnalysisInv
<1>1. Init => AnalysisInv
  BY DEF Init, AnalysisInv, Least, Seen, Closed, Found, AtStart, Wired
<1>2. TypeOK /\ AnalysisInv /\ [Next]_vars => AnalysisInv'
  BY SeedKeeps, VisitKeeps, EndPassKeeps, WiringKeeps DEF Next
<1> QED BY <1>1, <1>2, TypesAndMain, PTL DEF Spec

(* In every file findEffectfulFuncs finds the least set that holds whoever  *)
(* performs and whoever calls a member, whatever the order of its text.     *)
THEOREM EffectfulIsLeast == Spec => []FoundIsLeast
<1>1. AnalysisInv => FoundIsLeast
  BY DEF AnalysisInv, Least, Closed, Found, FoundIsLeast
<1> QED BY <1>1, AnalysisInvariant, PTL

(* A generated function that performs or passes __eff has it, for any text: *)
(* whatever injectEffArgs takes for a call within a function, containsCall   *)
(* has taken for one.                                                       *)
THEOREM FunctionsHaveContext == Spec => []UsersHaveContext
<1>1. TypeOK /\ AnalysisInv => UsersHaveContext
  <2> SUFFICES ASSUME TypeOK, AnalysisInv, phase = "wired", NEW f \in Funcs \ {"main"},
                      \/ Mentions(f, {"statement", "inner"})
                      \/ \E g \in Names : <<f, g>> \in args
               PROVE  f \in params
    BY DEF UsersHaveContext
  <2>1. PICK S \in {effectful, effectful \cup {"main"}} : ClosedUnderCalls(S)
    BY DEF AnalysisInv, Closed, Found
  <2>2. params = effectful
    BY DEF AnalysisInv, Wired
  <2>3. CASE Mentions(f, {"statement", "inner"})
    <3>1. f \in Performers
      BY <2>3 DEF Performers, Mentions, Forms
    <3> QED BY <2>1, <2>2, <3>1 DEF ClosedUnderCalls
  <2>4. CASE \E g \in Names : <<f, g>> \in args
    <3>1. PICK g \in effectful : GivenEff(f, g)
      BY <2>4 DEF AnalysisInv, Wired
    <3>2. f # "outside"
      BY TextNames, EffectAnalysisAssumption
    <3>3. ~ Written(f, g, {"declaration"})
      BY <3>2 DEF TypeOK, IsText, Written
    <3>4. Calls(f, g)
      BY <3>1, <3>3 DEF GivenEff, Calls, Written
    <3> QED BY <2>1, <2>2, <3>1, <3>4 DEF ClosedUnderCalls
  <2> QED BY <2>3, <2>4
<1> QED BY <1>1, AnalysisInvariant, TypesAndMain, PTL
-----------------------------------------------------------------------------
(***************************************************************************)
(* The daemon's scan of the same text.  rank is the order in which its     *)
(* loop adds those that inherit: the first of them that is not effectful   *)
(* would have to inherit from an effectful one.                            *)
(***************************************************************************)
Direct  == {n \in Declarable(DaemonText) : DaemonText[n].performs # {}}
Callers == Declarable(DaemonText) \ Direct

\* A scan of the file alone: who is in it, and why.
LEMMA ScanAlone ==
  ASSUME NEW d \in ScanOutcomes(<< >>, DaemonText)
  PROVE  /\ Direct \subseteq DOMAIN d /\ DOMAIN d \subseteq Declarable(DaemonText)
         /\ \E rank \in [DOMAIN d \ Direct -> 1 .. Cardinality(Callers)] :
              \A n \in DOMAIN rank : \E callee \in DaemonText[n].calls \cap DOMAIN d :
                callee \in DOMAIN rank => rank[callee] < rank[n]
         /\ \A n \in Declarable(DaemonText) \ DOMAIN d : DaemonText[n].calls \cap DOMAIN d = {}
<1> DEFINE known   == DOMAIN d \cup DOMAIN << >>
           callers == Declarable(DaemonText) \ (Direct \cup DOMAIN << >>)
<1>1. known = DOMAIN d /\ callers = Callers
  BY DEF Callers
<1>2. /\ d \in UNION {[Direct \cup S -> SUBSET Effects] : S \in SUBSET callers}
      /\ \E rank \in [DOMAIN d \ Direct -> 1 .. Cardinality(callers)] :
           \A n \in DOMAIN rank : \E callee \in DaemonText[n].calls \cap known :
             callee \in DOMAIN rank => rank[callee] < rank[n]
      /\ \A n \in callers \ DOMAIN d : DaemonText[n].calls \cap known = {}
  <2>1. d \in UNION {[Direct \cup S -> SUBSET Effects] : S \in SUBSET callers}
    BY DEF ScanOutcomes, Direct
  <2>2. \A n \in callers \ DOMAIN d : DaemonText[n].calls \cap known = {}
    BY DEF ScanOutcomes, Direct
  <2>3. PICK rank \in [DOMAIN d \ Direct -> 1 .. Cardinality(callers)] :
          \A n \in DOMAIN rank : \E callee \in DaemonText[n].calls \cap known :
            /\ d[n] = IF callee \in DOMAIN d THEN d[callee]
                                             ELSE << >>[callee].obj.performs
            /\ callee \in DOMAIN rank => rank[callee] < rank[n]
    BY DEF ScanOutcomes, Direct
  <2> QED BY <2>1, <2>2, <2>3
<1> HIDE DEF known, callers
<1>3. PICK S \in SUBSET Callers : d \in [Direct \cup S -> SUBSET Effects]
  <2>1. d \in UNION {[Direct \cup S -> SUBSET Effects] : S \in SUBSET Callers}
    BY <1>1, <1>2
  <2> QED BY <2>1
<1>4. DOMAIN d = Direct \cup S
  BY <1>3
<1> QED BY <1>1, <1>2, <1>4 DEF Direct, Callers

\* The text has finitely many functions.
LEMMA FewCallers == Cardinality(Callers) \in Nat
<1>1. IsFiniteSet(1 .. Len(Text))
  BY TextLength, FS_Interval
<1>2. Text \in Surjection(1 .. Len(Text), Funcs)
  BY EffectAnalysisAssumption, TextLength, TextNames DEF Surjection
<1>3. IsFiniteSet(Funcs)
  BY <1>1, <1>2, FS_Surjection
<1>4. Callers \subseteq Funcs
  BY DEF Callers, Declarable, DaemonText
<1> QED BY <1>3, <1>4, FS_Subset, FS_CardinalityType

\* Among numbered things one has the least number.
LEMMA FirstOf ==
  ASSUME NEW T, T # {}, NEW rank, \A n \in T : rank[n] \in Nat
  PROVE  \E n \in T : \A m \in T : rank[n] <= rank[m]
<1> DEFINE less == {ss \in Nat \X Nat : ss[1] < ss[2]}
           ranks == {rank[n] : n \in T}
<1>1. IsWellFoundedOn(less, Nat)
  BY NatLessThanWellFounded DEF OpToRel
<1>2. ranks \subseteq Nat /\ ranks # {}
  OBVIOUS
<1> HIDE DEF less, ranks
<1>3. PICK x \in ranks : \A y \in ranks : <<y, x>> \notin less
  BY <1>1, <1>2, WFMin
<1>4. PICK n \in T : x = rank[n]
  BY DEF ranks
<1>5. ASSUME NEW m \in T PROVE rank[n] <= rank[m]
  <2>1. rank[m] \in ranks /\ rank[m] \in Nat /\ x \in Nat
    BY <1>2 DEF ranks
  <2>2. ~ (rank[m] < x)
    BY <1>3, <2>1 DEF less
  <2> QED BY <1>4, <2>1, <2>2
<1> QED BY <1>5

\* The text in the daemon's terms.
LEMMA DaemonReads ==
  /\ Declarable(DaemonText) = Funcs \ {"main"}
  /\ \A f \in Declarable(DaemonText) :
       /\ f \in Direct <=> Mentions(f, {"statement", "inner"})
       /\ \A g : g \in DaemonText[f].calls <=> g \in Names /\ SeenByDaemon(f, g)
<1>1. DOMAIN DaemonText = Funcs
  BY DEF DaemonText
<1>2. Declarable(DaemonText) = Funcs \ {"main"}
  BY <1>1 DEF Declarable
<1>3. ASSUME NEW f \in Declarable(DaemonText)
      PROVE  /\ DaemonText[f].performs
                  = IF Mentions(f, {"statement", "inner"}) THEN Effects ELSE {}
             /\ DaemonText[f].calls = {g \in Names : SeenByDaemon(f, g)}
  BY <1>2 DEF DaemonText
<1>4. ASSUME NEW f \in Declarable(DaemonText)
      PROVE  f \in Direct <=> Mentions(f, {"statement", "inner"})
  BY <1>3, EffectAnalysisAssumption DEF Direct
<1> QED BY <1>2, <1>3, <1>4

\* Whom the daemon shows is effectful, when no longer name hides a module's.
LEMMA ShownAreEffectful ==
  ASSUME TypeOK, MainIsOut, AnalysisInv, phase = "wired",
         NEW d \in ScanOutcomes(<< >>, DaemonText),
         \A c \in source.calls : c[3] # "suffix"
  PROVE  DOMAIN d \subseteq effectful
<1>1. PICK S \in {effectful, effectful \cup {"main"}} : ClosedUnderCalls(S)
  BY DEF AnalysisInv, Closed, Found
<1>2. PICK rank \in [DOMAIN d \ Direct -> 1 .. Cardinality(Callers)] :
        \A n \in DOMAIN rank : \E callee \in DaemonText[n].calls \cap DOMAIN d :
          callee \in DOMAIN rank => rank[callee] < rank[n]
  BY ScanAlone
<1>3. DOMAIN rank = DOMAIN d \ Direct /\ \A n \in DOMAIN rank : rank[n] \in Nat
  BY FewCallers
<1>4. Direct \subseteq effectful
  <2>1. ASSUME NEW f \in Direct PROVE f \in Performers /\ f # "main"
    <3>1. f \in Declarable(DaemonText)
      BY DEF Direct
    <3> QED BY <3>1, DaemonReads DEF Performers, Mentions, Forms
  <2> QED BY <1>1, <2>1 DEF ClosedUnderCalls
<1> DEFINE T == DOMAIN rank \ effectful
<1>5. CASE T # {}
  <2>1. PICK n \in T : \A m \in T : rank[n] <= rank[m]
    BY <1>3, <1>5, FirstOf
  <2>2. PICK callee \in DaemonText[n].calls \cap DOMAIN d :
          callee \in DOMAIN rank => rank[callee] < rank[n]
    BY <1>2
  <2>3. callee \in effectful
    <3>1. CASE callee \in DOMAIN rank
      <4>1. rank[callee] \in Nat /\ rank[n] \in Nat /\ rank[callee] < rank[n]
        BY <1>3, <2>2, <3>1
      <4>2. callee \notin T
        BY <2>1, <4>1
      <4> QED BY <3>1, <4>2
    <3>2. CASE callee \notin DOMAIN rank
      BY <1>3, <1>4, <2>2, <3>2
    <3> QED BY <3>1, <3>2
  <2>4. n \in Declarable(DaemonText)
    BY <1>3, ScanAlone
  <2>5. n \in Funcs \ {"main"} /\ SeenByDaemon(n, callee)
    BY <2>2, <2>4, DaemonReads
  <2>6. Calls(n, callee)
    BY <2>5 DEF SeenByDaemon, Calls, Written
  <2> QED BY <1>1, <2>3, <2>5, <2>6 DEF ClosedUnderCalls
<1>6. CASE T = {}
  BY <1>3, <1>4, <1>6
<1> QED BY <1>5, <1>6

\* Whoever is effectful is shown, when the daemon can read why.
LEMMA EffectfulAreShown ==
  ASSUME TypeOK, MainIsOut, AnalysisInv, phase = "wired",
         NEW d \in ScanOutcomes(<< >>, DaemonText),
         \A c \in source.calls : c[3] \notin {"spaced", "piped"} /\ c[2] # "main",
         \A p \in source.performs : p[2] # "comment"
  PROVE  effectful \subseteq DOMAIN d
<1> DEFINE found == DOMAIN d \cup (Funcs \cap {"main"})
<1>1. found \subseteq Funcs
  BY DaemonReads, ScanAlone
<1>2. Performers \subseteq found
  <2>1. ASSUME NEW f \in Performers PROVE f = "main" \/ f \in Direct
    <3>1. Mentions(f, {"statement", "inner"})
      BY DEF Performers, Mentions, Forms
    <3> QED BY <3>1, DaemonReads DEF Performers
  <2> QED BY <2>1, ScanAlone DEF Performers
<1>3. ASSUME NEW f \in Funcs, NEW g \in found, Calls(f, g)
      PROVE  f \in found
  <2>1. g \in Names /\ SeenByDaemon(f, g) /\ g # "main"
    BY <1>3, CallsAreNames DEF Calls, SeenByDaemon, Written, Callees
  <2>2. CASE f # "main"
    <3>1. f \in Declarable(DaemonText) /\ g \in DaemonText[f].calls \cap DOMAIN d
      BY <2>1, <2>2, DaemonReads
    <3> QED BY <3>1, ScanAlone
  <2>3. CASE f = "main"
    BY <2>3
  <2> QED BY <2>2, <2>3
<1> HIDE DEF found
<1>4. effectful \subseteq found
  BY <1>1, <1>2, <1>3 DEF AnalysisInv, Least, ClosedUnderCalls
<1>5. "main" \notin effectful
  BY DEF MainIsOut, Found
<1> QED BY <1>4, <1>5 DEF found

(* How far the daemon's scan (scanFile, state.go) of the same text agrees,  *)
(* for any text and any order of its map iteration: the ways to write a      *)
(* call or a perform that DaemonAgrees names are all that sets them apart.   *)
THEOREM DaemonShowsEffectful == Spec => []DaemonAgrees
<1>1. TypeOK /\ MainIsOut /\ AnalysisInv => DaemonAgrees
  BY ShownAreEffectful, EffectfulAreShown DEF DaemonAgrees
<1> QED BY <1>1, AnalysisInvariant, TypesAndMain, PTL
===========================================================================
