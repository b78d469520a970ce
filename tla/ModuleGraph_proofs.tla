------------------------- MODULE ModuleGraph_proofs -------------------------
(***************************************************************************)
(* Lemmas about the module graph: every operation on it yields a graph     *)
(* again, and what each does to the separation of healthy and failing      *)
(* modules.                                                                *)
(***************************************************************************)
EXTENDS ModuleGraph, FiniteSetTheorems, WellFoundedInduction, TLAPS

IsFuncs(funcs) ==
  /\ DOMAIN funcs \subseteq Names \cup {"main"}
  /\ funcs \in [DOMAIN funcs -> Function]

(* What a scan declares is a map from names to sets of effects, and every   *)
(* name is that of a function of the text other than main.                  *)
LEMMA ScanOutcomesType ==
  ASSUME NEW others, NEW funcs, IsFuncs(funcs), NEW d \in ScanOutcomes(others, funcs)
  PROVE  /\ DOMAIN d \subseteq DOMAIN funcs \ {"main"}
         /\ DOMAIN d \subseteq Names
         /\ d \in [DOMAIN d -> SUBSET Effects]
<1> DEFINE direct == {n \in Declarable(funcs) : funcs[n].performs # {}}
           callers == Declarable(funcs) \ (direct \cup DOMAIN others)
<1>1. d \in UNION {[direct \cup S -> SUBSET Effects] : S \in SUBSET callers}
  BY DEF ScanOutcomes
<1>2. PICK S \in SUBSET callers : d \in [direct \cup S -> SUBSET Effects]
  BY <1>1
<1>3. DOMAIN d = direct \cup S
  BY <1>2
<1>4. direct \cup S \subseteq DOMAIN funcs \ {"main"}
  BY DEF Declarable
<1>5. DOMAIN funcs \ {"main"} \subseteq Names
  BY DEF IsFuncs
<1> QED BY <1>2, <1>3, <1>4, <1>5

(* Dropping a file's entries leaves a graph.                                *)
LEMMA WithoutType ==
  ASSUME NEW mods, IsGraph(mods), NEW f
  PROVE  /\ IsGraph(Without(mods, f))
         /\ DOMAIN Without(mods, f) \subseteq DOMAIN mods
         /\ \A n \in DOMAIN Without(mods, f) :
              Without(mods, f)[n] = mods[n] /\ mods[n].obj.file # f
BY DEF IsGraph, Without

(* Declaring what a scan found gives a graph.                               *)
FoundByScan(d) == DOMAIN d \subseteq Names /\ d \in [DOMAIN d -> SUBSET Effects]

LEMMA DeclareGraph ==
  ASSUME NEW others, IsGraph(others), NEW f \in Files, NEW g \in Nat, NEW v \in Nat,
         NEW d, FoundByScan(d)
  PROVE  IsGraph(Declare(others, f, g, v, d))
<1>1. PICK new : new = Declare(others, f, g, v, d)
  OBVIOUS
<1>2. DOMAIN d \subseteq Names /\ d \in [DOMAIN d -> SUBSET Effects]
  BY DEF FoundByScan
<1>3. new = [n \in DOMAIN others \cup DOMAIN d |->
               IF n \in DOMAIN d
               THEN [obj |-> [name |-> n, file |-> f, performs |-> d[n], gen |-> g, born |-> v],
                     state |-> "unknown", judged |-> 0, abandoned |-> FALSE]
               ELSE others[n]]
  BY <1>1 DEF Declare
<1>4. ASSUME NEW n \in DOMAIN d
      PROVE  new[n] \in Module /\ new[n].obj.name = n
  BY <1>2, <1>3, <1>4 DEF Module, Object, States
<1>5. ASSUME NEW n \in DOMAIN others \ DOMAIN d
      PROVE  new[n] \in Module /\ new[n].obj.name = n
  BY <1>3, <1>5 DEF IsGraph
<1>6. new \in [DOMAIN new -> Module] /\ DOMAIN new \subseteq Names
      /\ \A n \in DOMAIN new : new[n].obj.name = n
  BY <1>2, <1>3, <1>4, <1>5 DEF IsGraph
<1>7. IsGraph(new)
  BY <1>6 DEF IsGraph
<1> QED BY <1>1, <1>7

(* Marking changes no object and no name.                                   *)
LEMMA MarkType ==
  ASSUME NEW mods, IsGraph(mods), NEW objs, NEW s \in States,
         NEW new, new = Mark(mods, objs, s)
  PROVE  /\ IsGraph(new) /\ DOMAIN new = DOMAIN mods
         /\ \A n \in DOMAIN mods :
              /\ new[n].obj = mods[n].obj /\ new[n].judged = mods[n].judged
              /\ new[n].state = IF mods[n].obj \in objs THEN s ELSE mods[n].state
<1>1. DOMAIN new = DOMAIN mods
  BY DEF Mark
<1>2. ASSUME NEW n \in DOMAIN mods
      PROVE  /\ new[n] \in Module
             /\ new[n].obj = mods[n].obj /\ new[n].judged = mods[n].judged
             /\ new[n].state = IF mods[n].obj \in objs THEN s ELSE mods[n].state
  BY <1>2 DEF Mark, Among, IsGraph, Module
<1>3. new \in [DOMAIN new -> Module]
  BY <1>1, <1>2 DEF Mark
<1> QED BY <1>1, <1>2, <1>3 DEF IsGraph

(* Giving up changes neither objects nor states.                            *)
LEMMA AbandonType ==
  ASSUME NEW g, IsGraph(g), NEW objs, NEW new, new = Abandon(g, objs)
  PROVE  /\ IsGraph(new) /\ DOMAIN new = DOMAIN g
         /\ \A n \in DOMAIN g : /\ new[n].obj = g[n].obj
                                /\ new[n].judged = g[n].judged /\ new[n].state = g[n].state
<1>1. DOMAIN new = DOMAIN g
  BY DEF Abandon
<1>2. ASSUME NEW n \in DOMAIN g
      PROVE  /\ new[n] \in Module /\ new[n].obj = g[n].obj
             /\ new[n].judged = g[n].judged /\ new[n].state = g[n].state
  <2>1. g[n] \in Module
    BY <1>2 DEF IsGraph
  <2>2. CASE g[n].obj \notin objs
    BY <1>2, <2>1, <2>2 DEF Abandon, Among
  <2>3. CASE g[n].obj \in objs
    <3>1. new[n] = [g[n] EXCEPT !.abandoned = TRUE]
      BY <1>2, <2>3 DEF Abandon, Among
    <3> QED BY <3>1, <2>1 DEF Module
  <2> QED BY <2>2, <2>3
<1>3. new \in [DOMAIN new -> Module]
  BY <1>1, <1>2 DEF Abandon
<1> QED BY <1>1, <1>2, <1>3 DEF IsGraph

(* The cascade turns some healthy modules tainted and changes nothing else. *)
LEMMA CascadeType ==
  ASSUME NEW mods, IsGraph(mods), NEW new, new = Cascade(mods)
  PROVE  /\ IsGraph(new) /\ DOMAIN new = DOMAIN mods
         /\ \A n \in DOMAIN mods :
              /\ new[n].obj = mods[n].obj /\ new[n].judged = mods[n].judged
              /\ new[n].state = IF mods[n].state = "healthy"
                                   /\ \E m \in DOMAIN mods \ {n} : Taints(mods[m], mods[n])
                                THEN "tainted" ELSE mods[n].state
<1>1. DOMAIN new = DOMAIN mods
  BY DEF Cascade
<1>2. ASSUME NEW n \in DOMAIN mods
      PROVE  /\ new[n] \in Module
             /\ new[n].obj = mods[n].obj /\ new[n].judged = mods[n].judged
             /\ new[n].state = IF mods[n].state = "healthy"
                                  /\ \E m \in DOMAIN mods \ {n} : Taints(mods[m], mods[n])
                               THEN "tainted" ELSE mods[n].state
  <2> DEFINE hit == mods[n].state = "healthy"
                    /\ \E m \in DOMAIN mods \ {n} : Taints(mods[m], mods[n])
  <2>1. new[n] = IF hit THEN [mods[n] EXCEPT !.state = "tainted"] ELSE mods[n]
    BY <1>2 DEF Cascade
  <2>2. mods[n] \in Module
    BY <1>2 DEF IsGraph
  <2> HIDE DEF hit
  <2>3. /\ new[n] \in Module
        /\ new[n].obj = mods[n].obj /\ new[n].judged = mods[n].judged
        /\ new[n].state = IF hit THEN "tainted" ELSE mods[n].state
    BY <2>1, <2>2 DEF Module, States
  <2> QED BY <2>3 DEF hit
<1>3. new \in [DOMAIN new -> Module]
  BY <1>1, <1>2 DEF Cascade
<1> QED BY <1>1, <1>2, <1>3 DEF IsGraph

(* After a cascade no healthy module shares an effect with a failing one,   *)
(* whatever the graph was before.                                           *)
LEMMA CascadeIsolates ==
  ASSUME NEW mods, IsGraph(mods), NEW new, new = Cascade(mods)
  PROVE  Isolated(new)
<1> SUFFICES ASSUME NEW m \in DOMAIN mods, NEW n \in DOMAIN mods,
                    new[m].state = "healthy", new[n].state = "failing",
                    Share(mods[m].obj, mods[n].obj)
             PROVE  FALSE
  BY CascadeType DEF Isolated, Share
<1>1. mods[m].state = "healthy" /\ mods[n].state = "failing" /\ m # n
  BY CascadeType
<1>2. Taints(mods[n], mods[m])
  BY <1>1 DEF Taints, Share
<1> QED BY <1>1, <1>2, CascadeType

(* A graph stays isolated when none of its modules becomes healthy or       *)
(* failing: modules may go, come in another state, or change to one.        *)
LEMMA QuietChangeIsolated ==
  ASSUME NEW mods, NEW new, Isolated(mods),
         \A n \in DOMAIN new : new[n].state \in {"healthy", "failing"} =>
            n \in DOMAIN mods /\ new[n].obj = mods[n].obj /\ new[n].state = mods[n].state
  PROVE  Isolated(new)
BY DEF Isolated

-----------------------------------------------------------------------------
(***************************************************************************)
(* The propagation loop of scanFile, for any text and any graph.           *)
(***************************************************************************)
(* A set of naturals that is not empty has a least element: the induction  *)
(* over ranks and cardinalities below goes through it.                     *)
LEMMA LeastElement ==
  ASSUME NEW T \in SUBSET Nat, T # {}
  PROVE  \E x \in T : \A y \in T : x <= y
<1> DEFINE R == OpToRel(<, Nat)
<1>1. IsWellFoundedOn(R, Nat)
  BY NatLessThanWellFounded
<1>2. \A y, x \in Nat : y < x => <<y, x>> \in R
  BY DEF OpToRel
<1> HIDE DEF R
<1>3. PICK x \in T : \A y \in T : ~ (<<y, x>> \in R)
  BY <1>1, WFMin
<1>4. ASSUME NEW y \in T PROVE x <= y
  <2>1. ~ (y < x)
    BY <1>2, <1>3, <1>4
  <2> QED BY <2>1
<1> QED BY <1>4

\* The functions whose own text performs an effect, those that may inherit
\* some, and what a name has to hand on: the abbreviations of ScanOutcomes.
Direct(funcs) == {n \in Declarable(funcs) : funcs[n].performs # {}}
Callers(others, funcs) == Declarable(funcs) \ (Direct(funcs) \cup DOMAIN others)
EffectsOf(others, d, n) == IF n \in DOMAIN d THEN d[n] ELSE others[n].obj.performs

Inherits(others, funcs, d, rank, n) ==
  \E callee \in funcs[n].calls \cap (DOMAIN d \cup DOMAIN others) :
    /\ d[n] = EffectsOf(others, d, callee)
    /\ callee \in DOMAIN rank => rank[callee] < rank[n]

\* The callers S have inherited, the r-th of them in the r-th place.
Inherited(others, funcs, S, d, rank) ==
  /\ d \in [Direct(funcs) \cup S -> SUBSET Effects]
  /\ \A n \in Direct(funcs) : d[n] = funcs[n].performs
  /\ rank \in [S -> 1 .. Cardinality(S)]
  /\ \A n \in S : Inherits(others, funcs, d, rank, n)

\* What a result of a scan is, in these names.
LEMMA OutcomeFacts ==
  ASSUME NEW others, NEW funcs, NEW d \in ScanOutcomes(others, funcs)
  PROVE  /\ Direct(funcs) \subseteq DOMAIN d
         /\ DOMAIN d \subseteq Direct(funcs) \cup Callers(others, funcs)
         /\ \E rank \in [DOMAIN d \ Direct(funcs) -> Nat] :
              \A n \in DOMAIN rank : Inherits(others, funcs, d, rank, n)
         /\ \A n \in Callers(others, funcs) \ DOMAIN d :
              funcs[n].calls \cap (DOMAIN d \cup DOMAIN others) = {}
<1> DEFINE direct  == Direct(funcs)
           callers == Callers(others, funcs)
<1>1. /\ d \in UNION {[direct \cup S -> SUBSET Effects] : S \in SUBSET callers}
      /\ \E rank \in [DOMAIN d \ direct -> 1 .. Cardinality(callers)] :
           \A n \in DOMAIN rank : Inherits(others, funcs, d, rank, n)
      /\ \A n \in callers \ DOMAIN d : funcs[n].calls \cap (DOMAIN d \cup DOMAIN others) = {}
  BY Zenon DEF ScanOutcomes, Direct, Callers, Inherits, EffectsOf
<1> HIDE DEF direct, callers
<1>2. PICK S \in SUBSET callers : d \in [direct \cup S -> SUBSET Effects]
  BY <1>1
<1>3. PICK rank \in [DOMAIN d \ direct -> 1 .. Cardinality(callers)] :
        \A n \in DOMAIN rank : Inherits(others, funcs, d, rank, n)
  BY <1>1
<1>4. rank \in [DOMAIN d \ direct -> Nat]
  BY <1>3
<1> QED BY <1>1, <1>2, <1>3, <1>4 DEF direct, callers

\* A name that one result declares and another does not, the earliest in the
\* first, had its effects from a callee that the second also knows.
LEMMA NamesWithin ==
  ASSUME NEW others, NEW funcs,
         NEW d \in ScanOutcomes(others, funcs), NEW e \in ScanOutcomes(others, funcs)
  PROVE  DOMAIN d \subseteq DOMAIN e
<1>1. PICK rank \in [DOMAIN d \ Direct(funcs) -> Nat] :
        \A n \in DOMAIN rank : Inherits(others, funcs, d, rank, n)
  BY OutcomeFacts
<1>2. /\ Direct(funcs) \subseteq DOMAIN e
      /\ DOMAIN d \subseteq Direct(funcs) \cup Callers(others, funcs)
      /\ \A n \in Callers(others, funcs) \ DOMAIN e :
           funcs[n].calls \cap (DOMAIN e \cup DOMAIN others) = {}
  BY OutcomeFacts
<1> SUFFICES ASSUME DOMAIN d \ DOMAIN e # {} PROVE FALSE
  OBVIOUS
<1> DEFINE T == {rank[n] : n \in DOMAIN d \ DOMAIN e}
<1>3. T \in SUBSET Nat /\ T # {}
  BY <1>1, <1>2
<1>4. PICK n \in DOMAIN d \ DOMAIN e : \A m \in DOMAIN d \ DOMAIN e : rank[n] <= rank[m]
  <2>1. PICK x \in T : \A y \in T : x <= y
    BY <1>3, LeastElement
  <2> QED BY <2>1
<1>5. n \in DOMAIN rank /\ n \in Callers(others, funcs) \ DOMAIN e
  BY <1>1, <1>2
<1>6. PICK callee \in funcs[n].calls \cap (DOMAIN d \cup DOMAIN others) :
        callee \in DOMAIN rank => rank[callee] < rank[n]
  BY <1>1, <1>5 DEF Inherits
<1>7. callee \in DOMAIN e \cup DOMAIN others
  <2>1. CASE callee \in DOMAIN d \ DOMAIN e
    <3>1. callee \in DOMAIN rank
      BY <1>1, <1>2, <2>1
    <3>2. rank[callee] \in Nat /\ rank[n] \in Nat
      BY <1>1, <1>5, <3>1
    <3> QED BY <1>4, <1>6, <2>1, <3>1, <3>2
  <2> QED BY <1>6, <2>1
<1> QED BY <1>2, <1>5, <1>6, <1>7

\* Which modules a scan declares does not depend on the order in which Go's
\* map iteration yields the callees: only inherited effects do.
THEOREM ScanNamesDetermined ==
  ASSUME NEW others, NEW funcs,
         NEW d \in ScanOutcomes(others, funcs), NEW e \in ScanOutcomes(others, funcs)
  PROVE  DOMAIN d = DOMAIN e
BY NamesWithin

\* A caller with a callee that has something to hand on may inherit next.
LEMMA InheritMore ==
  ASSUME NEW others, IsGraph(others), NEW funcs, IsFiniteSet(DOMAIN funcs),
         NEW S \in SUBSET Callers(others, funcs), NEW d, NEW rank,
         Inherited(others, funcs, S, d, rank),
         NEW n \in Callers(others, funcs) \ DOMAIN d,
         NEW callee \in funcs[n].calls \cap (DOMAIN d \cup DOMAIN others)
  PROVE  \E e, more : Inherited(others, funcs, S \cup {n}, e, more)
<1> DEFINE R    == S \cup {n}
           e    == [m \in Direct(funcs) \cup R |->
                      IF m = n THEN EffectsOf(others, d, callee) ELSE d[m]]
           more == [m \in R |-> IF m = n THEN Cardinality(S) + 1 ELSE rank[m]]
<1>1. /\ DOMAIN d = Direct(funcs) \cup S /\ d \in [Direct(funcs) \cup S -> SUBSET Effects]
      /\ DOMAIN rank = S /\ rank \in [S -> 1 .. Cardinality(S)]
      /\ n \notin S /\ n \notin Direct(funcs) /\ n \notin DOMAIN others
      /\ \A m \in S : m # n /\ m \notin Direct(funcs) /\ m \notin DOMAIN others
  BY DEF Inherited, Callers
<1>2. Cardinality(S) \in Nat /\ Cardinality(R) = Cardinality(S) + 1
  <2>1. IsFiniteSet(S)
    <3>1. S \subseteq DOMAIN funcs
      BY DEF Callers, Declarable
    <3> QED BY <3>1, FS_Subset
  <2> QED BY <1>1, <2>1, FS_CardinalityType, FS_AddElement
<1>3. EffectsOf(others, d, callee) \in SUBSET Effects
  <2>1. CASE callee \in DOMAIN d
    BY <1>1, <2>1 DEF EffectsOf
  <2>2. CASE callee \notin DOMAIN d
    BY <2>2 DEF EffectsOf, IsGraph, Module, Object
  <2> QED BY <2>1, <2>2
<1>4. e \in [Direct(funcs) \cup R -> SUBSET Effects]
  BY <1>1, <1>3
<1>5. \A m \in Direct(funcs) : e[m] = funcs[m].performs
  BY <1>1 DEF Inherited
<1>6. more \in [R -> 1 .. Cardinality(R)]
  <2>1. \A m \in S : rank[m] \in 1 .. Cardinality(S)
    BY <1>1
  <2>2. \A m \in R : more[m] \in 1 .. Cardinality(R)
    BY <1>2, <2>1
  <2> QED BY <2>2
<1>7. /\ DOMAIN e = Direct(funcs) \cup R /\ DOMAIN more = R
      /\ e[n] = EffectsOf(others, d, callee) /\ more[n] = Cardinality(S) + 1
      /\ \A m \in DOMAIN d : e[m] = d[m]
      /\ \A m \in S : more[m] = rank[m]
  BY <1>1
<1> HIDE DEF e, more
<1>8. \A m \in DOMAIN d \cup DOMAIN others :
        m # n /\ EffectsOf(others, e, m) = EffectsOf(others, d, m)
  BY <1>1, <1>7 DEF EffectsOf
<1>9. Inherits(others, funcs, e, more, n)
  <2>1. callee \in DOMAIN more => callee \in S /\ more[callee] < more[n]
    <3>1. callee \in DOMAIN more => callee \in S
      BY <1>7, <1>8
    <3>2. \A m \in S : rank[m] \in 1 .. Cardinality(S)
      BY <1>1
    <3> QED BY <1>2, <1>7, <3>1, <3>2
  <2>2. callee \in funcs[n].calls \cap (DOMAIN e \cup DOMAIN others)
    BY <1>1, <1>7
  <2> QED BY <1>7, <1>8, <2>1, <2>2 DEF Inherits
<1>10. ASSUME NEW m \in S PROVE Inherits(others, funcs, e, more, m)
  <2>1. PICK from \in funcs[m].calls \cap (DOMAIN d \cup DOMAIN others) :
          /\ d[m] = EffectsOf(others, d, from)
          /\ from \in DOMAIN rank => rank[from] < rank[m]
    BY DEF Inherited, Inherits
  <2>2. /\ from \in funcs[m].calls \cap (DOMAIN e \cup DOMAIN others)
        /\ e[m] = EffectsOf(others, e, from)
    BY <1>1, <1>7, <1>8, <2>1
  <2>3. from \in DOMAIN more => from \in S /\ more[from] < more[m]
    BY <1>1, <1>7, <1>8, <2>1
  <2> QED BY <2>2, <2>3 DEF Inherits
<1>11. Inherited(others, funcs, R, e, more)
  BY <1>4, <1>5, <1>6, <1>9, <1>10 DEF Inherited
<1> QED BY <1>11

\* The loop comes to an end: every text, scanned into whatever graph there is,
\* has a result, so that a scan never keeps the daemon from going on.
THEOREM ScanHasOutcome ==
  ASSUME NEW others, IsGraph(others), NEW funcs, IsFuncs(funcs), IsFiniteSet(DOMAIN funcs)
  PROVE  ScanOutcomes(others, funcs) # {}
<1> DEFINE direct  == Direct(funcs)
           callers == Callers(others, funcs)
           Left(j) == \E S \in SUBSET callers :
                        /\ j = Cardinality(callers \ S)
                        /\ \E d, rank : Inherited(others, funcs, S, d, rank)
           T == {j \in Nat : Left(j)}
<1>1. IsFiniteSet(callers) /\ \A S \in SUBSET callers : IsFiniteSet(S)
  <2>1. callers \subseteq DOMAIN funcs
    BY DEF Callers, Declarable
  <2> QED BY <2>1, FS_Subset
<1>2. T # {}
  <2> DEFINE d == [n \in direct |-> funcs[n].performs]
             rank == [n \in {} |-> 0]
  <2>1. d \in [direct \cup {} -> SUBSET Effects]
    BY DEF IsFuncs, Function, Direct, Declarable
  <2>2. rank \in [{} -> 1 .. Cardinality({})]
    OBVIOUS
  <2>3. \A n \in direct : d[n] = funcs[n].performs
    OBVIOUS
  <2> HIDE DEF d, rank
  <2>4. Inherited(others, funcs, {}, d, rank)
    BY <2>1, <2>2, <2>3 DEF Inherited
  <2>5. Cardinality(callers \ {}) \in Nat
    BY <1>1, FS_CardinalityType
  <2>6. Left(Cardinality(callers \ {}))
    BY <2>4
  <2> QED BY <2>5, <2>6
<1>3. PICK j \in T : \A i \in T : j <= i
  <2> HIDE DEF Left
  <2>1. T \in SUBSET Nat
    OBVIOUS
  <2> HIDE DEF T
  <2> QED BY <1>2, <2>1, LeastElement
<1>4. PICK S \in SUBSET callers : /\ j = Cardinality(callers \ S)
                                  /\ \E d, rank : Inherited(others, funcs, S, d, rank)
  BY <1>3
<1>5. PICK d, rank : Inherited(others, funcs, S, d, rank)
  BY <1>4
<1>6. /\ DOMAIN d = direct \cup S /\ d \in [direct \cup S -> SUBSET Effects]
      /\ DOMAIN d \ direct = S
  BY <1>5 DEF Inherited, Callers
<1>7. ASSUME NEW n \in callers \ DOMAIN d
      PROVE  funcs[n].calls \cap (DOMAIN d \cup DOMAIN others) = {}
  <2> SUFFICES ASSUME NEW callee \in funcs[n].calls \cap (DOMAIN d \cup DOMAIN others)
               PROVE  FALSE
    OBVIOUS
  <2>1. \E e, more : Inherited(others, funcs, S \cup {n}, e, more)
    BY <1>5, <1>7, InheritMore
  <2> DEFINE i == Cardinality(callers \ (S \cup {n}))
  <2>2. n \in callers \ S /\ callers \ (S \cup {n}) = (callers \ S) \ {n}
    BY <1>6, <1>7
  <2>3. i = j - 1 /\ i \in Nat /\ j \in Nat
    <3> DEFINE rest == callers \ S
    <3>1. IsFiniteSet(rest) /\ n \in rest /\ j = Cardinality(rest)
      BY <1>1, <1>4, <2>2
    <3>2. i = Cardinality(rest \ {n})
      BY <2>2
    <3> HIDE DEF rest, i, T, Left
    <3>3. Cardinality(rest) \in Nat /\ IsFiniteSet(rest \ {n})
      BY <3>1, FS_CardinalityType, FS_RemoveElement
    <3>4. Cardinality(rest \ {n}) = Cardinality(rest) - 1 /\ Cardinality(rest \ {n}) \in Nat
      BY <3>1, <3>3, FS_RemoveElement, FS_CardinalityType
    <3> QED BY <3>1, <3>2, <3>3, <3>4
  <2>4. Left(i)
    <3>1. S \cup {n} \in SUBSET callers
      BY <2>2
    <3> QED BY <2>1, <3>1
  <2> HIDE DEF i, Left
  <2>5. i \in T
    BY <2>3, <2>4
  <2> HIDE DEF T
  <2>6. j <= i
    BY <1>3, <2>5
  <2> QED BY <2>3, <2>6
<1>8. rank \in [S -> 1 .. Cardinality(callers)]
  <2>1. /\ Cardinality(S) \in Nat /\ Cardinality(callers) \in Nat
        /\ Cardinality(S) <= Cardinality(callers)
    BY <1>1, FS_Subset, FS_CardinalityType
  <2>2. rank \in [S -> 1 .. Cardinality(S)]
    BY <1>5 DEF Inherited
  <2> QED BY <2>1, <2>2
<1>9. /\ d \in UNION {[direct \cup Q -> SUBSET Effects] : Q \in SUBSET callers}
      /\ \A n \in direct : d[n] = funcs[n].performs
      /\ rank \in [DOMAIN d \ direct -> 1 .. Cardinality(callers)]
      /\ \A n \in DOMAIN rank : Inherits(others, funcs, d, rank, n)
  BY <1>5, <1>6, <1>8 DEF Inherited
<1>10. d \in ScanOutcomes(others, funcs)
  <2> HIDE DEF Left, T
  <2> QED BY <1>7, <1>9, Zenon DEF ScanOutcomes, Direct, Callers, Inherits, EffectsOf
<1> QED BY <1>10
=============================================================================
