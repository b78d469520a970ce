---------------------------- MODULE Daemon_proofs ----------------------------
(***************************************************************************)
(* Safety of the daemon for any files, texts, edits and full runs.         *)
(***************************************************************************)
EXTENDS Daemon, ModuleGraph_proofs

-----------------------------------------------------------------------------
(* Lemmas on the operators of Daemon.                                       *)

(* A file that can be read has functions to scan.                           *)
LEMMA ReadableFuncs ==
  ASSUME NEW content \in Readable
  PROVE  /\ content \in Content /\ content.ver \in Nat
         /\ IsFuncs(content.src.funcs)
<1>1. content.src \in Texts \ {Gone} /\ content.ver \in Nat /\ content \in Content
  BY DEF Readable, Content
<1>2. PICK f \in Files : content.src \in SourcesOf[f]
  BY <1>1 DEF Texts
<1>3. IsSource(content.src)
  BY <1>1, <1>2, DaemonAssumption
<1> QED BY <1>1, <1>3 DEF IsSource, IsFuncs

(* A verdict gives a graph with the same objects, judged by what was read.  *)
LEMMA VerdictType ==
  ASSUME NEW g, IsGraph(g), NEW objs, NEW texts, NEW ran \in SUBSET DOMAIN texts,
         \A f \in DOMAIN texts : texts[f] \in Content,
         NEW new, new = Verdict(g, objs, texts, ran)
  PROVE  /\ IsGraph(new) /\ DOMAIN new = DOMAIN g
         /\ \A n \in DOMAIN g :
              /\ new[n].obj = g[n].obj
              /\ new[n].judged = IF g[n].obj \notin objs THEN g[n].judged
                                 ELSE IF g[n].obj.file \in ran
                                      THEN texts[g[n].obj.file].ver ELSE 0
              /\ g[n].obj \notin objs => new[n].state = g[n].state
              /\ g[n].obj \in objs => new[n].state \in {"healthy", "failing"}
<1>1. DOMAIN new = DOMAIN g
  BY DEF Verdict
<1>2. ASSUME NEW n \in DOMAIN g
      PROVE  /\ new[n] \in Module
             /\ new[n].obj = g[n].obj
             /\ new[n].judged = IF g[n].obj \notin objs THEN g[n].judged
                                ELSE IF g[n].obj.file \in ran
                                     THEN texts[g[n].obj.file].ver ELSE 0
             /\ g[n].obj \notin objs => new[n].state = g[n].state
             /\ g[n].obj \in objs => new[n].state \in {"healthy", "failing"}
  <2>1. g[n] \in Module
    BY <1>2 DEF IsGraph
  <2>2. CASE g[n].obj \notin objs
    <3>1. new[n] = g[n]
      BY <1>2, <2>2 DEF Verdict, Among
    <3> QED BY <3>1, <2>1, <2>2
  <2>3. CASE g[n].obj \in objs
    <3> DEFINE state == StateAfter(Blames(texts, ran, g[n].obj), g[n].state)
               judged == IF g[n].obj.file \in ran THEN texts[g[n].obj.file].ver ELSE 0
    <3>1. new[n] = [g[n] EXCEPT !.state = state, !.judged = judged, !.abandoned = FALSE]
      BY <1>2, <2>3 DEF Verdict, Among
    <3>2. state \in {"healthy", "failing"}
      BY DEF StateAfter
    <3>3. judged \in Nat
      BY DEF Content
    <3> HIDE DEF state, judged
    <3>4. /\ new[n] \in Module /\ new[n].obj = g[n].obj
          /\ new[n].judged = judged /\ new[n].state = state
      BY <3>1, <3>2, <3>3, <2>1 DEF Module, States
    <3> QED BY <3>2, <3>4, <2>3 DEF judged
  <2> QED BY <2>2, <2>3
<1>3. new \in [DOMAIN new -> Module]
  BY <1>1, <1>2 DEF Verdict
<1> QED BY <1>1, <1>2, <1>3 DEF IsGraph

(* Scanning a readable text turns a graph into a graph.  Its modules are    *)
(* those found before, or fresh, unknown, never judged, and of this text.   *)
LEMMA ScanTextType ==
  ASSUME TypeOK, NEW f \in Files, NEW content \in Readable, NEW others, IsGraph(others),
         ScanText(f, content, others)
  PROVE  /\ IsGraph(mods')
         /\ gen' \in [Files -> Nat] /\ gen'[f] = gen[f] + 1
         /\ scanned' = [scanned EXCEPT ![f] = content]
         /\ scanned' \in [Files -> Content]
         /\ \A n \in DOMAIN mods' :
              \/ n \in DOMAIN others /\ mods'[n] = others[n]
              \/ /\ mods'[n].obj.file = f /\ mods'[n].obj.born = content.ver
                 /\ mods'[n].obj.gen = gen[f] + 1 /\ n \in DOMAIN content.src.funcs
                 /\ mods'[n].state = "unknown" /\ mods'[n].judged = 0
<1>1. PICK d \in ScanOutcomes(others, content.src.funcs) :
        mods' = Declare(others, f, gen[f] + 1, content.ver, d)
  BY DEF ScanText
<1>2. DOMAIN d \subseteq Names /\ d \in [DOMAIN d -> SUBSET Effects]
      /\ DOMAIN d \subseteq DOMAIN content.src.funcs
  BY ReadableFuncs, ScanOutcomesType
<1>3. PICK g \in Nat, v \in Nat : g = gen[f] + 1 /\ v = content.ver
  BY ReadableFuncs DEF TypeOK
<1>4. mods' = Declare(others, f, g, v, d)
  BY <1>1, <1>3
<1>5. IsGraph(mods')
  <2>1. FoundByScan(d)
    BY <1>2 DEF FoundByScan
  <2>2. IsGraph(Declare(others, f, g, v, d))
    BY <2>1, DeclareGraph
  <2>   QED BY <1>4, <2>2
<1>6. /\ DOMAIN mods' = DOMAIN others \cup DOMAIN d
      /\ \A n \in DOMAIN d :
           /\ mods'[n].obj.file = f /\ mods'[n].obj.performs = d[n]
           /\ mods'[n].obj.gen = g /\ mods'[n].obj.born = v
           /\ mods'[n].state = "unknown" /\ mods'[n].judged = 0
      /\ \A n \in DOMAIN others \ DOMAIN d : mods'[n] = others[n]
  <2> DEFINE fresh(n) ==
        [obj |-> [name |-> n, file |-> f, performs |-> d[n], gen |-> g, born |-> v],
         state |-> "unknown", judged |-> 0, abandoned |-> FALSE]
  <2>1. mods' = [n \in DOMAIN others \cup DOMAIN d |->
                   IF n \in DOMAIN d THEN fresh(n) ELSE others[n]]
    BY <1>4 DEF Declare
  <2>2. \A n : /\ fresh(n).obj.file = f /\ fresh(n).obj.performs = d[n]
               /\ fresh(n).obj.gen = g /\ fresh(n).obj.born = v
               /\ fresh(n).state = "unknown" /\ fresh(n).judged = 0
    OBVIOUS
  <2> HIDE DEF fresh
  <2> QED BY <2>1, <2>2
<1>7. ASSUME NEW n \in DOMAIN mods'
      PROVE  \/ n \in DOMAIN others /\ mods'[n] = others[n]
             \/ /\ mods'[n].obj.file = f /\ mods'[n].obj.born = content.ver
                /\ mods'[n].obj.gen = gen[f] + 1 /\ n \in DOMAIN content.src.funcs
                /\ mods'[n].state = "unknown" /\ mods'[n].judged = 0
  BY <1>2, <1>3, <1>6, <1>7
<1>8. gen' \in [Files -> Nat] /\ gen'[f] = gen[f] + 1
  BY <1>3 DEF ScanText, TypeOK
<1>9. scanned' = [scanned EXCEPT ![f] = content] /\ scanned' \in [Files -> Content]
  BY ReadableFuncs DEF ScanText, TypeOK
<1> QED BY <1>5, <1>7, <1>8, <1>9

-----------------------------------------------------------------------------
(* Each action keeps the type invariant.                                    *)

LEMMA InitType == Init => TypeOK
<1> SUFFICES ASSUME Init PROVE TypeOK
  OBVIOUS
<1>1. disk \in [Files -> Content] /\ scanned \in [Files -> Content]
  BY DEF Init, Content, Unread, Texts
<1>2. IsGraph(mods)
  BY DEF Init, IsGraph
<1>3. DOMAIN saw = Runs /\ \A r \in Runs : DOMAIN saw[r] = {}
  BY DEF Init
<1>4. \A r \in Runs : DOMAIN saw[r] \subseteq Files /\ saw[r] \in [DOMAIN saw[r] -> Content]
  BY <1>3 DEF Init
<1> QED BY <1>1, <1>2, <1>3, <1>4 DEF Init, TypeOK

LEMMA EditType ==
  ASSUME TypeOK, NEW f \in Files, NEW src \in SourcesOf[f], Edit(f, src)
  PROVE  TypeOK'
<1>1. disk' \in [Files -> Content]
  <2>1. [ver |-> disk[f].ver + 1, src |-> src] \in Content
    BY DEF TypeOK, Content, Texts
  <2> QED BY <2>1 DEF TypeOK, Edit
<1>2. missed' \subseteq Files /\ fsEvents' \subseteq Files
  BY DEF TypeOK, Edit
<1> QED BY <1>1, <1>2 DEF TypeOK, Edit, graph, callback, runs

LEMMA ScanNextType ==
  ASSUME TypeOK, NEW f \in Files, ScanNext(f)
  PROVE  TypeOK'
<1>1. /\ IsGraph(mods') /\ gen' \in [Files -> Nat] /\ scanned' \in [Files -> Content]
  <2>1. CASE disk[f].src = Gone
    BY <2>1 DEF TypeOK, ScanNext
  <2>2. CASE disk[f].src # Gone
    <3>1. disk[f] \in Readable
      BY <2>2 DEF TypeOK, Content, Readable
    <3>2. ScanText(f, disk[f], mods) /\ IsGraph(mods)
      BY <2>2 DEF ScanNext, TypeOK
    <3> QED BY <3>1, <3>2, ScanTextType
  <2> QED BY <2>1, <2>2
<1> QED BY <1>1 DEF TypeOK, ScanNext, watcher, runs

LEMMA ReadChangedType ==
  ASSUME TypeOK, NEW f \in Files, ReadChanged(f)
  PROVE  TypeOK'
<1>1. buffer' \subseteq [file : Files, text : Readable]
  BY DEF TypeOK, ReadChanged, Content, Readable
<1>2. missed' \subseteq Files
  BY DEF TypeOK, ReadChanged
<1> QED BY <1>1, <1>2 DEF TypeOK, ReadChanged, watcher, graph, runs

LEMMA ScanChangedType ==
  ASSUME TypeOK, ScanChanged
  PROVE  TypeOK'
<1>1. PICK b \in buffer : ScanText(b.file, b.text, Without(mods, b.file))
  BY DEF ScanChanged
<1>2. b.file \in Files /\ b.text \in Readable
  BY DEF TypeOK
<1>3. IsGraph(Without(mods, b.file))
  BY WithoutType DEF TypeOK
<1>4. IsGraph(mods') /\ gen' \in [Files -> Nat] /\ scanned' \in [Files -> Content]
  BY <1>1, <1>2, <1>3, ScanTextType
<1> QED BY <1>4 DEF TypeOK, ScanChanged, files, watcher, runs

(* Where a run ends.                                                        *)
LEMMA ReturnType ==
  ASSUME TypeOK, NEW r \in Runs, Return(r)
  PROVE  /\ phase' \in [Runs -> {"idle", "collect", "mark", "read"}]
         /\ held' \in [Runs -> SUBSET Object]
         /\ unread' \in [Runs -> SUBSET Files]
         /\ DOMAIN saw' = Runs
         /\ \A q \in Runs : /\ DOMAIN saw'[q] \subseteq Files
                            /\ saw'[q] \in [DOMAIN saw'[q] -> Content]
         /\ pc' \in {"scan", "tests", "watch", "idle", "rescan", "stale", "stopped"}
<1>1. /\ phase' \in [Runs -> {"idle", "collect", "mark", "read"}]
      /\ held' \in [Runs -> SUBSET Object]
      /\ unread' \in [Runs -> SUBSET Files]
      /\ pc' \in {"scan", "tests", "watch", "idle", "rescan", "stale", "stopped"}
  BY DEF TypeOK, Return, AfterRun
<1>2. /\ DOMAIN saw' = Runs
      /\ DOMAIN saw'[r] = {}
      /\ \A q \in Runs \ {r} : saw'[q] = saw[q]
  BY DEF TypeOK, Return
<1>3. ASSUME NEW q \in Runs
      PROVE  DOMAIN saw'[q] \subseteq Files /\ saw'[q] \in [DOMAIN saw'[q] -> Content]
  <2>1. CASE q = r
    BY <2>1, <1>2 DEF TypeOK, Return
  <2>2. CASE q # r
    BY <2>2, <1>2, <1>3 DEF TypeOK
  <2> QED BY <2>1, <2>2
<1> QED BY <1>1, <1>2, <1>3

LEMMA InvalidateBatchType ==
  ASSUME TypeOK, InvalidateBatch
  PROVE  TypeOK'
<1>1. {mods[n].obj : n \in Invalidate(mods, batch)} \subseteq Object
  BY DEF TypeOK, IsGraph, Module, Invalidate
<1>2. held' \in [Runs -> SUBSET Object]
  BY <1>1 DEF TypeOK, InvalidateBatch
<1> QED BY <1>2 DEF TypeOK, InvalidateBatch, files, watcher, graph

LEMMA MarkStaleType ==
  ASSUME TypeOK, MarkStale
  PROVE  TypeOK'
<1>1. IsGraph(mods')
  BY MarkType DEF TypeOK, MarkStale, States
<1>2. phase' \in [Runs -> {"idle", "collect", "mark", "read"}]
  BY DEF TypeOK, MarkStale
<1> QED BY <1>1, <1>2 DEF TypeOK, MarkStale, files, watcher, callback

LEMMA CollectType ==
  ASSUME TypeOK, NEW r \in Runs, Collect(r)
  PROVE  TypeOK'
<1>1. CASE mods = [n \in {} |-> {}]
  <2>1. Return(r)
    BY <1>1 DEF Collect
  <2> QED BY <2>1, ReturnType DEF TypeOK, Collect, files, watcher, graph, callback
<1>2. CASE mods # [n \in {} |-> {}]
  <2>1. {mods[n].obj : n \in DOMAIN mods} \subseteq Object
    BY DEF TypeOK, IsGraph, Module
  <2>2. held' \in [Runs -> SUBSET Object]
        /\ phase' \in [Runs -> {"idle", "collect", "mark", "read"}]
    BY <2>1, <1>2 DEF TypeOK, Collect
  <2> QED BY <2>2, <1>2 DEF TypeOK, Collect, files, watcher, graph, callback
<1> QED BY <1>1, <1>2

LEMMA MarkRunningType ==
  ASSUME TypeOK, NEW r \in Runs, MarkRunning(r)
  PROVE  TypeOK'
<1>1. IsGraph(mods')
  BY MarkType DEF TypeOK, MarkRunning, States
<1>2. /\ phase' \in [Runs -> {"idle", "collect", "mark", "read"}]
      /\ unread' \in [Runs -> SUBSET Files]
  BY DEF TypeOK, MarkRunning, Object
<1> QED BY <1>1, <1>2 DEF TypeOK, MarkRunning, files, watcher, callback

LEMMA TempDirFailsType ==
  ASSUME TypeOK, NEW r \in Runs, TempDirFails(r)
  PROVE  TypeOK'
<1>1. IsGraph(mods')
  BY AbandonType DEF TempDirFails, TypeOK
<1>2. Return(r)
  BY DEF TempDirFails
<1> QED BY <1>1, <1>2, ReturnType DEF TypeOK, TempDirFails, files, watcher, callback

LEMMA ReadSourceType ==
  ASSUME TypeOK, NEW r \in Runs, NEW f \in Files, ReadSource(r, f)
  PROVE  TypeOK'
<1>1. unread' \in [Runs -> SUBSET Files]
  BY DEF TypeOK, ReadSource
<1>2. /\ DOMAIN saw' = Runs
      /\ \A q \in Runs : /\ DOMAIN saw'[q] \subseteq Files
                         /\ saw'[q] \in [DOMAIN saw'[q] -> Content]
  <2>1. CASE disk[f].src = Gone
    BY <2>1 DEF TypeOK, ReadSource
  <2>2. CASE disk[f].src # Gone
    <3> DEFINE read == [g \in DOMAIN saw[r] \cup {f} |-> IF g = f THEN disk[f] ELSE saw[r][g]]
    <3>1. saw' = [saw EXCEPT ![r] = read]
      BY <2>2 DEF ReadSource
    <3>2. DOMAIN read \subseteq Files /\ read \in [DOMAIN read -> Content]
      BY DEF TypeOK
    <3> HIDE DEF read
    <3> QED BY <3>1, <3>2 DEF TypeOK
  <2> QED BY <2>1, <2>2
<1> QED BY <1>1, <1>2 DEF TypeOK, ReadSource, files, watcher, graph, callback

LEMMA ApplyType ==
  ASSUME TypeOK, NEW r \in Runs, Apply(r)
  PROVE  TypeOK'
<1>1. PICK ran \in SUBSET DOMAIN saw[r] :
        mods' = Cascade(Verdict(mods, held[r], saw[r], ran))
  BY DEF Apply
<1>2. PICK v : v = Verdict(mods, held[r], saw[r], ran)
  OBVIOUS
<1>3. \A f \in DOMAIN saw[r] : saw[r][f] \in Content
  BY DEF TypeOK
<1>4. IsGraph(v)
  BY <1>2, <1>3, VerdictType DEF TypeOK
<1>5. IsGraph(mods')
  BY <1>1, <1>2, <1>4, CascadeType
<1>6. Return(r)
  BY DEF Apply
<1> QED BY <1>5, <1>6, ReturnType DEF TypeOK, Apply, files, watcher, callback

(* The actions that only move the daemon along.                             *)
LEMMA OtherType ==
  ASSUME TypeOK,
         \/ Interrupt \/ ScanDone \/ StartWatcher \/ Exit \/ Terminated
         \/ \E f \in Files : Deliver(f)
         \/ \E ready \in SUBSET Files : Flush(ready)
         \/ \E r \in FullRuns : Trigger(r)
  PROVE  TypeOK'
<1> USE DEF TypeOK, files, watcher, graph, callback, runs
<1>1. CASE Interrupt
  BY <1>1 DEF Interrupt
<1>2. CASE ScanDone
  BY <1>2 DEF ScanDone
<1>3. CASE StartWatcher
  BY <1>3 DEF StartWatcher
<1>4. CASE Exit
  BY <1>4 DEF Exit
<1>5. CASE Terminated
  BY <1>5 DEF Terminated, vars
<1>6. ASSUME NEW f \in Files, Deliver(f) PROVE TypeOK'
  BY <1>6 DEF Deliver
<1>7. ASSUME NEW ready \in SUBSET Files, Flush(ready) PROVE TypeOK'
  BY <1>7 DEF Flush
<1>8. ASSUME NEW r \in FullRuns, Trigger(r) PROVE TypeOK'
  BY <1>8 DEF Trigger
<1> QED BY <1>1, <1>2, <1>3, <1>4, <1>5, <1>6, <1>7, <1>8

(* Every reachable state of the daemon is well typed: in particular the     *)
(* graph files each module under its own name and never holds main.         *)
THEOREM TypeCorrect == Spec => []TypeOK
<1>1. Init => TypeOK
  BY InitType
<1>2. TypeOK /\ [Next]_vars => TypeOK'
  <2> SUFFICES ASSUME TypeOK, [Next]_vars PROVE TypeOK'
    OBVIOUS
  <2>1. ASSUME NEW f \in Files, NEW src \in SourcesOf[f], Edit(f, src) PROVE TypeOK'
    BY <2>1, EditType
  <2>2. CASE MainStep
    BY <2>2, ScanNextType, ReadChangedType, ScanChangedType, InvalidateBatchType,
       MarkStaleType, OtherType DEF MainStep
  <2>3. ASSUME NEW r \in Runs, RunStep(r) PROVE TypeOK'
    BY <2>3, CollectType, MarkRunningType, TempDirFailsType, ReadSourceType, ApplyType
       DEF RunStep
  <2>4. CASE UNCHANGED vars
    BY <2>4 DEF TypeOK, vars, files, watcher, graph, callback, runs
  <2> QED BY <2>1, <2>2, <2>3, <2>4, OtherType DEF Next
<1> QED BY <1>1, <1>2, PTL DEF Spec

-----------------------------------------------------------------------------
(* A step that scans only adds unknown modules, one that marks leaves no    *)
(* module newly healthy or failing, and a verdict is followed by a cascade  *)
(* over the whole graph before the lock is given up.                        *)
LEMMA IsolatedStep ==
  ASSUME TypeOK, HealthyIsolated, Next
  PROVE  HealthyIsolated'
<1> USE DEF HealthyIsolated
<1>1. ASSUME NEW f \in Files, NEW content \in Readable, NEW others, IsGraph(others),
             \A n \in DOMAIN others : n \in DOMAIN mods /\ others[n] = mods[n],
             ScanText(f, content, others)
      PROVE  Isolated(mods')
  <2>1. \A n \in DOMAIN mods' :
          mods'[n].state \in {"healthy", "failing"} =>
            n \in DOMAIN mods /\ mods'[n].obj = mods[n].obj /\ mods'[n].state = mods[n].state
    <3> SUFFICES ASSUME NEW n \in DOMAIN mods', mods'[n].state \in {"healthy", "failing"}
                 PROVE  /\ n \in DOMAIN mods
                        /\ mods'[n].obj = mods[n].obj /\ mods'[n].state = mods[n].state
      OBVIOUS
    <3>1. n \in DOMAIN others /\ mods'[n] = others[n]
      BY <1>1, ScanTextType
    <3> QED BY <3>1, <1>1
  <2> QED BY <2>1, QuietChangeIsolated
<1>2. ASSUME NEW objs, NEW s \in {"stale", "running"}, mods' = Mark(mods, objs, s)
      PROVE  Isolated(mods')
  <2>1. IsGraph(mods')
    BY <1>2, MarkType DEF TypeOK, States
  <2>2. \A n \in DOMAIN mods' :
          mods'[n].state \in {"healthy", "failing"} =>
            n \in DOMAIN mods /\ mods'[n].obj = mods[n].obj /\ mods'[n].state = mods[n].state
    BY <2>1, <1>2, MarkType DEF TypeOK, States
  <2> QED BY <2>2, QuietChangeIsolated
<1>3. ASSUME NEW r \in Runs, Apply(r)
      PROVE  Isolated(mods')
  <2>1. PICK ran \in SUBSET DOMAIN saw[r] :
          mods' = Cascade(Verdict(mods, held[r], saw[r], ran))
    BY <1>3 DEF Apply
  <2>2. PICK v : v = Verdict(mods, held[r], saw[r], ran)
    OBVIOUS
  <2>3. \A f \in DOMAIN saw[r] : saw[r][f] \in Content
    BY DEF TypeOK
  <2>4. IsGraph(v)
    BY <2>2, <2>3, VerdictType DEF TypeOK
  <2> QED BY <2>1, <2>2, <2>4, CascadeIsolates
<1>4. ASSUME NEW r \in Runs, TempDirFails(r)
      PROVE  Isolated(mods')
  <2>1. mods' = Abandon(mods, held[r])
    BY <1>4 DEF TempDirFails
  <2>2. IsGraph(mods')
    BY <2>1, AbandonType DEF TypeOK
  <2>3. \A n \in DOMAIN mods' :
          mods'[n].state \in {"healthy", "failing"} =>
            n \in DOMAIN mods /\ mods'[n].obj = mods[n].obj /\ mods'[n].state = mods[n].state
    BY <2>1, <2>2, AbandonType DEF TypeOK
  <2> QED BY <2>3, QuietChangeIsolated
<1>5. ASSUME NEW f \in Files, ScanNext(f)
      PROVE  Isolated(mods')
  <2>1. CASE disk[f].src = Gone
    BY <1>5, <2>1 DEF ScanNext
  <2>2. CASE disk[f].src # Gone
    <3>1. disk[f] \in Readable
      BY <2>2 DEF TypeOK, Content, Readable
    <3>2. ScanText(f, disk[f], mods) /\ IsGraph(mods)
      BY <1>5, <2>2 DEF ScanNext, TypeOK
    <3> QED BY <3>1, <3>2, <1>1
  <2> QED BY <2>1, <2>2
<1>6. CASE ScanChanged
  <2>1. PICK b \in buffer : ScanText(b.file, b.text, Without(mods, b.file))
    BY <1>6 DEF ScanChanged
  <2>2. b.file \in Files /\ b.text \in Readable
    BY DEF TypeOK
  <2>3. IsGraph(Without(mods, b.file))
    BY WithoutType DEF TypeOK
  <2>4. \A n \in DOMAIN Without(mods, b.file) :
          n \in DOMAIN mods /\ Without(mods, b.file)[n] = mods[n]
    BY DEF Without
  <2> QED BY <2>1, <2>2, <2>3, <2>4, <1>1
<1>7. CASE MarkStale
  BY <1>7, <1>2 DEF MarkStale
<1>8. ASSUME NEW r \in Runs, MarkRunning(r)
      PROVE  Isolated(mods')
  BY <1>8, <1>2 DEF MarkRunning
<1>9. CASE UNCHANGED mods
  BY <1>9
<1>10. ASSUME NEW r \in Runs, RunStep(r)
       PROVE  Isolated(mods')
  <2>1. CASE Collect(r) \/ \E f \in Files : ReadSource(r, f)
    BY <2>1, <1>9 DEF Collect, ReadSource, graph
  <2> QED BY <2>1, <1>3, <1>4, <1>8, <1>10 DEF RunStep
<1>11. CASE MainStep
  <2>1. CASE ScanDone \/ StartWatcher \/ InvalidateBatch \/ \E f \in Files : ReadChanged(f)
    BY <2>1, <1>9 DEF ScanDone, StartWatcher, InvalidateBatch, ReadChanged, graph
  <2> QED BY <2>1, <1>5, <1>6, <1>7, <1>11 DEF MainStep
<1>12. CASE \/ Interrupt \/ Exit \/ Terminated
            \/ \E f \in Files : Deliver(f)
            \/ \E ready \in SUBSET Files : Flush(ready)
            \/ \E r \in FullRuns : Trigger(r)
            \/ \E f \in Files : \E src \in SourcesOf[f] : Edit(f, src)
  BY <1>12, <1>9 DEF Interrupt, Exit, Terminated, Deliver, Flush, Trigger, Edit, graph, vars
<1> QED BY <1>10, <1>11, <1>12 DEF Next

(* Whatever full runs, rescans and callbacks interleave, no healthy module  *)
(* ever shares an effect with a failing one.                                *)
THEOREM HealthyModulesAreIsolated == Spec => []HealthyIsolated
<1>1. Init => HealthyIsolated
  BY DEF Init, HealthyIsolated, Isolated
<1>2. TypeOK /\ HealthyIsolated /\ [Next]_vars => HealthyIsolated'
  <2>1. CASE UNCHANGED vars
    BY <2>1 DEF HealthyIsolated, Isolated, vars, graph
  <2> QED BY <2>1, IsolatedStep
<1> QED BY <1>1, <1>2, TypeCorrect, PTL DEF Spec

-----------------------------------------------------------------------------
(* No edit is lost and no verdict is out of date: the inductive invariant.  *)

(* Where Main is decides what it holds; only a run that reads has texts.    *)
Control ==
  /\ pc \notin {"scan", "rescan"} => toScan = {}
  /\ buffer # {} => pc = "rescan"
  /\ \A b, c \in buffer : b = c
  /\ pc # "tests" => phase[Main] = "idle"
  /\ \A r \in Runs : phase[r] # "read" => DOMAIN saw[r] = {}

(* A deleted file is one whose last edit raised no event, unless a scan     *)
(* found it missing.  What has been read and not scanned is the present     *)
(* text, unless an edit has come since.                                     *)
Underway ==
  /\ \A f \in Files : disk[f].src = Gone =>
       f \in missed \/ scanned[f] = disk[f] \/ (pc = "scan" /\ f \in toScan)
  /\ \A b \in buffer : \/ b.text = disk[b.file]
                       \/ b.file \in missed
                       \/ disk[b.file].src # Gone /\ b.file \in fsEvents \cup pending

PipelineInv == Control /\ Underway /\ EditInPipeline

LEMMA PipelineInit == Init => PipelineInv
<1> SUFFICES ASSUME Init PROVE PipelineInv
  OBVIOUS
<1>1. /\ buffer = {} /\ pc = "scan" /\ toScan = Files
      /\ \A r \in Runs : DOMAIN saw[r] = {}
  BY DEF Init
<1>2. phase[Main] = "idle"
  BY DEF Init, Runs
<1>3. Control
  BY <1>1, <1>2 DEF Control
<1>4. Underway /\ EditInPipeline
  BY <1>1 DEF Underway, EditInPipeline, InPipeline
<1> QED BY <1>3, <1>4 DEF PipelineInv

LEMMA PipelineStep ==
  ASSUME TypeOK, PipelineInv, Next
  PROVE  PipelineInv'
<1> USE DEF TypeOK, PipelineInv, Control, Underway, EditInPipeline, InPipeline
<1>1. ASSUME NEW f \in Files, NEW src \in SourcesOf[f], Edit(f, src) PROVE PipelineInv'
  BY <1>1 DEF Edit, graph, callback, runs, Content
<1>2. CASE Interrupt
  BY <1>2 DEF Interrupt, files, watcher, graph, callback, runs
<1>3. ASSUME NEW f \in Files, ScanNext(f) PROVE PipelineInv'
  BY <1>3 DEF ScanNext, ScanText, watcher, runs
<1>4. CASE ScanDone
  BY <1>4 DEF ScanDone, files, watcher, graph, callback
<1>5. CASE StartWatcher
  BY <1>5 DEF StartWatcher, files, graph, callback, runs
<1>6. ASSUME NEW f \in Files, ReadChanged(f) PROVE PipelineInv'
  <2>1. CASE disk[f].src = Gone
    BY <1>6, <2>1 DEF ReadChanged, watcher, graph, runs
  <2>2. CASE disk[f].src # Gone
    <3>1. buffer' = {[file |-> f, text |-> disk[f]]} /\ missed' = missed \ {f}
      BY <1>6, <2>2 DEF ReadChanged
    <3>2. \A b \in buffer' : b.file = f /\ b.text = disk'[b.file]
      BY <1>6, <3>1 DEF ReadChanged
    <3>3. Control' /\ Underway'
      BY <1>6, <3>1, <3>2 DEF ReadChanged, watcher, graph, runs
    <3>4. EditInPipeline'
      BY <1>6, <3>1 DEF ReadChanged, watcher, graph, runs
    <3> QED BY <3>3, <3>4
  <2> QED BY <2>1, <2>2
<1>7. CASE ScanChanged
  BY <1>7 DEF ScanChanged, ScanText, files, watcher, runs
<1>8. CASE InvalidateBatch
  BY <1>8 DEF InvalidateBatch, files, watcher, graph
<1>9. CASE MarkStale
  BY <1>9 DEF MarkStale, files, watcher, callback
<1>10. ASSUME NEW f \in Files, Deliver(f) PROVE PipelineInv'
  BY <1>10 DEF Deliver, files, graph, callback, runs
<1>11. ASSUME NEW ready \in SUBSET Files, Flush(ready) PROVE PipelineInv'
  BY <1>11 DEF Flush, files, graph, runs
<1>12. CASE Exit
  BY <1>12 DEF Exit, files, graph, callback, runs
<1>13. ASSUME NEW r \in FullRuns, Trigger(r) PROVE PipelineInv'
  BY <1>13, DaemonAssumption DEF Trigger, files, watcher, graph, callback, Runs
<1>14. ASSUME NEW r \in Runs, RunStep(r) PROVE PipelineInv'
  <2>1. ASSUME Return(r), r = Main => pc = "tests",
               UNCHANGED <<files, watcher, callback>>, UNCHANGED scanned, pc # "scan"
        PROVE  PipelineInv'
    <3>1. pc' = pc \/ (pc = "tests" /\ pc' \in {"idle", "watch"})
      BY <2>1 DEF Return, AfterRun
    <3>2. pc' # "tests" => phase'[Main] = "idle"
      BY <2>1, DaemonAssumption DEF Return, AfterRun, Runs
    <3>3. \A q \in Runs : phase'[q] # "read" => DOMAIN saw'[q] = {}
      BY <2>1 DEF Return
    <3>4. buffer # {} => pc' = "rescan"
      BY <2>1 DEF Return, AfterRun
    <3>5. toScan' = toScan /\ buffer' = buffer
      BY <2>1 DEF callback
    <3>7. pc' \notin {"scan", "rescan"} => toScan' = {}
      BY <3>1, <3>5
    <3>8. Control'
      BY <3>2, <3>3, <3>4, <3>5, <3>7
    <3>6. Underway' /\ EditInPipeline'
      BY <2>1 DEF files, watcher, callback
    <3> QED BY <3>6, <3>8
  <2>2. CASE Collect(r)
    <3>1. CASE mods = [n \in {} |-> {}]
      BY <2>1, <2>2, <3>1 DEF Collect, Running, graph
    <3>2. CASE mods # [n \in {} |-> {}]
      <4>1. /\ pc' = pc /\ toScan' = toScan /\ buffer' = buffer /\ saw' = saw
            /\ r = Main => pc = "tests"
        BY <2>2, <3>2 DEF Collect, Running, callback
      <4>2. /\ phase[r] = "collect" /\ phase'[r] = "mark"
            /\ \A q \in Runs \ {r} : phase'[q] = phase[q]
        BY <2>2, <3>2 DEF Collect
      <4>3. Control'
        BY <4>1, <4>2, DaemonAssumption DEF Runs
      <4>4. Underway' /\ EditInPipeline'
        BY <2>2, <3>2 DEF Collect, files, watcher, graph, callback
      <4> QED BY <4>3, <4>4
    <3> QED BY <3>1, <3>2
  <2>3. CASE MarkRunning(r)
    BY <2>3 DEF MarkRunning, Running, files, watcher, callback
  <2>4. CASE TempDirFails(r)
    BY <2>1, <2>4 DEF TempDirFails, Running
  <2>5. ASSUME NEW f \in Files, ReadSource(r, f) PROVE PipelineInv'
    <3>1. \A q \in Runs : phase'[q] # "read" => DOMAIN saw'[q] = {}
      BY <2>5 DEF ReadSource
    <3> QED BY <2>5, <3>1 DEF ReadSource, files, watcher, graph, callback
  <2>6. CASE Apply(r)
    BY <2>1, <2>6 DEF Apply, Running
  <2> QED BY <1>14, <2>2, <2>3, <2>4, <2>5, <2>6 DEF RunStep
<1>15. CASE Terminated
  BY <1>15 DEF Terminated, vars, files, watcher, graph, callback, runs
<1> QED BY <1>1, <1>2, <1>3, <1>4, <1>5, <1>6, <1>7, <1>8, <1>9, <1>10, <1>11,
          <1>12, <1>13, <1>14, <1>15 DEF Next, MainStep

(* Versions: nothing is newer than the disk; a module was made from the     *)
(* last scan of its file; a run that holds a module reads its file no       *)
(* earlier than that scan did, and neither is any verdict older.            *)
ScansNotNewer ==
  /\ \A f \in Files : scanned[f].ver <= disk[f].ver
  /\ \A b \in buffer : b.text.ver <= disk[b.file].ver

ModulesOfLastScan ==
  /\ \A n \in DOMAIN mods : mods[n].obj.born = scanned[mods[n].obj.file].ver
  /\ pc = "scan" => \A n \in DOMAIN mods : mods[n].obj.file \notin toScan

RunsReadLater ==
  \A r \in Runs :
    /\ \A f \in DOMAIN saw[r] : saw[r][f].ver <= disk[f].ver
    /\ \A o \in held[r] : /\ o.born <= disk[o.file].ver
                          /\ o.file \in DOMAIN saw[r] => o.born <= saw[r][o.file].ver

VerdictsNotOlder ==
  \A n \in DOMAIN mods :
    mods[n].judged # 0 => /\ mods[n].obj.born <= mods[n].judged
                          /\ mods[n].judged <= disk[mods[n].obj.file].ver

VersionInv == ScansNotNewer /\ ModulesOfLastScan /\ RunsReadLater /\ VerdictsNotOlder

(* The objects and what judged them, which is all VersionInv sees of a graph. *)
SameModules(g, h) ==
  /\ DOMAIN g = DOMAIN h
  /\ \A n \in DOMAIN g : g[n].obj = h[n].obj /\ g[n].judged = h[n].judged

LEMMA ObjectsTyped ==
  ASSUME TypeOK
  PROVE  /\ \A n \in DOMAIN mods : /\ mods[n].obj \in Object /\ mods[n].obj.file \in Files
                                   /\ mods[n].obj.born \in Nat /\ mods[n].judged \in Nat
         /\ \A r \in Runs : \A o \in held[r] : o.file \in Files /\ o.born \in Nat
         /\ \A r \in Runs : \A f \in DOMAIN saw[r] : f \in Files /\ saw[r][f].ver \in Nat
         /\ \A f \in Files : disk[f].ver \in Nat /\ scanned[f].ver \in Nat
         /\ \A b \in buffer : b.file \in Files /\ b.text.ver \in Nat
BY DEF TypeOK, IsGraph, Module, Object, Content, Readable

LEMMA HeldVersions ==
  ASSUME TypeOK, RunsReadLater, NEW r \in Runs, NEW o \in held[r]
  PROVE  /\ o.file \in Files /\ o.born \in Nat
         /\ disk[o.file].ver \in Nat
         /\ o.born <= disk[o.file].ver
         /\ o.file \in DOMAIN saw[r] => o.born <= saw[r][o.file].ver
<1>1. o \in Object
  BY DEF TypeOK
<1>2. o.file \in Files /\ o.born \in Nat
  BY <1>1 DEF Object
<1>3. disk[o.file].ver \in Nat
  BY <1>2 DEF TypeOK, Content
<1>4. /\ o.born <= disk[o.file].ver
      /\ o.file \in DOMAIN saw[r] => o.born <= saw[r][o.file].ver
  BY DEF RunsReadLater
<1> QED BY <1>2, <1>3, <1>4

(* A scan of f with the present or an earlier content.                      *)
LEMMA ScanKeepsVersions ==
  ASSUME TypeOK, VersionInv, NEW f \in Files, NEW content \in Readable,
         content.ver <= disk[f].ver, NEW others, IsGraph(others),
         \A n \in DOMAIN others :
           n \in DOMAIN mods /\ others[n] = mods[n] /\ mods[n].obj.file # f,
         ScanText(f, content, others), UNCHANGED disk
  PROVE  /\ \A g \in Files : scanned'[g].ver <= disk'[g].ver
         /\ \A n \in DOMAIN mods' : mods'[n].obj.born = scanned'[mods'[n].obj.file].ver
         /\ VerdictsNotOlder'
         /\ \A n \in DOMAIN mods' :
              mods'[n].obj.file = f \/ (n \in DOMAIN mods /\ mods'[n] = mods[n])
<1>1. /\ scanned' = [scanned EXCEPT ![f] = content]
      /\ \A n \in DOMAIN mods' :
           \/ n \in DOMAIN others /\ mods'[n] = others[n]
           \/ /\ mods'[n].obj.file = f /\ mods'[n].obj.born = content.ver
              /\ mods'[n].judged = 0
  BY ScanTextType
<1>2. scanned'[f] = content /\ \A g \in Files \ {f} : scanned'[g] = scanned[g]
  BY <1>1 DEF TypeOK
<1>3. \A g \in Files : scanned'[g].ver <= disk'[g].ver
  BY <1>2 DEF VersionInv, ScansNotNewer
<1>4. ASSUME NEW n \in DOMAIN mods'
      PROVE  /\ mods'[n].obj.born = scanned'[mods'[n].obj.file].ver
             /\ mods'[n].judged # 0 => /\ mods'[n].obj.born <= mods'[n].judged
                                       /\ mods'[n].judged <= disk'[mods'[n].obj.file].ver
             /\ mods'[n].obj.file = f \/ (n \in DOMAIN mods /\ mods'[n] = mods[n])
  <2>1. CASE n \in DOMAIN others /\ mods'[n] = others[n]
    BY <2>1, <1>2, ObjectsTyped DEF VersionInv, ModulesOfLastScan, VerdictsNotOlder
  <2>2. CASE /\ mods'[n].obj.file = f /\ mods'[n].obj.born = content.ver
             /\ mods'[n].judged = 0
    BY <2>2, <1>2
  <2> QED BY <1>1, <1>4, <2>1, <2>2
<1> QED BY <1>3, <1>4 DEF VerdictsNotOlder

(* Changing states only.                                                    *)
LEMMA StatesOnly ==
  ASSUME VersionInv, SameModules(mods', mods), UNCHANGED <<disk, scanned, buffer>>,
         pc' = "scan" => pc = "scan" /\ toScan' = toScan, RunsReadLater'
  PROVE  VersionInv'
BY DEF VersionInv, ScansNotNewer, ModulesOfLastScan, VerdictsNotOlder, SameModules

LEMMA VersionStep ==
  ASSUME TypeOK, Control, VersionInv, Next
  PROVE  VersionInv'
<1> USE ObjectsTyped
<1>1. ASSUME NEW f \in Files, NEW src \in SourcesOf[f], Edit(f, src) PROVE VersionInv'
  <2>1. \A g \in Files : disk[g].ver <= disk'[g].ver /\ disk'[g].ver \in Nat
    BY <1>1 DEF Edit, TypeOK, Content
  <2>2. /\ UNCHANGED <<mods, scanned, pc, toScan, buffer, held, saw>>
    BY <1>1 DEF Edit, graph, callback, runs
  <2>3. ScansNotNewer'
    BY <2>1, <2>2 DEF VersionInv, ScansNotNewer
  <2>4. ModulesOfLastScan'
    BY <2>2 DEF VersionInv, ModulesOfLastScan
  <2>5. RunsReadLater'
    <3>1. ASSUME NEW r \in Runs, NEW g \in DOMAIN saw[r]
          PROVE  saw[r][g].ver <= disk'[g].ver
      BY <2>1, <3>1 DEF VersionInv, RunsReadLater
    <3>2. ASSUME NEW r \in Runs, NEW o \in held[r]
          PROVE  /\ o.born <= disk'[o.file].ver
                 /\ o.file \in DOMAIN saw[r] => o.born <= saw[r][o.file].ver
      <4>1. /\ o.file \in Files /\ o.born \in Nat
            /\ disk[o.file].ver \in Nat
            /\ o.born <= disk[o.file].ver
            /\ o.file \in DOMAIN saw[r] => o.born <= saw[r][o.file].ver
        BY <3>2, HeldVersions DEF VersionInv
      <4>2. disk'[o.file].ver \in Nat /\ disk[o.file].ver <= disk'[o.file].ver
        BY <4>1, <2>1
      <4> QED BY <4>1, <4>2
    <3> QED BY <2>2, <3>1, <3>2 DEF RunsReadLater
  <2>6. VerdictsNotOlder'
    BY <2>1, <2>2 DEF VersionInv, VerdictsNotOlder
  <2> QED BY <2>3, <2>4, <2>5, <2>6 DEF VersionInv
<1>2. CASE \/ Interrupt \/ ScanDone \/ StartWatcher \/ Exit \/ Terminated
           \/ \E f \in Files : Deliver(f)
           \/ \E ready \in SUBSET Files : Flush(ready)
           \/ \E r \in FullRuns : Trigger(r)
  <2>1. /\ UNCHANGED <<disk, mods, scanned, buffer, held, saw>>
        /\ pc' = "scan" => pc = "scan" /\ toScan' = toScan
    BY <1>2 DEF Interrupt, ScanDone, StartWatcher, Exit, Terminated, Deliver, Flush, Trigger,
                files, watcher, graph, callback, runs, vars
  <2>2. RunsReadLater'
    BY <2>1 DEF VersionInv, RunsReadLater
  <2> QED BY <2>1, <2>2, StatesOnly DEF SameModules
<1>3. ASSUME NEW f \in Files, ScanNext(f) PROVE VersionInv'
  <2>1. UNCHANGED <<disk, buffer, held, saw, pc>> /\ toScan' = toScan \ {f}
        /\ pc = "scan" /\ f \in toScan
    BY <1>3 DEF ScanNext, runs
  <2>2. RunsReadLater' /\ buffer = {}
    BY <2>1 DEF VersionInv, RunsReadLater, Control
  <2>3. CASE disk[f].src = Gone
    <3>1. mods' = mods /\ scanned' = [scanned EXCEPT ![f] = disk[f]]
      BY <1>3, <2>3 DEF ScanNext
    <3>2. /\ scanned'[f] = disk[f]
          /\ \A g \in Files \ {f} : scanned'[g] = scanned[g]
      BY <3>1 DEF TypeOK
    <3>3. \A n \in DOMAIN mods : mods[n].obj.file # f
      BY <2>1 DEF VersionInv, ModulesOfLastScan
    <3>4. ScansNotNewer'
      BY <2>1, <2>2, <3>2 DEF VersionInv, ScansNotNewer
    <3>5. ModulesOfLastScan'
      BY <2>1, <3>1, <3>2, <3>3 DEF VersionInv, ModulesOfLastScan
    <3>6. VerdictsNotOlder'
      BY <2>1, <3>1 DEF VersionInv, VerdictsNotOlder
    <3> QED BY <2>2, <3>4, <3>5, <3>6 DEF VersionInv
  <2>4. CASE disk[f].src # Gone
    <3>1. disk[f] \in Readable
      BY <2>4 DEF TypeOK, Content, Readable
    <3>2. ScanText(f, disk[f], mods) /\ IsGraph(mods)
      BY <1>3, <2>4 DEF ScanNext, TypeOK
    <3>3. \A n \in DOMAIN mods : mods[n].obj.file # f
      BY <2>1 DEF VersionInv, ModulesOfLastScan
    <3>4. /\ \A g \in Files : scanned'[g].ver <= disk'[g].ver
          /\ \A n \in DOMAIN mods' : mods'[n].obj.born = scanned'[mods'[n].obj.file].ver
          /\ VerdictsNotOlder'
          /\ \A n \in DOMAIN mods' :
               mods'[n].obj.file = f \/ (n \in DOMAIN mods /\ mods'[n] = mods[n])
      BY <2>1, <3>1, <3>2, <3>3, ScanKeepsVersions
    <3>5. ScansNotNewer'
      BY <2>1, <2>2, <3>4 DEF ScansNotNewer
    <3>6. ModulesOfLastScan'
      BY <2>1, <3>4 DEF VersionInv, ModulesOfLastScan
    <3> QED BY <2>2, <3>4, <3>5, <3>6 DEF VersionInv
  <2> QED BY <2>3, <2>4
<1>4. ASSUME NEW f \in Files, ReadChanged(f) PROVE VersionInv'
  <2>1. /\ UNCHANGED <<disk, mods, scanned, held, saw, pc>> /\ pc = "rescan"
        /\ buffer' = buffer \/ buffer' = {[file |-> f, text |-> disk[f]]}
    BY <1>4 DEF ReadChanged, graph, runs
  <2>2. RunsReadLater' /\ VerdictsNotOlder' /\ ModulesOfLastScan'
    BY <2>1 DEF VersionInv, RunsReadLater, VerdictsNotOlder, ModulesOfLastScan
  <2>3. ScansNotNewer'
    BY <2>1 DEF VersionInv, ScansNotNewer
  <2> QED BY <2>2, <2>3 DEF VersionInv
<1>5. CASE ScanChanged
  <2>1. PICK b \in buffer : ScanText(b.file, b.text, Without(mods, b.file))
    BY <1>5 DEF ScanChanged
  <2>2. b.file \in Files /\ b.text \in Readable
    BY DEF TypeOK
  <2>3. IsGraph(Without(mods, b.file))
    BY WithoutType DEF TypeOK
  <2>4. \A n \in DOMAIN Without(mods, b.file) :
          n \in DOMAIN mods /\ Without(mods, b.file)[n] = mods[n] /\ mods[n].obj.file # b.file
    BY DEF Without
  <2>5. UNCHANGED <<disk, held, saw, pc>> /\ buffer' = {} /\ pc = "rescan"
    BY <1>5 DEF ScanChanged, files, runs
  <2>6. b.text.ver <= disk[b.file].ver
    BY DEF VersionInv, ScansNotNewer
  <2>7. /\ \A g \in Files : scanned'[g].ver <= disk'[g].ver
        /\ \A n \in DOMAIN mods' : mods'[n].obj.born = scanned'[mods'[n].obj.file].ver
        /\ VerdictsNotOlder'
    BY <2>1, <2>2, <2>3, <2>4, <2>5, <2>6, ScanKeepsVersions
  <2>8. RunsReadLater'
    BY <2>5 DEF VersionInv, RunsReadLater
  <2> QED BY <2>5, <2>7, <2>8 DEF VersionInv, ScansNotNewer, ModulesOfLastScan
<1>6. CASE InvalidateBatch
  <2>1. /\ UNCHANGED <<disk, mods, scanned, buffer, toScan, saw>> /\ pc = "rescan"
        /\ pc' \in {"idle", "stale"}
        /\ held' = [held EXCEPT ![Main] = {mods[n].obj : n \in Invalidate(mods, batch)}]
    BY <1>6 DEF InvalidateBatch, files, graph
  <2>2. Main \in Runs /\ DOMAIN saw[Main] = {}
    BY <2>1 DEF Control, Runs
  <2>3. \A o \in held'[Main] : \E n \in DOMAIN mods : o = mods[n].obj
    BY <2>1, <2>2 DEF TypeOK, Invalidate
  <2>4. \A o \in held'[Main] : o.born <= disk[o.file].ver
    BY <2>3 DEF VersionInv, ModulesOfLastScan, ScansNotNewer
  <2>5. \A r \in Runs \ {Main} : held'[r] = held[r]
    BY <2>1 DEF TypeOK
  <2>6. RunsReadLater'
    BY <2>1, <2>2, <2>4, <2>5 DEF VersionInv, RunsReadLater
  <2> QED BY <2>1, <2>6, StatesOnly DEF SameModules
<1>7. CASE MarkStale
  <2>1. /\ UNCHANGED <<disk, scanned, buffer, held, saw>> /\ pc' = "tests"
        /\ mods' = Mark(mods, held[Main], "stale")
    BY <1>7 DEF MarkStale, files, callback
  <2>2. IsGraph(mods')
    BY <2>1, MarkType DEF TypeOK, States
  <2>3. SameModules(mods', mods)
    BY <2>1, <2>2, MarkType DEF TypeOK, States, SameModules
  <2>4. RunsReadLater'
    BY <2>1 DEF VersionInv, RunsReadLater
  <2> QED BY <2>1, <2>3, <2>4, StatesOnly
<1>8. ASSUME NEW r \in Runs, RunStep(r) PROVE VersionInv'
  <2>1. UNCHANGED <<disk, scanned, buffer, toScan>> /\ pc # "scan" /\ pc' # "scan"
    BY <1>8 DEF RunStep, Collect, MarkRunning, TempDirFails, ReadSource, Apply, Running,
                Return, AfterRun, files, graph, callback
  <2>2. ASSUME Return(r) PROVE RunsReadLater'
    <3>1. /\ held'[r] = {} /\ DOMAIN saw'[r] = {}
          /\ \A q \in Runs \ {r} : held'[q] = held[q] /\ saw'[q] = saw[q]
      BY <2>2 DEF Return, TypeOK
    <3> QED BY <2>1, <3>1 DEF VersionInv, RunsReadLater
  <2>3. CASE Collect(r)
    <3>1. mods' = mods
      BY <2>3 DEF Collect, graph
    <3>2. CASE mods = [n \in {} |-> {}]
      <4>1. RunsReadLater'
        BY <2>2, <2>3, <3>2 DEF Collect
      <4> QED BY <2>1, <3>1, <4>1, StatesOnly DEF SameModules
    <3>3. CASE mods # [n \in {} |-> {}]
      <4>1. /\ held' = [held EXCEPT ![r] = {mods[n].obj : n \in DOMAIN mods}]
            /\ saw' = saw /\ DOMAIN saw[r] = {}
        BY <2>3, <3>3 DEF Collect, Control
      <4>2. \A q \in Runs \ {r} : held'[q] = held[q]
        BY <4>1 DEF TypeOK
      <4>3. \A o \in held'[r] : \E n \in DOMAIN mods : o = mods[n].obj
        BY <4>1 DEF TypeOK
      <4>4. \A o \in held'[r] : o.born <= disk[o.file].ver
        BY <4>3 DEF VersionInv, ModulesOfLastScan, ScansNotNewer
      <4>5. RunsReadLater'
        BY <2>1, <4>1, <4>2, <4>4 DEF VersionInv, RunsReadLater
      <4> QED BY <2>1, <3>1, <4>5, StatesOnly DEF SameModules
    <3> QED BY <3>2, <3>3
  <2>4. CASE MarkRunning(r)
    <3>1. mods' = Mark(mods, held[r], "running") /\ UNCHANGED <<held, saw>>
      BY <2>4 DEF MarkRunning
    <3>2. IsGraph(mods')
      BY <3>1, MarkType DEF TypeOK, States
    <3>3. SameModules(mods', mods)
      BY <3>1, <3>2, MarkType DEF TypeOK, States, SameModules
    <3>4. RunsReadLater'
      BY <2>1, <3>1 DEF VersionInv, RunsReadLater
    <3> QED BY <2>1, <3>3, <3>4, StatesOnly
  <2>5. CASE TempDirFails(r)
    <3>1. mods' = Abandon(mods, held[r]) /\ RunsReadLater'
      BY <2>2, <2>5 DEF TempDirFails
    <3>2. IsGraph(mods')
      BY <3>1, AbandonType DEF TypeOK
    <3>3. SameModules(mods', mods)
      BY <3>1, <3>2, AbandonType DEF TypeOK, SameModules
    <3> QED BY <2>1, <3>1, <3>3, StatesOnly
  <2>6. ASSUME NEW f \in Files, ReadSource(r, f) PROVE VersionInv'
    <3>1. mods' = mods /\ held' = held
      BY <2>6 DEF ReadSource, graph
    <3>2. /\ \A q \in Runs \ {r} : saw'[q] = saw[q]
          /\ DOMAIN saw'[r] \subseteq DOMAIN saw[r] \cup {f}
          /\ \A g \in DOMAIN saw'[r] :
               saw'[r][g] = disk[g] \/ (g \in DOMAIN saw[r] /\ saw'[r][g] = saw[r][g])
      BY <2>6 DEF ReadSource, TypeOK
    <3>3. RunsReadLater'
      <4>1. ASSUME NEW q \in Runs, NEW g \in DOMAIN saw'[q]
            PROVE  saw'[q][g].ver <= disk[g].ver
        BY <3>2, <4>1 DEF VersionInv, RunsReadLater
      <4>2. ASSUME NEW q \in Runs, NEW o \in held[q], o.file \in DOMAIN saw'[q]
            PROVE  o.born <= saw'[q][o.file].ver
        <5>1. /\ o.born <= disk[o.file].ver
              /\ o.file \in DOMAIN saw[q] => o.born <= saw[q][o.file].ver
          BY <4>2, HeldVersions DEF VersionInv
        <5>2. CASE q = r
          BY <5>1, <5>2, <4>2, <3>2
        <5>3. CASE q # r
          BY <5>1, <5>3, <4>2, <3>2
        <5> QED BY <5>2, <5>3
      <4>3. \A q \in Runs : \A o \in held[q] : o.born <= disk[o.file].ver
        BY HeldVersions DEF VersionInv
      <4> QED BY <2>1, <3>1, <4>1, <4>2, <4>3 DEF RunsReadLater
    <3> QED BY <2>1, <3>1, <3>3, StatesOnly DEF SameModules
  <2>7. CASE Apply(r)
    <3>1. PICK ran \in SUBSET DOMAIN saw[r] :
            mods' = Cascade(Verdict(mods, held[r], saw[r], ran))
      BY <2>7 DEF Apply
    <3>2. PICK v : v = Verdict(mods, held[r], saw[r], ran)
      OBVIOUS
    <3>3. \A f \in DOMAIN saw[r] : saw[r][f] \in Content
      BY DEF TypeOK
    <3>4. IsGraph(v)
      BY <3>2, <3>3, VerdictType DEF TypeOK
    <3>5. IsGraph(mods')
      BY <3>1, <3>2, <3>4, CascadeType
    <3>6. /\ DOMAIN v = DOMAIN mods
          /\ \A n \in DOMAIN mods :
               /\ v[n].obj = mods[n].obj
               /\ v[n].judged = IF mods[n].obj \notin held[r] THEN mods[n].judged
                                ELSE IF mods[n].obj.file \in ran
                                     THEN saw[r][mods[n].obj.file].ver ELSE 0
      BY <3>2, <3>3, <3>4, VerdictType DEF TypeOK
    <3>7. SameModules(mods', v)
      BY <3>1, <3>2, <3>4, <3>5, CascadeType DEF SameModules
    <3>8. ASSUME NEW n \in DOMAIN mods, v[n].judged # 0
          PROVE  /\ mods[n].obj.born <= v[n].judged
                 /\ v[n].judged <= disk[mods[n].obj.file].ver
      <4>1. CASE mods[n].obj \notin held[r]
        BY <3>6, <3>8, <4>1 DEF VersionInv, VerdictsNotOlder
      <4>2. CASE mods[n].obj \in held[r]
        <5>1. mods[n].obj.file \in ran /\ v[n].judged = saw[r][mods[n].obj.file].ver
          BY <3>6, <3>8, <4>2
        <5>2. /\ mods[n].obj.file \in DOMAIN saw[r]
              /\ saw[r][mods[n].obj.file].ver <= disk[mods[n].obj.file].ver
          BY <5>1 DEF VersionInv, RunsReadLater
        <5>3. mods[n].obj.born <= saw[r][mods[n].obj.file].ver
          BY <5>2, <4>2, HeldVersions DEF VersionInv
        <5> QED BY <5>1, <5>2, <5>3
      <4> QED BY <4>1, <4>2
    <3>9. /\ DOMAIN mods' = DOMAIN mods
          /\ \A n \in DOMAIN mods : mods'[n].obj = mods[n].obj /\ mods'[n].judged = v[n].judged
      BY <3>6, <3>7 DEF SameModules
    <3>10. VerdictsNotOlder'
      BY <2>1, <3>8, <3>9 DEF VerdictsNotOlder
    <3>11. ScansNotNewer' /\ ModulesOfLastScan'
      BY <2>1, <3>9 DEF VersionInv, ScansNotNewer, ModulesOfLastScan
    <3>12. RunsReadLater'
      BY <2>2, <2>7 DEF Apply
    <3> QED BY <3>10, <3>11, <3>12 DEF VersionInv
  <2> QED BY <1>8, <2>3, <2>4, <2>5, <2>6, <2>7 DEF RunStep
<1> QED BY <1>1, <1>2, <1>3, <1>4, <1>5, <1>6, <1>7, <1>8 DEF Next, MainStep

(* No edit that the watcher could see is lost: it is in the graph or it is  *)
(* in the pipeline.                                                         *)
THEOREM NoEditIsLost == Spec => []EditInPipeline
<1>1. Init => PipelineInv
  BY PipelineInit
<1>2. TypeOK /\ PipelineInv /\ [Next]_vars => PipelineInv'
  <2>1. ASSUME PipelineInv, UNCHANGED vars PROVE PipelineInv'
    BY <2>1 DEF PipelineInv, Control, Underway, EditInPipeline, InPipeline,
                vars, files, watcher, graph, callback, runs
  <2> QED BY <2>1, PipelineStep
<1>3. PipelineInv => EditInPipeline
  BY DEF PipelineInv
<1> QED BY <1>1, <1>2, <1>3, TypeCorrect, PTL DEF Spec

(* No verdict is out of date: once nothing of a file is in the pipeline,    *)
(* the last verdict on each of its modules that executed the file's tests   *)
(* executed those of its present version, however late a run answers.       *)
THEOREM VerdictsAreCurrent == Spec => []VerdictCurrent
<1>1. Init => PipelineInv /\ VersionInv
  <2>1. ASSUME Init PROVE VersionInv
    <3>1. DOMAIN mods = {} /\ buffer = {} /\ \A r \in Runs : held[r] = {} /\ DOMAIN saw[r] = {}
      BY <2>1 DEF Init
    <3>2. \A f \in Files : scanned[f].ver = 0 /\ disk[f].ver = 1
      BY <2>1 DEF Init, Unread
    <3> QED BY <3>1, <3>2 DEF VersionInv, ScansNotNewer, ModulesOfLastScan, RunsReadLater,
                              VerdictsNotOlder
  <2> QED BY <2>1, PipelineInit
<1>2. TypeOK /\ PipelineInv /\ VersionInv /\ [Next]_vars => (PipelineInv /\ VersionInv)'
  <2>1. ASSUME PipelineInv, VersionInv, UNCHANGED vars PROVE (PipelineInv /\ VersionInv)'
    <3>1. PipelineInv'
      BY <2>1 DEF PipelineInv, Control, Underway, EditInPipeline, InPipeline,
                  vars, files, watcher, graph, callback, runs
    <3>2. VersionInv'
      BY <2>1 DEF VersionInv, ScansNotNewer, ModulesOfLastScan, RunsReadLater, VerdictsNotOlder,
                  vars, files, watcher, graph, callback, runs
    <3> QED BY <3>1, <3>2
  <2>2. ASSUME TypeOK, PipelineInv, VersionInv, Next PROVE (PipelineInv /\ VersionInv)'
    BY <2>2, PipelineStep, VersionStep DEF PipelineInv
  <2> QED BY <2>1, <2>2
<1>3. TypeOK /\ PipelineInv /\ VersionInv => VerdictCurrent
  <2> SUFFICES ASSUME TypeOK, PipelineInv, VersionInv, NEW n \in DOMAIN mods,
                      mods[n].obj.file \notin missed, ~InPipeline(mods[n].obj.file),
                      mods[n].judged # 0
               PROVE  mods[n].judged = disk[mods[n].obj.file].ver
    BY DEF VerdictCurrent
  <2>1. scanned[mods[n].obj.file] = disk[mods[n].obj.file]
    BY ObjectsTyped DEF PipelineInv, EditInPipeline
  <2> QED BY <2>1, ObjectsTyped DEF VersionInv, ModulesOfLastScan, VerdictsNotOlder
<1> QED BY <1>1, <1>2, <1>3, TypeCorrect, PTL DEF Spec
=============================================================================
