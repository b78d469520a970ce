----------------------- MODULE DaemonInvariants_proofs -----------------------
(***************************************************************************)
(* Further theorems about the daemon, for any files, texts, edits and full *)
(* runs.  First, who has a module in hand: a module to be judged is in the *)
(* hands of Main, one marked running is held by a run whose tests are      *)
(* under way.  Then, what the graph holds: what the last scans saw.  Last,  *)
(* that the daemon implements Mirror.                                      *)
(***************************************************************************)
EXTENDS Daemon_proofs

(* What the callback still has to scan is part of its batch.                *)
BatchScanned ==
  pc = "rescan" => toScan \subseteq batch /\ \A b \in buffer : b.file \in batch

ScheduleInv == PipelineInv /\ BatchScanned /\ PendingIsScheduled /\ RunningIsOwned

-----------------------------------------------------------------------------
LEMMA BatchStep ==
  ASSUME TypeOK, Control, BatchScanned, Next
  PROVE  BatchScanned'
<1> USE DEF BatchScanned
<1>1. ASSUME NEW f \in Files, ScanNext(f) PROVE BatchScanned'
  BY <1>1 DEF ScanNext
<1>2. ASSUME NEW f \in Files, ReadChanged(f) PROVE BatchScanned'
  BY <1>2 DEF ReadChanged
<1>3. CASE ScanDone \/ StartWatcher \/ ScanChanged \/ InvalidateBatch \/ MarkStale
  BY <1>3 DEF ScanDone, StartWatcher, ScanChanged, InvalidateBatch, MarkStale, callback
<1>4. ASSUME NEW ready \in SUBSET Files, Flush(ready) PROVE BatchScanned'
  BY <1>4 DEF Flush, Control
<1>5. ASSUME NEW r \in Runs, RunStep(r) PROVE BatchScanned'
  BY <1>5 DEF RunStep, Collect, MarkRunning, TempDirFails, ReadSource, Apply, Running,
              Return, AfterRun, callback
<1>6. CASE \/ Interrupt \/ Exit \/ Terminated
           \/ \E f \in Files : Deliver(f)
           \/ \E r \in FullRuns : Trigger(r)
           \/ \E f \in Files : \E src \in SourcesOf[f] : Edit(f, src)
  BY <1>6 DEF Interrupt, Exit, Terminated, Deliver, Trigger, Edit, callback, vars
<1> QED BY <1>1, <1>2, <1>3, <1>4, <1>5, <1>6 DEF Next, MainStep

-----------------------------------------------------------------------------
(* What marking, judging and giving up do to the modules of a run and what  *)
(* they leave alone.                                                        *)
LEMMA Untouched ==
  ASSUME NEW g, NEW objs, NEW n \in DOMAIN g, NEW s
  PROVE  /\ n \in DOMAIN Mark(g, objs, s) /\ n \in DOMAIN Abandon(g, objs)
         /\ g[n].obj \notin objs => /\ Mark(g, objs, s)[n] = g[n]
                                    /\ Abandon(g, objs)[n] = g[n]
BY DEF Mark, Abandon, Among

LEMMA GivenUp ==
  ASSUME NEW g, IsGraph(g), NEW objs, NEW n \in DOMAIN g, g[n].obj \in objs
  PROVE  Abandon(g, objs)[n].abandoned
<1>1. Abandon(g, objs)[n] = [g[n] EXCEPT !.abandoned = TRUE]
  BY DEF Abandon, Among
<1>2. g[n] \in Module
  BY DEF IsGraph
<1> QED BY <1>1, <1>2 DEF Module

(* A verdict and its cascade leave no module of the run running, unknown or *)
(* stale, and make none of the others so.                                   *)
LEMMA Judged ==
  ASSUME TypeOK, NEW r \in Runs, Apply(r)
  PROVE  /\ DOMAIN mods' = DOMAIN mods
         /\ \A n \in DOMAIN mods :
              /\ mods'[n].obj = mods[n].obj
              /\ mods'[n].state \in {"unknown", "stale", "running"} =>
                   mods'[n] = mods[n] /\ mods[n].obj \notin held[r]
<1>1. PICK ran \in SUBSET DOMAIN saw[r] :
        mods' = Cascade(Verdict(mods, held[r], saw[r], ran))
  BY DEF Apply
<1>2. PICK v : v = Verdict(mods, held[r], saw[r], ran)
  OBVIOUS
<1>3. \A f \in DOMAIN saw[r] : saw[r][f] \in Content
  BY DEF TypeOK
<1>4. /\ IsGraph(v) /\ DOMAIN v = DOMAIN mods
      /\ \A n \in DOMAIN mods :
           /\ v[n].obj = mods[n].obj
           /\ mods[n].obj \in held[r] => v[n].state \in {"healthy", "failing"}
  BY <1>2, <1>3, VerdictType DEF TypeOK
<1>5. mods' = Cascade(v)
  BY <1>1, <1>2
<1>6. DOMAIN mods' = DOMAIN mods /\ \A n \in DOMAIN mods : mods'[n].obj = mods[n].obj
  BY <1>4, <1>5, CascadeType
<1>7. ASSUME NEW n \in DOMAIN mods, mods'[n].state \in {"unknown", "stale", "running"}
      PROVE  mods'[n] = mods[n] /\ mods[n].obj \notin held[r]
  <2>1. mods'[n].state = v[n].state
    BY <1>4, <1>5, <1>7, CascadeType
  <2>2. mods[n].obj \notin held[r]
    BY <1>4, <1>7, <2>1
  <2>3. v[n] = mods[n]
    BY <1>2, <2>2 DEF Verdict, Among
  <2>4. mods'[n] = v[n]
    BY <1>4, <1>5, <1>7, <2>1 DEF Cascade
  <2> QED BY <2>2, <2>3, <2>4
<1> QED BY <1>6, <1>7

(* What a scan adds is unknown and of the scanned file; the rest is as it   *)
(* was.                                                                     *)
LEMMA Scanned ==
  ASSUME TypeOK, NEW f \in Files, ScanNext(f), NEW n \in DOMAIN mods'
  PROVE  (n \in DOMAIN mods /\ mods'[n] = mods[n]) \/ mods'[n].state = "unknown"
<1>1. CASE disk[f].src = Gone
  BY <1>1 DEF ScanNext
<1>2. CASE disk[f].src # Gone
  <2>1. disk[f] \in Readable
    BY <1>2 DEF TypeOK, Content, Readable
  <2>2. ScanText(f, disk[f], mods) /\ IsGraph(mods)
    BY <1>2 DEF ScanNext, TypeOK
  <2> QED BY <2>1, <2>2, ScanTextType
<1> QED BY <1>1, <1>2

LEMMA AddedByChange ==
  ASSUME TypeOK, ScanChanged, NEW n \in DOMAIN mods'
  PROVE  \/ n \in DOMAIN mods /\ mods'[n] = mods[n]
         \/ mods'[n].state = "unknown" /\ \E b \in buffer : mods'[n].obj.file = b.file
<1>1. PICK b \in buffer : ScanText(b.file, b.text, Without(mods, b.file))
  BY DEF ScanChanged
<1>2. b.file \in Files /\ b.text \in Readable
  BY DEF TypeOK
<1>3. /\ IsGraph(Without(mods, b.file))
      /\ DOMAIN Without(mods, b.file) \subseteq DOMAIN mods
      /\ \A m \in DOMAIN Without(mods, b.file) : Without(mods, b.file)[m] = mods[m]
  BY WithoutType DEF TypeOK
<1>4. PICK others : others = Without(mods, b.file)
  OBVIOUS
<1>5. \/ n \in DOMAIN others /\ mods'[n] = others[n]
      \/ mods'[n].state = "unknown" /\ mods'[n].obj.file = b.file
  BY <1>1, <1>2, <1>3, <1>4, ScanTextType
<1> QED BY <1>3, <1>4, <1>5

-----------------------------------------------------------------------------
(* A module to be judged: what Main goes on to do with it.                  *)
Scheduled(n) ==
  /\ mods[n].state = "unknown" =>
       \/ pc = "scan"
       \/ pc = "tests" /\ phase[Main] = "collect"
       \/ pc = "rescan" /\ mods[n].obj.file \in batch
       \/ mods[n].obj \in held[Main] /\ (pc = "stale" \/ phase[Main] = "mark")
  /\ mods[n].state = "stale" => mods[n].obj \in held[Main] /\ phase[Main] = "mark"

LEMMA ScheduledEach == PendingIsScheduled <=> \A n \in DOMAIN mods : Scheduled(n)
BY DEF PendingIsScheduled, Scheduled

LEMMA ScheduledStep ==
  ASSUME TypeOK, Control, BatchScanned, PendingIsScheduled, Next
  PROVE  PendingIsScheduled'
<1> SUFFICES ASSUME NEW n \in DOMAIN mods' PROVE Scheduled(n)'
  BY DEF PendingIsScheduled, Scheduled
<1>0. /\ n \in DOMAIN mods => Scheduled(n)
      /\ Main \in Runs /\ Main \notin FullRuns /\ phase[Main] \in {"idle", "collect", "mark", "read"}
      /\ pc # "tests" => phase[Main] = "idle"
      /\ DOMAIN phase = Runs /\ DOMAIN held = Runs
  BY ScheduledEach, DaemonAssumption DEF Runs, TypeOK, Control
<1> USE DEF Scheduled
<1>1. ASSUME NEW f \in Files, ScanNext(f) PROVE Scheduled(n)'
  BY <1>0, <1>1, Scanned DEF ScanNext, runs
<1>2. CASE ScanChanged
  BY <1>0, <1>2, AddedByChange DEF ScanChanged, BatchScanned, TypeOK, runs
<1>3. CASE ScanDone
  BY <1>0, <1>3 DEF ScanDone, graph
<1>4. CASE InvalidateBatch
  <2>1. /\ mods' = mods /\ phase' = phase /\ pc = "rescan"
        /\ held'[Main] = {mods[m].obj : m \in Invalidate(mods, batch)}
        /\ held'[Main] # {} => pc' = "stale"
    BY <1>0, <1>4 DEF InvalidateBatch, graph
  <2>2. mods[n].obj.file \in batch => mods[n].obj \in held'[Main]
    BY <2>1 DEF Invalidate
  <2> QED BY <1>0, <2>1, <2>2
<1>5. CASE MarkStale
  <2>1. mods' = Mark(mods, held[Main], "stale") /\ phase'[Main] = "mark" /\ held' = held
        /\ pc = "stale"
    BY <1>0, <1>5 DEF MarkStale
  <2>2. n \in DOMAIN mods /\ mods'[n].obj = mods[n].obj
        /\ (mods[n].obj \notin held[Main] => mods'[n] = mods[n])
        /\ (mods[n].obj \in held[Main] => mods'[n].state = "stale")
    BY <2>1, MarkType, Untouched DEF TypeOK, States
  <2> QED BY <1>0, <2>1, <2>2
<1>6. ASSUME NEW r \in Runs, Collect(r) PROVE Scheduled(n)'
  <2>1. mods' = mods /\ batch' = batch
    BY <1>6 DEF Collect, graph, callback
  <2>2. CASE mods = [m \in {} |-> {}]
    BY <2>1, <2>2
  <2>3. CASE mods # [m \in {} |-> {}]
    BY <1>0, <1>6, <2>1, <2>3 DEF Collect, Running
  <2> QED BY <2>2, <2>3
<1>7. ASSUME NEW r \in Runs, MarkRunning(r) PROVE Scheduled(n)'
  <2>1. /\ mods' = Mark(mods, held[r], "running") /\ held' = held /\ pc' = pc /\ batch' = batch
        /\ phase' = [phase EXCEPT ![r] = "read"] /\ (r = Main => pc = "tests")
        /\ phase[r] = "mark"
    BY <1>7 DEF MarkRunning, callback, Running
  <2>2. n \in DOMAIN mods /\ mods'[n].obj = mods[n].obj
        /\ (mods[n].obj \notin held[r] => mods'[n] = mods[n])
        /\ (mods[n].obj \in held[r] => mods'[n].state = "running")
    BY <2>1, MarkType, Untouched DEF TypeOK, States
  <2> QED BY <1>0, <2>1, <2>2
<1>8. ASSUME NEW r \in Runs, TempDirFails(r) \/ Apply(r) PROVE Scheduled(n)'
  <2>1. /\ phase[r] = "read" /\ Return(r) /\ Running(r) /\ batch' = batch
        /\ r # Main => pc' = pc /\ phase'[Main] = phase[Main] /\ held'[Main] = held[Main]
    BY <1>0, <1>8 DEF TempDirFails, Apply, Return, AfterRun, callback
  <2>2. n \in DOMAIN mods /\ mods'[n].obj = mods[n].obj
        /\ (mods'[n].state \in {"unknown", "stale"} => mods[n].state = mods'[n].state)
    <3>1. CASE TempDirFails(r)
      BY <3>1, AbandonType DEF TempDirFails, TypeOK
    <3>2. CASE Apply(r)
      BY <3>2, Judged
    <3> QED BY <1>8, <3>1, <3>2
  <2> QED BY <1>0, <2>1, <2>2 DEF Running
<1>9. ASSUME NEW r \in FullRuns, Trigger(r) PROVE Scheduled(n)'
  BY <1>0, <1>9 DEF Trigger, graph, callback
<1>10. CASE \/ Interrupt \/ Exit \/ Terminated \/ StartWatcher
            \/ \E f \in Files : Deliver(f) \/ ReadChanged(f) \/ \E r \in Runs : ReadSource(r, f)
            \/ \E ready \in SUBSET Files : Flush(ready)
            \/ \E f \in Files : \E src \in SourcesOf[f] : Edit(f, src)
  <2>1. /\ UNCHANGED <<mods, phase, held>>
        /\ UNCHANGED <<pc, batch>> \/ pc \in {"idle", "watch"}
    BY <1>10 DEF Interrupt, Exit, Terminated, StartWatcher, Deliver, Flush, Edit, ReadChanged,
                 ReadSource, graph, callback, runs, vars
  <2> QED BY <1>0, <2>1
<1> QED BY <1>1, <1>2, <1>3, <1>4, <1>5, <1>6, <1>7, <1>8, <1>9, <1>10
        DEF Next, MainStep, RunStep

-----------------------------------------------------------------------------
(* A module marked running: its run goes on, or gives up.                   *)
LEMMA OwnedStep ==
  ASSUME TypeOK, Control, RunningIsOwned, Next
  PROVE  RunningIsOwned'
<1> DEFINE Owned(n) == \/ \E r \in Runs : phase'[r] = "read" /\ mods'[n].obj \in held'[r]
                       \/ mods'[n].abandoned
<1> SUFFICES ASSUME NEW n \in DOMAIN mods', mods'[n].state = "running"
             PROVE  Owned(n)
  BY DEF RunningIsOwned, Executing
<1>0. /\ DOMAIN phase = Runs /\ DOMAIN held = Runs /\ Main \in Runs
      /\ pc # "tests" => phase[Main] = "idle"
  BY DaemonAssumption DEF Runs, TypeOK, Control
<1>1. ASSUME n \in DOMAIN mods, mods'[n] = mods[n],
             \A r \in Runs : phase[r] = "read" /\ mods[n].obj \in held[r] =>
               phase'[r] = "read" /\ held'[r] = held[r]
      PROVE  Owned(n)
  BY <1>1 DEF RunningIsOwned, Executing
<1>2. CASE ScanChanged \/ \E f \in Files : ScanNext(f)
  <2>1. n \in DOMAIN mods /\ mods'[n] = mods[n]
    BY <1>2, Scanned, AddedByChange
  <2>2. UNCHANGED <<phase, held>>
    BY <1>2 DEF ScanNext, ScanChanged, runs
  <2> QED BY <1>1, <2>1, <2>2
<1>3. CASE MarkStale
  <2>1. /\ mods' = Mark(mods, held[Main], "stale") /\ phase' = [phase EXCEPT ![Main] = "mark"]
        /\ held' = held /\ phase[Main] = "idle"
    BY <1>0, <1>3 DEF MarkStale
  <2>2. n \in DOMAIN mods /\ mods[n].obj \notin held[Main]
    BY <2>1, MarkType DEF TypeOK, States
  <2>3. mods'[n] = mods[n]
    BY <2>1, <2>2, Untouched
  <2> QED BY <1>0, <1>1, <2>1, <2>2, <2>3
<1>4. ASSUME NEW r \in Runs, MarkRunning(r) PROVE Owned(n)
  <2>1. /\ mods' = Mark(mods, held[r], "running") /\ held' = held
        /\ phase' = [phase EXCEPT ![r] = "read"]
    BY <1>4 DEF MarkRunning
  <2>2. n \in DOMAIN mods /\ mods'[n].obj = mods[n].obj
    BY <2>1, MarkType DEF TypeOK, States
  <2>3. CASE mods[n].obj \in held[r]
    BY <1>0, <2>1, <2>2, <2>3
  <2>4. CASE mods[n].obj \notin held[r]
    <3>1. mods'[n] = mods[n]
      BY <2>1, <2>2, <2>4, Untouched
    <3> QED BY <1>0, <1>1, <2>1, <2>2, <3>1
  <2> QED BY <2>3, <2>4
<1>5. ASSUME NEW r \in Runs, TempDirFails(r) PROVE Owned(n)
  <2>1. mods' = Abandon(mods, held[r]) /\ Return(r)
    BY <1>5 DEF TempDirFails
  <2>2. n \in DOMAIN mods
    BY <2>1, AbandonType DEF TypeOK
  <2>3. CASE mods[n].obj \in held[r]
    BY <2>1, <2>2, <2>3, GivenUp DEF TypeOK
  <2>4. CASE mods[n].obj \notin held[r]
    <3>1. mods'[n] = mods[n]
      BY <2>1, <2>2, <2>4, Untouched
    <3> QED BY <1>0, <1>1, <2>1, <2>2, <2>4, <3>1 DEF Return
  <2> QED BY <2>3, <2>4
<1>6. ASSUME NEW r \in Runs, Apply(r) PROVE Owned(n)
  <2>1. n \in DOMAIN mods /\ mods'[n] = mods[n] /\ mods[n].obj \notin held[r] /\ Return(r)
    BY <1>6, Judged DEF Apply
  <2> QED BY <1>0, <1>1, <2>1 DEF Return
<1>7. ASSUME NEW r \in Runs, Collect(r) PROVE Owned(n)
  <2>1. mods' = mods /\ phase[r] = "collect"
    BY <1>7 DEF Collect, graph
  <2>2. \A q \in Runs \ {r} : phase'[q] = phase[q] /\ held'[q] = held[q]
    BY <1>0, <1>7 DEF Collect, Return
  <2> QED BY <1>1, <2>1, <2>2
<1>8. CASE InvalidateBatch
  <2>1. mods' = mods /\ phase' = phase /\ phase[Main] = "idle"
        /\ \A q \in Runs \ {Main} : held'[q] = held[q]
    BY <1>0, <1>8 DEF InvalidateBatch, graph
  <2> QED BY <1>1, <2>1
<1>9. CASE ScanDone \/ \E r \in FullRuns : Trigger(r)
  <2>1. mods' = mods /\ held' = held
        /\ \E r \in Runs : phase[r] = "idle" /\ phase' = [phase EXCEPT ![r] = "collect"]
    BY <1>0, <1>9 DEF ScanDone, Trigger, graph, Runs
  <2> QED BY <1>0, <1>1, <2>1
<1>10. CASE \/ Interrupt \/ Exit \/ Terminated \/ StartWatcher
            \/ \E f \in Files : Deliver(f) \/ ReadChanged(f) \/ \E r \in Runs : ReadSource(r, f)
            \/ \E ready \in SUBSET Files : Flush(ready)
            \/ \E f \in Files : \E src \in SourcesOf[f] : Edit(f, src)
  <2>1. UNCHANGED <<mods, phase, held>>
    BY <1>10 DEF Interrupt, Exit, Terminated, StartWatcher, Deliver, Flush, Edit, ReadChanged,
                 ReadSource, graph, callback, runs, vars
  <2> QED BY <1>1, <2>1
<1> HIDE DEF Owned
<1> QED BY <1>2, <1>3, <1>4, <1>5, <1>6, <1>7, <1>8, <1>9, <1>10
        DEF Next, MainStep, RunStep

-----------------------------------------------------------------------------
LEMMA ScheduleInductive == Spec => []ScheduleInv
<1>1. Init => ScheduleInv
  <2>1. Init => DOMAIN mods = {} /\ pc = "scan"
    BY DEF Init
  <2> QED BY <2>1, PipelineInit
          DEF ScheduleInv, BatchScanned, PendingIsScheduled, RunningIsOwned
<1>2. TypeOK /\ ScheduleInv /\ [Next]_vars => ScheduleInv'
  <2>1. ASSUME ScheduleInv, UNCHANGED vars PROVE ScheduleInv'
    <3>1. PipelineInv'
      BY <2>1 DEF ScheduleInv, PipelineInv, Control, Underway, EditInPipeline, InPipeline,
                  vars, files, watcher, graph, callback, runs
    <3>2. BatchScanned' /\ PendingIsScheduled'
      BY <2>1 DEF ScheduleInv, BatchScanned, PendingIsScheduled, vars, files, graph, callback, runs
    <3>3. RunningIsOwned'
      BY <2>1 DEF ScheduleInv, RunningIsOwned, Executing, vars, graph, runs
    <3> QED BY <3>1, <3>2, <3>3 DEF ScheduleInv
  <2>2. ASSUME TypeOK, ScheduleInv, Next PROVE ScheduleInv'
    BY <2>2, PipelineStep, BatchStep, ScheduledStep, OwnedStep DEF ScheduleInv, PipelineInv
  <2> QED BY <2>1, <2>2
<1> QED BY <1>1, <1>2, TypeCorrect, PTL DEF Spec

(* Whatever has never been judged, or is stale, is in the hands of Main,    *)
(* which will run its tests: no early return and no rescan that comes       *)
(* between forgets a module.                                                *)
THEOREM PendingModulesScheduled == Spec => []PendingIsScheduled
<1>1. ScheduleInv => PendingIsScheduled
  BY DEF ScheduleInv
<1> QED BY <1>1, ScheduleInductive, PTL

(* A module marked running is held by a run whose tests are under way, or   *)
(* the run that marked it has given up for want of a directory.             *)
THEOREM RunningModulesOwned == Spec => []RunningIsOwned
<1>1. ScheduleInv => RunningIsOwned
  BY DEF ScheduleInv
<1> QED BY <1>1, ScheduleInductive, PTL

-----------------------------------------------------------------------------
(* Whatever has been read of a file is one of the texts it may be given.    *)
Sourced ==
  /\ \A f \in Files : disk[f].src \in SourcesOf[f]
  /\ \A f \in Files : scanned[f].src \in SourcesOf[f] \cup {Gone}
  /\ \A b \in buffer : b.text.src \in SourcesOf[b.file]

(* The initial Scan has no module yet of a file it has still to visit.      *)
Unvisited == pc = "scan" => \A f \in toScan : \A n \in DOMAIN mods : mods[n].obj.file # f

MatchInv == Sourced /\ Unvisited /\ GraphMatchesScan

SameObjects == DOMAIN mods' = DOMAIN mods /\ \A n \in DOMAIN mods : mods'[n].obj = mods[n].obj

-----------------------------------------------------------------------------
(* What scanning a text does to the objects of the graph, given a graph     *)
(* that holds all modules of the other files and none of this one.          *)
LEMMA Declares ==
  ASSUME TypeOK, NEW f \in Files, NEW content \in Readable, NEW others, IsGraph(others),
         \A n \in DOMAIN others :
           n \in DOMAIN mods /\ others[n] = mods[n] /\ mods[n].obj.file # f,
         \A n \in DOMAIN mods : mods[n].obj.file # f => n \in DOMAIN others,
         ScanText(f, content, others)
  PROVE  /\ \A n \in DOMAIN mods' :
              \/ n \in DOMAIN mods /\ mods'[n].obj = mods[n].obj /\ mods[n].obj.file # f
              \/ /\ mods'[n].obj.file = f /\ n \in DOMAIN content.src.funcs
                 /\ mods'[n].obj.gen = gen'[f] /\ mods'[n].obj.born = content.ver
         /\ \A n \in DOMAIN content.src.funcs \ {"main"} :
              content.src.funcs[n].performs # {} =>
                /\ n \in DOMAIN mods' /\ mods'[n].obj.file = f
                /\ mods'[n].obj.performs = content.src.funcs[n].performs
         /\ \A n \in DOMAIN mods :
              n \notin DOMAIN content.src.funcs /\ mods[n].obj.file # f =>
                n \in DOMAIN mods' /\ mods'[n].obj = mods[n].obj
         /\ gen' = [gen EXCEPT ![f] = @ + 1] /\ scanned' = [scanned EXCEPT ![f] = content]
<1> DEFINE funcs == content.src.funcs
           direct == {n \in Declarable(funcs) : funcs[n].performs # {}}
           callers == Declarable(funcs) \ (direct \cup DOMAIN others)
<1>1. PICK d \in ScanOutcomes(others, funcs) :
        mods' = Declare(others, f, gen[f] + 1, content.ver, d)
  BY DEF ScanText
<1>2. gen' = [gen EXCEPT ![f] = @ + 1] /\ scanned' = [scanned EXCEPT ![f] = content]
      /\ gen'[f] = gen[f] + 1 /\ gen[f] \in Nat /\ content.ver \in Nat
  BY ReadableFuncs DEF ScanText, TypeOK
<1>3. /\ DOMAIN d \subseteq Names /\ d \in [DOMAIN d -> SUBSET Effects]
      /\ DOMAIN d \subseteq DOMAIN funcs
  BY ReadableFuncs, ScanOutcomesType
<1>4. \A n \in direct : n \in DOMAIN d /\ d[n] = funcs[n].performs
  <2>1. d \in UNION {[direct \cup S -> SUBSET Effects] : S \in SUBSET callers}
        /\ \A n \in direct : d[n] = funcs[n].performs
    BY DEF ScanOutcomes
  <2>2. PICK S \in SUBSET callers : d \in [direct \cup S -> SUBSET Effects]
    BY <2>1
  <2> HIDE DEF direct, callers
  <2>3. DOMAIN d = direct \cup S
    BY <2>2
  <2> QED BY <2>1, <2>3
<1>5. PICK g \in Nat, v \in Nat : g = gen[f] + 1 /\ v = content.ver
  BY <1>2
<1>6. mods' = Declare(others, f, g, v, d)
  BY <1>1, <1>5
<1>7. /\ DOMAIN mods' = DOMAIN others \cup DOMAIN d
      /\ \A n \in DOMAIN d : /\ mods'[n].obj.file = f /\ mods'[n].obj.performs = d[n]
                             /\ mods'[n].obj.gen = g /\ mods'[n].obj.born = v
      /\ \A n \in DOMAIN others \ DOMAIN d : mods'[n] = others[n]
  BY <1>6 DEF Declare
<1>8. ASSUME NEW n \in DOMAIN funcs \ {"main"}, funcs[n].performs # {} PROVE n \in direct
  BY <1>8 DEF Declarable
<1> HIDE DEF direct, callers
<1> QED BY <1>2, <1>3, <1>4, <1>5, <1>7, <1>8

LEMMA ScansMatch ==
  ASSUME TypeOK, Sourced, GraphMatchesScan,
         NEW f \in Files, NEW content \in Readable, content.src \in SourcesOf[f],
         NEW others, IsGraph(others),
         \A n \in DOMAIN others :
           n \in DOMAIN mods /\ others[n] = mods[n] /\ mods[n].obj.file # f,
         \A n \in DOMAIN mods : mods[n].obj.file # f => n \in DOMAIN others,
         ScanText(f, content, others)
  PROVE  /\ GraphMatchesScan'
         /\ \A g \in Files : scanned'[g].src \in SourcesOf[g] \cup {Gone}
         /\ \A n \in DOMAIN mods' : mods'[n].obj.file # f =>
              n \in DOMAIN mods /\ mods'[n].obj = mods[n].obj
<1> USE Declares
<1>1. /\ scanned'[f] = content
      /\ \A g \in Files \ {f} : scanned'[g] = scanned[g] /\ gen'[g] = gen[g]
      /\ content.src # Gone
  BY DEF TypeOK, Readable
<1>2. ASSUME NEW n \in DOMAIN mods'
      PROVE  /\ scanned'[mods'[n].obj.file].src # Gone
             /\ n \in DOMAIN scanned'[mods'[n].obj.file].src.funcs
             /\ mods'[n].obj.gen = gen'[mods'[n].obj.file]
             /\ mods'[n].obj.born = scanned'[mods'[n].obj.file].ver
  <2>1. CASE n \in DOMAIN mods /\ mods'[n].obj = mods[n].obj /\ mods[n].obj.file # f
    BY <1>1, <2>1, ObjectsTyped DEF GraphMatchesScan
  <2>2. CASE /\ mods'[n].obj.file = f /\ n \in DOMAIN content.src.funcs
             /\ mods'[n].obj.gen = gen'[f] /\ mods'[n].obj.born = content.ver
    BY <1>1, <2>2
  <2> QED BY <1>2, <2>1, <2>2
<1>3. ASSUME NEW g \in Files, scanned'[g].src # Gone,
             NEW n \in DOMAIN scanned'[g].src.funcs \ {"main"},
             scanned'[g].src.funcs[n].performs # {}, OwnedBy(g, n)
      PROVE  /\ n \in DOMAIN mods' /\ mods'[n].obj.file = g
             /\ mods'[n].obj.performs = scanned'[g].src.funcs[n].performs
  <2>1. CASE g = f
    BY <1>1, <1>3, <2>1
  <2>2. CASE g # f
    <3>1. n \in DOMAIN mods /\ mods[n].obj.file = g
          /\ mods[n].obj.performs = scanned[g].src.funcs[n].performs
      BY <1>1, <1>3, <2>2 DEF GraphMatchesScan
    <3>2. n \notin DOMAIN content.src.funcs
      BY <1>1, <1>3, <2>2 DEF OwnedBy
    <3> QED BY <1>1, <2>2, <3>1, <3>2
  <2> QED BY <2>1, <2>2
<1>4. \A g \in Files : scanned'[g].src \in SourcesOf[g] \cup {Gone}
  BY <1>1 DEF Sourced
<1>5. GraphMatchesScan'
  BY <1>2, <1>3 DEF GraphMatchesScan, OwnedBy
<1> QED BY <1>4, <1>5

-----------------------------------------------------------------------------
(* A step that scans nothing leaves the objects as they are.                *)
LEMMA KeepsObjects ==
  ASSUME TypeOK,
         \/ MarkStale \/ ScanDone \/ StartWatcher \/ InvalidateBatch
         \/ \E f \in Files : ReadChanged(f)
         \/ \E r \in Runs : RunStep(r)
  PROVE  SameObjects /\ UNCHANGED <<gen, scanned, disk>>
<1> USE DEF SameObjects
<1>1. CASE MarkStale
  BY <1>1, MarkType DEF MarkStale, TypeOK, States, files
<1>2. CASE \/ ScanDone \/ StartWatcher \/ InvalidateBatch
           \/ \E f \in Files : ReadChanged(f)
  BY <1>2 DEF ScanDone, StartWatcher, InvalidateBatch, ReadChanged, graph, files
<1>3. ASSUME NEW r \in Runs, MarkRunning(r) PROVE SameObjects /\ UNCHANGED <<gen, scanned, disk>>
  BY <1>3, MarkType DEF MarkRunning, TypeOK, States, files
<1>4. ASSUME NEW r \in Runs, TempDirFails(r) PROVE SameObjects /\ UNCHANGED <<gen, scanned, disk>>
  BY <1>4, AbandonType DEF TempDirFails, TypeOK, files
<1>5. ASSUME NEW r \in Runs, Apply(r) PROVE SameObjects /\ UNCHANGED <<gen, scanned, disk>>
  <2>1. PICK ran \in SUBSET DOMAIN saw[r] :
          mods' = Cascade(Verdict(mods, held[r], saw[r], ran))
    BY <1>5 DEF Apply
  <2>2. PICK v : v = Verdict(mods, held[r], saw[r], ran)
    OBVIOUS
  <2>3. \A f \in DOMAIN saw[r] : saw[r][f] \in Content
    BY DEF TypeOK
  <2>4. IsGraph(v) /\ DOMAIN v = DOMAIN mods /\ \A n \in DOMAIN mods : v[n].obj = mods[n].obj
    BY <2>2, <2>3, VerdictType DEF TypeOK
  <2>5. SameObjects
    BY <2>1, <2>2, <2>4, CascadeType
  <2> QED BY <1>5, <2>5 DEF Apply, files
<1>6. ASSUME NEW r \in Runs, Collect(r) \/ \E f \in Files : ReadSource(r, f)
      PROVE  SameObjects /\ UNCHANGED <<gen, scanned, disk>>
  BY <1>6 DEF Collect, ReadSource, graph, files
<1> QED BY <1>1, <1>2, <1>3, <1>4, <1>5, <1>6 DEF RunStep

LEMMA StillMatches ==
  ASSUME GraphMatchesScan, SameObjects, UNCHANGED <<gen, scanned>>
  PROVE  GraphMatchesScan'
BY DEF GraphMatchesScan, SameObjects, OwnedBy

LEMMA MatchStep ==
  ASSUME TypeOK, Control, MatchInv, Next
  PROVE  MatchInv'
<1> USE DEF MatchInv
<1>1. ASSUME NEW f \in Files, ScanNext(f) PROVE MatchInv'
  <2>1. /\ pc = "scan" /\ f \in toScan /\ toScan' = toScan \ {f}
        /\ UNCHANGED <<disk, pc, buffer>> /\ toScan \subseteq Files
    BY <1>1 DEF ScanNext, TypeOK
  <2>2. \A n \in DOMAIN mods : mods[n].obj.file # f
    BY <2>1 DEF Unvisited
  <2>3. CASE disk[f].src = Gone
    <3>1. /\ scanned' = [scanned EXCEPT ![f] = disk[f]] /\ UNCHANGED <<mods, gen>>
      BY <1>1, <2>3 DEF ScanNext
    <3>2. scanned'[f].src = Gone /\ \A g \in Files \ {f} : scanned'[g] = scanned[g]
      BY <2>3, <3>1 DEF TypeOK
    <3>3. GraphMatchesScan'
      BY <2>2, <3>1, <3>2, ObjectsTyped DEF GraphMatchesScan, OwnedBy
    <3> QED BY <2>1, <3>1, <3>2, <3>3 DEF Sourced, Unvisited
  <2>4. CASE disk[f].src # Gone
    <3>1. disk[f] \in Readable /\ disk[f].src \in SourcesOf[f]
      BY <2>4 DEF TypeOK, Content, Readable, Sourced
    <3>2. ScanText(f, disk[f], mods) /\ IsGraph(mods)
      BY <1>1, <2>4 DEF ScanNext, TypeOK
    <3>3. /\ GraphMatchesScan'
          /\ \A g \in Files : scanned'[g].src \in SourcesOf[g] \cup {Gone}
          /\ \A n \in DOMAIN mods' : mods'[n].obj.file # f =>
               n \in DOMAIN mods /\ mods'[n].obj = mods[n].obj
      BY <2>2, <3>1, <3>2, ScansMatch
    <3> QED BY <2>1, <3>3 DEF Sourced, Unvisited
  <2> QED BY <2>3, <2>4
<1>2. CASE ScanChanged
  <2>1. PICK b \in buffer : ScanText(b.file, b.text, Without(mods, b.file))
    BY <1>2 DEF ScanChanged
  <2>2. b.file \in Files /\ b.text \in Readable /\ b.text.src \in SourcesOf[b.file]
    BY DEF TypeOK, Sourced
  <2>3. PICK others : others = Without(mods, b.file)
    OBVIOUS
  <2>4. /\ IsGraph(others)
        /\ \A n \in DOMAIN others :
             n \in DOMAIN mods /\ others[n] = mods[n] /\ mods[n].obj.file # b.file
        /\ \A n \in DOMAIN mods : mods[n].obj.file # b.file => n \in DOMAIN others
    <3>1. \A n \in DOMAIN mods : mods[n].obj.file # b.file => n \in DOMAIN others
      BY <2>3 DEF Without
    <3> QED BY <2>3, <3>1, WithoutType DEF TypeOK
  <2>5. GraphMatchesScan' /\ \A g \in Files : scanned'[g].src \in SourcesOf[g] \cup {Gone}
    BY <2>1, <2>2, <2>3, <2>4, ScansMatch
  <2>6. pc' = "rescan" /\ buffer' = {} /\ disk' = disk
    BY <1>2 DEF ScanChanged, files
  <2> QED BY <2>5, <2>6 DEF Sourced, Unvisited
<1>3. ASSUME \/ MarkStale \/ ScanDone \/ StartWatcher \/ InvalidateBatch
             \/ \E f \in Files : ReadChanged(f)
             \/ \E r \in Runs : RunStep(r)
      PROVE  MatchInv'
  <2>1. SameObjects /\ UNCHANGED <<gen, scanned, disk>>
    BY <1>3, KeepsObjects
  <2>2. GraphMatchesScan'
    BY <2>1, StillMatches
  <2>3. pc' # "scan"
    BY <1>3 DEF MarkStale, ScanDone, StartWatcher, InvalidateBatch, ReadChanged, RunStep, Collect,
                MarkRunning, TempDirFails, ReadSource, Apply, Running, Return, AfterRun
  <2>4. \A b \in buffer' : b \in buffer \/ (b.text = disk[b.file] /\ b.file \in Files)
    <3>1. ASSUME NEW f \in Files, ReadChanged(f)
          PROVE  \A b \in buffer' : b \in buffer \/ (b.text = disk[b.file] /\ b.file \in Files)
      <4>1. CASE buffer' = {[file |-> f, text |-> disk[f]]}
        BY <4>1
      <4> QED BY <3>1, <4>1 DEF ReadChanged
    <3>2. ASSUME NEW r \in Runs, RunStep(r) PROVE buffer' = buffer
      BY <3>2 DEF RunStep, Collect, MarkRunning, TempDirFails, ReadSource, Apply, callback
    <3>3. CASE MarkStale \/ ScanDone \/ StartWatcher \/ InvalidateBatch
      BY <3>3 DEF MarkStale, ScanDone, StartWatcher, InvalidateBatch, callback
    <3> QED BY <1>3, <3>1, <3>2, <3>3
  <2> QED BY <2>1, <2>2, <2>3, <2>4 DEF Sourced, Unvisited
<1>4. ASSUME NEW f \in Files, NEW src \in SourcesOf[f], Edit(f, src) PROVE MatchInv'
  <2>1. /\ UNCHANGED <<mods, gen, scanned, pc, toScan, buffer>>
        /\ \A g \in Files : disk'[g].src \in {disk[g].src, src} /\ (g # f => disk'[g] = disk[g])
    BY <1>4 DEF Edit, graph, callback, TypeOK
  <2>2. GraphMatchesScan'
    BY <2>1, StillMatches DEF SameObjects
  <2> QED BY <2>1, <2>2 DEF Sourced, Unvisited
<1>5. CASE \/ Interrupt \/ Exit \/ Terminated
           \/ \E f \in Files : Deliver(f)
           \/ \E ready \in SUBSET Files : Flush(ready)
           \/ \E r \in FullRuns : Trigger(r)
  <2>1. /\ UNCHANGED <<mods, gen, scanned, disk, buffer>>
        /\ UNCHANGED <<pc, toScan>> \/ pc' # "scan"
    BY <1>5 DEF Interrupt, Exit, Terminated, Deliver, Flush, Trigger, graph, files, callback, vars
  <2>2. GraphMatchesScan'
    BY <2>1, StillMatches DEF SameObjects
  <2> QED BY <2>1, <2>2 DEF Sourced, Unvisited
<1> QED BY <1>1, <1>2, <1>3, <1>4, <1>5 DEF Next, MainStep

(* The graph holds exactly what the last scans saw: each module is of the   *)
(* text its file was last scanned with, and no function of such a text that *)
(* performs effects is missing or has the effects of another text.          *)
THEOREM GraphIsLastScan == Spec => []GraphMatchesScan
<1>1. Init => MatchInv
  <2> SUFFICES ASSUME Init PROVE MatchInv
    OBVIOUS
  <2>1. DOMAIN mods = {} /\ buffer = {} /\ \A f \in Files : scanned[f].src = Gone
    BY DEF Init, Unread
  <2> QED BY <2>1 DEF Init, MatchInv, Sourced, Unvisited, GraphMatchesScan
<1>2. TypeOK /\ PipelineInv /\ MatchInv /\ [Next]_vars => MatchInv'
  <2>1. ASSUME MatchInv, UNCHANGED vars PROVE MatchInv'
    <3>1. GraphMatchesScan'
      BY <2>1, StillMatches DEF MatchInv, SameObjects, vars, graph
    <3> QED BY <2>1, <3>1 DEF MatchInv, Sourced, Unvisited, vars, graph, files, callback
  <2>2. ASSUME TypeOK, PipelineInv, MatchInv, Next PROVE MatchInv'
    BY <2>2, MatchStep DEF PipelineInv
  <2> QED BY <2>1, <2>2
<1>3. Init => PipelineInv
  BY PipelineInit
<1>4. TypeOK /\ PipelineInv /\ [Next]_vars => PipelineInv'
  <2>1. ASSUME PipelineInv, UNCHANGED vars PROVE PipelineInv'
    BY <2>1 DEF PipelineInv, Control, Underway, EditInPipeline, InPipeline,
                vars, files, watcher, graph, callback, runs
  <2> QED BY <2>1, PipelineStep
<1>5. MatchInv => GraphMatchesScan
  BY DEF MatchInv
<1> QED BY <1>1, <1>2, <1>3, <1>4, <1>5, TypeCorrect, PTL DEF Spec

-----------------------------------------------------------------------------
(***************************************************************************)
(* The graph mirrors the files: Daemon implements Mirror.                  *)
(***************************************************************************)

(* A text that was read and not scanned is no older than the last scan.     *)
ReadNotOlder == \A b \in buffer : scanned[b.file].ver <= b.text.ver

LEMMA ReadNotOlderStep ==
  ASSUME TypeOK, Control, ScansNotNewer, ReadNotOlder, Next
  PROVE  ReadNotOlder'
<1>1. ASSUME UNCHANGED <<buffer, scanned>> PROVE ReadNotOlder'
  BY <1>1 DEF ReadNotOlder
<1>2. ASSUME NEW f \in Files, NEW src \in SourcesOf[f], Edit(f, src) PROVE ReadNotOlder'
  BY <1>1, <1>2 DEF Edit, graph, callback
<1>3. CASE Interrupt
  BY <1>1, <1>3 DEF Interrupt, graph, callback
<1>4. ASSUME NEW f \in Files, ScanNext(f) PROVE ReadNotOlder'
  BY <1>4 DEF ScanNext, Control, ReadNotOlder
<1>5. CASE ScanDone \/ StartWatcher
  BY <1>1, <1>5 DEF ScanDone, StartWatcher, graph, callback
<1>6. ASSUME NEW f \in Files, ReadChanged(f) PROVE ReadNotOlder'
  <2>1. buffer = {} /\ scanned' = scanned
    BY <1>6 DEF ReadChanged, graph
  <2>2. buffer' = {} \/ buffer' = {[file |-> f, text |-> disk[f]]}
    BY <1>6, <2>1 DEF ReadChanged
  <2>3. scanned[f].ver <= disk[f].ver
    BY DEF ScansNotNewer
  <2> QED BY <2>1, <2>2, <2>3 DEF ReadNotOlder
<1>7. CASE ScanChanged
  BY <1>7 DEF ScanChanged, ReadNotOlder
<1>8. CASE InvalidateBatch \/ MarkStale
  BY <1>1, <1>8 DEF InvalidateBatch, MarkStale, graph, callback
<1>9. ASSUME NEW f \in Files, Deliver(f) PROVE ReadNotOlder'
  BY <1>1, <1>9 DEF Deliver, graph, callback
<1>10. ASSUME NEW ready \in SUBSET Files, Flush(ready) PROVE ReadNotOlder'
  BY <1>1, <1>10 DEF Flush, graph
<1>11. CASE Exit
  BY <1>1, <1>11 DEF Exit, graph, callback
<1>12. ASSUME NEW r \in FullRuns, Trigger(r) PROVE ReadNotOlder'
  BY <1>1, <1>12 DEF Trigger, graph, callback
<1>13. ASSUME NEW r \in Runs, RunStep(r) PROVE ReadNotOlder'
  <2>1. UNCHANGED <<callback, scanned>>
    BY <1>13 DEF RunStep, Collect, MarkRunning, TempDirFails, ReadSource, Apply, graph
  <2> QED BY <1>1, <2>1 DEF callback
<1>14. CASE Terminated
  BY <1>1, <1>14 DEF Terminated, vars, graph, callback
<1> QED BY <1>2, <1>3, <1>4, <1>5, <1>6, <1>7, <1>8, <1>9, <1>10, <1>11, <1>12, <1>13, <1>14
        DEF Next, MainStep

(* What Mirror does not see: a file stays in the pipeline, or out of it.    *)
LEMMA UnseenByMirror ==
  ASSUME UNCHANGED <<disk, scanned, missed>>,
         \A f \in Files : InPipeline(f)' <=> InPipeline(f)
  PROVE  UNCHANGED Graph!vars
BY DEF Graph!vars

(* The same when nothing that a file waits in changes.                      *)
LEMMA PipelineUnchanged ==
  ASSUME UNCHANGED <<disk, scanned, missed, fsEvents, pending, toScan, buffer>>
  PROVE  UNCHANGED Graph!vars
BY DEF Graph!vars, InPipeline

LEMMA EditMirrored ==
  ASSUME TypeOK, ScansNotNewer, NEW f \in Files, NEW src \in SourcesOf[f], Edit(f, src)
  PROVE  Graph!ChangeHeard(f) \/ Graph!ChangeUnheard(f)
<1>1. /\ disk' = [disk EXCEPT ![f] = [ver |-> disk[f].ver + 1, src |-> src]]
      /\ UNCHANGED <<scanned, pending, toScan, buffer>>
      /\ \/ fsEvents' = fsEvents \cup {f} /\ missed' = missed \ {f}
         \/ missed' = missed \cup {f} /\ fsEvents' = fsEvents
  BY DEF Edit, graph, callback
<1>2. /\ disk'[f].ver = disk[f].ver + 1 /\ disk[f].ver \in Nat
      /\ \A g \in Files \ {f} : disk'[g] = disk[g]
  BY <1>1 DEF TypeOK, Content
<1>3. [g \in Files |-> disk'[g].ver] = [[g \in Files |-> disk[g].ver] EXCEPT ![f] = @ + 1]
  BY <1>2
<1>4. \A g \in Files \ {f} : InPipeline(g)' <=> InPipeline(g)
  BY <1>1, <1>2 DEF InPipeline
<1>5. CASE fsEvents' = fsEvents \cup {f} /\ missed' = missed \ {f}
  <2>1. InPipeline(f)'
    BY <1>5 DEF InPipeline
  <2>2. {g \in Files : InPipeline(g)'} = {g \in Files : InPipeline(g)} \cup {f}
    BY <1>4, <2>1
  <2> QED BY <1>1, <1>3, <1>5, <2>2 DEF Graph!ChangeHeard
<1>6. CASE missed' = missed \cup {f} /\ fsEvents' = fsEvents
  <2>1. InPipeline(f)' => InPipeline(f)
    <3>1. \A b \in buffer : b.file = f => b.text # disk'[f]
      BY <1>2 DEF ScansNotNewer, TypeOK, Readable
    <3> QED BY <1>1, <1>6, <3>1 DEF InPipeline
  <2>2. {g \in Files : InPipeline(g)'} \in
          {{g \in Files : InPipeline(g)}, {g \in Files : InPipeline(g)} \ {f}}
    BY <1>4, <2>1
  <2> QED BY <1>1, <1>3, <1>6, <2>2 DEF Graph!ChangeUnheard
<1> QED BY <1>1, <1>5, <1>6

LEMMA ScanNextMirrored ==
  ASSUME TypeOK, Control, ScansNotNewer, NEW f \in Files, ScanNext(f)
  PROVE  Graph!Refresh(f)
<1>1. /\ scanned' = [scanned EXCEPT ![f] = disk[f]]
      /\ UNCHANGED <<disk, fsEvents, pending>> /\ buffer = {} /\ buffer' = {}
      /\ f \in toScan /\ toScan' = toScan \ {f} /\ missed' = missed \ {f}
  BY DEF ScanNext, ScanText, watcher, Control
<1>2. /\ [g \in Files |-> scanned'[g].ver]
            = [[g \in Files |-> scanned[g].ver] EXCEPT ![f] = disk[f].ver]
      /\ disk[f].ver \in scanned[f].ver .. disk[f].ver
  <2>1. /\ scanned[f].ver \in Nat /\ disk[f].ver \in Nat
        /\ scanned[f].ver <= disk[f].ver
    BY DEF TypeOK, Content, ScansNotNewer
  <2>2. \A g \in Files : scanned'[g] = IF g = f THEN disk[f] ELSE scanned[g]
    BY <1>1 DEF TypeOK
  <2>3. \A g \in Files : scanned'[g].ver = IF g = f THEN disk[f].ver ELSE scanned[g].ver
    BY <2>2
  <2>4. [g \in Files |-> scanned'[g].ver]
              = [[g \in Files |-> scanned[g].ver] EXCEPT ![f] = disk[f].ver]
    BY <2>3
  <2>5. disk[f].ver \in scanned[f].ver .. disk[f].ver
    BY <2>1
  <2> QED BY <2>4, <2>5
<1>3. /\ InPipeline(f)
      /\ \A g \in Files \ {f} : InPipeline(g)' <=> InPipeline(g)
  BY <1>1 DEF InPipeline
<1>4. {g \in Files : InPipeline(g)'} \in
        {{g \in Files : InPipeline(g)}, {g \in Files : InPipeline(g)} \ {f}}
  BY <1>3
<1> QED BY <1>1, <1>2, <1>3, <1>4 DEF Graph!Refresh

LEMMA ReadChangedMirrored ==
  ASSUME TypeOK, Underway, NEW f \in Files, ReadChanged(f)
  PROVE  Graph!Notice(f) \/ Graph!GiveUp(f) \/ UNCHANGED Graph!vars
<1>1. /\ UNCHANGED <<disk, scanned, fsEvents, pending>> /\ buffer = {}
      /\ f \in toScan /\ toScan' = toScan \ {f} /\ pc = "rescan"
  BY DEF ReadChanged, watcher, graph
<1>2. CASE disk[f].src # Gone
  <2>1. buffer' = {[file |-> f, text |-> disk[f]]} /\ missed' = missed \ {f}
    BY <1>2 DEF ReadChanged
  <2>2. InPipeline(f) /\ \A g \in Files : InPipeline(g)' <=> InPipeline(g)
    BY <1>1, <2>1 DEF InPipeline
  <2>3. {g \in Files : InPipeline(g)'} = {g \in Files : InPipeline(g)}
    BY <2>2
  <2> QED BY <1>1, <2>1, <2>2, <2>3 DEF Graph!Notice
<1>3. CASE disk[f].src = Gone
  <2>1. buffer' = {} /\ missed' = missed
    BY <1>1, <1>3 DEF ReadChanged
  <2>2. f \in missed \/ scanned[f].ver = disk[f].ver
    BY <1>1, <1>3 DEF Underway
  <2>3. \A g \in Files \ {f} : InPipeline(g)' <=> InPipeline(g)
    BY <1>1, <2>1 DEF InPipeline
  <2>4. CASE InPipeline(f)'
    BY <1>1, <2>1, <2>3, <2>4, UnseenByMirror DEF InPipeline
  <2>5. CASE ~InPipeline(f)'
    <3>1. {g \in Files : InPipeline(g)'} = {g \in Files : InPipeline(g)} \ {f}
      BY <2>3, <2>5
    <3> QED BY <1>1, <2>1, <2>2, <3>1 DEF Graph!GiveUp
  <2> QED BY <2>4, <2>5
<1> QED BY <1>2, <1>3

LEMMA ScanChangedMirrored ==
  ASSUME TypeOK, Control, Underway, ScansNotNewer, ReadNotOlder, ScanChanged
  PROVE  \E f \in Files : Graph!Refresh(f)
<1>1. PICK b \in buffer : ScanText(b.file, b.text, Without(mods, b.file))
  BY DEF ScanChanged
<1> DEFINE f == b.file
<1>2. /\ f \in Files /\ b.text.ver \in Nat
      /\ scanned' = [scanned EXCEPT ![f] = b.text]
      /\ UNCHANGED <<disk, missed, fsEvents, pending, toScan>>
      /\ buffer' = {} /\ \A c \in buffer : c = b
  BY <1>1 DEF ScanChanged, ScanText, files, watcher, TypeOK, Readable, Control
<1>3. /\ [g \in Files |-> scanned'[g].ver]
            = [[g \in Files |-> scanned[g].ver] EXCEPT ![f] = b.text.ver]
      /\ b.text.ver \in scanned[f].ver .. disk[f].ver
  <2>1. /\ scanned[f].ver \in Nat /\ disk[f].ver \in Nat
        /\ scanned[f].ver <= b.text.ver /\ b.text.ver <= disk[f].ver
    BY <1>2 DEF TypeOK, Content, ScansNotNewer, ReadNotOlder
  <2>2. \A g \in Files : scanned'[g] = IF g = f THEN b.text ELSE scanned[g]
    BY <1>2 DEF TypeOK
  <2>3. \A g \in Files : scanned'[g].ver = IF g = f THEN b.text.ver ELSE scanned[g].ver
    BY <2>2
  <2>4. [g \in Files |-> scanned'[g].ver]
              = [[g \in Files |-> scanned[g].ver] EXCEPT ![f] = b.text.ver]
    BY <2>3
  <2>5. b.text.ver \in scanned[f].ver .. disk[f].ver
    BY <1>2, <2>1
  <2> QED BY <2>4, <2>5
<1>4. \A g \in Files \ {f} : InPipeline(g)' <=> InPipeline(g)
  BY <1>2 DEF InPipeline
<1>5. CASE b.text = disk[f]
  <2>1. InPipeline(f)
    BY <1>5 DEF InPipeline
  <2>2. {g \in Files : InPipeline(g)'} \in
          {{g \in Files : InPipeline(g)}, {g \in Files : InPipeline(g)} \ {f}}
    BY <1>4, <2>1
  <2> QED BY <1>2, <1>3, <1>5, <2>1, <2>2 DEF Graph!Refresh
<1>6. CASE b.text # disk[f]
  <2>1. f \in missed \/ f \in fsEvents \cup pending
    BY <1>6 DEF Underway
  <2>2. InPipeline(f)' <=> InPipeline(f)
    BY <1>2, <1>6 DEF InPipeline
  <2>3. {g \in Files : InPipeline(g)'} = {g \in Files : InPipeline(g)}
    BY <1>4, <2>2
  <2>4. f \in {g \in Files : InPipeline(g)} \cup missed
    BY <1>2, <2>1 DEF InPipeline
  <2> QED BY <1>2, <1>3, <2>3, <2>4 DEF Graph!Refresh
<1> QED BY <1>5, <1>6

LEMMA MirrorStep ==
  ASSUME TypeOK, PipelineInv, ScansNotNewer, ReadNotOlder, Next
  PROVE  [Graph!Next]_(Graph!vars)
<1> USE DEF PipelineInv
<1>1. ASSUME NEW f \in Files, NEW src \in SourcesOf[f], Edit(f, src) PROVE Graph!Next
  BY <1>1, EditMirrored DEF Graph!Next
<1>2. CASE Interrupt
  BY <1>2, PipelineUnchanged DEF Interrupt, files, watcher, graph, callback
<1>3. ASSUME NEW f \in Files, ScanNext(f) PROVE Graph!Next
  BY <1>3, ScanNextMirrored DEF Graph!Next
<1>4. CASE ScanDone \/ StartWatcher
  BY <1>4, PipelineUnchanged DEF ScanDone, StartWatcher, files, watcher, graph, callback
<1>5. ASSUME NEW f \in Files, ReadChanged(f) PROVE [Graph!Next]_(Graph!vars)
  BY <1>5, ReadChangedMirrored DEF Graph!Next
<1>6. CASE ScanChanged
  BY <1>6, ScanChangedMirrored DEF Graph!Next
<1>7. CASE InvalidateBatch \/ MarkStale
  BY <1>7, PipelineUnchanged DEF InvalidateBatch, MarkStale, files, watcher, graph, callback
<1>8. ASSUME NEW f \in Files, Deliver(f) PROVE UNCHANGED Graph!vars
  <2>1. UNCHANGED <<disk, scanned, missed>>
    BY <1>8 DEF Deliver, files, graph
  <2>2. \A g \in Files : InPipeline(g)' <=> InPipeline(g)
    BY <1>8 DEF Deliver, files, callback, InPipeline
  <2> QED BY <2>1, <2>2, UnseenByMirror
<1>9. ASSUME NEW ready \in SUBSET Files, Flush(ready) PROVE UNCHANGED Graph!vars
  <2>1. UNCHANGED <<disk, scanned, missed>>
    BY <1>9 DEF Flush, files, graph
  <2>2. toScan = {}
    BY <1>9 DEF Flush, Control
  <2>3. \A g \in Files : InPipeline(g)' <=> InPipeline(g)
    BY <1>9, <2>2 DEF Flush, files, InPipeline
  <2> QED BY <2>1, <2>3, UnseenByMirror
<1>10. CASE Exit
  BY <1>10, PipelineUnchanged DEF Exit, files, watcher, graph, callback
<1>11. ASSUME NEW r \in FullRuns, Trigger(r) PROVE UNCHANGED Graph!vars
  BY <1>11, PipelineUnchanged DEF Trigger, files, watcher, graph, callback
<1>12. ASSUME NEW r \in Runs, RunStep(r) PROVE UNCHANGED Graph!vars
  <2>1. UNCHANGED <<files, watcher, callback, scanned>>
    BY <1>12 DEF RunStep, Collect, MarkRunning, TempDirFails, ReadSource, Apply, graph
  <2> QED BY <2>1, PipelineUnchanged DEF files, watcher, callback
<1>13. CASE Terminated
  BY <1>13, PipelineUnchanged DEF Terminated, vars, files, watcher, graph, callback
<1> QED BY <1>1, <1>2, <1>3, <1>4, <1>5, <1>6, <1>7, <1>8, <1>9, <1>10, <1>11, <1>12, <1>13
        DEF Next, MainStep

(* Everything the refinement rests on holds throughout.                     *)
LEMMA MirrorInv == Spec => [](TypeOK /\ PipelineInv /\ ScansNotNewer /\ ReadNotOlder)
<1>1. Init => PipelineInv /\ VersionInv /\ ReadNotOlder
  <2>1. ASSUME Init PROVE VersionInv /\ ReadNotOlder
    <3>1. DOMAIN mods = {} /\ buffer = {} /\ \A r \in Runs : held[r] = {} /\ DOMAIN saw[r] = {}
      BY <2>1 DEF Init
    <3>2. \A f \in Files : scanned[f].ver = 0 /\ disk[f].ver = 1
      BY <2>1 DEF Init, Unread
    <3> QED BY <3>1, <3>2 DEF VersionInv, ScansNotNewer, ModulesOfLastScan, RunsReadLater,
                              VerdictsNotOlder, ReadNotOlder
  <2> QED BY <2>1, PipelineInit
<1>2. /\ TypeOK /\ PipelineInv /\ VersionInv /\ ReadNotOlder /\ [Next]_vars
      => (PipelineInv /\ VersionInv /\ ReadNotOlder)'
  <2>1. ASSUME PipelineInv, VersionInv, ReadNotOlder, UNCHANGED vars
        PROVE  (PipelineInv /\ VersionInv /\ ReadNotOlder)'
    <3>1. PipelineInv'
      BY <2>1 DEF PipelineInv, Control, Underway, EditInPipeline, InPipeline,
                  vars, files, watcher, graph, callback, runs
    <3>2. VersionInv' /\ ReadNotOlder'
      BY <2>1 DEF VersionInv, ScansNotNewer, ModulesOfLastScan, RunsReadLater, VerdictsNotOlder,
                  ReadNotOlder, vars, files, watcher, graph, callback, runs
    <3> QED BY <3>1, <3>2
  <2>2. ASSUME TypeOK, PipelineInv, VersionInv, ReadNotOlder, Next
        PROVE  (PipelineInv /\ VersionInv /\ ReadNotOlder)'
    BY <2>2, PipelineStep, VersionStep, ReadNotOlderStep DEF PipelineInv, VersionInv
  <2> QED BY <2>1, <2>2
<1>3. VersionInv => ScansNotNewer
  BY DEF VersionInv
<1> QED BY <1>1, <1>2, <1>3, TypeCorrect, PTL DEF Spec

LEMMA MirrorEach ==
  ASSUME TypeOK, PipelineInv, ScansNotNewer, ReadNotOlder, [Next]_vars
  PROVE  [Graph!Next]_(Graph!vars)
<1>1. ASSUME UNCHANGED vars PROVE UNCHANGED Graph!vars
  BY <1>1, PipelineUnchanged DEF vars, files, watcher, graph, callback
<1> QED BY <1>1, MirrorStep

(* The daemon implements Mirror: whatever the watcher, the callback, the    *)
(* runs and the users do, each step is one that Mirror allows.              *)
THEOREM GraphIsMirror == Spec => GraphMirrorsFiles
<1>1. Init => Graph!Init
  <2> SUFFICES ASSUME Init PROVE Graph!Init
    OBVIOUS
  <2>1. \A f \in Files : disk[f].ver = 1 /\ scanned[f].ver = 0 /\ f \in toScan
    BY DEF Init, Unread
  <2>2. \A f \in Files : InPipeline(f)
    BY <2>1 DEF InPipeline
  <2>3. missed = {}
    BY DEF Init
  <2> QED BY <2>1, <2>2, <2>3 DEF Graph!Init
<1>2. TypeOK /\ PipelineInv /\ ScansNotNewer /\ ReadNotOlder /\ [Next]_vars
      => [Graph!Next]_(Graph!vars)
  BY MirrorEach
<1> QED BY <1>1, <1>2, MirrorInv, PTL DEF Spec, GraphMirrorsFiles, Graph!Spec

(* The graph never goes back to an older text of a file, whichever of the   *)
(* scans, the reads before them and the edits between come first.           *)
THEOREM ScansMoveForward == Spec => Graph!MovesForward
<1>1. ASSUME TypeOK, ScansNotNewer, Graph!Next PROVE Graph!Forward
  <2> DEFINE copy == [g \in Files |-> scanned[g].ver]
  <2>1. \A f \in Files : copy[f] \in Nat /\ disk[f].ver \in Nat
    BY <1>1 DEF TypeOK, Content
  <2>2. CASE copy' = copy
    BY <2>1, <2>2 DEF Graph!Forward
  <2>3. CASE copy' # copy
    <3>1. PICK f \in Files : Graph!Refresh(f)
      BY <1>1, <2>3 DEF Graph!Next, Graph!ChangeHeard, Graph!ChangeUnheard, Graph!Notice,
                        Graph!GiveUp
    <3>2. PICK v \in copy[f] .. disk[f].ver : copy' = [copy EXCEPT ![f] = v]
      BY <3>1 DEF Graph!Refresh
    <3>3. DOMAIN copy = Files
      OBVIOUS
    <3> HIDE DEF copy
    <3>4. \A g \in Files : copy[g] <= copy'[g]
      BY <2>1, <3>2, <3>3
    <3> QED BY <3>4 DEF Graph!Forward, copy
  <2> QED BY <2>2, <2>3
<1>2. /\ TypeOK /\ PipelineInv /\ ScansNotNewer /\ ReadNotOlder /\ [Next]_vars
      => [Graph!Forward]_(Graph!vars)
  BY <1>1, MirrorEach
<1> QED BY <1>2, MirrorInv, PTL DEF Spec, Graph!MovesForward

(* Nothing the graph holds is behind its file unless the file is in the     *)
(* pipeline or its last edit raised no event.                               *)
THEOREM GraphInStep == Spec => []Graph!InStep
<1>1. PipelineInv /\ ScansNotNewer => Graph!InStep
  <2> SUFFICES ASSUME PipelineInv, ScansNotNewer, NEW f \in Files
               PROVE  /\ scanned[f].ver <= disk[f].ver
                      /\ scanned[f].ver = disk[f].ver \/ InPipeline(f) \/ f \in missed
    BY DEF Graph!InStep
  <2> QED BY DEF PipelineInv, EditInPipeline, ScansNotNewer
<1> QED BY <1>1, MirrorInv, PTL
=============================================================================
