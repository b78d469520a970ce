------------------------------ MODULE Daemon ------------------------------
(***************************************************************************)
(* The development mode of gotyped (daemon/daemon.go, watcher.go,          *)
(* runner.go): scan the project, run all tests, then watch the .tg files   *)
(* and, on every change, rescan, invalidate, retest and cascade, while     *)
(* POST /api/v1/run starts further full runs in goroutines of their own.   *)
(*                                                                         *)
(* Goroutines: Main executes Daemon.Run, the watcher loop and its callback *)
(* onFilesChanged; each member of FullRuns is a goroutine of handleRun     *)
(* that executes runAllTests.  Graph.mu makes each critical section one    *)
(* action; between critical sections the goroutines interleave, and with   *)
(* them the users who edit the files.  The process ends when Main does.    *)
(***************************************************************************)
EXTENDS ModuleGraph

CONSTANTS
  Main,        (* the goroutine of Daemon.Run                              *)
  FullRuns,    (* goroutines started by POST /api/v1/run                   *)
  SourcesOf,   (* the texts each file may be given                         *)
  Gone,        (* in place of a text: the file does not exist              *)
  Watched,     (* files in a directory fsnotify watches: directories made  *)
               (* after NewWatcher are not added, errors of Add ignored    *)
  MaxVersion   (* bound: file -> how many versions of it there may be        *)

ASSUME DaemonAssumption ==
  /\ Main \notin FullRuns
  /\ DOMAIN SourcesOf = Files
  /\ \A f \in Files : \A s \in SourcesOf[f] : s = Gone \/ IsSource(s)
  /\ Watched \subseteq Files
  /\ MaxVersion \in [Files -> Nat]

Runs == {Main} \cup FullRuns

Texts == {Gone} \cup UNION {SourcesOf[f] : f \in Files}
Content == [ver : Nat, src : Texts]

(* What can be read: the content of a file that exists.                     *)
Readable == [ver : Nat, src : Texts \ {Gone}]

Unread == [ver |-> 0, src |-> Gone]   (* no version has been read yet *)

VARIABLES
  disk,      (* file -> its content, numbered                              *)
  missed,    (* history: files whose last edit raised no event             *)
  watching,  (* the fsnotify watches are installed                         *)
  fsEvents,  (* files with a Write or Create event not yet received        *)
  pending,   (* Watcher.pending                                            *)
  mods,      (* Graph.Modules with Graph.performs                          *)
  gen,       (* file -> how often it was scanned                           *)
  scanned,   (* history: file -> the content its last scan was given       *)
  pc,        (* where Main is                                              *)
  batch,     (* the argument of onFilesChanged                             *)
  toScan,    (* files still to be visited by Scan, or by onFilesChanged    *)
  buffer,    (* the text onFilesChanged has read and not scanned yet, if any *)
  phase,     (* run -> where it is in runAllTests / runTestsForFiles       *)
  held,      (* run -> the module pointers it works on                     *)
  unread,    (* run -> files RunTests has still to read                    *)
  saw,       (* run -> what RunTests read: file -> content                 *)
  stopping   (* Daemon.done is closed                                      *)

files == <<disk, missed>>
watcher == <<watching, fsEvents, pending>>
graph == <<mods, gen, scanned>>
callback == <<batch, toScan, buffer>>
runs == <<phase, held, unread, saw>>
vars == <<files, watcher, graph, pc, callback, runs, stopping>>

Init ==
  /\ disk \in [Files -> [ver : {1}, src : Texts]]
  /\ \A f \in Files : disk[f].src \in SourcesOf[f]
  /\ missed = {}
  /\ watching = FALSE /\ fsEvents = {} /\ pending = {}
  /\ mods = [n \in {} |-> {}]
  /\ gen = [f \in Files |-> 0]
  /\ scanned = [f \in Files |-> Unread]
  /\ pc = "scan" /\ batch = {} /\ toScan = Files /\ buffer = {}
  /\ phase = [r \in Runs |-> "idle"]
  /\ held = [r \in Runs |-> {}]
  /\ unread = [r \in Runs |-> {}]
  /\ saw = [r \in Runs |-> [f \in {} |-> Unread]]
  /\ stopping = FALSE

-----------------------------------------------------------------------------
(* A user writes, creates or deletes a file.  Only a Write or a Create in a *)
(* watched directory reaches the watcher: Remove and Rename are not in the  *)
(* mask of Watcher.Run.                                                     *)
Edit(f, src) ==
  /\ pc # "stopped"
  /\ disk[f].ver < MaxVersion[f]
  /\ src \in SourcesOf[f] \ {disk[f].src}
  /\ disk' = [disk EXCEPT ![f] = [ver |-> @.ver + 1, src |-> src]]
  /\ IF watching /\ f \in Watched /\ src # Gone
     THEN fsEvents' = fsEvents \cup {f} /\ missed' = missed \ {f}
     ELSE missed' = missed \cup {f} /\ UNCHANGED fsEvents
  /\ UNCHANGED <<watching, pending, graph, pc, callback, runs, stopping>>

(* Ctrl+C or SIGTERM: Daemon.Stop closes done.                              *)
Interrupt ==
  /\ pc # "stopped" /\ ~stopping
  /\ stopping' = TRUE
  /\ UNCHANGED <<files, watcher, graph, pc, callback, runs>>

-----------------------------------------------------------------------------
(* scanFile(f) on a content that was read, given the graph it finds.        *)
ScanText(f, content, others) ==
  /\ \E d \in ScanOutcomes(others, content.src.funcs) :
       mods' = Declare(others, f, gen[f] + 1, content.ver, d)
  /\ gen' = [gen EXCEPT ![f] = @ + 1]
  /\ scanned' = [scanned EXCEPT ![f] = content]

(* The next file of the initial Scan.  Scan holds Graph.mu for the whole    *)
(* walk: while pc is "scan" nobody else can take the lock.                  *)
ScanNext(f) ==
  /\ pc = "scan" /\ f \in toScan
  /\ toScan' = toScan \ {f}
  /\ missed' = missed \ {f}
  /\ IF disk[f].src = Gone
     THEN scanned' = [scanned EXCEPT ![f] = disk[f]] /\ UNCHANGED <<mods, gen>>
     ELSE ScanText(f, disk[f], mods)
  /\ UNCHANGED <<disk, watcher, pc, batch, buffer, runs, stopping>>

(* Scan returns, unlocks, and Main enters runAllTests.                      *)
ScanDone ==
  /\ pc = "scan" /\ toScan = {}
  /\ pc' = "tests"
  /\ phase' = [phase EXCEPT ![Main] = "collect"]
  /\ UNCHANGED <<files, watcher, graph, callback, held, unread, saw, stopping>>

(* Defect: done is made anew when the watcher starts.                       *)
StartWatcherAnew ==
  /\ pc = "watch"
  /\ \/ watching' = TRUE /\ pc' = "idle" /\ stopping' = FALSE
     \/ pc' = "stopped" /\ UNCHANGED <<watching, stopping>>
  /\ UNCHANGED <<files, fsEvents, pending, graph, callback, runs>>

(* NewWatcher: from here on edits raise events.  When it fails, Run returns *)
(* the error and the process exits.                                         *)
StartWatcher ==
  /\ pc = "watch"
  /\ \/ watching' = TRUE /\ pc' = "idle"
     \/ pc' = "stopped" /\ UNCHANGED watching
  /\ UNCHANGED <<files, fsEvents, pending, graph, callback, runs, stopping>>

(* Defect: an event that finds a full run under way is dropped.             *)
DeliverWhenQuiet(f) ==
  /\ pc = "idle" /\ f \in fsEvents
  /\ fsEvents' = fsEvents \ {f}
  /\ pending' = IF \A r \in FullRuns : phase[r] = "idle" THEN pending \cup {f} ELSE pending
  /\ UNCHANGED <<files, watching, graph, pc, callback, runs, stopping>>

(* The select of Watcher.Run takes an event ...                             *)
Deliver(f) ==
  /\ pc = "idle" /\ f \in fsEvents
  /\ fsEvents' = fsEvents \ {f}
  /\ pending' = pending \cup {f}
  /\ UNCHANGED <<files, watching, graph, pc, callback, runs, stopping>>

(* Defect: the whole debounce map is cleared.                               *)
FlushAll(ready) ==
  /\ pc = "idle" /\ ready # {} /\ ready \subseteq pending
  /\ pending' = {}
  /\ batch' = ready /\ toScan' = ready /\ pc' = "rescan"
  /\ UNCHANGED <<files, watching, fsEvents, graph, buffer, runs, stopping>>

(* ... or a tick, and flush hands the files that have been stable for the   *)
(* debounce window to onFilesChanged, which runs on this goroutine ...      *)
Flush(ready) ==
  /\ pc = "idle" /\ ready # {} /\ ready \subseteq pending
  /\ pending' = pending \ ready
  /\ batch' = ready /\ toScan' = ready /\ pc' = "rescan"
  /\ UNCHANGED <<files, watching, fsEvents, graph, buffer, runs, stopping>>

(* ... or done, which ends Run and with it the process.                     *)
Exit ==
  /\ pc = "idle" /\ stopping
  /\ pc' = "stopped" /\ watching' = FALSE
  /\ UNCHANGED <<files, fsEvents, pending, graph, callback, runs, stopping>>

-----------------------------------------------------------------------------
(* onFilesChanged reads a changed file, without the lock; a file that       *)
(* cannot be read is skipped and the graph keeps its entries.               *)
ReadChanged(f) ==
  /\ pc = "rescan" /\ buffer = {} /\ f \in toScan
  /\ toScan' = toScan \ {f}
  /\ IF disk[f].src = Gone
     THEN UNCHANGED <<buffer, missed>>
     ELSE /\ buffer' = {[file |-> f, text |-> disk[f]]}
          /\ missed' = missed \ {f}
  /\ UNCHANGED <<disk, watcher, graph, pc, batch, runs, stopping>>

(* Defect: what was heard of the file up to its scan is taken as dealt with. *)
ScanChangedDrains ==
  /\ pc = "rescan"
  /\ \E b \in buffer : /\ ScanText(b.file, b.text, Without(mods, b.file))
                       /\ fsEvents' = fsEvents \ {b.file}
  /\ buffer' = {}
  /\ UNCHANGED <<files, watching, pending, pc, batch, toScan, runs, stopping>>

(* ScanFile, under the lock: the file's entries go and its text, which may  *)
(* have changed since it was read, is scanned.                              *)
ScanChanged ==
  /\ pc = "rescan"
  /\ \E b \in buffer : ScanText(b.file, b.text, Without(mods, b.file))
  /\ buffer' = {}
  /\ UNCHANGED <<files, watcher, pc, batch, toScan, runs, stopping>>

(* Graph.Invalidate over the whole batch; with nothing affected the         *)
(* callback returns to the watcher loop.                                    *)
InvalidateBatch ==
  /\ pc = "rescan" /\ buffer = {} /\ toScan = {}
  /\ LET affected == {mods[n].obj : n \in Invalidate(mods, batch)}
     IN /\ held' = [held EXCEPT ![Main] = affected]
        /\ pc' = IF affected = {} THEN "idle" ELSE "stale"
  /\ batch' = {}
  /\ UNCHANGED <<files, watcher, graph, toScan, buffer, phase, unread, saw, stopping>>

(* Defect: the retest is left to a full run that is under way.              *)
MarkStaleOnly ==
  /\ pc = "stale"
  /\ mods' = Mark(mods, held[Main], "stale")
  /\ IF \A r \in FullRuns : phase[r] = "idle"
     THEN pc' = "tests" /\ phase' = [phase EXCEPT ![Main] = "mark"]
     ELSE pc' = "idle" /\ UNCHANGED phase
  /\ UNCHANGED <<files, watcher, gen, scanned, callback, held, unread, saw, stopping>>

(* The affected modules are marked stale; runTestsForFiles follows.         *)
MarkStale ==
  /\ pc = "stale"
  /\ mods' = Mark(mods, held[Main], "stale")
  /\ pc' = "tests"
  /\ phase' = [phase EXCEPT ![Main] = "mark"]
  /\ UNCHANGED <<files, watcher, gen, scanned, callback, held, unread, saw, stopping>>

-----------------------------------------------------------------------------
(* POST /api/v1/run starts a goroutine for TriggerFullRun.                  *)
Trigger(r) ==
  /\ pc # "stopped" /\ r \in FullRuns /\ phase[r] = "idle"
  /\ phase' = [phase EXCEPT ![r] = "collect"]
  /\ UNCHANGED <<files, watcher, graph, pc, callback, held, unread, saw, stopping>>

(* Where Main continues when its run returns: after the startup run with    *)
(* NewWatcher, after a callback's run in the watcher loop.                  *)
AfterRun(r) == IF r # Main THEN pc ELSE IF watching THEN "idle" ELSE "watch"

(* The run is over and its goroutine holds nothing any more.                *)
Return(r) ==
  /\ phase' = [phase EXCEPT ![r] = "idle"]
  /\ held' = [held EXCEPT ![r] = {}]
  /\ unread' = [unread EXCEPT ![r] = {}]
  /\ saw' = [saw EXCEPT ![r] = [f \in {} |-> Unread]]
  /\ pc' = AfterRun(r)

(* A run can take a step: the process lives and Scan does not hold the lock. *)
Running(r) == pc \notin {"stopped", "scan"} /\ (r = Main => pc = "tests")

(* runAllTests takes pointers to all modules under the read lock.           *)
Collect(r) ==
  /\ Running(r) /\ phase[r] = "collect"
  /\ IF mods = [n \in {} |-> {}]
     THEN Return(r)
     ELSE /\ held' = [held EXCEPT ![r] = {mods[n].obj : n \in DOMAIN mods}]
          /\ phase' = [phase EXCEPT ![r] = "mark"]
          /\ UNCHANGED <<unread, saw, pc>>
  /\ UNCHANGED <<files, watcher, graph, callback, stopping>>

(* Defect: whatever the graph holds by now is marked running.               *)
MarkAllRunning(r) ==
  /\ Running(r) /\ phase[r] = "mark"
  /\ mods' = Mark(mods, {mods[n].obj : n \in DOMAIN mods}, "running")
  /\ phase' = [phase EXCEPT ![r] = "read"]
  /\ unread' = [unread EXCEPT ![r] = {o.file : o \in held[r]}]
  /\ UNCHANGED <<files, watcher, gen, scanned, pc, callback, held, saw, stopping>>

(* runTestsForFiles marks them running and calls RunTests with their files. *)
MarkRunning(r) ==
  /\ Running(r) /\ phase[r] = "mark"
  /\ mods' = Mark(mods, held[r], "running")
  /\ phase' = [phase EXCEPT ![r] = "read"]
  /\ unread' = [unread EXCEPT ![r] = {o.file : o \in held[r]}]
  /\ UNCHANGED <<files, watcher, gen, scanned, pc, callback, held, saw, stopping>>

(* RunTests cannot make its temporary directory: runTestsForFiles logs the  *)
(* error and returns, and the modules stay marked running.                  *)
TempDirFails(r) ==
  /\ Running(r) /\ phase[r] = "read" /\ DOMAIN saw[r] = {}
  /\ unread[r] = {o.file : o \in held[r]}
  /\ mods' = Abandon(mods, held[r])
  /\ Return(r)
  /\ UNCHANGED <<files, watcher, gen, scanned, callback, stopping>>

(* RunTests reads and transpiles one file, in map order.  An unreadable one *)
(* is skipped; one the preprocessor rejects ends the loop.                  *)
ReadSource(r, f) ==
  /\ Running(r) /\ phase[r] = "read" /\ f \in unread[r]
  /\ saw' = IF disk[f].src = Gone THEN saw
            ELSE [saw EXCEPT ![r] = [g \in DOMAIN @ \cup {f} |->
                                       IF g = f THEN disk[f] ELSE @[g]]]
  /\ unread' = [unread EXCEPT ![r] =
                  IF disk[f].src # Gone /\ disk[f].src.build = "rejected" THEN {} ELSE @ \ {f}]
  /\ UNCHANGED <<files, watcher, graph, pc, callback, phase, held, stopping>>

(* The files whose rejection is RunTests' only result.                      *)
Rejected(texts) == {f \in DOMAIN texts : texts[f].src.build = "rejected"}

(* A failing result matches a module when the module's name occurs in the   *)
(* test's name, or its file is the result's.  Only a rejected file's result *)
(* names a file; a result of go test names a test, and the single result of *)
(* a build that failed names neither.                                       *)
Blames(texts, ran, o) ==
  \/ o.file \in Rejected(texts)
  \/ Rejected(texts) = {} /\ \E f \in ran : \E test \in texts[f].src.failing : o.name \in test

(* Defect: what is not blamed keeps its state.                              *)
StateAfterKept(blamed, before) == IF blamed THEN "failing" ELSE before

(* All modules of the run become healthy first, then the blamed ones failing. *)
StateAfter(blamed, before) == IF blamed THEN "failing" ELSE "healthy"

Verdict(graphNow, objs, texts, ran) ==
  [n \in DOMAIN graphNow |->
     LET m == graphNow[n] IN
     IF ~Among(m.obj, objs) THEN m
     ELSE [m EXCEPT !.state = StateAfter(Blames(texts, ran, m.obj), @),
                    !.judged = IF m.obj.file \in ran THEN texts[m.obj.file].ver ELSE 0,
                    !.abandoned = FALSE]]

(* go test has run: the verdict is applied and cascaded in one critical     *)
(* section.  ran are the files whose tests were executed: none when a file  *)
(* was rejected or does not compile; also none when the files do not fit    *)
(* together, all being put in one package, and not those that a file of the *)
(* same base name overwrote in the temporary directory or a panic in        *)
(* another file's test left out.                                            *)
Apply(r) ==
  /\ Running(r) /\ phase[r] = "read" /\ unread[r] = {}
  /\ \E ran \in SUBSET DOMAIN saw[r] :
       /\ (\E f \in DOMAIN saw[r] : saw[r][f].src.build # "succeeds") => ran = {}
       /\ mods' = Cascade(Verdict(mods, held[r], saw[r], ran))
  /\ Return(r)
  /\ UNCHANGED <<files, watcher, gen, scanned, callback, stopping>>

(* The process has ended.                                                   *)
Terminated == pc = "stopped" /\ UNCHANGED vars

-----------------------------------------------------------------------------
MainStep ==
  \/ \E f \in Files : ScanNext(f)
  \/ ScanDone \/ StartWatcher
  \/ \E f \in Files : ReadChanged(f)
  \/ ScanChanged \/ InvalidateBatch \/ MarkStale

RunStep(r) ==
  \/ Collect(r) \/ MarkRunning(r) \/ TempDirFails(r)
  \/ \E f \in Files : ReadSource(r, f)
  \/ Apply(r)

Next ==
  \/ \E f \in Files : \E src \in SourcesOf[f] : Edit(f, src)
  \/ Interrupt
  \/ MainStep
  \/ \E f \in Files : Deliver(f)
  \/ \E ready \in SUBSET Files : Flush(ready)
  \/ Exit
  \/ \E r \in FullRuns : Trigger(r)
  \/ \E r \in Runs : RunStep(r)
  \/ Terminated

Spec == Init /\ [][Next]_vars

(***************************************************************************)
(* Fairness: goroutines that can run do (go test is given to terminate, it *)
(* has a timeout of its own).  The watcher's select chooses at random      *)
(* among the ready cases, so a case that is ready again and again is taken *)
(* in the end: strong fairness of each event and of done.  A file nobody   *)
(* writes leaves the debounce window, so a flush with it comes.  Nobody    *)
(* has to edit, trigger or interrupt.                                      *)
(***************************************************************************)
FairSpec ==
  /\ Spec
  /\ WF_vars(MainStep)
  /\ \A r \in Runs : WF_vars(RunStep(r))
  /\ \A f \in Files : SF_vars(Deliver(f))
  /\ \A f \in Files : SF_vars(\E ready \in SUBSET Files : f \in ready /\ Flush(ready))
  /\ SF_vars(Exit)

-----------------------------------------------------------------------------
(* Every variable has its type; a module is filed under its own name.       *)
TypeOK ==
  /\ disk \in [Files -> Content] /\ scanned \in [Files -> Content]
  /\ missed \subseteq Files
  /\ watching \in BOOLEAN /\ stopping \in BOOLEAN
  /\ fsEvents \subseteq Files /\ pending \subseteq Files
  /\ IsGraph(mods)
  /\ gen \in [Files -> Nat]
  /\ pc \in {"scan", "tests", "watch", "idle", "rescan", "stale", "stopped"}
  /\ batch \subseteq Files /\ toScan \subseteq Files
  /\ buffer \subseteq [file : Files, text : Readable]
  /\ phase \in [Runs -> {"idle", "collect", "mark", "read"}]
  /\ held \in [Runs -> SUBSET Object]
  /\ unread \in [Runs -> SUBSET Files]
  /\ DOMAIN saw = Runs
  /\ \A r \in Runs : DOMAIN saw[r] \subseteq Files /\ saw[r] \in [DOMAIN saw[r] -> Content]

(* No healthy module shares an effect with a failing one, whatever full     *)
(* runs, rescans and callbacks interleave: the cascade of                   *)
(* runTestsForFiles covers the whole graph, not only the modules it ran.    *)
HealthyIsolated == Isolated(mods)

(* Every edit the watcher could see reaches the graph or is on its way:     *)
(* unless the last edit of a file raised no event, its last scan was given  *)
(* its present content, or an event, the debounce map, the batch in hand or *)
(* the text just read still stands for it.                                  *)
InPipeline(f) ==
  \/ f \in fsEvents \cup pending \cup toScan
  \/ \E b \in buffer : b.file = f /\ b.text = disk[f]

EditInPipeline ==
  \A f \in Files : scanned[f] = disk[f] \/ f \in missed \/ InPipeline(f)

(* The graph mirrors the files: its scans of a file go from older texts to  *)
(* newer ones, however late a text that was read is scanned, and one that   *)
(* is behind is followed by another, unless the last edit raised no event.  *)
Graph == INSTANCE Mirror WITH
  original <- [f \in Files |-> disk[f].ver],
  copy     <- [f \in Files |-> scanned[f].ver],
  due      <- {f \in Files : InPipeline(f)},
  unheard  <- missed

GraphMirrorsFiles == Graph!Spec

(* The graph holds exactly what the last scans saw, as far as one file can  *)
(* tell: a module belongs to a function of the text its file was last       *)
(* scanned with, and a function that performs effects in that text and is   *)
(* in no text of another file is in the graph with exactly those effects.   *)
OwnedBy(f, n) == \A g \in Files \ {f} : \A s \in SourcesOf[g] \ {Gone} : n \notin DOMAIN s.funcs

GraphMatchesScan ==
  /\ \A n \in DOMAIN mods :
       LET o == mods[n].obj IN
       /\ scanned[o.file].src # Gone /\ n \in DOMAIN scanned[o.file].src.funcs
       /\ o.gen = gen[o.file] /\ o.born = scanned[o.file].ver
  /\ \A f \in {g \in Files : scanned[g].src # Gone} :
       LET funcs == scanned[f].src.funcs IN
       \A n \in DOMAIN funcs \ {"main"} :
         funcs[n].performs # {} /\ OwnedBy(f, n)
           => n \in DOMAIN mods /\ mods[n].obj.file = f
              /\ mods[n].obj.performs = funcs[n].performs

(* A verdict is about the present text: when nothing of a file is in the    *)
(* pipeline, the last run that executed its tests for a module executed     *)
(* those of the file's present version.  A run that read an older version   *)
(* and answers late finds its objects replaced and changes nothing.         *)
VerdictCurrent ==
  \A n \in DOMAIN mods :
    LET f == mods[n].obj.file IN
    f \notin missed /\ ~InPipeline(f) => mods[n].judged \in {0, disk[f].ver}

(* A module that was never judged, or has to be judged again, is in the     *)
(* hands of Main, which will run its tests: no return path forgets it.      *)
PendingIsScheduled ==
  \A n \in DOMAIN mods : LET m == mods[n] IN
    /\ m.state = "unknown" =>
         \/ pc = "scan"
         \/ pc = "tests" /\ phase[Main] = "collect"
         \/ pc = "rescan" /\ m.obj.file \in batch
         \/ m.obj \in held[Main] /\ (pc = "stale" \/ phase[Main] = "mark")
    /\ m.state = "stale" => m.obj \in held[Main] /\ phase[Main] = "mark"

(* A module marked running is held by a run whose tests are under way,      *)
(* unless the run that marked it last gave up for want of a directory.      *)
Executing(n) == \E r \in Runs : phase[r] = "read" /\ mods[n].obj \in held[r]

RunningIsOwned ==
  \A n \in DOMAIN mods :
    mods[n].state = "running" => Executing(n) \/ mods[n].abandoned

-----------------------------------------------------------------------------
(* An edit that raised an event is scanned and judged in the end, unless a  *)
(* later edit of the file raises none or the daemon is stopped.             *)
Settled(f) ==
  /\ scanned[f] = disk[f]
  /\ \A n \in DOMAIN mods :
       mods[n].obj.file = f => mods[n].state \notin {"unknown", "stale"}

EditsAreJudged ==
  \A f \in Files :
    f \in fsEvents \cup pending ~> Settled(f) \/ f \in missed \/ pc = "stopped"

(* A module does not stay running unless its run gave up.                   *)
RunningEnds ==
  \A n \in Names :
    n \in DOMAIN mods /\ mods[n].state = "running"
      ~> \/ n \notin DOMAIN mods
         \/ mods[n].state # "running" \/ mods[n].abandoned
         \/ pc = "stopped"

(* Stop is obeyed, also when it comes during the startup run or a callback. *)
StopTerminates == stopping ~> pc = "stopped"

-----------------------------------------------------------------------------
(* The watcher waits, no run is under way and none has been given up.       *)
AtRest ==
  /\ pc = "idle" /\ fsEvents \cup pending = {}
  /\ \A r \in Runs : phase[r] = "idle"
  /\ \A n \in DOMAIN mods : ~mods[n].abandoned

(* daemon/state.go:21, "dependency is failing": with the watcher at rest, a *)
(* tainted module shares an effect with a failing one.                      *)
TaintedMeansDependencyFailing ==
  AtRest => \A n \in DOMAIN mods : mods[n].state = "tainted" =>
              \E m \in DOMAIN mods : mods[m].state = "failing" /\ Share(mods[m].obj, mods[n].obj)

(* daemon/daemon.go:34, "watches files, tracks the module graph": with the  *)
(* watcher at rest the graph was scanned from what the files now contain.   *)
RestGraphTracksDisk == AtRest => \A f \in Files : scanned[f] = disk[f]
=============================================================================
