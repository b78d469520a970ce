# Verification of gotype

gotype is Go with algebraic effects: a preprocessor turns `.tg` files into Go,
a daemon (`gotyped`, "Ananke") watches the `.tg` files, keeps a graph of the
functions that perform effects and retests what a change affects, a feed
streams what happens to HTTP clients, a reconciler checks effects in
production, and a language server stands between an editor and gopls. This
directory holds TLA+ models of the parts with state and concurrency, the TLC
runs that check them on small instances, and proofs.

## The system

| Part | State | Operations | Interacts with |
|---|---|---|---|
| Module graph, `daemon/state.go` | effects, modules and their states, under one RWMutex | Scan, ScanFile, Invalidate | the daemon writes it, feed and reconciler read it |
| Daemon, `daemon/daemon.go` | `done`, the graph, the watcher | Run, Stop, onFilesChanged, runAllTests, runTestsForFiles, TriggerFullRun | called back by the watcher; calls graph and runner; emits events to the feed |
| Watcher, `daemon/watcher.go` | fsnotify watches, debounce map | Run (select loop), flush | calls onFilesChanged on its own goroutine, holding its mutex |
| Runner, `daemon/runner.go` | a temporary directory per run | RunTests, parseTestJSON | reads the files again, calls the preprocessor and `go test` |
| Feed, `feed/` | set of client channels (64 events each) | Broadcast, handleStream, heartbeat, REST reads, handleRun | reads the graph under its lock; starts full runs in goroutines |
| Effect runtime, `runtime/effects.go` | handler stack, one unbuffered request channel per context | Perform, Run, Try, resume | user goroutines and handlers |
| Generated code, `preprocess/effects.go`, `concurrency.go` | channels of each handle, race or timeout | handle/with, perform, parallel, race, timeout | user code |
| Reconciler, `daemon/reconciler.go` | specs and statuses under a mutex | Scan, Run, checkInvariants, SimulateFail, SimulateDrift | reads the graph, broadcasts on the feed |
| Language server, `lsp/` | documents, files open in gopls, pending requests | the LSP handlers, Call, Notify, readLoop | editor, gopls, the shadow directory |
| gopls | its documents | answers, diagnostics | the language server's pipes |
| Preprocessor, `preprocess/` | none between files; the set of effectful functions within one | Process and its passes | everybody above |
| gotype command, VS Code extension | none | run the tools | not modelled |

What makes them correct, and what is hard about it:

* **Graph and daemon.** The watcher's callback, the startup run and any number
  of full runs started over HTTP interleave between the critical sections of
  `Graph.mu`, while users go on editing. An edit must not get lost between
  fsnotify, the debounce map, the callback and the scan; a run that answers
  late must not judge modules it did not test; no module may be left waiting
  for a test nobody will run; a failing module must taint its neighbours in
  every interleaving.
* **Feed.** A slow client must not hold up the daemon; a client's snapshot and
  the events after it must fit together, although most changes of the graph
  have no event of their own.
* **Effect runtime and generated code.** Every perform is answered by the
  right handler or its computation is abandoned; nobody waits for ever.
* **Preprocessor.** The functions that need a context are found by repeated
  passes over a map. What finds calls, what rewrites them, what decides whether
  a file is looked at, and the daemon, which reads the same texts by itself,
  have recognizers of their own: a function that uses a context must have one
  all the same, and where the daemon differs must be known.
* **Reconciler.** Nothing yet: its invariants always pass.
* **Language server.** Answers of gopls reach the request that asked, also
  after timeouts; documents and gopls agree on what is open and on its text,
  although texts may be rejected by the preprocessor; gopls may hang or die.

## Modules

| Module | Models |
|---|---|
| `ModuleGraph` | the graph as data: what a text declares, what a change invalidates, marking, cascading |
| `Daemon` (extends `ModuleGraph`) | `Main` (Daemon.Run, the watcher loop, onFilesChanged), full runs, RunTests, users |
| `EffectRuntime` | one Context of the effects runtime: its handler stack, its request channel, nested Trys |
| `Feed` | Broadcast, heartbeat, stream clients and the graph's lock, under events of the daemon |
| `HandlerCode` | the goroutines and channels of the Go emitted for perform, handle/with, parallel, race and timeout |
| `EffectAnalysis` (extends `ModuleGraph`) | the preprocessor's search for effectful functions, its pre-filter and rewriting passes, and the daemon's view of the same text |
| `GoplsProxy` | Call, Notify, readLoop and gopls itself (lsp/gopls.go) |
| `LspServer` (extends `GoplsProxy`) | the editor's messages and their handlers, documents and shadow files |
| `RequestReply` | abstract specification: requests are answered once and in order; `LspServer` implements it |
| `Mirror` | abstract specification: a copy of each file that only moves forward and never falls behind unnoticed; `Daemon` implements it |
| `MCDaemon`, `MCEffectRuntime`, `MCFeed`, `MCHandlerCode`, `MCEffectAnalysis`, `MCLspServer` | the small instances TLC checks |
| `ModuleGraph_proofs`, `Daemon_proofs`, `DaemonInvariants_proofs`, `Feed_proofs`, `EffectRuntime_proofs`, `HandlerCode_proofs`, `EffectAnalysis_proofs`, `LspServer_proofs` | theorems for every value of the constants |

A module that models code also holds a few operators marked "Defect": what a
plausible mistake in the definition after it would be. They belong to no
specification; replacing a definition by its defect must break the property
that is meant to catch it.

## How the models correspond to the code

### ModuleGraph and Daemon

| Model | Code |
|---|---|
| `mods` | `Graph.Modules` and `Graph.performs`. `mods[n].obj` is the identity of a `*Module`: a rescan makes new objects (`gen` counts the scans of the file), so a run that holds old pointers writes to nothing the graph still has (`Among`) |
| `fsEvents`, `pending`, `batch`, `toScan`, `buffer` | the watcher's channel, its debounce map, the argument of onFilesChanged and how far its loop is, the text read but not yet scanned |
| `phase`, `held`, `unread`, `saw` | the locals of runAllTests, runTestsForFiles and RunTests on each goroutine |
| `pc` | where Main is: initial scan, startup run, NewWatcher, the select loop, the callback |
| `disk`, `missed`, `scanned`, `judged` | files and their version numbers, and history the properties speak of |
| one action | one critical section of `Graph.mu`, or one step outside it (reading a file, a select) |

A text is what the parts can tell of it: its functions with the effects they
perform and the functions they call, whether the preprocessor rejects it, the
Go compiler does, or the build succeeds, and which functions its failing tests
name. `ScanOutcomes` is nondeterministic where the code iterates over a map:
a caller gets the effects of whichever effectful callee comes first
(state.go:199). Which of the built files' tests are executed and reported is
nondeterministic too: `go test` is not part of the repository. Time is left
out: `Flush` may take any set of pending files, which includes every choice
the debounce window can make. RunTests reads a file twice, the model once.

`Daemon` implements `Mirror` by the mapping `Graph`, which keeps only the
version numbers: the original is the version of the file on disk, the copy that
of its last scan, due are the files in the pipeline (an event, the debounce map,
the batch, or a text that was read and is still the present one), and unheard
those whose last edit raised no event. An edit is a change that is heard of or
not, a read is `Notice` or, of a file that is gone, `GiveUp`, a scan is
`Refresh`; whatever moves a file along the pipeline is a stutter. The scan of a
text that has been overdue since its read is a refresh that leaves the file due.

### EffectRuntime

Goroutine `g` executes the function of the `g`-th Try of the tower and then,
inside a Try of its own, the loop and the handlers of Try `g + 1`. `at[g]` is
the place in Try, Run, a handler or the function; `call[g]` the Perform in
progress; `requests` the requests received, with their reply channels of
capacity one; `stack` is `Context.stack`. Functions and handlers are arbitrary
within the bounds. `liberties` is chosen once per behaviour: whether handlers
of this program ever return without resuming, and whether they perform.

### Feed

Producers are the goroutines of the daemon. `at` says to which section of the
graph's write lock, or to which announcement, each has come, and `After` in
which order: the initial scan, then marking, a test_started for each module, the
verdicts and test_completed; or, called back by the watcher, file_changed, a
section for each file scanned, graph_changed, the stale marking, and the tests.
Five kinds of section thus share five kinds of announcement, and some ways end
without one. The graph is reduced to its number of changes, and an event tells
of what its goroutine has changed since its last one (`untold`). Broadcast goes
client by client under `Server.mu`, in any order. A section that cannot block is
one step, so the write lock is held only inside `Change`; a writer that waits
keeps new readers out. A stream client may stop reading at any time, and a
client of /modules need never read its answer, which holds the read lock.

The initial scan of a project without modules is never announced, since no test
starts: `ToldOfEveryChange` exempts this one change, and no other.

### HandlerCode

A task is a goroutine of a program, 1 is main. `role` and `parent` say as part
of which construct it was started; `construct`, `kids` and `results` are what
it waits for in one. `frame` is the goroutine whose handle's `__eff` it sends
on: the code of a handle declares a new `__eff` for its body
(effects.go:455), everybody else inherits one. `request` and `reply` are the
last perform of a task and its reply channel, with room for one value
(effects.go:430); `serving`, `served` and `resumes` belong to the case that
a task which waits in a handle executes. The program is arbitrary: each
running task may perform, enter any construct with any cases, or end. It is
`tame` or not from the start, and only `TameProgramEnds` asks for a tame one.

What the code does otherwise than one may think, and the model with it:

* Constructs are expanded before effects (preprocess.go:39-40, although
  concurrency.go:7 says the opposite), so performs in branches are rewritten.
  A construct that stands inside another's branch in the same function is not
  expanded; nesting happens through calls.
* The losers of a race go on (the context of concurrency.go:24 is not used),
  and so does the body of a timeout beside its fallback: both may write what
  the winner wrote.
* An effect the nearest handle has no case for is taken off the channel and
  dropped; its performer waits for ever, although a handle further out may have
  one (the fifth finding). The runtime of `runtime/effects.go` does look further
  out (runtime/effects_test.go:63). These two implementations of effects are
  therefore two models. `InnermostCaseAnswers` says who answers if anyone does,
  `BubblesUpToACase` that somebody gets to.
* A handler case sees the handle's own `__eff`: one that performs, or calls an
  effectful function, waits for itself. A race whose branches return no value
  waits for ever. A third resume in one case blocks.

### EffectAnalysis

`source` is what a text has for its readers: who performs, in a statement,
within an expression or only in a comment, and the occurrences of names that
look like calls to one reader or another, each with the place it is in and its
spelling. `Spellings` are plain; with white space before the parenthesis; piped,
which the sugar pass has made plain; the end of a longer name; and the
declaration of a method. Each reader has its recognizer:

| Recognizer | plain | spaced | piped | suffix | declaration |
|---|---|---|---|---|---|
| `Calls`, containsCall (effects.go:181) | yes | yes | yes | no | no body |
| `GivenEff`, injectEffArgs (effects.go:269) | yes | no | yes | no | yes |
| `SeenByDaemon` (state.go:200) | yes | no | no | yes | no body |

| Recognizer | statement | inner | comment |
|---|---|---|---|
| `ContainsEffectSyntax` (effects.go:92) | yes | no | no |
| `Performers` (effects.go:147) | yes | yes | yes |
| `DaemonText` (state.go:77) | yes | yes | no |

`Text` is the order in which the functions are visited. `phase` goes from the
pre-filter, which may leave the file untouched, over seeding and the passes of
the fixpoint (effects.go:117) to the pass that adds parameters, the one that adds
arguments, and the generated file.

Two properties relate the recognizers. `UsersHaveContext` is what the generated
code needs: within functions, nothing is rewritten as a call that the analysis
has not found. The converse does not hold (see the findings). `DaemonAgrees` says how far the daemon sees the same functions: it
names the ways of writing that set the two apart, in both directions.

The module does not say that every accepted program compiles: a method named
like an effectful function is rewritten as if its declaration were a call
(effects.go:290); a function that handles all it performs is still effectful, so
main must call it inside a handle; each file is transformed alone, so that
callees in other files get no context, while the daemon does count them. These
are noted here and no property is about them. checker.go:11 promises that each
effect is handled in the call chain up to main; the code asks for a case
anywhere in the file.

### GoplsProxy and LspServer

| Model | Code |
|---|---|
| `pc`, `then`, `out`, `answer` | the goroutine of Server.Run, in Call, in Notify, or in a handler; where it goes on; what it writes; what Call returned |
| `nextID`, `pending`, `channel`, `inHand` | GoplsProxy.nextID and pending, the channel of the current call, the answer readLoop has taken out of pending and not yet sent |
| `toGopls`, `fromGopls`, `owed`, `known` | the pipes, the calls gopls has read, the texts it has |
| `docs`, `shadow`, `opened`, `forwarded` | DocumentStore, the files of the shadow project, goplsOpened, and, as history, the last diagnostics the editor got |
| `asked`, `replies` | history: the requests of the editor and what each was answered with |

Texts are numbers that grow with time, and the preprocessor accepts or rejects
each. The editor keeps to its protocol: a second initialize, and didClose
before initialize, which finds no shadow project, are left out, and so are
requests of gopls, which the server never answers, errors of the disk and the
translation of positions and URIs.

The model also shows what no property promises. A parse error that the server
publishes is overwritten by gopls' later diagnostics of the last valid text,
and diagnostics may come for a document that is closed. The shadow keeps the
unsaved text of a closed document, and files changed outside of the editor are
not mirrored again. `Running` stays true when gopls has died. The ten seconds
of Call bound the wait for the answer only: a gopls that lives and reads
nothing blocks the write, and with it the server, for ever. A call whose write
fails leaves its entry in `pending`, which is the exception in
`PendingIsAwaited`.

## What the runs check

| Run | Instance | Shows |
|---|---|---|
| `daemon` | two files, one edit of each, texts that pass, fail, move an effect, do not compile, are rejected or vanish, one full run | healthy modules never share an effect with failing ones; no edit gets lost between fsnotify, debounce, callback and scan; the graph is what the last scans saw; verdicts are about present texts; no module waits for a test nobody will run |
| `daemon_live` | two edits of one file, one full run | edits are judged, runs end, Stop is obeyed; the daemon implements `Mirror`, also when a file is edited between its read and its scan |
| `daemon_tainted`, `daemon_startup` | as `daemon` | the first two findings below |
| `effects` | two effects, two Trys (nested or in sequence), two performs, up to three resumes per handler | the innermost handler answers whichever loop receives, the stack holds exactly the handlers of the Trys under way, Trys return unless a handler resumes a third time |
| `effects_abandoned` | one perform in a nested Try | the third finding |
| `handlers` | every program of up to four goroutines and three performs of one effect, constructs nested in any way | who answers is the innermost handle with a case for the effect, with the answer to this very request; a handle outlives all that can perform on it; the reply channel never holds two values; a tame program ends |
| `handlers_abandoned` | two goroutines, one perform | the fourth finding |
| `handlers_bubbling` | a handle in a handle, one perform | the fifth finding |
| `effect_analysis` | every call graph of three functions with any performers, and every file of three functions and main with at most one perform and two calls, written in any way | the fixpoint finds the least set; functions that use a context have one; the daemon finds the same functions but for the spellings named; the passes end |
| `lsp` | one document, up to four messages of the editor and exit, pipes for two messages | the server implements `RequestReply`; pending entries do not outlive their calls; gopls has open what the editor has, with the last valid text, and is never told to open twice or to change what is closed; answers are about present texts; diagnostics do not go back; readLoop and exit are not held up |
| `feed` | Main, the heartbeat, two stream clients with room for one event, one reader of /modules, four changes, two events | each change since a client's snapshot is announced to it, clients agree on the order of events; no client of the stream holds up an emitter, and only a client of /modules that does not read can |

**Why the bounds are enough.** One edit of each of two files while a full run is
under way gives every pair of overlaps the code has: a rescan under a run that
holds the old modules, a callback beside a full run, two files in one batch and
in two, an effect that moves so that two files come to share it. A second edit
of one file during its own callback is in the liveness instance. Two nested Trys
are the least in which a loop can take a request that belongs to another, two
effects the least in which the inner Try does not handle what is performed; a
third resume is the first that blocks. A channel with room for one event is full
as soon as a client does not read; two broadcasts are the least that can be put
in two orders. Four changes take Main through the scans of two files to the
announcement they share, and on to the stale marking; the heartbeat is the
second emitter. A full run emits as Main does at startup, and the theorems are
about any number of them. Four goroutines allow a handle in a branch of a race,
beside another branch and under a handle: the least in which a perform could go
to the wrong one; three performs allow two at once after one that was answered.
Three functions allow a chain, which needs a second pass in one order and not in
the other, and a cycle; two calls, each written in any way, give every
disagreement of two recognizers about a function and about whoever calls it.
Four messages of the editor allow initialize, an open, and two queries, the
first of which times out and is answered during the second; a document may be
opened, changed to a rejected text, closed and opened again.

**Fairness.** `Daemon!FairSpec`: goroutines that can run do, and `go test` ends
(it has a timeout of its own). Go's select picks at random among the ready
cases, so that what is ready again and again is taken in the end: strong
fairness of each event and of done. A file nobody writes leaves the debounce
window, so that a flush with it comes. `EffectRuntime!FairSpec`: each goroutine
goes on when it can, and user code comes to an end. `Feed!FairSpec`: emitting
goroutines go on, and Mutexes of Go let nobody starve. Nothing is assumed of
clients. One of /modules that does not read stops every writer of the graph
(feed/server.go:180), because the answer is encoded under the read lock and the
server has no write timeout: `EmittersProceed` names this as the one exception.
`HandlerCode!FairSpec`: each goroutine goes on when it can, and user code comes
to an end. `EffectAnalysis!FairSpec`: the passes go on. `LspServer!FairSpec`:
the goroutines go on and timers fire. Of gopls it is assumed only that it reads
its input while it lives, not that it ever answers.

**Deadlock** is checked except in the runs of `EffectRuntime`, `HandlerCode` and
`EffectAnalysis`. Programs end when their outermost function does nothing more,
and stop when one performs what nobody will answer; the analysis ends with the
generated file, or with the untouched one.

## Findings

1. *A module stays tainted though nothing it depends on fails*
   (`daemon_tainted`). Invalidate sees only the new effects of a changed file.
2. *Edits made during the startup run are never seen* (`daemon_startup`). The
   watches are installed after it.
3. *An abandoned computation goes on* (`effects_abandoned`). A perform inside a
   nested Try, handled by the outer Try without resume, ends the nested
   goroutine only: the outer function continues after the nested Try, and as
   its own loop now only waits for its end (effects.go:139), its next perform
   blocks for ever.
4. *A handle whose case does not resume never returns* (`handlers_abandoned`).
   llms.txt:127 and 193 say that the computation is abandoned. The loop goes on
   to wait for the end of the body (effects.go:483), and the body waits for the
   reply: whatever follows the handle is never reached.
5. *An effect does not bubble up* (`handlers_bubbling`). llms.txt:78 says that it
   does until a handle catches it. The innermost handle takes every request off
   its channel, and its switch has no default (effects.go:485): one without a
   case drops it, and the performer waits for ever.

Disagreements the models have too, on which no run is spent:

* A module whose file does not compile is reported healthy, although state.go:18
  says "all tests pass". The only result of a failed build names neither test
  nor file (runner.go:153), so that daemon.go:255 finds nobody to blame.
* docs/transpilation-reference.md:95 says that functions which contain `perform`
  get the parameter. The pre-filter (effects.go:92) sees a perform at the start
  of a line or after `= ` only: a file without effect declaration and handle
  that performs elsewhere, as that page's own `return perform` does, is passed
  over.
* The same page says that call sites are updated. `save (x)` makes its function
  effectful (effects.go:192) but is not rewritten (effects.go:280), and the
  generated Go does not compile.

Met while modelling: `resume` writes a flag the loop
reads without a lock when a handler hands it to another goroutine
(effects.go:134); a third resume in one handler blocks for ever
(effects.go:135), as `TrysReturn` says; an effect performed by a handler and
abandoned ends the goroutine of the loop and unwinds its Try while a nested one
goes on. `StackMatchesTrys` and `InnermostHandles` do not hold for programs
whose handlers do both, and `MCPrograms` leaves these out.

## What is proved

`Daemon_proofs`, for any set of files, texts, full runs and versions, from
`ModuleGraphAssumption` and `DaemonAssumption` alone:

* `TypeCorrect`: `Spec => []TypeOK`. `TypeOK` is inductive; the graph
  operators are typed by the lemmas of `ModuleGraph_proofs`.
* `HealthyModulesAreIsolated`: `HealthyIsolated` is inductive with `TypeOK`.
  Every action either marks modules with a state that is neither healthy nor
  failing, removes or adds modules as unknown, or ends in a cascade over the
  whole graph, for which `CascadeIsolates` is proved.
* `NoEditIsLost`: `EditInPipeline` needs `PipelineInv`. `Control` says where
  the callback's locals can be non-empty, and `Underway` that a file which was
  deleted, or edited again after the callback read it, is accounted for.
* `VerdictsAreCurrent`: `VerdictCurrent` needs `VersionInv`. No scan, no text
  just read and no verdict is newer than the file; the objects in the graph
  come from the last scan of their file; and a run that still holds an object
  of the graph read a version that is not older than that scan. So a verdict is
  between the last scan and the present text, and these agree once nothing of
  the file is in the pipeline (`PipelineInv`).

`Feed_proofs`, for any producers, clients and capacity, from `FeedAssumption`:

* `FeedTypeCorrect`: `TypeOK` is inductive; a channel never outgrows its
  capacity.
* `ClientsAreTold`: `ToldOfEveryChange` needs `StreamInv`, which adds that a
  client is registered exactly while its handler runs (a broadcast then
  offers its event to every client that has a snapshot), that only a broadcast
  under way offers anything, and where a goroutine may be that has a change it
  has not announced. A change is told of by its producer, then by the broadcast,
  the channel, and what was written or dropped.
* `OneOrderForAll`: `ClientsAgreeOnOrder` needs `OrderInv`. One broadcast is
  under way at a time (`MutexHeld`); an event is one producer's (`OwnEvents`)
  and nobody was sent it before he is offered it (`Unsent`); and while it is
  being broadcast nobody is sent a later one after it (`Latest`).

`DaemonInvariants_proofs`, from the assumptions of `Daemon_proofs`:

* `PendingModulesScheduled` and `RunningModulesOwned`: `PendingIsScheduled` and
  `RunningIsOwned` are inductive with `Control` and with `BatchScanned`, that
  what the callback has still to scan is part of its batch. The first needs
  that only Main scans, and that between its scan and its run Main holds what
  it has invalidated; the second that a run changes what it holds only while
  it is not reading.
* `GraphIsLastScan`: `GraphMatchesScan` needs `Sourced`, that whatever was read
  of a file is one of its texts, so that no other file's scan can take a name
  that only this file declares, and `Unvisited`, that the initial scan finds no
  module of a file it has yet to visit.
* `GraphIsMirror`: `Spec => GraphMirrorsFiles`, that is, `Daemon` implements
  `Mirror`. Initial states map to initial states, and by `MirrorStep` each action
  to an action of `Mirror` or a stutter. It needs `PipelineInv` and
  `ScansNotNewer` of `Daemon_proofs` (a deleted file may be given up because its
  deletion raised no event; an overdue text because the newer one is heard of or
  cannot be) and `ReadNotOlder`, that nobody scans a file between the
  callback's read and its scan. `ScansMoveForward` and `GraphInStep` follow:
  what `Mirror` has of safety, stated of the daemon.

`ModuleGraph_proofs`, for any names, effects and texts:

* `CascadeIsolates`, and the types of the graph operators.
* `ScanNamesDetermined`: all results of a scan declare the same names. If one
  declared a name that another does not, the earliest such name in the order of
  inheritance would have inherited from a callee that the other knows, and the
  other would have gone on.
* `ScanHasOutcome`: the propagation loop ends with some result. Of all sets of
  callers that can have inherited so far (`Inherited`), take one that leaves out
  the fewest: nobody it leaves out has anything to inherit (`InheritMore`).

`EffectRuntime_proofs`, for any effects, depth of nesting and number of Trys,
performs and resumes, from `EffectRuntimeAssumption`:

* `RuntimeTypeCorrect`: `TypeOK` is inductive with `Control`, which says what
  the fields of a goroutine hold at each place.
* `StackIsTrys`, `InnermostTryHandles`: `StackMatchesTrys` and
  `InnermostHandles` hold in programs whose handlers do not both perform and
  return without resuming (`Tame`; see the findings for the others). They need
  `TowerInv`: every goroutine below a living one runs the loop or a handler of
  its Try, no goroutine is being unwound, and one that is in no Try of its own
  has nothing installed. A frame found from the top of the stack is then one of
  the innermost Try that handles the effect (`TopmostIsInnermost`).

`HandlerCode_proofs`, for any number of goroutines and performs and any
effects, from `HandlerCodeAssumption`:

* `HandlersTypeCorrect`, `RepliesAnswerRequests`: `HandlerInv` says, goroutine
  by goroutine (`Sound`), that one which waits has a request, and that only one
  which awaits a reply has one, to that request. A resume reaches nobody but
  the goroutine that reads the channel of the request served.

* `InnermostAnswers`, `HandleOutlives`: both need `Structure`. `Tree` says who
  started whom and that a goroutine's frame is its own if it is the body of a
  handle, else its starter's; `Waiting`, that the kids of a construct are its
  own while it waits; `Serving`, that a request is only served by the goroutine
  that waits in the handle whose body is the performer's frame; `Attached`, that
  in a tame program no handle and no parallel is left before its goroutines end.
  `CaseInv` adds that a handle only serves requests for which it has a case.
  `Line(t)`, the goroutines from `t` up to `Main`, is the least set with `t`
  that holds the parents of its members (`LineLeast`). The frame is the body of
  the innermost handle in it (`FrameEncloses`), by the least goroutine for which
  it would not be, so that whoever answers is the innermost with a case; and
  nobody in the line of a goroutine that is still awaited has been left behind
  (`LineHolds`).

`EffectAnalysis_proofs`, for any functions and effects, from
`ModuleGraphAssumption` and the assumptions of `EffectAnalysis`:

* `AnalysisTypeCorrect`, and `EffectfulIsLeast`: a pass that has changed
  nothing so far has found every caller of an effectful function among the
  functions it visited (`Seen`), so that at its end the set is closed under
  calls; and no set closed under calls leaves out a member (`Least`).
* `FunctionsHaveContext`: `UsersHaveContext` needs `Wired`, what the rewriting
  passes have done. Within a function, what `GivenEff` recognizes `Calls` does
  too, since methods are not declared there; and the set is closed under calls.
* `DaemonShowsEffectful`: `DaemonAgrees`. If no call or perform is written in a
  way the daemon misses, the names its scan adds, with main, are closed under
  calls, so that no effectful function is missing (`EffectfulAreShown`). If no
  longer name ends in a callee's, the first of the names it adds by inheritance
  that is not effectful would have inherited from one that is
  (`ShownAreEffectful`).

`LspServer_proofs`, for any documents, capacity of the pipes and number of
messages, from `GoplsProxyAssumption` and `LspAssumption`:

* `LspTypeCorrect`: `TypeOK` is inductive.
* `LspInductive`: the invariant behind the rest. `Turns` says where Server.Run
  is between taking a request and answering it; `Fresh`, that identifiers are
  used once and the channel holds answers to the current call only; `Awaited`,
  who may still use an entry of `pending`; `OwnAnswer`, that whatever bears the
  identifier of the current call, in the pipes, in gopls or in readLoop's hand,
  was made for it. `Carried` collects these, and `BearersStep` shows that a
  step adds to it only the call being written.
* `PendingEntriesAwaited`: a consequence.
* `ImplementsRequestReply`: `Spec => Promise!Spec`, the safety part of
  `AnswersOnceInOrder`. Each handler maps to a step of `RequestReply` or to a
  stutter; that the answer is the request's own is `OwnAnswer`.
* `DiagnosticsInOrder`: `Spec => DiagnosticsMoveForward`, from `Ordered`. A text
  of a document goes from its shadow file to the message being written, the
  pipe, gopls, the pipe back and the editor, and texts get older along this way:
  there are three texts that divide what is in the stations (`InOrder`). Each
  step moves one text past one of them (`Moved`).

* `GoplsAgrees`, `ProtocolKept`: consequences of `Dialogue`. A message is polite
  if it opens a document that is closed by then, or changes or closes one that
  is open; all that is under way to gopls is (`Polite`), starting from what gopls
  has read (`known`); and after the last message gopls has of each document what
  the server expects (`Had`, `Expected`), open if and only if it is in `opened`.
  A message appended and one removed at the head keep this (`PoliteAppend`,
  `PoliteTail`), and each handler appends what fits (`ConversesKeeps` and the
  lemmas after it).
* `AnswersCurrent`: `AnswersAreUpToDate` needs `UpToDate`. Nothing bears the
  identifier of a call that is being written; while the server waits, the call is
  the last message in the pipe, and once gopls has read it the pipe is empty, so
  that by `Dialogue` gopls has the last valid texts when it answers; and no
  document changes while the server waits.

Where an argument is by induction over data, it goes by the least element of a
set of naturals (`LeastElement`), since the induction theorems of the library
take an operator as a parameter, which the provers cannot instantiate. That is
why `Line` and what is said of the messages under way are defined by sets and
quantifiers, without recursion.

Only model-checked: the liveness properties (`EditsAreJudged`, `RunningEnds`,
`StopTerminates`, `TrysReturn`, `TameProgramEnds`, `EmittersProceed`,
`AnalysisEnds`, `ExitTerminates`, `ReadLoopProceeds`, and the fairness of
`RequestReply` in `AnswersOnceInOrder`), since the provers have no liveness
under fairness. Every safety property that a run checks is a theorem.

## Not modelled

* Text: the rewriting of sugar and types, the spelling of events, the brace
  matching of the scanner. Their properties are about strings, which tests
  reach. The checker compares three sets of names.
* The Reconciler. Its invariants always pass (reconciler.go:204), and the
  commands that inject a failure run no loops beside it: in the program as it
  is, every status stays healthy.
* The `gotype` command, the tables of the language server and the VS Code
  extension: no state of their own.
* The limit of fsnotify's queue, after which events are lost
  (watcher.go:85), and time.
* Handlers that enter Trys of their own, resume from other goroutines, and
  effects performed outside of any Try, which block for ever.
* The variables of programs, panics in branches, and constructs inside handler
  cases, in `HandlerCode`.

## Plan

What is left, in this order:

1. `Watcher`: the debounce with a clock, refining the `pending` and `Flush` of
   `Daemon` (INSTANCE with a refinement mapping).
2. `System`: `Daemon` and `Feed` composed, `Feed`'s producers refined by the
   goroutines of `Daemon`.
3. `Reconciler`, once its invariants are executed.
