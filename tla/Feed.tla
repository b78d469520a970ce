------------------------------- MODULE Feed -------------------------------
(***************************************************************************)
(* The feed (feed/server.go) between the daemon and its HTTP clients.      *)
(*                                                                         *)
(* The daemon's goroutines (Main with its startup and the watcher's        *)
(* callback, and the full runs) are producers.  Each goes through sections *)
(* of the graph's lock, which change the graph, and announcements, which   *)
(* Broadcast offers to every stream client under the server's mutex; After *)
(* says in which order.  Most sections have no announcement of their own:  *)
(* what a goroutine has changed since its last one is untold.  What a      *)
(* change is does not matter here, so the graph is the number of changes   *)
(* made to it, and an event tells of the changes that precede it in its    *)
(* own goroutine.                                                          *)
(*                                                                         *)
(* Sections that cannot block are one step; RLock waits for writers that   *)
(* wait, as sync.RWMutex does.  GET /api/v1/modules holds the read lock    *)
(* for as long as its client takes to read the answer.                     *)
(***************************************************************************)
EXTENDS Naturals, Sequences, FiniteSets, Functions

CONSTANTS
  Main,             (* the goroutine of Daemon.Run                         *)
  Runs,             (* goroutines of TriggerFullRun                        *)
  Heart,            (* the goroutine of StartHeartbeat                     *)
  Clients,          (* clients of GET /api/v1/stream                       *)
  Requests,         (* clients of GET /api/v1/modules                      *)
  Capacity,         (* of a client's channel: 64 in the code               *)
  MaxChanges,       (* bound: changes of the graph                         *)
  MaxEvents         (* bound: events                                       *)

Producers == Runs \cup {Main}
Emitters == Producers \cup {Heart}

ASSUME FeedAssumption ==
  /\ Main \notin Runs /\ Heart \notin Producers
  /\ Capacity \in Nat \ {0} /\ MaxChanges \in Nat /\ MaxEvents \in Nat

(* id is history: the position of the event among all.                       *)
Event == [id : Nat, tells : SUBSET Nat]

VARIABLES
  version,   (* of the graph: how many changes it has had                  *)
  reading,   (* requests whose answer is written under the read lock       *)
  at,        (* emitter -> the section or announcement it has come to      *)
  waits,     (* producers that have asked for the write lock               *)
  untold,    (* history: emitter -> its changes since its last event       *)
  emitted,   (* how many events there have been                            *)
  mu,        (* the emitter that broadcasts under Server.mu, if any        *)
  event,     (* emitter -> the event it is broadcasting                    *)
  offer,     (* emitter -> clients it has still to offer that to           *)
  clients,   (* Server.clients                                             *)
  stage,     (* client -> how far its handleStream is                      *)
  base,      (* client -> version of the snapshot it was sent              *)
  queue,     (* client -> its channel                                      *)
  seen,      (* client -> the events written to it                         *)
  dropped    (* history: client -> the events it lost                      *)

graph == <<version, reading>>
emitters == <<at, waits, untold>>
server == <<emitted, mu, event, offer>>
streams == <<stage, base, queue, seen, dropped>>
vars == <<graph, emitters, server, clients, streams>>

Sections == {"initial", "scan", "stale", "mark", "verdict"}
Announcements == {"file_changed", "graph_changed", "test_started", "test_completed", "heartbeat"}

NoEvent == [id |-> 0, tells |-> {}]

Init ==
  /\ version = 0 /\ reading = {}
  /\ at = [e \in Emitters |-> IF e = Main THEN "initial" ELSE "idle"]
  /\ waits = {}
  /\ untold = [e \in Emitters |-> {}]
  /\ emitted = 0 /\ mu = {}
  /\ event = [e \in Emitters |-> NoEvent]
  /\ offer = [e \in Emitters |-> {}]
  /\ clients = {}
  /\ stage = [c \in Clients |-> "away"]
  /\ base = [c \in Clients |-> 0]
  /\ queue = [c \in Clients |-> <<>>]
  /\ seen = [c \in Clients |-> <<>>]
  /\ dropped = [c \in Clients |-> {}]

WriterWaits == waits # {}
-----------------------------------------------------------------------------
(* Where a goroutine can go from a section or an announcement.  A graph       *)
(* without modules is not tested, files that cannot be read are skipped, a    *)
(* test_started comes for each module, and RunTests may fail, which nobody    *)
(* is told.                                                                   *)
After(place) ==
  CASE place = "initial"        -> {"mark", "idle"}
    [] place = "file_changed"   -> {"scan", "graph_changed"}
    [] place = "scan"           -> {"scan", "graph_changed"}
    [] place = "graph_changed"  -> {"stale", "idle"}
    [] place = "stale"          -> {"mark"}
    [] place = "mark"           -> {"test_started"}
    [] place = "test_started"   -> {"test_started", "verdict", "idle"}
    [] place = "verdict"        -> {"test_completed"}
    [] OTHER                    -> {"idle"}

(* The watcher calls back, or a full run is started; before the initial scan  *)
(* that finds no modules to run.                                              *)
Start(p) ==
  /\ at[p] = "idle"
  /\ p = Main \/ version > 0
  /\ at' = [at EXCEPT ![p] = IF p = Main THEN "file_changed" ELSE "mark"]
  /\ UNCHANGED <<graph, waits, untold, server, clients, streams>>

(* A producer asks for the write lock ...                                     *)
Lock(p) ==
  /\ at[p] \in Sections /\ p \notin waits
  /\ Cardinality(waits) + version < MaxChanges
  /\ waits' = waits \cup {p}
  /\ UNCHANGED <<graph, at, untold, server, clients, streams>>

(* ... gets it once nobody reads, changes the graph and releases it.          *)
Change(p) ==
  /\ p \in waits /\ reading = {}
  /\ waits' = waits \ {p}
  /\ version' = version + 1
  /\ untold' = [untold EXCEPT ![p] = @ \cup {version + 1}]
  /\ \E place \in After(at[p]) : at' = [at EXCEPT ![p] = place]
  /\ UNCHANGED <<reading, server, clients, streams>>

(* The ticker fires.  After Ctrl+C it no longer does.                         *)
Tick ==
  /\ at[Heart] = "idle" /\ emitted < MaxEvents
  /\ at' = [at EXCEPT ![Heart] = "build"]
  /\ UNCHANGED <<graph, waits, untold, server, clients, streams>>

(* buildHeartbeat, under the read lock.                                       *)
BuildHeartbeat ==
  /\ at[Heart] = "build" /\ ~WriterWaits
  /\ at' = [at EXCEPT ![Heart] = "heartbeat"]
  /\ UNCHANGED <<graph, waits, untold, server, clients, streams>>
-----------------------------------------------------------------------------
(* Broadcast takes the mutex and goes through the clients, in map order.      *)
BeginBroadcast(e, holders, to) ==
  /\ at[e] \in Announcements /\ e \notin mu /\ emitted < MaxEvents
  /\ mu' = holders
  /\ emitted' = emitted + 1
  /\ event' = [event EXCEPT ![e] = [id |-> emitted + 1, tells |-> untold[e]]]
  /\ untold' = [untold EXCEPT ![e] = {}]
  /\ offer' = [offer EXCEPT ![e] = to]
  /\ UNCHANGED <<graph, at, waits, clients, streams>>

(* Defect: broadcasts share the mutex, as with a read lock.                   *)
BroadcastShared(e) == BeginBroadcast(e, mu \cup {e}, clients)

(* Defect: only clients that have their snapshot are offered the event.       *)
BroadcastToStreams(e) ==
  mu = {} /\ BeginBroadcast(e, {e}, {c \in clients : stage[c] = "streaming"})

Broadcast(e) == mu = {} /\ BeginBroadcast(e, {e}, clients)

(* Defect: the channel grows instead.                                         *)
SendAlways(e, c) ==
  /\ e \in mu /\ c \in offer[e]
  /\ offer' = [offer EXCEPT ![e] = @ \ {c}]
  /\ queue' = [queue EXCEPT ![c] = Append(@, event[e])]
  /\ UNCHANGED <<graph, emitters, emitted, mu, event, clients, stage, base, seen, dropped>>

(* Defect: the send has no default case and waits for room.                   *)
SendBlocking(e, c) ==
  /\ e \in mu /\ c \in offer[e] /\ Len(queue[c]) < Capacity
  /\ offer' = [offer EXCEPT ![e] = @ \ {c}]
  /\ queue' = [queue EXCEPT ![c] = Append(@, event[e])]
  /\ UNCHANGED <<graph, emitters, emitted, mu, event, clients, stage, base, seen, dropped>>

(* The event is put into the client's channel, or dropped when that is full.  *)
Send(e, c) ==
  /\ e \in mu /\ c \in offer[e]
  /\ offer' = [offer EXCEPT ![e] = @ \ {c}]
  /\ IF Len(queue[c]) < Capacity
     THEN /\ queue' = [queue EXCEPT ![c] = Append(@, event[e])]
          /\ UNCHANGED dropped
     ELSE /\ dropped' = [dropped EXCEPT ![c] = @ \cup {event[e]}]
          /\ UNCHANGED queue
  /\ UNCHANGED <<graph, emitters, emitted, mu, event, clients, stage, base, seen>>

BroadcastEnds(e) ==
  /\ e \in mu /\ offer[e] = {}
  /\ mu' = mu \ {e}
  /\ event' = [event EXCEPT ![e] = NoEvent]
  /\ \E place \in After(at[e]) : at' = [at EXCEPT ![e] = place]
  /\ UNCHANGED <<graph, waits, untold, emitted, offer, clients, streams>>
-----------------------------------------------------------------------------
(* handleStream: a new channel is registered under the mutex ...              *)
Register(c) ==
  /\ stage[c] = "away" /\ mu = {}
  /\ clients' = clients \cup {c}
  /\ stage' = [stage EXCEPT ![c] = "registered"]
  /\ UNCHANGED <<graph, emitters, server, base, queue, seen, dropped>>

(* ... then the present state is built, under the read lock ...               *)
Snapshot(c) ==
  /\ stage[c] = "registered" /\ ~WriterWaits
  /\ base' = [base EXCEPT ![c] = version]
  /\ stage' = [stage EXCEPT ![c] = "snapshot"]
  /\ UNCHANGED <<graph, emitters, server, clients, queue, seen, dropped>>

(* ... and sent, as soon as the client reads it, before any event ...         *)
DeliverSnapshot(c) ==
  /\ stage[c] = "snapshot"
  /\ stage' = [stage EXCEPT ![c] = "streaming"]
  /\ UNCHANGED <<graph, emitters, server, clients, base, queue, seen, dropped>>

(* ... and then the channel's events, as fast as the client reads them.       *)
Deliver(c) ==
  /\ stage[c] = "streaming" /\ queue[c] # <<>>
  /\ seen' = [seen EXCEPT ![c] = Append(@, Head(queue[c]))]
  /\ queue' = [queue EXCEPT ![c] = Tail(@)]
  /\ UNCHANGED <<graph, emitters, server, clients, stage, base, dropped>>

(* The client goes away, and its channel is deleted with whatever is in it.   *)
Disconnect(c) ==
  /\ stage[c] = "streaming" /\ mu = {}
  /\ clients' = clients \ {c}
  /\ stage' = [stage EXCEPT ![c] = "away"]
  /\ base' = [base EXCEPT ![c] = 0]
  /\ queue' = [queue EXCEPT ![c] = <<>>]
  /\ seen' = [seen EXCEPT ![c] = <<>>]
  /\ dropped' = [dropped EXCEPT ![c] = {}]
  /\ UNCHANGED <<graph, emitters, server>>
-----------------------------------------------------------------------------
(* handleModules takes the read lock ...                                      *)
GetModules(r) ==
  /\ r \notin reading /\ ~WriterWaits
  /\ reading' = reading \cup {r}
  /\ UNCHANGED <<version, emitters, server, clients, streams>>

(* ... and gives it up when its client has read the answer or gone away.      *)
AnswerRead(r) ==
  /\ r \in reading
  /\ reading' = reading \ {r}
  /\ UNCHANGED <<version, emitters, server, clients, streams>>
-----------------------------------------------------------------------------
EmitterStep(e) ==
  \/ Broadcast(e) \/ BroadcastEnds(e) \/ \E c \in Clients : Send(e, c)
  \/ e \in Producers /\ Change(e)
  \/ e = Heart /\ BuildHeartbeat

Next ==
  \/ \E e \in Emitters : EmitterStep(e)
  \/ \E p \in Producers : Start(p) \/ Lock(p)
  \/ Tick
  \/ \E c \in Clients : Register(c) \/ Snapshot(c) \/ DeliverSnapshot(c) \/ Deliver(c)
                        \/ Disconnect(c)
  \/ \E r \in Requests : GetModules(r) \/ AnswerRead(r)

Spec == Init /\ [][Next]_vars

(* Goroutines are scheduled.  Nothing makes a client read, connect or go.      *)
FairSpec ==
  /\ Spec
  /\ \A e \in Emitters : WF_vars(EmitterStep(e))
-----------------------------------------------------------------------------
(* Every variable has its type, and no channel outgrows its capacity.         *)
TypeOK ==
  /\ version \in Nat /\ reading \subseteq Requests
  /\ at \in [Emitters -> {"idle", "build"} \cup Sections \cup Announcements]
  /\ waits \subseteq Producers /\ untold \in [Emitters -> SUBSET Nat]
  /\ emitted \in Nat /\ mu \subseteq Emitters
  /\ event \in [Emitters -> Event] /\ offer \in [Emitters -> SUBSET Clients]
  /\ clients \subseteq Clients /\ base \in [Clients -> Nat]
  /\ stage \in [Clients -> {"away", "registered", "snapshot", "streaming"}]
  /\ queue \in [Clients -> Seq(Event)] /\ seen \in [Clients -> Seq(Event)]
  /\ \A c \in Clients : Len(queue[c]) <= Capacity
  /\ dropped \in [Clients -> SUBSET Event]

(* The change is in what was written or queued, or was dropped because the    *)
(* client did not read.                                                       *)
Told(c, v) ==
  \E told \in Range(seen[c]) \cup Range(queue[c]) \cup dropped[c] : v \in told.tells

(* The change is part of a broadcast that has still to come to the client, or *)
(* its goroutine is on the way to an announcement.  There is one change that  *)
(* nobody need ever be told of: the initial scan of a project that has no     *)
(* modules yet.                                                               *)
ToBeTold(c, v) ==
  \E p \in Producers :
    \/ c \in offer[p] /\ v \in event[p].tells
    \/ v \in untold[p] /\ (at[p] = "idle" => p = Main /\ v = 1)

(* Of every change since its snapshot a client is told by an event: none      *)
(* falls between snapshot and stream, and no goroutine comes to rest with a   *)
(* change it has not announced.                                               *)
ToldOfEveryChange ==
  \A c \in Clients : stage[c] \in {"snapshot", "streaming"} =>
    \A v \in 1..version : v <= base[c] \/ Told(c, v) \/ ToBeTold(c, v)

(* Two clients are told of the same events in the same order, however the     *)
(* broadcasts of concurrent runs interleave, and of no event twice.           *)
Sent(c) == seen[c] \o queue[c]

ClientsAgreeOnOrder ==
  \A c, d \in Clients : \A i, j \in DOMAIN Sent(c) : \A k, l \in DOMAIN Sent(d) :
    i < j /\ k < l => ~(Sent(c)[i] = Sent(d)[l] /\ Sent(c)[j] = Sent(d)[k])

(* A goroutine that has something to announce gets on, also when no stream is *)
(* read.  One that waits for the graph can be held up for good by one thing:  *)
(* a client of /modules that does not read its answer, and so keeps the read  *)
(* lock.  (Past the bound on events no broadcast begins, but the last ends.)  *)
EmittersProceed ==
  \A e \in Emitters :
    /\ []<>(at[e] \notin Announcements \/ (emitted = MaxEvents /\ mu = {}))
    /\ []<>(e \notin waits /\ at[e] # "build") \/ \E r \in Requests : <>[](r \in reading)
=============================================================================
