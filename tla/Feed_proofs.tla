--------------------------- MODULE Feed_proofs ---------------------------
(***************************************************************************)
(* Theorems about the feed, for any producers, clients and capacity: its   *)
(* types, that nothing falls between a client's snapshot and stream, and   *)
(* that all clients are told of the events in one order.                  *)
(***************************************************************************)
EXTENDS Feed, SequenceTheorems, TLAPS

(* What a channel holds once an event was put into it, or taken out.        *)
LEMMA RangeOfAppend ==
  ASSUME NEW S, NEW s \in Seq(S), NEW x \in S
  PROVE  Range(Append(s, x)) = Range(s) \cup {x}
<1> DEFINE n == Len(s)
<1>1. /\ n \in Nat /\ DOMAIN s = 1..n /\ DOMAIN Append(s, x) = 1..(n + 1)
      /\ Append(s, x)[n + 1] = x /\ \A i \in 1..n : Append(s, x)[i] = s[i]
  OBVIOUS
<1> HIDE DEF n
<1>2. 1..(n + 1) = 1..n \cup {n + 1}
  BY <1>1
<1>3. Range(Append(s, x)) = {Append(s, x)[i] : i \in 1..n} \cup {x}
  BY <1>1, <1>2 DEF Range
<1>4. {Append(s, x)[i] : i \in 1..n} = {s[i] : i \in 1..n}
  BY <1>1
<1> QED BY <1>1, <1>3, <1>4 DEF Range

LEMMA RangeOfTail ==
  ASSUME NEW S, NEW s \in Seq(S), s # <<>>
  PROVE  Range(s) = {Head(s)} \cup Range(Tail(s))
<1>1. Len(s) \in Nat \ {0} /\ DOMAIN s = 1..Len(s) /\ Head(s) = s[1]
  OBVIOUS
<1>2. DOMAIN Tail(s) = 1..(Len(s) - 1) /\ \A i \in 1..(Len(s) - 1) : Tail(s)[i] = s[i + 1]
  OBVIOUS
<1>3. ASSUME NEW x \in Range(s) PROVE x \in {Head(s)} \cup Range(Tail(s))
  <2>1. PICK i \in 1..Len(s) : x = s[i]
    BY <1>1 DEF Range
  <2>2. CASE i = 1
    BY <2>1, <2>2, <1>1
  <2>3. CASE i # 1
    <3>1. i - 1 \in 1..(Len(s) - 1) /\ Tail(s)[i - 1] = x
      BY <2>1, <2>3, <1>1, <1>2
    <3> QED BY <3>1, <1>2 DEF Range
  <2> QED BY <2>2, <2>3
<1>4. ASSUME NEW x \in {Head(s)} \cup Range(Tail(s)) PROVE x \in Range(s)
  <2>1. CASE x = Head(s)
    BY <2>1, <1>1 DEF Range
  <2>2. CASE x \in Range(Tail(s))
    <3>1. PICK i \in 1..(Len(s) - 1) : x = Tail(s)[i]
      BY <2>2, <1>2 DEF Range
    <3>2. i + 1 \in 1..Len(s) /\ s[i + 1] = x
      BY <3>1, <1>1, <1>2
    <3> QED BY <3>2, <1>1 DEF Range
  <2> QED BY <2>1, <2>2
<1> QED BY <1>3, <1>4

-----------------------------------------------------------------------------
(* Where a goroutine can go: never back to the initial scan, and from a      *)
(* section to rest only from that.                                          *)
Places == {"idle", "build"} \cup Sections \cup Announcements

LEMMA AfterPlaces ==
  ASSUME NEW place \in Places, NEW next \in After(place)
  PROVE  /\ next \in Places \ {"initial"}
         /\ place \in Sections /\ next = "idle" => place = "initial"
BY DEF After, Places, Sections, Announcements

(* What Send does to the channel of its client, and to no other.            *)
LEMMA SendType ==
  ASSUME TypeOK, NEW e \in Emitters, NEW c \in Clients, Send(e, c)
  PROVE  TypeOK'
<1>0. event[e] \in Event
  BY DEF TypeOK
<1>1. CASE Len(queue[c]) < Capacity
  <2>1. queue' = [queue EXCEPT ![c] = Append(queue[c], event[e])] /\ UNCHANGED dropped
    BY <1>1 DEF Send
  <2>2. Append(queue[c], event[e]) \in Seq(Event)
    BY <1>0 DEF TypeOK
  <2>3. Len(Append(queue[c], event[e])) = Len(queue[c]) + 1
    BY DEF TypeOK
  <2>4. Len(queue[c]) \in Nat /\ Len(queue[c]) + 1 <= Capacity
    BY <1>1, FeedAssumption DEF TypeOK
  <2>5. queue' \in [Clients -> Seq(Event)]
    BY <2>1, <2>2 DEF TypeOK
  <2>6. \A d \in Clients : Len(queue'[d]) <= Capacity
    BY <2>1, <2>3, <2>4 DEF TypeOK
  <2> QED BY <2>1, <2>5, <2>6 DEF TypeOK, Send, graph, emitters
<1>2. CASE ~(Len(queue[c]) < Capacity)
  <2>1. dropped' = [dropped EXCEPT ![c] = @ \cup {event[e]}] /\ UNCHANGED queue
    BY <1>2 DEF Send
  <2>2. dropped' \in [Clients -> SUBSET Event]
    BY <2>1, <1>0 DEF TypeOK
  <2> QED BY <2>1, <2>2 DEF TypeOK, Send, graph, emitters
<1> QED BY <1>1, <1>2

LEMMA DeliverType ==
  ASSUME TypeOK, NEW c \in Clients, Deliver(c)
  PROVE  TypeOK'
<1>1. queue[c] \in Seq(Event) /\ seen[c] \in Seq(Event) /\ queue[c] # <<>>
  BY DEF TypeOK, Deliver
<1>2. Head(queue[c]) \in Event /\ Tail(queue[c]) \in Seq(Event) /\ Len(Tail(queue[c])) = Len(queue[c]) - 1
  BY <1>1
<1>3. Len(queue[c]) \in Nat /\ Len(Tail(queue[c])) <= Capacity
  BY <1>1, <1>2, FeedAssumption DEF TypeOK
<1>4. queue' \in [Clients -> Seq(Event)] /\ \A d \in Clients : Len(queue'[d]) <= Capacity
  BY <1>2, <1>3 DEF TypeOK, Deliver
<1>5. seen' \in [Clients -> Seq(Event)]
  BY <1>1, <1>2 DEF TypeOK, Deliver
<1> QED BY <1>4, <1>5 DEF TypeOK, Deliver, graph, emitters, server

LEMMA ConnectionType ==
  ASSUME TypeOK, NEW c \in Clients,
         Register(c) \/ Snapshot(c) \/ DeliverSnapshot(c) \/ Disconnect(c)
  PROVE  TypeOK'
<1>1. CASE Register(c)
  BY <1>1 DEF TypeOK, Register, graph, emitters, server
<1>2. CASE Snapshot(c)
  BY <1>2 DEF TypeOK, Snapshot, graph, emitters, server
<1>3. CASE DeliverSnapshot(c)
  BY <1>3 DEF TypeOK, DeliverSnapshot, graph, emitters, server
<1>4. CASE Disconnect(c)
  <2>1. <<>> \in Seq(Event) /\ Len(<<>>) <= Capacity
    BY FeedAssumption
  <2> QED BY <1>4, <2>1 DEF TypeOK, Disconnect, graph, emitters, server
<1> QED BY <1>1, <1>2, <1>3, <1>4

LEMMA EmitterType ==
  ASSUME TypeOK, NEW e \in Emitters,
         \/ e \in Producers /\ (Start(e) \/ Lock(e) \/ Change(e))
         \/ e = Heart /\ (Tick \/ BuildHeartbeat)
         \/ Broadcast(e) \/ BroadcastEnds(e)
  PROVE  TypeOK'
<1>1. CASE e \in Producers /\ Start(e)
  <2>1. {"idle", "build"} \cup Sections \cup Announcements = Places
    BY DEF Places
  <2>2. "file_changed" \in Places /\ "mark" \in Places
    BY DEF Places, Sections, Announcements
  <2>3. at' \in [Emitters -> Places]
    BY <1>1, <2>1, <2>2 DEF TypeOK, Start
  <2> QED BY <1>1, <2>1, <2>3 DEF TypeOK, Start, graph, server, streams
<1>2. CASE e \in Producers /\ Lock(e)
  BY <1>2 DEF TypeOK, Lock, graph, server, streams
<1>3. CASE e \in Producers /\ Change(e)
  <2>1. PICK next \in After(at[e]) : at' = [at EXCEPT ![e] = next]
    BY <1>3 DEF Change
  <2>2. at \in [Emitters -> Places]
    BY DEF TypeOK, Places
  <2>3. next \in Places
    BY <2>1, <2>2, AfterPlaces
  <2>4. at' \in [Emitters -> Places]
    BY <2>1, <2>2, <2>3
  <2>5. version' \in Nat /\ untold' \in [Emitters -> SUBSET Nat] /\ waits' \subseteq Producers
    BY <1>3 DEF TypeOK, Change
  <2> QED BY <1>3, <2>4, <2>5 DEF TypeOK, Change, server, streams, Places
<1>4. CASE e = Heart /\ Tick
  BY <1>4 DEF TypeOK, Tick, graph, server, streams
<1>5. CASE e = Heart /\ BuildHeartbeat
  <2>1. "heartbeat" \in Announcements
    BY DEF Announcements
  <2> QED BY <1>5, <2>1 DEF TypeOK, BuildHeartbeat, graph, server, streams
<1>6. CASE Broadcast(e)
  <2>1. [id |-> emitted + 1, tells |-> untold[e]] \in Event /\ emitted + 1 \in Nat
    BY DEF TypeOK, Event
  <2>2. event' \in [Emitters -> Event] /\ emitted' \in Nat
    BY <1>6, <2>1 DEF TypeOK, Broadcast, BeginBroadcast
  <2> QED BY <1>6, <2>2 DEF TypeOK, Broadcast, BeginBroadcast, graph, streams
<1>7. CASE BroadcastEnds(e)
  <2>1. PICK next \in After(at[e]) : at' = [at EXCEPT ![e] = next]
    BY <1>7 DEF BroadcastEnds
  <2>2. at \in [Emitters -> Places]
    BY DEF TypeOK, Places
  <2>3. next \in Places
    BY <2>1, <2>2, AfterPlaces
  <2>4. at' \in [Emitters -> Places]
    BY <2>1, <2>2, <2>3
  <2>5. NoEvent \in Event
    BY DEF NoEvent, Event
  <2> QED BY <1>7, <2>4, <2>5 DEF TypeOK, BroadcastEnds, graph, streams, Places
<1> QED BY <1>1, <1>2, <1>3, <1>4, <1>5, <1>6, <1>7

(* TypeOK holds in every reachable state.                                   *)
THEOREM FeedTypeCorrect == Spec => []TypeOK
<1>1. Init => TypeOK
  <2>1. <<>> \in Seq(Event) /\ Len(<<>>) <= Capacity /\ NoEvent \in Event
    BY FeedAssumption DEF NoEvent, Event
  <2>2. "initial" \in Sections
    BY DEF Sections
  <2> QED BY <2>1, <2>2, FeedAssumption DEF Init, TypeOK
<1>2. TypeOK /\ [Next]_vars => TypeOK'
  <2> SUFFICES ASSUME TypeOK, [Next]_vars PROVE TypeOK'
    OBVIOUS
  <2>1. CASE UNCHANGED vars
    BY <2>1 DEF TypeOK, vars, graph, emitters, server, streams
  <2>2. ASSUME NEW r \in Requests, GetModules(r) \/ AnswerRead(r) PROVE TypeOK'
    BY <2>2 DEF TypeOK, GetModules, AnswerRead, emitters, server, streams
  <2>3. Heart \in Emitters /\ Producers \subseteq Emitters
    BY DEF Emitters
  <2> QED BY <2>1, <2>2, <2>3, SendType, DeliverType, ConnectionType, EmitterType
          DEF Next, EmitterStep
<1> QED BY <1>1, <1>2, PTL DEF Spec
-----------------------------------------------------------------------------
(***************************************************************************)
(* What ToldOfEveryChange rests on: a client is registered exactly while   *)
(* its handler runs, and only a broadcast under way, to which nothing is   *)
(* untold, offers anything; who waits for the graph is at a section; nobody *)
(* but Main changes the graph before the initial scan is over; and who is  *)
(* idle has announced everything, Main perhaps but the initial scan.       *)
(***************************************************************************)
Registered == clients = {c \in Clients : stage[c] # "away"}

OffersUnderway ==
  /\ \A e \in Emitters : e \notin mu => offer[e] = {}
  /\ \A e \in mu : at[e] \in Announcements /\ untold[e] = {}

AtSections == \A p \in waits : at[p] \in Sections

ScanFirst ==
  /\ \A p \in Runs : at[p] # "initial"
  /\ at[Main] = "initial" =>
       version = 0 /\ untold[Main] = {} /\ \A p \in Runs : at[p] = "idle"

Announced ==
  \A p \in Producers : at[p] = "idle" => \A v \in untold[p] : p = Main /\ v = 1

(* A client's part of ToldOfEveryChange.                                    *)
Owed(c, v) ==
  \E p \in Producers : (c \in offer[p] /\ v \in event[p].tells) \/ v \in untold[p]
Covered(c) ==
  stage[c] \in {"snapshot", "streaming"} =>
    \A v \in 1..version : v <= base[c] \/ Told(c, v) \/ Owed(c, v)

StreamInv ==
  /\ Registered /\ OffersUnderway /\ AtSections /\ ScanFirst /\ Announced
  /\ \A c \in Clients : Covered(c)

LEMMA StreamsTold == StreamInv => ToldOfEveryChange
BY DEF StreamInv, Announced, Covered, Owed, ToldOfEveryChange, ToBeTold

(* A goroutine is somewhere, and Main is not the heartbeat.                 *)
LEMMA Who == /\ Producers \subseteq Emitters /\ Runs \subseteq Producers /\ Main \in Producers
             /\ Heart \in Emitters \ Producers /\ Main \notin Runs
             /\ \A p \in Producers : p = Main \/ p \in Runs
BY FeedAssumption DEF Emitters, Producers

(* The new change is its producer's to tell of; the others stand as before. *)
LEMMA ChangeTold ==
  ASSUME TypeOK, StreamInv, NEW p \in Producers, Change(p)
  PROVE  StreamInv'
<1>1. PICK next \in After(at[p]) : at' = [at EXCEPT ![p] = next]
  BY DEF Change
<1>2. /\ at[p] \in Sections /\ at[p] \in Places /\ p \in Emitters /\ version \in Nat
      /\ untold[p] \subseteq Nat
  BY Who DEF TypeOK, StreamInv, AtSections, Change, Places
<1>3. next # "initial" /\ (next = "idle" => at[p] = "initial")
  BY <1>1, <1>2, AfterPlaces
<1>4. /\ at'[p] = next /\ \A q \in Emitters \ {p} : at'[q] = at[q]
      /\ untold'[p] = untold[p] \cup {version + 1}
      /\ \A q \in Emitters \ {p} : untold'[q] = untold[q]
      /\ version' = version + 1 /\ waits' = waits \ {p}
      /\ UNCHANGED <<server, clients, streams>>
  BY <1>1, <1>2 DEF TypeOK, Change
<1>5. p \notin mu
  BY <1>2 DEF StreamInv, OffersUnderway, Sections, Announcements
<1>6. Registered' /\ AtSections'
  BY <1>4, Who DEF TypeOK, StreamInv, Registered, AtSections, streams
<1>7. OffersUnderway'
  BY <1>4, <1>5, Who DEF TypeOK, StreamInv, OffersUnderway, server
<1>8. ScanFirst'
  <2>1. at[Main] = "initial" => p = Main
    <3>1. "idle" \notin Sections
      BY DEF Sections
    <3> QED BY <1>2, <3>1, Who DEF StreamInv, ScanFirst
  <2> QED BY <1>3, <1>4, <2>1, Who DEF StreamInv, ScanFirst
<1>9. Announced'
  <2>1. next = "idle" => p = Main /\ version = 0 /\ untold[p] = {}
    BY <1>3, Who DEF StreamInv, ScanFirst
  <2>2. next = "idle" => \A v \in untold'[p] : p = Main /\ v = 1
    BY <1>4, <2>1
  <2> QED BY <1>4, <2>2, Who DEF StreamInv, Announced
<1>10. ASSUME NEW c \in Clients PROVE Covered(c)'
  <2> SUFFICES ASSUME stage[c] \in {"snapshot", "streaming"}, NEW v \in 1..(version + 1)
               PROVE  v <= base[c] \/ Told(c, v) \/ Owed(c, v)'
    BY <1>4 DEF streams, Covered, Told
  <2>1. CASE v = version + 1
    BY <1>4, <2>1 DEF Owed
  <2>2. CASE v \in 1..version
    <3>1. Owed(c, v) => Owed(c, v)'
      BY <1>4, Who DEF Owed, server
    <3> QED BY <2>2, <3>1 DEF StreamInv, Covered
  <2> QED BY <1>2, <2>1, <2>2
<1> QED BY <1>6, <1>7, <1>8, <1>9, <1>10 DEF StreamInv

(* A broadcast offers the event to every client that has a snapshot.        *)
LEMMA BroadcastTold ==
  ASSUME TypeOK, StreamInv, NEW e \in Emitters, Broadcast(e)
  PROVE  StreamInv'
<1>1. /\ at[e] \in Announcements /\ mu = {} /\ mu' = {e}
      /\ UNCHANGED <<graph, at, waits, clients, streams>>
  BY DEF Broadcast, BeginBroadcast
<1>2. /\ event'[e].tells = untold[e] /\ \A q \in Emitters \ {e} : event'[q] = event[q]
      /\ untold'[e] = {} /\ \A q \in Emitters \ {e} : untold'[q] = untold[q]
      /\ offer'[e] = clients /\ \A q \in Emitters \ {e} : offer'[q] = offer[q]
  BY DEF TypeOK, Broadcast, BeginBroadcast
<1>3. Registered' /\ AtSections'
  BY <1>1 DEF StreamInv, Registered, AtSections, streams
<1>4. OffersUnderway'
  BY <1>1, <1>2 DEF StreamInv, OffersUnderway
<1>5. ScanFirst' /\ Announced'
  BY <1>1, <1>2, Who DEF StreamInv, ScanFirst, Announced, graph
<1>6. ASSUME NEW c \in Clients PROVE Covered(c)'
  <2> SUFFICES ASSUME stage[c] \in {"snapshot", "streaming"}, NEW v \in 1..version, Owed(c, v)
               PROVE  Owed(c, v)'
    BY <1>1 DEF StreamInv, streams, graph, Covered, Told
  <2>1. PICK q \in Producers : (c \in offer[q] /\ v \in event[q].tells) \/ v \in untold[q]
    BY DEF Owed
  <2>2. CASE q = e
    <3>1. c \in clients /\ offer[e] = {}
      BY <1>1 DEF StreamInv, Registered, OffersUnderway
    <3> QED BY <1>2, <2>1, <2>2, <3>1 DEF Owed
  <2>3. CASE q # e
    BY <1>2, <2>1, <2>3, Who DEF Owed
  <2> QED BY <2>2, <2>3
<1> QED BY <1>3, <1>4, <1>5, <1>6 DEF StreamInv

(* What was offered to the client is now in its channel, or was dropped.    *)
LEMMA SendTold ==
  ASSUME TypeOK, StreamInv, NEW e \in Emitters, NEW d \in Clients, Send(e, d)
  PROVE  StreamInv'
<1>1. /\ UNCHANGED <<version, at, waits, untold, mu, event, clients, stage, base, seen>>
      /\ e \in mu /\ offer'[e] = offer[e] \ {d}
      /\ \A q \in Emitters \ {e} : offer'[q] = offer[q]
  BY DEF TypeOK, Send, graph, emitters
<1>2. Registered' /\ AtSections' /\ ScanFirst' /\ Announced'
  BY <1>1 DEF StreamInv, Registered, AtSections, ScanFirst, Announced
<1>3. OffersUnderway'
  BY <1>1 DEF StreamInv, OffersUnderway
<1>4. /\ Range(queue'[d]) \cup dropped'[d] = Range(queue[d]) \cup dropped[d] \cup {event[e]}
      /\ \A c \in Clients \ {d} : queue'[c] = queue[c] /\ dropped'[c] = dropped[c]
  <2>1. event[e] \in Event /\ queue[d] \in Seq(Event)
    BY DEF TypeOK
  <2>2. Range(Append(queue[d], event[e])) = Range(queue[d]) \cup {event[e]}
    BY <2>1, RangeOfAppend
  <2> QED BY <2>2 DEF TypeOK, Send
<1>5. ASSUME NEW c \in Clients PROVE Covered(c)'
  <2> SUFFICES ASSUME stage[c] \in {"snapshot", "streaming"}, NEW v \in 1..version,
                      Told(c, v) \/ Owed(c, v)
               PROVE  Told(c, v)' \/ Owed(c, v)'
    BY <1>1 DEF StreamInv, Covered
  <2>1. CASE Told(c, v)
    BY <1>1, <1>4, <2>1 DEF Told
  <2>2. CASE Owed(c, v)
    <3>1. PICK q \in Producers : (c \in offer[q] /\ v \in event[q].tells) \/ v \in untold[q]
      BY <2>2 DEF Owed
    <3>2. CASE q = e /\ c = d /\ v \in event[q].tells
      BY <1>4, <3>2 DEF Told
    <3>3. CASE ~(q = e /\ c = d /\ v \in event[q].tells)
      <4>1. (c \in offer'[q] /\ v \in event'[q].tells) \/ v \in untold'[q]
        BY <1>1, <3>1, <3>3, Who
      <4> QED BY <4>1 DEF Owed
    <3> QED BY <3>2, <3>3
  <2> QED BY <2>1, <2>2
<1> QED BY <1>2, <1>3, <1>5 DEF StreamInv

LEMMA BroadcastEndsTold ==
  ASSUME TypeOK, StreamInv, NEW e \in Emitters, BroadcastEnds(e)
  PROVE  StreamInv'
<1>1. PICK next \in After(at[e]) : at' = [at EXCEPT ![e] = next]
  BY DEF BroadcastEnds
<1>2. at[e] \in Announcements /\ at[e] \in Places /\ untold[e] = {} /\ offer[e] = {}
  BY DEF TypeOK, BroadcastEnds, StreamInv, OffersUnderway, Places
<1>3. next # "initial"
  BY <1>1, <1>2, AfterPlaces
<1>4. /\ at'[e] = next /\ \A q \in Emitters \ {e} : at'[q] = at[q]
      /\ mu' = mu \ {e} /\ \A q \in Emitters \ {e} : event'[q] = event[q]
      /\ UNCHANGED <<version, waits, untold, offer, clients, streams>>
  BY <1>1 DEF TypeOK, BroadcastEnds, graph
<1>5. Registered' /\ OffersUnderway'
  BY <1>2, <1>4 DEF TypeOK, StreamInv, Registered, OffersUnderway, streams
<1>6. AtSections'
  <2>1. e \notin waits
    BY <1>2 DEF StreamInv, AtSections, Sections, Announcements
  <2> QED BY <1>4, <2>1, Who DEF TypeOK, StreamInv, AtSections
<1>7. ScanFirst'
  <2>1. at[e] # "idle"
    BY <1>2 DEF Announcements
  <2> QED BY <1>3, <1>4, <2>1, Who DEF StreamInv, ScanFirst
<1>8. Announced'
  BY <1>2, <1>4, Who DEF StreamInv, Announced
<1>9. ASSUME NEW c \in Clients PROVE Covered(c)'
  <2> SUFFICES ASSUME NEW v \in 1..version, Owed(c, v)
               PROVE  Owed(c, v)'
    BY <1>4 DEF StreamInv, streams, Covered, Told
  <2>1. PICK q \in Producers : (c \in offer[q] /\ v \in event[q].tells) \/ v \in untold[q]
    BY DEF Owed
  <2>2. q # e
    BY <1>2, <2>1
  <2> QED BY <1>4, <2>1, <2>2, Who DEF Owed
<1> QED BY <1>5, <1>6, <1>7, <1>8, <1>9 DEF StreamInv

(* The clients' steps leave the daemon and the broadcast alone.             *)
LEMMA DaemonKept ==
  ASSUME StreamInv, UNCHANGED <<version, at, waits, untold, mu, offer>>
  PROVE  OffersUnderway' /\ AtSections' /\ ScanFirst' /\ Announced'
BY DEF StreamInv, OffersUnderway, AtSections, ScanFirst, Announced

(* An event written to the client moves from its channel to what it saw.    *)
LEMMA DeliverTold ==
  ASSUME TypeOK, StreamInv, NEW d \in Clients, Deliver(d)
  PROVE  StreamInv'
<1>1. UNCHANGED <<version, at, waits, untold, mu, event, offer, clients, stage, base, dropped>>
  BY DEF Deliver, graph, emitters, server
<1>2. \A c \in Clients : Range(seen'[c]) \cup Range(queue'[c]) = Range(seen[c]) \cup Range(queue[c])
  <2>1. queue[d] \in Seq(Event) /\ seen[d] \in Seq(Event) /\ queue[d] # <<>>
    BY DEF TypeOK, Deliver
  <2>2. Head(queue[d]) \in Event /\ Range(queue[d]) = {Head(queue[d])} \cup Range(Tail(queue[d]))
    BY <2>1, RangeOfTail
  <2>3. Range(Append(seen[d], Head(queue[d]))) = Range(seen[d]) \cup {Head(queue[d])}
    BY <2>1, <2>2, RangeOfAppend
  <2> QED BY <2>2, <2>3 DEF TypeOK, Deliver
<1>3. ASSUME NEW c \in Clients PROVE Covered(c)'
  BY <1>1, <1>2 DEF StreamInv, Covered, Told, Owed
<1>4. Registered'
  BY <1>1 DEF StreamInv, Registered
<1> QED BY <1>1, <1>3, <1>4, DaemonKept DEF StreamInv

LEMMA ConnectionTold ==
  ASSUME TypeOK, StreamInv, NEW d \in Clients,
         Register(d) \/ Snapshot(d) \/ DeliverSnapshot(d) \/ Disconnect(d)
  PROVE  StreamInv'
<1>1. UNCHANGED <<version, at, waits, untold, mu, event, offer>>
  BY DEF Register, Snapshot, DeliverSnapshot, Disconnect, graph, emitters, server
<1>2. Registered'
  BY DEF TypeOK, StreamInv, Registered, Register, Snapshot, DeliverSnapshot, Disconnect
<1>3. \A c \in Clients : \A v : Owed(c, v)' <=> Owed(c, v)
  BY <1>1 DEF Owed
<1>4. ASSUME NEW c \in Clients PROVE Covered(c)'
  <2>1. Covered(c)
    BY DEF StreamInv
  <2>2. CASE c # d
    <3>1. /\ base'[c] = base[c] /\ stage'[c] = stage[c] /\ queue'[c] = queue[c]
          /\ seen'[c] = seen[c] /\ dropped'[c] = dropped[c]
      BY <2>2 DEF TypeOK, Register, Snapshot, DeliverSnapshot, Disconnect
    <3>2. \A v : Told(c, v)' <=> Told(c, v)
      BY <3>1 DEF Told
    <3> QED BY <1>1, <1>3, <2>1, <3>1, <3>2 DEF Covered
  <2>3. CASE c = d
    <3>1. CASE Register(d) \/ Disconnect(d)
      <4>1. stage'[c] \in {"registered", "away"}
        BY <2>3, <3>1 DEF TypeOK, Register, Disconnect
      <4> QED BY <4>1 DEF Covered
    <3>2. CASE Snapshot(d)
      <4>1. base'[c] = version /\ version' = version /\ version \in Nat
        BY <1>1, <2>3, <3>2 DEF TypeOK, Snapshot
      <4> QED BY <4>1 DEF Covered
    <3>3. CASE DeliverSnapshot(d)
      <4>1. /\ stage[c] = "snapshot" /\ UNCHANGED <<base, queue, seen, dropped>>
        BY <2>3, <3>3 DEF DeliverSnapshot
      <4>2. \A v : Told(c, v)' <=> Told(c, v)
        BY <4>1 DEF Told
      <4> QED BY <1>1, <1>3, <2>1, <4>1, <4>2 DEF Covered
    <3> QED BY <3>1, <3>2, <3>3
  <2> QED BY <2>2, <2>3
<1> QED BY <1>1, <1>2, <1>4, DaemonKept DEF StreamInv

(* The steps that tell nobody of anything.                                  *)
LEMMA OtherTold ==
  ASSUME TypeOK, StreamInv,
         \/ \E p \in Producers : Start(p) \/ Lock(p)
         \/ Tick \/ BuildHeartbeat
         \/ \E r \in Requests : GetModules(r) \/ AnswerRead(r)
         \/ UNCHANGED vars
  PROVE  StreamInv'
<1>1. UNCHANGED <<version, untold, mu, event, offer, clients, streams>>
  BY DEF Start, Lock, Tick, BuildHeartbeat, GetModules, AnswerRead, graph, emitters, server, vars
<1>2. Registered' /\ \A c \in Clients : Covered(c)'
  BY <1>1 DEF StreamInv, Registered, streams, Covered, Told, Owed
<1>3. OffersUnderway' /\ AtSections' /\ ScanFirst' /\ Announced'
  <2>1. ASSUME NEW p \in Producers, Start(p)
        PROVE  OffersUnderway' /\ AtSections' /\ ScanFirst' /\ Announced'
    <3>1. /\ at[p] = "idle" /\ at'[p] \in {"file_changed", "mark"} /\ waits' = waits
          /\ \A q \in Emitters \ {p} : at'[q] = at[q]
      BY <2>1, Who DEF TypeOK, Start
    <3>2. "idle" \notin Sections /\ "idle" \notin Announcements
      BY DEF Sections, Announcements
    <3>3. p \notin waits /\ p \notin mu
      BY <3>1, <3>2 DEF StreamInv, AtSections, OffersUnderway
    <3>4. p = Main \/ version > 0
      BY <2>1 DEF Start
    <3>5. OffersUnderway' /\ AtSections'
      BY <1>1, <3>1, <3>3, Who DEF TypeOK, StreamInv, OffersUnderway, AtSections
    <3>6. ScanFirst' /\ Announced'
      BY <1>1, <3>1, <3>4, Who DEF StreamInv, ScanFirst, Announced
    <3> QED BY <3>5, <3>6
  <2>2. ASSUME NEW p \in Producers, Lock(p)
        PROVE  OffersUnderway' /\ AtSections' /\ ScanFirst' /\ Announced'
    BY <1>1, <2>2 DEF StreamInv, OffersUnderway, AtSections, ScanFirst, Announced, Lock
  <2>3. ASSUME Tick \/ BuildHeartbeat
        PROVE  OffersUnderway' /\ AtSections' /\ ScanFirst' /\ Announced'
    <3>1. /\ \A q \in Emitters \ {Heart} : at'[q] = at[q]
          /\ at[Heart] \notin Announcements /\ waits' = waits
      BY <2>3 DEF TypeOK, Tick, BuildHeartbeat, Announcements
    <3>2. Heart \notin mu
      BY <3>1 DEF StreamInv, OffersUnderway
    <3> QED BY <1>1, <3>1, <3>2, Who
            DEF TypeOK, StreamInv, OffersUnderway, AtSections, ScanFirst, Announced
  <2>4. ASSUME (\E r \in Requests : GetModules(r) \/ AnswerRead(r)) \/ UNCHANGED vars
        PROVE  OffersUnderway' /\ AtSections' /\ ScanFirst' /\ Announced'
    <3>1. UNCHANGED <<at, waits>>
      BY <2>4 DEF GetModules, AnswerRead, emitters, vars
    <3> QED BY <1>1, <3>1, DaemonKept
  <2> QED BY <2>1, <2>2, <2>3, <2>4
<1> QED BY <1>2, <1>3 DEF StreamInv

(* Every client is told of every change made since its snapshot, or loses   *)
(* the event for want of room in its own channel (Server.handleStream); and *)
(* every goroutine of the daemon announces what it has changed before it    *)
(* comes to rest (onFilesChanged, runTestsForFiles).                        *)
THEOREM ClientsAreTold == Spec => []ToldOfEveryChange
<1>1. Init => StreamInv
  <2> SUFFICES ASSUME Init PROVE StreamInv
    OBVIOUS
  <2>1. Registered /\ \A c \in Clients : Covered(c)
    BY DEF Init, Registered, Covered
  <2>2. OffersUnderway /\ AtSections /\ ScanFirst /\ Announced
    BY Who DEF Init, OffersUnderway, AtSections, ScanFirst, Announced
  <2> QED BY <2>1, <2>2 DEF StreamInv
<1>2. TypeOK /\ StreamInv /\ [Next]_vars => StreamInv'
  <2> SUFFICES ASSUME TypeOK, StreamInv, [Next]_vars PROVE StreamInv'
    OBVIOUS
  <2> QED BY ChangeTold, BroadcastTold, SendTold, BroadcastEndsTold, DeliverTold,
             ConnectionTold, OtherTold DEF Next, EmitterStep
<1> QED BY <1>1, <1>2, StreamsTold, FeedTypeCorrect, PTL DEF Spec
-----------------------------------------------------------------------------
(* What ClientsAgreeOnOrder rests on: broadcasts exclude each other, and    *)
(* what a client is offered is the latest of all events.                    *)
MutexHeld ==
  /\ \A e, f \in mu : e = f
  /\ \A e \in Emitters : e \notin mu => offer[e] = {}

Ascending ==
  \A c \in Clients : \A i, j \in DOMAIN Sent(c) :
    Sent(c)[i].id <= emitted /\ (i < j => Sent(c)[i].id < Sent(c)[j].id)

Latest ==
  \A e \in Emitters, c \in Clients : c \in offer[e] =>
    event[e].id = emitted /\ \A i \in DOMAIN Sent(c) : Sent(c)[i].id < emitted

OrderInv == MutexHeld /\ Ascending /\ Latest

LEMMA SentType ==
  ASSUME TypeOK, NEW c \in Clients
  PROVE  /\ Sent(c) \in Seq(Event) /\ DOMAIN Sent(c) = 1..Len(Sent(c)) /\ Len(Sent(c)) \in Nat
         /\ \A i \in DOMAIN Sent(c) : Sent(c)[i] \in Event
<1>1. Sent(c) \in Seq(Event)
  BY DEF TypeOK, Sent
<1> QED BY <1>1

(* A queue's head at the end of what precedes it, and an event at its own.  *)
LEMMA HeadMoves ==
  ASSUME NEW S, NEW s \in Seq(S), NEW t \in Seq(S), t # <<>>
  PROVE  Append(s, Head(t)) \o Tail(t) = s \o t
<1> DEFINE a == Append(s, Head(t)) \o Tail(t)
           b == s \o t
<1>1. Head(t) = t[1] /\ Len(t) \in Nat \ {0} /\ Len(s) \in Nat
  OBVIOUS
<1>2. /\ Append(s, Head(t)) \in Seq(S) /\ Len(Append(s, Head(t))) = Len(s) + 1
      /\ \A i \in 1..Len(s) : Append(s, Head(t))[i] = s[i]
      /\ Append(s, Head(t))[Len(s) + 1] = t[1]
  BY <1>1, HeadTailProperties, AppendProperties
<1>3. /\ Tail(t) \in Seq(S) /\ Len(Tail(t)) = Len(t) - 1
      /\ \A i \in 1..(Len(t) - 1) : Tail(t)[i] = t[i + 1]
  BY <1>1, HeadTailProperties
<1>4. /\ a \in Seq(S) /\ Len(a) = Len(s) + Len(t)
      /\ \A i \in 1..(Len(s) + Len(t)) :
           a[i] = IF i <= Len(s) + 1 THEN Append(s, Head(t))[i] ELSE Tail(t)[i - (Len(s) + 1)]
  BY <1>1, <1>2, <1>3, ConcatProperties
<1>5. /\ b \in Seq(S) /\ Len(b) = Len(s) + Len(t)
      /\ \A i \in 1..(Len(s) + Len(t)) : b[i] = IF i <= Len(s) THEN s[i] ELSE t[i - Len(s)]
  BY ConcatProperties
<1>6. ASSUME NEW i \in 1..(Len(s) + Len(t)) PROVE a[i] = b[i]
  <2>1. CASE i <= Len(s)
    BY <1>1, <1>2, <1>4, <1>5, <2>1
  <2>2. CASE i = Len(s) + 1
    BY <1>1, <1>2, <1>4, <1>5, <2>2
  <2>3. CASE i > Len(s) + 1
    <3>1. i - (Len(s) + 1) \in 1..(Len(t) - 1) /\ (i - (Len(s) + 1)) + 1 = i - Len(s)
      BY <1>1, <2>3
    <3>2. Tail(t)[i - (Len(s) + 1)] = t[i - Len(s)]
      BY <1>3, <3>1
    <3>3. ~(i <= Len(s)) /\ ~(i <= Len(s) + 1)
      BY <1>1, <2>3
    <3> QED BY <1>4, <1>5, <3>2, <3>3
  <2> QED BY <1>1, <2>1, <2>2, <2>3
<1> QED BY <1>4, <1>5, <1>6, SeqEqual

LEMMA AppendToConcat ==
  ASSUME NEW S, NEW s \in Seq(S), NEW t \in Seq(S), NEW x \in S
  PROVE  s \o Append(t, x) = Append(s \o t, x)
<1>1. <<x>> \in Seq(S) /\ s \o t \in Seq(S)
  BY ConcatProperties
<1> QED BY <1>1, AppendIsConcat, ConcatAssociative

LEMMA AscendingAgrees == ASSUME TypeOK, Ascending PROVE ClientsAgreeOnOrder
<1> SUFFICES ASSUME NEW c \in Clients, NEW d \in Clients,
                    NEW i \in DOMAIN Sent(c), NEW j \in DOMAIN Sent(c),
                    NEW k \in DOMAIN Sent(d), NEW l \in DOMAIN Sent(d),
                    i < j, k < l, Sent(c)[i] = Sent(d)[l], Sent(c)[j] = Sent(d)[k]
             PROVE  FALSE
  BY DEF ClientsAgreeOnOrder
<1>1. Sent(c)[i].id < Sent(c)[j].id /\ Sent(d)[k].id < Sent(d)[l].id
  BY DEF Ascending
<1>2. Sent(c)[i].id \in Nat /\ Sent(c)[j].id \in Nat
  BY SentType DEF Event
<1> QED BY <1>1, <1>2

(* What was sent to a client stays as it is, or ends with its connection.   *)
SentKept == \A c \in Clients : Sent(c)' = Sent(c) \/ Sent(c)' = <<>>

(* Delivering moves an event from the channel to what was seen.             *)
LEMMA StreamsKept ==
  ASSUME TypeOK, NEW d \in Clients,
         Register(d) \/ Snapshot(d) \/ DeliverSnapshot(d) \/ Deliver(d) \/ Disconnect(d)
  PROVE  SentKept
<1>1. CASE Register(d) \/ Snapshot(d) \/ DeliverSnapshot(d)
  BY <1>1 DEF Register, Snapshot, DeliverSnapshot, SentKept, Sent
<1>2. CASE Deliver(d)
  <2>1. seen[d] \in Seq(Event) /\ queue[d] \in Seq(Event) /\ queue[d] # <<>>
    BY <1>2 DEF TypeOK, Deliver
  <2>2. Append(seen[d], Head(queue[d])) \o Tail(queue[d]) = seen[d] \o queue[d]
    BY <2>1, HeadMoves
  <2>3. ASSUME NEW c \in Clients PROVE Sent(c)' = Sent(c)
    <3>1. CASE c = d
      BY <1>2, <2>2, <3>1 DEF TypeOK, Deliver, Sent
    <3>2. CASE c # d
      BY <1>2, <3>2 DEF TypeOK, Deliver, Sent
    <3> QED BY <3>1, <3>2
  <2> QED BY <2>3 DEF SentKept
<1>3. CASE Disconnect(d)
  <2>1. ASSUME NEW c \in Clients PROVE Sent(c)' = Sent(c) \/ Sent(c)' = <<>>
    <3>1. CASE c = d
      BY <1>3, <3>1 DEF TypeOK, Disconnect, Sent
    <3>2. CASE c # d
      BY <1>3, <3>2 DEF TypeOK, Disconnect, Sent
    <3> QED BY <3>1, <3>2
  <2> QED BY <2>1 DEF SentKept
<1> QED BY <1>1, <1>2, <1>3

LEMMA StreamsOrder ==
  ASSUME TypeOK, OrderInv, SentKept, UNCHANGED <<emitted, mu, event, offer>>
  PROVE  OrderInv'
<1>1. MutexHeld'
  BY DEF OrderInv, MutexHeld
<1>2. Ascending'
  BY DEF OrderInv, Ascending, SentKept
<1>3. Latest'
  BY DEF OrderInv, Latest, SentKept
<1> QED BY <1>1, <1>2, <1>3 DEF OrderInv

(* A broadcast begins when no other is under way: its event is the latest.  *)
LEMMA BroadcastOrder ==
  ASSUME TypeOK, OrderInv, NEW e \in Emitters, Broadcast(e) \/ BroadcastEnds(e)
  PROVE  OrderInv'
<1>1. \A c \in Clients : Sent(c)' = Sent(c)
  BY DEF Broadcast, BeginBroadcast, BroadcastEnds, streams, Sent
<1>2. \A c \in Clients : \A i \in DOMAIN Sent(c) : Sent(c)[i].id \in Nat
  BY SentType DEF Event
<1>3. CASE Broadcast(e)
  <2>1. /\ mu = {} /\ mu' = {e} /\ emitted' = emitted + 1 /\ emitted \in Nat
        /\ event'[e].id = emitted + 1
        /\ \A f \in Emitters \ {e} : offer'[f] = offer[f]
    BY <1>3 DEF TypeOK, Broadcast, BeginBroadcast
  <2>2. \A f \in Emitters : offer[f] = {}
    BY <2>1 DEF OrderInv, MutexHeld
  <2>3. MutexHeld'
    BY <2>1, <2>2 DEF MutexHeld
  <2>4. Ascending'
    BY <1>1, <1>2, <2>1 DEF OrderInv, Ascending
  <2>5. Latest'
    BY <1>1, <1>2, <2>1, <2>2 DEF OrderInv, Ascending, Latest
  <2> QED BY <2>3, <2>4, <2>5 DEF OrderInv
<1>4. CASE BroadcastEnds(e)
  <2>1. /\ mu' = mu \ {e} /\ offer[e] = {} /\ UNCHANGED <<emitted, offer>>
        /\ \A f \in Emitters \ {e} : event'[f] = event[f]
    BY <1>4 DEF TypeOK, BroadcastEnds
  <2> QED BY <1>1, <2>1 DEF OrderInv, MutexHeld, Ascending, Latest
<1> QED BY <1>3, <1>4

(* An event offered to a client is appended to what was sent, or dropped.   *)
LEMMA SendSent ==
  ASSUME TypeOK, NEW e \in Emitters, NEW d \in Clients, Send(e, d)
  PROVE  /\ Sent(d)' = Sent(d) \/ Sent(d)' = Append(Sent(d), event[e])
         /\ \A c \in Clients \ {d} : Sent(c)' = Sent(c)
<1>1. CASE Len(queue[d]) < Capacity
  <2>1. queue' = [queue EXCEPT ![d] = Append(@, event[e])] /\ seen' = seen
    BY <1>1 DEF Send
  <2>2. seen[d] \in Seq(Event) /\ queue[d] \in Seq(Event) /\ event[e] \in Event
    BY DEF TypeOK
  <2>3. seen[d] \o Append(queue[d], event[e]) = Append(seen[d] \o queue[d], event[e])
    <3> DEFINE s == seen[d]
               t == queue[d]
               x == event[e]
    <3>1. s \in Seq(Event) /\ t \in Seq(Event) /\ x \in Event
      BY <2>2
    <3> HIDE DEF s, t, x
    <3>2. s \o Append(t, x) = Append(s \o t, x)
      BY <3>1, AppendToConcat
    <3> QED BY <3>2 DEF s, t, x
  <2>4. queue'[d] = Append(queue[d], event[e]) /\ \A c \in Clients \ {d} : queue'[c] = queue[c]
    BY <2>1 DEF TypeOK
  <2> QED BY <2>1, <2>3, <2>4 DEF Sent
<1>2. CASE ~(Len(queue[d]) < Capacity)
  BY <1>2 DEF Send, Sent
<1> QED BY <1>1, <1>2

LEMMA SendOrder ==
  ASSUME TypeOK, OrderInv, NEW e \in Emitters, NEW d \in Clients, Send(e, d)
  PROVE  OrderInv'
<1> DEFINE n == Len(Sent(d))
<1>1. /\ UNCHANGED <<emitted, mu, event>> /\ e \in mu /\ d \in offer[e] /\ emitted \in Nat
      /\ offer'[e] = offer[e] \ {d}
      /\ \A f \in Emitters \ {e} : offer'[f] = offer[f]
  BY DEF TypeOK, Send
<1>2. \A f \in Emitters \ {e} : offer[f] = {}
  BY <1>1 DEF OrderInv, MutexHeld
<1>3. MutexHeld'
  BY <1>1 DEF OrderInv, MutexHeld
<1>4. event[e].id = emitted /\ \A i \in DOMAIN Sent(d) : Sent(d)[i].id < emitted
  BY <1>1 DEF OrderInv, Latest
<1>5. Latest'
  <2> SUFFICES ASSUME NEW f \in Emitters, NEW c \in Clients, c \in offer'[f]
               PROVE  /\ event[f].id = emitted
                      /\ \A i \in DOMAIN Sent(c)' : Sent(c)'[i].id < emitted
    BY <1>1 DEF Latest
  <2>1. f = e /\ c # d /\ c \in offer[e]
    BY <1>1, <1>2
  <2> QED BY <2>1, SendSent DEF OrderInv, Latest
<1>6. CASE Sent(d)' = Sent(d)
  <2>1. Ascending'
    BY <1>1, <1>6, SendSent DEF OrderInv, Ascending
  <2> QED BY <1>3, <1>5, <2>1 DEF OrderInv
<1>7. CASE Sent(d)' = Append(Sent(d), event[e])
  <2>1. /\ DOMAIN Sent(d) = 1..n /\ DOMAIN Sent(d)' = 1..(n + 1) /\ n \in Nat
        /\ \A i \in 1..n : Sent(d)'[i] = Sent(d)[i]
        /\ Sent(d)'[n + 1] = event[e]
    <3>1. Sent(d) \in Seq(Event) /\ event[e] \in Event
      BY SentType DEF TypeOK
    <3> QED BY <1>7, <3>1, AppendProperties
  <2> HIDE DEF n
  <2>2. \A i \in 1..(n + 1) : i \in 1..n \/ i = n + 1
    BY <2>1
  <2>3. ASSUME NEW c \in Clients, NEW i \in DOMAIN Sent(c)', NEW j \in DOMAIN Sent(c)'
        PROVE  Sent(c)'[i].id <= emitted /\ (i < j => Sent(c)'[i].id < Sent(c)'[j].id)
    <3>1. CASE c # d
      BY <2>3, <3>1, SendSent DEF OrderInv, Ascending
    <3>2. CASE c = d
      <4>1. i \in 1..(n + 1) /\ j \in 1..(n + 1)
        BY <2>1, <3>2
      <4>2. i \in 1..n => Sent(c)'[i] = Sent(d)[i] /\ Sent(d)[i].id < emitted
        BY <1>4, <2>1, <3>2
      <4>3. i = n + 1 => Sent(c)'[i].id = emitted /\ ~(i < j)
        BY <1>4, <2>1, <3>2, <4>1
      <4>4. i \in 1..n /\ j \in 1..n /\ i < j => Sent(d)[i].id < Sent(d)[j].id
        BY <2>1 DEF OrderInv, Ascending
      <4>5. \A k \in 1..n : Sent(d)[k].id \in Nat
        BY <2>1, SentType DEF Event
      <4> QED BY <1>1, <1>4, <2>1, <2>2, <3>2, <4>1, <4>2, <4>3, <4>4, <4>5
    <3> QED BY <3>1, <3>2
  <2>4. Ascending'
    BY <1>1, <2>3 DEF Ascending
  <2> QED BY <1>3, <1>5, <2>4 DEF OrderInv
<1> QED BY <1>6, <1>7, SendSent

(* All clients are told of the events in one order, and of none twice,      *)
(* also by concurrent broadcasts (Server.Broadcast under Server.mu).        *)
THEOREM OneOrderForAll == Spec => []ClientsAgreeOnOrder
<1>1. Init => OrderInv
  <2> SUFFICES ASSUME Init PROVE OrderInv
    OBVIOUS
  <2>1. \A c \in Clients : Sent(c) = <<>> /\ DOMAIN Sent(c) = {}
    BY DEF Init, Sent
  <2> QED BY <2>1 DEF Init, OrderInv, MutexHeld, Ascending, Latest
<1>2. TypeOK /\ OrderInv /\ [Next]_vars => OrderInv'
  <2> SUFFICES ASSUME TypeOK, OrderInv, [Next]_vars PROVE OrderInv'
    OBVIOUS
  <2>1. ASSUME NEW c \in Clients,
               Register(c) \/ Snapshot(c) \/ DeliverSnapshot(c) \/ Deliver(c) \/ Disconnect(c)
        PROVE  OrderInv'
    <3>1. UNCHANGED <<emitted, mu, event, offer>>
      BY <2>1 DEF Register, Snapshot, DeliverSnapshot, Deliver, Disconnect, server
    <3> QED BY <2>1, <3>1, StreamsKept, StreamsOrder
  <2>2. ASSUME \/ UNCHANGED vars
               \/ \E r \in Requests : GetModules(r) \/ AnswerRead(r)
               \/ \E p \in Producers : Start(p) \/ Lock(p) \/ Change(p)
               \/ Tick \/ BuildHeartbeat
        PROVE  OrderInv'
    <3>1. SentKept /\ UNCHANGED <<emitted, mu, event, offer>>
      BY <2>2 DEF GetModules, AnswerRead, Start, Lock, Change, Tick, BuildHeartbeat, SentKept, Sent,
                  vars, server, streams
    <3> QED BY <3>1, StreamsOrder
  <2> QED BY <2>1, <2>2, BroadcastOrder, SendOrder DEF Next, EmitterStep
<1>3. TypeOK /\ OrderInv => ClientsAgreeOnOrder
  BY AscendingAgrees DEF OrderInv
<1> QED BY <1>1, <1>2, <1>3, FeedTypeCorrect, PTL DEF Spec
===========================================================================
