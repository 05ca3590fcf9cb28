------------------------------ MODULE Session ------------------------------
(***************************************************************************)
(* A jam session: the host process (control thread and network receive     *)
(* thread of jam-core/src/control.rs and net.rs around HostHandshake), the *)
(* client processes (the same two threads around ClientHandshake) and the  *)
(* UDP network between them, which loses, duplicates and reorders.         *)
(*                                                                         *)
(* An iteration of a control loop is one step, and so is the receipt of a  *)
(* datagram.  Time is counted in ticks: Elapse makes every clock one tick  *)
(* older once each control thread that is up has drained its channel and   *)
(* run its timers, and the receive thread has picked up the address table  *)
(* (its read times out every 100 ms).  A tick is thus a sizeable part of   *)
(* the 5 s of PEER_TIMEOUT, and a datagram that is not lost is delivered   *)
(* in the tick it was sent in or MaxDelay ticks later at most.             *)
(***************************************************************************)
EXTENDS HostHandshake, Sequences

CONSTANTS
    MayBeWrong,     \* clients that may have been given another room code
    REJOIN_WINDOW,  \* ticks during which a client keeps retrying (30 s)
    MaxDelay,       \* ticks a datagram may be under way
    MaxNet,         \* bound: datagrams in flight
    MaxQueue,       \* bound: events between a receive and a control thread
    MaxDups,        \* bound: duplicated datagrams
    MaxHostFaults,  \* bound: times the host stops or crashes
    MaxClientFaults,\* bound: times a client stops or crashes
    MaxStarts       \* bound: times each client is started, on the same address

Host == "host"

ASSUME SessionAssumption ==
    /\ Host \notin Clients /\ MayBeWrong \subseteq Clients
    /\ REJOIN_WINDOW \in Nat \ {0}
    /\ {MaxDelay, MaxNet, MaxQueue, MaxDups, MaxHostFaults, MaxClientFaults,
        MaxStarts} \subseteq Nat
    /\ MaxQueue > 0

CS == INSTANCE ClientHandshake

VARIABLES
    \* The host: is it up, its session id, the slot table of the control thread,
    \* age of each slot's last_rx_us, the receive thread's copy of the addresses,
    \* the event channel, and whether the timers ran in this tick.
    hup, session, slots, hrx, rxaddr, hq, hran,
    \* The clients: those with another room code (or version) than the host,
    \* process state and event channel.
    wrong, client, cq,
    \* The network and the faults it and the processes may still show.
    net, dups, hfaults, cfaults, starts,
    \* History: ticks since the host last accepted anything from a client; the
    \* seats given so far, as <<session, slot, client>>.
    silence, seats

host == <<hup, session, slots, hrx, rxaddr, hq, hran>>
clients == <<wrong, client, cq>>
budget == <<dups, hfaults, cfaults, starts>>
vars == <<host, clients, net, budget, silence, seats>>

Nobody == "nobody"
None == -1
UNJOINED == 0       \* sender id (and session id) of a client not yet welcomed
Sessions == 1 .. MaxHostFaults + 1
Ids == Slots \cup {UNJOINED}
NoEvent == [kind |-> "timeout"]

\* A datagram's session id is kept for the packets whose receiver looks at it.
Stamp(kind, s) == IF kind \in {"Welcome", "Bye", "Audio"} THEN s ELSE UNJOINED
ToHost(c, kind, s, id) ==
    [to |-> Host, from |-> c, kind |-> kind, sess |-> Stamp(kind, s), id |-> id,
     age |-> 0]
ToClient(c, kind, s, id) ==
    [to |-> c, from |-> Host, kind |-> kind, sess |-> Stamp(kind, s), id |-> id,
     age |-> 0]

ToHostKinds == {"Hello", "Ack", "Ping", "Pong", "Keepalive", "Audio", "Bye"}
ToClientKinds == {"Welcome", "Deny", "Roster", "Ping", "Pong", "Keepalive", "Audio", "Bye"}
Packets ==
    [to : {Host}, from : Clients, kind : ToHostKinds, sess : Sessions \cup {UNJOINED},
     id : Ids, age : 0 .. MaxDelay]
    \cup
    [to : Clients, from : {Host}, kind : ToClientKinds, sess : Sessions \cup {UNJOINED},
     id : Ids, age : 0 .. MaxDelay]

\* A client process: handshake phase, the joined flag, session and sender id of
\* ClientShared, age of from_host.last_rx_us (while joined), ticks left until
\* rejoin_deadline, and whether its timers ran in this tick.
ClientStates ==
    [up : BOOLEAN, cs : CS!Phases, joined : BOOLEAN, sess : Sessions \cup {UNJOINED},
     id : Ids, rx : RxAges, deadline : {None} \cup 0 .. REJOIN_WINDOW, ran : BOOLEAN]

Started ==
    [up |-> TRUE, cs |-> CS!Joining, joined |-> FALSE, sess |-> UNJOINED,
     id |-> UNJOINED, rx |-> 0, deadline |-> REJOIN_WINDOW, ran |-> FALSE]
Down == [Started EXCEPT !.up = FALSE]

TypeOK ==
    /\ hup \in BOOLEAN /\ session \in Sessions
    /\ slots \in [Slots -> {Free} \cup Taken]
    /\ hrx \in [Slots -> {None} \cup RxAges]
    /\ rxaddr \in [Slots -> Clients \cup {Nobody}]
    /\ hq \in Seq(Packets) /\ Len(hq) <= MaxQueue
    /\ hran \in BOOLEAN
    /\ wrong \subseteq MayBeWrong /\ client \in [Clients -> ClientStates]
    /\ \A c \in Clients : cq[c] \in Seq(Packets) /\ Len(cq[c]) <= MaxQueue
    /\ net \subseteq Packets /\ Cardinality(net) <= MaxNet
    /\ dups \in 0 .. MaxDups /\ hfaults \in 0 .. MaxHostFaults
    /\ cfaults \in 0 .. MaxClientFaults /\ starts \in [Clients -> 0 .. MaxStarts]
    /\ silence \in [Clients -> RxAges]
    /\ seats \subseteq Sessions \X Slots \X Clients

Init ==
    /\ hup = TRUE /\ session = 1
    /\ slots = NoSlots
    /\ hrx = [i \in Slots |-> None]
    /\ rxaddr = [i \in Slots |-> Nobody]
    /\ hq = <<>> /\ hran = FALSE
    /\ wrong \in SUBSET MayBeWrong
    /\ client = [c \in Clients |-> Down]
    /\ cq = [c \in Clients |-> <<>>]
    /\ net = {}
    /\ dups = MaxDups /\ hfaults = MaxHostFaults /\ cfaults = MaxClientFaults
    /\ starts = [c \in Clients |-> MaxStarts]
    /\ silence = [c \in Clients |-> 0]
    /\ seats = {}

-----------------------------------------------------------------------------
(* The network.                                                            *)

\* Datagrams of msgs leave while those of taken are delivered; any of msgs may
\* be lost at once, and are when the network is full.
Transmit(taken, msgs) ==
    \E kept \in SUBSET msgs :
        /\ net' = (net \ taken) \cup kept
        /\ Cardinality(net') <= MaxNet

\* A delivered datagram is taken, or stays to be delivered again.
Delivered(m, replies) ==
    \/ Transmit({m}, replies) /\ UNCHANGED dups
    \/ dups > 0 /\ dups' = dups - 1 /\ Transmit({}, replies)

-----------------------------------------------------------------------------
(* The host.                                                               *)

\* Addresses as the control thread has sent them to the receive thread.
table(s) == [i \in Slots |-> IF s[i] = Free THEN Nobody ELSE s[i].addr]

\* Liveness seen by the receive thread is fed to the handshake.
feed(s, rx) ==
    [i \in Slots |-> IF rx[i] = None THEN s[i] ELSE mark_heard(s, i, rx[i])[i]]

\* The sender of any event counts as heard ...
hear(s, ev) ==
    IF ev = NoEvent \/ sender_for_addr(s, ev.from) = {} THEN s
    ELSE mark_heard(s, Min(sender_for_addr(s, ev.from)), 0)

\* ... and then the event is handled.
handle(s, ev) ==
    CASE ev.kind = "Hello" -> on_hello(s, ev.from, ev.from \notin wrong)
      [] ev.kind = "Bye" /\ ev.sess = session -> on_bye(s, ev.from)
      [] OTHER -> Result(s, {}, {}, {})

\* ClientJoined clears last_rx_us of the slot.
clear_rx(rx, joined) == [i \in Slots |-> IF i \in joined THEN None ELSE rx[i]]

\* One iteration of the host's control loop: an event or a timeout, the liveness
\* feed, the handshake's tick and, once a tick, the pings and keepalives.
HostIteration(ev) ==
    \E heard \in {hear(slots, ev)} :
    \E handled \in {handle(heard, ev)} :
    \E rx \in {clear_rx(hrx, handled.joined)} :
    \E fed \in {feed(handled.slots, rx)} :
    \E ticked \in {tick(fed)} :
        /\ slots' = ticked.slots
        /\ hrx' = rx
        /\ hran' = TRUE
        /\ seats' = seats \cup {<<session, i, ticked.slots[i].addr>> :
                                   i \in occupied(ticked.slots)}
        /\ Transmit({},
              {ToClient(x.to, x.kind, session, IF x.kind = "Welcome" THEN x.id ELSE UNJOINED) :
                  x \in handled.send \cup ticked.send}
              \cup {ToClient(a, k, session, UNJOINED) :
                  a \in IF hran THEN {} ELSE client_addrs(ticked.slots),
                  k \in {"Ping", "Keepalive"}})
        /\ UNCHANGED <<hup, session, rxaddr, clients, budget, silence>>

HostEvent ==
    /\ hup /\ hq # <<>>
    /\ HostIteration(Head(hq))
    /\ hq' = Tail(hq)

HostTimeout ==
    /\ hup /\ hq = <<>> /\ ~hran
    /\ HostIteration(NoEvent)
    /\ UNCHANGED hq

\* Does the receive thread's table vouch for sender id m.id at address m.from?
vouched(m) == m.id \in Slots /\ rxaddr[m.id] = m.from

\* The receive thread has handled m: it drains the address updates before it
\* waits for the next datagram.
RxHostEnd(m, heard, accepted) ==
    /\ hrx' = IF heard THEN [hrx EXCEPT ![m.id] = 0] ELSE hrx
    /\ silence' = IF accepted THEN [silence EXCEPT ![m.from] = 0] ELSE silence
    /\ rxaddr' = table(slots)
    /\ UNCHANGED <<hup, session, slots, hran, clients, hfaults, cfaults, starts, seats>>

\* A ping is answered whoever sent it, and nothing else happens.
RxHostPing(m) ==
    /\ hup /\ m.to = Host /\ m.kind = "Ping"
    /\ Delivered(m, {ToClient(m.from, "Pong", session, UNJOINED)})
    /\ RxHostEnd(m, FALSE, FALSE)
    /\ UNCHANGED hq

RxHostAudio(m) ==
    /\ hup /\ m.to = Host /\ m.kind = "Audio"
    /\ Delivered(m, {})
    /\ LET ok == m.sess = session /\ vouched(m) IN RxHostEnd(m, ok, ok)
    /\ UNCHANGED hq

\* Fault: control packets do not refresh last_rx_us.
RxHostControlUncredited(m) ==
    /\ hup /\ m.to = Host /\ m.kind \notin {"Ping", "Audio"}
    /\ Len(hq) < MaxQueue
    /\ Delivered(m, {})
    /\ RxHostEnd(m, FALSE, TRUE)
    /\ hq' = Append(hq, [m EXCEPT !.age = 0])

RxHostControl(m) ==
    /\ hup /\ m.to = Host /\ m.kind \notin {"Ping", "Audio"}
    /\ Len(hq) < MaxQueue
    /\ Delivered(m, {})
    /\ RxHostEnd(m, vouched(m), TRUE)
    /\ hq' = Append(hq, [m EXCEPT !.age = 0])

\* The read times out.
RxHostTimeout ==
    /\ hup /\ rxaddr # table(slots)
    /\ rxaddr' = table(slots)
    /\ UNCHANGED <<hup, session, slots, hrx, hq, hran, clients, net, budget, silence, seats>>

RxHost == \E m \in net : RxHostPing(m) \/ RxHostAudio(m) \/ RxHostControl(m)

\* The transmit thread sends a mixed frame to the client of slot i.
HostAudio(i) ==
    /\ hup /\ slots[i] # Free
    /\ net' = net \cup {ToClient(slots[i].addr, "Audio", session, UNJOINED)}
    /\ Cardinality(net') <= MaxNet
    /\ UNCHANGED <<host, clients, budget, silence, seats>>

-----------------------------------------------------------------------------
(* A client.                                                               *)

\* Fault: a client that never misses its host.
quiet_never(joined, rx) == FALSE

\* Liveness: the host has been quiet for too long.
quiet(joined, rx) == joined /\ rx > PEER_TIMEOUT

\* What an iteration of a client's control loop makes of its state once
\* the handshake has seen the event (cs1), and whether it sends a HELLO.
client_step(cl, cs1, ev) ==
    LET joins == cs1 # cl.cs /\ cs1 = CS!Joined
        denied == cs1 # cl.cs /\ cs1 = CS!Failed("Denied")
        bye == ev.kind = "Bye" /\ ev.sess = cl.sess
        joined == (cl.joined /\ ~bye) \/ joins
        rx == IF joins THEN 0 ELSE cl.rx
        deadline == IF bye \/ denied THEN None
                    ELSE IF joins THEN REJOIN_WINDOW ELSE cl.deadline
        drops == quiet(joined, rx)
        again == drops \/ (CS!gives_up(cs1) /\ deadline > 0)
    IN  [state |-> [cl EXCEPT
            !.cs = IF again THEN CS!Joining ELSE CS!tick(cs1),
            !.joined = joined /\ ~drops,
            !.sess = IF joins THEN ev.sess ELSE @,
            !.id = IF joins THEN ev.id ELSE @,
            !.rx = IF joined /\ ~drops THEN rx ELSE 0,
            !.deadline = IF drops THEN REJOIN_WINDOW ELSE deadline,
            !.ran = TRUE],
         hello |-> again \/ CS!resends(cs1)]

\* One iteration of a client's control loop.  A WELCOME is acknowledged with the
\* sender id the client had before.  Rosters, pongs and keepalives do nothing
\* here that is modelled, and RxClientControl does not queue them.
ClientIteration(c, ev) ==
    \E cs1 \in {CS!on_control(client[c].cs, ev.kind)} :
    \E res \in {client_step(client[c], cs1, ev)} :
        /\ client' = [client EXCEPT ![c] = res.state]
        /\ Transmit({},
              {ToHost(c, "Ack", ev.sess, client[c].id) : x \in {"Welcome"} \cap {ev.kind}}
              \cup {ToHost(c, k, res.state.sess, res.state.id) :
                  k \in (IF res.hello THEN {"Hello"} ELSE {})
                        \cup (IF res.state.joined /\ ~client[c].ran
                              THEN {"Ping", "Keepalive"} ELSE {})})
        /\ UNCHANGED <<host, wrong, budget, silence, seats>>

ClientEvent(c) ==
    /\ client[c].up /\ cq[c] # <<>>
    /\ ClientIteration(c, Head(cq[c]))
    /\ cq' = [cq EXCEPT ![c] = Tail(@)]

ClientTimeout(c) ==
    /\ client[c].up /\ cq[c] = <<>> /\ ~client[c].ran
    /\ ClientIteration(c, NoEvent)
    /\ UNCHANGED cq

RxClientPing(m) ==
    /\ m.to \in Clients /\ client[m.to].up /\ m.kind = "Ping"
    /\ Delivered(m, {ToHost(m.to, "Pong", client[m.to].sess, client[m.to].id)})
    /\ UNCHANGED <<host, clients, hfaults, cfaults, starts, silence, seats>>

RxClientAudio(m) ==
    /\ m.to \in Clients /\ client[m.to].up /\ m.kind = "Audio"
    /\ Delivered(m, {})
    /\ client' = IF client[m.to].joined /\ m.sess = client[m.to].sess
                 THEN [client EXCEPT ![m.to].rx = 0] ELSE client
    /\ UNCHANGED <<host, wrong, cq, hfaults, cfaults, starts, silence, seats>>

\* Any other packet of the host refreshes the client's view of it, whatever its
\* session and whether or not the client is joined.
RxClientControl(m) ==
    /\ m.to \in Clients /\ client[m.to].up /\ m.kind \notin {"Ping", "Audio"}
    /\ Len(cq[m.to]) < MaxQueue
    /\ Delivered(m, {})
    /\ client' = [client EXCEPT ![m.to].rx = 0]
    /\ cq' = IF m.kind \in {"Welcome", "Deny", "Bye"}
             THEN [cq EXCEPT ![m.to] = Append(@, [m EXCEPT !.age = 0])] ELSE cq
    /\ UNCHANGED <<host, wrong, hfaults, cfaults, starts, silence, seats>>

RxClient(c) ==
    \E m \in net : m.to = c /\ (RxClientPing(m) \/ RxClientAudio(m) \/ RxClientControl(m))

\* The transmit thread sends a frame of the client's microphone.
ClientAudio(c) ==
    /\ client[c].up /\ client[c].joined
    /\ net' = net \cup {ToHost(c, "Audio", client[c].sess, client[c].id)}
    /\ Cardinality(net') <= MaxNet
    /\ UNCHANGED <<host, clients, budget, silence, seats>>

-----------------------------------------------------------------------------
(* Processes start, stop and crash.                                        *)

\* The host process ends with the goodbyes given, and its memory is gone.
HostEnds(goodbyes) ==
    /\ hup /\ hfaults > 0
    /\ hfaults' = hfaults - 1
    /\ hup' = FALSE
    /\ slots' = NoSlots
    /\ hrx' = [i \in Slots |-> None]
    /\ rxaddr' = [i \in Slots |-> Nobody]
    /\ hq' = <<>>
    /\ hran' = FALSE
    /\ Transmit({}, goodbyes)
    /\ UNCHANGED <<session, clients, dups, cfaults, starts, silence, seats>>

HostCrash == HostEnds({})

\* The receive thread ends, the control thread finds its channel closed once it
\* has drained it, and says goodbye once to every client.
HostStop ==
    /\ hq = <<>>
    /\ HostEnds({ToClient(a, "Bye", session, UNJOINED) : a \in client_addrs(slots)})

\* A new host process on the same address, with another session id.
HostRestart ==
    /\ ~hup
    /\ hup' = TRUE
    /\ session' = session + 1
    /\ UNCHANGED <<slots, hrx, rxaddr, hq, hran, clients, net, budget, silence, seats>>

ClientStart(c) ==
    /\ ~client[c].up /\ starts[c] > 0
    /\ starts' = [starts EXCEPT ![c] = @ - 1]
    /\ client' = [client EXCEPT ![c] = Started]
    /\ cq' = [cq EXCEPT ![c] = <<>>]
    /\ Transmit({}, {ToHost(c, "Hello", UNJOINED, UNJOINED)})
    /\ UNCHANGED <<host, wrong, dups, hfaults, cfaults, silence, seats>>

\* The client process ends with the goodbyes given.
ClientEnds(c, goodbyes) ==
    /\ client[c].up /\ cfaults > 0
    /\ cfaults' = cfaults - 1
    /\ client' = [client EXCEPT ![c] = Down]
    /\ cq' = [cq EXCEPT ![c] = <<>>]
    /\ Transmit({}, goodbyes)
    /\ UNCHANGED <<host, wrong, dups, hfaults, starts, silence, seats>>

ClientCrash(c) == ClientEnds(c, {})

ClientLeave(c) ==
    /\ client[c].joined /\ cq[c] = <<>>
    /\ ClientEnds(c, {ToHost(c, "Bye", client[c].sess, client[c].id)})

-----------------------------------------------------------------------------
ClientOlder(cl) ==
    IF ~cl.up THEN cl
    ELSE [cl EXCEPT !.cs = CS!PhaseOlder(@),
                    !.rx = IF cl.joined THEN Older(@, PEER_TIMEOUT + 1) ELSE @,
                    !.deadline = IF @ > 0 THEN @ - 1 ELSE @,
                    !.ran = FALSE]

Elapse ==
    /\ hup => hran /\ hq = <<>> /\ rxaddr = table(slots)
    /\ \A c \in Clients : client[c].up => client[c].ran /\ cq[c] = <<>>
    /\ hran' = FALSE
    /\ slots' = SlotsOlder(slots)
    /\ hrx' = [i \in Slots |-> IF hrx[i] = None THEN None ELSE Older(hrx[i], PEER_TIMEOUT + 1)]
    /\ client' = [c \in Clients |-> ClientOlder(client[c])]
    /\ silence' = [c \in Clients |-> Older(silence[c], PEER_TIMEOUT + 1)]
    /\ net' = {[m EXCEPT !.age = @ + 1] : m \in {x \in net : x.age < MaxDelay}}
    /\ UNCHANGED <<hup, session, rxaddr, hq, wrong, cq, budget, seats>>

Next ==
    \/ HostEvent \/ HostTimeout \/ RxHost \/ RxHostTimeout
    \/ \E i \in Slots : HostAudio(i)
    \/ \E c \in Clients :
          ClientEvent(c) \/ ClientTimeout(c) \/ RxClient(c) \/ ClientAudio(c)
    \/ HostCrash \/ HostStop \/ HostRestart
    \/ \E c \in Clients : ClientStart(c) \/ ClientCrash(c) \/ ClientLeave(c)
    \/ Elapse

Spec == Init /\ [][Next]_vars

\* Control threads that are up go on, and so does time: recv_timeout and the
\* read timeout bound every wait.
ControlFairness ==
    /\ WF_vars(HostEvent \/ HostTimeout)
    /\ WF_vars(RxHostTimeout)
    /\ \A c \in Clients : WF_vars(ClientEvent(c) \/ ClientTimeout(c))
    /\ WF_vars(Elapse)

\* Receive threads take what has arrived.
DeliveryFairness == WF_vars(RxHost) /\ \A c \in Clients : WF_vars(RxClient(c))

FairSpec == Spec /\ ControlFairness

DeliverySpec == FairSpec /\ DeliveryFairness

-----------------------------------------------------------------------------
(* Properties.                                                             *)

\* A client address holds at most one slot, however its HELLOs are repeated,
\* delayed or duplicated, and across its restarts (on_hello).
OneSlotPerAddress ==
    \A i, j \in occupied(slots) : slots[i].addr = slots[j].addr => i = j

\* Who presents another room code never gets a slot nor joins.
NoEntryWithoutCode ==
    \A c \in wrong : c \notin client_addrs(slots) /\ ~client[c].joined

\* A client that takes itself for joined, with this session and this sender id,
\* was given that slot in that session by a host.
JoinedWasAdmitted ==
    \A c \in Clients : client[c].joined =>
        client[c].cs = CS!Joined /\ <<client[c].sess, client[c].id, c>> \in seats

\* An Active client is dropped without a BYE only if the host has accepted
\* nothing from it for PEER_TIMEOUT, less the delay of a packet: what the receive
\* thread hears reaches the table by two ways, events and the liveness feed.
OnlySilentDropped ==
    [][\A i \in Slots :
          slots[i].state = "Active" /\ slots'[i] = Free /\ hup' =>
             \/ hq # <<>> /\ Head(hq).kind = "Bye" /\ Head(hq).from = slots[i].addr
             \/ silence[slots[i].addr] > PEER_TIMEOUT - MaxDelay]_vars

\* Every join attempt comes to an end.
HandshakeEnds ==
    \A c \in Clients : client[c].cs.phase = "Joining" ~>
                           ~client[c].up \/ client[c].cs.phase # "Joining"

\* A client that is gone for good is removed from the table.
CrashedClientForgotten ==
    \A c \in Clients :
        ~client[c].up ~> client[c].up \/ ~hup \/ c \notin client_addrs(slots)

\* A client notices that its host is gone.
DeadHostNoticed ==
    \A c \in Clients : ~hup ~> hup \/ ~client[c].joined

\* A client that the host has dropped finds out, and stops or joins again.
DroppedClientNotices ==
    \A c \in Clients :
        client[c].joined /\ c \notin client_addrs(slots)
            ~> ~client[c].joined \/ c \in client_addrs(slots)
=============================================================================
