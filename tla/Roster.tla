------------------------------- MODULE Roster -------------------------------
(***************************************************************************)
(* Who is in the room: the host's slot table (jam-protocol/src/            *)
(* handshake.rs), the WELCOME and ROSTER packets that carry it (packet.rs) *)
(* and the list that one client, `me', makes of them (the client loop of   *)
(* jam-core/src/control.rs), with the rows both user interfaces show.      *)
(*                                                                         *)
(* Datagrams are the bytes of module Packets.  One counter of the host     *)
(* numbers all control packets to all clients.  The other players' own     *)
(* packets are left out, and so are the PINGs and KEEPALIVEs to me, but    *)
(* not the numbers they use.  It is assumed that no datagram outlives the  *)
(* slot it was sent for, though a slot may end at once (a BYE) or a second *)
(* after a WELCOME that nobody acknowledges.                               *)
(***************************************************************************)
EXTENDS Packets, Seq16

CONSTANTS
    HostName, MyName,   \* names, as the widths of their characters
    OtherNames,         \* names the other players may have
    First,              \* number of the host's next control packet at the start
    MaxNumbers,         \* bound: numbers the first host process uses
    MaxAfter,           \* bound: numbers it uses when started again
    MaxNet,             \* bound: datagrams to me under way
    MaxRestarts         \* bound: times the host starts again

\* The host uses fewer than half of the sequence numbers between two rosters that
\* I take: of what is further away, newer_than says the opposite.
ASSUME NumbersAssumption == MaxNumbers < Half /\ MaxAfter < Half

ASSUME RosterAssumption ==
    /\ First \in Seqs /\ {MaxNumbers, MaxAfter, MaxNet, MaxRestarts} \subseteq Nat
    /\ {HostName, MyName} \cup OtherNames \subseteq Seq(1 .. 4)

VARIABLES
    \* The host: the names in the slot table, those of its user interface, my
    \* slot (0: none), whether my WELCOME is unacknowledged, the number of the
    \* next packet, and the session.
    table, names, mine, pending, n, session,
    \* Between us: datagrams to me, and whether a HELLO of mine is under way.
    net, hello,
    \* Me: phase of the handshake, sender id, last_roster_seq, and the roster.
    phase, own, last, roster,
    \* History: the numbers of the last roster sent to me, of the one shown, and
    \* of the last ROSTER taken since I joined; the slots that changed their name.
    told, shown, taken, renamed

host == <<table, names, mine, pending, n, session>>
me == <<phase, own, last, roster>>
history == <<told, shown, taken, renamed>>
vars == <<host, net, hello, me, history>>

None == -1
NoName == <<0>>    \* a free slot: no character has no bytes
HOST_SENDER_ID == 0
Slots == 1 .. MAX_CLIENTS
occupied(t) == {i \in Slots : t[i] # NoName}
free(t) == Slots \ occupied(t)

Init ==
    /\ table = [i \in Slots |-> NoName] /\ names = table
    /\ mine = 0 /\ pending = FALSE /\ n = First /\ session = 1
    /\ net = {} /\ hello = TRUE
    /\ phase = "Joining" /\ own = 0 /\ last = None /\ roster = <<>>
    /\ told = None /\ shown = None /\ taken = None /\ renamed = {}

-----------------------------------------------------------------------------
(* What the host sends.                                                    *)

\* HostHandshake::roster: the host, then the taken slots in order.
host_roster(t) ==
    <<[id |-> HOST_SENDER_ID, name |-> HostName]>>
        \o [k \in 1 .. Cardinality(occupied(t)) |->
               LET i == CHOOSE j \in occupied(t) :
                            Cardinality({x \in occupied(t) : x <= j}) = k
               IN  [id |-> i, name |-> t[i]]]

welcome(t, i) ==
    [type |-> "Welcome", assigned_id |-> i, session_id |-> session, sample_rate |-> 48000,
     frame_samples |-> 120, codec |-> "Opus", roster |-> host_roster(t)]
roster_packet(t) == [type |-> "Roster", players |-> host_roster(t)]
deny(reason) == [type |-> "Deny", reason |-> reason]

LastNumber == IF session = 1 THEN First + MaxNumbers ELSE MaxAfter

Datagram(c, k) == [n |-> k, control |-> c]
bytes(d) == write_control(d.control, session, HOST_SENDER_ID, Wire(d.n))

\* The host stamps `count' packets; those of ds are to me and carry a roster or
\* a refusal.  Any of them may be lost.
Stamp(count, ds, bears) ==
    /\ n' = n + count
    /\ n' <= LastNumber
    /\ \E arriving \in SUBSET ds : net' = net \cup arriving
    /\ Cardinality(net') <= MaxNet
    /\ told' = IF bears THEN (CHOOSE d \in ds : TRUE).n ELSE told

Silent(count) == Stamp(count, {}, FALSE)

\* broadcast_roster, the first packet having number k: one ROSTER to each taken
\* slot but `except', in slot order.
recipients(t, except) == occupied(t) \ except
broadcast_to_me(t, except, k) ==
    IF mine' \in recipients(t, except)
    THEN {Datagram(roster_packet(t),
                   k + Cardinality({i \in recipients(t, except) : i < mine'}))}
    ELSE {}

\* Fault: those that are left are not told.
broadcast_forgotten(t, except, before) == Silent(before)

\* `before' packets to others, then the broadcast.
Broadcast(t, except, before) ==
    LET ds == broadcast_to_me(t, except, n + before)
    IN  Stamp(before + Cardinality(recipients(t, except)), ds, ds # {})

-----------------------------------------------------------------------------
(* The host.                                                               *)

Seat(i, name) ==
    /\ table' = [table EXCEPT ![i] = name]
    /\ names' = [names EXCEPT ![i] = name]
    /\ renamed' = renamed \ {i}

Vacate(i) == Seat(i, NoName)

\* Fault: the WELCOME carries the roster without the newcomer.
WelcomeMeEarly ==
    LET i == Min(free(table))
    IN  /\ mine = 0 /\ free(table) # {}
        /\ mine' = i /\ pending' = TRUE
        /\ Seat(i, MyName)
        /\ Stamp(1 + Cardinality(occupied(table)), {Datagram(welcome(table, i), n)}, TRUE)

\* My HELLO, and I have no slot: the first free one, and everyone else is told.
WelcomeMe ==
    LET i == Min(free(table))
    IN  /\ mine = 0 /\ free(table) # {}
        /\ mine' = i /\ pending' = TRUE
        /\ Seat(i, MyName)
        /\ Stamp(1 + Cardinality(occupied(table)), {Datagram(welcome(table', i), n)}, TRUE)

\* My HELLO again: the WELCOME again, to me alone.
WelcomeMeAgain ==
    /\ mine # 0
    /\ pending' = TRUE
    /\ Stamp(1, {Datagram(welcome(table, mine), n)}, TRUE)
    /\ UNCHANGED <<table, names, mine, renamed>>

DenyMe ==
    /\ mine = 0 /\ free(table) = {}
    /\ Stamp(1, {Datagram(deny("RoomFull"), n)}, FALSE)
    /\ UNCHANGED <<table, names, mine, pending, renamed>>

\* The HELLO may be delivered once more.
HearHello ==
    /\ hello
    /\ WelcomeMe \/ WelcomeMeAgain \/ DenyMe
    /\ hello' \in BOOLEAN
    /\ UNCHANGED <<session, me, shown, taken>>

OtherJoins(name) ==
    LET i == Min(free(table))
    IN  /\ free(table) # {}
        /\ Seat(i, name)
        /\ mine' = mine
        /\ Broadcast(table', {i}, 1)
        /\ UNCHANGED <<pending, session, hello, me, shown, taken>>

\* Another's HELLO again, perhaps of a new process with another name: the slot
\* table takes the name, the user interface does not, and nobody is told.
OtherAgain(i, name) ==
    /\ i \in occupied(table) \ {mine}
    /\ table' = [table EXCEPT ![i] = name]
    /\ renamed' = IF name = table[i] THEN renamed ELSE renamed \cup {i}
    /\ Silent(1)
    /\ UNCHANGED <<names, mine, pending, session, hello, me, shown, taken>>

\* BYE, a timeout or a WELCOME nobody acknowledges.
OtherLeaves(i) ==
    /\ i \in occupied(table) \ {mine}
    /\ Vacate(i)
    /\ mine' = mine
    /\ Broadcast(table', {}, 0)
    /\ UNCHANGED <<pending, session, hello, me, shown, taken>>

\* I am given up: a WELCOME was not acknowledged, I was silent, or I said BYE.
\* What was under way is taken for lost (see above).
MeLeft ==
    /\ mine # 0
    /\ Vacate(mine)
    /\ mine' = 0 /\ pending' = FALSE
    /\ n' = n + Cardinality(occupied(table'))
    /\ n' <= LastNumber
    /\ net' = {} /\ hello' = FALSE
    /\ UNCHANGED <<session, me, told, shown, taken>>

\* Anything of mine arrives: the WELCOME counts as acknowledged.
HearMe ==
    /\ pending
    /\ pending' = FALSE
    /\ UNCHANGED <<table, names, mine, n, session, net, hello, me, history>>

ResendWelcome ==
    /\ pending
    /\ Stamp(1, {Datagram(welcome(table, mine), n)}, TRUE)
    /\ UNCHANGED <<table, names, mine, pending, session, hello, me, shown, taken, renamed>>

\* PING, KEEPALIVE: one number for every client.
Chatter ==
    /\ occupied(table) # {}
    /\ Silent(Cardinality(occupied(table)))
    /\ UNCHANGED <<table, names, mine, pending, session, hello, me, shown, taken, renamed>>

\* The host ends and is started again, on the same address.
HostRestart ==
    /\ session <= MaxRestarts
    /\ session' = session + 1
    /\ table' = [i \in Slots |-> NoName] /\ names' = table' /\ renamed' = {}
    /\ mine' = 0 /\ pending' = FALSE /\ n' = 0
    /\ net' = {} /\ hello' = FALSE
    /\ told' = None /\ shown' = None
    /\ UNCHANGED <<me, taken>>

-----------------------------------------------------------------------------
(* Me.                                                                     *)

SendHello ==
    /\ phase = "Joining"
    /\ hello' = TRUE
    /\ UNCHANGED <<host, net, me, history>>

\* Fault: the number of the last ROSTER outlives the session.
forget_never(l) == l
forget(l) == None

\* accept_control_seq.
accept_control_seq(l, seq) == l = None \/ newer_than(seq, l)

HearWelcome(m) ==
    /\ m.control.type = "Welcome"
    /\ IF phase = "Joining"
       THEN /\ phase' = "Joined"
            /\ own' = m.control.assigned_id
            /\ last' = forget(last) /\ taken' = None
            /\ roster' = cut_names(m.control.roster) /\ shown' = m.n
       ELSE UNCHANGED <<me, shown, taken>>

HearRoster(m) ==
    /\ m.control.type = "Roster"
    /\ IF accept_control_seq(last, Wire(m.n))
       THEN /\ last' = Wire(m.n) /\ taken' = m.n
            /\ roster' = cut_names(m.control.players) /\ shown' = m.n
       ELSE UNCHANGED <<last, taken, roster, shown>>
    /\ UNCHANGED <<phase, own>>

HearDeny(m) ==
    /\ m.control.type = "Deny"
    /\ phase' = IF phase = "Joining" THEN "Failed" ELSE phase
    /\ UNCHANGED <<own, last, roster, shown, taken>>

\* A datagram arrives, and may arrive again.
Receive(m) ==
    /\ net' \in {net, net \ {m}}
    /\ HearWelcome(m) \/ HearRoster(m) \/ HearDeny(m)
    /\ UNCHANGED <<host, hello, told, renamed>>

\* The host was quiet for 5 s: what is under way is lost.
Rejoin ==
    /\ phase = "Joined"
    /\ phase' = "Joining" /\ hello' = TRUE /\ net' = {}
    /\ UNCHANGED <<host, own, last, roster, history>>

\* Refused, I am started again.
Restart ==
    /\ phase = "Failed"
    /\ phase' = "Joining" /\ own' = 0 /\ last' = None /\ roster' = <<>>
    /\ hello' = TRUE
    /\ shown' = None /\ taken' = None
    /\ UNCHANGED <<host, net, told, renamed>>

Next ==
    \/ HearHello \/ MeLeft \/ HearMe \/ ResendWelcome \/ Chatter \/ HostRestart
    \/ \E name \in OtherNames : OtherJoins(name)
    \/ \E i \in Slots : OtherLeaves(i) \/ (\E name \in OtherNames : OtherAgain(i, name))
    \/ SendHello \/ Rejoin \/ Restart
    \/ \E m \in net : Receive(m)

Spec == Init /\ [][Next]_vars

-----------------------------------------------------------------------------
(* What is on the screens.                                                 *)

\* build_host_snapshot and build_client_snapshot: the rows, and which is mine.
host_rows ==
    {[id |-> HOST_SENDER_ID, name |-> HostName]}
        \cup {[id |-> i, name |-> names[i]] : i \in occupied(names)}
client_rows ==
    {[id |-> roster[k].id, name |-> roster[k].name, you |-> roster[k].id = own] :
        k \in DOMAIN roster}

-----------------------------------------------------------------------------
(* Properties.                                                             *)

Numbers == (0 .. First + MaxNumbers) \cup (0 .. MaxAfter)
Names == OtherNames \cup {MyName}

TypeOK ==
    /\ table \in [Slots -> Names \cup {NoName}] /\ names \in [Slots -> Names \cup {NoName}]
    /\ mine \in 0 .. MAX_CLIENTS /\ pending \in BOOLEAN /\ n \in Numbers
    /\ session \in 1 .. MaxRestarts + 1
    /\ {d.n : d \in net} \subseteq Numbers /\ Cardinality(net) <= MaxNet
    /\ hello \in BOOLEAN /\ phase \in {"Joining", "Joined", "Failed"}
    /\ own \in 0 .. MAX_CLIENTS /\ last \in Seqs \cup {None}
    /\ Len(roster) <= MAX_CLIENTS + 1
    /\ {told, shown, taken} \subseteq Numbers \cup {None} /\ renamed \subseteq Slots

ToHost ==
    {[type |-> "Hello", proto_version |-> PROTOCOL_VERSION,
      room_code |-> [k \in 1 .. ROOM_CODE_LEN |-> k], name |-> MyName,
      codec_mask |-> 7, frame_mask |-> 3],
     [type |-> "Ping", t1_us |-> 70000 + n],
     [type |-> "Pong", t1_us |-> n, t2_us |-> 70000 + n, t3_us |-> 16777216 + n],
     [type |-> "Ack", acked_seq |-> (256 + n) % 65536, acked_type |-> PacketType["Welcome"]],
     [type |-> "Keepalive"], [type |-> "Bye"]}
\* The newest packet to me, or while there is none, what I may send.
Sent == IF net = {} THEN {Datagram(c, n) : c \in ToHost}
        ELSE {d \in net : \A e \in net : e.n <= d.n}
\* What arrives is what was sent, but for names, which are cut at a character:
\* also of the roster of a full room, and with names that end in the middle of a
\* character (packet.rs 516-533, 568-590).
WireFaithful ==
    \A d \in Sent :
        parse_datagram(bytes(d)) =
            [header |-> [ptype |-> d.control.type, session_id |-> session,
                         sender_id |-> HOST_SENDER_ID, seq |-> Wire(d.n)],
             payload |-> Arrived(d.control)]

\* No part of a datagram passes for a datagram, nor does one with a byte behind it
\* (packet.rs 425, 591-597): a roster is never taken in part.
OnlyWholeParses == \A d \in Sent : OnlyWhole(bytes(d))

\* A joined client takes a ROSTER exactly if it is newer than the last it took,
\* whatever the network reorders and repeats, across the end of the sequence
\* numbers and the restart of the host (control.rs 451-457, 529-533).
NewsIsTaken ==
    [][\A m \in net :
          phase = "Joined" /\ m.control.type = "Roster" /\ Receive(m)
          => taken' = IF taken = None \/ m.n > taken THEN m.n ELSE taken]_vars

\* Who has seen the last roster sent to him has the players of the host's screen
\* on his: every change of the table is sent to all who are left in it, and a
\* newcomer's WELCOME has him already (handshake.rs 393-404, 503-505).
SameRoom ==
    phase = "Joined" /\ own = mine /\ told # None /\ shown = told
    => LET fresh(rows) == {r \in rows : r.id \notin renamed}
       IN  {[id |-> r.id, name |-> r.name] : r \in fresh(client_rows)}
             = {[r EXCEPT !.name = kept(@)] : r \in fresh(host_rows)}

\* A client who is in the room finds himself on his screen, once, under his own
\* name (control.rs 626-637).
OneRowIsMe ==
    phase = "Joined" /\ own = mine
    => {r.name : r \in {x \in client_rows : x.you}} = {kept(MyName)}
=============================================================================
