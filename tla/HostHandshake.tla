--------------------------- MODULE HostHandshake ---------------------------
(***************************************************************************)
(* HostHandshake of jam-protocol/src/handshake.rs: a pure state machine    *)
(* over the slot table.  Every operator takes the table and returns the    *)
(* new one with what the embedder is told to do: the packets to send and   *)
(* the slots whose client joined or left.                                  *)
(*                                                                         *)
(* Time stamps are ages (how long ago), capped where the code stops        *)
(* telling them apart, so that time may pass for ever.  Slot i is sender   *)
(* id i.  Names, and with them the contents of rosters, are in Roster.     *)
(* The sequence number of a WELCOME is left out: the control loop calls    *)
(* mark_heard for the sender of an ACK before it calls on_ack, and         *)
(* mark_heard has already made the slot Active when on_ack compares.       *)
(***************************************************************************)
EXTENDS Integers, FiniteSets, FiniteSetsExt

CONSTANTS
    Clients,            \* client addresses
    MAX_CLIENTS,        \* 4
    CONTROL_RETRY,      \* ticks between retransmissions (100 ms)
    CONTROL_MAX_TRIES,  \* 10
    PEER_TIMEOUT        \* ticks of silence after which a peer is dead (5 s)

ASSUME HostAssumption ==
    /\ IsFiniteSet(Clients)
    /\ MAX_CLIENTS \in Nat \ {0}
    /\ CONTROL_RETRY \in Nat \ {0}
    /\ CONTROL_MAX_TRIES \in Nat \ {0}
    /\ PEER_TIMEOUT \in Nat \ {0}

Slots == 1 .. MAX_CLIENTS
Free == [state |-> "Free"]

TxAges == 0 .. CONTROL_RETRY
RxAges == 0 .. PEER_TIMEOUT + 1
Tries == 1 .. CONTROL_MAX_TRIES

Taken == [state : {"Pending"}, addr : Clients, heard : RxAges, tx : TxAges, tries : Tries]
         \cup [state : {"Active"}, addr : Clients, heard : RxAges]

Older(a, cap) == IF a < cap THEN a + 1 ELSE a

NoSlots == [i \in Slots |-> Free]

occupied(slots) == {i \in Slots : slots[i] # Free}
sender_for_addr(slots, a) == {i \in occupied(slots) : slots[i].addr = a}
client_addrs(slots) == {slots[i].addr : i \in occupied(slots)}

Pending(a) ==
    [state |-> "Pending", addr |-> a, heard |-> 0, tx |-> 0, tries |-> 1]

\* Fault: the WELCOME names the slot after the assigned one.
welcome_off_by_one(i, a) == [kind |-> "Welcome", to |-> a, id |-> (i % MAX_CLIENTS) + 1]

welcome(i, a) == [kind |-> "Welcome", to |-> a, id |-> i]
deny(a) == [kind |-> "Deny", to |-> a]
broadcast_roster(slots, except) ==
    {[kind |-> "Roster", to |-> a] : a \in client_addrs(slots) \ except}

Result(slots, send, joined, left) ==
    [slots |-> slots, send |-> send, joined |-> joined, left |-> left]

\* The seat of a newcomer: the first free slot.
seat(slots, a) ==
    LET i == Min(Slots \ occupied(slots))
        new == [slots EXCEPT ![i] = Pending(a)]
    IN  Result(new, {welcome(i, a)} \cup broadcast_roster(new, {a}), {i}, {})

\* An address that has a slot: a HELLO retry or a restart.
reseat(slots, a) ==
    LET i == Min(sender_for_addr(slots, a))
    IN  Result([slots EXCEPT ![i] = Pending(a)], {welcome(i, a)}, {}, {})

refuse(slots, a) == Result(slots, {deny(a)}, {}, {})

full(slots) == occupied(slots) = Slots
known(slots, a) == sender_for_addr(slots, a) # {}

\* Fault: the room code is not looked at.
on_hello_any_code(slots, a, right) ==
    IF known(slots, a) THEN reseat(slots, a)
    ELSE IF full(slots) THEN refuse(slots, a) ELSE seat(slots, a)

\* Fault: an address that has a slot is given another.
on_hello_always_seats(slots, a, right) ==
    IF ~right \/ full(slots) THEN refuse(slots, a) ELSE seat(slots, a)

\* right: the HELLO's protocol version and room code are the host's.
on_hello(slots, a, right) ==
    IF ~right THEN refuse(slots, a)
    ELSE IF known(slots, a) THEN reseat(slots, a)
    ELSE IF full(slots) THEN refuse(slots, a) ELSE seat(slots, a)

\* Any packet from slot i, heard `age` ago: refreshes liveness (even backwards)
\* and stands for the acknowledgement of the WELCOME.
mark_heard(slots, i, age) ==
    IF slots[i] = Free THEN slots
    ELSE [slots EXCEPT ![i] = [state |-> "Active", addr |-> @.addr, heard |-> age]]

\* Frees the slots of S and tells everyone left.
remove(slots, S) ==
    LET new == [i \in Slots |-> IF i \in S THEN Free ELSE slots[i]]
    IN  Result(new, IF S = {} THEN {} ELSE broadcast_roster(new, {}), {}, S)

on_bye(slots, a) == remove(slots, sender_for_addr(slots, a))

\* Fault: a peer is never dead.
timed_out_never(slots) == {}

timed_out(slots) == {i \in occupied(slots) : slots[i].heard > PEER_TIMEOUT}

retry_due(slots) ==
    {i \in occupied(slots) \ timed_out(slots) :
        slots[i].state = "Pending" /\ slots[i].tx >= CONTROL_RETRY}

\* Fault: retransmissions are not counted.
unacked_never(slots) == {}

unacked(slots) == {i \in retry_due(slots) : slots[i].tries >= CONTROL_MAX_TRIES}

tick(slots) ==
    LET resend == retry_due(slots) \ unacked(slots)
        retried == [i \in Slots |->
            IF i \in resend THEN [slots[i] EXCEPT !.tx = 0, !.tries = @ + 1]
            ELSE slots[i]]
        res == remove(retried, timed_out(slots) \cup unacked(slots))
    IN  [res EXCEPT !.send = @ \cup {welcome(i, slots[i].addr) : i \in resend}]

\* A tick of the clock, seen from the table.
SlotsOlder(slots) == [i \in Slots |->
    IF slots[i] = Free THEN Free
    ELSE IF slots[i].state = "Active"
         THEN [slots[i] EXCEPT !.heard = Older(@, PEER_TIMEOUT + 1)]
         ELSE [slots[i] EXCEPT !.heard = Older(@, PEER_TIMEOUT + 1),
                               !.tx = Older(@, CONTROL_RETRY)]]
=============================================================================
