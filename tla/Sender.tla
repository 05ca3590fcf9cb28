------------------------------- MODULE Sender -------------------------------
(***************************************************************************)
(* The way of an audio frame out of the process: the pipelines of          *)
(* jam-core/src/pipeline.rs make one datagram per destination and frame,   *)
(* a bounded ring carries them to the transmit thread of net.rs, and that  *)
(* thread looks up where to send them in a table of its own, which the     *)
(* control thread of control.rs keeps by messages.                         *)
(*                                                                         *)
(* A destination is a slot of the host's table or, in a client, the host.  *)
(* Whoever holds it is its tenant, and tenants are numbered as they come.  *)
(* The frame itself is left out: a payload names its frame and destination.*)
(***************************************************************************)
EXTENDS Packets, Seq16

LOCAL INSTANCE FiniteSetsExt

CONSTANTS
    TX_RING,        \* datagrams the ring holds (256)
    REDUNDANCY,     \* params.redundancy
    MaxTenants,     \* bound: clients that join
    MaxFrames       \* bound: frames of a session

ASSUME SenderAssumption ==
    /\ TX_RING \in Nat \ {0} /\ REDUNDANCY \in BOOLEAN
    /\ MaxTenants \in Nat /\ MaxFrames \in 0 .. 254

DEST_PEER == 0
Nobody == 0
HOST == 1           \* a client's only tenant
NoUpdate == <<>>
Dests == 0 .. MAX_CLIENTS
Tenants == 1 .. MaxTenants + 1

VARIABLES
    role,           \* "host" or "client"
    \* The control thread: whose audio is active (or, in a client, joined), and
    \* the update of the address table it still has to send.
    seat, owed,
    updates,        \* the channel to the transmit thread
    \* The audio callback: destinations of the frame still to be served, the next
    \* sequence number and the last payload of each, and frames begun.
    mixed, seqs, prev_enc, clock,
    \* The ring, and the transmit thread: its table, and whether it is at the top
    \* of its loop or pops.
    ring, txtable, txat,
    \* History: tenants so far, payloads by destination and number, tenants of
    \* whose departure the transmit thread has been sent word, and those of them
    \* it had been when it last drained its channel.
    tenants, sent, left, known

control == <<seat, owed, tenants, left>>
callback == <<mixed, seqs, prev_enc, clock, sent>>
transmit == <<txtable, txat, known>>
sender == <<role, control, updates, callback, ring, transmit>>

SenderInit(r) ==
    /\ role = r
    /\ seat = [d \in Dests |-> Nobody] /\ owed = NoUpdate
    \* start_client tells the transmit thread where the host is.
    /\ updates = IF r = "client" THEN <<<<DEST_PEER, HOST>>>> ELSE <<>>
    /\ mixed = {} /\ clock = 0
    /\ seqs = [d \in Dests |-> 0] /\ prev_enc = [d \in Dests |-> NoCopy]
    /\ ring = <<>> /\ txtable = [d \in Dests |-> Nobody] /\ txat = "top"
    /\ tenants = 0 /\ sent = [d \in Dests |-> <<>>] /\ left = {} /\ known = {}

-----------------------------------------------------------------------------
(* The control thread.  A slot changes hands in two steps: the flag that   *)
(* the callback reads, then the message to the transmit thread.            *)

ClientJoined(d) ==
    /\ role = "host" /\ owed = NoUpdate
    /\ d # DEST_PEER /\ seat[d] = Nobody /\ tenants < MaxTenants
    /\ tenants' = tenants + 1
    /\ seat' = [seat EXCEPT ![d] = tenants']
    /\ owed' = <<d, tenants'>>
    /\ UNCHANGED <<role, updates, callback, ring, transmit, left>>

ClientLeft(d) ==
    /\ role = "host" /\ owed = NoUpdate
    /\ seat[d] # Nobody
    /\ seat' = [seat EXCEPT ![d] = Nobody]
    /\ owed' = <<d, Nobody>>
    /\ UNCHANGED <<role, updates, callback, ring, transmit, tenants, left>>

\* Clients without a seat.
gone == {t \in 1 .. tenants : \A d \in Dests : seat[d] # t}

\* Fault: only the receive thread is told.
TellReceiverOnly ==
    /\ owed # NoUpdate
    /\ owed' = NoUpdate /\ left' = gone
    /\ UNCHANGED <<role, seat, updates, tenants, callback, ring, transmit>>

Tell ==
    /\ owed # NoUpdate
    /\ updates' = Append(updates, owed)
    /\ owed' = NoUpdate /\ left' = gone
    /\ UNCHANGED <<role, seat, tenants, callback, ring, transmit>>

\* A client joins its host, or loses it.
SetJoined ==
    /\ role = "client"
    /\ seat' = [seat EXCEPT ![DEST_PEER] = IF @ = Nobody THEN HOST ELSE Nobody]
    /\ UNCHANGED <<role, owed, tenants, left, updates, callback, ring, transmit>>

-----------------------------------------------------------------------------
(* The audio callback.                                                     *)

\* A frame serves the destinations that are active as it begins.
FrameBegin ==
    /\ mixed = {} /\ clock < MaxFrames
    /\ mixed' = {d \in Dests : seat[d] # Nobody}
    /\ clock' = clock + 1
    /\ UNCHANGED <<role, control, updates, seqs, prev_enc, sent, ring, transmit>>

\* Bytes of the datagram with number n for d.
audio_datagram(d, n, payload) ==
    write_audio([timestamp |-> clock - 1, codec |-> "Opus", payload |-> payload,
                 redundant |-> IF REDUNDANCY THEN prev_enc[d] ELSE NoCopy],
                [ptype |-> "Audio", session_id |-> 1, sender_id |-> 0, seq |-> Wire(n)])

Item(d, n, payload) == [dest |-> d, n |-> n, bytes |-> audio_datagram(d, n, payload)]

\* The next destination's datagram: a full ring does not take it, but it is the
\* last one all the same.
Emit(d) ==
    LET payload == <<clock, d>>
        item == Item(d, seqs[d], payload)
    IN  /\ d \in mixed /\ d = Min(mixed)
        /\ mixed' = mixed \ {d}
        /\ ring' = IF Len(ring) < TX_RING THEN Append(ring, item) ELSE ring
        /\ seqs' = [seqs EXCEPT ![d] = @ + 1]
        /\ prev_enc' = [prev_enc EXCEPT ![d] = <<payload>>]
        /\ sent' = [sent EXCEPT ![d] = Append(@, [n |-> seqs[d], payload |-> payload])]
        /\ UNCHANGED <<role, control, updates, clock, transmit>>

\* Fault: a number is spent on the frame that could not be encoded.
EncodeFailsNumbered(d) ==
    /\ d \in mixed /\ d = Min(mixed)
    /\ mixed' = mixed \ {d}
    /\ seqs' = [seqs EXCEPT ![d] = @ + 1]
    /\ UNCHANGED <<role, control, updates, prev_enc, clock, sent, ring, transmit>>

EncodeFails(d) ==
    /\ d \in mixed /\ d = Min(mixed)
    /\ mixed' = mixed \ {d}
    /\ UNCHANGED <<role, control, updates, seqs, prev_enc, clock, sent, ring, transmit>>

Callback == FrameBegin \/ \E d \in Dests : Emit(d) \/ EncodeFails(d)

-----------------------------------------------------------------------------
(* The transmit thread.                                                    *)

\* Fault: one update in each turn.
TxDrainOne ==
    /\ txat = "top"
    /\ txat' = "pop" /\ known' = left
    /\ updates' = IF updates = <<>> THEN <<>> ELSE Tail(updates)
    /\ txtable' = IF updates = <<>> THEN txtable
                  ELSE [txtable EXCEPT ![updates[1][1]] = updates[1][2]]
    /\ UNCHANGED <<role, control, callback, ring>>

\* The table after the updates of the channel: the last one for d counts.
newest(S) == CHOOSE k \in S : \A j \in S : j <= k
news(d) == {k \in DOMAIN updates : updates[k][1] = d}
resolved(d) == IF news(d) = {} THEN txtable[d] ELSE updates[newest(news(d))][2]

\* All updates are taken before the ring is looked at.
TxDrain ==
    /\ txat = "top"
    /\ txat' = "pop" /\ known' = left
    /\ updates' = <<>>
    /\ txtable' = [d \in Dests |-> resolved(d)]
    /\ UNCHANGED <<role, control, callback, ring>>

\* The oldest datagram goes to the present tenant of its destination, if there is
\* one, or is lost.
TxPop ==
    /\ txat = "pop" /\ ring # <<>>
    /\ ring' = Tail(ring)
    /\ UNCHANGED <<role, control, updates, callback, transmit>>

\* The ring is empty.
TxIdle ==
    /\ txat = "pop" /\ ring = <<>>
    /\ txat' = "top"
    /\ UNCHANGED <<role, control, updates, callback, ring, txtable, known>>

TxLoop == TxPop \/ TxIdle

-----------------------------------------------------------------------------
(* Properties.                                                             *)

SenderTypeOK ==
    /\ role \in {"host", "client"}
    /\ seat \in [Dests -> {Nobody} \cup Tenants] /\ txtable \in [Dests -> {Nobody} \cup Tenants]
    /\ mixed \subseteq Dests /\ clock \in 0 .. MaxFrames
    /\ seqs \in [Dests -> 0 .. MaxFrames] /\ Len(ring) <= TX_RING
    /\ txat \in {"top", "pop"} /\ left \cup known \subseteq Tenants

\* A datagram, read by its receiver, carries its own frame and number, and as its
\* redundant copy the payload that was given the number before: the receiver stores
\* the copy under that number (pipeline.rs 218-238, net.rs 227-237), whatever could
\* not be encoded or found the ring full in between.
RedundantIsPrevious ==
    \A i \in DOMAIN ring :
        LET p == parse_datagram(ring[i].bytes)
            log == sent[ring[i].dest]
            of(n) == {log[k].payload : k \in {j \in DOMAIN log : log[j].n = n}}
        IN  /\ ~failed(p) /\ p.header.seq = Wire(ring[i].n)
            /\ p.payload.payload \in of(ring[i].n)
            /\ p.payload.redundant = NoCopy => ~REDUNDANCY \/ ring[i].n = 0
            /\ \A k \in DOMAIN p.payload.redundant :
                  p.payload.redundant[k] \in of(ring[i].n - 1)

\* Once the transmit thread has drained its channel, nothing goes to a client whose
\* departure it had been sent by then (net.rs 73-82): what still strays to one that
\* has left is what this thread pops before it looks again.
DepartedLeftAlone == \A d \in Dests : txtable[d] \notin known
=============================================================================
