------------------------------ MODULE Settled ------------------------------
(***************************************************************************)
(* A session with a history: the clients that are settled in their slots.  *)
(* A client is while it is joined with the slot as its sender id and the   *)
(* slot is its own, from the time its packets have refreshed last_rx_us of *)
(* that slot: no longer when it is quiet and joins again, ends or is       *)
(* dropped.                                                                *)
(***************************************************************************)
EXTENDS Session

VARIABLE settled

hvars == <<vars, settled>>

\* Client and host agree on slot i.
at_home(i) ==
    /\ hup /\ slots[i] # Free
    /\ LET cl == client[slots[i].addr]
       IN  cl.up /\ cl.joined /\ cl.id = i /\ cl.sess = session

\* The receive thread credits slot i with a packet of the client that has it.
credits(i) == hrx[i] # 0 /\ hrx'[i] = 0 /\ rxaddr[i] = slots[i].addr

HNext ==
    /\ Next
    /\ settled' = {i \in Slots : at_home(i)' /\ (i \in settled \/ (at_home(i) /\ credits(i)))}

HSpec == Init /\ settled = {} /\ [][HNext]_hvars

-----------------------------------------------------------------------------
(* Properties.                                                             *)

\* Of a settled client everything the host accepts is credited to its slot, but
\* for what was sent before, and that is no older than a packet may be: the
\* receive thread's time never runs behind what it has heard (net.rs 206-216,
\* 260-270).
HomeInv ==
    \A i \in settled :
        LET a == slots[i].addr
        IN  /\ at_home(i) /\ rxaddr[i] = a
            /\ hrx[i] \in RxAges /\ hrx[i] <= silence[a] + MaxDelay
            /\ \A m \in net : m.from = a /\ m.id # i => hrx[i] <= m.age

\* A settled client is dropped without a BYE only if the host has accepted nothing
\* from it for PEER_TIMEOUT, less the delay of a packet, although what the receive
\* thread hears reaches the slot table by two ways, events and the liveness feed
\* (control.rs 262-275, handshake.rs 454-480).
OnlySilentEvicted ==
    [][\A i \in settled :
          slots'[i] = Free /\ hup' =>
             \/ hq # <<>> /\ Head(hq).kind = "Bye" /\ Head(hq).from = slots[i].addr
             \/ silence[slots[i].addr] > PEER_TIMEOUT - MaxDelay]_hvars
=============================================================================
