------------------------------- MODULE Engine -------------------------------
(***************************************************************************)
(* A session's process, from start_host or start_client of                 *)
(* jam-core/src/engine.rs to SessionHandle::shutdown: the threads that     *)
(* receive, transmit and control, the audio callbacks (module Bridge) and  *)
(* the way of their frames to the network (module Sender).                 *)
(*                                                                         *)
(* The headless variants leave the pipeline to their caller, who also      *)
(* decides when a frame is made.  To keep the two halves apart (a bound),  *)
(* clients come and go only in headless sessions; with a sound card the    *)
(* callbacks run, and have nobody to send to.                              *)
(***************************************************************************)
EXTENDS Bridge, Sender

CONSTANT Kinds      \* kinds of sessions: role, and whether headless

ASSUME EngineAssumption == Kinds \subseteq [role : {"host", "client"}, headless : BOOLEAN]

VARIABLES
    headless,
    main,           \* the thread that starts and ends the session
    shutdown,       \* the flag that shutdown sets
    rx, ctl, tx,    \* the threads
    events,         \* the channel from rx to ctl: packets in it (at most one)
    byes            \* tenants that ctl has said goodbye to

threads == <<rx, ctl, tx>>
process == <<headless, main, shutdown, threads, events, byes>>
vars == <<bridge, sender, process>>

Init ==
    /\ \E k \in Kinds : headless = k.headless /\ SenderInit(k.role)
    /\ BridgeInit
    \* Without a sound card the buffer size means nothing.
    /\ headless => hw = CHOOSE size \in HwBuffers : TRUE
    /\ main = "idle" /\ shutdown = FALSE
    /\ rx = "off" /\ ctl = "off" /\ tx = "off" /\ events = 0 /\ byes = {}

-----------------------------------------------------------------------------
(* Start and shutdown.                                                     *)

\* The socket is bound and the threads run before the audio is set up.
SpawnThreads ==
    /\ main = "idle"
    /\ main' = "audio"
    /\ rx' = "recv" /\ ctl' = "loop" /\ tx' = "loop"
    /\ UNCHANGED <<bridge, sender, headless, shutdown, events, byes>>

AudioStarts ==
    /\ main = "audio"
    /\ main' = "running"
    /\ UNCHANGED <<bridge, sender, headless, shutdown, threads, events, byes>>

\* start_* returns the error, and the threads go on without a handle.
AudioFails ==
    /\ main = "audio"
    /\ main' = "failed"
    /\ UNCHANGED <<bridge, sender, headless, shutdown, threads, events, byes>>

Shutdown ==
    /\ main = "running"
    /\ main' = "streams" /\ shutdown' = TRUE
    /\ UNCHANGED <<bridge, sender, headless, threads, events, byes>>

\* The streams are dropped when no callback runs; the next session makes new ones.
DropStreams ==
    /\ main = "streams" /\ needed = 0
    /\ main' = "joining"
    /\ capture' = 0 /\ pending' = new_fifo /\ next' = 0
    /\ turn' = "in" /\ calm' = 0 /\ hiccups' = MaxHiccups /\ gap' = FALSE
    /\ UNCHANGED <<hw, needed, data, sender, headless, shutdown, threads, events, byes>>

\* Fault: the control thread is not among the threads that are joined.
JoinSome ==
    /\ main = "joining" /\ rx = "gone" /\ tx = "gone"
    /\ main' = "ended"
    /\ UNCHANGED <<bridge, sender, headless, shutdown, threads, events, byes>>

JoinThreads ==
    /\ main = "joining" /\ rx = "gone" /\ tx = "gone" /\ ctl = "gone"
    /\ main' = "ended"
    /\ UNCHANGED <<bridge, sender, headless, shutdown, threads, events, byes>>

\* The application may start another session.
Again ==
    /\ main = "ended"
    /\ main' = "idle" /\ shutdown' = FALSE
    /\ rx' = "off" /\ ctl' = "off" /\ tx' = "off" /\ events' = 0 /\ byes' = {}
    /\ seat' = [d \in Dests |-> Nobody] /\ owed' = NoUpdate
    /\ updates' = IF role = "client" THEN <<<<DEST_PEER, HOST>>>> ELSE <<>>
    /\ mixed' = {} /\ clock' = 0
    /\ seqs' = [d \in Dests |-> 0] /\ prev_enc' = [d \in Dests |-> NoCopy]
    /\ ring' = <<>> /\ txtable' = [d \in Dests |-> Nobody] /\ txat' = "top"
    /\ tenants' = 0 /\ sent' = [d \in Dests |-> <<>>] /\ left' = {} /\ known' = {}
    /\ UNCHANGED <<bridge, role, headless>>

-----------------------------------------------------------------------------
(* The receive and the control thread.                                     *)

\* The read times out, or there was a packet, for the control thread (so it is in
\* headless sessions) or not; then the flag is looked at before the next read.  A
\* thread that ends drops its end of the channel.
Rx ==
    /\ rx = "recv"
    /\ events' = events \/ (headless /\ events' = 1)
    /\ rx' = IF shutdown THEN "gone" ELSE "recv"
    /\ UNCHANGED <<bridge, sender, headless, main, shutdown, ctl, tx, byes>>

\* An event makes a client join or leave; one also leaves by a tick, for silence.
Handle ==
    \/ events = 1 /\ events' = 0 /\ \E d \in Dests : ClientJoined(d) \/ ClientLeft(d)
    \/ events = 1 /\ events' = 0 /\ SetJoined
    \/ events' = events /\ \E d \in Dests : ClientLeft(d)

CtlHandles ==
    /\ headless /\ ctl = "loop" /\ owed = NoUpdate
    /\ Handle
    /\ UNCHANGED <<bridge, headless, main, shutdown, threads, byes>>

CtlTells ==
    /\ ctl = "loop" /\ Tell
    /\ UNCHANGED <<bridge, process>>

\* Fault: the handle keeps a sender of the event channel.
disconnected_never == FALSE

\* recv_timeout reports it when the channel is drained and the receiver gone.
disconnected == rx = "gone" /\ events = 0

\* An event without consequence, or 50 ms without an event.
CtlIgnores ==
    /\ ctl = "loop" /\ owed = NoUpdate /\ ~disconnected
    /\ events' = 0
    /\ UNCHANGED <<bridge, sender, headless, main, shutdown, threads, byes>>

CtlEnds ==
    /\ ctl = "loop" /\ owed = NoUpdate /\ disconnected
    /\ ctl' = "gone"
    /\ byes' = {seat[d] : d \in Dests} \ {Nobody}
    /\ UNCHANGED <<bridge, sender, headless, main, shutdown, rx, tx, events>>

-----------------------------------------------------------------------------
(* The transmit thread and the callbacks.                                  *)

TxEnds ==
    /\ tx = "loop" /\ txat = "top" /\ shutdown
    /\ tx' = "gone"
    /\ UNCHANGED <<bridge, sender, headless, main, shutdown, rx, ctl, events, byes>>

TxGoes ==
    /\ tx = "loop"
    /\ (TxDrain /\ ~shutdown) \/ TxLoop
    /\ UNCHANGED <<bridge, process>>

StreamsCall ==
    /\ ~headless /\ main \in {"running", "streams"}
    /\ main = "running" \/ needed > 0
    /\ BridgeNext
    /\ UNCHANGED <<sender, process>>

CallerCalls ==
    /\ headless /\ main = "running"
    /\ Callback
    /\ UNCHANGED <<bridge, process>>

-----------------------------------------------------------------------------
Ctl == CtlHandles \/ CtlIgnores \/ CtlTells \/ CtlEnds
Tx == TxEnds \/ TxGoes

Next ==
    \/ SpawnThreads \/ AudioStarts \/ AudioFails \/ Shutdown \/ DropStreams \/ JoinThreads \/ Again
    \/ Rx \/ Ctl \/ Tx
    \/ StreamsCall \/ CallerCalls

\* Threads that can go on do, and so does a callback that has begun; shutdown is
\* called or not.
Fairness ==
    /\ WF_vars(Rx) /\ WF_vars(CtlIgnores \/ CtlTells \/ CtlEnds) /\ WF_vars(Tx)
    /\ WF_vars(StreamsCall /\ needed > 0)
    /\ WF_vars(DropStreams) /\ WF_vars(JoinThreads)

Spec == Init /\ [][Next]_vars /\ Fairness

-----------------------------------------------------------------------------
(* Properties.                                                             *)

TypeOK ==
    /\ BridgeTypeOK /\ SenderTypeOK
    /\ headless \in BOOLEAN /\ shutdown \in BOOLEAN /\ events \in 0 .. 1
    /\ main \in {"idle", "audio", "running", "failed", "streams", "joining", "ended"}
    /\ rx \in {"off", "recv", "gone"}
    /\ {ctl, tx} \subseteq {"off", "loop", "gone"} /\ byes \subseteq Tenants

\* When shutdown returns, everyone who has a seat by then has been told, even who
\* came in with the last packet before the receive thread ended, and no thread is
\* left that could seat another (control.rs 258-266, engine.rs 57-65).
GoodbyeSaid ==
    main = "ended" =>
        /\ {seat[d] : d \in Dests} \ {Nobody} \subseteq byes
        /\ rx = "gone" /\ ctl = "gone" /\ tx = "gone"

\* shutdown returns: the flag stops two threads, and the end of the first closes
\* the channel that stops the third (engine.rs 58, net.rs 151, control.rs 258).
ShutdownEnds == main = "streams" ~> main = "ended"

\* A client that keeps its slot gets its datagrams from some time on, unless the
\* session ends: the message to the transmit thread comes and is taken, though that
\* thread first empties the ring (control.rs 152-157, net.rs 73-82).
misdirected == \E d \in Dests : seat[d] # Nobody /\ txtable[d] # seat[d]
NewcomerServed == misdirected ~> ~misdirected \/ tx = "gone"
=============================================================================
