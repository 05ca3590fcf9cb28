# Verification of online-jam

online-jam lets a handful of musicians play together over UDP: one host mixes, up to
four clients send their microphone and hear the mix. This directory holds TLA+ models
of its core, TLC configurations that check them on small instances, and theorems
that TLAPS proves for every value of the constants. Paths below are relative to
`crates/`.

## The system

| Component | Source | State | Operations |
|---|---|---|---|
| Sequence arithmetic | `jam-protocol/src/seq.rs` | a u16 counter | `newer_than`, `diff`, `SeqGen::next` |
| Handshake, host | `jam-protocol/src/handshake.rs` | table of 4 slots: address, Pending/Active, last heard, tries | `on_hello`, `on_ack`, `mark_heard`, `on_bye`, `tick` |
| Handshake, client | same | phase: Joining, Joined, Failed | `start`, `tick`, `on_control` |
| Control threads | `jam-core/src/control.rs` | the handshake machines, rejoin deadline, timers | one loop iteration per event or 50 ms timeout |
| Receive thread | `jam-core/src/net.rs` | copy of the address table, `last_rx_us` of each stream | one datagram at a time |
| Transmit thread | same | copy of the address table, ring of datagrams | drain and send |
| Jitter buffer | `jam-audio/src/jitter.rs` | 64 slots of state, seq, timestamp, length and payload; `next_seq`, `newest_seq`, `started` | `push`, `pop_next`, `skip_next`, `reset`, `depth` |
| Playout | `jam-audio/src/jitter.rs`, `jam-core/src/playout.rs` | primed, misses, target, pending correction, staged samples | `tick` in the audio callback |
| Sample FIFO | `jam-audio/src/accum.rs` | ring, head, len | `push`, `pop` |
| Audio engine | `jam-core/src/engine.rs` | shutdown flag, threads, streams, capture ring, output fifo | `start_*`, two callbacks, `shutdown` |
| Pipelines | `jam-core/src/pipeline.rs` | per destination: next sequence number, last payload | `process_frame` |
| Packet format | `jam-protocol/src/packet.rs` | none | writers, readers, `accept_control_seq` |
| Host mix | `jam-core/src/lib.rs`, `pipeline.rs`, `jam-audio/src/mixer.rs` | mute, solo, gains | `process_frame` |
| Resampler, codec, meters, devices, GUI, command line, measuring, STUN | `jam-audio`, `jam-app` | | signal processing and I/O |

How they interact. The receive thread pushes audio into the jitter buffer of a stream
and sends every other packet except PING to the control thread over a channel; it
answers PINGs itself. The control thread owns the handshake and tells the receive and
transmit threads about slot changes over channels that they drain between packets.
Signs of life reach the host's handshake by two ways: as events, and through
`last_rx_us`, which the control loop reads in every iteration. The audio callback
reads the jitter buffers without locks; the control thread resets them as well. It
emits one datagram per destination and frame into the ring of the transmit thread, and
meets the sound card in blocks of another size than its frames.

What is hard about it. Three threads on a lock-free ring; packets lost, duplicated,
reordered and delayed across a wrap of their 16-bit numbers; two timeouts, one at each
end, that work from different evidence; slots that change hands while packets of their
former owner are under way; restarts on the same address; blocks and frames that do not
divide each other; threads of which each waits for another when the session ends. `PROJECT.json` lists every
such place under "hazards" with the properties that cover it.

## The modules

| Module | Models | Read with |
|---|---|---|
| `Seq16` | `seq.rs` over a ring of 2*Half numbers (Half = 32768 in the code) | |
| `Seq16Theorems` | what `diff` computes, proved | `Seq16` |
| `JitterBuffer` | the ring, one step per atomic access | `jitter.rs`, `playout.rs` |
| `JitterBufferProofs` | its inductive invariant and theorems | `JitterBuffer` |
| `Playout` | the receive chain of one stream, one step per callback tick, push and control action | `jitter.rs`, `playout.rs`, `pipeline.rs` |
| `PlayoutProofs` | its inductive invariant and theorems | `Playout` |
| `HostHandshake` | the slot table as pure operators | `handshake.rs` |
| `ClientHandshake` | the join machine as pure operators | `handshake.rs` |
| `Session` | host, clients and network composed | `control.rs`, `net.rs` |
| `Settled` | `Session` with a history: the clients settled in their slots | `Session`, `net.rs` |
| `SessionProofs` | the inductive invariants and theorems of both | `Session`, `Settled` |
| `HostMix` | who is heard in a frame, one step per access to a flag | `lib.rs`, `pipeline.rs`, `control.rs`, `status_ui.rs` |
| `HostMixProofs` | its inductive invariant and theorems | `HostMix` |
| `MCSession`, `MCSettled` | `Session` and `Settled` with symmetric clients, for TLC | |
| `Packets` | every writer and reader, bytes out and bytes in | `packet.rs` |
| `PacketProofs` | that every packet is read as it was written, or not at all | `Packets` |
| `Roster` | who is in the room: the host's table, WELCOME and ROSTER, one client's list | `handshake.rs`, `control.rs`, `packet.rs` |
| `RosterProofs` | its inductive invariant and theorems | `Roster` |
| `MCRoster` | the names of the `roster` run | |
| `SampleFifo` | the ring of samples as pure operators | `accum.rs` |
| `Playback` | what the output callback promises the device | `engine.rs` |
| `Bridge` | the two audio callbacks, which implement it | `engine.rs`, `device.rs` |
| `Sender` | an audio frame's way to the transmit thread and out | `pipeline.rs`, `net.rs`, `control.rs` |
| `Engine` | a session's process from start to shutdown, with `Bridge` and `Sender` | `engine.rs`, `net.rs`, `control.rs` |
| `EngineProofs` | the inductive invariants and theorems of `Bridge`, `Sender` and the process | `Engine`, `Bridge`, `SampleFifo`, `Sender` |
| `MCEngine` | the kinds of session of the `engine` run | |

**JitterBuffer.** A packet is its absolute number n; the wire carries `Wire(n)`. Each
slot has a state, a seq and two data cells, `head` (length and timestamp) and `body`
(payload), that hold the number of the packet they were written from, so that a
mixture is visible. `push` is thirteen steps from `PushBegin` to `PushPublish`;
`pop_next` with `take` and `skip_next` share the steps `PopLoadNext` to `PopAdvance`;
`reset` wipes one slot per step. Accesses interleave as under sequential consistency.
The code uses acquire/release and two fences instead; for the slots these order
exactly the accesses the model orders, but weaker executions are not explored. The
playout around the buffer is reduced to what decides which operation comes next:
priming, counting misses, concealing, skipping, resetting after an outage. Skips and
inserts may come at any time (their conditions are depth and loudness). The history
variables `hi`, `next_n`, `exp_n`, `stored`, `was_stored` hold absolute numbers the
program does not have, and `lapped` says whether the writer was ever a ring ahead; no
guard of the program's steps reads them. They appear in
`PushBegin`, as the assumption on the network, and in `PopBegin`, as the bound on the
run. `Spec` has one writer and one reader, as the documentation of
`jitter.rs` says; `SharedSpec` adds the control thread that `control.rs` really runs.

**Playout.** The policy in full, over a ring whose operations are atomic. `ticks` is the
set of states one callback tick can leave: `pre_pop`; then, without drift correction, one
`pull`, with it as many as fill the staging FIFO to a frame; then the pending correction
if the frame is quiet. Around it: packets that arrive, get lost, or arrive late, again or
as the redundant copy of a later one, after a reset also before any other (`sent` counts
how many the sender has that may still arrive); packets of an earlier sender; a sender that starts
again at once (the buffer is not reset); a peer that leaves or joins (it is), between any
two ticks, so that the callback may miss the edge of `active`. Decoding errors,
loudness, the target found by `post_pop` and the resampler's output lengths are choices.
The evaluation period of `post_pop` is not counted: the target may change at any frame.
The drift controller's ratio is not modelled beyond those lengths, so what it does to the
depth over many seconds is not either. `Calm` starts a time in which one packet
arrives before each tick, everything decodes and is quiet, and the clocks agree; the
properties say what must be true `CalmTicks` ticks later, whatever came before.

**Session.** `HostIteration` and `ClientIteration` are whole iterations of the control
loops in source order: event, (host) liveness feed, handshake tick, (client) actions and
liveness check, timers. `RxHost*` and `RxClient*` are the receive threads, one datagram
per step, with the host's table of addresses (`rxaddr`) brought up to date after each
and at read timeouts, as the loop drains its channel before it blocks. Time stamps are
ages, capped where the code no longer distinguishes them, so that runs need no bound on
time; `Elapse` is a tick. A tick passes only after every live control thread has
drained its channel and run its timers: it stands for more than a second, so PING and
KEEPALIVE are sent once per tick. Datagrams are lost when they are sent (`Transmit`) or when they are too
old (`Elapse`), duplicated (`Delivered`) and delivered in any order. Processes crash, stop with their
single BYE, and start again on the same address. Whether a client has the room code is chosen once (`wrong`). Left out: names and rosters' contents
(`Roster` has them), RTT, negotiated parameters, the sequence number of a WELCOME (the control loop has
already made the slot Active by `mark_heard` when `on_ack` would compare it), and the
transmit thread's lag (`Sender` has it; here an audio packet sent late is covered by the
network's delay).
Client-side ROSTER, PONG and KEEPALIVE refresh `last_rx_us` and are not queued, since
their handlers change nothing that is modelled.

**Settled.** A client is settled in a slot when it is joined with that slot as its sender id
and the receive thread has since credited the slot with one of its packets. `settled`
follows from the session's own state and steps and guards none of them; what it adds is
the border between two situations that no variable of the program tells apart: before it, last_rx_us of
a slot may be that of the process or the client that had it before (`restart`, and the slot that changes hands, below).

**HostMix.** One callback frame reads `active` of every slot, then `soloed`, `muted` and
`active` in `any_solo`, then `muted` and `soloed` in `in_mix`, one load per step.
`ClientLeft` and `ClientJoined` start the control thread's stores; `KeyLoad` and
`KeyStore` are a key press, on the row last selected. The history variable `held` keeps
what has been true throughout the frame, so that the properties speak of players whose flags
stand still while others' change; `pressed` keeps which flags keys have set. Gains and
their smoothing are left out: `heard` is the set of players whose gain target is not
zero and whose samples are summed. `last_active` is kept for the frame only; `Playout`
uses it across frames.

**Packets.** Writers are sequences of bytes; a reader is the bytes that are left and the
values read so far, and every field can fail as in the code. A character is its UTF-8
width: of its bytes only the first, which tells the width, is told from the others.
Numbers are in base 256 with their true width, a u64 as its two halves. The times TLC
evaluates are below 2^31, as far as it counts; the theorems speak of every u64. The table of a control packet's fields (`fields`) is the order in which
`Control::parse` reads them.

**Roster.** One host, one client followed closely (`me`), and the other clients as
names that come, go and change. All control packets to all clients take their number
from one counter (`n`), also those the model sends nowhere (`Chatter` for PING and
KEEPALIVE). `Stamp` sends to `me` and lets any of it be lost; `Receive` delivers in any
order and again. A client leaves its slot after 5 s of silence, about a second after a
WELCOME that nobody acknowledges (ten tries, 100 ms apart) or at once when it says BYE. What is
under way then is taken for lost: it is an assumption that no datagram outlives the slot it was
sent for. One that did would be a WELCOME that leaves me joined under a number that is no longer
mine; packets that are late across slots are in `Session`. Two tables of names, that
of the handshake and that of the host's screen, are kept apart as in the code: they
part when a client comes back under another name (`renamed`, which `SameRoom` excepts).

**SampleFifo, Playback, Bridge.** The fifo is a record with the operators of `accum.rs`,
both copies of `push` and `pop` included. `Bridge` numbers the samples the pipeline makes
modulo M, so that a lost or repeated one shows, and implements `Playback`, a queue, under
the mapping that reads `len` cells from `head` on. The capture ring is the number of
samples in it. Devices take turns, except for `MaxHiccups` callbacks out of turn, the input
callback even in the middle of the output callback. `calm` counts the periods since.
The bound `drift_cap` uses the size that was asked for and `block` is what the device
makes of it, as in the code. Both devices are assumed to have one block size.

**Sender.** Destinations are slots or, in a client, the host; whoever holds one is its
tenant, numbered as they come. The control thread changes `seat` (the flag the callback
reads) and then sends the message (`owed`), as two steps. `FrameBegin` reads the flags,
`Emit` serves one destination and uses its number, its last payload and the ring, full or not;
`EncodeFails` is the early `continue`. `TxDrain` takes all messages and `TxPop` sends one
datagram by the table. Datagrams are the bytes of `Packets`. REDUNDANCY is TRUE in the
run, an option of the code. The client's callback reads `joined` as the host's reads
`active`.

**Engine.** `SpawnThreads`, `AudioStarts` or `AudioFails`, `Shutdown`, `DropStreams`,
`JoinThreads`, and `Again` for the next session. The receive and the transmit thread look
at the flag once in each turn; the control thread ends when the receive thread has
dropped its end of the channel and the channel is drained (`disconnected`). `Bridge` and
`Sender` share no state but the process: to keep their product small, sessions with a
sound card have no clients, and clients come only in headless sessions, whose
frames their caller makes.

## What TLC checks

The runs of `JitterBuffer` use a small ring: Half = 8 (sequence numbers 0..15, packets
13..17, so that every run crosses the wrap) and SLOTS = 2, so that lapping needs three
packets. `playout` has 64 numbers and four slots; its first sender starts three before
the wrap.

| Run | Bounds | Shows |
|---|---|---|
| `ring` | reordering by 1, writer up to 3 ahead of the reader (laps it) | `StoredFramePlayedIntact`, `OverwritesOnlyOlder`, `LateMeansPassed`, `PositionMovesByOne`; `NoStoredFrameConcealed`: nothing stored is lost until the writer laps the reader |
| `torn` | writer less than a ring ahead | **violated** `PoppedIntact` |
| `control_reset` | `SharedSpec` | **violated** `PositionMovesByOne` |
| `playout` | outage limit 4, targets 2 and 3, up to 6 packets ahead, 1 packet of an earlier sender, 2 joins or restarts, with and without drift correction | `CalmIsHeard`, `CalmInBand`: every stream recovers; `LeadIsConcealed` |
| `admit` | 2 clients, each with or without the code, 1 slot, packets up to a tick late, one duplicate | `NoEntryWithoutCode`; `HomeInv` and `OnlySilentEvicted` in a full room, up to the delay |
| `live` | 1 client, 2 packets in flight, a crash or stop of each end, restarts | `OneSlotPerAddress`, `JoinedWasAdmitted`; `HandshakeEnds`, `CrashedClientForgotten`, `DeadHostNoticed` |
| `zombie` | 1 client, no faults but loss | **violated** `DroppedClientNotices` |
| `restart` | 1 client that crashes and starts again | **violated** `OnlySilentDropped` |
| `roster` | 2 slots, names cut at 3 bytes, 6 numbers of 16 across the wrap, 2 datagrams in flight, the host starts again once | `WireFaithful`, `OnlyWholeParses`, `SameRoom`, `OneRowIsMe`, `NewsIsTaken` |
| `engine` | frames of 2 samples, blocks of 3 or 9, fifo of 11, 2 hiccups; 1 slot, 2 clients after each other, 3 frames, ring of 2 | `InOrder`: `Bridge` implements `Playback`; `SteadyIsHeard`, `RedundantIsPrevious`, `DepartedLeftAlone`, `GoodbyeSaid`, `ShutdownEnds`, `NewcomerServed` |
| `starve` | the device's block is 9, asked for 4 | **violated** `SteadyIsHeard` |
| `mix` | host and 2 clients, one key press, join or departure begun per frame, any number of frames | `MutedIsSilent`, `SoloIsolates`, `VoidSoloIgnored`, `FreshSlot` |

Timeouts keep the order they have in the code: CONTROL_RETRY = 1 tick and
CONTROL_MAX_TRIES = 2, so a handshake gives up (2 ticks) before PEER_TIMEOUT = 2 has
passed (more than 2 ticks), and a keepalive is due in every tick. REJOIN_WINDOW is 3
ticks, long enough for a second handshake. In `admit`, which has two clients, late packets
and a duplicate, the tries and the window are 1: each HELLO and WELCOME of a handshake is sent once (`live` has
them sent again), and a client begins a second handshake only after it was joined and the host
went quiet. What `admit` shows is proved for every value of these constants.
One datagram in flight still lets replies be lost and overtaken by timeouts; two add
reordering.

In `roster` six numbers are enough for every kind of packet to be overtaken by another
and for the wrap to fall between any two. A full room is two clients and the host, one
player more than MAX_CLIENTS, as in the code. The names are one that fits, one that ends with
the last byte, and one whose last character does not fit. Rosters are compared only
when they are less than half the sequence numbers apart (`NumbersAssumption`): in the
code 32768 numbers, which a full room uses up in about an hour.

In `engine` neither block is a multiple of the frame and the fifo (11) is a multiple of
neither, so the wrap falls on every position. Blocks of 9 exceed 4 frames, the
case the comment on `drift_cap` is about. After a hiccup the gap closes within F periods,
and not sooner: with F - 1 in its place `SteadyIsHeard` fails. Two tenants show a slot that
changes hands, and three frames a packet with a predecessor after a gap.

In `playout`, CalmTicks is two outage limits (the stream may have to be reset twice:
once when a packet numbered far ahead makes every quiet tick drop a frame, and once for
the position that was then set), the packets that were ahead, and a priming. The bound is
tight: with one tick less `CalmIsHeard` fails. The outage limit is 200 frames in the
code, so the stream sounds again within about a second. One exception is stated in the
properties: a buffer that is not primed and whose position was set by a packet of an
earlier sender is `Stranded`. It stays silent until the sender's numbers reach that
position, up to 32768 packets (82 s at 2.5 ms a frame), for `post_pop` counts no misses
before it is primed. The run fails without the exception.

Fairness (`live`, `zombie`). `ControlFairness`: a control thread that is up takes its
next iteration, because `recv_timeout` bounds its wait; the receive thread's read
timeout lets it drain its channel; time passes. Nothing is assumed of the network in
`live`: everything may be lost. `zombie` adds `DeliveryFairness`, so the
counterexample does not rest on packets that are never read.
`engine`: each thread that can take its next turn does (its waits are bounded by 100 ms,
50 ms and 250 us), a callback that has begun goes on, and the steps of `shutdown` are
taken once it has been called. Nothing says that a client joins, a frame is made or
`shutdown` is called. The runs have no deadlock: in `Session` time can always pass,
elsewhere a thread can always take a turn.

Every property of a passing run has a mutant in `PROJECT.json`: a fault of the kind a
change of the code could introduce (definitions marked "Fault"), which breaks it.

### Disagreements between code and comments

* `torn`: the first check of `take` loads state, then seq. A packet judged in time but
  written after its position was played leaves a WRITTEN slot; when the push of the packet one ring
  later starts between the two loads, the reader sees the old state with the new seq,
  copies during the write and passes the re-check after the publication.
* `control_reset`: `reset` is "reader side", but the control threads call it too. A pop
  in progress stores its old position over the one a push has established since.
* `zombie`: the host answers any PING and the client takes any answer for a sign of
  life, so a client the host has timed out never rejoins.
* `restart`: the liveness feed may move `last_heard_ms` backwards. A restarted client's
  HELLO is accepted and the slot dropped in the same iteration; and the slot just set
  to Pending turns Active, which ends the retransmission of its WELCOME.
* `starve`: the bound on captured samples is computed from the size asked for, while the
  device may insist on a larger one. Then a part of every block is dropped and replaced by
  silence, the very thing the comment on the bound rules out.

More were met and have no run of their own, since no document speaks of them or the
properties above state them as exceptions.
* A packet that arrives a full ring behind the newest overwrites a newer one, against the
  comment at `jitter.rs` 163-164 (this is why the theorems assume Window < SLOTS).
* `skip_next` has no second check, so when the writer laps the reader it can discard a
  newer packet (why `NoStoredFrameConcealed` excepts `lapped`).
* A stranded buffer, above. And a stray packet numbered ahead keeps `newest_seq` ahead:
  every quiet tick drops a frame and the reader runs past the sender until the outage
  limit resets the stream.
* A slot can pass to another client while the receive thread waits with the old address
  table. The next packet of the former client passes the check at `net.rs` 213 and is
  credited to the new one, whose Pending slot thereby turns Active; audio is pushed into
  its stream. It is why `HomeInv` speaks of clients whose own packets have been credited.
* A frame that is in the transmit ring when its slot changes hands goes to the new client
  (`net.rs` 94): one frame or a few, made for the one before.
* A client that leaves and another that joins between two callbacks are not seen by
  `process_frame`, and the new stream inherits the old one's controller. It recovers
  like from any other state (`CalmIsHeard`).
* A mute or solo key can land on an empty slot, against the comment at `status_ui.rs`
  157-159: the row is checked when it is selected, and left at the next redraw. The
  clearing in ClientJoined makes it harmless (`FreshSlot`); a gain key there is not undone.
  A key whose load precedes that clearing and whose store follows it mutes or solos the new
  client (`status_ui.rs` 180-187); `FreshSlot` counts it as pressed since.
* A frame in which the only soloed player is muted between `any_solo` and `in_mix` mixes
  nobody, against the comment at `lib.rs` 202-204. It lasts one frame of 2.5 ms, which the
  smoothing of gains softens; the properties speak of flags that stand still.
* With more room in the host's queue a client that is timed out while its HELLO waits
  behind another event loses its slot, and gets it again when that HELLO is handled
  (so `OnlySilentDropped` says too much even without restarts).
* After half the sequence numbers without a ROSTER the next one looks old and is ignored
  (`packet.rs` 475), and so are all until the numbers have come round.
* A retransmitted or late WELCOME is no news to a joined client, but a WELCOME that is
  taken resets the number of the last ROSTER, so that an older ROSTER under way is taken
  after it; the next change corrects it.
* A client that comes back under another name is renamed in the slot table only: the host's
  screen keeps the old name, and the others are not told (`handshake.rs` 354-374).
* "BYE is repeated blindly on shutdown" (`packet.rs` 457-458): the path that `shutdown` takes
  sends it once.
* Dropping a `SessionHandle` "tears the session down" (`engine.rs` 43): the streams end,
  but only `shutdown` sets the flag, and the threads go on.
* A start that fails at the audio leaves its threads running and its port bound
  (`AudioFails`).
* The first packet to a slot's new client carries its predecessor's last payload as its
  redundant copy, and after frames left out the copy is dated one frame before the packet
  (`net.rs` 227-237) whenever it was made.
* The status text of a host that said BYE may stay while the client has rejoined.
* A correction may be taken long after it was latched, and then drop a frame that is not
  there yet (`LeadIsConcealed` allows for one).

## What is proved

`Seq16Theorems`: `DiffIsDistance`, for every Half: for packets a, b less than Half apart,
`diff(Wire(a), Wire(b)) = a - b`; with it the lemmas on wrapping and on the injectivity of
`Wire` within one turn of the ring.

`JitterBufferProofs`, about `Spec`, for every ring size, sequence space, window, target and miss
limit that satisfy the assumptions of `JitterBuffer` (the ring size divides the sequence space;
fewer packets than sequence numbers are in play):

* `TypeCorrect`: `TypeOK` always holds.
* `PositionByOne`: `PositionMovesByOne`.
* `OverwritesOlder` and `StoredFramesIntact`, if Window < SLOTS: `OverwritesOnlyOlder` and
  `StoredFramePlayedIntact`.
* `LateIsPassed`, if also the packets in play span less than Half: `LateMeansPassed`.
* `StoredFramesPlay`, if Window < SLOTS: `NoStoredFrameConcealed`.

The argument. `StoredFramePlayedIntact` is not inductive: it says nothing of the steps before
the frame is handed over. The invariant `IInv` adds, part by part: `MissesInv` (a pop starts
only below the miss limit, so the count stays bounded), `PositionInv` (`next_seq` is the wire
number of `next_n`, and a running pop's `exp_n` is still `next_n`), `WriterInv` (the packet
being written is within Window of the newest), `SlotInv` (a WRITTEN slot's seq, head and body
are those of one packet, and a slot being written agrees with the writer's progress),
`StoredInv` (the slot of a stored packet holds it or a packet at least a ring newer) and
`ReaderInv` (a reader that started on a stored packet has copied that packet, or the writer has
lapped it and the slot can never again show the expected seq). Sequence numbers turn into
absolute numbers through the injectivity of `Wire`. The parts are preserved one after the other,
each lemma having a step per action. TLC checked `IInv` on the instance of `ring` before it was
proved.

`NoStoredFrameConcealed` needs more, for it speaks of every packet that was stored, and at the
moment it is popped. `KeptInv` follows them all: until the writer is a ring ahead, a stored
packet that the reader has not passed is in its slot (`OwedInv`), for only three things take it
out: its own pop, the wipe of a reset, and a claim by a packet a full ring ahead (`AheadInv`
excludes it). A packet that a reset has left behind is in its slot or too old ever to be
expected again (`LeftByResetInv`), which is where Window < SLOTS counts: the push that
establishes the next position is of a packet no older. And a pop that found its packet stored
ends in a hit (`HitInv`).

`HostMixProofs`, for every number of clients and every bound on the turns in a frame:
`TypeCorrect` (`TypeOK`), `MutedStaysSilent` (`MutedIsSilent`), `SoloAlwaysIsolates`
(`SoloIsolates`), `VoidSoloSilencesNobody` (`VoidSoloIgnored`) and `SlotsAreFresh`
(`FreshSlot`). `MutedIsSilent` is about a complete frame; `IInv` carries it there: `LoopInv`
(the loops stay within the players, the host has no slot), `HeldInv` (a fact that held
throughout the frame is true now, so what the callback loads agrees with it) and `SeenInv` (a
stream believed active was not inactive throughout, and a player who is mixed, or only waits for
the load of its solo flag, was not muted throughout). The loads of the callback and the steps of
the other threads are two groups of actions: the first change no flag, the second nothing of the
callback. Muting silences whatever the other loads find; the solo properties also say who *is*
heard, so `SoloInv` keeps what each loop has found so far, for the players it has already been
through: who was present all the time was seen (`PresentInv`), `any_solo` is false only while no
solo that counts throughout has been passed and true only of one that is not void
(`AnySoloInv`), and who should be heard and has had his turn is (`MixInv`). The history only
shrinks within a frame, so none of this is lost when a key is pressed between two turns.
`FlagInv` (a set flag was set by a key since the slot was cleared) gives `FreshSlot`.

`PacketProofs`, about `Packets`: the theorems are about every packet, of any length that fits the
fields its writer has for it.

* `AudioFaithful`: `parse_datagram` makes of what `write_audio` laid out the header and the
  payload it was given, with or without a redundant copy, for every payload whose length is a
  u16 and every time that is a u32.
* `ControlFaithful`: of what `write_control` laid out it makes the header and, field by field,
  the packet, names cut at MAX_NAME_LEN bytes on a character boundary and nothing else changed,
  for every list of players and every number that fits its field.
* `ControlWhole`: cut short or with a byte more, a control packet is an error: never a part.

The reader hands on what it has read and the bytes that are left. Each kind of field has
two lemmas, of what its reader makes of a piece followed by anything, and of a piece cut short; a number's is that
`value` undoes `be`. `FieldsFollow` joins them over a packet's fields, and over the rows of
a list of players: what is read so far is what was written so far, and behind the first
field that fails everything fails. No field can be read from a piece of itself, so a packet that is cut fails
at the cut, and with a byte too many the last test of `parse_control` fails. The prover has no
induction over data, but for one variable: `StepByStep` takes from the well-founded
order of the numbers that a set which holds 0 and with every number the next holds them all, and
each "for every length" above is such a set of lengths.

`EngineProofs`, about `SampleFifo` and for every capacity: a push that fits appends to what the
ring holds, a pop takes from its front, at every position of the head, so also where either is
copied in two pieces (`PushAppends`, `PoppedIsFront`, `PopIsTail`).

About `Bridge`: `SamplesInOrder`, that `BridgeSpec` implements `Playback`, for every size of
frame, block, fifo and capture ring. It rests on one fact beyond the types, `RestInv`: what a
block in progress still lacks is in the fifo, so no pop finds too little. The assumption that
matters is DeviceMax + F <= CAP: the fifo takes a frame while it holds less than a block
(`engine.rs` 350-355, where CAP is 65536).

And `HeardWithoutGap`, `SteadyIsHeard` for every frame, block and ring, if `SizesFit`: the
device takes no more than was asked for, and the capture ring (a quarter of a second) holds a
block and two frames. Without the first half of the hypothesis the run `starve` is a
counterexample. What the output callback needs in a period depends on the rest of a frame it has
in the fifo, and that rest goes down by a block modulo a frame in each, so it has taken every
value it will ever take after F periods. `SteadyInv` says that a level of the capture ring that
suits a set of rests is not left by a period of regular turns, and that whatever a period had to
drop or to add leaves a level that suits the rests so far; after F periods these are all.

About the process, for every number of clients, of updates under way and of sessions:

* `GoodbyeAlwaysSaid`: `GoodbyeSaid`, by `ThreadInv`: from the control thread's end on, all who
  have a seat are among those it said goodbye to, since only that thread seats anyone.
* `DepartedAlwaysLeftAlone`: `DepartedLeftAlone`, by `TableInv`. The property is about the
  table, which changes only by what comes through the channel; the invariant therefore speaks of
  `resolved`, the table as it will be when the channel is drained. In a host it is the seats,
  but for the one message that the control thread still owes (`HostInv`), and it names nobody
  who has left (`LeftInv`). A message appended to the channel changes `resolved` for its own
  destination only (`Appended`).
* `SoundInOrder` and `SteadyAlwaysHeard`: `InOrder` and `SteadyIsHeard`, with the invariants of
  `Bridge`. The other threads leave the callbacks' state alone, and dropping the streams
  is a restart of `Playback`, because no block is in progress then.
* `CopyIsAlwaysPrevious`: `RedundantIsPrevious`, by `SendInv`: the last payload kept for a
  destination is the one numbered one below the next (`LogInv`), and every datagram in the ring
  or on the wire is, byte for byte, what was written from the log (`RingInv`), so that
  `AudioFaithful` tells what its receiver reads. Its hypothesis `WireIsU16`, that there are no
  more sequence numbers than the two bytes of the header hold, is true of the code. (The model
  tells the payloads of at most 254 frames apart, `SenderAssumption`.)
* `AlwaysTyped`: `TypeOK`, from all the invariants of the process together and `BoundInv`, no
  tenant's number is above the bound anywhere in the table, the channel or the messages owed.

`SessionProofs`, for every number of clients and slots, timeouts, delays, duplicates, crashes
and restarts of either end: `TypeCorrect`, `OneSlotEach` (`OneSlotPerAddress`), `CodeIsNeeded`
(`NoEntryWithoutCode`) and `JoinedAlwaysAdmitted` (`JoinedWasAdmitted`). What a client believes
rests on a WELCOME that may be as old as the network is slow and come from a session of the host
that is over. So the invariant speaks of the history `seats`, which only grows: everybody in the
table has been given that seat in this session, at an address nobody else in the table has
(`SeatInv`); no seat was given to a client without the code (`AdmitInv`); and every WELCOME
under way or queued at a client names a seat given to the one it is for (`WelcomeInv`).
`DownInv` ties the session's number to the host's restarts, since a table must not outlive its
process. A host iteration is several calls in a row, so each operation of `HostHandshake` has a
lemma that it keeps `SeatInv`, and the actions compose them.

About `Settled`, under the same assumptions: `SettledIsCredited` (`HomeInv`) and `SilenceEvicts`
(the action property `OnlySilentEvicted`). The host decides on last_rx_us, which is not the time of the last packet:
a packet with an older sender id, sent before the client knew its present one, is
accepted and not credited. `HomeInv` bounds the difference. From the time a settled client knows its id all it
sends carries it; whatever is under way with another id is at least as old as the last credit, and a packet
lives MaxDelay at most. So last_rx_us is never further back than the last accepted packet by
more than that, and since a slot that keeps its client keeps its last_rx_us (`LoopTenant`), the tick
that frees it has seen the silence (`TickTenant`). The address table can be stale only for a slot that
changes hands, and a settled client's does not.

`RosterProofs`, for every number of slots and set of names: `TypeCorrect`, `FindsHimself`
(`OneRowIsMe`), `SeesTheRoom` (`SameRoom`) and `TakesTheNews` (the action property
`NewsIsTaken`). `TableInv` relates the two tables of names; `NetInv` says of each datagram under
way that its number is of this host process, that it lists me exactly once, and that the one
sent for the last change lists the room as it is; `NumberInv`, with fewer than half the numbers
in use (`NumbersAssumption`), makes the 16-bit comparison of `accept_control_seq` the order in
which they were sent; `MeInv` and `ShownInv` say the same of the client's list. The lemmas
beneath (`RosterRows` and those before it) show that the list which `host_roster` builds slot by
slot has one row per seat. A name is any sequence of characters of 1 to 4 bytes.

`ReadAsSent` (`WireFaithful`) and `NeverReadInPart` (`OnlyWholeParses`) bring `PacketProofs` to the
datagrams of a run. `WrittenInv` says that each of them was laid out by `write_control` from
a packet whose fields fit, and there is a lemma for each kind of packet the host sends. Their
hypothesis `NumbersFit` is that numbers of packets and of sessions are u16s, as in the code.

`PlayoutProofs`, for every ring, frame, outage limit, deadband and range of targets:
`TypeCorrect` and `LeadAlwaysConcealed` (`LeadIsConcealed`). `RoomAssumption` says that what
lies between the oldest packet that may still arrive and the sender's next is less than half the
sequence numbers (32768 in the code, against an outage limit of 200 and targets of at most 20);
a frame has at least two parts, for a resampler that returned none of its only part would leave
staging below nought. `LeadIsConcealed` compares 16-bit numbers on a circle, where "ahead" is
meaningful only while everything stays near, so the invariant must bound both sides. `OwnInv`:
the newest packet is behind the read position by no more than the misses in a row and one drop,
where a drop that still waits was latched when there was something to drop; all stored packets
lie between the two (`Tracks`), so a hit, which sets the misses to nought, finds the newest not
behind; and when the callback is about to start a stream afresh, which sets them as well,
nothing has been concealed since the reset. `AheadInv`: the sender does not run away. It is
bounded by the model (MaxAhead) until times are calm; from then on packets keep coming, and each
is made up for by a tick: the sum of what the sender is ahead, the inserts that are latched and
the frame in staging falls by one, or is small already. The tick follows the code: `Called` (a
stream that starts afresh), `Ticks` (`pre_pop` and the correction), `Filled` and `Staged` (one,
two or no pulls for a frame), `PullPlays` (`post_pop` and `observe_depth`), each stated as a
relation `Goes` between what is in hand before and after. TLC checked the invariant on the
instance of `playout` before it was proved.

Only model-checked:
* The liveness properties, for the prover has no liveness under fairness: `HandshakeEnds`,
  `CrashedClientForgotten`, `DeadHostNoticed`, `ShutdownEnds`, `NewcomerServed`.
* `CalmIsHeard` and `CalmInBand`: they say where a stream is after CalmTicks ticks, and a proof
  would count ticks through each way of recovering; what they rest on, how far reader and sender
  get apart, is the invariant of `PlayoutProofs`.

## Not modelled

Codec, resampler, mixer arithmetic and meters (floating point); what devices do beyond the
size of their blocks; GUI and command line (I/O); RTT, levels and the status text of
snapshots (display); the latency measurement and STUN (one-shot tools around I/O). Two
devices with different block sizes, and a fifo smaller than a block, which 65536 samples rule
out. Weak-memory executions beyond interleaving. `PROJECT.json` lists each part with its
reason.

## What could come next

1. `Seats`, an abstract specification of admission (who holds which slot in which
   session), implemented by `Session`.
2. A bound for `CalmIsHeard`: a proof that counts the ticks, first without drift correction,
   where a calm tick is one push and one pull.
3. What a failed client that goes on acknowledging does to the slots of others.
