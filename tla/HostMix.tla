------------------------------- MODULE HostMix -------------------------------
(***************************************************************************)
(* Who is heard in the host's mix: the mute and solo flags of HostShared   *)
(* (jam-core/src/lib.rs), toggled by the keys of the status screen         *)
(* (jam-app/src/status_ui.rs), cleared by the control thread for leaving   *)
(* and joining clients (jam-core/src/control.rs) and read one by one by    *)
(* the audio callback (HostPipeline::process_frame, pipeline.rs).          *)
(*                                                                         *)
(* A step is one access to a shared flag.  Samples and gains are left out: *)
(* what a frame makes of the flags is the set of players it mixes.         *)
(***************************************************************************)
EXTENDS Integers

CONSTANTS
    MAX_CLIENTS,    \* 4 in the code
    MaxTurns        \* bound: key presses, joins and departures begun in a frame

ASSUME MixAssumption == MAX_CLIENTS \in Nat \ {0} /\ MaxTurns \in Nat

\* Player 0 is the host.
Clients == 1 .. MAX_CLIENTS
Players == 0 .. MAX_CLIENTS

VARIABLES
    active,            \* client -> the slot has a client
    muted, soloed,     \* player -> flag
    \* The callback: program counter, loop index, last_active and any_solo of this
    \* frame, and the players mixed so far.
    pc, p, last_active, any_solo, heard,
    \* The control thread and the keyboard: what they are in the middle of, and
    \* the row the keys act on.
    ctl, key, selected,
    turns,             \* what is left of MaxTurns in this frame
    held,              \* history: the facts <<flag, player, value>> that held
                       \* throughout this frame so far
    pressed            \* history: the flags <<flag, client>> that a key has set
                       \* and nothing has cleared since

callback == <<pc, p, last_active, any_solo, heard>>
vars == <<active, muted, soloed, callback, ctl, key, selected, turns, held, pressed>>

Idle == [at |-> "idle"]
NoneActive == [c \in Clients |-> FALSE]

Flags == {"muted", "soloed"}

TypeOK ==
    /\ active \in [Clients -> BOOLEAN]
    /\ muted \in [Players -> BOOLEAN] /\ soloed \in [Players -> BOOLEAN]
    /\ pc \in {"idle", "active", "solo", "solo_muted", "solo_active", "mix_muted",
               "mix_soloed", "done"}
    /\ p \in Players /\ last_active \in [Clients -> BOOLEAN]
    /\ any_solo \in BOOLEAN /\ heard \subseteq Players
    /\ ctl \in {Idle} \cup
           [at : {"left", "left_unmuted", "unmuted", "unsoloed"}, slot : Clients]
    /\ key \in {Idle} \cup [at : Flags, player : Players, on : BOOLEAN]
    /\ selected \in Players
    /\ turns \in 0 .. MaxTurns
    /\ held \subseteq ({"active"} \cup Flags) \X Players \X BOOLEAN
    /\ pressed \subseteq Flags \X Clients

Init ==
    /\ active = [c \in Clients |-> FALSE]
    /\ muted = [q \in Players |-> FALSE] /\ soloed = [q \in Players |-> FALSE]
    /\ pc = "idle" /\ p = 0 /\ last_active = NoneActive
    /\ any_solo = FALSE /\ heard = {}
    /\ ctl = Idle /\ key = Idle /\ selected = 0
    /\ turns = MaxTurns /\ held = {} /\ pressed = {}

-----------------------------------------------------------------------------
(* The audio callback.                                                     *)

\* Fault: the loop runs once more.
LoopOverrun(at, after, first) ==
    IF p <= MAX_CLIENTS THEN pc' = at /\ p' = p + 1 ELSE pc' = after /\ p' = first

\* The loops of process_frame and any_solo go on to the next player, or to what
\* comes after the last one.
Loop(at, after, first) ==
    IF p < MAX_CLIENTS THEN pc' = at /\ p' = p + 1 ELSE pc' = after /\ p' = first

FrameBegin ==
    /\ pc = "idle"
    /\ pc' = "active" /\ p' = 1
    /\ any_solo' = FALSE /\ heard' = {}
    /\ turns' = MaxTurns
    /\ held' = {<<"active", c, active[c]>> : c \in Clients}
               \cup {<<"muted", q, muted[q]>> : q \in Players}
               \cup {<<"soloed", q, soloed[q]>> : q \in Players}
    /\ UNCHANGED <<active, muted, soloed, last_active, ctl, key, selected, pressed>>

shared == <<active, muted, soloed, ctl, key, selected, turns, held, pressed>>

LoadActive ==
    /\ pc = "active"
    /\ last_active' = [last_active EXCEPT ![p] = active[p]]
    /\ Loop("active", "solo", 0)
    /\ UNCHANGED <<shared, any_solo, heard>>

\* A player whose solo counts ends the loop of any_solo.
Counts == any_solo' = TRUE /\ pc' = "mix_muted" /\ p' = 0
CountsNot == any_solo' = FALSE /\ Loop("solo", "mix_muted", 0)

SoloLoadSoloed ==
    /\ pc = "solo"
    /\ IF soloed[p] THEN pc' = "solo_muted" /\ UNCHANGED <<p, any_solo>> ELSE CountsNot
    /\ UNCHANGED <<shared, last_active, heard>>

\* Fault: a muted player's solo counts.
SoloIgnoresMuted ==
    /\ pc = "solo_muted"
    /\ IF p = 0 THEN Counts ELSE pc' = "solo_active" /\ UNCHANGED <<p, any_solo>>
    /\ UNCHANGED <<shared, last_active, heard>>

SoloLoadMuted ==
    /\ pc = "solo_muted"
    /\ IF muted[p] THEN CountsNot
       ELSE IF p = 0 THEN Counts
       ELSE pc' = "solo_active" /\ UNCHANGED <<p, any_solo>>
    /\ UNCHANGED <<shared, last_active, heard>>

SoloLoadActive ==
    /\ pc = "solo_active"
    /\ IF active[p] THEN Counts ELSE CountsNot
    /\ UNCHANGED <<shared, last_active, heard>>

\* Player p is mixed, if in_mix says so and its stream was active.
Mixes(in) ==
    /\ heard' = IF in /\ (p = 0 \/ last_active[p]) THEN heard \cup {p} ELSE heard
    /\ Loop("mix_muted", "done", 0)

\* Fault: without a solo a player is mixed, muted or not.
MixLoadMutedLate ==
    /\ pc = "mix_muted"
    /\ IF ~any_solo THEN Mixes(TRUE)
       ELSE IF muted[p] THEN Mixes(FALSE)
       ELSE pc' = "mix_soloed" /\ UNCHANGED <<p, heard>>
    /\ UNCHANGED <<shared, last_active, any_solo>>

MixLoadMuted ==
    /\ pc = "mix_muted"
    /\ IF muted[p] THEN Mixes(FALSE)
       ELSE IF ~any_solo THEN Mixes(TRUE)
       ELSE pc' = "mix_soloed" /\ UNCHANGED <<p, heard>>
    /\ UNCHANGED <<shared, last_active, any_solo>>

\* Fault: the host is mixed, whoever plays solo.
MixKeepsHost ==
    /\ pc = "mix_soloed"
    /\ Mixes(soloed[p] \/ p = 0)
    /\ UNCHANGED <<shared, last_active, any_solo>>

MixLoadSoloed ==
    /\ pc = "mix_soloed"
    /\ Mixes(soloed[p])
    /\ UNCHANGED <<shared, last_active, any_solo>>

\* The mix goes out; what follows reads no flag.
FrameEnd ==
    /\ pc = "done"
    /\ pc' = "idle" /\ p' = 0 /\ last_active' = NoneActive /\ any_solo' = FALSE
    /\ heard' = {} /\ held' = {}
    /\ UNCHANGED <<active, muted, soloed, ctl, key, selected, turns, pressed>>

-----------------------------------------------------------------------------
(* The control thread.                                                     *)

\* A store of `value` into a flag of player q ends what was true throughout.
Store(flag, q, value) == held' = held \ {<<flag, q, ~value>>}

Turn == turns > 0 /\ turns' = turns - 1

\* ClientLeft: the slot goes inactive, then its flags are cleared.
ClientLeft ==
    /\ ctl = Idle /\ Turn
    /\ \E c \in Clients :
        /\ active[c]
        /\ active' = [active EXCEPT ![c] = FALSE] /\ Store("active", c, FALSE)
        /\ ctl' = [at |-> "left", slot |-> c]
    /\ UNCHANGED <<muted, soloed, callback, key, selected, pressed>>

LeftUnmute ==
    /\ ctl.at = "left"
    /\ muted' = [muted EXCEPT ![ctl.slot] = FALSE] /\ Store("muted", ctl.slot, FALSE)
    /\ pressed' = pressed \ {<<"muted", ctl.slot>>}
    /\ ctl' = [ctl EXCEPT !.at = "left_unmuted"]
    /\ UNCHANGED <<active, soloed, callback, key, selected, turns>>

LeftUnsolo ==
    /\ ctl.at = "left_unmuted"
    /\ soloed' = [soloed EXCEPT ![ctl.slot] = FALSE] /\ Store("soloed", ctl.slot, FALSE)
    /\ pressed' = pressed \ {<<"soloed", ctl.slot>>}
    /\ ctl' = Idle
    /\ UNCHANGED <<active, muted, callback, key, selected, turns>>

\* ClientJoined: the flags are cleared again, then the slot goes active.
ClientJoined ==
    /\ ctl = Idle /\ Turn
    /\ \E c \in Clients :
        /\ ~active[c]
        /\ muted' = [muted EXCEPT ![c] = FALSE] /\ Store("muted", c, FALSE)
        /\ pressed' = pressed \ {<<"muted", c>>}
        /\ ctl' = [at |-> "unmuted", slot |-> c]
    /\ UNCHANGED <<active, soloed, callback, key, selected>>

\* Fault: the flag is cleared only when a client leaves.
JoinedKeepsSolo ==
    /\ ctl.at = "unmuted"
    /\ pressed' = pressed \ {<<"soloed", ctl.slot>>}
    /\ ctl' = [ctl EXCEPT !.at = "unsoloed"]
    /\ UNCHANGED <<active, muted, soloed, callback, key, selected, turns, held>>

JoinedUnsolo ==
    /\ ctl.at = "unmuted"
    /\ soloed' = [soloed EXCEPT ![ctl.slot] = FALSE] /\ Store("soloed", ctl.slot, FALSE)
    /\ pressed' = pressed \ {<<"soloed", ctl.slot>>}
    /\ ctl' = [ctl EXCEPT !.at = "unsoloed"]
    /\ UNCHANGED <<active, muted, callback, key, selected, turns>>

JoinedActive ==
    /\ ctl.at = "unsoloed"
    /\ active' = [active EXCEPT ![ctl.slot] = TRUE] /\ Store("active", ctl.slot, TRUE)
    /\ ctl' = Idle
    /\ UNCHANGED <<muted, soloed, callback, key, selected, turns, pressed>>

-----------------------------------------------------------------------------
(* The status screen.                                                      *)

\* Keys 0 to 4 select a row, of the host or of a client that is there.
Select ==
    /\ key = Idle
    /\ selected' \in {q \in Players : q = 0 \/ active[q]}
    /\ UNCHANGED <<active, muted, soloed, callback, ctl, key, turns, held, pressed>>

\* Keys m and s load a flag of the selected row, whoever is in it by now, ...
KeyLoad ==
    /\ key = Idle /\ Turn
    /\ key' \in {[at |-> "muted", player |-> selected, on |-> ~muted[selected]],
                 [at |-> "soloed", player |-> selected, on |-> ~soloed[selected]]}
    /\ UNCHANGED <<active, muted, soloed, callback, ctl, selected, held, pressed>>

\* ... and store its complement.
KeyStore ==
    /\ key # Idle
    /\ muted' = IF key.at = "muted" THEN [muted EXCEPT ![key.player] = key.on] ELSE muted
    /\ soloed' = IF key.at = "soloed" THEN [soloed EXCEPT ![key.player] = key.on] ELSE soloed
    /\ Store(key.at, key.player, key.on)
    /\ LET flag == {<<key.at, key.player>>}
       IN  pressed' = IF ~key.on \/ key.player = 0 THEN pressed \ flag
                      ELSE pressed \cup flag
    /\ key' = Idle
    /\ UNCHANGED <<active, callback, ctl, selected, turns>>

\* Every half second the selection leaves an empty row.
Redraw ==
    /\ key = Idle
    /\ selected # 0 /\ ~active[selected]
    /\ selected' = 0
    /\ UNCHANGED <<active, muted, soloed, callback, ctl, key, turns, held, pressed>>

Next ==
    \/ FrameBegin \/ LoadActive \/ SoloLoadSoloed \/ SoloLoadMuted \/ SoloLoadActive
    \/ MixLoadMuted \/ MixLoadSoloed \/ FrameEnd
    \/ ClientLeft \/ LeftUnmute \/ LeftUnsolo
    \/ ClientJoined \/ JoinedUnsolo \/ JoinedActive
    \/ Select \/ KeyLoad \/ KeyStore \/ Redraw

Spec == Init /\ [][Next]_vars

-----------------------------------------------------------------------------
(* Properties.  The frame is complete when pc = "done".                    *)

\* What held throughout the frame, whatever else changed in it.
Throughout(flag, q, value) == <<flag, q, value>> \in held
Present(q) == q = 0 \/ Throughout("active", q, TRUE)
Absent(q) == q # 0 /\ Throughout("active", q, FALSE)

\* A solo that cannot count: taken back, muted or on an empty slot.
Void(q) == Throughout("soloed", q, FALSE) \/ Throughout("muted", q, TRUE) \/ Absent(q)

\* Muted players and empty slots are in nobody's mix, whatever keys are pressed and
\* whoever comes and goes while the frame is made (in_mix).
MutedIsSilent ==
    pc = "done" =>
        \A q \in heard : ~Throughout("muted", q, TRUE) /\ ~Absent(q)

\* While somebody who is there and not muted plays solo, that player is heard and
\* nobody else is who does not play solo as well (any_solo, in_mix).
SoloIsolates ==
    pc = "done" =>
        \A q \in Players :
            Present(q) /\ Throughout("muted", q, FALSE) /\ Throughout("soloed", q, TRUE) =>
                q \in heard /\ \A r \in heard : ~Throughout("soloed", r, FALSE)

\* Solos that do not count, left on an empty slot or on a muted player, silence
\* nobody (solo_counts).
VoidSoloIgnored ==
    pc = "done" /\ (\A q \in Players : Void(q)) =>
        \A q \in Players :
            Present(q) /\ Throughout("muted", q, FALSE) => q \in heard

\* A client finds its flags clear unless a key has set them since it was let in, even
\* if the keys acted on the slot while it was empty (ClientJoined).
FreshSlot ==
    \A c \in Clients : active[c] =>
        /\ muted[c] => <<"muted", c>> \in pressed
        /\ soloed[c] => <<"soloed", c>> \in pressed
=============================================================================
