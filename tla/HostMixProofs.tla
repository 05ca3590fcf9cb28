---------------------------- MODULE HostMixProofs ----------------------------
(***************************************************************************)
(* A muted player and an empty slot are in nobody's mix, a solo isolates   *)
(* and a void one silences nobody, and a slot starts from its defaults,    *)
(* for any number of clients.                                              *)
(***************************************************************************)
EXTENDS HostMix, TLAPS

\* TypeOK is an invariant: flags, locals and history keep their types, and the loops
\* of the callback stay within the players.
LoopInv ==
    /\ pc = "active" => p \in Clients
    /\ pc = "solo_active" => p # 0

\* A fact of the history is true now.
HeldInv ==
    /\ \A c \in Clients, v \in BOOLEAN : <<"active", c, v>> \in held => active[c] = v
    /\ \A q \in Players, v \in BOOLEAN : <<"muted", q, v>> \in held => muted[q] = v

\* Who is mixed, or about to be if soloed, was seen unmuted and present.
SeenInv ==
    /\ \A c \in Clients : last_active[c] => <<"active", c, FALSE>> \notin held
    /\ pc = "idle" => last_active = NoneActive
    /\ pc = "mix_soloed" => <<"muted", p, TRUE>> \notin held
    /\ \A q \in heard : ~Throughout("muted", q, TRUE) /\ ~Absent(q)

IInv == TypeOK /\ LoopInv /\ HeldInv /\ SeenInv

USE MixAssumption

\* A step of a loop stays within the players.
LEMMA LoopStep ==
    ASSUME p \in Players, NEW at, NEW after, NEW first \in Players,
           Loop(at, after, first)
    PROVE  p' \in Players /\ pc' \in {at, after} /\ (pc' = at /\ at # after => p' \in Clients)
  BY DEF Loop, Players, Clients

LEMMA InitInv == Init => IInv
<1> SUFFICES ASSUME Init PROVE IInv
  OBVIOUS
<1>1. TypeOK
  <2>1. p \in Players /\ selected \in Players /\ turns \in 0 .. MaxTurns
    BY DEF Init, Players
  <2> QED
    BY <2>1, Zenon DEF Init, TypeOK, NoneActive
<1>2. LoopInv /\ HeldInv
  BY DEF Init, LoopInv, HeldInv
<1>3. SeenInv
  BY DEF Init, SeenInv, NoneActive
<1> QED
  BY <1>1, <1>2, <1>3 DEF IInv

LEMMA CountsNotStep ==
    ASSUME p \in Players, CountsNot
    PROVE  any_solo' \in BOOLEAN /\ p' \in Players /\ pc' \in {"solo", "mix_muted"}
<1>1. 0 \in Players
  BY DEF Players
<1>2. Loop("solo", "mix_muted", 0) /\ any_solo' = FALSE
  BY DEF CountsNot
<1>3. p' \in Players /\ pc' \in {"solo", "mix_muted"}
  BY <1>1, <1>2, LoopStep
<1> QED
  BY <1>2, <1>3, Zenon

LEMMA CountsStep ==
    ASSUME Counts
    PROVE  any_solo' \in BOOLEAN /\ p' \in Players /\ pc' = "mix_muted"
<1>1. 0 \in Players
  BY DEF Players
<1> QED
  BY <1>1, Zenon DEF Counts

LEMMA MixesStep ==
    ASSUME p \in Players, heard \subseteq Players, NEW in \in BOOLEAN, Mixes(in)
    PROVE  heard' \subseteq Players /\ p' \in Players /\ pc' \in {"mix_muted", "done"}
<1>1. 0 \in Players
  BY DEF Players
<1>2. Loop("mix_muted", "done", 0)
  BY DEF Mixes
<1>3. p' \in Players /\ pc' \in {"mix_muted", "done"}
  BY <1>1, <1>2, LoopStep
<1>4. heard' \subseteq Players
  BY Zenon DEF Mixes
<1> QED
  BY <1>3, <1>4

\* The part of TypeOK that is the callback's, and the rest.
CallbackOK ==
    /\ pc \in {"idle", "active", "solo", "solo_muted", "solo_active", "mix_muted",
               "mix_soloed", "done"}
    /\ p \in Players /\ last_active \in [Clients -> BOOLEAN]
    /\ any_solo \in BOOLEAN /\ heard \subseteq Players

SharedOK ==
    /\ active \in [Clients -> BOOLEAN]
    /\ muted \in [Players -> BOOLEAN] /\ soloed \in [Players -> BOOLEAN]
    /\ ctl \in {Idle} \cup
           [at : {"left", "left_unmuted", "unmuted", "unsoloed"}, slot : Clients]
    /\ key \in {Idle} \cup [at : Flags, player : Players, on : BOOLEAN]
    /\ selected \in Players
    /\ turns \in 0 .. MaxTurns
    /\ held \subseteq ({"active"} \cup Flags) \X Players \X BOOLEAN
    /\ pressed \subseteq Flags \X Clients

LEMMA TypeParts == TypeOK <=> CallbackOK /\ SharedOK
  BY Zenon DEF TypeOK, CallbackOK, SharedOK

\* The callback's loads keep the callback's types and touch nothing shared.
Loads ==
    \/ LoadActive \/ SoloLoadSoloed \/ SoloLoadMuted \/ SoloLoadActive
    \/ MixLoadMuted \/ MixLoadSoloed

LEMMA LoadTypes ==
    ASSUME TypeOK, LoopInv, Loads
    PROVE  CallbackOK' /\ LoopInv' /\ UNCHANGED shared
<1> USE DEF CallbackOK
<1>1. CallbackOK /\ SharedOK
  BY TypeParts
<1>2. 0 \in Players
  BY DEF Players
<1>3. CASE LoadActive
  <2>1. p \in Clients
    BY <1>3 DEF LoadActive, LoopInv
  <2>2. Loop("active", "solo", 0)
    BY <1>3 DEF LoadActive
  <2>3. p' \in Players /\ pc' \in {"active", "solo"} /\ (pc' = "active" => p' \in Clients)
    BY <1>1, <1>2, <2>2, LoopStep
  <2>4. last_active' \in [Clients -> BOOLEAN]
    BY <1>1, <1>3, <2>1, Zenon DEF LoadActive, SharedOK
  <2> QED
    BY <1>1, <1>3, <2>3, <2>4, Zenon DEF LoadActive, LoopInv
<1>4. CASE SoloLoadSoloed
  <2>1. CASE soloed[p]
    BY <1>1, <1>4, <2>1, Zenon DEF SoloLoadSoloed, LoopInv
  <2>2. CASE ~soloed[p]
    BY <1>1, <1>4, <2>2, CountsNotStep, Zenon DEF SoloLoadSoloed, LoopInv
  <2> QED
    BY <2>1, <2>2
<1>5. CASE SoloLoadMuted
  <2>1. CASE muted[p]
    BY <1>1, <1>5, <2>1, CountsNotStep, Zenon DEF SoloLoadMuted, LoopInv
  <2>2. CASE ~muted[p] /\ p = 0
    BY <1>1, <1>5, <2>2, CountsStep, Zenon DEF SoloLoadMuted, LoopInv
  <2>3. CASE ~muted[p] /\ p # 0
    BY <1>1, <1>5, <2>3, Zenon DEF SoloLoadMuted, LoopInv
  <2> QED
    BY <2>1, <2>2, <2>3
<1>6. CASE SoloLoadActive
  <2>1. CASE active[p]
    BY <1>1, <1>6, <2>1, CountsStep, Zenon DEF SoloLoadActive, LoopInv
  <2>2. CASE ~active[p]
    BY <1>1, <1>6, <2>2, CountsNotStep, Zenon DEF SoloLoadActive, LoopInv
  <2> QED
    BY <2>1, <2>2
<1>7. CASE MixLoadMuted
  <2>1. CASE muted[p] \/ ~any_solo
    <3>1. \E in \in BOOLEAN : Mixes(in)
      BY <1>7, <2>1, Zenon DEF MixLoadMuted
    <3> QED
      BY <1>1, <1>7, <3>1, MixesStep, Zenon DEF MixLoadMuted, LoopInv
  <2>2. CASE ~muted[p] /\ any_solo
    BY <1>1, <1>7, <2>2, Zenon DEF MixLoadMuted, LoopInv
  <2> QED
    BY <2>1, <2>2
<1>8. CASE MixLoadSoloed
  <2>1. soloed[p] \in BOOLEAN /\ Mixes(soloed[p])
    BY <1>1, <1>8, Zenon DEF MixLoadSoloed, SharedOK
  <2> QED
    BY <1>1, <1>8, <2>1, MixesStep, Zenon DEF MixLoadSoloed, LoopInv
<1> QED
  BY <1>3, <1>4, <1>5, <1>6, <1>7, <1>8 DEF Loads

\* A store ends a fact, and adds none.
LEMMA StoreShrinks ==
    ASSUME NEW flag, NEW q, NEW value, Store(flag, q, value)
    PROVE  held' \subseteq held
  BY DEF Store

LEMMA TurnBounded == ASSUME turns \in 0 .. MaxTurns, Turn PROVE turns' \in 0 .. MaxTurns
  BY DEF Turn

\* What the control thread and the keyboard do.
Outside ==
    \/ ClientLeft \/ LeftUnmute \/ LeftUnsolo
    \/ ClientJoined \/ JoinedUnsolo \/ JoinedActive
    \/ Select \/ KeyLoad \/ KeyStore \/ Redraw

\* It keeps the types of the flags, leaves the callback alone and ends facts only.
LEMMA OutsideTypes ==
    ASSUME TypeOK, Outside
    PROVE  SharedOK' /\ UNCHANGED callback /\ held' \subseteq held
<1> USE DEF SharedOK
<1>1. SharedOK /\ 0 \in Players /\ (\A c \in Clients : c \in Players)
  BY TypeParts DEF Players, Clients
<1>2. CASE ClientLeft
  <2>1. turns' \in 0 .. MaxTurns /\ held' \subseteq held
    BY <1>1, <1>2, TurnBounded, StoreShrinks DEF ClientLeft
  <2>2. PICK c \in Clients : /\ active' = [active EXCEPT ![c] = FALSE]
                            /\ ctl' = [at |-> "left", slot |-> c]
    BY <1>2, Zenon DEF ClientLeft
  <2>3. ctl' \in [at : {"left"}, slot : Clients] /\ active' \in [Clients -> BOOLEAN]
    BY <1>1, <2>2
  <2> QED
    BY <1>1, <1>2, <2>1, <2>3, Zenon DEF ClientLeft, callback
<1>3. CASE LeftUnmute
  <2>1. held' \subseteq held
    BY <1>3, StoreShrinks DEF LeftUnmute
  <2>2. ctl.slot \in Clients /\ ctl' \in [at : {"left_unmuted"}, slot : Clients]
    BY <1>1, <1>3 DEF LeftUnmute, Idle
  <2> QED
    BY <1>1, <1>3, <2>1, <2>2, Zenon DEF LeftUnmute, callback
<1>4. CASE LeftUnsolo
  <2>1. held' \subseteq held
    BY <1>4, StoreShrinks DEF LeftUnsolo
  <2> QED
    BY <1>1, <1>4, <2>1, Zenon DEF LeftUnsolo, callback
<1>5. CASE ClientJoined
  <2>1. turns' \in 0 .. MaxTurns /\ held' \subseteq held
    BY <1>1, <1>5, TurnBounded, StoreShrinks DEF ClientJoined
  <2>2. PICK c \in Clients : /\ muted' = [muted EXCEPT ![c] = FALSE]
                            /\ pressed' = pressed \ {<<"muted", c>>}
                            /\ ctl' = [at |-> "unmuted", slot |-> c]
    BY <1>5, Zenon DEF ClientJoined
  <2>3. ctl' \in [at : {"unmuted"}, slot : Clients] /\ pressed' \subseteq pressed
    BY <2>2
  <2>4. muted' \in [Players -> BOOLEAN]
    BY <1>1, <2>2, Zenon
  <2> QED
    BY <1>1, <1>5, <2>1, <2>3, <2>4, Zenon DEF ClientJoined, callback
<1>6. CASE JoinedUnsolo
  <2>1. held' \subseteq held
    BY <1>6, StoreShrinks DEF JoinedUnsolo
  <2>2. ctl.slot \in Clients /\ ctl' \in [at : {"unsoloed"}, slot : Clients]
    BY <1>1, <1>6 DEF JoinedUnsolo, Idle
  <2> QED
    BY <1>1, <1>6, <2>1, <2>2, Zenon DEF JoinedUnsolo, callback
<1>7. CASE JoinedActive
  <2>1. held' \subseteq held
    BY <1>7, StoreShrinks DEF JoinedActive
  <2> QED
    BY <1>1, <1>7, <2>1, Zenon DEF JoinedActive, callback
<1>8. CASE Select
  BY <1>1, <1>8, Zenon DEF Select, callback
<1>9. CASE KeyLoad
  <2>1. turns' \in 0 .. MaxTurns
    BY <1>1, <1>9, TurnBounded DEF KeyLoad
  <2>2. key' \in [at : Flags, player : Players, on : BOOLEAN]
    <3>1. selected \in Players /\ (~muted[selected]) \in BOOLEAN /\ (~soloed[selected]) \in BOOLEAN
      BY <1>1, Zenon
    <3>2. \E at \in Flags, on \in BOOLEAN : key' = [at |-> at, player |-> selected, on |-> on]
      BY <1>9, <3>1, Zenon DEF KeyLoad, Flags
    <3> QED
      BY <3>1, <3>2
  <2> QED
    BY <1>1, <1>9, <2>1, <2>2, Zenon DEF KeyLoad, callback
<1>10. CASE KeyStore
  <2>1. held' \subseteq held
    BY <1>10, StoreShrinks DEF KeyStore
  <2>2. key.at \in Flags /\ key.player \in Players /\ key.on \in BOOLEAN
    BY <1>1, <1>10, Zenon DEF KeyStore
  <2>3. key.player # 0 => key.player \in Clients
    BY <2>2 DEF Players, Clients
  <2>4. pressed' \subseteq Flags \X Clients
    <3>1. CASE ~key.on \/ key.player = 0
      BY <1>1, <1>10, <3>1, Zenon DEF KeyStore
    <3>2. CASE ~(~key.on \/ key.player = 0)
      <4>1. pressed' = pressed \cup {<<key.at, key.player>>}
        BY <1>10, <3>2, Zenon DEF KeyStore
      <4> QED
        BY <1>1, <2>2, <2>3, <3>2, <4>1
    <3> QED
      BY <3>1, <3>2
  <2> QED
    BY <1>1, <1>10, <2>1, <2>2, <2>4, Zenon DEF KeyStore, callback
<1>11. CASE Redraw
  BY <1>1, <1>11, Zenon DEF Redraw, callback
<1> QED
  BY <1>2, <1>3, <1>4, <1>5, <1>6, <1>7, <1>8, <1>9, <1>10, <1>11, Zenon DEF Outside

\* The frame's first and last steps.
LEMMA FrameTypes ==
    ASSUME TypeOK, FrameBegin \/ FrameEnd
    PROVE  TypeOK' /\ LoopInv'
<1>1. CallbackOK /\ SharedOK /\ 0 \in Players /\ (\A c \in Clients : c \in Players)
  BY TypeParts DEF Players, Clients
<1>2. 1 \in Players /\ 1 \in Clients /\ MaxTurns \in 0 .. MaxTurns
  BY DEF Players, Clients, MixAssumption
<1>3. CASE FrameBegin
  <2>1. held' \subseteq ({"active"} \cup Flags) \X Players \X BOOLEAN
    <3>1. ASSUME NEW h \in held' PROVE h \in ({"active"} \cup Flags) \X Players \X BOOLEAN
      <4>1. CASE \E c \in Clients : h = <<"active", c, active[c]>>
        <5>1. \E c \in Clients, v \in BOOLEAN : h = <<"active", c, v>>
          BY <1>1, <4>1, Zenon DEF SharedOK
        <5> QED
          BY <1>1, <5>1 DEF Flags
      <4>2. CASE \E q \in Players : h = <<"muted", q, muted[q]>>
        <5>1. \E q \in Players, v \in BOOLEAN : h = <<"muted", q, v>>
          BY <1>1, <4>2, Zenon DEF SharedOK
        <5> QED
          BY <1>1, <5>1 DEF Flags
      <4>3. CASE \E q \in Players : h = <<"soloed", q, soloed[q]>>
        <5>1. \E q \in Players, v \in BOOLEAN : h = <<"soloed", q, v>>
          BY <1>1, <4>3, Zenon DEF SharedOK
        <5> QED
          BY <1>1, <5>1 DEF Flags
      <4> QED
        BY <1>3, <4>1, <4>2, <4>3, Zenon DEF FrameBegin
    <3> QED
      BY <3>1, Zenon
  <2>2. CallbackOK' /\ LoopInv'
    BY <1>1, <1>2, <1>3, Zenon DEF FrameBegin, CallbackOK, LoopInv
  <2>3. SharedOK'
    BY <1>1, <1>2, <1>3, <2>1, Zenon DEF FrameBegin, SharedOK
  <2> QED
    BY <2>2, <2>3, TypeParts, Zenon DEF TypeOK, CallbackOK, SharedOK
<1>4. CASE FrameEnd
  <2>1. CallbackOK' /\ LoopInv'
    BY <1>1, <1>4, Zenon DEF FrameEnd, CallbackOK, LoopInv, NoneActive
  <2>2. SharedOK'
    BY <1>1, <1>4, Zenon DEF FrameEnd, SharedOK
  <2> QED
    BY <2>1, <2>2, Zenon DEF TypeOK, CallbackOK, SharedOK
<1> QED
  BY <1>3, <1>4

LEMMA TypeStep == IInv /\ [Next]_vars => TypeOK' /\ LoopInv'
<1> SUFFICES ASSUME IInv, [Next]_vars PROVE TypeOK' /\ LoopInv'
  OBVIOUS
<1> USE DEF TypeOK, CallbackOK, SharedOK
<1>1. TypeOK /\ LoopInv /\ CallbackOK /\ SharedOK
  BY Zenon DEF IInv
<1>2. CASE FrameBegin \/ FrameEnd
  BY <1>1, <1>2, FrameTypes
<1>3. CASE Loads
  <2>1. CallbackOK' /\ LoopInv' /\ UNCHANGED shared
    BY <1>1, <1>3, LoadTypes
  <2> QED
    BY <1>1, <2>1, Zenon DEF shared
<1>4. CASE Outside
  <2>1. SharedOK' /\ UNCHANGED callback
    BY <1>1, <1>4, OutsideTypes
  <2> QED
    BY <1>1, <2>1, Zenon DEF callback, LoopInv
<1>5. CASE UNCHANGED vars
  BY <1>1, <1>5, Zenon DEF vars, callback, LoopInv
<1> QED
  BY <1>2, <1>3, <1>4, <1>5, Zenon DEF Next, Loads, Outside

\* A flag changes only together with the facts about it.
LEMMA HeldStep == IInv /\ [Next]_vars => HeldInv'
<1> SUFFICES ASSUME IInv, [Next]_vars PROVE HeldInv'
  OBVIOUS
<1> USE DEF HeldInv
<1>1. TypeOK /\ LoopInv /\ HeldInv /\ SharedOK
  BY TypeParts, Zenon DEF IInv
<1>2. CASE FrameBegin
  BY <1>2 DEF FrameBegin
<1>3. CASE FrameEnd
  BY <1>3, Zenon DEF FrameEnd
<1>4. CASE Loads
  <2>1. UNCHANGED shared
    BY <1>1, <1>4, LoadTypes
  <2> QED
    BY <1>1, <2>1, Zenon DEF shared
<1>5. CASE UNCHANGED <<active, muted>> /\ held' \subseteq held
  BY <1>1, <1>5, Zenon
<1>6. CASE ClientLeft
  <2>1. PICK c \in Clients : active' = [active EXCEPT ![c] = FALSE] /\ Store("active", c, FALSE)
    BY <1>6, Zenon DEF ClientLeft
  <2>2. UNCHANGED muted
    BY <1>6 DEF ClientLeft
  <2> QED
    BY <1>1, <2>1, <2>2 DEF Store, SharedOK
<1>7. CASE LeftUnmute
  <2>1. /\ muted' = [muted EXCEPT ![ctl.slot] = FALSE] /\ Store("muted", ctl.slot, FALSE)
        /\ UNCHANGED active
    BY <1>7 DEF LeftUnmute
  <2> QED
    BY <1>1, <2>1 DEF Store, SharedOK
<1>8. CASE ClientJoined
  <2>1. PICK c \in Clients : muted' = [muted EXCEPT ![c] = FALSE] /\ Store("muted", c, FALSE)
    BY <1>8, Zenon DEF ClientJoined
  <2>2. UNCHANGED active
    BY <1>8 DEF ClientJoined
  <2> QED
    BY <1>1, <2>1, <2>2 DEF Store, SharedOK
<1>9. CASE JoinedActive
  <2>1. /\ active' = [active EXCEPT ![ctl.slot] = TRUE] /\ Store("active", ctl.slot, TRUE)
        /\ UNCHANGED muted
    BY <1>9 DEF JoinedActive
  <2> QED
    BY <1>1, <2>1 DEF Store, SharedOK
<1>10. CASE KeyStore
  <2>1. key.at \in Flags /\ key.player \in Players /\ key.on \in BOOLEAN
    BY <1>1, <1>10, Zenon DEF KeyStore, SharedOK
  <2>2. /\ UNCHANGED active /\ Store(key.at, key.player, key.on)
        /\ muted' = IF key.at = "muted" THEN [muted EXCEPT ![key.player] = key.on]
                    ELSE muted
    BY <1>10, Zenon DEF KeyStore
  <2>3. held' \subseteq held
    BY <2>2, StoreShrinks
  <2>4. CASE key.at = "muted"
    BY <1>1, <2>1, <2>2, <2>3, <2>4 DEF Store, SharedOK
  <2>5. CASE key.at # "muted"
    BY <1>1, <2>2, <2>3, <2>5, Zenon
  <2> QED
    BY <2>4, <2>5
<1>11. CASE Outside
  <2>1. held' \subseteq held
    BY <1>1, <1>11, OutsideTypes
  <2>2. \/ ClientLeft \/ LeftUnmute \/ ClientJoined \/ JoinedActive \/ KeyStore
        \/ UNCHANGED <<active, muted>>
    BY <1>11, Zenon DEF Outside, LeftUnsolo, JoinedUnsolo, Select, KeyLoad, Redraw
  <2> QED
    BY <2>1, <2>2, <1>5, <1>6, <1>7, <1>8, <1>9, <1>10, Zenon
<1>12. CASE UNCHANGED vars
  BY <1>1, <1>12, Zenon DEF vars
<1> QED
  BY <1>2, <1>3, <1>4, <1>11, <1>12, Zenon DEF Next, Loads, Outside

\* Nothing but the callback's loads adds to what the callback believes.
LEMMA SeenKept ==
    ASSUME SeenInv, UNCHANGED callback, held' \subseteq held
    PROVE  SeenInv'
  BY Zenon DEF SeenInv, callback, Throughout, Absent

\* A player who is mixed was seen unmuted, and a client with an active stream.
LEMMA MixesSeen ==
    ASSUME TypeOK, SeenInv, NEW in \in BOOLEAN, Mixes(in), UNCHANGED <<held, last_active>>,
           pc # "idle", in => <<"muted", p, TRUE>> \notin held
    PROVE  SeenInv'
<1>1. p \in Players /\ (p # 0 => p \in Clients)
  BY DEF TypeOK, Players, Clients
<1>2. pc' \in {"mix_muted", "done"}
  BY DEF Mixes, Loop
<1>3. ASSUME NEW q \in heard' PROVE <<"muted", q, TRUE>> \notin held /\ ~Absent(q)
  <2>1. CASE q \in heard
    BY <2>1, Zenon DEF SeenInv, Throughout
  <2>2. CASE q \notin heard
    <3>1. in /\ q = p /\ (p = 0 \/ last_active[p])
      BY <1>3, <2>2, Zenon DEF Mixes
    <3>2. ~Absent(p)
      BY <1>1, <3>1, Zenon DEF SeenInv, Absent, Throughout
    <3> QED
      BY <3>1, <3>2, Zenon
  <2> QED
    BY <2>1, <2>2
<1>4. \A q \in heard' : (~Throughout("muted", q, TRUE) /\ ~Absent(q))'
  BY <1>3, Zenon DEF Throughout, Absent
<1> QED
  BY <1>2, <1>4, Zenon DEF SeenInv

LEMMA SeenStep == IInv /\ [Next]_vars => SeenInv'
<1> SUFFICES ASSUME IInv, [Next]_vars PROVE SeenInv'
  OBVIOUS
<1>1. TypeOK /\ LoopInv /\ HeldInv /\ SeenInv /\ SharedOK /\ CallbackOK
  BY TypeParts, Zenon DEF IInv
<1>2. CASE FrameBegin
  <2>1. /\ last_active' = NoneActive /\ heard' = {} /\ pc' = "active"
    BY <1>1, <1>2, Zenon DEF FrameBegin, SeenInv
  <2> QED
    BY <2>1, Zenon DEF SeenInv, NoneActive
<1>3. CASE FrameEnd
  <2>1. last_active' = NoneActive /\ heard' = {} /\ pc' = "idle"
    BY <1>3, Zenon DEF FrameEnd
  <2> QED
    BY <2>1, Zenon DEF SeenInv, NoneActive
<1>4. CASE Loads
  <2>1. UNCHANGED shared /\ UNCHANGED held
    BY <1>1, <1>4, LoadTypes DEF shared
  <2>2. CASE LoadActive
    <3>1. p \in Clients /\ last_active' = [last_active EXCEPT ![p] = active[p]]
      BY <1>1, <2>2, Zenon DEF LoadActive, LoopInv
    <3>2. pc' \in {"active", "solo"} /\ heard' = heard
      BY <2>2 DEF LoadActive, Loop
    <3>3. active[p] => <<"active", p, FALSE>> \notin held
      BY <1>1, <3>1, Zenon DEF HeldInv
    <3>4. \A c \in Clients : last_active'[c] => <<"active", c, FALSE>> \notin held
      BY <1>1, <3>1, <3>3, Zenon DEF SeenInv, CallbackOK
    <3> QED
      BY <1>1, <2>1, <3>2, <3>4, Zenon DEF SeenInv, Throughout, Absent
  <2>3. CASE SoloLoadSoloed \/ SoloLoadMuted \/ SoloLoadActive
    <3>1. heard' = heard /\ last_active' = last_active
      BY <2>3, Zenon DEF SoloLoadSoloed, SoloLoadMuted, SoloLoadActive
    <3>2. pc' \in {"solo", "solo_muted", "solo_active", "mix_muted"}
      BY <2>3 DEF SoloLoadSoloed, SoloLoadMuted, SoloLoadActive, Counts, CountsNot, Loop
    <3> QED
      BY <1>1, <2>1, <3>1, <3>2, Zenon DEF SeenInv, Throughout, Absent
  <2>4. CASE MixLoadMuted
    <3>1. ~muted[p] => <<"muted", p, TRUE>> \notin held
      BY <1>1, Zenon DEF HeldInv, CallbackOK
    <3>2. pc # "idle" /\ last_active' = last_active
      BY <2>4, Zenon DEF MixLoadMuted
    <3>3. CASE muted[p] /\ Mixes(FALSE)
      BY <1>1, <2>1, <3>2, <3>3, MixesSeen, Zenon
    <3>4. CASE ~muted[p] /\ Mixes(TRUE)
      BY <1>1, <2>1, <3>1, <3>2, <3>4, MixesSeen, Zenon
    <3>5. CASE ~muted[p] /\ pc' = "mix_soloed" /\ UNCHANGED <<p, heard>>
      BY <1>1, <2>1, <3>1, <3>2, <3>5, Zenon DEF SeenInv, Throughout, Absent
    <3> QED
      BY <2>4, <3>3, <3>4, <3>5, Zenon DEF MixLoadMuted
  <2>5. CASE MixLoadSoloed
    <3>1. soloed[p] \in BOOLEAN
      BY <1>1, Zenon DEF SharedOK, CallbackOK
    <3>2. pc # "idle" /\ last_active' = last_active /\ Mixes(soloed[p])
      BY <2>5, Zenon DEF MixLoadSoloed
    <3>3. <<"muted", p, TRUE>> \notin held
      BY <1>1, <2>5, Zenon DEF MixLoadSoloed, SeenInv
    <3> QED
      BY <1>1, <2>1, <3>1, <3>2, <3>3, MixesSeen, Zenon
  <2> QED
    BY <1>4, <2>2, <2>3, <2>4, <2>5, Zenon DEF Loads
<1>5. CASE Outside
  BY <1>1, <1>5, OutsideTypes, SeenKept
<1>6. CASE UNCHANGED vars
  <2>1. UNCHANGED callback /\ held' \subseteq held
    BY <1>6, Zenon DEF vars
  <2> QED
    BY <1>1, <2>1, SeenKept
<1> QED
  BY <1>2, <1>3, <1>4, <1>5, <1>6, Zenon DEF Next, Loads, Outside

LEMMA Invariant == Spec => []IInv
<1>1. IInv /\ [Next]_vars => IInv'
  BY TypeStep, HeldStep, SeenStep, Zenon DEF IInv
<1> QED
  BY InitInv, <1>1, PTL DEF Spec

\* The flags, the locals of the callback and what is in progress keep their types, and
\* the loops over the players stay within them, for every number of clients.
THEOREM TypeCorrect == Spec => []TypeOK
<1>1. IInv => TypeOK
  BY DEF IInv
<1> QED
  BY Invariant, <1>1, PTL

\* Muted players and empty slots are in nobody's mix (in_mix, process_frame), for every
\* number of clients and however many keys, joins and departures fall into a frame.
THEOREM MutedStaysSilent == Spec => []MutedIsSilent
<1>1. IInv => MutedIsSilent
  BY Zenon DEF IInv, SeenInv, MutedIsSilent
<1> QED
  BY Invariant, <1>1, PTL

-----------------------------------------------------------------------------
(* Solo: what the loops over the players have found out so far.            *)

\* A fact about a solo flag is true now.
SoloHeldInv ==
    \A q \in Players, v \in BOOLEAN : <<"soloed", q, v>> \in held => soloed[q] = v

\* The players each loop of the frame has done with.
ActiveDone ==
    {c \in Clients : pc # "idle" /\ (pc = "active" => c < p)}
SoloDone ==
    {q \in Players : /\ pc \notin {"idle", "active"}
                     /\ pc \in {"solo", "solo_muted", "solo_active"} => q < p}
MixDone ==
    {q \in Players : /\ pc \in {"mix_muted", "mix_soloed", "done"}
                     /\ pc # "done" => q < p}

\* A client who was there all the time was seen.
PresentInv ==
    \A c \in ActiveDone : <<"active", c, TRUE>> \in held => last_active[c]

\* A solo that counts all through the frame.
Counting(q) == Present(q) /\ Throughout("muted", q, FALSE) /\ Throughout("soloed", q, TRUE)

\* any_solo is true only of a solo that is not void, and false only if none counted.
AnySoloInv ==
    /\ any_solo => pc \in {"mix_muted", "mix_soloed", "done"} /\ \E q \in Players : ~Void(q)
    /\ ~any_solo => \A q \in SoloDone : ~Counting(q)
    /\ pc \in {"solo_muted", "solo_active"} => <<"soloed", p, FALSE>> \notin held
    /\ pc = "solo_active" => <<"muted", p, TRUE>> \notin held

\* Who must be heard in this frame.
Wanted(q) ==
    /\ Present(q) /\ Throughout("muted", q, FALSE)
    /\ any_solo => Throughout("soloed", q, TRUE)

MixInv ==
    /\ pc \notin {"mix_muted", "mix_soloed", "done"} => heard = {}
    /\ pc = "mix_soloed" => any_solo
    /\ any_solo => \A r \in heard : ~Throughout("soloed", r, FALSE)
    /\ \A q \in MixDone : Wanted(q) => q \in heard

\* A flag that is set was set by a key.
FlagInv ==
    \A c \in Clients :
        /\ muted[c] => <<"muted", c>> \in pressed
        /\ soloed[c] => <<"soloed", c>> \in pressed

SoloInv == SoloHeldInv /\ PresentInv /\ AnySoloInv /\ MixInv /\ FlagInv

\* What a fact says while it holds.
LEMMA FactsNow ==
    ASSUME TypeOK, HeldInv, SoloHeldInv, NEW q \in Players
    PROVE  /\ Throughout("muted", q, FALSE) => ~muted[q]
           /\ Throughout("muted", q, TRUE) => muted[q]
           /\ Throughout("soloed", q, FALSE) => ~soloed[q]
           /\ Throughout("soloed", q, TRUE) => soloed[q]
           /\ Present(q) => q = 0 \/ active[q]
           /\ Absent(q) => q # 0 /\ ~active[q]
<1>1. q # 0 => q \in Clients
  BY DEF Players, Clients
<1>2. TRUE \in BOOLEAN /\ FALSE \in BOOLEAN
  OBVIOUS
<1> QED
  BY <1>1, <1>2, Zenon DEF HeldInv, SoloHeldInv, Throughout, Present, Absent

\* Facts end and none begins, so what depends on them goes one way.
LEMMA FactsShrink ==
    ASSUME held' \subseteq held, NEW q
    PROVE  /\ Present(q)' => Present(q)
           /\ Counting(q)' => Counting(q)
           /\ Void(q)' => Void(q)
  BY Zenon DEF Present, Counting, Void, Throughout, Absent

\* A step of the control thread or the keyboard leaves all this alone.
LEMMA SoloKept ==
    ASSUME PresentInv, AnySoloInv, MixInv, UNCHANGED callback, held' \subseteq held
    PROVE  PresentInv' /\ AnySoloInv' /\ MixInv'
<1>1. UNCHANGED <<pc, p, last_active, any_solo, heard>>
  BY DEF callback
<1>2. ActiveDone' = ActiveDone /\ SoloDone' = SoloDone /\ MixDone' = MixDone
  BY <1>1, Zenon DEF ActiveDone, SoloDone, MixDone
<1>3. PresentInv'
  BY <1>1, <1>2, Zenon DEF PresentInv
<1>4. \A q : (Counting(q)' => Counting(q)) /\ (Void(q)' => Void(q)) /\ (Present(q)' => Present(q))
  BY FactsShrink
<1>5. AnySoloInv'
  BY <1>1, <1>2, <1>4, Zenon DEF AnySoloInv
<1>6. \A q : Wanted(q)' => Wanted(q)
  BY <1>1, <1>4, Zenon DEF Wanted, Throughout
<1>7. MixInv'
  BY <1>1, <1>2, <1>6, Zenon DEF MixInv, Throughout
<1> QED
  BY <1>3, <1>5, <1>7

\* The sets of players done with, from one access to the next.
LEMMA LoopDone ==
    ASSUME TypeOK, NEW at, NEW after, Loop(at, after, 0)
    PROVE  /\ (pc' = at /\ p' = p + 1) \/ (pc' = after /\ p' = 0 /\ p = MAX_CLIENTS)
           /\ \A q \in Players : q < p + 1 => q < p \/ q = p
           /\ p = MAX_CLIENTS => \A q \in Players : q < p \/ q = p
           /\ \A q \in Players : ~(q < 0)
  BY DEF Loop, TypeOK, Players

LEMMA FirstDone ==
    ASSUME TypeOK
    PROVE  /\ \A q \in Players : ~(q < 0)
           /\ \A c \in Clients : ~(c < 1) /\ c \in Players
           /\ 0 \in Players /\ 1 \in Clients
  BY DEF Players, Clients

\* The solo flags as the facts have them.
LEMMA SoloHeldStep == IInv /\ SoloInv /\ [Next]_vars => SoloHeldInv'
<1> SUFFICES ASSUME IInv, SoloInv, [Next]_vars PROVE SoloHeldInv'
  OBVIOUS
<1> USE DEF SoloHeldInv
<1>1. TypeOK /\ LoopInv /\ SoloHeldInv /\ SharedOK
  BY TypeParts, Zenon DEF IInv, SoloInv
<1>2. CASE FrameBegin
  BY <1>2 DEF FrameBegin
<1>3. CASE FrameEnd
  BY <1>3, Zenon DEF FrameEnd
<1>4. CASE Loads
  <2>1. UNCHANGED shared
    BY <1>1, <1>4, LoadTypes
  <2> QED
    BY <1>1, <2>1, Zenon DEF shared
<1>5. CASE UNCHANGED soloed /\ held' \subseteq held
  BY <1>1, <1>5, Zenon
<1>6. CASE LeftUnsolo \/ JoinedUnsolo
  <2>1. soloed' = [soloed EXCEPT ![ctl.slot] = FALSE] /\ Store("soloed", ctl.slot, FALSE)
    BY <1>6 DEF LeftUnsolo, JoinedUnsolo
  <2> QED
    BY <1>1, <2>1 DEF Store, SharedOK
<1>7. CASE KeyStore
  <2>1. key.at \in Flags /\ key.player \in Players /\ key.on \in BOOLEAN
    BY <1>1, <1>7, Zenon DEF KeyStore, SharedOK
  <2>2. /\ Store(key.at, key.player, key.on)
        /\ soloed' = IF key.at = "soloed" THEN [soloed EXCEPT ![key.player] = key.on]
                     ELSE soloed
    BY <1>7, Zenon DEF KeyStore
  <2>3. held' \subseteq held
    BY <2>2, StoreShrinks
  <2>4. CASE key.at = "soloed"
    BY <1>1, <2>1, <2>2, <2>3, <2>4 DEF Store, SharedOK
  <2>5. CASE key.at # "soloed"
    BY <1>1, <2>2, <2>3, <2>5, Zenon
  <2> QED
    BY <2>4, <2>5
<1>8. CASE Outside
  <2>1. held' \subseteq held
    BY <1>1, <1>8, OutsideTypes
  <2>2. LeftUnsolo \/ JoinedUnsolo \/ KeyStore \/ UNCHANGED soloed
    BY <1>8, Zenon DEF Outside, ClientLeft, LeftUnmute, ClientJoined, JoinedActive,
                       Select, KeyLoad, Redraw
  <2> QED
    BY <2>1, <2>2, <1>5, <1>6, <1>7, Zenon
<1>9. CASE UNCHANGED vars
  BY <1>1, <1>9, Zenon DEF vars
<1> QED
  BY <1>2, <1>3, <1>4, <1>8, <1>9, Zenon DEF Next, Loads, Outside

\* Every store into a flag is a key's, or clears it.
LEMMA FlagStep == IInv /\ SoloInv /\ [Next]_vars => FlagInv'
<1> SUFFICES ASSUME IInv, SoloInv, [Next]_vars PROVE FlagInv'
  OBVIOUS
<1> USE DEF FlagInv
<1>1. TypeOK /\ LoopInv /\ FlagInv /\ SharedOK /\ \A c \in Clients : c \in Players
  BY TypeParts, FirstDone, Zenon DEF IInv, SoloInv
<1>2. CASE UNCHANGED <<muted, soloed, pressed>>
  BY <1>1, <1>2, Zenon
<1>3. ASSUME NEW c \in Clients, muted' = [muted EXCEPT ![c] = FALSE],
             pressed' = pressed \ {<<"muted", c>>}, UNCHANGED soloed
      PROVE  FlagInv'
  BY <1>1, <1>3 DEF SharedOK
<1>4. ASSUME NEW c \in Clients, soloed' = [soloed EXCEPT ![c] = FALSE],
             pressed' = pressed \ {<<"soloed", c>>}, UNCHANGED muted
      PROVE  FlagInv'
  BY <1>1, <1>4 DEF SharedOK
<1>5. CASE ClientJoined
  <2>1. PICK c \in Clients : /\ muted' = [muted EXCEPT ![c] = FALSE]
                             /\ pressed' = pressed \ {<<"muted", c>>}
    BY <1>5, Zenon DEF ClientJoined
  <2>2. UNCHANGED soloed
    BY <1>5 DEF ClientJoined
  <2> QED
    BY <1>3, <2>1, <2>2
<1>6. CASE LeftUnmute
  <2>1. ctl.slot \in Clients
    BY <1>1, <1>6 DEF LeftUnmute, SharedOK, Idle
  <2> QED
    BY <1>3, <1>6, <2>1, Zenon DEF LeftUnmute
<1>7. CASE LeftUnsolo \/ JoinedUnsolo
  <2>1. ctl \in [at : {"left", "left_unmuted", "unmuted", "unsoloed"}, slot : Clients]
    <3>1. ctl.at = "left_unmuted" \/ ctl.at = "unmuted"
      BY <1>7 DEF LeftUnsolo, JoinedUnsolo
    <3> QED
      BY <1>1, <3>1 DEF SharedOK, Idle
  <2> QED
    BY <1>4, <1>7, <2>1, Zenon DEF LeftUnsolo, JoinedUnsolo
<1>8. CASE KeyStore
  <2>1. key.at \in Flags /\ key.player \in Players /\ key.on \in BOOLEAN
    BY <1>1, <1>8, Zenon DEF KeyStore, SharedOK
  <2>2. /\ muted' = IF key.at = "muted" THEN [muted EXCEPT ![key.player] = key.on]
                    ELSE muted
        /\ soloed' = IF key.at = "soloed" THEN [soloed EXCEPT ![key.player] = key.on]
                     ELSE soloed
        /\ pressed' = IF ~key.on \/ key.player = 0 THEN pressed \ {<<key.at, key.player>>}
                      ELSE pressed \cup {<<key.at, key.player>>}
    BY <1>8, Zenon DEF KeyStore
  <2>3. 0 \notin Clients
    BY DEF Clients
  <2>4. CASE key.at = "muted"
    BY <1>1, <2>1, <2>2, <2>3, <2>4 DEF SharedOK
  <2>5. CASE key.at = "soloed"
    BY <1>1, <2>1, <2>2, <2>3, <2>5 DEF SharedOK
  <2> QED
    BY <2>1, <2>4, <2>5 DEF Flags
<1>9. CASE Outside
  BY <1>2, <1>5, <1>6, <1>7, <1>8, <1>9, Zenon
     DEF Outside, ClientLeft, JoinedActive, Select, KeyLoad, Redraw
<1>10. CASE Loads
  <2>1. UNCHANGED shared
    BY <1>1, <1>10, LoadTypes
  <2> QED
    BY <1>2, <2>1, Zenon DEF shared
<1>11. CASE FrameBegin \/ FrameEnd \/ UNCHANGED vars
  BY <1>2, <1>11, Zenon DEF FrameBegin, FrameEnd, vars
<1> QED
  BY <1>9, <1>10, <1>11, Zenon DEF Next, Loads, Outside

\* One more player without a solo that counts.
LEMMA NoSoloStep ==
    ASSUME TypeOK, SoloInv, ~any_solo, pc \in {"solo", "solo_muted", "solo_active"},
           ~Counting(p), CountsNot, UNCHANGED <<held, last_active, heard>>
    PROVE  PresentInv' /\ AnySoloInv' /\ MixInv'
<1>1. any_solo' = FALSE /\ Loop("solo", "mix_muted", 0)
  BY DEF CountsNot
<1>2. /\ (pc' = "solo" /\ p' = p + 1) \/ (pc' = "mix_muted" /\ p' = 0 /\ p = MAX_CLIENTS)
      /\ \A q \in Players : q < p + 1 => q < p \/ q = p
      /\ p = MAX_CLIENTS => \A q \in Players : q < p \/ q = p
      /\ \A q \in Players : ~(q < 0)
  BY <1>1, LoopDone
<1>3. SoloDone' \subseteq SoloDone \cup {p} /\ MixDone' = {} /\ ActiveDone' \subseteq ActiveDone
  BY <1>2, Zenon DEF SoloDone, MixDone, ActiveDone
<1>4. PresentInv'
  BY <1>3, Zenon DEF SoloInv, PresentInv
<1>5. \A q : Counting(q)' => Counting(q)
  BY FactsShrink
<1>6. pc' \notin {"solo_muted", "solo_active"}
  BY <1>2
<1>7. AnySoloInv'
  BY <1>1, <1>3, <1>5, <1>6, Zenon DEF SoloInv, AnySoloInv
<1>8. heard' = {} /\ pc' # "mix_soloed"
  BY <1>2, Zenon DEF SoloInv, MixInv
<1>9. MixInv'
  BY <1>1, <1>3, <1>8, Zenon DEF MixInv
<1> QED
  BY <1>4, <1>7, <1>9

\* The player whose solo counts.
LEMMA SoloStep ==
    ASSUME TypeOK, SoloInv, ~any_solo, pc \in {"solo_muted", "solo_active"},
           ~Void(p), Counts, UNCHANGED <<held, last_active, heard>>
    PROVE  PresentInv' /\ AnySoloInv' /\ MixInv'
<1>1. any_solo' = TRUE /\ pc' = "mix_muted" /\ p' = 0
  BY DEF Counts
<1>2. MixDone' = {} /\ ActiveDone' \subseteq ActiveDone
  BY <1>1, FirstDone, Zenon DEF MixDone, ActiveDone
<1>3. PresentInv'
  BY <1>2, Zenon DEF SoloInv, PresentInv
<1>4. p \in Players /\ ~Void(p)
  BY DEF TypeOK
<1>5. \E q \in Players : ~Void(q)'
  BY <1>4, Zenon DEF Void, Throughout, Absent
<1>6. AnySoloInv'
  BY <1>1, <1>5, Zenon DEF AnySoloInv
<1>7. heard' = {}
  BY Zenon DEF SoloInv, MixInv
<1>8. MixInv'
  BY <1>1, <1>2, <1>7, Zenon DEF MixInv
<1> QED
  BY <1>3, <1>6, <1>8

\* One more player is mixed, or is not.
LEMMA MixedStep ==
    ASSUME TypeOK, SoloInv, pc \in {"mix_muted", "mix_soloed"}, NEW in \in BOOLEAN,
           Mixes(in), UNCHANGED <<held, last_active, any_solo>>,
           Wanted(p) => in,
           in /\ any_solo => ~Throughout("soloed", p, FALSE)
    PROVE  PresentInv' /\ AnySoloInv' /\ MixInv'
<1>1. Loop("mix_muted", "done", 0)
      /\ heard' = IF in /\ (p = 0 \/ last_active[p]) THEN heard \cup {p} ELSE heard
  BY DEF Mixes
<1>2. /\ (pc' = "mix_muted" /\ p' = p + 1) \/ (pc' = "done" /\ p' = 0 /\ p = MAX_CLIENTS)
      /\ \A q \in Players : q < p + 1 => q < p \/ q = p
      /\ p = MAX_CLIENTS => \A q \in Players : q < p \/ q = p
      /\ \A q \in Players : ~(q < 0)
  BY <1>1, LoopDone
<1>3. /\ MixDone' \subseteq MixDone \cup {p} /\ ActiveDone' \subseteq ActiveDone
      /\ SoloDone' \subseteq SoloDone
  BY <1>2, Zenon DEF SoloDone, MixDone, ActiveDone
<1>4. PresentInv'
  BY <1>3, Zenon DEF SoloInv, PresentInv
<1>5. \A q : (Counting(q)' => Counting(q)) /\ (Void(q)' => Void(q))
  BY FactsShrink
<1>6. AnySoloInv'
  BY <1>2, <1>3, <1>5, Zenon DEF SoloInv, AnySoloInv
<1>7. \A q : Wanted(q)' => Wanted(q)
  BY Zenon DEF Wanted, Present, Throughout
<1>8. Wanted(p) => p \in heard'
  <2>1. ASSUME Present(p) PROVE p = 0 \/ last_active[p]
    <3>1. p # 0 => p \in Clients
      BY DEF TypeOK, Players, Clients
    <3>2. p # 0 => p \in ActiveDone
      BY <3>1, Zenon DEF ActiveDone
    <3> QED
      BY <2>1, <3>2, Zenon DEF SoloInv, PresentInv, Present, Throughout
  <2> QED
    BY <1>1, <2>1, Zenon DEF Wanted
<1>9. \A q \in MixDone' : Wanted(q)' => q \in heard'
  BY <1>1, <1>3, <1>7, <1>8, Zenon DEF SoloInv, MixInv
<1>10. any_solo' => \A r \in heard' : ~Throughout("soloed", r, FALSE)'
  BY <1>1, Zenon DEF SoloInv, MixInv, Throughout
<1>11. pc' \in {"mix_muted", "mix_soloed", "done"} /\ pc' # "mix_soloed"
  BY <1>2, Zenon
<1> QED
  BY <1>4, <1>6, <1>9, <1>10, <1>11, Zenon DEF MixInv

LEMMA LoadsSolo ==
    ASSUME IInv, SoloInv, Loads
    PROVE  PresentInv' /\ AnySoloInv' /\ MixInv'
<1>1. TypeOK /\ LoopInv /\ HeldInv /\ SoloHeldInv /\ CallbackOK /\ SharedOK
  BY TypeParts, Zenon DEF IInv, SoloInv
<1>2. UNCHANGED shared /\ UNCHANGED held
  BY <1>1, LoadTypes DEF shared
<1>3. p \in Players
  BY <1>1 DEF CallbackOK
<1>4. /\ Throughout("muted", p, FALSE) => ~muted[p]
      /\ Throughout("muted", p, TRUE) => muted[p]
      /\ Throughout("soloed", p, FALSE) => ~soloed[p]
      /\ Throughout("soloed", p, TRUE) => soloed[p]
      /\ Present(p) => p = 0 \/ active[p]
      /\ Absent(p) => p # 0 /\ ~active[p]
  BY <1>1, <1>3, FactsNow
<1>5. CASE LoadActive
  <2>1. /\ p \in Clients /\ last_active' = [last_active EXCEPT ![p] = active[p]]
        /\ Loop("active", "solo", 0) /\ UNCHANGED <<any_solo, heard>> /\ pc = "active"
    BY <1>1, <1>5, Zenon DEF LoadActive, LoopInv
  <2>2. /\ (pc' = "active" /\ p' = p + 1) \/ (pc' = "solo" /\ p' = 0 /\ p = MAX_CLIENTS)
        /\ \A q \in Players : q < p + 1 => q < p \/ q = p
        /\ p = MAX_CLIENTS => \A q \in Players : q < p \/ q = p
        /\ \A q \in Players : ~(q < 0)
    BY <1>1, <2>1, LoopDone
  <2>3. \A c \in Clients : c \in Players
    BY <1>1, FirstDone
  <2>4. ActiveDone' \subseteq ActiveDone \cup {p} /\ SoloDone' = {} /\ MixDone' = {}
    BY <2>1, <2>2, <2>3, Zenon DEF ActiveDone, SoloDone, MixDone
  <2>5. <<"active", p, TRUE>> \in held => active[p]
    BY <1>1, <2>1, Zenon DEF HeldInv
  <2>6. \A c \in Clients : c # p => last_active'[c] = last_active[c]
    BY <1>1, <2>1, Zenon DEF CallbackOK
  <2>7. last_active'[p] = active[p]
    BY <1>1, <2>1, Zenon DEF CallbackOK
  <2>8. \A c \in ActiveDone' : c \in Clients
    BY Zenon DEF ActiveDone
  <2>9. PresentInv'
    BY <1>2, <2>4, <2>5, <2>6, <2>7, <2>8, Zenon DEF SoloInv, PresentInv
  <2>10. ~any_solo'
    BY <2>1, Zenon DEF SoloInv, AnySoloInv
  <2>11. pc' \notin {"solo_muted", "solo_active", "mix_muted", "mix_soloed", "done"}
    BY <2>2
  <2>12. AnySoloInv'
    BY <2>4, <2>10, <2>11, Zenon DEF AnySoloInv
  <2>13. heard' = {}
    BY <2>1, Zenon DEF SoloInv, MixInv
  <2>14. MixInv'
    BY <2>4, <2>10, <2>11, <2>13, Zenon DEF MixInv
  <2> QED
    BY <2>9, <2>12, <2>14
<1>6. CASE SoloLoadSoloed
  <2>1. UNCHANGED <<last_active, heard>> /\ pc = "solo" /\ ~any_solo
    BY <1>6, Zenon DEF SoloLoadSoloed, SoloInv, AnySoloInv
  <2>2. CASE soloed[p]
    <3>1. pc' = "solo_muted" /\ UNCHANGED <<p, any_solo>>
      BY <1>6, <2>2 DEF SoloLoadSoloed
    <3>2. ActiveDone' \subseteq ActiveDone /\ SoloDone' \subseteq SoloDone /\ MixDone' = {}
      BY <2>1, <3>1, Zenon DEF ActiveDone, SoloDone, MixDone
    <3>3. PresentInv'
      BY <1>2, <2>1, <3>2, Zenon DEF SoloInv, PresentInv
    <3>4. <<"soloed", p', FALSE>> \notin held'
      BY <1>2, <1>4, <2>2, <3>1, Zenon DEF Throughout
    <3>5. \A q : Counting(q)' => Counting(q)
      BY <1>2, FactsShrink
    <3>6. AnySoloInv'
      BY <2>1, <3>1, <3>2, <3>4, <3>5, Zenon DEF SoloInv, AnySoloInv
    <3>7. heard' = {}
      BY <2>1, Zenon DEF SoloInv, MixInv
    <3>8. MixInv'
      BY <2>1, <3>1, <3>2, <3>7, Zenon DEF MixInv
    <3> QED
      BY <3>3, <3>6, <3>8
  <2>3. CASE ~soloed[p]
    <3>1. CountsNot
      BY <1>6, <2>3, Zenon DEF SoloLoadSoloed
    <3>2. ~Counting(p)
      BY <1>4, <2>3, Zenon DEF Counting
    <3> QED
      BY <1>1, <1>2, <2>1, <3>1, <3>2, NoSoloStep, Zenon
  <2> QED
    BY <2>2, <2>3
<1>7. CASE SoloLoadMuted
  <2>1. UNCHANGED <<last_active, heard>> /\ pc = "solo_muted" /\ ~any_solo
    BY <1>7, Zenon DEF SoloLoadMuted, SoloInv, AnySoloInv
  <2>2. <<"soloed", p, FALSE>> \notin held
    BY <2>1, Zenon DEF SoloInv, AnySoloInv
  <2>3. CASE muted[p]
    <3>1. CountsNot
      BY <1>7, <2>3, Zenon DEF SoloLoadMuted
    <3>2. ~Counting(p)
      BY <1>4, <2>3, Zenon DEF Counting
    <3> QED
      BY <1>1, <1>2, <2>1, <3>1, <3>2, NoSoloStep, Zenon
  <2>4. CASE ~muted[p] /\ p = 0
    <3>1. Counts
      BY <1>7, <2>4, Zenon DEF SoloLoadMuted
    <3>2. ~Void(p)
      BY <1>4, <2>2, <2>4, Zenon DEF Void, Throughout
    <3> QED
      BY <1>1, <1>2, <2>1, <3>1, <3>2, SoloStep, Zenon
  <2>5. CASE ~muted[p] /\ p # 0
    <3>1. pc' = "solo_active" /\ UNCHANGED <<p, any_solo>>
      BY <1>7, <2>5, Zenon DEF SoloLoadMuted
    <3>2. ActiveDone' \subseteq ActiveDone /\ SoloDone' \subseteq SoloDone /\ MixDone' = {}
      BY <2>1, <3>1, Zenon DEF ActiveDone, SoloDone, MixDone
    <3>3. PresentInv'
      BY <1>2, <2>1, <3>2, Zenon DEF SoloInv, PresentInv
    <3>4. <<"soloed", p', FALSE>> \notin held' /\ <<"muted", p', TRUE>> \notin held'
      BY <1>2, <1>4, <2>2, <2>5, <3>1, Zenon DEF Throughout
    <3>5. \A q : Counting(q)' => Counting(q)
      BY <1>2, FactsShrink
    <3>6. AnySoloInv'
      BY <2>1, <3>1, <3>2, <3>4, <3>5, Zenon DEF SoloInv, AnySoloInv
    <3>7. heard' = {}
      BY <2>1, Zenon DEF SoloInv, MixInv
    <3>8. MixInv'
      BY <2>1, <3>1, <3>2, <3>7, Zenon DEF MixInv
    <3> QED
      BY <3>3, <3>6, <3>8
  <2> QED
    BY <2>3, <2>4, <2>5
<1>8. CASE SoloLoadActive
  <2>1. UNCHANGED <<last_active, heard>> /\ pc = "solo_active" /\ ~any_solo
    BY <1>8, Zenon DEF SoloLoadActive, SoloInv, AnySoloInv
  <2>2. p # 0
    BY <1>1, <2>1, Zenon DEF LoopInv
  <2>3. <<"soloed", p, FALSE>> \notin held /\ <<"muted", p, TRUE>> \notin held
    BY <2>1, Zenon DEF SoloInv, AnySoloInv
  <2>4. CASE active[p]
    <3>1. Counts
      BY <1>8, <2>4, Zenon DEF SoloLoadActive
    <3>2. ~Void(p)
      BY <1>4, <2>3, <2>4, Zenon DEF Void, Throughout
    <3> QED
      BY <1>1, <1>2, <2>1, <3>1, <3>2, SoloStep, Zenon
  <2>5. CASE ~active[p]
    <3>1. CountsNot
      BY <1>8, <2>5, Zenon DEF SoloLoadActive
    <3>2. ~Counting(p)
      BY <1>4, <2>2, <2>5, Zenon DEF Counting
    <3> QED
      BY <1>1, <1>2, <2>1, <3>1, <3>2, NoSoloStep, Zenon
  <2> QED
    BY <2>4, <2>5
<1>9. CASE MixLoadMuted
  <2>1. UNCHANGED <<last_active, any_solo>> /\ pc = "mix_muted"
    BY <1>9, Zenon DEF MixLoadMuted
  <2>2. CASE muted[p]
    <3>1. Mixes(FALSE) /\ ~Wanted(p)
      BY <1>4, <1>9, <2>2, Zenon DEF MixLoadMuted, Wanted
    <3> QED
      BY <1>1, <1>2, <2>1, <3>1, MixedStep, Zenon
  <2>3. CASE ~muted[p] /\ ~any_solo
    <3>1. Mixes(TRUE)
      BY <1>9, <2>3, Zenon DEF MixLoadMuted
    <3> QED
      BY <1>1, <1>2, <2>1, <2>3, <3>1, MixedStep, Zenon
  <2>4. CASE ~muted[p] /\ any_solo
    <3>1. pc' = "mix_soloed" /\ UNCHANGED <<p, heard>>
      BY <1>9, <2>4, Zenon DEF MixLoadMuted
    <3>2. ActiveDone' \subseteq ActiveDone /\ SoloDone' \subseteq SoloDone
          /\ MixDone' \subseteq MixDone
      BY <2>1, <3>1, Zenon DEF ActiveDone, SoloDone, MixDone
    <3>3. PresentInv'
      BY <1>2, <2>1, <3>2, Zenon DEF SoloInv, PresentInv
    <3>4. \A q : Void(q)' => Void(q)
      BY <1>2, FactsShrink
    <3>5. AnySoloInv'
      BY <2>1, <2>4, <3>1, <3>4, Zenon DEF SoloInv, AnySoloInv
    <3>6. \A q : Wanted(q)' => Wanted(q)
      BY <1>2, <2>1, Zenon DEF Wanted, Present, Throughout
    <3>7. MixInv'
      BY <1>2, <2>1, <2>4, <3>1, <3>2, <3>6, Zenon DEF SoloInv, MixInv, Throughout
    <3> QED
      BY <3>3, <3>5, <3>7
  <2> QED
    BY <2>2, <2>3, <2>4
<1>10. CASE MixLoadSoloed
  <2>1. UNCHANGED <<last_active, any_solo>> /\ pc = "mix_soloed" /\ Mixes(soloed[p])
    BY <1>10, Zenon DEF MixLoadSoloed
  <2>2. any_solo
    BY <2>1, Zenon DEF SoloInv, MixInv
  <2>3. soloed[p] \in BOOLEAN
    BY <1>1, <1>3, Zenon DEF SharedOK
  <2>4. Wanted(p) => soloed[p]
    BY <1>4, <2>2, Zenon DEF Wanted
  <2> QED
    BY <1>1, <1>2, <1>4, <2>1, <2>3, <2>4, MixedStep, Zenon
<1> QED
  BY <1>5, <1>6, <1>7, <1>8, <1>9, <1>10 DEF Loads

LEMMA FrameSolo ==
    ASSUME IInv, SoloInv, FrameBegin \/ FrameEnd
    PROVE  PresentInv' /\ AnySoloInv' /\ MixInv'
<1>1. TypeOK
  BY DEF IInv
<1>2. /\ \A c \in Clients : ~(c < 1)
      /\ any_solo' = FALSE /\ heard' = {}
      /\ (pc' = "active" /\ p' = 1) \/ pc' = "idle"
  BY <1>1, FirstDone, Zenon DEF FrameBegin, FrameEnd
<1>3. ActiveDone' = {} /\ SoloDone' = {} /\ MixDone' = {}
  BY <1>2, Zenon DEF ActiveDone, SoloDone, MixDone
<1> QED
  BY <1>2, <1>3, Zenon DEF PresentInv, AnySoloInv, MixInv

LEMMA SoloInvariant == Spec => []SoloInv
<1>1. Init => SoloInv
  <2> SUFFICES ASSUME Init PROVE SoloInv
    OBVIOUS
  <2>1. pc = "idle" /\ heard = {} /\ held = {} /\ any_solo = FALSE
    BY DEF Init
  <2>2. ActiveDone = {} /\ SoloDone = {} /\ MixDone = {}
    BY <2>1, Zenon DEF ActiveDone, SoloDone, MixDone
  <2>3. PresentInv /\ AnySoloInv /\ MixInv /\ SoloHeldInv
    BY <2>1, <2>2, Zenon DEF PresentInv, AnySoloInv, MixInv, SoloHeldInv
  <2>4. FlagInv
    BY DEF Init, FlagInv, Players, Clients
  <2> QED
    BY <2>3, <2>4 DEF SoloInv
<1>2. IInv /\ SoloInv /\ [Next]_vars => SoloInv'
  <2> SUFFICES ASSUME IInv, SoloInv, [Next]_vars PROVE SoloInv'
    OBVIOUS
  <2>1. SoloHeldInv' /\ FlagInv'
    BY SoloHeldStep, FlagStep
  <2>2. TypeOK
    BY DEF IInv
  <2>3. ASSUME FrameBegin \/ FrameEnd PROVE PresentInv' /\ AnySoloInv' /\ MixInv'
    BY <2>3, FrameSolo
  <2>4. ASSUME Loads PROVE PresentInv' /\ AnySoloInv' /\ MixInv'
    BY <2>4, LoadsSolo
  <2>5. ASSUME Outside \/ UNCHANGED vars PROVE PresentInv' /\ AnySoloInv' /\ MixInv'
    <3>1. UNCHANGED callback /\ held' \subseteq held
      BY <2>2, <2>5, OutsideTypes, Zenon DEF vars
    <3> QED
      BY <3>1, SoloKept, Zenon DEF SoloInv
  <2>6. PresentInv' /\ AnySoloInv' /\ MixInv'
    BY <2>3, <2>4, <2>5, Zenon DEF Next, Loads, Outside
  <2> QED
    BY <2>1, <2>6 DEF SoloInv
<1> QED
  BY <1>1, <1>2, Invariant, PTL DEF Spec

\* While somebody who is there and not muted plays solo, that player is heard and
\* nobody else is who does not play solo as well (any_solo, in_mix), for every number
\* of clients and whatever is pressed and whoever comes and goes during the frame.
THEOREM SoloAlwaysIsolates == Spec => []SoloIsolates
<1>1. IInv /\ SoloInv => SoloIsolates
  <2> SUFFICES ASSUME IInv, SoloInv, pc = "done", NEW q \in Players,
                      Present(q), Throughout("muted", q, FALSE), Throughout("soloed", q, TRUE)
               PROVE  q \in heard /\ \A r \in heard : ~Throughout("soloed", r, FALSE)
    BY Zenon DEF SoloIsolates
  <2>1. q \in SoloDone /\ q \in MixDone
    BY Zenon DEF SoloDone, MixDone
  <2>2. any_solo
    BY <2>1, Zenon DEF SoloInv, AnySoloInv, Counting
  <2>3. Wanted(q)
    BY Zenon DEF Wanted
  <2> QED
    BY <2>1, <2>2, <2>3, Zenon DEF SoloInv, MixInv
<1> QED
  BY <1>1, Invariant, SoloInvariant, PTL

\* A solo left on an empty slot, on a muted player or taken back silences nobody
\* (solo_counts): everyone who is there and not muted is heard.
THEOREM VoidSoloSilencesNobody == Spec => []VoidSoloIgnored
<1>1. SoloInv => VoidSoloIgnored
  <2> SUFFICES ASSUME SoloInv, pc = "done", \A q \in Players : Void(q), NEW q \in Players,
                      Present(q), Throughout("muted", q, FALSE)
               PROVE  q \in heard
    BY Zenon DEF VoidSoloIgnored
  <2>1. ~any_solo
    BY Zenon DEF SoloInv, AnySoloInv
  <2>2. q \in MixDone /\ Wanted(q)
    BY <2>1, Zenon DEF MixDone, Wanted
  <2> QED
    BY <2>2, Zenon DEF SoloInv, MixInv
<1> QED
  BY <1>1, SoloInvariant, PTL

\* A client finds its flags clear unless a key has set them since it was let in, even
\* if the keys acted on the slot while it was empty (ClientJoined, ClientLeft).
THEOREM SlotsAreFresh == Spec => []FreshSlot
<1>1. SoloInv => FreshSlot
  BY Zenon DEF SoloInv, FlagInv, FreshSlot
<1> QED
  BY <1>1, SoloInvariant, PTL
=============================================================================
