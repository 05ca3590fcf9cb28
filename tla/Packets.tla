------------------------------ MODULE Packets ------------------------------
(***************************************************************************)
(* The datagrams of jam-protocol/src/packet.rs: what the writers lay out   *)
(* byte by byte, and what the readers make of any sequence of bytes.       *)
(*                                                                         *)
(* A character is its UTF-8 width: the first of its bytes tells the width, *)
(* the others are continuation bytes; which letter it is is left out.      *)
(***************************************************************************)
EXTENDS Integers, SequencesExt

CONSTANTS
    MAX_CLIENTS,    \* 4
    MAX_NAME_LEN,   \* bytes of a name (32)
    ROOM_CODE_LEN   \* 6

ASSUME PacketAssumption ==
    /\ MAX_CLIENTS \in 1 .. 254 /\ MAX_NAME_LEN \in 0 .. 255
    /\ ROOM_CODE_LEN \in Nat

MAGIC == 165
PROTOCOL_VERSION == 1
HEADER_LEN == 8
AUDIO_HEADER_LEN == 8
AUDIO_FLAG_REDUNDANCY == 1

PacketType == [Audio |-> 0, Hello |-> 1, Welcome |-> 2, Deny |-> 3, Ping |-> 4, Pong |-> 5,
               Keepalive |-> 6, Roster |-> 7, Bye |-> 8, Ack |-> 9]
Codec == [Opus |-> 0, PcmS16 |-> 1, PcmF32 |-> 2]
DenyReason == [BadRoomCode |-> 0, RoomFull |-> 1, VersionMismatch |-> 2]

\* try_from of the three enums: the name with that value, if there is one.
named(enum, v) == {name \in DOMAIN enum : enum[name] = v}

Err(why) == [err |-> why]
failed(r) == "err" \in DOMAIN r

\* to_be_bytes and from_be_bytes.  A u64 is laid out as its two halves: TLC does
\* not count as far as 2^32.
be(v, n) == [k \in 1 .. n |-> (v \div 256 ^ (n - k)) % 256]
be64(v) == be((v \div 65536) \div 65536, 4) \o be(v, 4)
value(bytes) ==
    LET upto[n \in 0 .. Len(bytes)] ==
            IF n = 0 THEN 0 ELSE upto[n - 1] * 256 + bytes[n]
    IN  upto[Len(bytes)]

-----------------------------------------------------------------------------
(* Strings.                                                                *)

CONT == 128
utf8(s) == FlattenSeq([i \in DOMAIN s |->
               [k \in 1 .. s[i] |-> IF k = 1 THEN 192 + s[i] ELSE CONT]])
leads(b) == b \in 193 .. 196
width(b) == b - 192

\* is_char_boundary.
boundary(bytes, n) == n = Len(bytes) \/ bytes[n + 1] # CONT

\* str::from_utf8: every first byte is followed by what it announces.
valid_utf8(bytes) ==
    \A i \in DOMAIN bytes :
        IF leads(bytes[i])
        THEN /\ i + width(bytes[i]) - 1 <= Len(bytes)
             /\ \A k \in 1 .. width(bytes[i]) - 1 : bytes[i + k] = CONT
        ELSE /\ bytes[i] = CONT
             /\ \E j \in 1 .. i - 1 : leads(bytes[j]) /\ j + width(bytes[j]) > i
chars(bytes) ==
    LET firsts == SelectSeq(bytes, leads) IN [i \in DOMAIN firsts |-> width(firsts[i])]

\* A name is cut to MAX_NAME_LEN bytes, at the last character that fits.
cut(s) ==
    LET bytes == utf8(s)
    IN  SubSeq(bytes, 1, Max({n \in 0 .. Min({Len(bytes), MAX_NAME_LEN}) :
                                  boundary(bytes, n)}))

string(s) == <<Len(cut(s))>> \o cut(s)

\* The name that arrives.
kept(s) == chars(cut(s))

players_bytes(players) ==
    <<Len(players) % 256>>
        \o FlattenSeq([i \in DOMAIN players |-> be(players[i].id, 2) \o string(players[i].name)])

-----------------------------------------------------------------------------
(* Writing.                                                                *)

header_bytes(h) ==
    <<MAGIC, PROTOCOL_VERSION * 16 + PacketType[h.ptype]>>
        \o be(h.session_id, 2) \o be(h.sender_id, 2) \o be(h.seq, 2)

welcome_bytes(c) ==
    be(c.assigned_id, 2) \o be(c.session_id, 2) \o be(c.sample_rate, 4)
        \o be(c.frame_samples, 2) \o <<Codec[c.codec]>> \o players_bytes(c.roster)

\* The body of a control packet.
body_bytes(c) ==
    CASE c.type = "Hello" -> <<c.proto_version>> \o c.room_code \o string(c.name)
                             \o <<c.codec_mask, c.frame_mask>>
      [] c.type = "Welcome" -> welcome_bytes(c)
      [] c.type = "Deny" -> <<DenyReason[c.reason]>>
      [] c.type = "Ping" -> be64(c.t1_us)
      [] c.type = "Pong" -> be64(c.t1_us) \o be64(c.t2_us) \o be64(c.t3_us)
      [] c.type = "Roster" -> players_bytes(c.players)
      [] c.type = "Ack" -> be(c.acked_seq, 2) \o <<c.acked_type>>
      [] c.type \in {"Keepalive", "Bye"} -> <<>>

write_control(c, session_id, sender_id, seq) ==
    header_bytes([ptype |-> c.type, session_id |-> session_id, sender_id |-> sender_id,
                  seq |-> seq]) \o body_bytes(c)

\* An audio packet: its payload and, if the sender has one, a copy of the last,
\* as a sequence of one element.
NoCopy == <<>>
write_audio(a, h) ==
    header_bytes(h) \o be(a.timestamp, 4)
        \o <<Codec[a.codec], IF a.redundant = NoCopy THEN 0 ELSE AUDIO_FLAG_REDUNDANCY>>
        \o be(Len(a.payload), 2) \o a.payload
        \o (IF a.redundant = NoCopy THEN <<>> ELSE be(Len(a.redundant[1]), 2) \o a.redundant[1])

-----------------------------------------------------------------------------
(* Reading.  A reader is the bytes left and the values read so far.        *)

bytes_left(buf, n) == SubSeq(buf, n + 1, Len(buf))
Read(r, n, v) == [rest |-> bytes_left(r.rest, n), out |-> Append(r.out, v)]

Width == [u8 |-> 1, u16 |-> 2, u32 |-> 4, u64 |-> 8]
number(r, n) ==
    IF Len(r.rest) < n THEN Err("Truncated") ELSE Read(r, n, value(SubSeq(r.rest, 1, n)))

variant(r, enum, why) ==
    IF r.rest = <<>> THEN Err("Truncated")
    ELSE IF named(enum, r.rest[1]) = {} THEN Err(why)
    ELSE Read(r, 1, CHOOSE name \in named(enum, r.rest[1]) : TRUE)

room_code(r) ==
    IF Len(r.rest) < ROOM_CODE_LEN THEN Err("Truncated")
    ELSE Read(r, ROOM_CODE_LEN, SubSeq(r.rest, 1, ROOM_CODE_LEN))

read_string(r) ==
    IF r.rest = <<>> THEN Err("Truncated")
    ELSE LET n == r.rest[1]
             bytes == SubSeq(r.rest, 2, 1 + n)
         IN  IF n > MAX_NAME_LEN THEN Err("OutOfRange")
             ELSE IF Len(r.rest) - 1 < n THEN Err("Truncated")
             ELSE IF ~valid_utf8(bytes) THEN Err("BadString")
             ELSE Read(r, 1 + n, chars(bytes))

\* n players, each an id and a name.
player(r) == LET id == number(r, 2) IN IF failed(id) THEN id ELSE read_string(id)
another(r) == IF failed(r) THEN r ELSE player(r)
players_read(r, n) ==
    LET upto[k \in 0 .. n] ==
            IF k = 0 THEN [rest |-> r.rest, out |-> <<>>] ELSE another(upto[k - 1])
    IN  upto[n]

\* Fault: a full room and its host are one player too many.
roster_limit_off(r) == r.rest[1] > MAX_CLIENTS
roster_limit(r) == r.rest[1] > MAX_CLIENTS + 1

read_players(r) ==
    IF r.rest = <<>> THEN Err("Truncated")
    ELSE IF roster_limit(r) THEN Err("OutOfRange")
    ELSE LET n == r.rest[1]
             ps == players_read([rest |-> bytes_left(r.rest, 1)], n)
         IN  IF failed(ps) THEN ps
             ELSE [rest |-> ps.rest,
                   out |-> Append(r.out, [i \in 1 .. n |->
                               [id |-> ps.out[2 * i - 1], name |-> ps.out[2 * i]]])]

read_field(r, kind) ==
    IF failed(r) THEN r
    ELSE CASE kind \in DOMAIN Width -> number(r, Width[kind])
           [] kind = "code" -> room_code(r)
           [] kind = "codec" -> variant(r, Codec, "BadCodec")
           [] kind = "reason" -> variant(r, DenyReason, "BadDenyReason")
           [] kind = "string" -> read_string(r)
           [] kind = "players" -> read_players(r)

\* The fields of each control packet, in the order Control::parse reads them.
fields(type) ==
    CASE type = "Hello" -> <<<<"proto_version", "u8">>, <<"room_code", "code">>,
                             <<"name", "string">>, <<"codec_mask", "u8">>,
                             <<"frame_mask", "u8">>>>
      [] type = "Welcome" -> <<<<"assigned_id", "u16">>, <<"session_id", "u16">>,
                               <<"sample_rate", "u32">>, <<"frame_samples", "u16">>,
                               <<"codec", "codec">>, <<"roster", "players">>>>
      [] type = "Deny" -> <<<<"reason", "reason">>>>
      [] type = "Ping" -> <<<<"t1_us", "u64">>>>
      [] type = "Pong" -> <<<<"t1_us", "u64">>, <<"t2_us", "u64">>, <<"t3_us", "u64">>>>
      [] type = "Roster" -> <<<<"players", "players">>>>
      [] type = "Ack" -> <<<<"acked_seq", "u16">>, <<"acked_type", "u8">>>>
      [] type \in {"Keepalive", "Bye"} -> <<>>

\* Fault: bytes behind the last field are not noticed.
unfinished_never(r) == FALSE
unfinished(r) == r.rest # <<>>

parse_control(type, body) ==
    LET fs == fields(type)
        upto[k \in 0 .. Len(fs)] ==
            IF k = 0 THEN [rest |-> body, out |-> <<>>]
            ELSE read_field(upto[k - 1], fs[k][2])
        r == upto[Len(fs)]
    IN  IF failed(r) THEN r
        ELSE IF unfinished(r) THEN Err("TrailingBytes")
        ELSE [x \in {"type"} \cup {fs[i][1] : i \in DOMAIN fs} |->
                 IF x = "type" THEN type
                 ELSE r.out[CHOOSE i \in DOMAIN fs : fs[i][1] = x]]

\* What follows the payload of an audio packet.
parse_copy(flags, tail) ==
    IF flags % 2 # AUDIO_FLAG_REDUNDANCY
    THEN IF tail = <<>> THEN [redundant |-> NoCopy] ELSE Err("TrailingBytes")
    ELSE IF Len(tail) < 2 THEN Err("Truncated")
    ELSE LET rlen == value(SubSeq(tail, 1, 2))
             rest == bytes_left(tail, 2)
         IN  IF Len(rest) < rlen THEN Err("BadLength")
             ELSE IF Len(rest) > rlen THEN Err("TrailingBytes")
             ELSE [redundant |-> <<rest>>]

parse_audio(body) ==
    IF Len(body) < AUDIO_HEADER_LEN THEN Err("Truncated")
    ELSE IF named(Codec, body[5]) = {} THEN Err("BadCodec")
    ELSE LET plen == value(SubSeq(body, 7, 8))
             rest == bytes_left(body, AUDIO_HEADER_LEN)
             copy == parse_copy(body[6], bytes_left(rest, plen))
         IN  IF Len(rest) < plen THEN Err("BadLength")
             ELSE IF failed(copy) THEN copy
             ELSE [type |-> "Audio", timestamp |-> value(SubSeq(body, 1, 4)),
                   codec |-> CHOOSE c \in named(Codec, body[5]) : TRUE,
                   payload |-> SubSeq(rest, 1, plen), redundant |-> copy.redundant]

parse_header(buf) ==
    IF Len(buf) < HEADER_LEN THEN Err("Truncated")
    ELSE IF buf[1] # MAGIC THEN Err("BadMagic")
    ELSE IF buf[2] \div 16 # PROTOCOL_VERSION THEN Err("BadVersion")
    ELSE IF named(PacketType, buf[2] % 16) = {} THEN Err("BadType")
    ELSE [ptype |-> CHOOSE t \in named(PacketType, buf[2] % 16) : TRUE,
          session_id |-> value(SubSeq(buf, 3, 4)), sender_id |-> value(SubSeq(buf, 5, 6)),
          seq |-> value(SubSeq(buf, 7, 8))]

parse_datagram(buf) ==
    LET h == parse_header(buf)
        body == bytes_left(buf, HEADER_LEN)
    IN  IF failed(h) THEN h
        ELSE LET p == IF h.ptype = "Audio" THEN parse_audio(body)
                      ELSE parse_control(h.ptype, body)
             IN  IF failed(p) THEN p ELSE [header |-> h, payload |-> p]

\* What the reader makes of a control packet (WireFaithful): names are cut.
cut_names(players) == [k \in DOMAIN players |-> [players[k] EXCEPT !.name = kept(@)]]
Arrived(c) ==
    [x \in DOMAIN c |-> IF x \in {"roster", "players"} THEN cut_names(c[x])
                       ELSE IF x = "name" THEN kept(c[x]) ELSE c[x]]

\* No beginning of a datagram is a datagram, nor is one with a byte more.
OnlyWhole(buf) ==
    /\ \A n \in 0 .. Len(buf) - 1 : failed(parse_datagram(SubSeq(buf, 1, n)))
    /\ \A b \in {0, 1, CONT} : failed(parse_datagram(Append(buf, b)))
=============================================================================
