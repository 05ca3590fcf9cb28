---------------------------- MODULE RosterProofs ----------------------------
(***************************************************************************)
(* What a client's list of players shows, for every number of slots, any   *)
(* names, sequence space and number of datagrams under way.                *)
(***************************************************************************)
EXTENDS Roster, PacketProofs, Seq16Theorems, FiniteSetTheorems

USE PacketAssumption, HalfAssumption, NumbersAssumption, RosterAssumption

-----------------------------------------------------------------------------
(* The roster of a table of slots.                                         *)

PlayerNames == Seq(1 .. 4)
Tables == [Slots -> Names \cup {NoName}]

Players == [id : 0 .. MAX_CLIENTS, name : PlayerNames]

\* The rows that a list of players makes, and those of a table.
Rows(players) == {[id |-> players[k].id, name |-> players[k].name] : k \in DOMAIN players}
TableRows(t) ==
    {[id |-> HOST_SENDER_ID, name |-> HostName]}
        \cup {[id |-> i, name |-> t[i]] : i \in occupied(t)}

\* No name is what a free slot has.
LEMMA NamesArePlayers ==
  /\ HostName \in PlayerNames /\ MyName \in PlayerNames /\ OtherNames \subseteq PlayerNames
  /\ NoName \notin PlayerNames
<1>1. NoName \notin PlayerNames
  <2> SUFFICES ASSUME NoName \in Seq(1 .. 4) PROVE FALSE
    BY DEF PlayerNames
  <2>1. NoName[1] = 0 /\ Len(NoName) = 1
    BY DEF NoName
  <2>2. NoName[1] \in 1 .. 4
    BY <2>1, ElementOfSeq
  <2> QED
    BY <2>1, <2>2
<1> QED
  BY <1>1 DEF PlayerNames

\* A set of slots is finite and has at most MAX_CLIENTS members.
LEMMA SlotsFinite ==
    ASSUME NEW S \in SUBSET Slots
    PROVE  IsFiniteSet(S) /\ Cardinality(S) \in 0 .. MAX_CLIENTS
<1>1. IsFiniteSet(Slots) /\ Cardinality(Slots) = MAX_CLIENTS
  <2>1. MAX_CLIENTS \in Int /\ 1 \in Int /\ MAX_CLIENTS >= 1
    OBVIOUS
  <2>2. IsFiniteSet(1 .. MAX_CLIENTS)
        /\ Cardinality(1 .. MAX_CLIENTS) = (IF 1 > MAX_CLIENTS THEN 0 ELSE MAX_CLIENTS - 1 + 1)
    BY <2>1, FS_Interval, Zenon
  <2> QED
    BY <2>1, <2>2 DEF Slots
<1>2. IsFiniteSet(S) /\ Cardinality(S) <= Cardinality(Slots)
  BY <1>1, FS_Subset
<1>3. Cardinality(S) \in Nat
  BY <1>2, FS_CardinalityType
<1> QED
  BY <1>1, <1>2, <1>3

\* The slots of a set, counted in their order: each has a place, and each place a slot.
rank(S, j) == Cardinality({x \in S : x <= j})

\* The rank of a slot in a set is one of its positions,
LEMMA RankBounds ==
    ASSUME NEW S \in SUBSET Slots, NEW j \in S
    PROVE  rank(S, j) \in 1 .. Cardinality(S)
<1> DEFINE T == {x \in S : x <= j}
<1>1. T \in SUBSET S /\ T \in SUBSET Slots /\ j \in T
  <2>1. j \in Int
    BY DEF Slots
  <2>2. j <= j
    BY <2>1
  <2> QED
    BY <2>2
<1>2. IsFiniteSet(S) /\ Cardinality(S) \in Nat /\ IsFiniteSet(T) /\ Cardinality(T) \in Nat
  BY <1>1, SlotsFinite
<1>3. Cardinality(T) <= Cardinality(S)
  BY <1>1, <1>2, FS_Subset
<1>4. Cardinality(T) # 0
  BY <1>1, <1>2, FS_EmptySet
<1> QED
  BY <1>2, <1>3, <1>4 DEF rank

\* later slots have other ranks,
LEMMA RankGrows ==
    ASSUME NEW S \in SUBSET Slots, NEW i \in S, NEW j \in S, i < j
    PROVE  rank(S, i) # rank(S, j)
<1> DEFINE A == {x \in S : x <= i}
           B == {x \in S : x <= j}
<1>1. i \in Int /\ j \in Int /\ S \subseteq Int
  BY DEF Slots
<1>2. A \in SUBSET B /\ B \in SUBSET Slots /\ j \in B /\ j \notin A
  <2>1. \A x \in S : x <= i => x <= j
    BY <1>1
  <2>2. j <= j /\ ~(j <= i)
    BY <1>1
  <2> QED
    BY <2>1, <2>2, Zenon
<1>3. IsFiniteSet(B)
  BY <1>2, SlotsFinite
<1>4. Cardinality(B) = Cardinality(A) => B = A
  BY <1>2, <1>3, FS_Subset
<1> QED
  BY <1>2, <1>4 DEF rank

\* no two slots have the same rank,
LEMMA RankIsOne ==
    ASSUME NEW S \in SUBSET Slots, NEW i \in S, NEW j \in S, rank(S, i) = rank(S, j)
    PROVE  i = j
<1>1. i \in Int /\ j \in Int
  BY DEF Slots
<1>2. ~(i < j) /\ ~(j < i)
  BY RankGrows
<1> QED
  BY <1>1, <1>2

\* and every position is the rank of a slot.
LEMMA RankFinds ==
    ASSUME NEW S \in SUBSET Slots, NEW k \in 1 .. Cardinality(S)
    PROVE  \E j \in S : rank(S, j) = k
<1> DEFINE T == 1 .. Cardinality(S)
           f == [j \in S |-> rank(S, j)]
<1>1. Cardinality(S) \in Nat
  BY SlotsFinite
<1>2. f \in Injection(S, T)
  <2>1. f \in [S -> T]
    BY RankBounds
  <2>2. \A i, j \in S : f[i] = f[j] => i = j
    BY RankIsOne
  <2> QED
    BY <2>1, <2>2 DEF Injection, IsInjective
<1>3. IsFiniteSet(T) /\ Cardinality(T) = Cardinality(S)
  <2>1. PICK c \in Nat : c = Cardinality(S)
    BY <1>1
  <2>2. IsFiniteSet(1 .. c) /\ Cardinality(1 .. c) = IF 1 > c THEN 0 ELSE c - 1 + 1
    <3>1. 1 \in Int /\ c \in Int
      OBVIOUS
    <3> QED
      BY <3>1, FS_Interval, Zenon
  <2>3. (IF 1 > c THEN 0 ELSE c - 1 + 1) = c
    OBVIOUS
  <2> QED
    BY <2>1, <2>2, <2>3
<1>4. f \in Surjection(S, T)
  BY <1>2, <1>3, FS_Injection, Zenon
<1> QED
  BY <1>4 DEF Surjection

\* The slot at a place.
placed(S, k) == CHOOSE j \in S : rank(S, j) = k

\* So placed is the inverse of rank.
LEMMA PlacedIs ==
    ASSUME NEW S \in SUBSET Slots
    PROVE  /\ \A k \in 1 .. Cardinality(S) : placed(S, k) \in S
           /\ \A j \in S : placed(S, rank(S, j)) = j
<1>1. \A k \in 1 .. Cardinality(S) : placed(S, k) \in S
  BY RankFinds DEF placed
<1>2. ASSUME NEW j \in S PROVE placed(S, rank(S, j)) = j
  <2>1. placed(S, rank(S, j)) \in S /\ rank(S, placed(S, rank(S, j))) = rank(S, j)
    BY DEF placed
  <2> QED
    BY <2>1, RankIsOne
<1> QED
  BY <1>1, <1>2

\* The host's list has a row for himself and one for each slot that is taken.
LEMMA RosterRows ==
    ASSUME NEW t \in Tables
    PROVE  /\ host_roster(t) \in Seq(Players)
           /\ Len(host_roster(t)) <= MAX_CLIENTS + 1
           /\ Rows(host_roster(t)) = TableRows(t)
<1> DEFINE S == occupied(t)
           c == Cardinality(S)
           h == [id |-> HOST_SENDER_ID, name |-> HostName]
           row(i) == [id |-> i, name |-> t[i]]
           tail == [k \in 1 .. c |-> row(placed(S, k))]
           hr == host_roster(t)
<1>1. S \in SUBSET Slots /\ c \in 0 .. MAX_CLIENTS /\ c \in Nat
  <2>1. S \in SUBSET Slots
    BY DEF occupied
  <2> QED
    BY <2>1, SlotsFinite
<1>2. hr = <<h>> \o tail
  BY DEF host_roster, placed, rank
<1>3. \A i \in S : row(i) \in Players
  <2> SUFFICES ASSUME NEW i \in S PROVE row(i) \in Players
    OBVIOUS
  <2>1. i \in 0 .. MAX_CLIENTS
    BY DEF occupied, Slots
  <2>2. t[i] \in PlayerNames
    BY NamesArePlayers DEF occupied, Tables, Names
  <2> QED
    BY <2>1, <2>2 DEF Players
<1>4. h \in Players
  BY NamesArePlayers DEF Players, HOST_SENDER_ID
<1>5. \A k \in 1 .. c : placed(S, k) \in S
  BY <1>1, PlacedIs
<1>6. \A j \in S : rank(S, j) \in 1 .. c /\ placed(S, rank(S, j)) = j
  BY <1>1, PlacedIs, RankBounds
<1>7. tail \in Seq(Players) /\ Len(tail) = c /\ \A k \in 1 .. c : tail[k] = row(placed(S, k))
  <2> HIDE DEF S, c, row
  <2>1. tail \in [1 .. c -> Players]
    BY <1>3, <1>5
  <2>3. DOMAIN tail = 1 .. c
    OBVIOUS
  <2>4. \A k \in 1 .. c : tail[k] = row(placed(S, k))
    OBVIOUS
  <2> HIDE DEF tail
  <2>2. tail \in Seq(Players)
    <3>1. c \in Nat
      BY <1>1
    <3> QED
      BY <2>1, <3>1, SeqDef
  <2> QED
    BY <1>1, <2>2, <2>3, <2>4, LenProperties
<1> HIDE DEF S, c, h, row, tail, hr
<1>8. hr \in Seq(Players) /\ Len(hr) = 1 + c
      /\ hr[1] = h /\ \A k \in 1 .. c : hr[k + 1] = row(placed(S, k))
  <2>1. <<h>> \in Seq(Players) /\ Len(<<h>>) = 1 /\ <<h>>[1] = h
    BY <1>4
  <2>2. hr \in Seq(Players) /\ Len(hr) = Len(<<h>>) + Len(tail)
    BY <1>2, <1>7, <2>1, ConcatProperties, Zenon
  <2>3. \A i \in 1 .. Len(<<h>>) + Len(tail) :
           hr[i] = IF i <= Len(<<h>>) THEN <<h>>[i] ELSE tail[i - Len(<<h>>)]
    <3>1. PICK one \in Seq(Players) : one = <<h>>
      BY <2>1
    <3>2. \A i \in 1 .. Len(one) + Len(tail) :
             (one \o tail)[i] = IF i <= Len(one) THEN one[i] ELSE tail[i - Len(one)]
      BY <1>7, ConcatProperties, Zenon
    <3> QED
      BY <1>2, <3>1, <3>2
  <2>4. hr[1] = h
    BY <1>1, <1>7, <2>1, <2>3
  <2>5. ASSUME NEW k \in 1 .. c PROVE hr[k + 1] = row(placed(S, k))
    <3>1. k + 1 \in 1 .. 1 + c /\ ~(k + 1 <= 1) /\ k + 1 - 1 = k
      BY <1>1
    <3>2. hr[k + 1] = tail[k + 1 - 1]
      BY <1>7, <2>1, <2>3, <3>1
    <3> QED
      BY <1>7, <3>1, <3>2
  <2> QED
    BY <1>7, <2>1, <2>2, <2>4, <2>5
<1>9. Len(hr) <= MAX_CLIENTS + 1
  BY <1>1, <1>8
<1> DEFINE R == Rows(hr)
<1>10. DOMAIN hr = 1 .. 1 + c
  BY <1>8, LenProperties
<1>11. h = [id |-> h.id, name |-> h.name] /\ \A i \in S : row(i) = [id |-> row(i).id, name |-> row(i).name]
  BY DEF h, row
<1>12. ASSUME NEW r \in R PROVE r \in TableRows(t)
  <2>1. PICK k \in 1 .. 1 + c : r = [id |-> hr[k].id, name |-> hr[k].name]
    BY <1>10 DEF Rows
  <2>2. CASE k = 1
    BY <1>8, <1>11, <2>1, <2>2 DEF TableRows, h
  <2>3. CASE k # 1
    <3>1. PICK j \in 1 .. c : k = j + 1
      BY <1>1, <2>3
    <3>2. r = row(placed(S, j)) /\ placed(S, j) \in S
      BY <1>5, <1>8, <1>11, <2>1, <3>1
    <3> QED
      BY <3>2 DEF TableRows, row, S
  <2> QED
    BY <2>2, <2>3
<1>13. ASSUME NEW r \in TableRows(t) PROVE r \in R
  <2>1. r = h \/ \E i \in S : r = row(i)
    BY DEF TableRows, h, row, S
  <2>2. CASE r = h
    <3>1. 1 \in 1 .. 1 + c
      BY <1>1
    <3> QED
      BY <1>8, <1>10, <1>11, <2>2, <3>1 DEF Rows
  <2>3. ASSUME NEW i \in S, r = row(i) PROVE r \in R
    <3>1. PICK k \in 1 .. c : placed(S, k) = i
      BY <1>6
    <3>2. k + 1 \in 1 .. 1 + c /\ hr[k + 1] = row(i)
      BY <1>1, <1>8, <3>1
    <3> QED
      BY <1>10, <1>11, <2>3, <3>2 DEF Rows
  <2> QED
    BY <2>1, <2>2, <2>3
<1> QED
  BY <1>8, <1>9, <1>12, <1>13 DEF hr

-----------------------------------------------------------------------------
(* Lists of players.                                                       *)

Lists == {players \in Seq(Players) : Len(players) <= MAX_CLIENTS + 1}

\* The rows of the slots that have not changed their name, and rows with the names
\* that arrive.
Fresh(rows, changed) == {r \in rows : r.id \notin changed}
Cut(rows) == {[id |-> r.id, name |-> kept(r.name)] : r \in rows}

\* The rows name i, once.
ListedOnce(rows, i, name) ==
    /\ [id |-> i, name |-> name] \in rows
    /\ \A r \in rows : r.id = i => r.name = name

\* The rows a roster carries are those of the table it was made from.
LEMMA RosterIsList ==
    ASSUME NEW t \in Tables
    PROVE  host_roster(t) \in Lists /\ Rows(host_roster(t)) = TableRows(t)
  BY RosterRows DEF Lists

\* Whoever has a slot is in the rows, once.
LEMMA SlotIsListed ==
    ASSUME NEW t \in Tables, NEW i \in occupied(t)
    PROVE  ListedOnce(TableRows(t), i, t[i])
<1>1. i # HOST_SENDER_ID
  BY DEF occupied, Slots, HOST_SENDER_ID
<1> QED
  BY <1>1 DEF ListedOnce, TableRows

\* Tables that agree but for the changed names have the same rows but for those.
LEMMA SameRows ==
    ASSUME NEW t, NEW u, NEW changed,
           \A i \in Slots : t[i] = NoName <=> u[i] = NoName,
           \A i \in Slots \ changed : t[i] = u[i]
    PROVE  Fresh(TableRows(t), changed) = Fresh(TableRows(u), changed)
<1>1. occupied(t) = occupied(u) /\ occupied(t) \subseteq Slots
  BY DEF occupied
<1>2. ASSUME NEW r PROVE r \in Fresh(TableRows(t), changed) => r \in Fresh(TableRows(u), changed)
  BY <1>1 DEF Fresh, TableRows
<1>3. ASSUME NEW r PROVE r \in Fresh(TableRows(u), changed) => r \in Fresh(TableRows(t), changed)
  BY <1>1 DEF Fresh, TableRows
<1> QED
  BY <1>2, <1>3

\* Rosters that agree but for some names agree but for more.
LEMMA FreshFewer ==
    ASSUME NEW a, NEW b, NEW changed, NEW more, changed \subseteq more,
           Fresh(a, changed) = Fresh(b, changed)
    PROVE  Fresh(a, more) = Fresh(b, more)
<1>1. \A c : Fresh(c, more) = Fresh(Fresh(c, changed), more)
  BY DEF Fresh
<1> QED
  BY <1>1, Zenon

\* Cutting names does not touch which of them have changed,
LEMMA CutFresh ==
    ASSUME NEW rows, NEW changed
    PROVE  Fresh(Cut(rows), changed) = Cut(Fresh(rows, changed))
  BY DEF Fresh, Cut

\* and leaves a player listed once that was.
LEMMA CutLists ==
    ASSUME NEW rows, NEW i, NEW name, ListedOnce(rows, i, name)
    PROVE  ListedOnce(Cut(rows), i, kept(name))
<1>1. [id |-> i, name |-> kept(name)] \in Cut(rows)
  <2>1. PICK r \in rows : r = [id |-> i, name |-> name]
    BY DEF ListedOnce
  <2> QED
    BY <2>1 DEF Cut
<1>2. ASSUME NEW r \in Cut(rows), r.id = i PROVE r.name = kept(name)
  <2>1. PICK q \in rows : r = [id |-> q.id, name |-> kept(q.name)]
    BY DEF Cut
  <2>2. q.name = name
    BY <1>2, <2>1 DEF ListedOnce
  <2> QED
    BY <2>1, <2>2
<1> QED
  BY <1>1, <1>2 DEF ListedOnce

\* The list that arrives.
LEMMA ListArrives ==
    ASSUME NEW players \in Lists
    PROVE  /\ Rows(cut_names(players)) = Cut(Rows(players))
           /\ Len(cut_names(players)) \in 0 .. MAX_CLIENTS + 1
<1> DEFINE cn == cut_names(players)
           S == {cn[k] : k \in DOMAIN players}
<1>1. players \in Seq(Players) /\ Len(players) \in 0 .. MAX_CLIENTS + 1
      /\ DOMAIN players = 1 .. Len(players)
  <2>1. players \in Seq(Players) /\ Len(players) <= MAX_CLIENTS + 1
    BY DEF Lists
  <2>2. Len(players) \in Nat /\ DOMAIN players = 1 .. Len(players)
    BY <2>1, LenProperties, Zenon
  <2> QED
    BY <2>1, <2>2
<1>2. DOMAIN cn = DOMAIN players
  BY DEF cut_names
<1>3. \A k \in DOMAIN players : cn[k].id = players[k].id /\ cn[k].name = kept(players[k].name)
  <2> SUFFICES ASSUME NEW k \in DOMAIN players
               PROVE  cn[k].id = players[k].id /\ cn[k].name = kept(players[k].name)
    OBVIOUS
  <2>1. players[k] \in Players
    BY <1>1, ElementOfSeq
  <2>2. cn[k] = [players[k] EXCEPT !.name = kept(@)]
    BY DEF cut_names
  <2> QED
    BY <2>1, <2>2 DEF Players
<1> HIDE DEF cn
<1>4. Rows(cn) = Cut(Rows(players))
  <2>1. Rows(cn) = {[id |-> players[k].id, name |-> kept(players[k].name)] :
                       k \in DOMAIN players}
    BY <1>2, <1>3 DEF Rows
  <2>2. ASSUME NEW r \in Rows(cn) PROVE r \in Cut(Rows(players))
    <3>1. PICK k \in DOMAIN players :
             r = [id |-> players[k].id, name |-> kept(players[k].name)]
      BY <2>1
    <3>2. PICK q \in Rows(players) : q = [id |-> players[k].id, name |-> players[k].name]
      BY DEF Rows
    <3> QED
      BY <3>1, <3>2 DEF Cut
  <2>3. ASSUME NEW r \in Cut(Rows(players)) PROVE r \in Rows(cn)
    <3>1. PICK q \in Rows(players) : r = [id |-> q.id, name |-> kept(q.name)]
      BY DEF Cut
    <3>2. PICK k \in DOMAIN players : q = [id |-> players[k].id, name |-> players[k].name]
      BY DEF Rows
    <3> QED
      BY <2>1, <3>1, <3>2
  <2> QED
    BY <2>2, <2>3
<1>5. Len(cn) = Len(players)
  <2>1. cn \in [1 .. Len(players) -> S]
    <3>1. \A k \in 1 .. Len(players) : cn[k] \in S
      BY <1>1
    <3>2. cn = [k \in 1 .. Len(players) |-> cn[k]]
      BY <1>1 DEF cn, cut_names
    <3> HIDE DEF S
    <3> QED
      BY <3>1, <3>2
  <2> HIDE DEF S
  <2>2. cn \in Seq(S)
    <3>1. Len(players) \in Nat
      BY <1>1
    <3> QED
      BY <2>1, <3>1, SeqDef
  <2>3. DOMAIN cn = 1 .. Len(players) /\ Len(players) \in Nat
    BY <1>1, <1>2
  <2> QED
    BY <2>2, <2>3, LenProperties
<1> QED
  BY <1>1, <1>4, <1>5 DEF cn

-----------------------------------------------------------------------------
(* The invariant.                                                          *)

\* The first number that this host process uses.
FirstNumber == IF session = 1 THEN First ELSE 0

\* What is told of the players in a datagram.
Bears(d) == d.control.type \in {"Welcome", "Roster"}
players_of(d) == IF d.control.type = "Welcome" THEN d.control.roster ELSE d.control.players

\* A datagram to slot i, with a number of this process, that lists me once.
Letter(d, i, from, to) ==
    /\ d.n \in Nat /\ from <= d.n /\ d.n < to
    /\ d.control.type \in {"Welcome", "Roster", "Deny"}
    /\ Bears(d) => /\ i # 0 /\ players_of(d) \in Lists
                   /\ ListedOnce(Rows(players_of(d)), i, MyName)
    /\ d.control.type = "Welcome" => d.control.assigned_id = i

\* It lists who is in the room.
Current(d, rows, changed) ==
    Bears(d) /\ Fresh(Rows(players_of(d)), changed) = Fresh(rows, changed)

\* The datagrams under way; the last one that was told is current.
Mail(S, i, from, to, last_told, rows, changed) ==
    \A d \in S : Letter(d, i, from, to) /\ (d.n = last_told => Current(d, rows, changed))

TypeInv ==
    /\ table \in Tables /\ names \in Tables
    /\ mine \in 0 .. MAX_CLIENTS /\ pending \in BOOLEAN /\ hello \in BOOLEAN
    /\ session \in 1 .. MaxRestarts + 1
    /\ IsFiniteSet(net) /\ Cardinality(net) <= MaxNet
    /\ phase \in {"Joining", "Joined", "Failed"} /\ own \in 0 .. MAX_CLIENTS
    /\ Len(roster) \in 0 .. MAX_CLIENTS + 1
    /\ renamed \subseteq Slots

\* Numbers are used once; what is taken is of this host process once I have a slot.
NumberInv ==
    /\ n \in Nat /\ FirstNumber <= n /\ n <= LastNumber
    /\ {told, shown, taken} \subseteq Numbers \cup {None}
    /\ told < n /\ shown < n
    /\ phase = "Joined" /\ mine # 0 /\ taken # None => FirstNumber <= taken /\ taken < n
    /\ last = IF taken = None THEN None ELSE Wire(taken)

\* The two tables of names agree but for names that changed; mine stands.
TableInv ==
    /\ \A i \in Slots : table[i] = NoName <=> names[i] = NoName
    /\ \A i \in Slots \ renamed : table[i] = names[i]
    /\ mine # 0 => table[mine] = MyName /\ mine \notin renamed
    /\ pending => mine # 0

NetInv == Mail(net, mine, FirstNumber, n, told, TableRows(names), renamed)

\* When I am joined and have a slot it is the one I know, and I find myself.
MeInv ==
    phase = "Joined" =>
        /\ own # 0
        /\ mine # 0 => own = mine
        /\ hello => mine # 0
        /\ ListedOnce(Rows(roster), own, kept(MyName))

ShownInv ==
    mine # 0 /\ told # None /\ shown = told
    => Fresh(Rows(roster), renamed) = Cut(Fresh(TableRows(names), renamed))

IInv == TypeInv /\ NumberInv /\ TableInv /\ NetInv /\ MeInv /\ ShownInv

\* Mail stays in order when datagrams with later numbers join it.
LEMMA MailGrows ==
    ASSUME NEW S, NEW D, NEW T, NEW i, NEW j, NEW from \in Int, NEW to \in Int, NEW more \in Int,
           NEW t, NEW new \in Int, NEW rows, NEW rows2, NEW changed, NEW changed2,
           Mail(S, i, from, to, t, rows, changed), to <= more, T \subseteq S \cup D,
           j = i \/ i = 0,
           \A d \in D : Letter(d, j, from, more) /\ (d.n = new => Current(d, rows2, changed2)),
           \/ new >= to
           \/ new = t /\ (i # 0 => rows2 = rows /\ changed \subseteq changed2)
    PROVE  Mail(T, j, from, more, new, rows2, changed2)
<1> SUFFICES ASSUME NEW d \in S
             PROVE  Letter(d, j, from, more) /\ (d.n = new => Current(d, rows2, changed2))
  BY Zenon DEF Mail
<1>1. Letter(d, i, from, to) /\ (d.n = t => Current(d, rows, changed))
  BY DEF Mail
<1>2. d.n \in Nat /\ from <= d.n /\ d.n < more /\ ~(d.n >= to)
  BY <1>1 DEF Letter
<1>3. i = 0 => ~Bears(d) /\ d.control.type # "Welcome"
  BY <1>1 DEF Letter, Bears
<1>4. Letter(d, j, from, more)
  BY <1>1, <1>2, <1>3, Zenon DEF Letter
<1>5. ASSUME d.n = new PROVE Current(d, rows2, changed2)
  <2>1. new = t /\ i # 0
    BY <1>1, <1>2, <1>3, <1>5 DEF Current
  <2>2. rows2 = rows /\ changed \subseteq changed2 /\ Current(d, rows, changed)
    BY <1>1, <1>2, <1>5, <2>1
  <2>3. Bears(d) /\ Fresh(Rows(players_of(d)), changed) = Fresh(rows, changed)
    BY <2>2 DEF Current
  <2>4. Fresh(Rows(players_of(d)), changed2) = Fresh(rows, changed2)
    BY <2>2, <2>3, FreshFewer
  <2> QED
    BY <2>2, <2>3, <2>4 DEF Current
<1> QED
  BY <1>4, <1>5

\* The host does something for me or for others, and I notice nothing yet: what it
\* sends me, with numbers of its own, is D.
LEMMA HostSends ==
    ASSUME IInv, TypeInv', TableInv', UNCHANGED <<session, me, shown, taken>>,
           n' \in Nat, n <= n', n' <= LastNumber,
           NEW D, net' \subseteq net \cup D,
           \A d \in D : /\ Letter(d, mine', FirstNumber, n')
                        /\ d.n = told' => Current(d, TableRows(names'), renamed'),
           mine' = mine \/ (mine = 0 /\ phase # "Joined"),
           hello' => hello \/ phase # "Joined",
           told' \in Numbers \cup {None},
           \/ told' >= n /\ told' < n'
           \/ /\ told' = told /\ mine' = mine
              /\ mine # 0 => TableRows(names') = TableRows(names) /\ renamed \subseteq renamed'
    PROVE  IInv'
<1>1. /\ session' = session /\ phase' = phase /\ own' = own /\ last' = last /\ roster' = roster
      /\ shown' = shown /\ taken' = taken
  BY DEF me
<1>2. FirstNumber' = FirstNumber /\ LastNumber' = LastNumber /\ FirstNumber \in Nat
  BY <1>1 DEF FirstNumber, LastNumber, Seqs
<1>3. /\ n \in Nat /\ told \in Int /\ told' \in Int /\ shown \in Int /\ taken \in Int
      /\ told < n /\ shown < n
  BY DEF IInv, NumberInv, Numbers, None
<1>4. NumberInv'
  <2>1. /\ n' \in Nat /\ FirstNumber' <= n' /\ n' <= LastNumber'
        /\ {told, shown, taken}' \subseteq Numbers \cup {None}
        /\ told' < n' /\ shown' < n'
    BY <1>1, <1>2, <1>3 DEF IInv, NumberInv
  <2>2. phase' = "Joined" /\ mine' # 0 /\ taken' # None => FirstNumber' <= taken' /\ taken' < n'
    BY <1>1, <1>2, <1>3 DEF IInv, NumberInv
  <2>3. last' = IF taken' = None THEN None ELSE Wire(taken')
    BY <1>1 DEF IInv, NumberInv
  <2> QED
    BY <2>1, <2>2, <2>3 DEF NumberInv
<1>5. NetInv'
  <2>1. Mail(net, mine, FirstNumber, n, told, TableRows(names), renamed)
    BY DEF IInv, NetInv
  <2>2. FirstNumber \in Int /\ n \in Int /\ n' \in Int /\ told' \in Int
    BY <1>2, <1>3
  <2>3. mine' = mine \/ mine = 0
    OBVIOUS
  <2>4. \/ told' >= n
        \/ /\ told' = told
           /\ mine # 0 => TableRows(names') = TableRows(names) /\ renamed \subseteq renamed'
    OBVIOUS
  <2>5. n <= n' /\ net' \subseteq net \cup D
    OBVIOUS
  <2>6. \A d \in D : /\ Letter(d, mine', FirstNumber, n')
                     /\ d.n = told' => Current(d, TableRows(names'), renamed')
    OBVIOUS
  <2>7. Mail(net', mine', FirstNumber, n', told', TableRows(names'), renamed')
    BY <2>1, <2>2, <2>3, <2>4, <2>5, <2>6, MailGrows, Zenon
  <2> QED
    BY <1>2, <2>7 DEF NetInv
<1>6. MeInv'
  BY <1>1 DEF IInv, MeInv
<1>7. ShownInv'
  <2> SUFFICES ASSUME mine' # 0, told' # None, shown' = told'
               PROVE  Fresh(Rows(roster'), renamed') = Cut(Fresh(TableRows(names'), renamed'))
    BY DEF ShownInv
  <2>1. told' = told /\ mine' = mine /\ TableRows(names') = TableRows(names)
        /\ renamed \subseteq renamed'
    BY <1>1, <1>3
  <2>2. Fresh(Rows(roster), renamed) = Fresh(Cut(TableRows(names)), renamed)
    BY <1>1, <2>1, CutFresh DEF IInv, ShownInv
  <2>3. Fresh(Rows(roster), renamed') = Fresh(Cut(TableRows(names)), renamed')
    BY <2>1, <2>2, FreshFewer
  <2> QED
    BY <1>1, <2>1, <2>3, CutFresh
<1> QED
  BY <1>4, <1>5, <1>6, <1>7 DEF IInv

-----------------------------------------------------------------------------
(* The host's steps.                                                       *)

\* A non-empty set of slots has a first one.
LEMMA FirstSlot ==
    ASSUME NEW S \in SUBSET Slots, S # {}
    PROVE  Min(S) \in S
<1>1. S \subseteq Nat
  BY DEF Slots
<1>2. PICK x \in S : \A y \in S : ~ (<<y, x>> \in OpToRel(<, Nat))
  BY <1>1, WFMin, NatLessThanWellFounded
<1>3. \A y \in S : ~ (y < x)
  BY <1>1, <1>2, Zenon DEF OpToRel
<1>4. \A y \in S : x <= y
  BY <1>1, <1>3
<1> QED
  BY <1>4 DEF Min

\* I have a name.
LEMMA MyNameIsOne == MyName \in Names /\ MyName # NoName /\ \A name \in Names : name # NoName
  BY NamesArePlayers, Zenon DEF Names

\* 0, which is no slot, and the empty network are within their bounds.
LEMMA NoSlot == 0 \in 0 .. MAX_CLIENTS /\ 0 <= MaxNet
<1>1. 0 \in 0 .. MAX_CLIENTS
  OBVIOUS
<1>2. MaxNet \in Nat
  OBVIOUS
<1> QED
  BY <1>1, <1>2

\* A number that the host uses.
LEMMA NumbersUsed ==
    ASSUME NEW k \in Nat, k <= LastNumber
    PROVE  k \in Numbers
  BY DEF LastNumber, Numbers, Seqs

\* Somebody takes a slot or leaves it, and I keep mine or take that one.
LEMMA SeatKeeps ==
    ASSUME TypeInv, TableInv, NEW i \in Slots, NEW name \in Names \cup {NoName}, Seat(i, name),
           \/ mine' = 0
           \/ mine' = mine /\ mine # i
           \/ mine' = i /\ name = MyName,
           pending' => mine' # 0
    PROVE  /\ table' \in Tables /\ names' \in Tables /\ renamed' \subseteq Slots /\ TableInv'
           /\ table'[i] = name /\ \A j \in Slots \ {i} : table'[j] = table[j]
<1>1. table \in Tables /\ names \in Tables /\ mine \in 0 .. MAX_CLIENTS /\ renamed \subseteq Slots
  BY DEF TypeInv
<1>2. /\ table' = [table EXCEPT ![i] = name] /\ names' = [names EXCEPT ![i] = name]
      /\ renamed' = renamed \ {i}
  BY DEF Seat
<1>3. table' \in Tables /\ names' \in Tables /\ renamed' \subseteq Slots
  BY <1>1, <1>2 DEF Tables
<1>4. /\ table'[i] = name /\ names'[i] = name
      /\ \A j \in Slots \ {i} : table'[j] = table[j] /\ names'[j] = names[j]
  BY <1>1, <1>2 DEF Tables
<1>5. mine # 0 => mine \in Slots
  BY <1>1 DEF Slots
<1>6. mine' # 0 => table'[mine'] = MyName /\ mine' \notin renamed'
  <2> SUFFICES ASSUME mine' # 0 PROVE table'[mine'] = MyName /\ mine' \notin renamed'
    OBVIOUS
  <2>1. CASE mine' = mine /\ mine # i
    BY <1>2, <1>4, <1>5, <2>1 DEF TableInv
  <2>2. CASE mine' = i /\ name = MyName
    BY <1>2, <1>4, <2>2
  <2> QED
    BY <2>1, <2>2
<1>7. \A j \in Slots : table'[j] = NoName <=> names'[j] = NoName
  BY <1>4 DEF TableInv
<1>8. \A j \in Slots \ renamed' : table'[j] = names'[j]
  BY <1>2, <1>4 DEF TableInv
<1> QED
  BY <1>3, <1>4, <1>6, <1>7, <1>8 DEF TableInv

\* A packet that carries the roster of the table to my slot.
LEMMA RosterBears ==
    ASSUME NEW t \in Tables, NEW u \in Tables, NEW i \in Slots, t[i] = MyName, NEW changed,
           \A j \in Slots : t[j] = NoName <=> u[j] = NoName,
           \A j \in Slots \ changed : t[j] = u[j],
           NEW from, NEW to, NEW d, d.n \in Nat, from <= d.n, d.n < to,
           d.control = welcome(t, i) \/ d.control = roster_packet(t)
    PROVE  Letter(d, i, from, to) /\ Current(d, TableRows(u), changed)
<1>1. Bears(d) /\ players_of(d) = host_roster(t)
      /\ d.control.type \in {"Welcome", "Roster"}
      /\ (d.control.type = "Welcome" => d.control.assigned_id = i)
  BY DEF Bears, players_of, welcome, roster_packet
<1>2. host_roster(t) \in Lists /\ Rows(host_roster(t)) = TableRows(t)
  BY RosterIsList
<1>3. i \in occupied(t) /\ i # 0
  BY MyNameIsOne DEF occupied, Slots
<1>4. ListedOnce(TableRows(t), i, MyName)
  BY <1>3, SlotIsListed
<1>5. Fresh(TableRows(t), changed) = Fresh(TableRows(u), changed)
  BY SameRows
<1> QED
  BY <1>1, <1>2, <1>3, <1>4, <1>5 DEF Letter, Current

\* What was stamped.
LEMMA Stamped ==
    ASSUME IInv, NEW count \in Nat, NEW ds, IsFiniteSet(ds), NEW bears \in BOOLEAN,
           Stamp(count, ds, bears)
    PROVE  /\ n' \in Nat /\ n' = n + count /\ n <= n' /\ n' <= LastNumber
           /\ net' \subseteq net \cup ds /\ IsFiniteSet(net') /\ Cardinality(net') <= MaxNet
           /\ bears => \A d : ds = {d} => told' = d.n
           /\ ~bears => told' = told
<1>1. n \in Nat /\ IsFiniteSet(net)
  BY DEF IInv, NumberInv, TypeInv
<1>2. /\ n' = n + count /\ n' <= LastNumber /\ Cardinality(net') <= MaxNet
      /\ told' = IF bears THEN (CHOOSE d \in ds : TRUE).n ELSE told
  BY DEF Stamp
<1>3. PICK arriving \in SUBSET ds : net' = net \cup arriving
  BY DEF Stamp
<1>4. IsFiniteSet(net')
  <2>1. IsFiniteSet(arriving)
    BY FS_Subset
  <2> QED
    BY <1>1, <1>3, <2>1, FS_Union
<1>5. \A d : (CHOOSE x \in {d} : TRUE) = d
  OBVIOUS
<1>6. n' \in Nat /\ n <= n'
  BY <1>1, <1>2
<1>7. bears => \A d : ds = {d} => told' = d.n
  BY <1>2, <1>5, Zenon
<1>8. ~bears => told' = told
  BY <1>2, Zenon
<1>9. net' \subseteq net \cup ds
  BY <1>3
<1> QED
  BY <1>2, <1>4, <1>6, <1>7, <1>8, <1>9

\* The host tells me the table as it now is.
LEMMA TellsMe ==
    ASSUME IInv, TableInv', UNCHANGED <<session, me, shown, taken>>,
           table' \in Tables, names' \in Tables, renamed' \subseteq Slots,
           pending' \in BOOLEAN, hello' \in BOOLEAN, mine' \in Slots,
           mine' = mine \/ (mine = 0 /\ phase # "Joined"),
           hello' => hello \/ phase # "Joined",
           NEW count \in Nat, NEW k \in Nat, n <= k, k < n + count, NEW d, d.n = k,
           d.control = welcome(table', mine') \/ d.control = roster_packet(table'),
           Stamp(count, {d}, TRUE)
    PROVE  IInv'
<1>1. IsFiniteSet({d})
  BY FS_Singleton
<1>2. /\ n' \in Nat /\ n' = n + count /\ n <= n' /\ n' <= LastNumber
      /\ net' \subseteq net \cup {d} /\ IsFiniteSet(net') /\ Cardinality(net') <= MaxNet
      /\ told' = k
  BY <1>1, Stamped, Zenon
<1>3. TypeInv'
  <2>1. session' = session /\ phase' = phase /\ own' = own /\ roster' = roster
    BY DEF me
  <2>2. mine' \in 0 .. MAX_CLIENTS
    BY DEF Slots
  <2> QED
    BY <1>2, <2>1, <2>2 DEF TypeInv, IInv
<1>4. n \in Nat /\ FirstNumber \in Nat /\ FirstNumber <= k /\ k < n'
  BY <1>2 DEF IInv, NumberInv, FirstNumber, Seqs
<1>5. \A x \in {d} : /\ Letter(x, mine', FirstNumber, n')
                     /\ x.n = told' => Current(x, TableRows(names'), renamed')
  <2>1. table'[mine'] = MyName
    BY DEF TableInv, Slots
  <2>2. /\ \A j \in Slots : table'[j] = NoName <=> names'[j] = NoName
        /\ \A j \in Slots \ renamed' : table'[j] = names'[j]
    BY DEF TableInv
  <2>3. Letter(d, mine', FirstNumber, n') /\ Current(d, TableRows(names'), renamed')
    BY <1>4, <2>1, <2>2, RosterBears
  <2> QED
    BY <2>3
<1>6. told' \in Numbers \cup {None}
  <2>1. k <= LastNumber
    BY <1>2, <1>4 DEF LastNumber, Seqs
  <2> QED
    BY <1>2, <2>1, NumbersUsed
<1> QED
  BY <1>2, <1>3, <1>4, <1>5, <1>6, HostSends

\* The host says nothing to me, or refuses me.
LEMMA TellsOthers ==
    ASSUME IInv, TableInv', UNCHANGED <<session, me, shown, taken>>,
           table' \in Tables, names' \in Tables, renamed' \subseteq Slots,
           pending' \in BOOLEAN, hello' \in BOOLEAN,
           mine' = mine, mine # 0 => TableRows(names') = TableRows(names) /\ renamed \subseteq renamed',
           hello' => hello \/ phase # "Joined",
           NEW count \in Nat, NEW ds, IsFiniteSet(ds),
           \A d \in ds : d = Datagram(deny("RoomFull"), n) /\ count > 0,
           Stamp(count, ds, FALSE)
    PROVE  IInv'
<1>2. /\ n' \in Nat /\ n' = n + count /\ n <= n' /\ n' <= LastNumber
      /\ net' \subseteq net \cup ds /\ IsFiniteSet(net') /\ Cardinality(net') <= MaxNet
      /\ told' = told
  BY Stamped, Zenon
<1>3. TypeInv'
  <2>1. session' = session /\ phase' = phase /\ own' = own /\ roster' = roster
    BY DEF me
  <2> QED
    BY <1>2, <2>1 DEF TypeInv, IInv
<1>4. n \in Nat /\ told < n /\ told \in Numbers \cup {None} /\ FirstNumber <= n
  BY DEF IInv, NumberInv
<1>5. \A x \in ds : /\ Letter(x, mine', FirstNumber, n')
                    /\ x.n = told' => Current(x, TableRows(names'), renamed')
  <2> SUFFICES ASSUME NEW x \in ds
               PROVE  Letter(x, mine', FirstNumber, n') /\ x.n # told'
    OBVIOUS
  <2>1. x.n = n /\ x.control.type = "Deny" /\ count > 0
    BY DEF Datagram, deny
  <2>2. Letter(x, mine', FirstNumber, n')
    BY <1>2, <1>4, <2>1 DEF Letter, Bears
  <2>3. x.n # told'
    BY <1>2, <1>4, <2>1 DEF Numbers, None
  <2> QED
    BY <2>2, <2>3
<1>6. \/ told' >= n /\ told' < n'
      \/ /\ told' = told /\ mine' = mine
         /\ mine # 0 => TableRows(names') = TableRows(names) /\ renamed \subseteq renamed'
  BY <1>2
<1>7. mine' = mine \/ (mine = 0 /\ phase # "Joined")
  OBVIOUS
<1>8. told' \in Numbers \cup {None} /\ n' \in Nat /\ n <= n' /\ n' <= LastNumber
      /\ net' \subseteq net \cup ds
  BY <1>2, <1>4, Zenon
<1> QED
  BY <1>3, <1>5, <1>6, <1>7, <1>8, HostSends, Zenon

\* Everyone who has a slot but those of `except' is told.
LEMMA BroadcastTells ==
    ASSUME IInv, TableInv', UNCHANGED <<session, me, shown, taken>>,
           table' \in Tables, names' \in Tables, renamed' \subseteq Slots,
           pending' \in BOOLEAN, mine' = mine, hello' = hello,
           NEW except, mine \notin except, NEW before \in Nat, Broadcast(table', except, before)
    PROVE  IInv'
<1> DEFINE R == recipients(table', except)
           B == {i \in R : i < mine'}
           ds == broadcast_to_me(table', except, n + before)
           count == before + Cardinality(R)
           k == n + before + Cardinality(B)
<1>1. hello \in BOOLEAN /\ n \in Nat /\ mine \in 0 .. MAX_CLIENTS
  BY DEF IInv, TypeInv, NumberInv
<1>2. Stamp(count, ds, ds # {})
  BY DEF Broadcast
<1>3. R \in SUBSET Slots /\ B \in SUBSET Slots /\ B \subseteq R
  BY DEF recipients, occupied
<1>4. Cardinality(R) \in Nat /\ Cardinality(B) \in Nat /\ IsFiniteSet(R)
  <2>1. \A S \in SUBSET Slots : IsFiniteSet(S) /\ Cardinality(S) \in Nat
    BY SlotsFinite
  <2> QED
    BY <1>3, <2>1, Zenon
<1>5. count \in Nat
  BY <1>4
<1>6. hello' => hello \/ phase # "Joined"
  OBVIOUS
<1>7. hello' \in BOOLEAN
  BY <1>1
<1>8. CASE mine # 0
  <2>1. mine' \in R /\ mine' \in Slots
    <3>1. mine' \in Slots /\ table'[mine'] = MyName
      BY <1>1, <1>8 DEF TableInv, Slots
    <3> QED
      BY <3>1, MyNameIsOne DEF recipients, occupied
  <2>2. ds = {Datagram(roster_packet(table'), k)}
    BY <2>1 DEF broadcast_to_me
  <2>3. Cardinality(B) < Cardinality(R)
    <3>1. mine' \notin B
      BY <1>1
    <3>2. Cardinality(B) <= Cardinality(R) /\ (Cardinality(B) = Cardinality(R) => B = R)
      BY <1>3, <1>4, FS_Subset
    <3> QED
      BY <1>4, <2>1, <3>1, <3>2
  <2> DEFINE d == Datagram(roster_packet(table'), k)
  <2>4. d.n = k /\ d.control = roster_packet(table')
    BY DEF Datagram
  <2>5. Stamp(count, {d}, TRUE)
    BY <1>2, <2>2
  <2>6. k \in Nat /\ n <= k /\ k < n + count
    BY <1>1, <1>4, <2>3
  <2> HIDE DEF d, k, count
  <2> QED
    BY <1>5, <1>6, <1>7, <2>1, <2>4, <2>5, <2>6, TellsMe
<1>9. CASE mine = 0
  <2>1. mine' \notin R
    BY <1>3, <1>9 DEF Slots
  <2>2. ds = {}
    BY <2>1 DEF broadcast_to_me
  <2>3. Stamp(count, {}, FALSE)
    BY <1>2, <2>2
  <2>4. IsFiniteSet({})
    BY FS_EmptySet
  <2> HIDE DEF count
  <2> QED
    BY <1>5, <1>6, <1>7, <1>9, <2>3, <2>4, TellsOthers
<1> QED
  BY <1>8, <1>9

\* Each step keeps the inductive invariant.
LEMMA OtherJoinsKeeps ==
    ASSUME IInv, NEW name \in OtherNames, OtherJoins(name)
    PROVE  IInv'
<1> DEFINE i == Min(free(table))
<1>1. i \in Slots /\ table[i] = NoName
  <2>1. free(table) \in SUBSET Slots /\ free(table) # {}
    BY DEF OtherJoins, free
  <2>2. i \in free(table)
    BY <2>1, FirstSlot
  <2> QED
    BY <2>2 DEF free, occupied
<1>2. /\ Seat(i, name) /\ mine' = mine /\ Broadcast(table', {i}, 1)
      /\ UNCHANGED <<pending, session, hello, me, shown, taken>>
  BY DEF OtherJoins
<1> HIDE DEF i
<1>3. TypeInv /\ TableInv
  BY DEF IInv
<1>4. mine # i
  BY <1>1, <1>3, MyNameIsOne DEF TableInv, Slots
<1>5. name \in Names \cup {NoName}
  BY DEF Names
<1>6. pending' => mine' # 0
  BY <1>2, <1>3 DEF TableInv
<1>7. table' \in Tables /\ names' \in Tables /\ renamed' \subseteq Slots /\ TableInv'
  BY <1>1, <1>2, <1>3, <1>4, <1>5, <1>6, SeatKeeps
<1>8. pending' \in BOOLEAN
  BY <1>2, <1>3 DEF TypeInv
<1> QED
  BY <1>2, <1>4, <1>7, <1>8, BroadcastTells

LEMMA OtherLeavesKeeps ==
    ASSUME IInv, NEW i \in Slots, OtherLeaves(i)
    PROVE  IInv'
<1>1. i \in occupied(table) \ {mine}
  BY DEF OtherLeaves
<1>2. /\ Seat(i, NoName) /\ mine' = mine /\ Broadcast(table', {}, 0)
      /\ UNCHANGED <<pending, session, hello, me, shown, taken>>
  BY DEF OtherLeaves, Vacate
<1>3. TypeInv /\ TableInv
  BY DEF IInv
<1>4. mine # i
  BY <1>1
<1>5. NoName \in Names \cup {NoName}
  OBVIOUS
<1>6. pending' => mine' # 0
  BY <1>2, <1>3 DEF TableInv
<1>7. table' \in Tables /\ names' \in Tables /\ renamed' \subseteq Slots /\ TableInv'
  BY <1>2, <1>3, <1>4, <1>5, <1>6, SeatKeeps
<1>8. pending' \in BOOLEAN
  BY <1>2, <1>3 DEF TypeInv
<1> QED
  BY <1>2, <1>7, <1>8, BroadcastTells

LEMMA OtherAgainKeeps ==
    ASSUME IInv, NEW i \in Slots, NEW name \in OtherNames, OtherAgain(i, name)
    PROVE  IInv'
<1>1. /\ i \in occupied(table) \ {mine}
      /\ table' = [table EXCEPT ![i] = name]
      /\ renamed' = IF name = table[i] THEN renamed ELSE renamed \cup {i}
      /\ Stamp(1, {}, FALSE)
      /\ UNCHANGED <<names, mine, pending, session, hello, me, shown, taken>>
  BY DEF OtherAgain, Silent
<1>2. /\ table \in Tables /\ names \in Tables /\ renamed \subseteq Slots
      /\ mine \in 0 .. MAX_CLIENTS /\ pending \in BOOLEAN /\ hello \in BOOLEAN
  BY DEF IInv, TypeInv
<1>3. name \in Names /\ name # NoName
  BY MyNameIsOne DEF Names
<1>4. table' \in Tables /\ table'[i] = name /\ \A j \in Slots \ {i} : table'[j] = table[j]
  BY <1>1, <1>2, <1>3 DEF Tables
<1>5. names' = names /\ mine' = mine /\ renamed' \subseteq Slots /\ renamed \subseteq renamed'
      /\ i # mine /\ table[i] # NoName
  BY <1>1, <1>2 DEF occupied
<1>6. TableInv'
  <2>1. TableInv
    BY DEF IInv
  <2>2. \A j \in Slots : table'[j] = NoName <=> names'[j] = NoName
    BY <1>3, <1>4, <1>5, <2>1 DEF TableInv
  <2>3. \A j \in Slots \ renamed' : table'[j] = names'[j]
    <3> SUFFICES ASSUME NEW j \in Slots \ renamed' PROVE table'[j] = names[j]
      BY <1>5
    <3>1. table[j] = names[j] /\ j \in Slots
      BY <1>5, <2>1 DEF TableInv
    <3>2. j = i => table[i] = name
      BY <1>1
    <3> QED
      BY <1>4, <3>1, <3>2
  <2>4. mine' # 0 => table'[mine'] = MyName /\ mine' \notin renamed'
    <3>1. mine # 0 => mine \in Slots /\ table[mine] = MyName /\ mine \notin renamed
      BY <1>2, <2>1 DEF TableInv, Slots
    <3> QED
      BY <1>1, <1>4, <1>5, <3>1
  <2>5. pending' => mine' # 0
    BY <1>1, <2>1 DEF TableInv
  <2> QED
    BY <2>2, <2>3, <2>4, <2>5 DEF TableInv
<1>7. IsFiniteSet({}) /\ 1 \in Nat
  BY FS_EmptySet
<1> QED
  BY <1>1, <1>2, <1>4, <1>5, <1>6, <1>7, TellsOthers

LEMMA HearHelloKeeps ==
    ASSUME IInv, HearHello
    PROVE  IInv'
<1>1. /\ hello /\ hello' \in BOOLEAN /\ UNCHANGED <<session, me, shown, taken>>
      /\ WelcomeMe \/ WelcomeMeAgain \/ DenyMe
  BY DEF HearHello
<1>2. TypeInv /\ TableInv /\ MeInv /\ n \in Nat
  BY DEF IInv, NumberInv
<1>3. mine = 0 => phase # "Joined"
  BY <1>1, <1>2 DEF MeInv
<1>4. hello' => hello \/ phase # "Joined"
  BY <1>1
<1>5. IsFiniteSet({}) /\ 1 \in Nat
  BY FS_EmptySet
<1>6. CASE WelcomeMe
  <2> DEFINE i == Min(free(table))
             d == Datagram(welcome(table', i), n)
             count == 1 + Cardinality(occupied(table))
  <2>1. i \in Slots
    <3>1. free(table) \in SUBSET Slots /\ free(table) # {}
      BY <1>6 DEF WelcomeMe, free
    <3> QED
      BY <3>1, FirstSlot
  <2>2. /\ mine = 0 /\ mine' = i /\ pending' = TRUE /\ Seat(i, MyName)
        /\ Stamp(count, {d}, TRUE)
    BY <1>6 DEF WelcomeMe
  <2>3. count \in Nat /\ n < n + count
    <3>1. occupied(table) \in SUBSET Slots
      BY DEF occupied
    <3>2. Cardinality(occupied(table)) \in 0 .. MAX_CLIENTS
      BY <3>1, SlotsFinite
    <3> QED
      BY <1>2, <3>2
  <2>4. d.n = n /\ d.control = welcome(table', i) /\ n <= n
    BY <1>2 DEF Datagram
  <2> HIDE DEF i, d, count
  <2>5. MyName \in Names \cup {NoName} /\ mine' # 0
    BY <2>1, <2>2, MyNameIsOne DEF Slots
  <2>6. table' \in Tables /\ names' \in Tables /\ renamed' \subseteq Slots /\ TableInv'
    BY <1>2, <2>1, <2>2, <2>5, SeatKeeps
  <2>7. pending' \in BOOLEAN /\ mine' \in Slots /\ (mine' = mine \/ (mine = 0 /\ phase # "Joined"))
    BY <1>3, <2>1, <2>2
  <2>8. d.control = welcome(table', mine') \/ d.control = roster_packet(table')
    BY <2>2, <2>4
  <2> QED
    BY <1>1, <1>2, <1>4, <2>2, <2>3, <2>4, <2>6, <2>7, <2>8, TellsMe
<1>7. CASE WelcomeMeAgain
  <2> DEFINE d == Datagram(welcome(table, mine), n)
  <2>1. mine # 0 /\ pending' = TRUE /\ Stamp(1, {d}, TRUE)
        /\ UNCHANGED <<table, names, mine, renamed>>
    BY <1>7 DEF WelcomeMeAgain
  <2>2. d.n = n /\ d.control = welcome(table, mine) /\ n <= n /\ n < n + 1
    BY <1>2 DEF Datagram
  <2> HIDE DEF d
  <2>3. table' \in Tables /\ names' \in Tables /\ renamed' \subseteq Slots /\ TableInv'
        /\ mine' \in Slots /\ pending' \in BOOLEAN
    BY <1>2, <2>1 DEF TypeInv, TableInv, Slots
  <2>4. d.control = welcome(table', mine') \/ d.control = roster_packet(table')
    BY <2>1, <2>2
  <2> QED
    BY <1>1, <1>2, <1>4, <1>5, <2>1, <2>2, <2>3, <2>4, TellsMe
<1>8. CASE DenyMe
  <2> DEFINE d == Datagram(deny("RoomFull"), n)
  <2>1. mine = 0 /\ Stamp(1, {d}, FALSE) /\ UNCHANGED <<table, names, mine, pending, renamed>>
    BY <1>8 DEF DenyMe
  <2>2. IsFiniteSet({d})
    BY FS_Singleton
  <2>3. table' \in Tables /\ names' \in Tables /\ renamed' \subseteq Slots /\ TableInv'
        /\ pending' \in BOOLEAN
    BY <1>2, <2>1 DEF TypeInv, TableInv
  <2>4. \A x \in {d} : x = Datagram(deny("RoomFull"), n) /\ 1 > 0
    OBVIOUS
  <2> HIDE DEF d
  <2> QED
    BY <1>1, <1>4, <1>5, <2>1, <2>2, <2>3, <2>4, TellsOthers
<1> QED
  BY <1>1, <1>6, <1>7, <1>8

LEMMA ResendWelcomeKeeps ==
    ASSUME IInv, ResendWelcome
    PROVE  IInv'
<1> DEFINE d == Datagram(welcome(table, mine), n)
<1>1. pending /\ Stamp(1, {d}, TRUE)
      /\ UNCHANGED <<table, names, mine, pending, session, hello, me, shown, taken, renamed>>
  BY DEF ResendWelcome
<1>2. TypeInv /\ TableInv /\ n \in Nat
  BY DEF IInv, NumberInv
<1>3. d.n = n /\ d.control = welcome(table, mine) /\ n <= n /\ n < n + 1 /\ 1 \in Nat
  BY <1>2 DEF Datagram
<1> HIDE DEF d
<1>4. table' \in Tables /\ names' \in Tables /\ renamed' \subseteq Slots /\ TableInv'
      /\ mine' \in Slots /\ pending' \in BOOLEAN /\ hello' \in BOOLEAN
  BY <1>1, <1>2 DEF TypeInv, TableInv, Slots
<1>5. d.control = welcome(table', mine') \/ d.control = roster_packet(table')
  BY <1>1, <1>3
<1> QED
  BY <1>1, <1>2, <1>3, <1>4, <1>5, TellsMe

LEMMA ChatterKeeps ==
    ASSUME IInv, Chatter
    PROVE  IInv'
<1> DEFINE count == Cardinality(occupied(table))
<1>1. Stamp(count, {}, FALSE)
      /\ UNCHANGED <<table, names, mine, pending, session, hello, me, shown, taken, renamed>>
  BY DEF Chatter, Silent
<1>2. TypeInv /\ TableInv
  BY DEF IInv
<1>3. count \in Nat
  <2>1. occupied(table) \in SUBSET Slots
    BY DEF occupied
  <2> QED
    BY <2>1, SlotsFinite
<1>4. table' \in Tables /\ names' \in Tables /\ renamed' \subseteq Slots /\ TableInv'
      /\ pending' \in BOOLEAN /\ hello' \in BOOLEAN
  BY <1>1, <1>2 DEF TypeInv, TableInv
<1>5. IsFiniteSet({})
  BY FS_EmptySet
<1> HIDE DEF count
<1> QED
  BY <1>1, <1>3, <1>4, <1>5, TellsOthers

\* I am given up: nothing of mine is under way, and nothing is promised.
LEMMA MeLeftKeeps ==
    ASSUME IInv, MeLeft
    PROVE  IInv'
<1>1. /\ mine # 0 /\ Seat(mine, NoName) /\ mine' = 0 /\ pending' = FALSE
      /\ n' = n + Cardinality(occupied(table')) /\ n' <= LastNumber
      /\ net' = {} /\ hello' = FALSE
      /\ UNCHANGED <<session, me, told, shown, taken>>
  BY DEF MeLeft, Vacate
<1>2. TypeInv /\ TableInv /\ NumberInv /\ MeInv
  BY DEF IInv
<1>3. mine \in Slots /\ NoName \in Names \cup {NoName}
  BY <1>1, <1>2 DEF TypeInv, Slots
<1>4. table' \in Tables /\ names' \in Tables /\ renamed' \subseteq Slots /\ TableInv'
  BY <1>1, <1>2, <1>3, SeatKeeps
<1>5. /\ session' = session /\ phase' = phase /\ own' = own /\ last' = last /\ roster' = roster
      /\ told' = told /\ shown' = shown /\ taken' = taken
  BY <1>1 DEF me
<1>6. TypeInv'
  <2>1. IsFiniteSet({}) /\ Cardinality({}) = 0
    BY FS_EmptySet
  <2>2. IsFiniteSet(net') /\ Cardinality(net') <= MaxNet
    BY <1>1, <2>1, NoSlot
  <2>3. mine' \in 0 .. MAX_CLIENTS /\ pending' \in BOOLEAN /\ hello' \in BOOLEAN
    BY <1>1, NoSlot, Zenon
  <2>4. session' \in 1 .. MaxRestarts + 1
    BY <1>2, <1>5 DEF TypeInv
  <2>5. phase' \in {"Joining", "Joined", "Failed"} /\ own' \in 0 .. MAX_CLIENTS
        /\ Len(roster') \in 0 .. MAX_CLIENTS + 1
    BY <1>2, <1>5 DEF TypeInv
  <2> QED
    BY <1>4, <2>2, <2>3, <2>4, <2>5 DEF TypeInv
<1>7. NumberInv'
  <2>1. PICK c \in Nat : c = Cardinality(occupied(table'))
    <3>1. occupied(table') \in SUBSET Slots
      BY DEF occupied
    <3> QED
      BY <3>1, SlotsFinite
  <2>2. n \in Nat /\ FirstNumber \in Nat /\ FirstNumber <= n /\ told < n /\ shown < n
        /\ {told, shown, taken} \subseteq Numbers \cup {None}
        /\ last = IF taken = None THEN None ELSE Wire(taken)
    BY <1>2 DEF NumberInv, FirstNumber, Seqs
  <2>3. FirstNumber' = FirstNumber /\ LastNumber' = LastNumber
    BY <1>5 DEF FirstNumber, LastNumber
  <2>4. n' \in Nat /\ n <= n'
    BY <1>1, <2>1, <2>2
  <2>5. told < n' /\ shown < n' /\ FirstNumber <= n'
    BY <2>2, <2>4 DEF Numbers, None
  <2> QED
    BY <1>1, <1>5, <2>2, <2>3, <2>4, <2>5 DEF NumberInv
<1>8. NetInv' /\ ShownInv'
  BY <1>1 DEF NetInv, Mail, ShownInv
<1>9. MeInv'
  BY <1>1, <1>2, <1>5 DEF MeInv
<1> QED
  BY <1>4, <1>6, <1>7, <1>8, <1>9 DEF IInv

LEMMA HearMeKeeps ==
    ASSUME IInv, HearMe
    PROVE  IInv'
<1>1. pending' = FALSE
      /\ UNCHANGED <<table, names, mine, n, session, net, hello, me, told, shown, taken, renamed>>
  BY DEF HearMe, history
<1>2. TypeInv'
  BY <1>1 DEF IInv, TypeInv, me
<1>3. NumberInv'
  BY <1>1 DEF IInv, NumberInv, FirstNumber, LastNumber, me
<1>4. TableInv'
  BY <1>1 DEF IInv, TableInv
<1>5. NetInv'
  BY <1>1 DEF IInv, NetInv, FirstNumber
<1>6. MeInv' /\ ShownInv'
  BY <1>1 DEF IInv, MeInv, ShownInv, me
<1> QED
  BY <1>2, <1>3, <1>4, <1>5, <1>6 DEF IInv

\* The host starts again: nothing of the old process is under way.
LEMMA HostRestartKeeps ==
    ASSUME IInv, HostRestart
    PROVE  IInv'
<1>1. /\ session <= MaxRestarts /\ session' = session + 1
      /\ table' = [i \in Slots |-> NoName] /\ names' = table' /\ renamed' = {}
      /\ mine' = 0 /\ pending' = FALSE /\ n' = 0 /\ net' = {} /\ hello' = FALSE
      /\ told' = None /\ shown' = None
  BY DEF HostRestart
<1>2. /\ phase' = phase /\ own' = own /\ last' = last /\ roster' = roster /\ taken' = taken
  BY DEF HostRestart, me
<1>3. TypeInv /\ NumberInv /\ MeInv
  BY DEF IInv
<1>4. session' \in 1 .. MaxRestarts + 1 /\ session' # 1
  <2>1. session \in 1 .. MaxRestarts + 1 /\ MaxRestarts \in Nat
    BY <1>3 DEF TypeInv
  <2> QED
    BY <1>1, <2>1
<1>5. TypeInv'
  <2>1. IsFiniteSet({}) /\ Cardinality({}) = 0
    BY FS_EmptySet
  <2>2. IsFiniteSet(net') /\ Cardinality(net') <= MaxNet
    BY <1>1, <2>1, NoSlot
  <2>3. table' \in Tables /\ names' \in Tables
    BY <1>1 DEF Tables
  <2>4. mine' \in 0 .. MAX_CLIENTS /\ pending' \in BOOLEAN /\ hello' \in BOOLEAN
        /\ renamed' \subseteq Slots
    BY <1>1, NoSlot, Zenon
  <2>5. phase' \in {"Joining", "Joined", "Failed"} /\ own' \in 0 .. MAX_CLIENTS
        /\ Len(roster') \in 0 .. MAX_CLIENTS + 1
    BY <1>2, <1>3 DEF TypeInv
  <2> QED
    BY <1>4, <2>2, <2>3, <2>4, <2>5 DEF TypeInv
<1>6. NumberInv'
  <2>1. FirstNumber' = 0 /\ LastNumber' = MaxAfter /\ MaxAfter \in Nat
    BY <1>4 DEF FirstNumber, LastNumber
  <2>2. taken \in Numbers \cup {None} /\ last = IF taken = None THEN None ELSE Wire(taken)
    BY <1>3 DEF NumberInv
  <2>3. None < 0
    BY DEF None
  <2>4. n' \in Nat /\ FirstNumber' <= n' /\ n' <= LastNumber' /\ told' < n' /\ shown' < n'
    BY <1>1, <2>1, <2>3
  <2>5. {told', shown', taken'} \subseteq Numbers \cup {None}
    BY <1>1, <1>2, <2>2
  <2> QED
    BY <1>1, <1>2, <2>2, <2>4, <2>5 DEF NumberInv
<1>7. TableInv' /\ NetInv' /\ ShownInv'
  BY <1>1 DEF TableInv, NetInv, Mail, ShownInv
<1>8. MeInv'
  BY <1>1, <1>2, <1>3 DEF MeInv
<1> QED
  BY <1>5, <1>6, <1>7, <1>8 DEF IInv

-----------------------------------------------------------------------------
(* My steps.                                                               *)

\* Datagrams are lost.
LEMMA MailIsLost ==
    ASSUME TypeInv, net' \subseteq net
    PROVE  IsFiniteSet(net') /\ Cardinality(net') <= MaxNet
<1>1. IsFiniteSet(net) /\ Cardinality(net) \in Nat /\ Cardinality(net) <= MaxNet
      /\ MaxNet \in Int
  BY FS_CardinalityType DEF TypeInv
<1>2. IsFiniteSet(net') /\ Cardinality(net') <= Cardinality(net)
  BY <1>1, FS_Subset
<1>3. Cardinality(net') \in Nat
  BY <1>2, FS_CardinalityType
<1> QED
  BY <1>1, <1>2, <1>3

\* The host does nothing, and I show what I showed, or hear what is for me.
LEMMA HostRests ==
    ASSUME IInv, UNCHANGED <<host, told, renamed>>, net' \subseteq net,
           hello' \in BOOLEAN, phase' \in {"Joining", "Joined", "Failed"},
           own' \in 0 .. MAX_CLIENTS, Len(roster') \in 0 .. MAX_CLIENTS + 1,
           shown' \in Numbers \cup {None}, shown' < n,
           taken' \in Numbers \cup {None}, last' = IF taken' = None THEN None ELSE Wire(taken'),
           phase' = "Joined" /\ mine # 0 /\ taken' # None
               => FirstNumber <= taken' /\ taken' < n,
           MeInv', ShownInv'
    PROVE  IInv'
<1>1. /\ table' = table /\ names' = names /\ mine' = mine /\ pending' = pending /\ n' = n
      /\ session' = session /\ told' = told /\ renamed' = renamed
  BY DEF host
<1>2. TypeInv /\ NumberInv /\ TableInv /\ NetInv
  BY DEF IInv
<1>3. TypeInv'
  BY <1>1, <1>2, MailIsLost DEF TypeInv
<1>4. FirstNumber' = FirstNumber /\ LastNumber' = LastNumber
  BY <1>1 DEF FirstNumber, LastNumber
<1>5. NumberInv'
  <2>1. n \in Nat /\ FirstNumber <= n /\ n <= LastNumber /\ told \in Numbers \cup {None}
        /\ told < n
    BY <1>2 DEF NumberInv
  <2> QED
    BY <1>1, <1>4, <2>1 DEF NumberInv
<1>6. TableInv'
  BY <1>1, <1>2 DEF TableInv
<1>7. NetInv'
  BY <1>1, <1>2, <1>4 DEF NetInv, Mail
<1> QED
  BY <1>3, <1>5, <1>6, <1>7 DEF IInv

\* I take myself for out of the room.
LEMMA MeAsks ==
    ASSUME IInv, UNCHANGED <<host, told, renamed>>, net' \subseteq net,
           hello' \in BOOLEAN, phase' \in {"Joining", "Failed"},
           own' \in 0 .. MAX_CLIENTS, Len(roster') \in 0 .. MAX_CLIENTS + 1,
           (shown' = shown /\ roster' = roster) \/ shown' = None,
           (taken' = taken /\ last' = last) \/ (taken' = None /\ last' = None)
    PROVE  IInv'
<1>1. NumberInv /\ ShownInv
  BY DEF IInv
<1>2. n \in Nat /\ {shown, taken} \subseteq Numbers \cup {None} /\ shown < n
      /\ last = IF taken = None THEN None ELSE Wire(taken)
  BY <1>1 DEF NumberInv
<1>3. shown' \in Numbers \cup {None} /\ shown' < n
  BY <1>2 DEF None
<1>4. taken' \in Numbers \cup {None} /\ last' = IF taken' = None THEN None ELSE Wire(taken')
  BY <1>2
<1>5. phase' # "Joined"
  OBVIOUS
<1>6. MeInv'
  BY <1>5 DEF MeInv
<1>7. ShownInv'
  BY <1>1 DEF ShownInv, host
<1> QED
  BY <1>3, <1>4, <1>5, <1>6, <1>7, HostRests

LEMMA SendHelloKeeps ==
    ASSUME IInv, SendHello
    PROVE  IInv'
<1>1. TypeInv
  BY DEF IInv
<1> QED
  BY <1>1, MeAsks DEF SendHello, me, history, TypeInv

LEMMA RejoinKeeps ==
    ASSUME IInv, Rejoin
    PROVE  IInv'
<1>1. TypeInv
  BY DEF IInv
<1> QED
  BY <1>1, MeAsks DEF Rejoin, history, TypeInv

LEMMA RestartKeeps ==
    ASSUME IInv, Restart
    PROVE  IInv'
<1>1. phase' = "Joining" /\ own' = 0 /\ last' = None /\ roster' = <<>> /\ hello' = TRUE
      /\ shown' = None /\ taken' = None /\ UNCHANGED <<host, net, told, renamed>>
  BY DEF Restart
<1>2. own' \in 0 .. MAX_CLIENTS /\ Len(roster') \in 0 .. MAX_CLIENTS + 1
  <2>1. Len(<<>>) = 0 /\ 0 \in 0 .. MAX_CLIENTS + 1
    OBVIOUS
  <2> QED
    BY <1>1, <2>1, NoSlot
<1> QED
  BY <1>1, <1>2, MeAsks

\* What is under way bears a number of this host process, and, if it has a roster,
\* is for me, who am in it.
LEMMA MailIsMine ==
    ASSUME IInv, NEW m \in net
    PROVE  /\ Letter(m, mine, FirstNumber, n)
           /\ m.n = told => Current(m, TableRows(names), renamed)
           /\ m.n \in Numbers /\ m.n \in Nat /\ m.n < n /\ FirstNumber <= m.n
<1>1. Letter(m, mine, FirstNumber, n) /\ (m.n = told => Current(m, TableRows(names), renamed))
  BY DEF IInv, NetInv, Mail
<1>2. m.n \in Nat /\ m.n < n /\ FirstNumber <= m.n
  BY <1>1 DEF Letter
<1>3. m.n <= LastNumber
  BY <1>2 DEF IInv, NumberInv, LastNumber, Seqs
<1> QED
  BY <1>1, <1>2, <1>3, NumbersUsed

\* I show the list that a packet brings.
LEMMA ListIsShown ==
    ASSUME IInv, UNCHANGED <<host, told, renamed, hello>>, net' \subseteq net,
           NEW m \in net, Bears(m), roster' = cut_names(players_of(m)), shown' = m.n,
           phase' \in {"Joining", "Joined", "Failed"}, own' \in 0 .. MAX_CLIENTS,
           phase' = "Joined" => own' = mine,
           \/ taken' = m.n /\ last' = Wire(m.n)
           \/ taken' = None /\ last' = None
    PROVE  IInv'
<1>1. Letter(m, mine, FirstNumber, n) /\ (m.n = told => Current(m, TableRows(names), renamed))
      /\ m.n \in Numbers /\ m.n \in Nat /\ m.n < n /\ FirstNumber <= m.n
  BY MailIsMine
<1>2. mine # 0 /\ players_of(m) \in Lists /\ ListedOnce(Rows(players_of(m)), mine, MyName)
  BY <1>1 DEF Letter
<1>3. /\ Rows(roster') = Cut(Rows(players_of(m)))
      /\ Len(roster') \in 0 .. MAX_CLIENTS + 1
  BY <1>2, ListArrives
<1>4. mine' = mine /\ told' = told /\ names' = names /\ renamed' = renamed /\ hello' = hello
      /\ n' = n
  BY DEF host
<1>5. MeInv'
  <2>1. ListedOnce(Rows(roster'), mine, kept(MyName))
    BY <1>2, <1>3, CutLists
  <2> QED
    BY <1>2, <1>4, <2>1 DEF MeInv
<1>6. ShownInv'
  <2> SUFFICES ASSUME told' # None, shown' = told'
               PROVE  Fresh(Rows(roster'), renamed') = Cut(Fresh(TableRows(names'), renamed'))
    BY DEF ShownInv
  <2>1. Fresh(Rows(players_of(m)), renamed) = Fresh(TableRows(names), renamed)
    BY <1>1, <1>4 DEF Current
  <2>2. Fresh(Rows(roster'), renamed) = Cut(Fresh(Rows(players_of(m)), renamed))
    BY <1>3, CutFresh
  <2> QED
    BY <1>4, <2>1, <2>2
<1>7. m.n # None
  BY <1>1 DEF None
<1>8. taken' \in Numbers \cup {None} /\ last' = (IF taken' = None THEN None ELSE Wire(taken'))
  BY <1>1, <1>7
<1>9. phase' = "Joined" /\ mine # 0 /\ taken' # None => FirstNumber <= taken' /\ taken' < n
  BY <1>1
<1>10. shown' \in Numbers \cup {None} /\ shown' < n /\ hello' \in BOOLEAN
  BY <1>1, <1>4 DEF IInv, TypeInv
<1> QED
  BY <1>3, <1>5, <1>6, <1>8, <1>9, <1>10, HostRests

\* What I do not take changes nothing.
LEMMA ListIsKept ==
    ASSUME IInv, UNCHANGED <<host, told, renamed, hello, me, shown, taken>>, net' \subseteq net
    PROVE  IInv'
<1>1. /\ phase' = phase /\ own' = own /\ last' = last /\ roster' = roster
      /\ shown' = shown /\ taken' = taken /\ hello' = hello
      /\ mine' = mine /\ told' = told /\ names' = names /\ renamed' = renamed
  BY DEF me, host
<1>2. TypeInv /\ NumberInv /\ MeInv /\ ShownInv
  BY DEF IInv
<1>3. MeInv' /\ ShownInv'
  BY <1>1, <1>2 DEF MeInv, ShownInv
<1>4. /\ hello' \in BOOLEAN /\ phase' \in {"Joining", "Joined", "Failed"}
      /\ own' \in 0 .. MAX_CLIENTS /\ Len(roster') \in 0 .. MAX_CLIENTS + 1
  BY <1>1, <1>2 DEF TypeInv
<1>5. /\ shown' \in Numbers \cup {None} /\ shown' < n
      /\ taken' \in Numbers \cup {None} /\ last' = IF taken' = None THEN None ELSE Wire(taken')
  BY <1>1, <1>2 DEF NumberInv
<1>6. phase' = "Joined" /\ mine # 0 /\ taken' # None => FirstNumber <= taken' /\ taken' < n
  BY <1>1, <1>2 DEF NumberInv
<1> QED
  BY <1>3, <1>4, <1>5, <1>6, HostRests

LEMMA ReceiveKeeps ==
    ASSUME IInv, NEW m \in net, Receive(m)
    PROVE  IInv'
<1>1. /\ UNCHANGED <<host, hello, told, renamed>> /\ net' \subseteq net
      /\ HearWelcome(m) \/ HearRoster(m) \/ HearDeny(m)
  BY DEF Receive
<1>2. TypeInv /\ MeInv /\ Letter(m, mine, FirstNumber, n)
  BY MailIsMine DEF IInv
<1>3. CASE HearWelcome(m)
  <2>1. m.control.type = "Welcome"
    BY <1>3 DEF HearWelcome
  <2>2. CASE phase = "Joining"
    <3>1. /\ phase' = "Joined" /\ own' = m.control.assigned_id /\ last' = None /\ taken' = None
          /\ roster' = cut_names(m.control.roster) /\ shown' = m.n
      BY <1>3, <2>2 DEF HearWelcome, forget
    <3>2. Bears(m) /\ players_of(m) = m.control.roster /\ m.control.assigned_id = mine
      BY <1>2, <2>1 DEF Bears, players_of, Letter
    <3>3. own' = mine /\ own' \in 0 .. MAX_CLIENTS
      BY <1>2, <3>1, <3>2 DEF TypeInv
    <3> QED
      BY <1>1, <3>1, <3>2, <3>3, ListIsShown
  <2>3. CASE phase # "Joining"
    BY <1>1, <1>3, <2>3, ListIsKept DEF HearWelcome
  <2> QED
    BY <2>2, <2>3
<1>4. CASE HearRoster(m)
  <2>1. m.control.type = "Roster" /\ UNCHANGED <<phase, own>>
    BY <1>4 DEF HearRoster
  <2>2. CASE accept_control_seq(last, Wire(m.n))
    <3>1. /\ last' = Wire(m.n) /\ taken' = m.n
          /\ roster' = cut_names(m.control.players) /\ shown' = m.n
      BY <1>4, <2>2 DEF HearRoster
    <3>2. Bears(m) /\ players_of(m) = m.control.players
      BY <2>1 DEF Bears, players_of
    <3>3. phase' \in {"Joining", "Joined", "Failed"} /\ own' \in 0 .. MAX_CLIENTS
      BY <1>2, <2>1 DEF TypeInv
    <3>4. phase' = "Joined" => own' = mine
      BY <1>2, <2>1, <3>2 DEF MeInv, Letter
    <3> QED
      BY <1>1, <3>1, <3>2, <3>3, <3>4, ListIsShown
  <2>3. CASE ~accept_control_seq(last, Wire(m.n))
    <3>1. UNCHANGED <<last, taken, roster, shown, phase, own>>
      BY <1>4, <2>3 DEF HearRoster
    <3> QED
      BY <1>1, <3>1, ListIsKept DEF me
  <2> QED
    BY <2>2, <2>3
<1>5. CASE HearDeny(m)
  <2>1. phase' = (IF phase = "Joining" THEN "Failed" ELSE phase)
        /\ UNCHANGED <<own, last, roster, shown, taken>>
    BY <1>5 DEF HearDeny
  <2>2. CASE phase = "Joining"
    <3>1. /\ hello' \in BOOLEAN /\ phase' \in {"Joining", "Failed"}
          /\ own' \in 0 .. MAX_CLIENTS /\ Len(roster') \in 0 .. MAX_CLIENTS + 1
      BY <1>1, <1>2, <2>1, <2>2 DEF TypeInv
    <3> QED
      BY <1>1, <2>1, <3>1, MeAsks
  <2>3. CASE phase # "Joining"
    BY <1>1, <2>1, <2>3, ListIsKept DEF me
  <2> QED
    BY <2>2, <2>3
<1> QED
  BY <1>1, <1>3, <1>4, <1>5

-----------------------------------------------------------------------------
(* What always holds.                                                      *)

LEMMA InitHolds == Init => IInv
<1> SUFFICES ASSUME Init PROVE IInv
  OBVIOUS
<1>1. /\ table = [i \in Slots |-> NoName] /\ names = table
      /\ mine = 0 /\ pending = FALSE /\ n = First /\ session = 1
      /\ net = {} /\ hello = TRUE
      /\ phase = "Joining" /\ own = 0 /\ last = None /\ roster = <<>>
      /\ told = None /\ shown = None /\ taken = None /\ renamed = {}
  BY DEF Init
<1>2. First \in Nat /\ MaxNumbers \in Nat /\ MaxRestarts \in Nat
  BY DEF Seqs
<1>3. TypeInv
  <2>1. table \in Tables /\ names \in Tables /\ renamed \subseteq Slots
    BY <1>1 DEF Tables
  <2>2. IsFiniteSet(net) /\ Cardinality(net) <= MaxNet
    <3>1. IsFiniteSet({}) /\ Cardinality({}) = 0
      BY FS_EmptySet
    <3> QED
      BY <1>1, <3>1, NoSlot
  <2>3. Len(roster) \in 0 .. MAX_CLIENTS + 1
    <3>1. Len(<<>>) = 0 /\ 0 \in 0 .. MAX_CLIENTS + 1
      OBVIOUS
    <3> QED
      BY <1>1, <3>1
  <2>4. session \in 1 .. MaxRestarts + 1
    BY <1>1, <1>2
  <2>5. mine \in 0 .. MAX_CLIENTS /\ own \in 0 .. MAX_CLIENTS
    BY <1>1, NoSlot
  <2>6. pending \in BOOLEAN /\ hello \in BOOLEAN /\ phase \in {"Joining", "Joined", "Failed"}
    BY <1>1
  <2> QED
    BY <2>1, <2>2, <2>3, <2>4, <2>5, <2>6 DEF TypeInv
<1>4. NumberInv
  <2>1. None < First
    BY <1>2 DEF None
  <2>2. FirstNumber = First /\ LastNumber = First + MaxNumbers
    BY <1>1 DEF FirstNumber, LastNumber
  <2>3. n \in Nat /\ FirstNumber <= n /\ n <= LastNumber /\ told < n /\ shown < n
    BY <1>1, <1>2, <2>1, <2>2
  <2> QED
    BY <1>1, <2>3 DEF NumberInv
<1>5. TableInv /\ NetInv /\ MeInv /\ ShownInv
  BY <1>1 DEF TableInv, NetInv, Mail, MeInv, ShownInv
<1> QED
  BY <1>3, <1>4, <1>5 DEF IInv

LEMMA StepKeeps == IInv /\ [Next]_vars => IInv'
<1> SUFFICES ASSUME IInv, [Next]_vars PROVE IInv'
  OBVIOUS
<1>1. CASE HearHello
  BY <1>1, HearHelloKeeps
<1>2. CASE MeLeft
  BY <1>2, MeLeftKeeps
<1>3. CASE HearMe
  BY <1>3, HearMeKeeps
<1>4. CASE ResendWelcome
  BY <1>4, ResendWelcomeKeeps
<1>5. CASE Chatter
  BY <1>5, ChatterKeeps
<1>6. CASE HostRestart
  BY <1>6, HostRestartKeeps
<1>7. ASSUME NEW name \in OtherNames, OtherJoins(name) PROVE IInv'
  BY <1>7, OtherJoinsKeeps
<1>8. ASSUME NEW i \in Slots, OtherLeaves(i) PROVE IInv'
  BY <1>8, OtherLeavesKeeps
<1>9. ASSUME NEW i \in Slots, NEW name \in OtherNames, OtherAgain(i, name) PROVE IInv'
  BY <1>9, OtherAgainKeeps
<1>10. CASE SendHello
  BY <1>10, SendHelloKeeps
<1>11. CASE Rejoin
  BY <1>11, RejoinKeeps
<1>12. CASE Restart
  BY <1>12, RestartKeeps
<1>13. ASSUME NEW m \in net, Receive(m) PROVE IInv'
  BY <1>13, ReceiveKeeps
<1>14. CASE UNCHANGED vars
  BY <1>14, ListIsKept DEF vars, history
<1> QED
  BY <1>1, <1>2, <1>3, <1>4, <1>5, <1>6, <1>7, <1>8, <1>9, <1>10, <1>11, <1>12, <1>13,
     <1>14 DEF Next

\* The inductive invariant: what is under way to a client is from this host process,
\* lists the client once, and the last list he was sent is the host's own.
THEOREM Invariant == Spec => []IInv
<1> QED
  BY InitHolds, StepKeeps, PTL DEF Spec

\* The host's table, the datagrams and the client's list always have their types,
\* and no more rows are shown than a full room has (handshake.rs 118-124).
THEOREM TypeCorrect == Spec => []TypeOK
<1>1. IInv => TypeOK
  <2> SUFFICES ASSUME IInv PROVE TypeOK
    OBVIOUS
  <2>1. TypeInv /\ NumberInv
    BY DEF IInv
  <2>2. table \in [Slots -> Names \cup {NoName}] /\ names \in [Slots -> Names \cup {NoName}]
    BY <2>1 DEF TypeInv, Tables
  <2>3. n \in Numbers /\ {told, shown, taken} \subseteq Numbers \cup {None}
    BY <2>1, NumbersUsed DEF NumberInv
  <2>4. {d.n : d \in net} \subseteq Numbers
    <3>1. \A d \in net : d.n \in Numbers
      BY MailIsMine
    <3> QED
      BY <3>1
  <2>5. last \in Seqs \cup {None}
    <3>1. taken # None => taken \in Int
      BY <2>3 DEF Numbers
    <3> QED
      BY <2>1, <3>1, SeqTypes DEF NumberInv
  <2>6. Len(roster) <= MAX_CLIENTS + 1
    BY <2>1 DEF TypeInv
  <2> QED
    BY <2>1, <2>2, <2>3, <2>4, <2>5, <2>6 DEF TypeOK, TypeInv
<1> QED
  BY <1>1, Invariant, PTL

\* The rows of my screen are those of my list.
LEMMA RowsAreShown ==
    /\ Rows(roster) = {[id |-> r.id, name |-> r.name] : r \in client_rows}
    /\ \A r \in client_rows : r.you = (r.id = own)
<1> DEFINE row(k) == [id |-> roster[k].id, name |-> roster[k].name, you |-> roster[k].id = own]
           R == {[id |-> r.id, name |-> r.name] : r \in client_rows}
<1>1. client_rows = {row(k) : k \in DOMAIN roster}
  BY DEF client_rows
<1>2. \A k \in DOMAIN roster : /\ row(k).id = roster[k].id /\ row(k).name = roster[k].name
                             /\ row(k).you = (roster[k].id = own)
  OBVIOUS
<1>3. ASSUME NEW x \in Rows(roster) PROVE x \in R
  <2>1. PICK k \in DOMAIN roster : x = [id |-> roster[k].id, name |-> roster[k].name]
    BY DEF Rows
  <2>2. row(k) \in client_rows
    BY <1>1
  <2> QED
    BY <1>2, <2>1, <2>2
<1>4. ASSUME NEW x \in R PROVE x \in Rows(roster)
  <2>1. PICK r \in client_rows : x = [id |-> r.id, name |-> r.name]
    OBVIOUS
  <2>2. PICK k \in DOMAIN roster : r = row(k)
    BY <1>1
  <2> QED
    BY <1>2, <2>1, <2>2 DEF Rows
<1>5. \A r \in client_rows : r.you = (r.id = own)
  <2> HIDE DEF row
  <2> SUFFICES ASSUME NEW r \in client_rows PROVE r.you = (r.id = own)
    OBVIOUS
  <2>1. PICK k \in DOMAIN roster : r = row(k)
    BY <1>1
  <2> QED
    BY <1>2, <2>1
<1> QED
  BY <1>3, <1>4, <1>5, Zenon

\* A client who is in the room finds himself on his screen, once, under his own
\* name, whatever lists were lost, repeated or overtaken on the way, and whoever
\* had his slot before (control.rs 626-637).
THEOREM FindsHimself == Spec => []OneRowIsMe
<1>1. IInv => OneRowIsMe
  <2> SUFFICES ASSUME IInv, phase = "Joined"
               PROVE  {r.name : r \in {x \in client_rows : x.you}} = {kept(MyName)}
    BY DEF OneRowIsMe
  <2>1. ListedOnce(Rows(roster), own, kept(MyName))
    BY DEF IInv, MeInv
  <2>2. ASSUME NEW r \in client_rows, r.you PROVE r.name = kept(MyName)
    <3>1. PICK q \in Rows(roster) : q = [id |-> r.id, name |-> r.name]
      BY RowsAreShown
    <3> QED
      BY <2>1, <2>2, <3>1, RowsAreShown DEF ListedOnce
  <2>3. \E r \in client_rows : r.you /\ r.name = kept(MyName)
    <3>1. PICK r \in client_rows : [id |-> r.id, name |-> r.name] = [id |-> own, name |-> kept(MyName)]
      BY <2>1, RowsAreShown DEF ListedOnce
    <3> QED
      BY <3>1, RowsAreShown
  <2> QED
    BY <2>2, <2>3
<1> QED
  BY <1>1, Invariant, PTL

\* Who shows the last roster that was sent to him has the players of the host's
\* screen on his, but for those who changed their name (handshake.rs 393-404,
\* 503-505).
THEOREM SeesTheRoom == Spec => []SameRoom
<1>1. IInv => SameRoom
  <2> SUFFICES ASSUME IInv, phase = "Joined", own = mine, told # None, shown = told
               PROVE  {[id |-> r.id, name |-> r.name] : r \in Fresh(client_rows, renamed)}
                        = {[r EXCEPT !.name = kept(@)] : r \in Fresh(host_rows, renamed)}
    BY DEF SameRoom, Fresh
  <2>1. Fresh(Rows(roster), renamed) = Cut(Fresh(TableRows(names), renamed))
    BY DEF IInv, MeInv, ShownInv
  <2>2. {[id |-> r.id, name |-> r.name] : r \in Fresh(client_rows, renamed)}
          = Fresh(Rows(roster), renamed)
    BY RowsAreShown DEF Fresh
  <2>3. host_rows = TableRows(names)
    BY DEF host_rows, TableRows
  <2>4. \A r \in host_rows : [r EXCEPT !.name = kept(@)] = [id |-> r.id, name |-> kept(r.name)]
    BY DEF host_rows
  <2>5. {[r EXCEPT !.name = kept(@)] : r \in Fresh(host_rows, renamed)}
          = Cut(Fresh(host_rows, renamed))
    BY <2>4 DEF Cut, Fresh
  <2> QED
    BY <2>1, <2>2, <2>3, <2>5
<1> QED
  BY <1>1, Invariant, PTL

\* A joined client takes a ROSTER exactly if it is newer than the last it took,
\* across the end of the sequence numbers and the restart of the host
\* (control.rs 451-457, 529-533).
THEOREM TakesTheNews == Spec => NewsIsTaken
<1>1. IInv /\ [Next]_vars =>
        [\A m \in net :
           phase = "Joined" /\ m.control.type = "Roster" /\ Receive(m)
           => taken' = IF taken = None \/ m.n > taken THEN m.n ELSE taken]_vars
  <2> SUFFICES ASSUME IInv, NEW m \in net, phase = "Joined", m.control.type = "Roster", Receive(m)
               PROVE  taken' = IF taken = None \/ m.n > taken THEN m.n ELSE taken
    OBVIOUS
  <2>1. HearRoster(m)
    BY DEF Receive, HearWelcome, HearDeny
  <2>2. Letter(m, mine, FirstNumber, n) /\ m.n \in Nat /\ m.n < n /\ FirstNumber <= m.n
    BY MailIsMine
  <2>3. mine # 0
    BY <2>2 DEF Letter, Bears
  <2>4. NumberInv
    BY DEF IInv
  <2>5. CASE taken = None
    BY <2>1, <2>4, <2>5 DEF HearRoster, accept_control_seq, NumberInv
  <2>6. CASE taken # None
    <3>1. /\ taken \in Int /\ FirstNumber <= taken /\ taken < n /\ n <= LastNumber
          /\ last = Wire(taken) /\ last # None /\ n \in Nat
      <4>1. taken \in Int
        BY <2>4, <2>6 DEF NumberInv, Numbers
      <4>2. Wire(taken) # None
        BY <4>1, SeqTypes DEF Seqs, None
      <4> QED
        BY <2>3, <2>4, <2>6, <4>1, <4>2 DEF NumberInv
    <3>2. LastNumber - FirstNumber < Half /\ FirstNumber \in Nat /\ LastNumber \in Nat /\ Half \in Nat
      BY DEF LastNumber, FirstNumber, Seqs
    <3>3. m.n - taken < Half /\ taken - m.n < Half
      BY <2>2, <3>1, <3>2
    <3>4. newer_than(Wire(m.n), Wire(taken)) <=> m.n > taken
      BY <2>2, <3>1, <3>3, DiffIsDistance
    <3> QED
      BY <2>1, <2>6, <3>1, <3>4 DEF HearRoster, accept_control_seq
  <2> QED
    BY <2>5, <2>6
<1> QED
  BY <1>1, Invariant, PTL DEF Spec, NewsIsTaken

-----------------------------------------------------------------------------
(* The datagrams, byte by byte.                                            *)

\* What is written fits its fields: a sequence number and a session are u16s.
NumbersFit == SeqSpace <= 65536 /\ MaxRestarts < 65535

\* What a packet is made of, field by field.
LEMMA MessageOf ==
    ASSUME NEW c, NEW type \in ControlTypes, c.type = type, NEW count \in Nat, FieldsAre(type, count),
           c = [x \in DOMAIN c |-> c[x]],
           DOMAIN c = {"type"} \cup {fields(type)[i][1] : i \in 1 .. count},
           \A i \in 1 .. count : Fits(fields(type)[i][2], c[fields(type)[i][1]])
    PROVE  Message(c)
<1>1. DOMAIN fields(type) = 1 .. count
  BY Zenon DEF FieldsAre
<1>2. /\ c.type \in ControlTypes
      /\ \A i \in DOMAIN fields(c.type) :
            Fits(fields(c.type)[i][2], c[fields(c.type)[i][1]])
  BY <1>1, Zenon
<1>3. DOMAIN c = {"type"} \cup {fields(c.type)[i][1] : i \in DOMAIN fields(c.type)}
  <2>1. {fields(c.type)[i][1] : i \in DOMAIN fields(c.type)} = {fields(type)[i][1] : i \in 1 .. count}
    BY <1>1
  <2> QED
    BY ONLY <2>1, DOMAIN c = {"type"} \cup {fields(type)[i][1] : i \in 1 .. count}
<1> QED
  BY <1>2, <1>3, Zenon DEF Message

\* The lists that the host makes can be written.
LEMMA ListsFit == \A players \in Lists : Fits("players", players)
<1> SUFFICES ASSUME NEW players \in Lists PROVE players \in Table
  BY Zenon DEF Fits
<1>1. Players \subseteq Row
  <2> SUFFICES ASSUME NEW x \in Players PROVE x \in Row
    OBVIOUS
  <2>1. x.id \in 0 .. MAX_CLIENTS /\ x.name \in Seq(1 .. 4) /\ x = [id |-> x.id, name |-> x.name]
    BY DEF Players, PlayerNames
  <2>2. x.id \in U16
    <3>1. PICK k \in 0 .. MAX_CLIENTS : k = x.id
      BY <2>1
    <3>2. k \in U16
      BY DEF U16
    <3> QED
      BY <3>1, <3>2
  <2> QED
    BY <2>1, <2>2, Zenon DEF Row
<1>2. players \in Seq(Row) /\ Len(players) <= MAX_CLIENTS + 1
  BY <1>1 DEF Lists
<1> QED
  BY <1>2 DEF Table

\* A packet with no field or one.
LEMMA BareMessage ==
    ASSUME NEW type \in {"Keepalive", "Bye"}
    PROVE  Message([type |-> type])
<1>1. type \in ControlTypes /\ FieldsAre(type, 0) /\ 0 \in Nat
  BY FieldsNone DEF ControlTypes
<1> DEFINE c == [type |-> type]
<1>2. c.type = type /\ c = [x \in DOMAIN c |-> c[x]] /\ DOMAIN c = {"type"}
  OBVIOUS
<1> HIDE DEF c
<1>3. \A i \in 1 .. 0 : FALSE
  OBVIOUS
<1>4. DOMAIN c = {"type"} \cup {fields(type)[i][1] : i \in 1 .. 0}
  BY <1>2, <1>3, Zenon
<1>5. Message(c)
  BY <1>1, <1>2, <1>3, <1>4, MessageOf, Zenon
<1> QED
  BY <1>5 DEF c

\* Each packet that is sent is one that can be written.
LEMMA DenyMessage == Message(deny("RoomFull"))
<1> DEFINE c == deny("RoomFull")
           type == "Deny"
<1>1. type \in ControlTypes /\ FieldsAre(type, 1) /\ 1 \in Nat
  BY FieldsOne DEF ControlTypes
<1>2. /\ c.type = type /\ c = [x \in DOMAIN c |-> c[x]] /\ DOMAIN c = {"type", "reason"}
      /\ c["reason"] = "RoomFull"
  BY DEF deny
<1>3. fields(type)[1][1] = "reason" /\ fields(type)[1][2] = "reason"
  BY DEF fields
<1>4. Fits("reason", "RoomFull")
  BY DEF Fits, DenyReason
<1> HIDE DEF c, type
<1>5. \A i \in 1 .. 1 : i = 1
  OBVIOUS
<1>6. 1 \in 1 .. 1
  OBVIOUS
<1>7. DOMAIN c = {"type"} \cup {fields(type)[i][1] : i \in 1 .. 1}
  BY <1>2, <1>3, <1>5, <1>6
<1>8. \A i \in 1 .. 1 : Fits(fields(type)[i][2], c[fields(type)[i][1]])
  <2> SUFFICES ASSUME NEW i \in 1 .. 1
               PROVE  Fits(fields(type)[i][2], c[fields(type)[i][1]])
    OBVIOUS
  <2>1. i = 1
    BY <1>5
  <2> QED
    BY ONLY <1>2, <1>3, <1>4, <2>1
<1>9. Message(c)
  BY <1>1, <1>2, <1>7, <1>8, MessageOf, Zenon
<1> QED
  BY <1>9 DEF c

LEMMA RosterMessage ==
    ASSUME NEW t \in Tables
    PROVE  Message(roster_packet(t))
<1> DEFINE c == roster_packet(t)
           type == "Roster"
<1>1. type \in ControlTypes /\ FieldsAre(type, 1) /\ 1 \in Nat
  BY FieldsOne DEF ControlTypes
<1>2. /\ c.type = type /\ c = [x \in DOMAIN c |-> c[x]] /\ DOMAIN c = {"type", "players"}
      /\ c["players"] = host_roster(t)
  BY DEF roster_packet
<1>3. fields(type)[1][1] = "players" /\ fields(type)[1][2] = "players"
  BY DEF fields
<1>4. Fits("players", host_roster(t))
  BY RosterIsList, ListsFit, Zenon
<1> HIDE DEF c, type
<1>5. \A i \in 1 .. 1 : i = 1
  OBVIOUS
<1>6. 1 \in 1 .. 1
  OBVIOUS
<1>7. DOMAIN c = {"type"} \cup {fields(type)[i][1] : i \in 1 .. 1}
  BY <1>2, <1>3, <1>5, <1>6
<1>8. \A i \in 1 .. 1 : Fits(fields(type)[i][2], c[fields(type)[i][1]])
  <2> SUFFICES ASSUME NEW i \in 1 .. 1
               PROVE  Fits(fields(type)[i][2], c[fields(type)[i][1]])
    OBVIOUS
  <2>1. i = 1
    BY <1>5
  <2> QED
    BY ONLY <1>2, <1>3, <1>4, <2>1
<1>9. Message(c)
  BY <1>1, <1>2, <1>7, <1>8, MessageOf, Zenon
<1> QED
  BY <1>9 DEF c

LEMMA WelcomeMessage ==
    ASSUME NumbersFit, session \in 1 .. MaxRestarts + 1, NEW t \in Tables, NEW k \in Slots
    PROVE  Message(welcome(t, k))
<1> DEFINE c == welcome(t, k)
           type == "Welcome"
<1>1. type \in ControlTypes /\ FieldsAre(type, 6) /\ 6 \in Nat
  BY FieldsWelcome DEF ControlTypes
<1>2. /\ c.type = type /\ c = [x \in DOMAIN c |-> c[x]]
      /\ DOMAIN c = {"type", "assigned_id", "session_id", "sample_rate", "frame_samples",
                     "codec", "roster"}
      /\ c["assigned_id"] = k /\ c["session_id"] = session /\ c["sample_rate"] = 48000
      /\ c["frame_samples"] = 120 /\ c["codec"] = "Opus" /\ c["roster"] = host_roster(t)
  BY DEF welcome
<1>3. /\ fields(type)[1][1] = "assigned_id" /\ fields(type)[1][2] = "u16"
      /\ fields(type)[2][1] = "session_id" /\ fields(type)[2][2] = "u16"
      /\ fields(type)[3][1] = "sample_rate" /\ fields(type)[3][2] = "u32"
      /\ fields(type)[4][1] = "frame_samples" /\ fields(type)[4][2] = "u16"
      /\ fields(type)[5][1] = "codec" /\ fields(type)[5][2] = "codec"
      /\ fields(type)[6][1] = "roster" /\ fields(type)[6][2] = "players"
  BY DEF fields
<1>4. Fits("players", host_roster(t))
  BY RosterIsList, ListsFit, Zenon
<1>5. Fits("u16", k) /\ Fits("u16", session) /\ Fits("u32", 48000) /\ Fits("u16", 120)
  <2>1. k \in U16
    BY DEF Slots, U16
  <2>2. session \in U16
    BY DEF U16, NumbersFit
  <2>3. 48000 \in U32 /\ 120 \in U16
    BY DEF U16, U32
  <2> QED
    BY <2>1, <2>2, <2>3 DEF Fits
<1>6. Fits("codec", "Opus")
  BY DEF Fits, Codec
<1> HIDE DEF c, type
<1>7. \A i \in 1 .. 6 : i = 1 \/ i = 2 \/ i = 3 \/ i = 4 \/ i = 5 \/ i = 6
  OBVIOUS
<1>8. 1 \in 1 .. 6 /\ 2 \in 1 .. 6 /\ 3 \in 1 .. 6 /\ 4 \in 1 .. 6 /\ 5 \in 1 .. 6 /\ 6 \in 1 .. 6
  OBVIOUS
<1>9. DOMAIN c = {"type"} \cup {fields(type)[i][1] : i \in 1 .. 6}
  BY <1>2, <1>3, <1>7, <1>8, SMTT(30)
<1>10. \A i \in 1 .. 6 : Fits(fields(type)[i][2], c[fields(type)[i][1]])
  <2> SUFFICES ASSUME NEW i \in 1 .. 6
               PROVE  Fits(fields(type)[i][2], c[fields(type)[i][1]])
    OBVIOUS
  <2>1. CASE i = 1
    BY ONLY <1>2, <1>3, <1>5, <2>1
  <2>2. CASE i = 2
    BY ONLY <1>2, <1>3, <1>5, <2>2
  <2>3. CASE i = 3
    BY ONLY <1>2, <1>3, <1>5, <2>3
  <2>4. CASE i = 4
    BY ONLY <1>2, <1>3, <1>5, <2>4
  <2>5. CASE i = 5
    BY ONLY <1>2, <1>3, <1>6, <2>5
  <2>6. CASE i = 6
    BY ONLY <1>2, <1>3, <1>4, <2>6
  <2> QED
    BY <1>7, <2>1, <2>2, <2>3, <2>4, <2>5, <2>6, Zenon
<1>11. c.type = type /\ c = [x \in DOMAIN c |-> c[x]]
  BY <1>2
<1>12. Message(c)
  BY <1>1, <1>9, <1>10, <1>11, MessageOf, Zenon
<1> QED
  BY <1>12 DEF c

\* What the client sends.
LEMMA HelloMessage ==
    Message([type |-> "Hello", proto_version |-> PROTOCOL_VERSION,
             room_code |-> [k \in 1 .. ROOM_CODE_LEN |-> k], name |-> MyName,
             codec_mask |-> 7, frame_mask |-> 3])
<1> DEFINE type == "Hello"
           c == [type |-> "Hello", proto_version |-> PROTOCOL_VERSION,
                 room_code |-> [k \in 1 .. ROOM_CODE_LEN |-> k], name |-> MyName,
                 codec_mask |-> 7, frame_mask |-> 3]
<1>1. type \in ControlTypes /\ FieldsAre(type, 5) /\ 5 \in Nat
  BY FieldsHello DEF ControlTypes
<1>2. /\ c.type = type /\ c = [x \in DOMAIN c |-> c[x]]
      /\ DOMAIN c = {"type", "proto_version", "room_code", "name", "codec_mask", "frame_mask"}
      /\ c["proto_version"] = PROTOCOL_VERSION
      /\ c["room_code"] = [k \in 1 .. ROOM_CODE_LEN |-> k]
      /\ c["name"] = MyName /\ c["codec_mask"] = 7 /\ c["frame_mask"] = 3
  OBVIOUS
<1>3. /\ fields(type)[1][1] = "proto_version" /\ fields(type)[1][2] = "u8"
      /\ fields(type)[2][1] = "room_code" /\ fields(type)[2][2] = "code"
      /\ fields(type)[3][1] = "name" /\ fields(type)[3][2] = "string"
      /\ fields(type)[4][1] = "codec_mask" /\ fields(type)[4][2] = "u8"
      /\ fields(type)[5][1] = "frame_mask" /\ fields(type)[5][2] = "u8"
  BY DEF fields
<1>4. Fits("u8", PROTOCOL_VERSION) /\ Fits("u8", 7) /\ Fits("u8", 3)
  BY DEF Fits, PROTOCOL_VERSION
<1>5. Fits("code", [k \in 1 .. ROOM_CODE_LEN |-> k])
  <2>1. ROOM_CODE_LEN \in Nat /\ [k \in 1 .. ROOM_CODE_LEN |-> k] \in [1 .. ROOM_CODE_LEN -> Int]
    OBVIOUS
  <2>2. Bytes([k \in 1 .. ROOM_CODE_LEN |-> k], ROOM_CODE_LEN)
    BY <2>1, Listed, Zenon
  <2> QED
    BY <2>2 DEF Fits
<1>6. Fits("string", MyName)
  BY NamesArePlayers DEF Fits, PlayerNames
<1> HIDE DEF c, type
<1>7. \A i \in 1 .. 5 : i = 1 \/ i = 2 \/ i = 3 \/ i = 4 \/ i = 5
  OBVIOUS
<1>8. 1 \in 1 .. 5 /\ 2 \in 1 .. 5 /\ 3 \in 1 .. 5 /\ 4 \in 1 .. 5 /\ 5 \in 1 .. 5
  OBVIOUS
<1>9. DOMAIN c = {"type"} \cup {fields(type)[i][1] : i \in 1 .. 5}
  BY <1>2, <1>3, <1>7, <1>8
<1>10. \A i \in 1 .. 5 : Fits(fields(type)[i][2], c[fields(type)[i][1]])
  <2> SUFFICES ASSUME NEW i \in 1 .. 5
               PROVE  Fits(fields(type)[i][2], c[fields(type)[i][1]])
    OBVIOUS
  <2>1. CASE i = 1
    BY ONLY <1>2, <1>3, <1>4, <2>1
  <2>2. CASE i = 2
    BY ONLY <1>2, <1>3, <1>5, <2>2
  <2>3. CASE i = 3
    BY ONLY <1>2, <1>3, <1>6, <2>3
  <2>4. CASE i = 4
    BY ONLY <1>2, <1>3, <1>4, <2>4
  <2>5. CASE i = 5
    BY ONLY <1>2, <1>3, <1>4, <2>5
  <2> QED
    BY <1>7, <2>1, <2>2, <2>3, <2>4, <2>5, Zenon
<1>11. c.type = type /\ c = [x \in DOMAIN c |-> c[x]]
  BY <1>2
<1>12. Message(c)
  BY <1>1, <1>9, <1>10, <1>11, MessageOf, Zenon
<1> QED
  BY <1>12 DEF c

LEMMA PingMessage ==
    ASSUME NEW t1 \in U64
    PROVE  Message([type |-> "Ping", t1_us |-> t1])
<1> DEFINE type == "Ping"
           c == [type |-> "Ping", t1_us |-> t1]
<1>1. type \in ControlTypes /\ FieldsAre(type, 1) /\ 1 \in Nat
  BY FieldsOne DEF ControlTypes
<1>2. /\ c.type = type /\ c = [x \in DOMAIN c |-> c[x]] /\ DOMAIN c = {"type", "t1_us"}
      /\ c["t1_us"] = t1
  OBVIOUS
<1>3. fields(type)[1][1] = "t1_us" /\ fields(type)[1][2] = "u64"
  BY DEF fields
<1>4. Fits("u64", t1)
  BY DEF Fits
<1> HIDE DEF c, type
<1>5. \A i \in 1 .. 1 : i = 1
  OBVIOUS
<1>6. 1 \in 1 .. 1
  OBVIOUS
<1>7. DOMAIN c = {"type"} \cup {fields(type)[i][1] : i \in 1 .. 1}
  BY <1>2, <1>3, <1>5, <1>6
<1>8. \A i \in 1 .. 1 : Fits(fields(type)[i][2], c[fields(type)[i][1]])
  <2> SUFFICES ASSUME NEW i \in 1 .. 1
               PROVE  Fits(fields(type)[i][2], c[fields(type)[i][1]])
    OBVIOUS
  <2>1. i = 1
    BY <1>5
  <2> QED
    BY ONLY <1>2, <1>3, <1>4, <2>1
<1>9. Message(c)
  BY <1>1, <1>2, <1>7, <1>8, MessageOf, Zenon
<1> QED
  BY <1>9 DEF c

LEMMA PongMessage ==
    ASSUME NEW t1 \in U64, NEW t2 \in U64, NEW t3 \in U64
    PROVE  Message([type |-> "Pong", t1_us |-> t1, t2_us |-> t2, t3_us |-> t3])
<1> DEFINE type == "Pong"
           c == [type |-> "Pong", t1_us |-> t1, t2_us |-> t2, t3_us |-> t3]
<1>1. type \in ControlTypes /\ FieldsAre(type, 3) /\ 3 \in Nat
  BY FieldsPong DEF ControlTypes
<1>2. /\ c.type = type /\ c = [x \in DOMAIN c |-> c[x]]
      /\ DOMAIN c = {"type", "t1_us", "t2_us", "t3_us"}
      /\ c["t1_us"] = t1 /\ c["t2_us"] = t2 /\ c["t3_us"] = t3
  OBVIOUS
<1>3. /\ fields(type)[1][1] = "t1_us" /\ fields(type)[1][2] = "u64"
      /\ fields(type)[2][1] = "t2_us" /\ fields(type)[2][2] = "u64"
      /\ fields(type)[3][1] = "t3_us" /\ fields(type)[3][2] = "u64"
  BY DEF fields
<1>4. Fits("u64", t1) /\ Fits("u64", t2) /\ Fits("u64", t3)
  BY DEF Fits
<1> HIDE DEF c, type
<1>5. \A i \in 1 .. 3 : i = 1 \/ i = 2 \/ i = 3
  OBVIOUS
<1>6. 1 \in 1 .. 3 /\ 2 \in 1 .. 3 /\ 3 \in 1 .. 3
  OBVIOUS
<1>7. DOMAIN c = {"type"} \cup {fields(type)[i][1] : i \in 1 .. 3}
  BY <1>2, <1>3, <1>5, <1>6
<1>8. \A i \in 1 .. 3 : Fits(fields(type)[i][2], c[fields(type)[i][1]])
  <2> SUFFICES ASSUME NEW i \in 1 .. 3
               PROVE  Fits(fields(type)[i][2], c[fields(type)[i][1]])
    OBVIOUS
  <2>1. i = 1 \/ i = 2 \/ i = 3
    BY <1>5
  <2> QED
    BY ONLY <1>2, <1>3, <1>4, <2>1
<1>9. Message(c)
  BY <1>1, <1>2, <1>7, <1>8, MessageOf, Zenon
<1> QED
  BY <1>9 DEF c

LEMMA AckMessage ==
    ASSUME NEW s \in U16
    PROVE  Message([type |-> "Ack", acked_seq |-> s, acked_type |-> PacketType["Welcome"]])
<1> DEFINE type == "Ack"
           c == [type |-> "Ack", acked_seq |-> s, acked_type |-> PacketType["Welcome"]]
<1>1. type \in ControlTypes /\ FieldsAre(type, 2) /\ 2 \in Nat
  BY FieldsAck DEF ControlTypes
<1>2. /\ c.type = type /\ c = [x \in DOMAIN c |-> c[x]]
      /\ DOMAIN c = {"type", "acked_seq", "acked_type"}
      /\ c["acked_seq"] = s /\ c["acked_type"] = PacketType["Welcome"]
  OBVIOUS
<1>3. /\ fields(type)[1][1] = "acked_seq" /\ fields(type)[1][2] = "u16"
      /\ fields(type)[2][1] = "acked_type" /\ fields(type)[2][2] = "u8"
  BY DEF fields
<1>4. Fits("u16", s) /\ Fits("u8", PacketType["Welcome"])
  BY DEF Fits, PacketType
<1> HIDE DEF c, type
<1>5. \A i \in 1 .. 2 : i = 1 \/ i = 2
  OBVIOUS
<1>6. 1 \in 1 .. 2 /\ 2 \in 1 .. 2
  OBVIOUS
<1>7. DOMAIN c = {"type"} \cup {fields(type)[i][1] : i \in 1 .. 2}
  BY <1>2, <1>3, <1>5, <1>6
<1>8. \A i \in 1 .. 2 : Fits(fields(type)[i][2], c[fields(type)[i][1]])
  <2> SUFFICES ASSUME NEW i \in 1 .. 2
               PROVE  Fits(fields(type)[i][2], c[fields(type)[i][1]])
    OBVIOUS
  <2>1. i = 1 \/ i = 2
    BY <1>5
  <2> QED
    BY ONLY <1>2, <1>3, <1>4, <2>1
<1>9. Message(c)
  BY <1>1, <1>2, <1>7, <1>8, MessageOf, Zenon
<1> QED
  BY <1>9 DEF c

LEMMA ToHostMessages ==
    ASSUME NumbersFit, n \in Nat, n <= LastNumber, NEW c \in ToHost
    PROVE  Message(c)
<1> PICK k : k = n
  OBVIOUS
<1>1. k \in Nat /\ k <= 131072
  <2>1. n \in Int /\ LastNumber \in Int /\ LastNumber <= 131072
    BY DEF LastNumber, Seqs, SeqSpace, NumbersFit
  <2> QED
    BY <2>1
<1>2. 70000 + k \in U32 /\ k \in U32 /\ 16777216 + k \in U32 /\ (256 + k) % 65536 \in U16
  BY <1>1 DEF U32, U16
<1>0. c \in ToHost
  OBVIOUS
<1>3. \/ c = [type |-> "Hello", proto_version |-> PROTOCOL_VERSION,
              room_code |-> [i \in 1 .. ROOM_CODE_LEN |-> i], name |-> MyName,
              codec_mask |-> 7, frame_mask |-> 3]
      \/ c = [type |-> "Ping", t1_us |-> 70000 + n]
      \/ c = [type |-> "Pong", t1_us |-> n, t2_us |-> 70000 + n, t3_us |-> 16777216 + n]
      \/ c = [type |-> "Ack", acked_seq |-> (256 + n) % 65536, acked_type |-> PacketType["Welcome"]]
      \/ c = [type |-> "Keepalive"] \/ c = [type |-> "Bye"]
  BY ONLY <1>0 DEF ToHost
<1>4. PICK t1, t2, t3, s : t1 = k /\ t2 = 70000 + k /\ t3 = 16777216 + k /\ s = (256 + k) % 65536
  OBVIOUS
<1>5. t1 \in U64 /\ t2 \in U64 /\ t3 \in U64 /\ s \in U16
  BY <1>2, <1>4, Wider
<1>6. /\ Message([type |-> "Ping", t1_us |-> t2])
      /\ Message([type |-> "Pong", t1_us |-> t1, t2_us |-> t2, t3_us |-> t3])
      /\ Message([type |-> "Ack", acked_seq |-> s, acked_type |-> PacketType["Welcome"]])
  BY <1>5, PingMessage, PongMessage, AckMessage, Zenon
<1>7. Message([type |-> "Keepalive"]) /\ Message([type |-> "Bye"])
  BY BareMessage, Zenon
<1> QED
  BY <1>3, <1>4, <1>6, <1>7, HelloMessage

\* Everything under way to me is a packet that can be written.
WrittenInv == \A d \in net : Message(d.control)

\* A step that sends only such packets leaves only such under way.
LEMMA StampWrites ==
    ASSUME WrittenInv, NEW count, NEW ds, NEW bears, Stamp(count, ds, bears),
           \A d \in ds : Message(d.control)
    PROVE  WrittenInv'
<1>1. PICK arriving \in SUBSET ds : net' = net \cup arriving
  BY DEF Stamp
<1> QED
  BY <1>1 DEF WrittenInv

LEMMA SilentWrites ==
    ASSUME WrittenInv, NEW count, Silent(count)
    PROVE  WrittenInv'
<1>1. PICK ds, bears : ds = {} /\ bears = FALSE
  OBVIOUS
<1>2. Stamp(count, ds, bears)
  BY <1>1 DEF Silent
<1>3. \A d \in ds : Message(d.control)
  BY <1>1
<1> QED
  BY <1>2, <1>3, StampWrites, Zenon

LEMMA OneWrites ==
    ASSUME WrittenInv, NEW count, NEW c, NEW k, NEW bears, Message(c),
           Stamp(count, {Datagram(c, k)}, bears)
    PROVE  WrittenInv'
<1>1. Datagram(c, k).control = c
  BY DEF Datagram
<1>2. PICK ds : ds = {Datagram(c, k)}
  OBVIOUS
<1>3. \A d \in ds : Message(d.control)
  BY <1>1, <1>2
<1>4. Stamp(count, ds, bears)
  BY <1>2
<1> QED
  BY <1>3, <1>4, StampWrites, Zenon

LEMMA BroadcastWrites ==
    ASSUME WrittenInv, NEW t \in Tables, NEW except, NEW before, Broadcast(t, except, before)
    PROVE  WrittenInv'
<1> DEFINE ds == broadcast_to_me(t, except, n + before)
<1>1. Stamp(before + Cardinality(recipients(t, except)), ds, ds # {})
  BY Zenon DEF Broadcast
<1>2. \A d \in ds : Message(d.control)
  <2> SUFFICES ASSUME NEW d \in ds PROVE Message(d.control)
    OBVIOUS
  <2>1. d.control = roster_packet(t)
    BY DEF broadcast_to_me, Datagram
  <2>2. Message(roster_packet(t))
    BY RosterMessage, Zenon
  <2> QED
    BY <2>1, <2>2, Zenon
<1> HIDE DEF ds
<1> QED
  BY <1>1, <1>2, StampWrites, Zenon

LEMMA StepWrites ==
    ASSUME NumbersFit, IInv, IInv', WrittenInv, [Next]_vars
    PROVE  WrittenInv'
<1>1. table \in Tables /\ table' \in Tables /\ mine \in 0 .. MAX_CLIENTS
      /\ session \in 1 .. MaxRestarts + 1
  BY DEF IInv, TypeInv
<1>2. \A t \in Tables, k \in Slots : Message(welcome(t, k))
  BY <1>1, WelcomeMessage, Zenon
<1>3. mine # 0 => mine \in Slots
  BY <1>1 DEF Slots
<1>4. CASE net' \subseteq net
  BY <1>4 DEF WrittenInv
<1>5. CASE HearHello
  <2>1. CASE WelcomeMe
    <3> DEFINE k == Min(free(table))
    <3>1. k \in Slots
      <4>1. free(table) \in SUBSET Slots /\ free(table) # {}
        BY <2>1 DEF WelcomeMe, free
      <4>2. k \in free(table)
        BY <4>1, FirstSlot
      <4> QED
        BY <4>1, <4>2
    <3>2. Message(welcome(table', k))
      BY <1>1, <1>2, <3>1
    <3>3. Stamp(1 + Cardinality(occupied(table)), {Datagram(welcome(table', k), n)}, TRUE)
      BY <2>1 DEF WelcomeMe
    <3> HIDE DEF k
    <3> QED
      BY <3>2, <3>3, OneWrites, Zenon
  <2>2. CASE WelcomeMeAgain
    <3>1. Message(welcome(table, mine)) /\ Stamp(1, {Datagram(welcome(table, mine), n)}, TRUE)
      BY <1>1, <1>2, <1>3, <2>2 DEF WelcomeMeAgain
    <3> QED
      BY <3>1, OneWrites, Zenon
  <2>3. CASE DenyMe
    <3>1. Stamp(1, {Datagram(deny("RoomFull"), n)}, FALSE)
      BY <2>3 DEF DenyMe
    <3> QED
      BY <3>1, DenyMessage, OneWrites, Zenon
  <2> QED
    BY <1>5, <2>1, <2>2, <2>3 DEF HearHello
<1>6. CASE ResendWelcome
  <2>1. mine # 0
    BY <1>6 DEF ResendWelcome, IInv, TableInv
  <2>2. Message(welcome(table, mine)) /\ Stamp(1, {Datagram(welcome(table, mine), n)}, TRUE)
    BY <1>1, <1>2, <1>3, <1>6, <2>1 DEF ResendWelcome
  <2> QED
    BY <2>2, OneWrites, Zenon
<1>7. CASE Chatter
  <2>1. Silent(Cardinality(occupied(table)))
    BY <1>7 DEF Chatter
  <2> QED
    BY <2>1, SilentWrites, Zenon
<1>8. ASSUME NEW name, OtherJoins(name) PROVE WrittenInv'
  <2>1. PICK k : Broadcast(table', {k}, 1)
    BY <1>8 DEF OtherJoins
  <2> QED
    BY <1>1, <2>1, BroadcastWrites, Zenon
<1>9. ASSUME NEW k, OtherLeaves(k) PROVE WrittenInv'
  <2>1. Broadcast(table', {}, 0)
    BY <1>9 DEF OtherLeaves
  <2> QED
    BY <1>1, <2>1, BroadcastWrites, Zenon
<1>10. ASSUME NEW k, NEW name, OtherAgain(k, name) PROVE WrittenInv'
  <2>1. Silent(1)
    BY <1>10 DEF OtherAgain
  <2> QED
    BY <2>1, SilentWrites, Zenon
<1>11. CASE MeLeft \/ HostRestart \/ Rejoin
  BY <1>4, <1>11 DEF MeLeft, HostRestart, Rejoin
<1>12. CASE HearMe \/ SendHello \/ Restart \/ UNCHANGED vars
  BY <1>4, <1>12 DEF HearMe, SendHello, Restart, vars
<1>13. ASSUME NEW m \in net, Receive(m) PROVE WrittenInv'
  BY <1>4, <1>13 DEF Receive
<1> QED
  BY <1>5, <1>6, <1>7, <1>8, <1>9, <1>10, <1>11, <1>12, <1>13 DEF Next

\* At the start nothing is under way.
LEMMA InitWrites == Init => WrittenInv
  BY DEF Init, WrittenInv

\* What is sent, to me or by me, can be written, with a number and a session that fit.
LEMMA SentFits ==
    ASSUME NumbersFit, IInv, WrittenInv, NEW d \in Sent
    PROVE  Message(d.control) /\ session \in U16 /\ HOST_SENDER_ID \in U16 /\ Wire(d.n) \in U16
<1>1. session \in 1 .. MaxRestarts + 1 /\ n \in Nat /\ n <= LastNumber
  BY DEF IInv, TypeInv, NumberInv
<1>2. session \in U16 /\ HOST_SENDER_ID \in U16
  BY <1>1 DEF NumbersFit, U16, HOST_SENDER_ID
<1>3. Message(d.control) /\ d.n \in Nat
  <2>1. CASE net = {}
    <3>1. PICK c \in ToHost : d = Datagram(c, n)
      BY <2>1 DEF Sent
    <3>2. d.control = c /\ d.n = n
      BY <3>1 DEF Datagram
    <3> QED
      BY <1>1, <3>1, <3>2, ToHostMessages
  <2>2. CASE net # {}
    <3>1. d \in net
      BY <2>2 DEF Sent
    <3>2. d.n \in Nat
      BY <3>1 DEF IInv, NetInv, Mail, Letter
    <3> QED
      BY <3>1, <3>2 DEF WrittenInv
  <2> QED
    BY <2>1, <2>2
<1>4. Wire(d.n) \in Seqs
  <2>1. d.n \in Int
    BY <1>3
  <2> QED
    BY <2>1, SeqTypes, Zenon
<1>5. Wire(d.n) \in U16
  BY <1>4 DEF Seqs, SeqSpace, NumbersFit, U16
<1> QED
  BY <1>2, <1>3, <1>5

\* Everything that is under way is read as it was sent, names cut at a character, for
\* every number of slots, any names and however they are cut (packet.rs 516-533,
\* 568-590), as long as its numbers fit their fields.
THEOREM ReadAsSent == ASSUME NumbersFit PROVE Spec => []WireFaithful
<1>1. IInv /\ WrittenInv => WireFaithful
  <2> SUFFICES ASSUME IInv, WrittenInv, NEW d \in Sent
               PROVE  parse_datagram(bytes(d)) =
                        [header |-> [ptype |-> d.control.type, session_id |-> session,
                                     sender_id |-> HOST_SENDER_ID, seq |-> Wire(d.n)],
                         payload |-> Arrived(d.control)]
    BY Zenon DEF WireFaithful
  <2>1. Message(d.control) /\ session \in U16 /\ HOST_SENDER_ID \in U16 /\ Wire(d.n) \in U16
    BY SentFits, Zenon
  <2> QED
    BY <2>1, ControlFaithful, Zenon DEF bytes
<1>2. Init => WrittenInv
  BY InitWrites
<1>3. IInv /\ IInv' /\ WrittenInv /\ [Next]_vars => WrittenInv'
  BY StepWrites
<1> QED
  BY <1>1, <1>2, <1>3, Invariant, PTL DEF Spec

\* No part of anything under way passes for a packet, nor does it with a byte behind
\* it: a roster is never taken in part, whatever its length (packet.rs 425, 591-597).
THEOREM NeverReadInPart == ASSUME NumbersFit PROVE Spec => []OnlyWholeParses
<1>1. IInv /\ WrittenInv => OnlyWholeParses
  <2> SUFFICES ASSUME IInv, WrittenInv, NEW d \in Sent PROVE OnlyWhole(bytes(d))
    BY Zenon DEF OnlyWholeParses
  <2>1. Message(d.control) /\ session \in U16 /\ HOST_SENDER_ID \in U16 /\ Wire(d.n) \in U16
    BY SentFits, Zenon
  <2> QED
    BY <2>1, ControlWhole, Zenon DEF bytes
<1>2. Init => WrittenInv
  BY InitWrites
<1>3. IInv /\ IInv' /\ WrittenInv /\ [Next]_vars => WrittenInv'
  BY StepWrites
<1> QED
  BY <1>1, <1>2, <1>3, Invariant, PTL DEF Spec
=============================================================================
