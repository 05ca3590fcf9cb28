---------------------------- MODULE SessionProofs ----------------------------
(***************************************************************************)
(* Who gets into a session, and what a client that takes itself for joined *)
(* can rely on: for any number of clients and slots, any timeouts, and     *)
(* whatever the network and the processes do.                              *)
(***************************************************************************)
EXTENDS Settled, FiniteSetTheorems, WellFoundedInduction, TLAPS

USE HostAssumption, SessionAssumption

-----------------------------------------------------------------------------
(* The slot table.                                                         *)

\* A non-empty set of slots has a first one.
LEMMA FirstSlot ==
    ASSUME NEW S \in SUBSET Slots, S # {}
    PROVE  Min(S) \in S
<1>1. S \subseteq Nat
  BY DEF Slots
<1>2. PICK x \in S : \A y \in S : ~ (<<y, x>> \in OpToRel(<, Nat))
  BY <1>1, WFMin, NatLessThanWellFounded
<1>3. \A y \in S : ~ (y < x)
  BY <1>1, <1>2, Zenon DEF OpToRel
<1>4. \A y \in S : x <= y
  BY <1>1, <1>3
<1> QED
  BY <1>4 DEF Min

Tables == [Slots -> {Free} \cup Taken]

\* Every client of table t is one of s, and sits in the same slot there.
Keeps(s, t) ==
    \A i \in Slots : t[i] # Free => s[i] # Free /\ t[i].addr = s[i].addr
Same(s, t) == Keeps(s, t) /\ Keeps(t, s)

\* What the host sends goes to clients, and a WELCOME to the one in the slot it names.
Sends(t, send) ==
    \A x \in send :
        /\ x.to \in Clients /\ x.kind \in {"Welcome", "Deny", "Roster"}
        /\ x.kind = "Welcome" => x.id \in Slots /\ t[x.id] # Free /\ t[x.id].addr = x.to

\* Nobody is removed in the iteration that seats him.
Fresh(x) == \E a \in Clients : x = Pending(a)

\* What the types say of slots that are taken.
LEMMA Types ==
    /\ \A x \in Taken : x # Free /\ x.addr \in Clients /\ x.heard \in RxAges
    /\ \A a \in Clients : Pending(a) \in Taken /\ Pending(a).addr = a
    /\ 0 \in RxAges
<1>1. 0 \in RxAges /\ 0 \in TxAges /\ 1 \in Tries
  BY DEF RxAges, TxAges, Tries
<1> QED
  BY <1>1 DEF Free, Taken, Pending

\* Hearing of a client changes nothing in who is there.
LEMMA MarkHeard ==
    ASSUME NEW s \in Tables, NEW i \in Slots, NEW age \in RxAges
    PROVE  mark_heard(s, i, age) \in Tables /\ Same(s, mark_heard(s, i, age))
<1>1. CASE s[i] = Free
  BY <1>1 DEF mark_heard, Same, Keeps
<1>2. CASE s[i] # Free
  <2>1. s[i] \in Taken
    BY <1>2 DEF Tables
  <2> DEFINE x == [state |-> "Active", addr |-> s[i].addr, heard |-> age]
  <2>2. x \in Taken /\ x # Free /\ x.addr = s[i].addr
    BY <2>1, Types DEF Taken, Free
  <2>3. mark_heard(s, i, age) = [s EXCEPT ![i] = x]
    BY <1>2 DEF mark_heard
  <2> HIDE DEF x
  <2> QED
    BY <1>2, <2>2, <2>3 DEF Tables, Same, Keeps
<1> QED
  BY <1>1, <1>2

LEMMA HearKeeps ==
    ASSUME NEW s \in Tables, NEW ev
    PROVE  hear(s, ev) \in Tables /\ Same(s, hear(s, ev))
<1>1. CASE ev = NoEvent \/ sender_for_addr(s, ev.from) = {}
  BY <1>1 DEF hear, Same, Keeps
<1>2. CASE ~(ev = NoEvent \/ sender_for_addr(s, ev.from) = {})
  <2>1. sender_for_addr(s, ev.from) \subseteq Slots
    BY DEF sender_for_addr, occupied
  <2>2. Min(sender_for_addr(s, ev.from)) \in Slots
    BY <1>2, <2>1, FirstSlot
  <2>3. hear(s, ev) = mark_heard(s, Min(sender_for_addr(s, ev.from)), 0)
    BY <1>2 DEF hear
  <2> QED
    BY <2>2, <2>3, MarkHeard, Types
<1> QED
  BY <1>1, <1>2

LEMMA FeedKeeps ==
    ASSUME NEW s \in Tables, NEW rx \in [Slots -> {None} \cup RxAges]
    PROVE  /\ feed(s, rx) \in Tables /\ Same(s, feed(s, rx))
           /\ \A i \in Slots : rx[i] = None => feed(s, rx)[i] = s[i]
<1>1. ASSUME NEW i \in Slots
      PROVE  /\ feed(s, rx)[i] \in {Free} \cup Taken
             /\ feed(s, rx)[i] # Free <=> s[i] # Free
             /\ feed(s, rx)[i] # Free => feed(s, rx)[i].addr = s[i].addr
             /\ rx[i] = None => feed(s, rx)[i] = s[i]
  <2>1. CASE rx[i] = None
    BY <2>1 DEF feed, Tables
  <2>2. CASE rx[i] # None
    <3>1. rx[i] \in RxAges
      BY <2>2
    <3>2. feed(s, rx)[i] = mark_heard(s, i, rx[i])[i]
      BY <2>2 DEF feed
    <3> QED
      BY <2>2, <3>1, <3>2, MarkHeard DEF Tables, Same, Keeps
  <2> QED
    BY <2>1, <2>2
<1>2. feed(s, rx) \in Tables
  BY <1>1 DEF feed, Tables
<1> QED
  BY <1>1, <1>2 DEF Same, Keeps

\* A client that is sent its WELCOME again is still to be heard of.
Waiting == [state : {"Pending"}, addr : Clients, heard : RxAges, tx : TxAges, tries : Tries]

LEMMA Resent ==
    /\ \A x \in Taken : x.state = "Pending" => x \in Waiting
    /\ \A x \in Waiting : x \in Taken /\ x.tries \in Tries
    /\ \A x \in Waiting, n \in Tries :
          /\ [x EXCEPT !.tx = 0, !.tries = n] \in Waiting
          /\ [x EXCEPT !.tx = 0, !.tries = n].addr = x.addr
<1>1. 0 \in TxAges
  BY DEF TxAges
<1> QED
  BY <1>1 DEF Taken, Waiting

\* A tick removes clients and adds none, and not one that has just come.
LEMMA TickKeeps ==
    ASSUME NEW s \in Tables
    PROVE  /\ tick(s).slots \in Tables /\ Keeps(s, tick(s).slots)
           /\ Sends(tick(s).slots, tick(s).send)
           /\ \A i \in Slots : Fresh(s[i]) => tick(s).slots[i] # Free
<1> DEFINE resend == retry_due(s) \ unacked(s)
           retried == [i \in Slots |->
               IF i \in resend THEN [s[i] EXCEPT !.tx = 0, !.tries = @ + 1] ELSE s[i]]
           gone == timed_out(s) \cup unacked(s)
           t == [i \in Slots |-> IF i \in gone THEN Free ELSE retried[i]]
<1>1. /\ tick(s).slots = t
      /\ tick(s).send = (IF gone = {} THEN {} ELSE broadcast_roster(t, {}))
                        \cup {welcome(i, s[i].addr) : i \in resend}
  BY DEF tick, remove, Result
<1>2. ASSUME NEW i \in resend
      PROVE  /\ i \in Slots /\ i \notin gone /\ s[i] \in Taken
             /\ retried[i] \in Taken /\ retried[i].addr = s[i].addr
  <2>1. /\ i \in Slots /\ s[i] # Free /\ i \notin timed_out(s) /\ s[i].state = "Pending"
        /\ i \notin unacked(s)
    BY DEF retry_due, occupied
  <2>2. s[i] \in Waiting
    <3>1. s[i] \in Taken
      BY <2>1 DEF Tables
    <3> QED
      BY <2>1, <3>1, Resent
  <2>3. ~ s[i].tries >= CONTROL_MAX_TRIES
    BY <2>1 DEF unacked
  <2>4. s[i].tries + 1 \in Tries
    <3>1. s[i].tries \in Tries
      BY <2>2, Resent
    <3> QED
      BY <2>3, <3>1 DEF Tries
  <2> PICK n \in Tries : n = s[i].tries + 1
    BY <2>4
  <2>5. retried[i] = [s[i] EXCEPT !.tx = 0, !.tries = n]
    BY <2>1
  <2> HIDE DEF retried, resend, gone, t
  <2>6. retried[i] \in Waiting /\ retried[i].addr = s[i].addr
    BY <2>2, <2>5, Resent
  <2>7. i \notin gone
    BY <2>1 DEF gone
  <2> QED
    BY <2>1, <2>2, <2>6, <2>7, Resent
<1>3. \A i \in Slots : i \notin resend => retried[i] = s[i]
  OBVIOUS
<1>4. \A i \in Slots : t[i] = IF i \in gone THEN Free ELSE retried[i]
  OBVIOUS
<1>5. ASSUME NEW i \in Slots, Fresh(s[i])
      PROVE  i \notin gone /\ i \notin resend /\ s[i] \in Taken
  <2>1. PICK a \in Clients : s[i] = Pending(a)
    BY <1>5 DEF Fresh
  <2>2. s[i].heard = 0 /\ s[i].tx = 0 /\ s[i] \in Taken
    BY <2>1, Types DEF Pending
  <2> QED
    BY <2>2 DEF timed_out, unacked, retry_due
<1>6. DOMAIN t = Slots
  OBVIOUS
<1>7. t = [i \in Slots |-> t[i]]
  OBVIOUS
<1> HIDE DEF retried, t, gone
<1>8. \A i \in Slots : t[i] \in {Free} \cup Taken
  BY <1>2, <1>3, <1>4 DEF Tables
<1>9. t \in Tables
  BY <1>7, <1>8, Zenon DEF Tables
<1>10. \A i \in Slots : t[i] # Free => s[i] # Free /\ t[i].addr = s[i].addr
  BY <1>2, <1>3, <1>4, Types
<1>11. \A i \in Slots : Fresh(s[i]) => t[i] # Free
  BY <1>3, <1>4, <1>5, Types
<1>12. Sends(t, tick(s).send)
  <2> SUFFICES ASSUME NEW x \in tick(s).send
               PROVE  /\ x.to \in Clients /\ x.kind \in {"Welcome", "Deny", "Roster"}
                      /\ x.kind = "Welcome" =>
                            x.id \in Slots /\ t[x.id] # Free /\ t[x.id].addr = x.to
    BY DEF Sends
  <2>1. CASE x \in broadcast_roster(t, {})
    <3>1. PICK i \in Slots : t[i] # Free /\ x = [kind |-> "Roster", to |-> t[i].addr]
      BY <2>1 DEF broadcast_roster, client_addrs, occupied
    <3> QED
      BY <1>8, <3>1, Types
  <2>2. CASE \E i \in resend : x = welcome(i, s[i].addr)
    <3>1. PICK i \in resend : x = [kind |-> "Welcome", to |-> s[i].addr, id |-> i]
      BY <2>2 DEF welcome
    <3>2. t[i] = retried[i] /\ i \in Slots /\ retried[i] \in Taken /\ retried[i].addr = s[i].addr
      BY <1>2, <1>4
    <3> QED
      BY <3>1, <3>2, Types
  <2> QED
    BY <1>1, <2>1, <2>2
<1> QED
  BY <1>1, <1>9, <1>10, <1>11, <1>12 DEF Keeps

\* A client in table t was in the same slot in s, or is a newcomer: one who knows
\* the room code and had no slot before.
Adds(s, t, joined, a, right) ==
    \A i \in Slots : t[i] # Free =>
        \/ s[i] # Free /\ t[i].addr = s[i].addr
        \/ /\ i \in joined /\ t[i] = Pending(a) /\ right
           /\ \A j \in Slots : s[j] # Free => s[j].addr # a
           /\ \A j \in joined : j = i

\* A slot that has changed hands or been taken again is fresh.
LEMMA HelloAdds ==
    ASSUME NEW s \in Tables, NEW a \in Clients, NEW right \in BOOLEAN
    PROVE  LET res == on_hello(s, a, right)
           IN  /\ res.slots \in Tables /\ res.joined \subseteq Slots
               /\ Adds(s, res.slots, res.joined, a, right)
               /\ Sends(res.slots, res.send)
               /\ \A x \in res.send : x.kind = "Welcome" =>
                     (s[x.id] # Free /\ s[x.id].addr = x.to) \/ x.id \in res.joined
               /\ \A i \in res.joined : res.slots[i] = Pending(a)
<1> DEFINE res == on_hello(s, a, right)
<1>1. CASE ~right \/ (~known(s, a) /\ full(s))
  <2>1. res = refuse(s, a)
    BY <1>1 DEF on_hello
  <2>2. res.slots = s /\ res.send = {[kind |-> "Deny", to |-> a]} /\ res.joined = {}
    BY <2>1 DEF refuse, Result, deny
  <2> HIDE DEF res
  <2> QED
    BY <2>2 DEF Adds, Sends, res
<1>2. CASE right /\ known(s, a)
  <2> DEFINE k == Min(sender_for_addr(s, a))
             t == [s EXCEPT ![k] = Pending(a)]
  <2>1. k \in Slots /\ s[k] # Free /\ s[k].addr = a
    <3>1. sender_for_addr(s, a) \in SUBSET Slots /\ sender_for_addr(s, a) # {}
      BY <1>2 DEF known, sender_for_addr, occupied
    <3>2. k \in sender_for_addr(s, a)
      BY <3>1, FirstSlot
    <3> QED
      BY <3>1, <3>2 DEF sender_for_addr, occupied
  <2>2. /\ res.slots = t /\ res.send = {[kind |-> "Welcome", to |-> a, id |-> k]}
        /\ res.joined = {}
    BY <1>2 DEF on_hello, reseat, Result, welcome
  <2> HIDE DEF k
  <2>3. /\ t \in Tables /\ t[k] = Pending(a) /\ t[k] # Free /\ t[k].addr = a
        /\ \A i \in Slots : i # k => t[i] = s[i]
    BY <2>1, Types DEF Tables
  <2> HIDE DEF res, t
  <2>4. Sends(res.slots, res.send)
    BY <2>1, <2>2, <2>3 DEF Sends
  <2>5. Adds(s, res.slots, res.joined, a, right)
    BY <2>1, <2>2, <2>3 DEF Adds
  <2> QED
    BY <2>1, <2>2, <2>3, <2>4, <2>5 DEF res
<1>3. CASE right /\ ~known(s, a) /\ ~full(s)
  <2> DEFINE k == Min(Slots \ occupied(s))
             t == [s EXCEPT ![k] = Pending(a)]
  <2>1. k \in Slots /\ s[k] = Free
    <3>1. Slots \ occupied(s) \in SUBSET Slots /\ Slots \ occupied(s) # {}
      BY <1>3 DEF full, occupied
    <3>2. k \in Slots \ occupied(s)
      BY <3>1, FirstSlot
    <3> QED
      BY <3>1, <3>2 DEF occupied
  <2>2. /\ res.slots = t /\ res.joined = {k}
        /\ res.send = {[kind |-> "Welcome", to |-> a, id |-> k]} \cup broadcast_roster(t, {a})
    BY <1>3 DEF on_hello, seat, Result, welcome
  <2>3. \A j \in Slots : s[j] # Free => s[j].addr # a
    BY <1>3 DEF known, sender_for_addr, occupied
  <2> HIDE DEF k
  <2>4. /\ t \in Tables /\ t[k] = Pending(a) /\ t[k] # Free /\ t[k].addr = a
        /\ \A i \in Slots : i # k => t[i] = s[i]
    BY <2>1, Types DEF Tables
  <2> HIDE DEF res, t
  <2>5. Sends(res.slots, res.send)
    <3> SUFFICES ASSUME NEW x \in res.send
                 PROVE  /\ x.to \in Clients /\ x.kind \in {"Welcome", "Deny", "Roster"}
                        /\ x.kind = "Welcome" =>
                              x.id \in Slots /\ t[x.id] # Free /\ t[x.id].addr = x.to
      BY <2>2 DEF Sends
    <3>1. CASE x \in broadcast_roster(t, {a})
      <4>1. PICK i \in Slots : t[i] # Free /\ x = [kind |-> "Roster", to |-> t[i].addr]
        BY <3>1 DEF broadcast_roster, client_addrs, occupied
      <4> QED
        BY <2>4, <4>1, Types DEF Tables
    <3>2. CASE x = [kind |-> "Welcome", to |-> a, id |-> k]
      BY <2>1, <2>4, <3>2
    <3> QED
      BY <2>2, <3>1, <3>2
  <2>6. Adds(s, res.slots, res.joined, a, right)
    BY <1>3, <2>2, <2>3, <2>4 DEF Adds
  <2>7. \A x \in res.send : x.kind = "Welcome" => x.id \in res.joined
    BY <2>2 DEF broadcast_roster
  <2> QED
    BY <2>1, <2>2, <2>4, <2>5, <2>6, <2>7 DEF res
<1> QED
  BY <1>1, <1>2, <1>3

LEMMA ByeKeeps ==
    ASSUME NEW s \in Tables, NEW a
    PROVE  LET res == on_bye(s, a)
           IN  /\ res.slots \in Tables /\ res.joined = {}
               /\ Keeps(s, res.slots) /\ Sends(res.slots, res.send)
               /\ \A x \in res.send : x.kind = "Roster"
<1> DEFINE gone == sender_for_addr(s, a)
           t == [i \in Slots |-> IF i \in gone THEN Free ELSE s[i]]
           res == on_bye(s, a)
<1>1. /\ res.slots = t /\ res.joined = {}
      /\ res.send = IF gone = {} THEN {} ELSE broadcast_roster(t, {})
  BY DEF on_bye, remove, Result
<1>2. t \in Tables /\ Keeps(s, t)
  BY DEF Tables, Keeps
<1> HIDE DEF t, res, gone
<1>3. ASSUME NEW x \in res.send
      PROVE  \E i \in Slots : t[i] # Free /\ x = [kind |-> "Roster", to |-> t[i].addr]
  BY <1>1 DEF broadcast_roster, client_addrs, occupied
<1>4. \A x \in res.send : x.kind = "Roster" /\ x.to \in Clients
  BY <1>2, <1>3, Types DEF Tables
<1>5. Sends(res.slots, res.send)
  BY <1>4 DEF Sends
<1> QED
  BY <1>1, <1>2, <1>4, <1>5 DEF res

\* What an event does to the table.
LEMMA HandleAdds ==
    ASSUME NEW s \in Tables, NEW ev, ev = NoEvent \/ ev \in Packets
    PROVE  LET res == handle(s, ev)
           IN  /\ res.slots \in Tables /\ res.joined \subseteq Slots
               /\ Adds(s, res.slots, res.joined, ev.from, ev.from \notin wrong)
               /\ Sends(res.slots, res.send)
               /\ \A x \in res.send : x.kind = "Welcome" =>
                     (s[x.id] # Free /\ s[x.id].addr = x.to) \/ x.id \in res.joined
               /\ \A i \in res.joined : Fresh(res.slots[i])
<1> DEFINE res == handle(s, ev)
<1>1. CASE ev.kind = "Hello"
  <2>1. ev.from \in Clients
    BY <1>1 DEF Packets, NoEvent, ToClientKinds
  <2>2. res = on_hello(s, ev.from, ev.from \notin wrong)
    BY <1>1 DEF handle
  <2>3. PICK right \in BOOLEAN : right = (ev.from \notin wrong)
    OBVIOUS
  <2>4. res = on_hello(s, ev.from, right)
    BY <2>2, <2>3, Zenon
  <2>5. \A i \in res.joined : Fresh(res.slots[i])
    <3> HIDE DEF res
    <3>1. \A i \in res.joined : res.slots[i] = Pending(ev.from)
      BY <2>1, <2>4, HelloAdds
    <3> QED
      BY <2>1, <3>1, Zenon DEF Fresh
  <2>6. Adds(s, res.slots, res.joined, ev.from, ev.from \notin wrong)
    <3>1. Adds(s, res.slots, res.joined, ev.from, right)
      BY <2>1, <2>4, HelloAdds, Zenon
    <3> QED
      BY <2>3, <3>1, Zenon DEF Adds
  <2> QED
    BY <2>1, <2>4, <2>5, <2>6, HelloAdds, Zenon
<1>2. CASE ev.kind = "Bye" /\ ev.sess = session
  <2>1. res = on_bye(s, ev.from)
    BY <1>2 DEF handle
  <2> QED
    BY <2>1, ByeKeeps DEF Adds, Keeps
<1>3. CASE ev.kind # "Hello" /\ ~(ev.kind = "Bye" /\ ev.sess = session)
  <2>1. res.slots = s /\ res.send = {} /\ res.joined = {}
    BY <1>3 DEF handle, Result
  <2> HIDE DEF res
  <2> QED
    BY <2>1 DEF Adds, Sends, res
<1> QED
  BY <1>1, <1>2, <1>3

-----------------------------------------------------------------------------
(* The invariant.                                                          *)

\* A host that is down has no table; the sessions are counted by its restarts.
DownInv ==
    /\ ~hup => slots = NoSlots
    /\ session = MaxHostFaults - hfaults + (IF hup THEN 1 ELSE 0)

\* Who is in the table has been given his seat, and he alone is at his address.
SeatInv ==
    /\ \A i \in Slots : slots[i] # Free => <<session, i, slots[i].addr>> \in seats
    /\ \A i, j \in Slots :
          slots[i] # Free /\ slots[j] # Free /\ slots[i].addr = slots[j].addr => i = j

\* Nobody without the room code has ever been given one.
AdmitInv == \A x \in seats : x[3] \notin wrong

\* A WELCOME under way, or not yet handled, names a seat that was given to the one
\* it is for.
WelcomeInv ==
    /\ \A m \in net : m.kind = "Welcome" => <<m.sess, m.id, m.to>> \in seats
    /\ \A c \in Clients : \A k \in DOMAIN cq[c] :
          cq[c][k].kind = "Welcome" => <<cq[c][k].sess, cq[c][k].id, c>> \in seats

IInv ==
    /\ TypeOK /\ cq \in [Clients -> Seq(Packets)]
    /\ DownInv /\ SeatInv /\ AdmitInv /\ WelcomeInv /\ JoinedWasAdmitted

-----------------------------------------------------------------------------
(* Datagrams.                                                              *)

LEMMA FieldTypes ==
    /\ UNJOINED \in Ids /\ Slots \subseteq Ids /\ UNJOINED \notin Slots
    /\ 0 \in 0 .. MaxDelay /\ MaxDelay \in Nat /\ MaxNet \in Nat
    /\ MaxQueue \in Nat /\ MaxQueue > 0 /\ MaxHostFaults \in Nat
  BY DEF Ids, Slots, UNJOINED

\* What is sent is a packet, with the addressee, kind and session it was given.
LEMMA StampType ==
    ASSUME NEW kind, NEW s \in Sessions \cup {UNJOINED}
    PROVE  Stamp(kind, s) \in Sessions \cup {UNJOINED}
  BY DEF Stamp

LEMMA ToClientType ==
    ASSUME NEW c \in Clients, NEW kind \in ToClientKinds,
           NEW s \in Sessions \cup {UNJOINED}, NEW id \in Ids
    PROVE  /\ ToClient(c, kind, s, id) \in Packets
           /\ ToClient(c, kind, s, id).to = c /\ ToClient(c, kind, s, id).kind = kind
           /\ kind = "Welcome" => /\ ToClient(c, kind, s, id).sess = s
                                  /\ ToClient(c, kind, s, id).id = id
<1>1. Stamp(kind, s) \in Sessions \cup {UNJOINED} /\ 0 \in 0 .. MaxDelay
  BY StampType, FieldTypes
<1>2. kind = "Welcome" => Stamp(kind, s) = s
  BY DEF Stamp
<1> QED
  BY <1>1, <1>2 DEF ToClient, Packets

LEMMA ToHostType ==
    ASSUME NEW c \in Clients, NEW kind \in ToHostKinds,
           NEW s \in Sessions \cup {UNJOINED}, NEW id \in Ids
    PROVE  ToHost(c, kind, s, id) \in Packets /\ ToHost(c, kind, s, id).kind # "Welcome"
<1>1. Stamp(kind, s) \in Sessions \cup {UNJOINED} /\ 0 \in 0 .. MaxDelay
  BY StampType, FieldTypes
<1> QED
  BY <1>1 DEF ToHost, Packets, ToHostKinds

\* A set of records with finitely many values in each field is finite.
LEMMA FiniteRecords ==
    ASSUME NEW A, NEW B, NEW C, NEW D, NEW E, NEW F,
           IsFiniteSet(A), IsFiniteSet(B), IsFiniteSet(C), IsFiniteSet(D),
           IsFiniteSet(E), IsFiniteSet(F)
    PROVE  IsFiniteSet([to : A, from : B, kind : C, sess : D, id : E, age : F])
<1> DEFINE P == ((A \X B) \X (C \X D)) \X (E \X F)
           R == [to : A, from : B, kind : C, sess : D, id : E, age : F]
           f == [x \in P |-> [to |-> x[1][1][1], from |-> x[1][1][2],
                              kind |-> x[1][2][1], sess |-> x[1][2][2],
                              id |-> x[2][1], age |-> x[2][2]]]
<1>1. IsFiniteSet(P)
  <2>1. IsFiniteSet(A \X B) /\ IsFiniteSet(C \X D) /\ IsFiniteSet(E \X F)
    BY FS_Product
  <2>2. IsFiniteSet((A \X B) \X (C \X D))
    BY <2>1, FS_Product
  <2> QED
    BY <2>1, <2>2, FS_Product
<1>2. f \in [P -> R]
  OBVIOUS
<1>3. ASSUME NEW r \in R PROVE \E x \in P : f[x] = r
  <2>1. <<<<<<r.to, r.from>>, <<r.kind, r.sess>>>>, <<r.id, r.age>>>> \in P
    OBVIOUS
  <2>2. f[<<<<<<r.to, r.from>>, <<r.kind, r.sess>>>>, <<r.id, r.age>>>>] = r
    BY <2>1
  <2> QED
    BY <2>1, <2>2
<1>4. f \in Surjection(P, R)
  BY <1>2, <1>3 DEF Surjection
<1> QED
  BY <1>1, <1>4, FS_Surjection

LEMMA PacketsFinite == IsFiniteSet(Packets)
<1>1. /\ IsFiniteSet({Host}) /\ IsFiniteSet(Clients) /\ IsFiniteSet(0 .. MaxDelay)
      /\ IsFiniteSet(Sessions \cup {UNJOINED}) /\ IsFiniteSet(Ids)
  <2>1. \A n, k \in Int : IsFiniteSet(n .. k)
    BY FS_Interval
  <2>2. MaxHostFaults + 1 \in Int /\ MAX_CLIENTS \in Int /\ MaxDelay \in Int
        /\ 0 \in Int /\ 1 \in Int
    BY FieldTypes
  <2>3. IsFiniteSet(Sessions) /\ IsFiniteSet(Slots) /\ IsFiniteSet(0 .. MaxDelay)
    BY <2>1, <2>2, Zenon DEF Sessions, Slots
  <2> QED
    BY <2>3, FS_Singleton, FS_Union DEF Ids
<1>2. IsFiniteSet(ToHostKinds) /\ IsFiniteSet(ToClientKinds)
  <2>1. ToHostKinds = {"Hello"} \cup {"Ack"} \cup {"Ping"} \cup {"Pong"}
                      \cup {"Keepalive"} \cup {"Audio"} \cup {"Bye"}
    BY DEF ToHostKinds
  <2>2. ToClientKinds = {"Welcome"} \cup {"Deny"} \cup {"Roster"} \cup {"Ping"} \cup {"Pong"}
                      \cup {"Keepalive"} \cup {"Audio"} \cup {"Bye"}
    BY DEF ToClientKinds
  <2>3. \A S, x : IsFiniteSet(S) => IsFiniteSet(S \cup {x})
    BY FS_AddElement
  <2>4. \A x : IsFiniteSet({x})
    BY FS_Singleton
  <2> QED
    BY <2>1, <2>2, <2>3, <2>4
<1> QED
  BY <1>1, <1>2, FiniteRecords, FS_Union DEF Packets

\* What is under way after a step, and how much of it.
LEMMA TransmitKeeps ==
    ASSUME NEW taken, NEW msgs \in SUBSET Packets, net \subseteq Packets,
           Transmit(taken, msgs)
    PROVE  /\ net' \subseteq Packets /\ Cardinality(net') <= MaxNet
           /\ \A m \in net' : m \in net \/ m \in msgs
  BY DEF Transmit

-----------------------------------------------------------------------------
(* The host's control loop.                                                *)

LEMMA ClearType ==
    ASSUME NEW rx \in [Slots -> {None} \cup RxAges], NEW joined
    PROVE  /\ clear_rx(rx, joined) \in [Slots -> {None} \cup RxAges]
           /\ \A i \in Slots : i \in joined => clear_rx(rx, joined)[i] = None
  BY DEF clear_rx

\* As Adds, of a table in which a newcomer may have been heard of again.
Seated(s, t, joined, a, right) ==
    \A i \in Slots : t[i] # Free =>
        \/ s[i] # Free /\ t[i].addr = s[i].addr
        \/ /\ i \in joined /\ t[i].addr = a /\ right
           /\ \A j \in Slots : s[j] # Free => s[j].addr # a
           /\ \A j \in joined : j = i

\* What the host sends, seen from the tables before and after the iteration: a
\* WELCOME is for one who is in the table after it, or was before.
Welcomes(s, t, send) ==
    \A x \in send :
        /\ x.to \in Clients /\ x.kind \in {"Welcome", "Deny", "Roster"}
        /\ x.kind = "Welcome" =>
              /\ x.id \in Slots
              /\ \/ s[x.id] # Free /\ s[x.id].addr = x.to
                 \/ t[x.id] # Free /\ t[x.id].addr = x.to

\* The stages of an iteration, one after the other.
LEMMA StagesKeep ==
    ASSUME NEW s \in Tables, NEW ev, ev = NoEvent \/ ev \in Packets,
           NEW rx0 \in [Slots -> {None} \cup RxAges],
           NEW heard, heard = hear(s, ev), NEW handled, handled = handle(heard, ev),
           NEW rx, rx = clear_rx(rx0, handled.joined),
           NEW fed, fed = feed(handled.slots, rx), NEW ticked, ticked = tick(fed)
    PROVE  /\ ticked.slots \in Tables /\ rx \in [Slots -> {None} \cup RxAges]
           /\ Seated(s, ticked.slots, handled.joined, ev.from, ev.from \notin wrong)
           /\ Welcomes(s, ticked.slots, handled.send \cup ticked.send)
<1>1. heard \in Tables /\ Same(s, heard)
  BY HearKeeps
<1>2. /\ handled.slots \in Tables /\ handled.joined \subseteq Slots
      /\ Adds(heard, handled.slots, handled.joined, ev.from, ev.from \notin wrong)
      /\ Sends(handled.slots, handled.send)
      /\ \A x \in handled.send : x.kind = "Welcome" =>
            (heard[x.id] # Free /\ heard[x.id].addr = x.to) \/ x.id \in handled.joined
      /\ \A i \in handled.joined : Fresh(handled.slots[i])
  BY <1>1, HandleAdds
<1>3. /\ rx \in [Slots -> {None} \cup RxAges]
      /\ \A i \in Slots : i \in handled.joined => rx[i] = None
  BY ClearType
<1>4. /\ fed \in Tables /\ Same(handled.slots, fed)
      /\ \A i \in Slots : rx[i] = None => fed[i] = handled.slots[i]
  BY <1>2, <1>3, FeedKeeps
<1>5. /\ ticked.slots \in Tables /\ Keeps(fed, ticked.slots)
      /\ Sends(ticked.slots, ticked.send)
      /\ \A i \in Slots : Fresh(fed[i]) => ticked.slots[i] # Free
  BY <1>4, TickKeeps
<1>6. \A i \in Slots : ticked.slots[i] # Free =>
          handled.slots[i] # Free /\ ticked.slots[i].addr = handled.slots[i].addr
  BY <1>4, <1>5 DEF Same, Keeps
<1>7. \A i \in Slots : heard[i] # Free <=> s[i] # Free
  BY <1>1 DEF Same, Keeps
<1>8. \A i \in Slots : s[i] # Free => heard[i].addr = s[i].addr
  BY <1>1 DEF Same, Keeps
<1>9. \A a \in Clients : Pending(a).addr = a
  BY Types
<1>10. Seated(s, ticked.slots, handled.joined, ev.from, ev.from \notin wrong)
  <2> SUFFICES ASSUME NEW i \in Slots, ticked.slots[i] # Free,
                      ~(s[i] # Free /\ ticked.slots[i].addr = s[i].addr)
               PROVE  /\ i \in handled.joined /\ ticked.slots[i].addr = ev.from
                      /\ ev.from \notin wrong
                      /\ \A j \in Slots : s[j] # Free => s[j].addr # ev.from
                      /\ \A j \in handled.joined : j = i
    BY Zenon DEF Seated
  <2>1. handled.slots[i] # Free /\ ticked.slots[i].addr = handled.slots[i].addr
    BY <1>6
  <2>2. ~(heard[i] # Free /\ handled.slots[i].addr = heard[i].addr)
    BY <1>7, <1>8, <2>1
  <2>3. /\ i \in handled.joined /\ handled.slots[i] = Pending(ev.from)
        /\ ev.from \notin wrong
        /\ \A j \in Slots : heard[j] # Free => heard[j].addr # ev.from
        /\ \A j \in handled.joined : j = i
    BY <1>2, <2>1, <2>2, Zenon DEF Adds
  <2>4. Pending(ev.from).addr = ev.from
    BY DEF Pending
  <2> QED
    BY <1>7, <1>8, <2>1, <2>3, <2>4
<1>11. Welcomes(s, ticked.slots, handled.send \cup ticked.send)
  <2> SUFFICES ASSUME NEW x \in handled.send \cup ticked.send
               PROVE  /\ x.to \in Clients /\ x.kind \in {"Welcome", "Deny", "Roster"}
                      /\ x.kind = "Welcome" =>
                            /\ x.id \in Slots
                            /\ \/ s[x.id] # Free /\ s[x.id].addr = x.to
                               \/ ticked.slots[x.id] # Free /\ ticked.slots[x.id].addr = x.to
    BY Zenon DEF Welcomes
  <2>1. CASE x \in ticked.send
    BY <1>5, <2>1, Zenon DEF Sends
  <2>2. CASE x \in handled.send
    <3>1. /\ x.to \in Clients /\ x.kind \in {"Welcome", "Deny", "Roster"}
          /\ x.kind = "Welcome" => /\ x.id \in Slots /\ handled.slots[x.id] # Free
                                   /\ handled.slots[x.id].addr = x.to
      BY <1>2, <2>2, Zenon DEF Sends
    <3>2. ASSUME x.kind = "Welcome", x.id \in handled.joined
          PROVE  ticked.slots[x.id] # Free /\ ticked.slots[x.id].addr = x.to
      <4>1. x.id \in Slots /\ fed[x.id] = handled.slots[x.id]
        BY <1>2, <1>3, <1>4, <3>2
      <4>2. Fresh(fed[x.id])
        BY <1>2, <3>2, <4>1
      <4>3. ticked.slots[x.id] # Free
        BY <1>5, <4>1, <4>2, Zenon
      <4> QED
        BY <1>6, <3>1, <3>2, <4>1, <4>3
    <3>3. ASSUME x.kind = "Welcome", heard[x.id] # Free /\ heard[x.id].addr = x.to
          PROVE  s[x.id] # Free /\ s[x.id].addr = x.to
      BY <1>7, <1>8, <3>1, <3>3
    <3>4. x.kind = "Welcome" =>
            (heard[x.id] # Free /\ heard[x.id].addr = x.to) \/ x.id \in handled.joined
      BY <1>2, <2>2
    <3> QED
      BY <3>1, <3>2, <3>3, <3>4
  <2> QED
    BY <2>1, <2>2
<1> QED
  BY <1>3, <1>5, <1>10, <1>11

\* What an iteration of the control loop leaves, given its stages.
Concluded(handled, rx, ticked) ==
    /\ slots' = ticked.slots
    /\ hrx' = rx
    /\ hran' = TRUE
    /\ seats' = seats \cup {<<session, i, ticked.slots[i].addr>> :
                               i \in occupied(ticked.slots)}
    /\ Transmit({},
          {ToClient(x.to, x.kind, session, IF x.kind = "Welcome" THEN x.id ELSE UNJOINED) :
              x \in handled.send \cup ticked.send}
          \cup {ToClient(a, k, session, UNJOINED) :
              a \in IF hran THEN {} ELSE client_addrs(ticked.slots),
              k \in {"Ping", "Keepalive"}})

\* An iteration of the control loop seats at most one newcomer, who knows the room
\* code, and promises no seat that it has not given.
LEMMA HostIterates ==
    ASSUME IInv, hup, NEW ev, ev = NoEvent \/ ev \in Packets, HostIteration(ev)
    PROVE  /\ slots' \in Tables /\ hrx' \in [Slots -> {None} \cup RxAges]
           /\ hran' \in BOOLEAN
           /\ seats' \subseteq Sessions \X Slots \X Clients /\ seats \subseteq seats'
           /\ SeatInv' /\ AdmitInv'
           /\ net' \subseteq Packets /\ Cardinality(net') <= MaxNet
           /\ \A m \in net' : m.kind = "Welcome" => <<m.sess, m.id, m.to>> \in seats'
<1>1. /\ slots \in Tables /\ hrx \in [Slots -> {None} \cup RxAges] /\ session \in Sessions
      /\ net \subseteq Packets /\ seats \subseteq Sessions \X Slots \X Clients
  BY DEF IInv, TypeOK, Tables
<1> DEFINE heard == hear(slots, ev)
           handled == handle(heard, ev)
           rx == clear_rx(hrx, handled.joined)
           fed == feed(handled.slots, rx)
           ticked == tick(fed)
<1>2. Concluded(handled, rx, ticked)
  <2>1. HostIteration(ev) =>
          \E h \in {handle(heard, ev)} : \E r \in {clear_rx(hrx, h.joined)} :
          \E f \in {feed(h.slots, r)} : \E t \in {tick(f)} : Concluded(h, r, t)
    BY DEF HostIteration, Concluded
  <2> HIDE DEF heard
  <2>2. \E r \in {clear_rx(hrx, handled.joined)} :
          \E f \in {feed(handled.slots, r)} : \E t \in {tick(f)} : Concluded(handled, r, t)
    BY <2>1
  <2> HIDE DEF handled
  <2>3. \E f \in {feed(handled.slots, rx)} : \E t \in {tick(f)} : Concluded(handled, rx, t)
    BY <2>2
  <2> QED
    BY <2>3
<1>3. UNCHANGED <<session, wrong>>
  BY DEF HostIteration, clients
<1>4. /\ heard = hear(slots, ev) /\ handled = handle(heard, ev)
      /\ rx = clear_rx(hrx, handled.joined)
      /\ fed = feed(handled.slots, rx) /\ ticked = tick(fed)
  OBVIOUS
<1> HIDE DEF heard, handled, rx, fed, ticked
<1> DEFINE end == ticked.slots
           send == handled.send \cup ticked.send
           msgs1 == {ToClient(x.to, x.kind, session,
                              IF x.kind = "Welcome" THEN x.id ELSE UNJOINED) : x \in send}
           msgs2 == {ToClient(a, k, session, UNJOINED) :
                        a \in IF hran THEN {} ELSE client_addrs(ticked.slots),
                        k \in {"Ping", "Keepalive"}}
<1>5. /\ end \in Tables /\ rx \in [Slots -> {None} \cup RxAges]
      /\ Seated(slots, end, handled.joined, ev.from, ev.from \notin wrong)
      /\ Welcomes(slots, end, send)
  BY <1>1, <1>4, StagesKeep
<1>6. SeatInv /\ AdmitInv /\ WelcomeInv
  BY DEF IInv
<1>7. seats' = seats \cup {<<session, i, end[i].addr>> : i \in occupied(end)}
  BY <1>2, Zenon DEF Concluded
<1>8. /\ slots' = end /\ hrx' = rx /\ hran' = TRUE
      /\ session' = session /\ wrong' = wrong
  BY <1>2, <1>3 DEF Concluded
<1>9. Transmit({}, msgs1 \cup msgs2)
  BY <1>2 DEF Concluded
<1>10. \A i \in Slots : end[i] # Free => end[i].addr \in Clients
  BY <1>5, Types DEF Tables
<1> HIDE DEF end, send
<1>11. \A i \in Slots : end[i] # Free => <<session, i, end[i].addr>> \in seats'
  BY <1>7 DEF occupied
<1>12. seats' \subseteq Sessions \X Slots \X Clients /\ seats \subseteq seats'
  BY <1>1, <1>7, <1>10 DEF occupied
<1>13. ASSUME NEW i \in Slots, end[i] # Free
       PROVE  end[i].addr \notin wrong
  <2>1. CASE slots[i] # Free /\ end[i].addr = slots[i].addr
    <3>1. <<session, i, slots[i].addr>> \in seats
      BY <1>6, <2>1 DEF SeatInv
    <3> QED
      BY <1>6, <2>1, <3>1 DEF AdmitInv
  <2>2. CASE ~(slots[i] # Free /\ end[i].addr = slots[i].addr)
    BY <1>5, <1>13, <2>2 DEF Seated
  <2> QED
    BY <2>1, <2>2
<1>14. AdmitInv'
  <2>1. \A x \in seats' : x[3] \notin wrong
    BY <1>6, <1>7, <1>13 DEF AdmitInv, occupied
  <2> QED
    BY <1>8, <2>1 DEF AdmitInv
<1>15. ASSUME NEW i \in Slots, NEW j \in Slots, end[i] # Free, end[j] # Free,
              end[i].addr = end[j].addr
       PROVE  i = j
  <2>1. CASE slots[i] # Free /\ end[i].addr = slots[i].addr
    <3>1. slots[j] # Free /\ end[j].addr = slots[j].addr
      BY <1>5, <1>15, <2>1 DEF Seated
    <3> QED
      BY <1>6, <1>15, <2>1, <3>1 DEF SeatInv
  <2>2. CASE ~(slots[i] # Free /\ end[i].addr = slots[i].addr)
    <3>1. /\ end[i].addr = ev.from /\ i \in handled.joined
          /\ \A k \in Slots : slots[k] # Free => slots[k].addr # ev.from
          /\ \A k \in handled.joined : k = i
      BY <1>5, <1>15, <2>2 DEF Seated
    <3>2. ~(slots[j] # Free /\ end[j].addr = slots[j].addr)
      BY <1>15, <3>1
    <3>3. j \in handled.joined
      BY <1>5, <1>15, <3>2 DEF Seated
    <3> QED
      BY <3>1, <3>3
  <2> QED
    BY <2>1, <2>2
<1>16. SeatInv'
  BY <1>8, <1>11, <1>15 DEF SeatInv
<1>17. ASSUME NEW m \in msgs1
       PROVE  m \in Packets /\ (m.kind = "Welcome" => <<m.sess, m.id, m.to>> \in seats')
  <2>1. PICK x \in send : m = ToClient(x.to, x.kind, session,
                              IF x.kind = "Welcome" THEN x.id ELSE UNJOINED)
    OBVIOUS
  <2>2. x.to \in Clients /\ x.kind \in ToClientKinds
    BY <1>5 DEF Welcomes, ToClientKinds
  <2>3. CASE x.kind = "Welcome"
    <3>1. /\ x.id \in Slots
          /\ \/ slots[x.id] # Free /\ slots[x.id].addr = x.to
             \/ end[x.id] # Free /\ end[x.id].addr = x.to
      BY <1>5, <2>3 DEF Welcomes
    <3>2. <<session, x.id, x.to>> \in seats'
      BY <1>6, <1>11, <1>12, <3>1 DEF SeatInv
    <3>3. m = ToClient(x.to, x.kind, session, x.id)
      BY <2>1, <2>3
    <3>4. /\ m \in Packets /\ m.to = x.to /\ m.sess = session /\ m.id = x.id
      BY <1>1, <2>2, <2>3, <3>1, <3>3, FieldTypes, ToClientType
    <3> QED
      BY <3>2, <3>4
  <2>4. CASE x.kind # "Welcome"
    <3>1. m = ToClient(x.to, x.kind, session, UNJOINED)
      BY <2>1, <2>4
    <3> QED
      BY <1>1, <2>2, <2>4, <3>1, FieldTypes, ToClientType
  <2> QED
    BY <2>3, <2>4
<1>18. ASSUME NEW m \in msgs2
       PROVE  m \in Packets /\ m.kind # "Welcome"
  <2>1. PICK a \in client_addrs(ticked.slots), k \in {"Ping", "Keepalive"} :
           m = ToClient(a, k, session, UNJOINED)
    OBVIOUS
  <2>2. a \in Clients
    BY <1>10 DEF client_addrs, occupied, end
  <2>3. k \in ToClientKinds /\ k # "Welcome"
    BY DEF ToClientKinds
  <2> QED
    BY <1>1, <2>1, <2>2, <2>3, FieldTypes, ToClientType
<1> HIDE DEF msgs1, msgs2
<1>19. msgs1 \cup msgs2 \in SUBSET Packets
  BY <1>17, <1>18
<1>20. /\ net' \subseteq Packets /\ Cardinality(net') <= MaxNet
       /\ \A m \in net' : m \in net \/ m \in msgs1 \/ m \in msgs2
  BY <1>1, <1>9, <1>19, TransmitKeeps
<1>21. \A m \in net' : m.kind = "Welcome" => <<m.sess, m.id, m.to>> \in seats'
  BY <1>6, <1>12, <1>17, <1>18, <1>20 DEF WelcomeInv
<1> QED
  BY <1>5, <1>8, <1>12, <1>14, <1>16, <1>20, <1>21

-----------------------------------------------------------------------------
(* The control loop of a client.                                           *)

\* Client c in state cl has been given what it believes it has.
Admitted(cl, c) ==
    cl.joined => cl.cs = CS!Joined /\ <<cl.sess, cl.id, c>> \in seats

\* What an event or a tick makes of a handshake phase.
LEMMA PhaseKeeps ==
    ASSUME NEW cs \in CS!Phases, NEW kind
    PROVE  /\ CS!on_control(cs, kind) \in CS!Phases
           /\ CS!tick(cs) \in CS!Phases /\ CS!PhaseOlder(cs) \in CS!Phases
           /\ CS!Joining \in CS!Phases
           /\ CS!on_control(CS!Joined, kind) = CS!Joined /\ CS!tick(CS!Joined) = CS!Joined
           /\ CS!PhaseOlder(CS!Joined) = CS!Joined /\ ~CS!gives_up(CS!Joined)
           /\ CS!on_control(cs, kind) # cs /\ CS!on_control(cs, kind) = CS!Joined
                 => kind = "Welcome"
<1>1. CS!Joining \in CS!Phases
  BY DEF CS!Joining, CS!Phases
<1>2. CS!on_control(cs, kind) \in CS!Phases
  BY DEF CS!on_control, CS!Phases
<1>3. CS!tick(cs) \in CS!Phases
  <2>1. CASE CS!gives_up(cs)
    <3>1. cs.tries \in Int /\ cs.tries >= CONTROL_MAX_TRIES
      BY <2>1 DEF CS!gives_up, CS!hello_due, CS!Phases, CS!Joined, CS!Failed
    <3>2. ~CS!resends(cs)
      BY <3>1 DEF CS!resends
    <3>3. CS!tick(cs) = CS!Failed("Timeout")
      BY <2>1, <3>2 DEF CS!tick
    <3> QED
      BY <3>3 DEF CS!Phases
  <2>2. CASE CS!resends(cs)
    <3>1. /\ cs \in [phase : {"Joining"}, tx : 0 .. CONTROL_RETRY,
                     tries : 1 .. CONTROL_MAX_TRIES]
          /\ cs.tries < CONTROL_MAX_TRIES
      BY <2>2 DEF CS!resends, CS!hello_due, CS!Phases, CS!Joined, CS!Failed
    <3>2. CS!tick(cs) = [cs EXCEPT !.tx = 0, !.tries = @ + 1]
      BY <2>2 DEF CS!tick, CS!gives_up, CS!resends
    <3>3. cs.tries + 1 \in 1 .. CONTROL_MAX_TRIES /\ 0 \in 0 .. CONTROL_RETRY
      BY <3>1
    <3> QED
      BY <3>1, <3>2, <3>3 DEF CS!Phases
  <2>3. CASE ~CS!gives_up(cs) /\ ~CS!resends(cs)
    BY <2>3 DEF CS!tick
  <2> QED
    BY <2>1, <2>2, <2>3
<1>4. CS!PhaseOlder(cs) \in CS!Phases
  <2>1. CASE cs.phase = "Joining" /\ cs.tx < CONTROL_RETRY
    <3>1. cs \in [phase : {"Joining"}, tx : 0 .. CONTROL_RETRY,
                  tries : 1 .. CONTROL_MAX_TRIES]
      BY <2>1 DEF CS!Phases, CS!Joined, CS!Failed
    <3>2. CS!PhaseOlder(cs) = [cs EXCEPT !.tx = @ + 1]
      BY <2>1 DEF CS!PhaseOlder
    <3>3. cs.tx + 1 \in 0 .. CONTROL_RETRY
      BY <2>1, <3>1
    <3> QED
      BY <3>1, <3>2, <3>3 DEF CS!Phases
  <2>2. CASE ~(cs.phase = "Joining" /\ cs.tx < CONTROL_RETRY)
    BY <2>2 DEF CS!PhaseOlder
  <2> QED
    BY <2>1, <2>2
<1>5. /\ CS!on_control(CS!Joined, kind) = CS!Joined /\ CS!tick(CS!Joined) = CS!Joined
      /\ CS!PhaseOlder(CS!Joined) = CS!Joined /\ ~CS!gives_up(CS!Joined)
  BY DEF CS!on_control, CS!tick, CS!PhaseOlder, CS!gives_up, CS!resends, CS!hello_due,
         CS!Joined
<1>6. CS!on_control(cs, kind) # cs /\ CS!on_control(cs, kind) = CS!Joined
         => kind = "Welcome"
  BY DEF CS!on_control, CS!Joined, CS!Failed
<1> QED
  BY <1>1, <1>2, <1>3, <1>4, <1>5, <1>6

\* A client joins only on a WELCOME, with the seat it names.
LEMMA StepAdmits ==
    ASSUME NEW cl \in ClientStates, NEW c \in Clients, Admitted(cl, c),
           NEW ev, ev = NoEvent \/ ev \in Packets,
           ev.kind = "Welcome" => <<ev.sess, ev.id, c>> \in seats
    PROVE  LET st == client_step(cl, CS!on_control(cl.cs, ev.kind), ev).state
           IN  st \in ClientStates /\ Admitted(st, c)
<1> DEFINE cs1 == CS!on_control(cl.cs, ev.kind)
           joins == cs1 # cl.cs /\ cs1 = CS!Joined
           denied == cs1 # cl.cs /\ cs1 = CS!Failed("Denied")
           bye == ev.kind = "Bye" /\ ev.sess = cl.sess
           joined == (cl.joined /\ ~bye) \/ joins
           rx == IF joins THEN 0 ELSE cl.rx
           deadline == IF bye \/ denied THEN None
                       ELSE IF joins THEN REJOIN_WINDOW ELSE cl.deadline
           drops == quiet(joined, rx)
           again == drops \/ (CS!gives_up(cs1) /\ deadline > 0)
           sess == IF joins THEN ev.sess ELSE cl.sess
           id == IF joins THEN ev.id ELSE cl.id
           phase == IF again THEN CS!Joining ELSE CS!tick(cs1)
           st == [cl EXCEPT
                    !.cs = phase,
                    !.joined = joined /\ ~drops,
                    !.sess = sess,
                    !.id = id,
                    !.rx = IF joined /\ ~drops THEN rx ELSE 0,
                    !.deadline = IF drops THEN REJOIN_WINDOW ELSE deadline,
                    !.ran = TRUE]
<1>1. client_step(cl, cs1, ev).state = st
  BY DEF client_step
<1>2. cl.cs \in CS!Phases /\ cl.rx \in RxAges /\ cl.sess \in Sessions \cup {UNJOINED}
      /\ cl.id \in Ids /\ cl.deadline \in {None} \cup 0 .. REJOIN_WINDOW
      /\ cl.joined \in BOOLEAN
  BY DEF ClientStates
<1>3. cs1 \in CS!Phases /\ CS!tick(cs1) \in CS!Phases /\ CS!Joining \in CS!Phases
  BY <1>2, PhaseKeeps
<1>4. joins => ev.kind = "Welcome"
  BY <1>2, PhaseKeeps
<1>5. joins => ev \in Packets /\ ev.sess \in Sessions \cup {UNJOINED} /\ ev.id \in Ids
               /\ <<ev.sess, ev.id, c>> \in seats
  BY <1>4 DEF NoEvent, Packets
<1>6. phase \in CS!Phases /\ sess \in Sessions \cup {UNJOINED} /\ id \in Ids
  BY <1>2, <1>3, <1>5
<1>7. rx \in RxAges /\ 0 \in RxAges
  BY <1>2, Types
<1>8. deadline \in {None} \cup 0 .. REJOIN_WINDOW
      /\ REJOIN_WINDOW \in {None} \cup 0 .. REJOIN_WINDOW
  BY <1>2
<1>9. joined \in BOOLEAN /\ (joined /\ ~drops) \in BOOLEAN
  BY <1>2
<1>10. joined => <<sess, id, c>> \in seats
  BY <1>5 DEF Admitted
<1>11. joined => cs1 = CS!Joined
  BY PhaseKeeps, <1>2 DEF Admitted
<1>12. joined /\ ~drops => phase = CS!Joined
  BY <1>11, <1>2, PhaseKeeps
<1> HIDE DEF cs1, joins, bye, joined, rx, deadline, drops, again, sess, id, phase
<1>13. st \in ClientStates
  BY <1>6, <1>7, <1>8, <1>9 DEF ClientStates
<1>14. st.joined = (joined /\ ~drops) /\ st.cs = phase /\ st.sess = sess /\ st.id = id
  BY DEF ClientStates
<1>15. Admitted(st, c)
  BY <1>10, <1>12, <1>14 DEF Admitted
<1> QED
  BY <1>1, <1>13, <1>15 DEF cs1

-----------------------------------------------------------------------------
(* The invariant, part by part.                                            *)

HostInv ==
    /\ hup \in BOOLEAN /\ session \in Sessions /\ slots \in Tables
    /\ hrx \in [Slots -> {None} \cup RxAges]
    /\ rxaddr \in [Slots -> Clients \cup {Nobody}]
    /\ hq \in Seq(Packets) /\ Len(hq) <= MaxQueue
    /\ hran \in BOOLEAN
    /\ DownInv /\ SeatInv /\ AdmitInv

ClientInv ==
    /\ wrong \subseteq MayBeWrong /\ client \in [Clients -> ClientStates]
    /\ cq \in [Clients -> Seq(Packets)]
    /\ \A c \in Clients :
          /\ Len(cq[c]) <= MaxQueue
          /\ Admitted(client[c], c)
          /\ \A k \in DOMAIN cq[c] :
                cq[c][k].kind = "Welcome" => <<cq[c][k].sess, cq[c][k].id, c>> \in seats

NetInv ==
    /\ net \subseteq Packets /\ Cardinality(net) <= MaxNet
    /\ \A m \in net : m.kind = "Welcome" => <<m.sess, m.id, m.to>> \in seats

CountInv ==
    /\ dups \in 0 .. MaxDups /\ hfaults \in 0 .. MaxHostFaults
    /\ cfaults \in 0 .. MaxClientFaults /\ starts \in [Clients -> 0 .. MaxStarts]
    /\ silence \in [Clients -> RxAges]
    /\ seats \subseteq Sessions \X Slots \X Clients

\* The inductive invariant by whose state it speaks of: the host's, the clients', the
\* network's and the counters'.
LEMMA Parts == IInv <=> HostInv /\ ClientInv /\ NetInv /\ CountInv
<1>1. IInv => HostInv /\ NetInv /\ CountInv
  BY DEF IInv, TypeOK, HostInv, NetInv, CountInv, WelcomeInv, Tables
<1>2. IInv => ClientInv
  BY DEF IInv, TypeOK, ClientInv, WelcomeInv, JoinedWasAdmitted, Admitted
<1>3. HostInv /\ ClientInv /\ NetInv /\ CountInv => TypeOK
  BY DEF HostInv, ClientInv, NetInv, CountInv, TypeOK, Tables
<1>4. HostInv /\ ClientInv /\ NetInv => WelcomeInv /\ JoinedWasAdmitted
  BY DEF HostInv, ClientInv, NetInv, WelcomeInv, JoinedWasAdmitted, Admitted
<1>5. HostInv /\ ClientInv /\ NetInv /\ CountInv => IInv
  BY <1>3, <1>4 DEF HostInv, ClientInv, IInv
<1> QED
  BY <1>1, <1>2, <1>5

LEMMA PartsNext == HostInv' /\ ClientInv' /\ NetInv' /\ CountInv' => IInv'
  BY Parts, PTL

\* What a step leaves alone stays right, whoever else has been given a seat.
LEMMA HostStays ==
    ASSUME HostInv, UNCHANGED <<host, wrong, hfaults, seats>> PROVE HostInv'
  BY DEF HostInv, host, DownInv, SeatInv, AdmitInv, Tables

\* The same of the clients, the network and the counters.
LEMMA ClientsStay ==
    ASSUME ClientInv, UNCHANGED clients, seats \subseteq seats' PROVE ClientInv'
  BY DEF ClientInv, clients, Admitted

LEMMA NetStays ==
    ASSUME NetInv, UNCHANGED net, seats \subseteq seats' PROVE NetInv'
  BY DEF NetInv

LEMMA CountStays ==
    ASSUME CountInv, UNCHANGED <<budget, silence, seats>> PROVE CountInv'
  BY DEF CountInv, budget

\* Packets leave: none of them is a WELCOME.
LEMMA NetSends ==
    ASSUME NetInv, NEW taken, NEW msgs \in SUBSET Packets,
           \A m \in msgs : m.kind # "Welcome",
           Transmit(taken, msgs), UNCHANGED seats
    PROVE  NetInv'
<1>1. /\ net' \subseteq Packets /\ Cardinality(net') <= MaxNet
      /\ \A m \in net' : m \in net \/ m \in msgs
  BY TransmitKeeps DEF NetInv
<1> QED
  BY <1>1 DEF NetInv

\* Delivering a packet, and sending others that admit nobody, keeps the network right.
LEMMA NetDelivers ==
    ASSUME NetInv, CountInv, NEW m, NEW msgs \in SUBSET Packets,
           \A x \in msgs : x.kind # "Welcome",
           Delivered(m, msgs), UNCHANGED seats
    PROVE  NetInv' /\ dups' \in 0 .. MaxDups
<1>1. dups \in 0 .. MaxDups
  BY DEF CountInv
<1>2. CASE Transmit({m}, msgs) /\ UNCHANGED dups
  BY <1>1, <1>2, NetSends
<1>3. CASE dups > 0 /\ dups' = dups - 1 /\ Transmit({}, msgs)
  <2>1. dups' \in 0 .. MaxDups
    BY <1>1, <1>3
  <2> QED
    BY <1>3, <2>1, NetSends
<1> QED
  BY <1>2, <1>3 DEF Delivered

\* An event taken from, or added to, a queue.
LEMMA QueueHead ==
    ASSUME NEW q \in Seq(Packets), q # <<>>
    PROVE  /\ Head(q) \in Packets /\ 1 \in DOMAIN q /\ Head(q) = q[1]
           /\ Tail(q) \in Seq(Packets) /\ Len(Tail(q)) = Len(q) - 1
           /\ \A k \in DOMAIN Tail(q) : k + 1 \in DOMAIN q /\ Tail(q)[k] = q[k + 1]
  OBVIOUS

\* A queue that grows has what it had, and the new entry.
LEMMA QueueAdd ==
    ASSUME NEW q \in Seq(Packets), NEW x \in Packets
    PROVE  /\ Append(q, x) \in Seq(Packets) /\ Len(Append(q, x)) = Len(q) + 1
           /\ \A k \in DOMAIN Append(q, x) :
                 (k \in DOMAIN q /\ Append(q, x)[k] = q[k]) \/ Append(q, x)[k] = x
  OBVIOUS

\* A packet handed to a control thread is the one received, but for its age.
LEMMA Handed ==
    ASSUME NEW m \in Packets
    PROVE  LET x == [m EXCEPT !.age = 0]
           IN  /\ x \in Packets /\ x.kind = m.kind /\ x.sess = m.sess /\ x.id = m.id
               /\ x.to = m.to
  BY FieldTypes DEF Packets

-----------------------------------------------------------------------------
(* Every step keeps the invariant: the host.                               *)

LEMMA HostLoopSteps ==
    ASSUME IInv, HostEvent \/ HostTimeout PROVE IInv'
<1>1. HostInv /\ ClientInv /\ NetInv /\ CountInv
  BY Parts
<1>2. PICK ev : /\ ev = NoEvent \/ ev \in Packets
                /\ hup /\ HostIteration(ev)
                /\ (hq' = Tail(hq) /\ hq # <<>>) \/ UNCHANGED hq
  <2>1. CASE HostEvent
    <3>1. Head(hq) \in Packets
      BY <1>1, <2>1, QueueHead DEF HostInv, HostEvent
    <3> QED
      BY <2>1, <3>1 DEF HostEvent
  <2>2. CASE HostTimeout
    BY <2>2 DEF HostTimeout
  <2> QED
    BY <2>1, <2>2
<1>3. /\ slots' \in Tables /\ hrx' \in [Slots -> {None} \cup RxAges]
      /\ hran' \in BOOLEAN
      /\ seats' \subseteq Sessions \X Slots \X Clients /\ seats \subseteq seats'
      /\ SeatInv' /\ AdmitInv'
      /\ net' \subseteq Packets /\ Cardinality(net') <= MaxNet
      /\ \A m \in net' : m.kind = "Welcome" => <<m.sess, m.id, m.to>> \in seats'
  BY <1>2, HostIterates
<1>4. UNCHANGED <<hup, session, rxaddr, clients, budget, silence>>
  BY <1>2 DEF HostIteration
<1>5. hq' \in Seq(Packets) /\ Len(hq') <= MaxQueue
  <2>1. hq \in Seq(Packets) /\ Len(hq) <= MaxQueue
    BY <1>1 DEF HostInv
  <2>2. CASE hq' = Tail(hq) /\ hq # <<>>
    <3>1. Tail(hq) \in Seq(Packets) /\ Len(Tail(hq)) = Len(hq) - 1
      BY <2>1, <2>2, QueueHead
    <3>2. Len(hq) \in Nat /\ MaxQueue \in Nat
      BY <2>1, FieldTypes
    <3> QED
      BY <2>1, <2>2, <3>1, <3>2
  <2>3. CASE UNCHANGED hq
    BY <2>1, <2>3
  <2> QED
    BY <1>2, <2>2, <2>3
<1>6. HostInv'
  BY <1>1, <1>2, <1>3, <1>4, <1>5 DEF HostInv, DownInv, budget
<1>7. ClientInv'
  BY <1>1, <1>3, <1>4, ClientsStay
<1>8. NetInv'
  BY <1>3 DEF NetInv
<1>9. CountInv'
  BY <1>1, <1>3, <1>4 DEF CountInv, budget
<1> QED
  BY <1>6, <1>7, <1>8, <1>9, PartsNext

\* The addresses that the control thread sends to the receive thread.
LEMMA TableType ==
    ASSUME NEW s \in Tables PROVE table(s) \in [Slots -> Clients \cup {Nobody}]
  BY Types DEF table, Tables

LEMMA RxHostSteps ==
    ASSUME IInv, NEW m \in net, RxHostPing(m) \/ RxHostAudio(m) \/ RxHostControl(m)
    PROVE  IInv'
<1>1. HostInv /\ ClientInv /\ NetInv /\ CountInv
  BY Parts
<1>2. m \in Packets
  BY <1>1 DEF NetInv
<1>3. PICK heard \in BOOLEAN, accepted \in BOOLEAN, msgs \in SUBSET Packets :
        /\ hup /\ RxHostEnd(m, heard, accepted) /\ (heard => vouched(m))
        /\ m.to = Host
        /\ Delivered(m, msgs) /\ \A x \in msgs : x.kind # "Welcome"
        /\ \/ UNCHANGED hq
           \/ Len(hq) < MaxQueue /\ hq' = Append(hq, [m EXCEPT !.age = 0])
  <2>1. CASE RxHostPing(m)
    <3>1. ToClient(m.from, "Pong", session, UNJOINED) \in Packets
      <4>1. m.from \in Clients /\ "Pong" \in ToClientKinds /\ session \in Sessions
        BY <1>1, <1>2, <2>1 DEF RxHostPing, HostInv, Packets, ToClientKinds, ToHostKinds
      <4> QED
        BY <4>1, FieldTypes, ToClientType
    <3> DEFINE pong == {ToClient(m.from, "Pong", session, UNJOINED)}
    <3>2. pong \in SUBSET Packets /\ \A x \in pong : x.kind # "Welcome"
      BY <3>1 DEF ToClient
    <3>3. RxHostEnd(m, FALSE, FALSE) /\ hup /\ Delivered(m, pong) /\ UNCHANGED hq
          /\ m.to = Host
      BY <2>1 DEF RxHostPing
    <3>4. FALSE \in BOOLEAN /\ (FALSE => vouched(m))
      OBVIOUS
    <3> HIDE DEF pong
    <3> QED
      BY <3>2, <3>3, <3>4, Zenon
  <2>2. CASE RxHostAudio(m)
    <3>1. PICK ok \in BOOLEAN : ok = (m.sess = session /\ vouched(m))
      OBVIOUS
    <3>2. RxHostEnd(m, ok, ok) /\ hup /\ Delivered(m, {}) /\ UNCHANGED hq /\ m.to = Host
      BY <2>2, <3>1 DEF RxHostAudio
    <3>3. {} \in SUBSET Packets /\ \A x \in {} : x.kind # "Welcome"
      OBVIOUS
    <3> QED
      BY <3>1, <3>2, <3>3, Zenon
  <2>3. CASE RxHostControl(m)
    <3>1. PICK ok \in BOOLEAN : ok = vouched(m)
      BY DEF vouched
    <3>2. /\ RxHostEnd(m, ok, TRUE) /\ hup /\ Delivered(m, {}) /\ Len(hq) < MaxQueue
          /\ hq' = Append(hq, [m EXCEPT !.age = 0]) /\ m.to = Host
      BY <2>3, <3>1 DEF RxHostControl
    <3>3. {} \in SUBSET Packets /\ \A x \in {} : x.kind # "Welcome"
      OBVIOUS
    <3> QED
      BY <3>1, <3>2, <3>3, Zenon
  <2> QED
    BY <2>1, <2>2, <2>3
<1>4. /\ hrx' = IF heard THEN [hrx EXCEPT ![m.id] = 0] ELSE hrx
      /\ silence' = IF accepted THEN [silence EXCEPT ![m.from] = 0] ELSE silence
      /\ rxaddr' = table(slots)
      /\ UNCHANGED <<hup, session, slots, hran, clients, hfaults, cfaults, starts, seats>>
  BY <1>3 DEF RxHostEnd
<1>5. hrx' \in [Slots -> {None} \cup RxAges] /\ silence' \in [Clients -> RxAges]
  BY <1>1, <1>4, Types DEF HostInv, CountInv
<1>6. hq' \in Seq(Packets) /\ Len(hq') <= MaxQueue
  <2>1. hq \in Seq(Packets) /\ Len(hq) <= MaxQueue
    BY <1>1 DEF HostInv
  <2>2. CASE UNCHANGED hq
    BY <2>1, <2>2
  <2>3. CASE Len(hq) < MaxQueue /\ hq' = Append(hq, [m EXCEPT !.age = 0])
    <3>1. PICK x \in Packets : x = [m EXCEPT !.age = 0]
      BY <1>2, Handed
    <3>2. hq' \in Seq(Packets) /\ Len(hq') = Len(hq) + 1
      BY <2>1, <2>3, <3>1, QueueAdd
    <3>3. Len(hq) \in Nat /\ MaxQueue \in Nat
      BY <2>1, FieldTypes
    <3> QED
      BY <2>3, <3>2, <3>3
  <2> QED
    BY <1>3, <2>2, <2>3
<1>7. rxaddr' \in [Slots -> Clients \cup {Nobody}]
  BY <1>1, <1>4, TableType DEF HostInv
<1>8. DownInv' /\ SeatInv' /\ AdmitInv'
  BY <1>1, <1>4 DEF HostInv, DownInv, SeatInv, AdmitInv, clients
<1>9. HostInv'
  BY <1>1, <1>4, <1>5, <1>6, <1>7, <1>8 DEF HostInv
<1>10. NetInv' /\ dups' \in 0 .. MaxDups
  BY <1>1, <1>3, <1>4, NetDelivers
<1>11. ClientInv'
  BY <1>1, <1>4, ClientsStay
<1>12. CountInv'
  BY <1>1, <1>4, <1>5, <1>10 DEF CountInv
<1> QED
  BY <1>9, <1>10, <1>11, <1>12, PartsNext

LEMMA RxHostTimeoutSteps ==
    ASSUME IInv, RxHostTimeout PROVE IInv'
<1>1. HostInv /\ ClientInv /\ NetInv /\ CountInv
  BY Parts
<1>2. rxaddr' \in [Slots -> Clients \cup {Nobody}]
  BY <1>1, TableType DEF HostInv, RxHostTimeout
<1>3. HostInv'
  BY <1>1, <1>2 DEF HostInv, RxHostTimeout, DownInv, SeatInv, AdmitInv, clients, budget
<1>4. ClientInv' /\ NetInv' /\ CountInv'
  BY <1>1, ClientsStay, NetStays, CountStays DEF RxHostTimeout
<1> QED
  BY <1>3, <1>4, PartsNext

LEMMA HostAudioSteps ==
    ASSUME IInv, NEW i \in Slots, HostAudio(i) PROVE IInv'
<1>1. HostInv /\ ClientInv /\ NetInv /\ CountInv
  BY Parts
<1>2. slots[i].addr \in Clients /\ session \in Sessions
  BY <1>1, Types DEF HostInv, HostAudio, Tables
<1>3. PICK x \in Packets : x.kind # "Welcome" /\ net' = net \cup {x}
  <2>1. "Audio" \in ToClientKinds
    BY DEF ToClientKinds
  <2> QED
    BY <1>2, <2>1, FieldTypes, ToClientType DEF HostAudio
<1>4. NetInv'
  BY <1>1, <1>3 DEF NetInv, HostAudio
<1>5. HostInv'
  BY <1>1, HostStays DEF HostAudio, clients, budget
<1>6. ClientInv' /\ CountInv'
  BY <1>1, ClientsStay, CountStays DEF HostAudio
<1> QED
  BY <1>4, <1>5, <1>6, PartsNext

\* An empty table is right in every session.
LEMMA Emptied ==
    /\ NoSlots \in Tables /\ \A i \in Slots : NoSlots[i] = Free
    /\ [i \in Slots |-> None] \in [Slots -> {None} \cup RxAges]
    /\ [i \in Slots |-> Nobody] \in [Slots -> Clients \cup {Nobody}]
    /\ <<>> \in Seq(Packets) /\ Len(<<>>) = 0
  BY DEF NoSlots, Tables

LEMMA HostEndsSteps ==
    ASSUME IInv, HostCrash \/ HostStop PROVE IInv'
<1>1. HostInv /\ ClientInv /\ NetInv /\ CountInv
  BY Parts
<1>2. PICK msgs \in SUBSET Packets : HostEnds(msgs) /\ \A m \in msgs : m.kind # "Welcome"
  <2>1. CASE HostCrash
    <3>1. {} \in SUBSET Packets /\ \A m \in {} : m.kind # "Welcome"
      OBVIOUS
    <3> QED
      BY <2>1, <3>1, Zenon DEF HostCrash
  <2>2. CASE HostStop
    <3> DEFINE byes == {ToClient(a, "Bye", session, UNJOINED) : a \in client_addrs(slots)}
    <3>1. client_addrs(slots) \subseteq Clients
      BY <1>1, Types DEF HostInv, Tables, client_addrs, occupied
    <3>2. "Bye" \in ToClientKinds /\ session \in Sessions
      BY <1>1 DEF ToClientKinds, HostInv
    <3>3. byes \in SUBSET Packets /\ \A m \in byes : m.kind # "Welcome"
      BY <3>1, <3>2, FieldTypes, ToClientType
    <3> QED
      BY <2>2, <3>3, Zenon DEF HostStop
  <2> QED
    BY <2>1, <2>2
<1>3. /\ hup /\ hfaults > 0
      /\ hfaults' = hfaults - 1
      /\ hup' = FALSE
      /\ slots' = NoSlots
      /\ hrx' = [i \in Slots |-> None]
      /\ rxaddr' = [i \in Slots |-> Nobody]
      /\ hq' = <<>>
      /\ hran' = FALSE
      /\ Transmit({}, msgs)
      /\ UNCHANGED <<session, clients, dups, cfaults, starts, silence, seats>>
  BY <1>2 DEF HostEnds
<1>4. hfaults' \in 0 .. MaxHostFaults
  BY <1>1, <1>3 DEF CountInv
<1>5. DownInv'
  <2>1. session = MaxHostFaults - hfaults + 1
    BY <1>1, <1>3 DEF HostInv, DownInv
  <2>2. hfaults \in Int /\ MaxHostFaults \in Int
    BY <1>1, FieldTypes DEF CountInv
  <2> QED
    BY <1>3, <2>1, <2>2 DEF DownInv
<1>6. SeatInv' /\ AdmitInv'
  BY <1>1, <1>3, Emptied DEF HostInv, SeatInv, AdmitInv, clients
<1>7. HostInv'
  <2>1. session' \in Sessions /\ hup' \in BOOLEAN /\ hran' \in BOOLEAN
    BY <1>1, <1>3 DEF HostInv
  <2>2. /\ slots' \in Tables /\ hrx' \in [Slots -> {None} \cup RxAges]
        /\ rxaddr' \in [Slots -> Clients \cup {Nobody}]
    BY <1>3, Emptied
  <2>3. hq' \in Seq(Packets) /\ Len(hq') <= MaxQueue
    BY <1>3, Emptied, FieldTypes
  <2> QED
    BY <1>5, <1>6, <2>1, <2>2, <2>3 DEF HostInv
<1>8. NetInv'
  BY <1>1, <1>2, <1>3, NetSends
<1>9. ClientInv'
  BY <1>1, <1>3, ClientsStay
<1>10. CountInv'
  BY <1>1, <1>3, <1>4 DEF CountInv
<1> QED
  BY <1>7, <1>8, <1>9, <1>10, PartsNext

LEMMA HostRestartSteps ==
    ASSUME IInv, HostRestart PROVE IInv'
<1>1. HostInv /\ ClientInv /\ NetInv /\ CountInv
  BY Parts
<1>2. /\ ~hup /\ hup' = TRUE /\ session' = session + 1
      /\ UNCHANGED <<slots, hrx, rxaddr, hq, hran, clients, net, budget, silence, seats>>
  BY DEF HostRestart
<1>3. slots = NoSlots /\ session = MaxHostFaults - hfaults
  <2>1. slots = NoSlots /\ session = MaxHostFaults - hfaults + 0
    BY <1>1, <1>2 DEF HostInv, DownInv
  <2>2. hfaults \in Int /\ MaxHostFaults \in Int
    BY <1>1, FieldTypes DEF CountInv
  <2> QED
    BY <2>1, <2>2
<1>4. session' \in Sessions /\ DownInv'
  <2>1. hfaults \in 0 .. MaxHostFaults /\ MaxHostFaults \in Nat /\ hfaults' = hfaults
    BY <1>1, <1>2, FieldTypes DEF CountInv, budget
  <2>2. session \in Sessions
    BY <1>1 DEF HostInv
  <2> QED
    BY <1>2, <1>3, <2>1, <2>2 DEF Sessions, DownInv
<1>5. SeatInv' /\ AdmitInv'
  BY <1>1, <1>2, <1>3, Emptied DEF HostInv, SeatInv, AdmitInv, clients
<1>6. HostInv'
  BY <1>1, <1>2, <1>4, <1>5 DEF HostInv
<1>7. ClientInv' /\ NetInv' /\ CountInv'
  BY <1>1, <1>2, ClientsStay, NetStays, CountStays
<1> QED
  BY <1>6, <1>7, PartsNext

-----------------------------------------------------------------------------
(* Every step keeps the invariant: the clients.                            *)

\* Only client c changes, and no other queue.
LEMMA ClientChanges ==
    ASSUME ClientInv, NEW c \in Clients, NEW cl \in ClientStates, Admitted(cl, c),
           client' = [client EXCEPT ![c] = cl],
           NEW q \in Seq(Packets), Len(q) <= MaxQueue, cq' = [cq EXCEPT ![c] = q],
           \A k \in DOMAIN q :
              q[k].kind = "Welcome" => <<q[k].sess, q[k].id, c>> \in seats,
           UNCHANGED <<wrong, seats>>
    PROVE  ClientInv'
<1>1. client' \in [Clients -> ClientStates] /\ cq' \in [Clients -> Seq(Packets)]
  BY DEF ClientInv
<1>2. ASSUME NEW d \in Clients
      PROVE  /\ Len(cq'[d]) <= MaxQueue
             /\ Admitted(client[d], d)'
             /\ \A k \in DOMAIN cq'[d] :
                   cq'[d][k].kind = "Welcome" => <<cq'[d][k].sess, cq'[d][k].id, d>> \in seats
  <2>1. CASE d = c
    <3>1. client'[d] = cl /\ cq'[d] = q
      BY <2>1 DEF ClientInv
    <3>2. Admitted(cl, c) /\ seats' = seats
      OBVIOUS
    <3>3. Admitted(client[d], d)'
      BY ONLY <2>1, <3>1, <3>2 DEF Admitted
    <3>4. \A k \in DOMAIN cq'[d] :
             cq'[d][k].kind = "Welcome" => <<cq'[d][k].sess, cq'[d][k].id, d>> \in seats
      BY <2>1, <3>1
    <3> QED
      BY <3>1, <3>3, <3>4
  <2>2. CASE d # c
    <3>1. client'[d] = client[d] /\ cq'[d] = cq[d]
      BY <2>2 DEF ClientInv
    <3> QED
      BY <3>1 DEF ClientInv, Admitted
  <2> QED
    BY <2>1, <2>2
<1> QED
  BY <1>1, <1>2 DEF ClientInv

LEMMA ClientLoopSteps ==
    ASSUME IInv, NEW c \in Clients, ClientEvent(c) \/ ClientTimeout(c) PROVE IInv'
<1>1. HostInv /\ ClientInv /\ NetInv /\ CountInv
  BY Parts
<1>2. client[c] \in ClientStates /\ Admitted(client[c], c)
      /\ cq[c] \in Seq(Packets) /\ Len(cq[c]) <= MaxQueue
  BY <1>1 DEF ClientInv
<1>3. PICK ev, q :
        /\ ev = NoEvent \/ ev \in Packets
        /\ ev.kind = "Welcome" => <<ev.sess, ev.id, c>> \in seats
        /\ ClientIteration(c, ev)
        /\ q \in Seq(Packets) /\ Len(q) <= MaxQueue /\ cq' = [cq EXCEPT ![c] = q]
        /\ \A k \in DOMAIN q :
              q[k].kind = "Welcome" => <<q[k].sess, q[k].id, c>> \in seats
  <2>1. CASE ClientEvent(c)
    <3>1. cq[c] # <<>> /\ ClientIteration(c, Head(cq[c])) /\ cq' = [cq EXCEPT ![c] = Tail(cq[c])]
      BY <1>1, <2>1 DEF ClientEvent, ClientInv
    <3>2. /\ Head(cq[c]) \in Packets /\ 1 \in DOMAIN cq[c] /\ Head(cq[c]) = cq[c][1]
          /\ Tail(cq[c]) \in Seq(Packets) /\ Len(Tail(cq[c])) = Len(cq[c]) - 1
          /\ \A k \in DOMAIN Tail(cq[c]) : k + 1 \in DOMAIN cq[c] /\ Tail(cq[c])[k] = cq[c][k + 1]
      BY <1>2, <3>1, QueueHead
    <3>3. \A k \in DOMAIN cq[c] :
             cq[c][k].kind = "Welcome" => <<cq[c][k].sess, cq[c][k].id, c>> \in seats
      BY <1>1 DEF ClientInv
    <3>4. Len(Tail(cq[c])) <= MaxQueue
      <4>1. Len(cq[c]) \in Nat /\ MaxQueue \in Nat
        BY <1>2, FieldTypes
      <4> QED
        BY <1>2, <3>2, <4>1
    <3>5. \A k \in DOMAIN Tail(cq[c]) : Tail(cq[c])[k].kind = "Welcome" =>
             <<Tail(cq[c])[k].sess, Tail(cq[c])[k].id, c>> \in seats
      BY <3>2, <3>3
    <3>6. Head(cq[c]).kind = "Welcome" => <<Head(cq[c]).sess, Head(cq[c]).id, c>> \in seats
      BY <3>2, <3>3
    <3> QED
      BY <3>1, <3>2, <3>4, <3>5, <3>6, Zenon
  <2>2. CASE ClientTimeout(c)
    <3>1. cq[c] = <<>> /\ ClientIteration(c, NoEvent) /\ cq' = [cq EXCEPT ![c] = cq[c]]
      BY <1>1, <2>2 DEF ClientTimeout, ClientInv
    <3>2. NoEvent.kind # "Welcome"
      BY DEF NoEvent
    <3>3. \A k \in DOMAIN cq[c] :
             cq[c][k].kind = "Welcome" => <<cq[c][k].sess, cq[c][k].id, c>> \in seats
      BY <1>1 DEF ClientInv
    <3> QED
      BY <1>2, <3>1, <3>2, <3>3, Zenon
  <2> QED
    BY <2>1, <2>2
<1> DEFINE cs1 == CS!on_control(client[c].cs, ev.kind)
           res == client_step(client[c], cs1, ev)
           msgs == {ToHost(c, "Ack", ev.sess, client[c].id) : x \in {"Welcome"} \cap {ev.kind}}
              \cup {ToHost(c, k, res.state.sess, res.state.id) :
                  k \in (IF res.hello THEN {"Hello"} ELSE {})
                        \cup (IF res.state.joined /\ ~client[c].ran
                              THEN {"Ping", "Keepalive"} ELSE {})}
<1>4. /\ client' = [client EXCEPT ![c] = res.state] /\ Transmit({}, msgs)
      /\ UNCHANGED <<host, wrong, budget, silence, seats>>
  BY <1>3 DEF ClientIteration
<1>5. res.state \in ClientStates /\ Admitted(res.state, c)
  BY <1>2, <1>3, StepAdmits
<1> HIDE DEF cs1, res
<1>6. msgs \in SUBSET Packets /\ \A m \in msgs : m.kind # "Welcome"
  <2> SUFFICES ASSUME NEW m \in msgs PROVE m \in Packets /\ m.kind # "Welcome"
    OBVIOUS
  <2>1. CASE ev.kind = "Welcome" /\ m = ToHost(c, "Ack", ev.sess, client[c].id)
    <3>1. ev \in Packets
      BY <1>3, <2>1 DEF NoEvent
    <3>2. ev.sess \in Sessions \cup {UNJOINED}
      BY <3>1 DEF Packets
    <3>3. client[c].id \in Ids
      BY <1>2 DEF ClientStates
    <3>4. "Ack" \in ToHostKinds
      BY DEF ToHostKinds
    <3> QED
      BY <2>1, <3>2, <3>3, <3>4, ToHostType
  <2>2. CASE \E k \in {"Hello", "Ping", "Keepalive"} :
                m = ToHost(c, k, res.state.sess, res.state.id)
    <3>1. res.state.sess \in Sessions \cup {UNJOINED} /\ res.state.id \in Ids
      BY <1>5 DEF ClientStates
    <3>2. {"Hello", "Ping", "Keepalive"} \subseteq ToHostKinds
      BY DEF ToHostKinds
    <3> QED
      BY <2>2, <3>1, <3>2, ToHostType
  <2> QED
    BY <2>1, <2>2
<1> HIDE DEF msgs
<1>7. ClientInv'
  BY <1>1, <1>3, <1>4, <1>5, ClientChanges
<1>8. NetInv'
  BY <1>1, <1>4, <1>6, NetSends
<1>9. HostInv' /\ CountInv'
  BY <1>1, <1>4, HostStays, CountStays DEF budget
<1> QED
  BY <1>7, <1>8, <1>9, PartsNext

LEMMA ClientAudioSteps ==
    ASSUME IInv, NEW c \in Clients, ClientAudio(c) PROVE IInv'
<1>1. HostInv /\ ClientInv /\ NetInv /\ CountInv
  BY Parts
<1>2. client[c].sess \in Sessions \cup {UNJOINED} /\ client[c].id \in Ids
  BY <1>1 DEF ClientInv, ClientStates
<1>3. PICK x \in Packets : x.kind # "Welcome" /\ net' = net \cup {x}
  <2>1. "Audio" \in ToHostKinds
    BY DEF ToHostKinds
  <2> QED
    BY <1>2, <2>1, ToHostType DEF ClientAudio
<1>4. NetInv'
  BY <1>1, <1>3 DEF NetInv, ClientAudio
<1>5. HostInv'
  BY <1>1, HostStays DEF ClientAudio, clients, budget
<1>6. ClientInv' /\ CountInv'
  BY <1>1, ClientsStay, CountStays DEF ClientAudio
<1> QED
  BY <1>4, <1>5, <1>6, PartsNext

\* A client process that has not been welcomed yet, or is not there.
LEMMA StartedType ==
    /\ Started \in ClientStates /\ Down \in ClientStates
    /\ ~Started.joined /\ ~Down.joined
<1>1. UNJOINED \in Ids /\ 0 \in RxAges /\ REJOIN_WINDOW \in {None} \cup 0 .. REJOIN_WINDOW
  BY FieldTypes, Types
<1>2. CS!Joining \in CS!Phases
  BY DEF CS!Joining, CS!Phases
<1>3. Started \in ClientStates /\ ~Started.joined
  BY <1>1, <1>2 DEF Started, ClientStates
<1>4. Down = [Started EXCEPT !.up = FALSE]
  BY DEF Down
<1>5. Down \in ClientStates /\ Down.joined = Started.joined
  BY <1>3, <1>4 DEF ClientStates
<1> QED
  BY <1>3, <1>5

\* Hearing of the host changes nothing in what a client has been given.
LEMMA HeardHost ==
    ASSUME NEW cl \in ClientStates, NEW c, Admitted(cl, c)
    PROVE  [cl EXCEPT !.rx = 0] \in ClientStates /\ Admitted([cl EXCEPT !.rx = 0], c)
<1> DEFINE st == [cl EXCEPT !.rx = 0]
<1>1. /\ st \in ClientStates /\ st.joined = cl.joined /\ st.cs = cl.cs
      /\ st.sess = cl.sess /\ st.id = cl.id
  BY Types DEF ClientStates
<1> HIDE DEF st
<1>2. Admitted(st, c)
  BY <1>1 DEF Admitted
<1> QED
  BY <1>1, <1>2 DEF st

LEMMA RxClientSteps ==
    ASSUME IInv, NEW m \in net, m.to \in Clients,
           RxClientPing(m) \/ RxClientAudio(m) \/ RxClientControl(m)
    PROVE  IInv'
<1>1. HostInv /\ ClientInv /\ NetInv /\ CountInv
  BY Parts
<1>2. m \in Packets /\ (m.kind = "Welcome" => <<m.sess, m.id, m.to>> \in seats)
  BY <1>1 DEF NetInv
<1> DEFINE c == m.to
<1>3. /\ client[c] \in ClientStates /\ Admitted(client[c], c)
      /\ cq[c] \in Seq(Packets) /\ Len(cq[c]) <= MaxQueue
      /\ \A k \in DOMAIN cq[c] :
            cq[c][k].kind = "Welcome" => <<cq[c][k].sess, cq[c][k].id, c>> \in seats
      /\ client = [client EXCEPT ![c] = client[c]] /\ cq = [cq EXCEPT ![c] = cq[c]]
  BY <1>1 DEF ClientInv
<1> DEFINE hears == [client[c] EXCEPT !.rx = 0]
<1>4. hears \in ClientStates /\ Admitted(hears, c)
  BY <1>3, HeardHost
<1>5. UNCHANGED <<host, wrong, hfaults, cfaults, starts, silence, seats>>
  BY DEF RxClientPing, RxClientAudio, RxClientControl, clients
<1>6. NetInv' /\ dups' \in 0 .. MaxDups
  <2>1. CASE RxClientPing(m)
    <3> DEFINE pong == {ToHost(c, "Pong", client[c].sess, client[c].id)}
    <3>1. client[c].sess \in Sessions \cup {UNJOINED} /\ client[c].id \in Ids
      BY <1>3 DEF ClientStates
    <3>4. "Pong" \in ToHostKinds
      BY DEF ToHostKinds
    <3>5. ToHost(c, "Pong", client[c].sess, client[c].id) \in Packets
      BY <3>1, <3>4, ToHostType
    <3>2. pong \in SUBSET Packets /\ \A x \in pong : x.kind # "Welcome"
      BY <3>5 DEF ToHost
    <3>3. Delivered(m, pong)
      BY <2>1 DEF RxClientPing
    <3> QED
      BY <1>1, <1>5, <3>2, <3>3, NetDelivers
  <2>2. CASE Delivered(m, {})
    <3>1. {} \in SUBSET Packets /\ \A x \in {} : x.kind # "Welcome"
      OBVIOUS
    <3> QED
      BY <1>1, <1>5, <2>2, <3>1, NetDelivers
  <2> QED
    BY <2>1, <2>2 DEF RxClientAudio, RxClientControl
<1>7. ClientInv'
  <2>1. CASE UNCHANGED clients
    BY <1>1, <1>5, <2>1, ClientsStay
  <2>2. CASE client' = [client EXCEPT ![c] = hears] /\ UNCHANGED cq
    <3> HIDE DEF hears, c
    <3>1. cq' = [cq EXCEPT ![c] = cq[c]] /\ c \in Clients
      BY <1>3, <2>2 DEF c
    <3> QED
      BY <1>1, <1>3, <1>4, <1>5, <2>2, <3>1, ClientChanges
  <2>3. CASE /\ client' = [client EXCEPT ![c] = hears] /\ Len(cq[c]) < MaxQueue
             /\ cq' = [cq EXCEPT ![c] = Append(cq[c], [m EXCEPT !.age = 0])]
    <3>1. PICK x \in Packets : /\ x = [m EXCEPT !.age = 0]
                               /\ x.kind = m.kind /\ x.sess = m.sess /\ x.id = m.id
      BY <1>2, Handed
    <3> DEFINE q == Append(cq[c], x)
    <3>2. q \in Seq(Packets) /\ Len(q) = Len(cq[c]) + 1
          /\ \A k \in DOMAIN q : (k \in DOMAIN cq[c] /\ q[k] = cq[c][k]) \/ q[k] = x
      BY <1>3, QueueAdd
    <3>3. cq' = [cq EXCEPT ![c] = q]
      BY <2>3, <3>1
    <3> HIDE DEF q, hears
    <3>4. Len(q) <= MaxQueue
      <4>1. Len(cq[c]) \in Nat /\ MaxQueue \in Nat
        BY <1>3, FieldTypes
      <4> QED
        BY <2>3, <3>2, <4>1
    <3>5. \A k \in DOMAIN q : q[k].kind = "Welcome" => <<q[k].sess, q[k].id, c>> \in seats
      BY <1>2, <1>3, <3>1, <3>2
    <3>6. c \in Clients
      OBVIOUS
    <3> HIDE DEF c
    <3> QED
      BY <1>1, <1>4, <1>5, <2>3, <3>2, <3>3, <3>4, <3>5, <3>6, ClientChanges
  <2>4. CASE RxClientPing(m)
    BY <2>1, <2>4 DEF RxClientPing
  <2>5. CASE RxClientAudio(m)
    BY <2>1, <2>2, <2>5 DEF RxClientAudio, clients
  <2>6. CASE RxClientControl(m)
    BY <2>2, <2>3, <2>6 DEF RxClientControl
  <2> QED
    BY <2>4, <2>5, <2>6
<1>8. HostInv'
  BY <1>1, <1>5, HostStays
<1>9. CountInv'
  BY <1>1, <1>5, <1>6 DEF CountInv
<1> QED
  BY <1>6, <1>7, <1>8, <1>9, PartsNext

LEMMA ClientStartSteps ==
    ASSUME IInv, NEW c \in Clients, ClientStart(c) PROVE IInv'
<1>1. HostInv /\ ClientInv /\ NetInv /\ CountInv
  BY Parts
<1>2. /\ starts[c] > 0
      /\ starts' = [starts EXCEPT ![c] = @ - 1]
      /\ client' = [client EXCEPT ![c] = Started]
      /\ cq' = [cq EXCEPT ![c] = <<>>]
      /\ Transmit({}, {ToHost(c, "Hello", UNJOINED, UNJOINED)})
      /\ UNCHANGED <<host, wrong, dups, hfaults, cfaults, silence, seats>>
  BY DEF ClientStart
<1>3. Admitted(Started, c) /\ Started \in ClientStates
  BY StartedType DEF Admitted
<1>4. ClientInv'
  <2>1. /\ <<>> \in Seq(Packets) /\ Len(<<>>) <= MaxQueue
        /\ \A k \in DOMAIN <<>> : <<>>[k].kind = "Welcome" =>
                                     <<<<>>[k].sess, <<>>[k].id, c>> \in seats
    BY FieldTypes
  <2>2. UNCHANGED <<wrong, seats>>
    BY <1>2
  <2> QED
    BY <1>1, <1>2, <1>3, <2>1, <2>2, ClientChanges
<1>5. NetInv'
  <2> DEFINE hello == {ToHost(c, "Hello", UNJOINED, UNJOINED)}
  <2>1. hello \in SUBSET Packets /\ \A x \in hello : x.kind # "Welcome"
    BY FieldTypes, ToHostType DEF ToHostKinds
  <2> QED
    BY <1>1, <1>2, <2>1, NetSends
<1>6. HostInv'
  BY <1>1, <1>2, HostStays
<1>7. CountInv'
  <2>1. starts' \in [Clients -> 0 .. MaxStarts]
    BY <1>1, <1>2 DEF CountInv
  <2> QED
    BY <1>1, <1>2, <2>1 DEF CountInv
<1> QED
  BY <1>4, <1>5, <1>6, <1>7, PartsNext

LEMMA ClientEndsSteps ==
    ASSUME IInv, NEW c \in Clients, ClientCrash(c) \/ ClientLeave(c) PROVE IInv'
<1>1. HostInv /\ ClientInv /\ NetInv /\ CountInv
  BY Parts
<1>2. PICK msgs \in SUBSET Packets : ClientEnds(c, msgs) /\ \A m \in msgs : m.kind # "Welcome"
  <2>1. CASE ClientCrash(c)
    <3>1. {} \in SUBSET Packets /\ \A m \in {} : m.kind # "Welcome"
      OBVIOUS
    <3> QED
      BY <2>1, <3>1, Zenon DEF ClientCrash
  <2>2. CASE ClientLeave(c)
    <3> DEFINE byes == {ToHost(c, "Bye", client[c].sess, client[c].id)}
    <3>1. client[c].sess \in Sessions \cup {UNJOINED} /\ client[c].id \in Ids
          /\ "Bye" \in ToHostKinds
      BY <1>1 DEF ClientInv, ClientStates, ToHostKinds
    <3>2. byes \in SUBSET Packets /\ \A m \in byes : m.kind # "Welcome"
      BY <3>1, ToHostType
    <3> QED
      BY <2>2, <3>2, Zenon DEF ClientLeave
  <2> QED
    BY <2>1, <2>2
<1>3. /\ cfaults > 0
      /\ cfaults' = cfaults - 1
      /\ client' = [client EXCEPT ![c] = Down]
      /\ cq' = [cq EXCEPT ![c] = <<>>]
      /\ Transmit({}, msgs)
      /\ UNCHANGED <<host, wrong, dups, hfaults, starts, silence, seats>>
  BY <1>2 DEF ClientEnds
<1>4. Admitted(Down, c) /\ Down \in ClientStates
  BY StartedType DEF Admitted
<1>5. ClientInv'
  <2>1. /\ <<>> \in Seq(Packets) /\ Len(<<>>) <= MaxQueue
        /\ \A k \in DOMAIN <<>> : <<>>[k].kind = "Welcome" =>
                                     <<<<>>[k].sess, <<>>[k].id, c>> \in seats
    BY FieldTypes
  <2>2. UNCHANGED <<wrong, seats>>
    BY <1>3
  <2> QED
    BY <1>1, <1>3, <1>4, <2>1, <2>2, ClientChanges
<1>6. NetInv'
  BY <1>1, <1>2, <1>3, NetSends
<1>7. HostInv'
  BY <1>1, <1>3, HostStays
<1>8. CountInv'
  BY <1>1, <1>3 DEF CountInv
<1> QED
  BY <1>5, <1>6, <1>7, <1>8, PartsNext

-----------------------------------------------------------------------------
(* Every step keeps the invariant: time passes.                            *)

LEMMA OlderType ==
    ASSUME NEW cap \in Nat, NEW a \in 0 .. cap PROVE Older(a, cap) \in 0 .. cap
  BY DEF Older

\* Time changes nothing in who is in the table.
LEMMA SlotsOlderKeeps ==
    ASSUME NEW s \in Tables
    PROVE  SlotsOlder(s) \in Tables /\ Same(s, SlotsOlder(s))
<1>1. ASSUME NEW i \in Slots
      PROVE  /\ SlotsOlder(s)[i] \in {Free} \cup Taken
             /\ SlotsOlder(s)[i] # Free <=> s[i] # Free
             /\ SlotsOlder(s)[i] # Free => SlotsOlder(s)[i].addr = s[i].addr
  <2>1. CASE s[i] = Free
    BY <2>1 DEF SlotsOlder
  <2>2. CASE s[i] # Free
    <3>1. s[i] \in Taken
      BY <2>2 DEF Tables
    <3>2. s[i].heard \in 0 .. PEER_TIMEOUT + 1
      BY <3>1, Types DEF RxAges
    <3> DEFINE h == Older(s[i].heard, PEER_TIMEOUT + 1)
    <3>3. h \in RxAges
      BY <3>2, OlderType DEF RxAges
    <3>4. CASE s[i].state = "Active"
      <4>1. s[i] \in [state : {"Active"}, addr : Clients, heard : RxAges]
        BY <3>1, <3>4 DEF Taken
      <4>2. SlotsOlder(s)[i] = [s[i] EXCEPT !.heard = h]
        BY <2>2, <3>4 DEF SlotsOlder
      <4> HIDE DEF h
      <4>3. /\ [s[i] EXCEPT !.heard = h]
                  \in [state : {"Active"}, addr : Clients, heard : RxAges]
            /\ [s[i] EXCEPT !.heard = h].addr = s[i].addr
        BY <3>3, <4>1
      <4>4. SlotsOlder(s)[i] \in Taken /\ SlotsOlder(s)[i].addr = s[i].addr
        BY <4>2, <4>3 DEF Taken
      <4> QED
        BY <2>2, <4>4, Types
    <3>5. CASE s[i].state # "Active"
      <4>1. s[i] \in [state : {"Pending"}, addr : Clients, heard : RxAges, tx : TxAges,
                      tries : Tries]
        BY <3>1, <3>5 DEF Taken
      <4> DEFINE t == Older(s[i].tx, CONTROL_RETRY)
      <4>2. SlotsOlder(s)[i] = [s[i] EXCEPT !.heard = h, !.tx = t]
        BY <2>2, <3>5 DEF SlotsOlder
      <4>3. t \in TxAges
        BY <4>1, OlderType DEF TxAges
      <4> HIDE DEF h, t
      <4>4. /\ [s[i] EXCEPT !.heard = h, !.tx = t]
                  \in [state : {"Pending"}, addr : Clients, heard : RxAges, tx : TxAges,
                       tries : Tries]
            /\ [s[i] EXCEPT !.heard = h, !.tx = t].addr = s[i].addr
        BY <3>3, <4>1, <4>3
      <4>5. SlotsOlder(s)[i] \in Taken /\ SlotsOlder(s)[i].addr = s[i].addr
        BY <4>2, <4>4 DEF Taken
      <4> QED
        BY <2>2, <4>5, Types
    <3> QED
      BY <3>4, <3>5
  <2> QED
    BY <2>1, <2>2
<1>2. SlotsOlder(s) = [i \in Slots |-> SlotsOlder(s)[i]]
  BY DEF SlotsOlder
<1>3. SlotsOlder(s) \in Tables
  BY <1>1, <1>2, Zenon DEF Tables
<1> QED
  BY <1>1, <1>3 DEF Same, Keeps

LEMMA ClientOlderKeeps ==
    ASSUME NEW cl \in ClientStates, NEW c, Admitted(cl, c)
    PROVE  ClientOlder(cl) \in ClientStates /\ Admitted(ClientOlder(cl), c)
<1>1. CASE ~cl.up
  BY <1>1 DEF ClientOlder
<1>2. CASE cl.up
  <2> DEFINE phase == CS!PhaseOlder(cl.cs)
             r == IF cl.joined THEN Older(cl.rx, PEER_TIMEOUT + 1) ELSE cl.rx
             d == IF cl.deadline > 0 THEN cl.deadline - 1 ELSE cl.deadline
             st == [cl EXCEPT !.cs = phase, !.rx = r, !.deadline = d, !.ran = FALSE]
  <2>1. ClientOlder(cl) = st
    BY <1>2 DEF ClientOlder
  <2>2. phase \in CS!Phases /\ (cl.cs = CS!Joined => phase = CS!Joined)
    BY PhaseKeeps DEF ClientStates
  <2>3. r \in RxAges
    <3>1. cl.rx \in 0 .. PEER_TIMEOUT + 1
      BY DEF ClientStates, RxAges
    <3> QED
      BY <3>1, OlderType DEF RxAges
  <2>4. d \in {None} \cup 0 .. REJOIN_WINDOW
    BY DEF ClientStates, None
  <2> HIDE DEF phase, r, d
  <2>5. /\ st \in ClientStates /\ st.joined = cl.joined /\ st.cs = phase
        /\ st.sess = cl.sess /\ st.id = cl.id
    BY <2>2, <2>3, <2>4 DEF ClientStates
  <2> HIDE DEF st
  <2>6. Admitted(st, c)
    BY <2>2, <2>5 DEF Admitted
  <2> QED
    BY <2>1, <2>5, <2>6
<1> QED
  BY <1>1, <1>2

\* The datagrams under way grow older, and the oldest are lost.
LEMMA NetOlder ==
    ASSUME NetInv, UNCHANGED seats,
           net' = {[m EXCEPT !.age = @ + 1] : m \in {x \in net : x.age < MaxDelay}}
    PROVE  NetInv'
<1> DEFINE S == {x \in net : x.age < MaxDelay}
           f == [m \in S |-> [m EXCEPT !.age = @ + 1]]
<1>1. net \subseteq Packets /\ IsFiniteSet(net) /\ Cardinality(net) <= MaxNet
  BY PacketsFinite, FS_Subset DEF NetInv
<1>2. IsFiniteSet(S) /\ Cardinality(S) <= Cardinality(net)
  BY <1>1, FS_Subset
<1>3. f \in [S -> net'] /\ \A x \in net' : \E m \in S : f[m] = x
  OBVIOUS
<1>4. f \in Surjection(S, net')
  BY <1>3 DEF Surjection
<1>5. IsFiniteSet(net') /\ Cardinality(net') <= Cardinality(S)
  BY <1>2, <1>4, FS_Surjection
<1>6. Cardinality(net') <= MaxNet
  <2>1. /\ Cardinality(net') \in Nat /\ Cardinality(S) \in Nat
        /\ Cardinality(net) \in Nat /\ MaxNet \in Nat
    BY <1>1, <1>2, <1>5, FS_CardinalityType, FieldTypes
  <2> QED
    BY <1>1, <1>2, <1>5, <2>1
<1>7. ASSUME NEW m \in Packets, m.age < MaxDelay
      PROVE  LET x == [m EXCEPT !.age = @ + 1]
             IN  /\ x \in Packets /\ x.kind = m.kind /\ x.sess = m.sess
                 /\ x.id = m.id /\ x.to = m.to
  <2>1. m.age \in 0 .. MaxDelay /\ MaxDelay \in Nat
    BY FieldTypes DEF Packets
  <2>2. PICK a \in 0 .. MaxDelay : a = m.age + 1
    BY <1>7, <2>1
  <2>3. [m EXCEPT !.age = @ + 1] = [m EXCEPT !.age = a]
    BY <2>2
  <2> QED
    BY <2>3 DEF Packets
<1>8. \A x \in net' : \E m \in net : /\ x \in Packets /\ x.kind = m.kind /\ x.sess = m.sess
                                     /\ x.id = m.id /\ x.to = m.to
  <2> SUFFICES ASSUME NEW x \in net'
               PROVE  \E m \in net :
                         /\ x \in Packets /\ x.kind = m.kind /\ x.sess = m.sess
                         /\ x.id = m.id /\ x.to = m.to
    OBVIOUS
  <2>1. PICK m \in net : m.age < MaxDelay /\ x = [m EXCEPT !.age = @ + 1]
    OBVIOUS
  <2>2. m \in Packets
    BY <1>1
  <2> QED
    BY <1>7, <2>1, <2>2
<1> QED
  BY <1>6, <1>8 DEF NetInv

LEMMA ElapseSteps ==
    ASSUME IInv, Elapse PROVE IInv'
<1>1. HostInv /\ ClientInv /\ NetInv /\ CountInv
  BY Parts
<1>2. /\ hran' = FALSE
      /\ slots' = SlotsOlder(slots)
      /\ hrx' = [i \in Slots |->
                    IF hrx[i] = None THEN None ELSE Older(hrx[i], PEER_TIMEOUT + 1)]
      /\ client' = [c \in Clients |-> ClientOlder(client[c])]
      /\ silence' = [c \in Clients |-> Older(silence[c], PEER_TIMEOUT + 1)]
      /\ net' = {[m EXCEPT !.age = @ + 1] : m \in {x \in net : x.age < MaxDelay}}
      /\ UNCHANGED <<hup, session, rxaddr, hq, wrong, cq, budget, seats>>
  BY DEF Elapse
<1>3. \A a \in RxAges : Older(a, PEER_TIMEOUT + 1) \in RxAges
  BY OlderType DEF RxAges
<1>4. slots' \in Tables /\ Same(slots, slots')
  BY <1>1, <1>2, SlotsOlderKeeps DEF HostInv
<1>5. hrx' \in [Slots -> {None} \cup RxAges]
  BY <1>1, <1>2, <1>3 DEF HostInv
<1>6. DownInv'
  <2>1. ASSUME ~hup PROVE slots' = NoSlots
    <3>1. slots = NoSlots
      BY <1>1, <2>1 DEF HostInv, DownInv
    <3> QED
      BY <1>2, <3>1 DEF SlotsOlder, NoSlots
  <2>2. session = MaxHostFaults - hfaults + (IF hup THEN 1 ELSE 0)
    BY <1>1 DEF HostInv, DownInv
  <2>3. UNCHANGED <<hup, session, hfaults>>
    BY <1>2 DEF budget
  <2> QED
    BY <2>1, <2>2, <2>3 DEF DownInv
<1>7. SeatInv'
  <2>1. \A i \in Slots : slots'[i] # Free => slots[i] # Free /\ slots'[i].addr = slots[i].addr
    BY <1>4 DEF Same, Keeps
  <2>2. UNCHANGED <<session, seats>>
    BY <1>2
  <2>3. SeatInv
    BY <1>1 DEF HostInv
  <2> QED
    BY <2>1, <2>2, <2>3 DEF SeatInv
<1>8. AdmitInv'
  BY <1>1, <1>2 DEF HostInv, AdmitInv
<1>9. HostInv'
  BY <1>1, <1>2, <1>4, <1>5, <1>6, <1>7, <1>8 DEF HostInv
<1>10. ClientInv'
  <2>1. \A c \in Clients :
           /\ client'[c] = ClientOlder(client[c])
           /\ client'[c] \in ClientStates /\ Admitted(ClientOlder(client[c]), c)
    BY <1>1, <1>2, ClientOlderKeeps DEF ClientInv
  <2>2. \A c \in Clients : Admitted(client[c], c)'
    BY <1>2, <2>1 DEF Admitted
  <2>3. client' \in [Clients -> ClientStates]
    BY <1>2, <2>1
  <2> QED
    BY <1>1, <1>2, <2>2, <2>3 DEF ClientInv
<1>11. NetInv'
  BY <1>1, <1>2, NetOlder
<1>12. CountInv'
  <2>1. silence' \in [Clients -> RxAges]
    BY <1>1, <1>2, <1>3 DEF CountInv
  <2> QED
    BY <1>1, <1>2, <2>1 DEF CountInv, budget
<1> QED
  BY <1>9, <1>10, <1>11, <1>12, PartsNext

-----------------------------------------------------------------------------
(* The theorems.                                                           *)

LEMMA InitIInv == Init => IInv
<1> SUFFICES ASSUME Init PROVE IInv
  OBVIOUS
<1>1. /\ hup = TRUE /\ session = 1 /\ slots = NoSlots /\ hrx = [i \in Slots |-> None]
      /\ rxaddr = [i \in Slots |-> Nobody] /\ hq = <<>> /\ hran = FALSE
      /\ wrong \subseteq MayBeWrong /\ client = [c \in Clients |-> Down]
      /\ cq = [c \in Clients |-> <<>>] /\ net = {}
      /\ dups = MaxDups /\ hfaults = MaxHostFaults /\ cfaults = MaxClientFaults
      /\ starts = [c \in Clients |-> MaxStarts]
      /\ silence = [c \in Clients |-> 0] /\ seats = {}
  BY DEF Init
<1>2. 1 \in Sessions /\ MaxHostFaults \in Int
  BY FieldTypes DEF Sessions
<1>3. DownInv
  BY <1>1, <1>2 DEF DownInv
<1>4. SeatInv /\ AdmitInv
  BY <1>1, Emptied DEF SeatInv, AdmitInv
<1>5. HostInv
  <2>1. Len(hq) <= MaxQueue /\ hq \in Seq(Packets)
    BY <1>1, FieldTypes
  <2> QED
    BY <1>1, <1>2, <1>3, <1>4, <2>1, Emptied DEF HostInv
<1>6. ClientInv
  <2>1. \A c \in Clients : client[c] = Down /\ cq[c] = <<>>
    BY <1>1
  <2>2. \A c \in Clients : Admitted(client[c], c)
    BY <2>1, StartedType DEF Admitted
  <2>3. client \in [Clients -> ClientStates]
    BY <1>1, StartedType
  <2>4. cq \in [Clients -> Seq(Packets)] /\ \A c \in Clients : Len(cq[c]) <= MaxQueue
    BY <1>1, <2>1, FieldTypes
  <2>5. \A c \in Clients : DOMAIN cq[c] = {}
    BY <2>1
  <2> QED
    BY <1>1, <2>2, <2>3, <2>4, <2>5 DEF ClientInv
<1>7. NetInv
  <2>1. Cardinality({}) = 0 /\ 0 <= MaxNet
    BY FS_EmptySet, FieldTypes
  <2> QED
    BY <1>1, <2>1 DEF NetInv
<1>8. CountInv
  <2>1. /\ MaxDups \in Nat /\ MaxHostFaults \in Nat /\ MaxClientFaults \in Nat
        /\ MaxStarts \in Nat
    OBVIOUS
  <2> QED
    BY <1>1, <2>1, Types DEF CountInv
<1> QED
  BY <1>5, <1>6, <1>7, <1>8, Parts

LEMMA StutterSteps == ASSUME IInv, UNCHANGED vars PROVE IInv'
<1>1. HostInv /\ ClientInv /\ NetInv /\ CountInv
  BY Parts
<1>2. UNCHANGED <<host, clients, net, budget, silence, seats>>
  BY DEF vars
<1> QED
  BY <1>1, <1>2, HostStays, ClientsStay, NetStays, CountStays, PartsNext
     DEF clients, budget

LEMMA NextIInv == IInv /\ [Next]_vars => IInv'
<1> SUFFICES ASSUME IInv, [Next]_vars PROVE IInv'
  OBVIOUS
<1>1. CASE HostEvent \/ HostTimeout
  BY <1>1, HostLoopSteps
<1>2. CASE RxHost
  BY <1>2, RxHostSteps DEF RxHost
<1>3. CASE RxHostTimeout
  BY <1>3, RxHostTimeoutSteps
<1>4. CASE \E i \in Slots : HostAudio(i)
  BY <1>4, HostAudioSteps
<1>5. ASSUME NEW c \in Clients, ClientEvent(c) \/ ClientTimeout(c) PROVE IInv'
  BY <1>5, ClientLoopSteps
<1>6. ASSUME NEW c \in Clients, RxClient(c) PROVE IInv'
  BY <1>6, RxClientSteps DEF RxClient
<1>7. ASSUME NEW c \in Clients, ClientAudio(c) PROVE IInv'
  BY <1>7, ClientAudioSteps
<1>8. CASE HostCrash \/ HostStop
  BY <1>8, HostEndsSteps
<1>9. CASE HostRestart
  BY <1>9, HostRestartSteps
<1>10. ASSUME NEW c \in Clients, ClientStart(c) PROVE IInv'
  BY <1>10, ClientStartSteps
<1>11. ASSUME NEW c \in Clients, ClientCrash(c) \/ ClientLeave(c) PROVE IInv'
  BY <1>11, ClientEndsSteps
<1>12. CASE Elapse
  BY <1>12, ElapseSteps
<1>13. CASE UNCHANGED vars
  BY <1>13, StutterSteps
<1> QED
  BY <1>1, <1>2, <1>3, <1>4, <1>5, <1>6, <1>7, <1>8, <1>9, <1>10, <1>11, <1>12, <1>13
     DEF Next

\* Whatever is lost, repeated or late, and whoever crashes or restarts.
THEOREM Invariant == Spec => []IInv
  BY InitIInv, NextIInv, PTL DEF Spec

\* Every variable of the session keeps to its type: the slot table of the host, the
\* phases of the clients, the bounded queues and the datagrams under way.
THEOREM TypeCorrect == Spec => []TypeOK
<1>1. IInv => TypeOK
  BY DEF IInv
<1> QED
  BY <1>1, Invariant, PTL

\* on_hello gives a client address one slot at most, however its HELLOs are
\* repeated, delayed or duplicated, and across its restarts.
THEOREM OneSlotEach == Spec => []OneSlotPerAddress
<1>1. IInv => OneSlotPerAddress
  BY DEF IInv, SeatInv, OneSlotPerAddress, occupied
<1> QED
  BY <1>1, Invariant, PTL

\* A client with another room code never gets a slot of the host (on_hello) and
\* never takes itself for joined, whatever WELCOMEs are under way.
THEOREM CodeIsNeeded == Spec => []NoEntryWithoutCode
<1>1. IInv => NoEntryWithoutCode
  <2> SUFFICES ASSUME IInv, NEW c \in wrong
               PROVE  c \notin client_addrs(slots) /\ ~client[c].joined
    BY DEF NoEntryWithoutCode
  <2>1. c \in Clients
    BY DEF IInv, TypeOK
  <2>2. \A s, i : <<s, i, c>> \notin seats
    BY DEF IInv, AdmitInv
  <2>3. c \notin client_addrs(slots)
    BY <2>2 DEF IInv, SeatInv, client_addrs, occupied
  <2>4. ~client[c].joined
    BY <2>1, <2>2 DEF IInv, JoinedWasAdmitted
  <2> QED
    BY <2>3, <2>4
<1> QED
  BY <1>1, Invariant, PTL

\* A client that is joined has a sender id and a session that a host did give to
\* it (on_hello, tick), however late or repeated the WELCOME it took them from.
THEOREM JoinedAlwaysAdmitted == Spec => []JoinedWasAdmitted
<1>1. IInv => JoinedWasAdmitted
  BY DEF IInv
<1> QED
  BY <1>1, Invariant, PTL
-----------------------------------------------------------------------------
(* Clients that are settled.                                               *)

\* An event frees a slot only if it is the BYE of the one in it, and seats nobody
\* in a slot that is taken.
LEMMA HandleTenant ==
    ASSUME NEW s \in Tables, NEW ev, ev = NoEvent \/ ev \in Packets,
           NEW i \in Slots, s[i] # Free
    PROVE  LET res == handle(s, ev)
           IN  /\ i \notin res.joined
               /\ res.slots[i] # Free => res.slots[i].addr = s[i].addr
               /\ res.slots[i] = Free => ev.kind = "Bye" /\ ev.from = s[i].addr
<1> DEFINE res == handle(s, ev)
           right == ev.from \notin wrong
           a == ev.from
<1>1. CASE ev.kind = "Hello"
  <2>1. res = on_hello(s, a, right) /\ a \in Clients
    BY <1>1 DEF handle, Packets, NoEvent, ToClientKinds
  <2>2. Pending(a) # Free /\ Pending(a).addr = a
    BY <2>1, Types
  <2>3. CASE ~right \/ (~known(s, a) /\ full(s))
    <3>1. res.slots = s /\ res.joined = {}
      BY <2>1, <2>3 DEF on_hello, refuse, Result
    <3> QED
      BY <3>1
  <2>4. CASE right /\ known(s, a)
    <3> DEFINE k == Min(sender_for_addr(s, a))
    <3>1. k \in Slots /\ s[k].addr = a
      <4>1. sender_for_addr(s, a) \in SUBSET Slots /\ sender_for_addr(s, a) # {}
        BY <2>4 DEF known, sender_for_addr, occupied
      <4>2. k \in sender_for_addr(s, a)
        BY <4>1, FirstSlot
      <4> QED
        BY <4>1, <4>2 DEF sender_for_addr, occupied
    <3>2. res.slots = [s EXCEPT ![k] = Pending(a)] /\ res.joined = {}
      BY <2>1, <2>4 DEF on_hello, reseat, Result
    <3> HIDE DEF k, res
    <3>3. res.slots[i] = IF i = k THEN Pending(a) ELSE s[i]
      BY <3>2 DEF Tables
    <3> QED
      BY <2>2, <3>1, <3>2, <3>3 DEF res
  <2>5. CASE right /\ ~known(s, a) /\ ~full(s)
    <3> DEFINE k == Min(Slots \ occupied(s))
    <3>1. k \in Slots /\ s[k] = Free
      <4>1. Slots \ occupied(s) \in SUBSET Slots /\ Slots \ occupied(s) # {}
        BY <2>5 DEF full, occupied
      <4>2. k \in Slots \ occupied(s)
        BY <4>1, FirstSlot
      <4> QED
        BY <4>1, <4>2 DEF occupied
    <3>2. res.slots = [s EXCEPT ![k] = Pending(a)] /\ res.joined = {k}
      BY <2>1, <2>5 DEF on_hello, seat, Result
    <3> HIDE DEF k, res
    <3>3. i # k /\ res.slots[i] = s[i]
      BY <3>1, <3>2 DEF Tables
    <3> QED
      BY <3>2, <3>3 DEF res
  <2> QED
    BY <2>3, <2>4, <2>5
<1>2. CASE ev.kind = "Bye" /\ ev.sess = session
  <2>1. res = on_bye(s, a)
    BY <1>2 DEF handle
  <2>2. /\ res.joined = {}
        /\ res.slots = [j \in Slots |-> IF j \in sender_for_addr(s, a) THEN Free ELSE s[j]]
    BY <2>1 DEF on_bye, remove, Result
  <2>3. i \in sender_for_addr(s, a) => s[i].addr = a
    BY DEF sender_for_addr, occupied
  <2> HIDE DEF res
  <2> QED
    BY <1>2, <2>2, <2>3 DEF res
<1>3. CASE ev.kind # "Hello" /\ ~(ev.kind = "Bye" /\ ev.sess = session)
  <2>1. res.slots = s /\ res.joined = {}
    BY <1>3 DEF handle, Result
  <2> QED
    BY <2>1
<1> QED
  BY <1>1, <1>2, <1>3

\* A tick frees the slot of a client last heard of `age` ago only if that is too long.
LEMMA TickTenant ==
    ASSUME NEW s \in Tables, NEW i \in Slots, NEW age \in RxAges, s[i] # Free,
           s[i] = [state |-> "Active", addr |-> s[i].addr, heard |-> age],
           tick(s).slots[i] = Free
    PROVE  age > PEER_TIMEOUT
<1>1. s[i].state = "Active" /\ s[i].heard = age
  OBVIOUS
<1>2. i \notin retry_due(s) /\ i \notin unacked(s)
  BY <1>1 DEF retry_due, unacked
<1> DEFINE gone == timed_out(s) \cup unacked(s)
           retried == [j \in Slots |->
               IF j \in retry_due(s) \ unacked(s)
               THEN [s[j] EXCEPT !.tx = 0, !.tries = @ + 1] ELSE s[j]]
<1>3. tick(s).slots = [j \in Slots |-> IF j \in gone THEN Free ELSE retried[j]]
  BY DEF tick, remove, Result
<1> HIDE DEF gone, retried
<1>4. i \in gone \/ retried[i] = Free
  BY <1>3
<1>5. retried[i] = s[i]
  BY <1>2 DEF retried
<1>6. i \in timed_out(s)
  BY <1>2, <1>4, <1>5 DEF gone
<1> QED
  BY <1>1, <1>6 DEF timed_out

\* An iteration of the control loop leaves to a client that has a slot the slot and
\* its last_rx_us, or drops it: for its BYE, or for what last_rx_us says.
LEMMA LoopTenant ==
    ASSUME IInv, hup, NEW ev, ev = NoEvent \/ ev \in Packets, HostIteration(ev),
           NEW i \in Slots, slots[i] # Free
    PROVE  /\ hrx'[i] = hrx[i]
           /\ slots'[i] # Free => slots'[i].addr = slots[i].addr
           /\ slots'[i] = Free /\ hrx[i] # None =>
                 (ev.kind = "Bye" /\ ev.from = slots[i].addr) \/ hrx[i] > PEER_TIMEOUT
           /\ \A m \in net' : m \in net \/ m.from = Host
<1>1. slots \in Tables /\ hrx \in [Slots -> {None} \cup RxAges]
  BY DEF IInv, TypeOK, Tables
<1> DEFINE heard == hear(slots, ev)
           handled == handle(heard, ev)
           rx == clear_rx(hrx, handled.joined)
           fed == feed(handled.slots, rx)
           ticked == tick(fed)
<1>2. Concluded(handled, rx, ticked)
  <2>1. HostIteration(ev) =>
          \E h \in {handle(heard, ev)} : \E r \in {clear_rx(hrx, h.joined)} :
          \E f \in {feed(h.slots, r)} : \E t \in {tick(f)} : Concluded(h, r, t)
    BY DEF HostIteration, Concluded
  <2> HIDE DEF heard
  <2>2. \E r \in {clear_rx(hrx, handled.joined)} :
          \E f \in {feed(handled.slots, r)} : \E t \in {tick(f)} : Concluded(handled, r, t)
    BY <2>1
  <2> HIDE DEF handled
  <2>3. \E f \in {feed(handled.slots, rx)} : \E t \in {tick(f)} : Concluded(handled, rx, t)
    BY <2>2
  <2> QED
    BY <2>3
<1>3. /\ heard = hear(slots, ev) /\ handled = handle(heard, ev)
      /\ rx = clear_rx(hrx, handled.joined)
      /\ fed = feed(handled.slots, rx) /\ ticked = tick(fed)
  OBVIOUS
<1> HIDE DEF heard, handled, rx, fed, ticked
<1>4. heard \in Tables /\ heard[i] # Free /\ heard[i].addr = slots[i].addr
  BY <1>1, <1>3, HearKeeps DEF Same, Keeps
<1>5. /\ i \notin handled.joined
      /\ handled.slots[i] # Free => handled.slots[i].addr = slots[i].addr
      /\ handled.slots[i] = Free => ev.kind = "Bye" /\ ev.from = slots[i].addr
  BY <1>3, <1>4, HandleTenant
<1>6. handled.slots \in Tables
  BY <1>3, <1>4, HandleAdds
<1>7. rx[i] = hrx[i] /\ rx \in [Slots -> {None} \cup RxAges]
  <2>1. rx \in [Slots -> {None} \cup RxAges]
    BY <1>1, <1>3, ClearType
  <2> QED
    BY <1>1, <1>3, <1>5, <2>1 DEF clear_rx
<1>8. fed \in Tables /\ Same(handled.slots, fed)
  BY <1>3, <1>6, <1>7, FeedKeeps
<1>9. ticked.slots \in Tables /\ Keeps(fed, ticked.slots)
  BY <1>3, <1>8, TickKeeps
<1>10. hrx' = rx /\ slots' = ticked.slots
  BY <1>2 DEF Concluded
<1>11. slots'[i] # Free => slots'[i].addr = slots[i].addr
  BY <1>5, <1>8, <1>9, <1>10 DEF Same, Keeps
<1>12. ASSUME slots'[i] = Free, hrx[i] # None, handled.slots[i] # Free
       PROVE  hrx[i] > PEER_TIMEOUT
  <2>1. PICK age \in RxAges : age = hrx[i]
    BY <1>1, <1>12
  <2>2. fed[i] = mark_heard(handled.slots, i, age)[i]
    BY <1>3, <1>7, <1>12, <2>1 DEF feed
  <2>3. fed[i] = [state |-> "Active", addr |-> handled.slots[i].addr, heard |-> age]
    BY <1>6, <1>12, <2>2 DEF mark_heard, Tables
  <2>4. fed[i] # Free /\ fed[i].addr = handled.slots[i].addr
    BY <1>8, <1>12 DEF Same, Keeps
  <2>5. tick(fed).slots[i] = Free
    BY <1>3, <1>10, <1>12
  <2>6. fed[i] = [state |-> "Active", addr |-> fed[i].addr, heard |-> age]
    BY <2>3, <2>4
  <2>7. age > PEER_TIMEOUT
    BY <1>8, <2>4, <2>5, <2>6, TickTenant
  <2> QED
    BY <2>1, <2>7
<1>13. \A m \in net' : m \in net \/ m.from = Host
  BY <1>2 DEF Concluded, Transmit, ToClient
<1> QED
  BY <1>5, <1>7, <1>10, <1>11, <1>12, <1>13

\* The slot of i's client, and what is credited to it.
Credited(i) ==
    LET a == slots[i].addr
    IN  /\ rxaddr[i] = a
        /\ hrx[i] \in RxAges /\ hrx[i] <= silence[a] + MaxDelay
        /\ \A m \in net : m.from = a /\ m.id # i => hrx[i] <= m.age

SettledInv == IInv /\ settled \subseteq Slots /\ HomeInv

LEMMA HomeCredited == HomeInv <=> \A i \in settled : at_home(i) /\ Credited(i)
  BY Zenon DEF HomeInv, Credited

\* What leaves does not matter if it is from another, or carries the sender id i.
Harmless(msgs, i) == \A m \in msgs : m.from # slots[i].addr \/ m.id = i

\* A slot stays credited rightly if neither its client nor what it is credited with
\* changes, and nothing joins the network from its client with another sender id.
LEMMA CreditStays ==
    ASSUME NEW i \in Slots, Credited(i), slots'[i].addr = slots[i].addr,
           rxaddr'[i] = rxaddr[i] \/ rxaddr'[i] = slots[i].addr,
           hrx'[i] = hrx[i], UNCHANGED silence,
           \A m \in net' : m \in net \/ m.from # slots[i].addr \/ m.id = i
    PROVE  Credited(i)'
  BY DEF Credited

\* What is under way after a step was so before or has been sent by it.
LEMMA Added ==
    /\ \A taken, msgs : Transmit(taken, msgs) => \A m \in net' : m \in net \/ m \in msgs
    /\ \A x, msgs : Delivered(x, msgs) => \A m \in net' : m \in net \/ m \in msgs
  BY DEF Delivered, Transmit

\* Who sends a packet, and with which id.
LEMMA Senders ==
    /\ \A c, k, s, id : ToHost(c, k, s, id).from = c /\ ToHost(c, k, s, id).id = id
    /\ \A c, k, s, id : ToClient(c, k, s, id).from = Host
  BY DEF ToHost, ToClient

\* A client that is at home, and what the types say of it.
LEMMA AtHome ==
    ASSUME IInv, NEW i \in Slots, at_home(i)
    PROVE  /\ hup /\ slots[i] # Free /\ slots[i].addr \in Clients /\ slots[i].addr # Host
           /\ client[slots[i].addr].up /\ client[slots[i].addr].joined
           /\ client[slots[i].addr].id = i
           /\ hrx \in [Slots -> {None} \cup RxAges] /\ silence \in [Clients -> RxAges]
           /\ net \subseteq Packets
           /\ client \in [Clients -> ClientStates]
<1>1. slots[i] # Free /\ slots[i].addr \in Clients
  BY Types DEF IInv, TypeOK, at_home
<1>2. Host \notin Clients
  OBVIOUS
<1> QED
  BY <1>1, <1>2 DEF IInv, TypeOK, at_home

\* The steps of each thread keep right what a slot is credited with: the host's control
\* loop,
LEMMA LoopCredits ==
    ASSUME IInv, HostEvent \/ HostTimeout, NEW i \in Slots, at_home(i), Credited(i),
           at_home(i)'
    PROVE  Credited(i)'
<1>1. PICK ev : (ev = NoEvent \/ ev \in Packets) /\ hup /\ HostIteration(ev)
  <2>1. CASE HostEvent
    <3>1. hq \in Seq(Packets) /\ hq # <<>>
      BY <2>1 DEF IInv, TypeOK, HostEvent
    <3>2. Head(hq) \in Packets
      BY <3>1, QueueHead
    <3> QED
      BY <2>1, <3>2 DEF HostEvent
  <2>2. CASE HostTimeout
    BY <2>2 DEF HostTimeout
  <2> QED
    BY <2>1, <2>2
<1>2. slots[i] # Free /\ slots[i].addr # Host
  BY AtHome
<1>3. /\ hrx'[i] = hrx[i]
      /\ slots'[i] # Free => slots'[i].addr = slots[i].addr
      /\ \A m \in net' : m \in net \/ m.from = Host
  BY <1>1, <1>2, LoopTenant
<1>4. slots'[i] # Free
  BY DEF at_home
<1>5. UNCHANGED <<rxaddr, silence>>
  BY <1>1 DEF HostIteration
<1>6. /\ slots'[i].addr = slots[i].addr /\ rxaddr'[i] = rxaddr[i] /\ hrx'[i] = hrx[i]
      /\ \A m \in net' : m \in net \/ m.from # slots[i].addr
  BY <1>2, <1>3, <1>4, <1>5
<1> QED
  BY <1>5, <1>6, CreditStays

\* Whatever the receive thread accepts from a client that is at home carries its
\* sender id, or is as old as what has been credited last.
LEMMA RxCredits ==
    ASSUME IInv, NEW m \in net, RxHostPing(m) \/ RxHostAudio(m) \/ RxHostControl(m),
           NEW i \in Slots, at_home(i), Credited(i) \/ hrx'[i] = 0
    PROVE  Credited(i)'
<1> DEFINE a == slots[i].addr
<1>1. /\ hup /\ slots[i] # Free /\ a \in Clients /\ a # Host
      /\ hrx \in [Slots -> {None} \cup RxAges] /\ silence \in [Clients -> RxAges]
      /\ net \subseteq Packets
  BY AtHome
<1>2. PICK heard, accepted, msgs :
        /\ heard \in BOOLEAN /\ accepted \in BOOLEAN
        /\ RxHostEnd(m, heard, accepted) /\ Delivered(m, msgs)
        /\ \A x \in msgs : x.from = Host
        /\ heard => vouched(m) /\ accepted
        /\ accepted /\ vouched(m) => heard
  <2>1. CASE RxHostPing(m)
    <3> DEFINE pong == {ToClient(m.from, "Pong", session, UNJOINED)}
    <3>1. RxHostEnd(m, FALSE, FALSE) /\ Delivered(m, pong)
      BY <2>1 DEF RxHostPing
    <3>2. \A x \in pong : x.from = Host
      BY Senders
    <3> HIDE DEF pong
    <3> QED
      BY <3>1, <3>2, Zenon
  <2>2. CASE RxHostAudio(m)
    <3> DEFINE none == {}
    <3>1. PICK ok \in BOOLEAN : ok = (m.sess = session /\ vouched(m))
      OBVIOUS
    <3>2. RxHostEnd(m, ok, ok) /\ Delivered(m, none)
      BY <2>2, <3>1 DEF RxHostAudio
    <3>3. (ok => vouched(m) /\ ok) /\ (ok /\ vouched(m) => ok)
      BY <3>1
    <3>4. \A x \in none : x.from = Host
      OBVIOUS
    <3> HIDE DEF none
    <3> QED
      BY <3>1, <3>2, <3>3, <3>4, Zenon
  <2>3. CASE RxHostControl(m)
    <3> DEFINE none == {}
    <3>1. PICK ok \in BOOLEAN : ok = vouched(m)
      BY DEF vouched
    <3>2. RxHostEnd(m, ok, TRUE) /\ Delivered(m, none)
      BY <2>3, <3>1 DEF RxHostControl
    <3>3. (ok => vouched(m) /\ TRUE) /\ (TRUE /\ vouched(m) => ok) /\ TRUE \in BOOLEAN
      BY <3>1
    <3>4. \A x \in none : x.from = Host
      OBVIOUS
    <3> HIDE DEF none
    <3> QED
      BY <3>1, <3>2, <3>3, <3>4, Zenon
  <2> QED
    BY <2>1, <2>2, <2>3
<1>3. /\ hrx' = IF heard THEN [hrx EXCEPT ![m.id] = 0] ELSE hrx
      /\ silence' = IF accepted THEN [silence EXCEPT ![m.from] = 0] ELSE silence
      /\ rxaddr'[i] = a /\ UNCHANGED slots
  BY <1>1, <1>2 DEF RxHostEnd, table
<1>4. \A x \in net' : x \in net \/ x.from # a
  <2>1. \A x \in net' : x \in net \/ x \in msgs
    BY <1>2, Added
  <2> QED
    BY <1>1, <1>2, <2>1
<1>5. m.age \in 0 .. MaxDelay /\ \A x \in net : x.age \in Nat
  BY <1>1, FieldTypes DEF Packets
<1>6. silence' \in [Clients -> RxAges] /\ \A s \in RxAges : s \in Nat
  <2>1. silence' \in [Clients -> RxAges]
    BY <1>1, <1>3, Types
  <2> QED
    BY <2>1 DEF RxAges
<1>7. CASE hrx'[i] = 0
  <2>1. silence'[a] \in Nat /\ 0 <= silence'[a] + MaxDelay
    BY <1>1, <1>6, FieldTypes
  <2>2. \A x \in net' : x.from = a => 0 <= x.age
    BY <1>4, <1>5
  <2> QED
    BY <1>3, <1>7, <2>1, <2>2, Types DEF Credited
<1>8. CASE hrx'[i] # 0
  <2>1. Credited(i)
    BY <1>8
  <2>2. hrx'[i] = hrx[i]
    BY <1>1, <1>3, <1>8
  <2>3. hrx[i] \in Nat /\ hrx[i] \in RxAges /\ hrx[i] <= silence[a] + MaxDelay /\ rxaddr[i] = a
    BY <1>6, <2>1 DEF Credited
  <2>4. hrx[i] <= silence'[a] + MaxDelay
    <3>1. CASE accepted /\ m.from = a
      <4>1. m.id # i
        <5>1. ASSUME m.id = i PROVE FALSE
          <6>1. vouched(m)
            BY <2>3, <3>1, <5>1 DEF vouched
          <6>2. heard
            BY <1>2, <3>1, <6>1
          <6> QED
            BY <1>1, <1>3, <1>8, <5>1, <6>2
        <5> QED
          BY <5>1
      <4>2. hrx[i] <= m.age
        BY <2>1, <3>1, <4>1 DEF Credited
      <4>3. silence'[a] = 0
        BY <1>1, <1>3, <3>1
      <4> QED
        BY <1>5, <2>3, <4>2, <4>3, FieldTypes
    <3>2. CASE ~(accepted /\ m.from = a)
      <4>1. silence'[a] = silence[a]
        BY <1>1, <1>3, <3>2
      <4> QED
        BY <2>3, <4>1
    <3> QED
      BY <3>1, <3>2
  <2>5. \A x \in net' : x.from = a /\ x.id # i => hrx[i] <= x.age
    BY <1>4, <2>1 DEF Credited
  <2> QED
    BY <1>3, <2>2, <2>3, <2>4, <2>5 DEF Credited
<1> QED
  BY <1>7, <1>8

\* A client sends under its own address and, while it is at home, under its id.
LEMMA ClientLoopCredits ==
    ASSUME IInv, NEW c \in Clients, ClientEvent(c) \/ ClientTimeout(c),
           NEW i \in Slots, at_home(i), Credited(i), at_home(i)'
    PROVE  Credited(i)'
<1>1. PICK ev : ClientIteration(c, ev)
  BY DEF ClientEvent, ClientTimeout
<1> DEFINE res == client_step(client[c], CS!on_control(client[c].cs, ev.kind), ev)
           msgs == {ToHost(c, "Ack", ev.sess, client[c].id) : x \in {"Welcome"} \cap {ev.kind}}
              \cup {ToHost(c, k, res.state.sess, res.state.id) :
                  k \in (IF res.hello THEN {"Hello"} ELSE {})
                        \cup (IF res.state.joined /\ ~client[c].ran
                              THEN {"Ping", "Keepalive"} ELSE {})}
<1>2. /\ client' = [client EXCEPT ![c] = res.state] /\ Transmit({}, msgs)
      /\ UNCHANGED <<host, wrong, budget, silence, seats>>
  BY <1>1 DEF ClientIteration
<1> HIDE DEF res
<1>3. client \in [Clients -> ClientStates] /\ slots[i].addr \in Clients
      /\ client[slots[i].addr].id = i
  BY AtHome
<1>4. UNCHANGED <<slots, hrx, rxaddr, silence>>
  BY <1>2 DEF host
<1>5. client'[slots[i].addr].id = i
  BY <1>4 DEF at_home
<1>6. ASSUME NEW m \in msgs PROVE m.from # slots[i].addr \/ m.id = i
  <2>1. m.from = c /\ m.id \in {client[c].id, res.state.id}
    BY Senders
  <2>2. client'[c] = res.state
    BY <1>2, <1>3
  <2> QED
    BY <1>3, <1>5, <2>1, <2>2
<1> HIDE DEF msgs
<1>7. \A m \in net' : m \in net \/ m.from # slots[i].addr \/ m.id = i
  BY <1>2, <1>6, Added
<1> QED
  BY <1>4, <1>7, CreditStays

\* a client's receive thread,
LEMMA RxClientCredits ==
    ASSUME IInv, NEW c \in Clients, RxClient(c),
           NEW i \in Slots, at_home(i), Credited(i), at_home(i)'
    PROVE  Credited(i)'
<1>1. PICK m \in net : RxClientPing(m) \/ RxClientAudio(m) \/ RxClientControl(m)
  BY DEF RxClient
<1>2. UNCHANGED <<slots, hrx, rxaddr, silence>>
  BY <1>1 DEF RxClientPing, RxClientAudio, RxClientControl, host
<1>3. client[slots[i].addr].id = i
  BY AtHome
<1>4. CASE RxClientPing(m)
  <2> DEFINE pong == {ToHost(m.to, "Pong", client[m.to].sess, client[m.to].id)}
  <2>1. Delivered(m, pong)
    BY <1>4 DEF RxClientPing
  <2>2. \A x \in pong : x.from # slots[i].addr \/ x.id = i
    BY <1>3, Senders
  <2> HIDE DEF pong
  <2>3. \A x \in net' : x \in net \/ x.from # slots[i].addr \/ x.id = i
    BY <2>1, <2>2, Added
  <2> QED
    BY <1>2, <2>3, CreditStays
<1>5. CASE RxClientAudio(m) \/ RxClientControl(m)
  <2>1. Delivered(m, {})
    BY <1>5 DEF RxClientAudio, RxClientControl
  <2>2. \A x \in net' : x \in net
    BY <2>1, Added
  <2> QED
    BY <1>2, <2>2, CreditStays
<1> QED
  BY <1>1, <1>4, <1>5

\* its other threads, its start and its end,
LEMMA ClientProcessCredits ==
    ASSUME IInv, NEW c \in Clients,
           ClientAudio(c) \/ ClientStart(c) \/ ClientCrash(c) \/ ClientLeave(c),
           NEW i \in Slots, at_home(i), Credited(i), at_home(i)'
    PROVE  Credited(i)'
<1>1. UNCHANGED <<slots, hrx, rxaddr, silence>>
  BY DEF ClientAudio, ClientStart, ClientCrash, ClientLeave, ClientEnds, host
<1>2. /\ client[slots[i].addr].id = i /\ client[slots[i].addr].up
      /\ slots[i].addr \in Clients /\ client \in [Clients -> ClientStates]
  BY AtHome
<1>3. CASE ClientAudio(c)
  <2>1. net' = net \cup {ToHost(c, "Audio", client[c].sess, client[c].id)}
    BY <1>3 DEF ClientAudio
  <2>2. \A m \in net' : m \in net \/ m.from # slots[i].addr \/ m.id = i
    BY <1>2, <2>1, Senders
  <2> QED
    BY <1>1, <2>2, CreditStays
<1>4. CASE ClientStart(c)
  <2> DEFINE hello == {ToHost(c, "Hello", UNJOINED, UNJOINED)}
  <2>1. c # slots[i].addr /\ Transmit({}, hello)
    BY <1>2, <1>4 DEF ClientStart
  <2>2. \A x \in hello : x.from # slots[i].addr
    BY <2>1, Senders
  <2> HIDE DEF hello
  <2>3. \A m \in net' : m \in net \/ m.from # slots[i].addr
    BY <2>1, <2>2, Added
  <2> QED
    BY <1>1, <2>3, CreditStays
<1>5. CASE ClientCrash(c) \/ ClientLeave(c)
  <2> DEFINE byes == {ToHost(c, "Bye", client[c].sess, client[c].id)}
  <2>1. \/ ClientEnds(c, {}) \/ ClientEnds(c, byes)
    BY <1>5 DEF ClientCrash, ClientLeave
  <2>2. client' = [client EXCEPT ![c] = Down] /\ (Transmit({}, {}) \/ Transmit({}, byes))
    BY <2>1 DEF ClientEnds
  <2>3. client'[slots[i].addr].up
    BY <1>1 DEF at_home
  <2>4. c # slots[i].addr
    BY <1>2, <2>2, <2>3 DEF Down, Started
  <2>5. \A x \in byes : x.from # slots[i].addr
    BY <2>4, Senders
  <2> HIDE DEF byes
  <2>6. \A m \in net' : m \in net \/ m.from # slots[i].addr
    BY <2>2, <2>5, Added
  <2> QED
    BY <1>1, <2>6, CreditStays
<1> QED
  BY <1>3, <1>4, <1>5

\* the host's transmit thread, whose packets are its own,
LEMMA HostAudioCredits ==
    ASSUME IInv, NEW j \in Slots, HostAudio(j), NEW i \in Slots, at_home(i), Credited(i)
    PROVE  Credited(i)'
<1>1. /\ UNCHANGED <<slots, hrx, rxaddr, silence>>
      /\ net' = net \cup {ToClient(slots[j].addr, "Audio", session, UNJOINED)}
  BY DEF HostAudio, host
<1>2. slots[i].addr # Host
  BY AtHome
<1>3. \A m \in net' : m \in net \/ m.from # slots[i].addr
  BY <1>1, <1>2, Senders
<1> QED
  BY <1>1, <1>3, CreditStays

\* the host's receive thread when it drains its channel,
LEMMA RxHostTimeoutCredits ==
    ASSUME IInv, RxHostTimeout, NEW i \in Slots, at_home(i), Credited(i)
    PROVE  Credited(i)'
<1>1. slots[i] # Free
  BY AtHome
<1>2. /\ UNCHANGED <<slots, hrx, silence, net>>
      /\ rxaddr'[i] = slots[i].addr
  BY <1>1 DEF RxHostTimeout, table
<1> QED
  BY <1>2, CreditStays

\* Time passes for what has been heard, for what is under way and for the client alike.
LEMMA ElapseCredits ==
    ASSUME IInv, Elapse, NEW i \in Slots, at_home(i), Credited(i)
    PROVE  Credited(i)'
<1> DEFINE a == slots[i].addr
           cap == PEER_TIMEOUT + 1
<1>1. /\ hup /\ slots[i] # Free /\ a \in Clients
      /\ hrx \in [Slots -> {None} \cup RxAges] /\ silence \in [Clients -> RxAges]
      /\ net \subseteq Packets /\ slots \in Tables
  BY AtHome DEF IInv, TypeOK, Tables
<1>2. /\ slots' = SlotsOlder(slots) /\ UNCHANGED rxaddr
      /\ hrx' = [j \in Slots |->
                    IF hrx[j] = None THEN None ELSE Older(hrx[j], PEER_TIMEOUT + 1)]
      /\ silence' = [c \in Clients |-> Older(silence[c], PEER_TIMEOUT + 1)]
      /\ net' = {[m EXCEPT !.age = @ + 1] : m \in {x \in net : x.age < MaxDelay}}
  BY DEF Elapse
<1>3. slots'[i].addr = a
  <2>1. Same(slots, slots')
    BY <1>1, <1>2, SlotsOlderKeeps
  <2> QED
    BY <1>1, <2>1 DEF Same, Keeps
<1>4. /\ rxaddr[i] = a /\ hrx[i] \in RxAges /\ hrx[i] <= silence[a] + MaxDelay
      /\ \A m \in net : m.from = a /\ m.id # i => hrx[i] <= m.age
  BY DEF Credited
<1>5. hrx[i] \in 0 .. cap /\ silence[a] \in 0 .. cap /\ cap \in Nat /\ hrx[i] # None
  BY <1>1, <1>4 DEF RxAges, None
<1>6. hrx'[i] = Older(hrx[i], cap) /\ silence'[a] = Older(silence[a], cap)
  BY <1>1, <1>2, <1>5
<1>7. /\ hrx'[i] \in 0 .. cap /\ hrx'[i] <= hrx[i] + 1
      /\ hrx'[i] <= silence'[a] + MaxDelay
  BY <1>4, <1>5, <1>6, FieldTypes DEF Older
<1>8. ASSUME NEW m \in net', m.from = a, m.id # i PROVE hrx'[i] <= m.age
  <2>1. PICK x \in net : m = [x EXCEPT !.age = @ + 1]
    BY <1>2
  <2>2. x \in Packets /\ x.age \in Nat
    BY <1>1, FieldTypes DEF Packets
  <2>3. m.from = x.from /\ m.id = x.id /\ m.age = x.age + 1
    BY <2>1, <2>2 DEF Packets
  <2>4. hrx[i] <= x.age
    BY <1>4, <1>8, <2>3
  <2> QED
    BY <1>5, <1>7, <2>2, <2>3, <2>4
<1> QED
  BY <1>2, <1>3, <1>4, <1>7, <1>8 DEF Credited, RxAges

\* The control loop of a client touches nothing of the host.
LEMMA ClientLoopStaysOut ==
    ASSUME NEW c, ClientEvent(c) \/ ClientTimeout(c) PROVE UNCHANGED <<slots, hrx>>
<1>1. PICK ev : ClientIteration(c, ev)
  BY DEF ClientEvent, ClientTimeout
<1>2. UNCHANGED host
  BY <1>1, Zenon DEF ClientIteration
<1> QED
  BY <1>2 DEF host

\* Only the receive thread credits.
LEMMA OnlyRxCredits ==
    ASSUME IInv, Next, ~RxHost, NEW i \in Slots, at_home(i), at_home(i)', hrx'[i] = 0
    PROVE  hrx[i] = 0
<1>1. hup /\ hup' /\ slots[i] # Free /\ hrx \in [Slots -> {None} \cup RxAges]
  BY AtHome DEF at_home
<1>2. CASE HostEvent \/ HostTimeout
  <2>1. PICK ev : (ev = NoEvent \/ ev \in Packets) /\ hup /\ HostIteration(ev)
    <3>1. CASE HostEvent
      <4>1. hq \in Seq(Packets) /\ hq # <<>>
        BY <3>1 DEF IInv, TypeOK, HostEvent
      <4>2. Head(hq) \in Packets
        BY <4>1, QueueHead
      <4> QED
        BY <3>1, <4>2 DEF HostEvent
    <3>2. CASE HostTimeout
      BY <3>2 DEF HostTimeout
    <3> QED
      BY <1>2, <3>1, <3>2
  <2> QED
    BY <1>1, <2>1, LoopTenant
<1>3. CASE Elapse
  <2>1. hrx'[i] = IF hrx[i] = None THEN None ELSE Older(hrx[i], PEER_TIMEOUT + 1)
    BY <1>3 DEF Elapse
  <2>2. hrx[i] # None => hrx[i] \in Nat
    BY <1>1 DEF RxAges
  <2> QED
    BY <2>1, <2>2 DEF Older, None
<1>4. CASE HostCrash \/ HostStop \/ HostRestart
  BY <1>1, <1>4 DEF HostCrash, HostStop, HostEnds, HostRestart
<1>5. CASE RxHostTimeout \/ \E j \in Slots : HostAudio(j)
  BY <1>5 DEF RxHostTimeout, HostAudio, host
<1>6. ASSUME NEW c \in Clients, ClientEvent(c) \/ ClientTimeout(c) PROVE UNCHANGED hrx
  BY <1>6, ClientLoopStaysOut
<1>7. ASSUME NEW c \in Clients, RxClient(c) PROVE UNCHANGED hrx
  BY <1>7 DEF RxClient, RxClientPing, RxClientAudio, RxClientControl, host
<1>8. ASSUME NEW c \in Clients,
             ClientAudio(c) \/ ClientStart(c) \/ ClientCrash(c) \/ ClientLeave(c)
      PROVE  UNCHANGED hrx
  BY <1>8 DEF ClientAudio, ClientStart, ClientCrash, ClientLeave, ClientEnds, host
<1> QED
  BY <1>2, <1>3, <1>4, <1>5, <1>6, <1>7, <1>8 DEF Next

\* and so every step, once the slot has been credited with a packet of its client.
LEMMA NextCredits ==
    ASSUME IInv, Next, NEW i \in Slots, at_home(i), at_home(i)',
           Credited(i) \/ credits(i)
    PROVE  Credited(i)'
<1>1. CASE RxHost
  <2>1. PICK m \in net : RxHostPing(m) \/ RxHostAudio(m) \/ RxHostControl(m)
    BY <1>1 DEF RxHost
  <2> QED
    BY <2>1, RxCredits DEF credits
<1>2. CASE ~RxHost
  <2>1. Credited(i)
    BY <1>2, OnlyRxCredits DEF credits
  <2>2. CASE HostEvent \/ HostTimeout
    BY <2>1, <2>2, LoopCredits
  <2>3. CASE RxHostTimeout
    BY <2>1, <2>3, RxHostTimeoutCredits
  <2>4. CASE \E j \in Slots : HostAudio(j)
    BY <2>1, <2>4, HostAudioCredits
  <2>5. ASSUME NEW c \in Clients, ClientEvent(c) \/ ClientTimeout(c) PROVE Credited(i)'
    BY <2>1, <2>5, ClientLoopCredits
  <2>6. ASSUME NEW c \in Clients, RxClient(c) PROVE Credited(i)'
    BY <2>1, <2>6, RxClientCredits
  <2>7. ASSUME NEW c \in Clients,
               ClientAudio(c) \/ ClientStart(c) \/ ClientCrash(c) \/ ClientLeave(c)
        PROVE  Credited(i)'
    BY <2>1, <2>7, ClientProcessCredits
  <2>8. CASE HostCrash \/ HostStop \/ HostRestart
    <3>1. hup /\ hup'
      BY DEF at_home
    <3> QED
      BY <2>8, <3>1 DEF HostCrash, HostStop, HostEnds, HostRestart
  <2>9. CASE Elapse
    BY <2>1, <2>9, ElapseCredits
  <2> QED
    BY <1>2, <2>2, <2>3, <2>4, <2>5, <2>6, <2>7, <2>8, <2>9 DEF Next
<1> QED
  BY <1>1, <1>2

\* The history is only added: whatever holds of Spec holds of HSpec.
LEMMA HistoryOnly == HSpec => Spec
<1>1. [HNext]_hvars => [Next]_vars
  BY DEF HNext, hvars
<1> QED
  BY <1>1, PTL DEF HSpec, Spec

\* At the start nobody is settled, and a step settles only whom it credits.
LEMMA InitSettled == Init /\ settled = {} => SettledInv
  BY InitIInv DEF SettledInv, HomeInv

LEMMA NextSettled == SettledInv /\ [HNext]_hvars => SettledInv'
<1> SUFFICES ASSUME SettledInv, [HNext]_hvars PROVE SettledInv'
  OBVIOUS
<1>1. IInv /\ settled \subseteq Slots /\ \A i \in settled : at_home(i) /\ Credited(i)
  BY HomeCredited DEF SettledInv
<1>2. CASE HNext
  <2>1. /\ Next
        /\ settled' = {i \in Slots : at_home(i)' /\ (i \in settled \/ (at_home(i) /\ credits(i)))}
    BY <1>2 DEF HNext
  <2>2. IInv'
    BY <1>1, <2>1, NextIInv
  <2>3. ASSUME NEW i \in settled' PROVE at_home(i)' /\ Credited(i)'
    <3>1. i \in Slots /\ at_home(i)' /\ at_home(i) /\ (Credited(i) \/ credits(i))
      BY <1>1, <2>1
    <3> QED
      BY <1>1, <2>1, <3>1, NextCredits
  <2>4. (\A i \in settled : at_home(i) /\ Credited(i))'
    BY <2>3
  <2>5. HomeInv'
    BY <2>4, HomeCredited, PTL
  <2>6. settled' \subseteq Slots
    BY <2>1
  <2> QED
    BY <2>2, <2>5, <2>6 DEF SettledInv
<1>3. CASE UNCHANGED hvars
  <2>1. UNCHANGED vars /\ UNCHANGED settled
    BY <1>3 DEF hvars
  <2>2. IInv'
    BY <1>1, <2>1, NextIInv
  <2>3. HomeInv'
    BY <2>1 DEF SettledInv, HomeInv, at_home, vars, host, clients
  <2> QED
    BY <1>1, <2>1, <2>2, <2>3 DEF SettledInv
<1> QED
  BY <1>2, <1>3

\* What the receive thread accepts from a settled client is credited to its slot, but
\* for packets sent before it had this sender id, and last_rx_us of the slot is never
\* older than those (net.rs 206-216, 260-270; control.rs 262-275).
THEOREM SettledIsCredited == HSpec => []HomeInv
<1>1. SettledInv => HomeInv
  BY DEF SettledInv
<1> QED
  BY <1>1, InitSettled, NextSettled, PTL DEF HSpec

\* A settled client loses its slot without a BYE only if nothing of it was accepted
\* for PEER_TIMEOUT, less the delay of a packet: neither the order of events and the
\* liveness feed, nor a stale table, nor packets late, lost or repeated get in the way.
THEOREM SilenceEvicts == HSpec => OnlySilentEvicted
<1> DEFINE Evicts(i) ==
      \/ hq # <<>> /\ Head(hq).kind = "Bye" /\ Head(hq).from = slots[i].addr
      \/ silence[slots[i].addr] > PEER_TIMEOUT - MaxDelay
<1>1. ASSUME SettledInv, [HNext]_hvars, NEW i \in settled, slots'[i] = Free, hup'
      PROVE  Evicts(i)
  <2>1. i \in Slots /\ IInv /\ at_home(i) /\ Credited(i)
    BY <1>1, HomeCredited DEF SettledInv
  <2>2. /\ hup /\ slots[i] # Free /\ slots[i].addr \in Clients
        /\ silence \in [Clients -> RxAges] /\ slots \in Tables
    BY <2>1, AtHome DEF IInv, TypeOK, Tables
  <2>3. ASSUME NEW ev, ev = NoEvent \/ ev \in Packets, HostIteration(ev),
               ev = NoEvent \/ (hq # <<>> /\ ev = Head(hq))
        PROVE  Evicts(i)
    <3>1. hrx[i] \in RxAges /\ hrx[i] # None /\ hrx[i] <= silence[slots[i].addr] + MaxDelay
      BY <2>1 DEF Credited, RxAges, None
    <3>2. (ev.kind = "Bye" /\ ev.from = slots[i].addr) \/ hrx[i] > PEER_TIMEOUT
      BY <1>1, <2>1, <2>2, <2>3, <3>1, LoopTenant
    <3>3. CASE ev.kind = "Bye" /\ ev.from = slots[i].addr
      <4>1. ev # NoEvent
        BY <3>3 DEF NoEvent
      <4>2. hq # <<>> /\ ev = Head(hq)
        BY <2>3, <4>1
      <4> QED
        BY <3>3, <4>2, Zenon
    <3>4. CASE hrx[i] > PEER_TIMEOUT
      <4>1. silence[slots[i].addr] \in Nat /\ hrx[i] \in Nat
        BY <2>2, <3>1 DEF RxAges
      <4> QED
        BY <3>1, <3>4, <4>1, FieldTypes
    <3> QED
      BY <3>2, <3>3, <3>4
  <2> HIDE DEF Evicts
  <2>4. CASE HostEvent
    <3>1. hq \in Seq(Packets) /\ hq # <<>> /\ HostIteration(Head(hq))
      BY <2>1, <2>4 DEF IInv, TypeOK, HostEvent
    <3>2. Head(hq) \in Packets
      BY <3>1, QueueHead
    <3> QED
      BY <2>3, <3>1, <3>2
  <2>5. CASE HostTimeout
    BY <2>3, <2>5 DEF HostTimeout
  <2>6. CASE Elapse
    <3>1. Same(slots, slots')
      BY <2>2, <2>6, SlotsOlderKeeps DEF Elapse
    <3> QED
      BY <1>1, <2>1, <2>2, <3>1 DEF Same, Keeps
  <2>7. CASE HostCrash \/ HostStop \/ HostRestart
    BY <1>1, <2>2, <2>7 DEF HostCrash, HostStop, HostEnds, HostRestart
  <2>8. CASE RxHost
    <3>1. PICK m \in net : RxHostPing(m) \/ RxHostAudio(m) \/ RxHostControl(m)
      BY <2>8 DEF RxHost
    <3>2. UNCHANGED slots
      BY <3>1 DEF RxHostPing, RxHostAudio, RxHostControl, RxHostEnd
    <3> QED
      BY <1>1, <2>2, <3>2
  <2>9. CASE RxHostTimeout \/ \E j \in Slots : HostAudio(j)
    BY <1>1, <2>2, <2>9 DEF RxHostTimeout, HostAudio, host
  <2>10. ASSUME NEW c \in Clients, ClientEvent(c) \/ ClientTimeout(c) PROVE UNCHANGED slots
    BY <2>10, ClientLoopStaysOut
  <2>11. ASSUME NEW c \in Clients, RxClient(c) PROVE UNCHANGED slots
    BY <2>11 DEF RxClient, RxClientPing, RxClientAudio, RxClientControl, host
  <2>12. ASSUME NEW c \in Clients,
                ClientAudio(c) \/ ClientStart(c) \/ ClientCrash(c) \/ ClientLeave(c)
         PROVE  UNCHANGED slots
    BY <2>12 DEF ClientAudio, ClientStart, ClientCrash, ClientLeave, ClientEnds, host
  <2>13. CASE UNCHANGED hvars
    BY <1>1, <2>2, <2>13 DEF hvars, vars, host
  <2> QED
    BY <1>1, <2>2, <2>4, <2>5, <2>6, <2>7, <2>8, <2>9, <2>10, <2>11, <2>12, <2>13
       DEF HNext, Next
<1>2. SettledInv /\ [HNext]_hvars =>
         [\A i \in settled : slots'[i] = Free /\ hup' => Evicts(i)]_hvars
  BY <1>1
<1> QED
  BY <1>2, InitSettled, NextSettled, PTL DEF HSpec, OnlySilentEvicted

=============================================================================
