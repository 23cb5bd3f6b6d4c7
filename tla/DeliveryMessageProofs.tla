----------------------- MODULE DeliveryMessageProofs -----------------------
(***************************************************************************)
(* What a subscriber is sent is what was queued for it: while an id is     *)
(* published once at a time, the entries that are still to be sent and the *)
(* nodes of the id all hold one message.                                   *)
(***************************************************************************)
EXTENDS DeliveryProofs

\* Somebody holds message n under the id y: an entry of q, of pk, a node.
Queue(q, y, n) == \E i \in DOMAIN q : q[i].id = y /\ q[i].state = "sendpublish" /\ q[i].msg = n
Entered(pk, y, n) == \E s \in Socks : Queue(pk[s], y, n)
Kept(st, y, n) == \E j \in DOMAIN st : st[j].id = y /\ st[j].msg = n

\* What is held afterwards was held before, is no message at all, or is m of x.
EntriesFrom(pk, qk, x, m) ==
  \A y \in Ids : \A n : Entered(qk, y, n) => Entered(pk, y, n) \/ n = 0 \/ (y = x /\ n = m)
NodesFrom(st, rt, x, m) ==
  \A y \in Ids : \A n : Kept(rt, y, n) => Kept(st, y, n) \/ n = 0 \/ (y = x /\ n = m)

\* The strengthening of RightMessage that steps preserve.
OneMessage ==
  \A y \in Ids \ mixed : \A m, n :
    /\ Entered(packs, y, m) \/ Kept(store, y, m)
    /\ Entered(packs, y, n) \/ Kept(store, y, n)
    => m = n \/ m = 0 \/ n = 0

-----------------------------------------------------------------------------
(* Entries.                                                                 *)

LEMMA AddQueues ==
  ASSUME NEW q \in Seq(Slots), NEW e \in Slots, NEW y \in Ids, NEW n, Queue(add_packet_id(q, e), y, n)
  PROVE  Queue(q, y, n) \/ (e.state = "sendpublish" /\ e.id = y /\ e.msg = n)
<1> DEFINE unused == {i \in DOMAIN q : q[i].id = 0}
<1>1. CASE unused # {}
  <2>1. unused \in SUBSET Nat
    OBVIOUS
  <2>2. First(unused) \in DOMAIN q
    BY <1>1, <2>1, FirstIn
  <2>3. add_packet_id(q, e) = [q EXCEPT ![First(unused)] = e]
    BY <1>1 DEF add_packet_id
  <2> QED BY <2>2, <2>3 DEF Queue
<1>2. CASE unused = {}
  <2>1. add_packet_id(q, e) = q \/ add_packet_id(q, e) = Append(q, e)
    BY <1>2 DEF add_packet_id, push_back
  <2> QED BY <2>1 DEF Queue
<1> QED BY <1>1, <1>2

LEMMA OneQueues ==
  ASSUME PacksOK(packs), NEW s \in Socks, NEW i \in DOMAIN packs[s], NEW e,
         e.state # "sendpublish", packs' = [packs EXCEPT ![s][i] = e], NEW x, NEW m
  PROVE  EntriesFrom(packs, packs', x, m)
<1>1. packs[s] \in Seq(Slots)
  BY DEF PacksOK
<1>2. /\ \A c \in Socks : c # s => packs'[c] = packs[c]
      /\ DOMAIN packs'[s] = DOMAIN packs[s] /\ packs'[s][i] = e
      /\ \A k \in DOMAIN packs[s] : k # i => packs'[s][k] = packs[s][k]
  BY <1>1 DEF PacksOK
<1>3. ASSUME NEW c \in Socks, NEW y \in Ids, NEW n, Queue(packs'[c], y, n) PROVE Queue(packs[c], y, n)
  <2>1. CASE c = s
    BY <1>2, <1>3, <2>1 DEF Queue
  <2>2. CASE c # s
    BY <1>2, <1>3, <2>2
  <2> QED BY <2>1, <2>2
<1> QED BY <1>3 DEF EntriesFrom, Entered

LEMMA LeftQueues ==
  ASSUME PacksOK(packs), NEW s \in Socks, NEW x, NEW m
  PROVE  EntriesFrom(packs, [packs EXCEPT ![s] = LeftBehind(@)], x, m)
<1> DEFINE p == LeftBehind(packs[s])
           pk == [packs EXCEPT ![s] = LeftBehind(@)]
<1>1. packs[s] \in Seq(Slots) /\ pk[s] = p /\ \A c \in Socks : c # s => pk[c] = packs[c]
  BY DEF PacksOK
<1>2. DOMAIN p = DOMAIN packs[s] /\ \A i \in DOMAIN p : p[i] = [packs[s][i] EXCEPT !.own = FALSE]
  BY DEF LeftBehind
<1>3. \A i \in DOMAIN p : packs[s][i] \in Slots
  BY <1>1, <1>2
<1>4. \A e \in Slots : /\ [e EXCEPT !.own = FALSE].id = e.id
                       /\ [e EXCEPT !.own = FALSE].state = e.state
                       /\ [e EXCEPT !.own = FALSE].msg = e.msg
  BY DEF Slots, Entries, FreeEntry
<1> HIDE DEF p, pk
<1>5. ASSUME NEW y, NEW n, Queue(p, y, n) PROVE Queue(packs[s], y, n)
  <2>1. PICK i \in DOMAIN p : p[i].id = y /\ p[i].state = "sendpublish" /\ p[i].msg = n
    BY <1>5 DEF Queue
  <2>2. packs[s][i].id = y /\ packs[s][i].state = "sendpublish" /\ packs[s][i].msg = n
    BY <1>2, <1>3, <1>4, <2>1
  <2> QED BY <1>2, <2>2 DEF Queue
<1>6. \A y, n : Entered(pk, y, n) => Entered(packs, y, n)
  BY <1>1, <1>5 DEF Entered
<1> QED BY <1>6 DEF EntriesFrom, pk

-----------------------------------------------------------------------------
(* Nodes.                                                                   *)

LEMMA CountedHolds ==
  ASSUME NEW st, StoreOK(st), NEW j \in DOMAIN st, NEW n, NEW x, NEW m
  PROVE  NodesFrom(st, Counted(st, j, n), x, m)
<1> DEFINE rt == Counted(st, j, n)
<1>1. st \in [Nodes -> NodeType]
  BY DEF StoreOK
<1>2. /\ DOMAIN rt = DOMAIN st /\ \A k \in DOMAIN st : k # j => rt[k] = st[k]
      /\ rt[j] = FreeNode \/ rt[j] = [st[j] EXCEPT !.count = @ + n]
  BY <1>1 DEF Counted
<1>3. rt[j].id = 0 \/ (rt[j].id = st[j].id /\ rt[j].msg = st[j].msg)
  <2>1. st[j] \in NodeType
    BY <1>1
  <2>2. [st[j] EXCEPT !.count = @ + n].id = st[j].id /\ [st[j] EXCEPT !.count = @ + n].msg = st[j].msg
    BY <2>1 DEF NodeType
  <2> QED BY <1>2, <2>2, FreeNodeType
<1> HIDE DEF rt
<1>4. \A y \in Ids : \A k : Kept(rt, y, k) => Kept(st, y, k)
  BY <1>2, <1>3, SlotShape DEF Kept
<1> QED BY <1>4 DEF NodesFrom, rt

LEMMA GivenBackHolds ==
  ASSUME NEW st, StoreOK(st), NEW y, NEW rt \in GivenBack(st, y), NEW x, NEW m
  PROVE  NodesFrom(st, rt, x, m)
<1>1. CASE Found(st, y) = {}
  BY <1>1 DEF GivenBack, NodesFrom
<1>2. CASE Found(st, y) # {}
  <2>1. PICK j \in Found(st, y) : rt = Counted(st, j, -1)
    BY <1>2 DEF GivenBack
  <2>2. j \in DOMAIN st
    BY DEF Found
  <2> QED BY <2>1, <2>2, CountedHolds
<1> QED BY <1>1, <1>2

\* add brings its own message and no other.
LEMMA AddedHolds ==
  ASSUME NEW st, StoreOK(st), NEW x \in Ids, NEW c \in {1, 2}, NEW q \in 0..2, NEW m \in 0..MaxPubs,
         NEW a \in Added(st, x, c, q, m)
  PROVE  NodesFrom(st, a.st, x, m)
<1> DEFINE node == [id |-> x, count |-> c, qos |-> q, msg |-> m]
<1>1. node.id = x /\ node.msg = m
  OBVIOUS
<1> HIDE DEF node
<1>2. PICK moved \in Moved(st) :
        \/ \E r \in Placed(moved, node) :
             a = [st |-> r.st, ok |-> TRUE, over |-> r.over \cup Dropped(st, moved)]
        \/ \E r \in Spoilt(moved) : a = [st |-> r, ok |-> FALSE, over |-> Dropped(st, moved)]
  BY DEF Added, node
<1>3. PICK D \in SUBSET (DOMAIN st \ Found(st, 0)) :
        moved = [j \in DOMAIN st |-> IF j \in D THEN FreeNode ELSE st[j]]
  BY DEF Moved
<1>4. StoreOK(moved) /\ DOMAIN moved = Nodes
  BY MovedOK DEF StoreOK
<1>5. \A y \in Ids : \A n : Kept(moved, y, n) => Kept(st, y, n)
  BY <1>3, FreeNodeType, SlotShape DEF Kept
<1>6. ASSUME NEW r \in Placed(moved, node) PROVE NodesFrom(moved, r.st, x, m)
  <2> DEFINE free == Found(moved, 0)
  <2>1. free \in SUBSET Nat /\ free \subseteq Nodes
    BY <1>4 DEF Found, Nodes
  <2>2. \E j \in Nodes : r.st = [moved EXCEPT ![j] = node]
    <3>1. CASE \E j \in free : r = [st |-> [moved EXCEPT ![First(free)] = node], over |-> {}]
      <4>1. First(free) \in Nodes
        BY <2>1, <3>1, FirstIn
      <4> HIDE DEF free
      <4>2. r.st = [moved EXCEPT ![First(free)] = node]
        BY <3>1
      <4> QED BY <4>1, <4>2
    <3>2. CASE \E j \in DOMAIN moved \ free :
            r = [st |-> [moved EXCEPT ![j] = node], over |-> {moved[j].id}]
      <4>1. PICK j \in DOMAIN moved \ free :
              r = [st |-> [moved EXCEPT ![j] = node], over |-> {moved[j].id}]
        BY <3>2
      <4> QED BY <1>4, <4>1
    <3> QED BY <3>1, <3>2 DEF Placed
  <2>3. PICK j \in Nodes : r.st = [moved EXCEPT ![j] = node]
    BY <2>2
  <2> QED BY <1>1, <1>4, <2>3 DEF NodesFrom, Kept
<1>7. ASSUME NEW r \in Spoilt(moved) PROVE NodesFrom(moved, r, x, m)
  <2>1. CASE r = moved
    BY <2>1 DEF NodesFrom
  <2>2. CASE \E j \in DOMAIN moved : r = [moved EXCEPT ![j].msg = 0]
    <3>1. PICK j \in DOMAIN moved : r = [moved EXCEPT ![j] = [moved[j] EXCEPT !.msg = 0]]
      BY <2>2
    <3>2. moved[j] \in NodeType
      BY <1>4 DEF StoreOK
    <3>3. [moved[j] EXCEPT !.msg = 0].msg = 0
      BY <3>2 DEF NodeType
    <3>4. DOMAIN r = DOMAIN moved /\ r[j].msg = 0 /\ \A k \in DOMAIN moved : k # j => r[k] = moved[k]
      BY <3>1, <3>3
    <3> QED BY <3>4 DEF NodesFrom, Kept
  <2> QED BY <2>1, <2>2 DEF Spoilt
<1>8. NodesFrom(moved, a.st, x, m)
  <2>1. CASE \E r \in Placed(moved, node) :
               a = [st |-> r.st, ok |-> TRUE, over |-> r.over \cup Dropped(st, moved)]
    BY <1>6, <2>1
  <2>2. CASE \E r \in Spoilt(moved) : a = [st |-> r, ok |-> FALSE, over |-> Dropped(st, moved)]
    BY <1>7, <2>2
  <2> QED BY <1>2, <2>1, <2>2
<1> QED BY <1>5, <1>8 DEF NodesFrom

\* publish_by_topic brings its own message and no other.
LEMMA FanOutHolds ==
  ASSUME NEW st, StoreOK(st), NEW pk, PacksOK(pk), NEW ar,
         NEW live \in SUBSET Socks, NEW t \in Topics, NEW x \in Ids, NEW q \in 0..2,
         NEW m \in 0..MaxPubs, NEW gone,
         subs \in [Socks -> [Topics -> Qos \cup {None}]],
         PublishByTopic(st, pk, ar, live, t, x, q, m, gone)
  PROVE  EntriesFrom(pk, packs', x, m) /\ NodesFrom(st, store', x, m)
<1> DEFINE targets == {c \in live : subs[c][t] # None}
           to(c) == Entry(x, "sendpublish", MinQos(q, subs[c][t]), m)
<1>1. PICK a \in Added(st, x, 1, q, m) :
        \/ store' = a.st /\ packs' = pk
        \/ \E j \in Found(a.st, x) :
             /\ store' = Counted(a.st, j, Cardinality(targets) - 1)
             /\ packs' = [c \in Socks |-> IF c \in targets THEN add_packet_id(pk[c], to(c)) ELSE pk[c]]
  BY DEF PublishByTopic
<1>2. StoreOK(a.st) /\ NodesFrom(st, a.st, x, m)
  BY AddedOK, AddedHolds
<1>3. CASE store' = a.st /\ packs' = pk
  BY <1>2, <1>3 DEF EntriesFrom
<1>4. ASSUME NEW j \in Found(a.st, x), store' = Counted(a.st, j, Cardinality(targets) - 1),
             packs' = [c \in Socks |-> IF c \in targets THEN add_packet_id(pk[c], to(c)) ELSE pk[c]]
      PROVE  EntriesFrom(pk, packs', x, m) /\ NodesFrom(st, store', x, m)
  <2>1. j \in DOMAIN a.st
    BY <1>4 DEF Found
  <2>2. NodesFrom(a.st, store', x, m)
    <3> HIDE DEF targets
    <3> QED BY <1>2, <1>4, <2>1, CountedHolds
  <2>3. \A c \in targets : to(c) \in Slots /\ to(c).id = x /\ to(c).msg = m
    <3> SUFFICES ASSUME NEW c \in targets PROVE to(c) \in Slots /\ to(c).id = x /\ to(c).msg = m
      OBVIOUS
    <3>1. subs[c][t] \in 0..2
      BY QosAssumption DEF None
    <3>2. MinQos(q, subs[c][t]) \in 0..2
      BY <3>1, MinQosType
    <3> QED BY <3>2, EntryType DEF Entry, SendStates
  <2>4. ASSUME NEW c \in Socks, NEW y \in Ids, NEW n, Queue(packs'[c], y, n)
        PROVE  Queue(pk[c], y, n) \/ (y = x /\ n = m)
    <3>1. pk[c] \in Seq(Slots)
      BY DEF PacksOK
    <3>2. CASE c \in targets
      <4> HIDE DEF targets, to
      <4>1. Queue(add_packet_id(pk[c], to(c)), y, n)
        BY <1>4, <2>4, <3>2
      <4> QED BY <2>3, <3>1, <3>2, <4>1, AddQueues
    <3>3. CASE c \notin targets
      <4> HIDE DEF targets, to
      <4> QED BY <1>4, <2>4, <3>3
    <3> QED BY <3>2, <3>3
  <2>5. EntriesFrom(pk, packs', x, m)
    BY <2>4 DEF EntriesFrom, Entered
  <2> QED BY <1>2, <2>2, <2>5 DEF NodesFrom
<1> QED BY <1>1, <1>3, <1>4

-----------------------------------------------------------------------------
(* Each action keeps one message under an id.                               *)

Held(y, n) == Entered(packs, y, n) \/ Kept(store, y, n)

LEMMA NothingNew ==
  ASSUME OneMessage, mixed' = mixed,
         \A y \in Ids : \A n : Held(y, n)' => Held(y, n) \/ n = 0
  PROVE  OneMessage'
BY DEF OneMessage, Held

\* A publication under x, which was in use or held no message.
LEMMA NewMessage ==
  ASSUME IInv, OneMessage, NEW x \in Ids, NEW m,
         mixed' = IF InUse(x) THEN mixed \cup {x} ELSE mixed,
         \A y \in Ids : \A n : Held(y, n)' => Held(y, n) \/ n = 0 \/ (y = x /\ n = m)
  PROVE  OneMessage'
<1> SUFFICES ASSUME NEW y \in Ids \ mixed', NEW k, NEW n, Held(y, k)', Held(y, n)'
             PROVE  k = n \/ k = 0 \/ n = 0
  BY DEF OneMessage, Held
<1>1. y \notin mixed
  OBVIOUS
<1>2. CASE y # x
  BY <1>1, <1>2 DEF OneMessage, Held
<1>3. CASE y = x
  <2>1. ~InUse(x)
    BY <1>3
  <2>2. \A l : ~Held(x, l)
    BY <2>1 DEF InUse, Held, Entered, Queue, Kept, Found, Waiting
  <2> QED BY <1>3, <2>2
<1> QED BY <1>2, <1>3

\* Steps that leave entries and nodes alone, or change one of each.
LEMMA FromHeld ==
  ASSUME NEW x, NEW m, EntriesFrom(packs, packs', x, m), NodesFrom(store, store', x, m)
  PROVE  \A y \in Ids : \A n : Held(y, n)' => Held(y, n) \/ n = 0 \/ (y = x /\ n = m)
BY DEF Held, EntriesFrom, NodesFrom

LEMMA OldMessages ==
  ASSUME OneMessage, mixed' = mixed, NEW x,
         EntriesFrom(packs, packs', x, 0), NodesFrom(store, store', x, 0)
  PROVE  OneMessage'
BY FromHeld, NothingNew

LEMMA SameHolds ==
  /\ \A x, m : EntriesFrom(packs, packs, x, m) /\ NodesFrom(store, store, x, m)
  /\ packs' = packs => \A x, m : EntriesFrom(packs, packs', x, m)
  /\ store' = store => \A x, m : NodesFrom(store, store', x, m)
BY DEF EntriesFrom, NodesFrom

LEMMA WillHolds ==
  ASSUME IInv, OneMessage, NEW s \in Socks, NEW t \in Topics, NEW x \in Ids, NEW q \in Qos,
         DropWithWill(s, t, x, q)
  PROVE  OneMessage'
<1> DEFINE pk == [packs EXCEPT ![s] = LeftBehind(@)]
           live == {c \in Socks \ {s} : up[c]}
<1>1. RestOK /\ PacksOK(packs) /\ StoreOK(store)
  BY IInvParts
<1>2. PacksOK(pk) /\ EntriesFrom(packs, pk, x, 0) /\ live \in SUBSET Socks
  BY <1>1, LeftOK, LeftQueues
<1>3. PublishByTopic(store, pk, [armed EXCEPT ![s] = {}], live, t, x, q, 0, {})
  BY DEF DropWithWill
<1>4. q \in 0..2 /\ 0 \in 0..MaxPubs /\ subs \in [Socks -> [Topics -> Qos \cup {None}]]
  BY <1>1, QosAssumption, BoundsAssumption DEF RestOK
<1> HIDE DEF pk, live
<1>5. EntriesFrom(pk, packs', x, 0) /\ NodesFrom(store, store', x, 0)
  BY <1>1, <1>2, <1>3, <1>4, FanOutHolds
<1>6. EntriesFrom(packs, packs', x, 0)
  BY <1>2, <1>5 DEF EntriesFrom
<1>7. mixed' = IF InUse(x) THEN mixed \cup {x} ELSE mixed
  BY DEF DropWithWill
<1> QED BY <1>5, <1>6, <1>7, FromHeld, NewMessage

LEMMA AnsweredQueues ==
  ASSUME NEW p \in Seq(Slots), NEW level \in 0..2, NEW x \in Ids, NEW y \in Ids, NEW n,
         Queue(Answered(p, level, x), y, n)
  PROVE  Queue(p, y, n)
<1>1. CASE level = 0
  BY <1>1 DEF Answered
<1>2. ASSUME NEW state \in {"sendpuback", "sendpubrec"}, NEW l \in {1, 2},
             Answered(p, level, x) = add_packet_id(p, Entry(x, state, l, 0))
      PROVE  Queue(p, y, n)
  <2>1. state \in Gets \cup SendStates /\ l \in 0..2 /\ 0 \in 0..MaxPubs
    BY BoundsAssumption DEF SendStates
  <2>2. Entry(x, state, l, 0) \in Slots /\ Entry(x, state, l, 0).state # "sendpublish"
    BY <2>1, EntryType DEF Entry
  <2> QED BY <1>2, <2>2, AddQueues
<1>3. CASE level = 1
  BY <1>2, <1>3 DEF Answered
<1>4. CASE level = 2
  BY <1>2, <1>4 DEF Answered
<1> QED BY <1>1, <1>3, <1>4

LEMMA PublishHolds ==
  ASSUME IInv, OneMessage, NEW s \in Socks, NEW t \in Topics, NEW x \in Ids, NEW q \in Qos,
         NEW retain \in BOOLEAN, Publish(s, t, x, q, retain)
  PROVE  OneMessage'
<1> DEFINE m == pubs + 1
           pk == [packs EXCEPT ![s] = Answered(@, q, x)]
           ar == [armed EXCEPT ![s] = IF q = 0 THEN @ ELSE (@ \ {"read"}) \cup {"write"}]
           live == {c \in Socks : up[c]}
           kept == [st |-> store, ok |-> FALSE, over |-> {}]
<1>1. RestOK /\ PacksOK(packs) /\ StoreOK(store)
  BY IInvParts
<1>2. q \in 0..2 /\ m \in 0..MaxPubs /\ subs \in [Socks -> [Topics -> Qos \cup {None}]]
  BY <1>1, QosAssumption, BoundsAssumption DEF RestOK, Publish
<1>3. packs[s] \in Seq(Slots) /\ Len(packs[s]) <= MaxEntries
  BY <1>1 DEF PacksOK
<1>4. PacksOK(pk)
  BY <1>1, <1>2, <1>3, AnsweredKeeps, OneSlotOK
<1>5. EntriesFrom(packs, pk, x, m)
  <2>1. pk[s] = Answered(packs[s], q, x) /\ \A c \in Socks : c # s => pk[c] = packs[c]
    BY <1>1 DEF PacksOK
  <2> HIDE DEF pk
  <2>2. \A y \in Ids : \A n : Queue(pk[s], y, n) => Queue(packs[s], y, n)
    BY <1>2, <1>3, <2>1, AnsweredQueues
  <2>3. \A y \in Ids : \A n : Entered(pk, y, n) => Entered(packs, y, n)
    BY <2>1, <2>2 DEF Entered
  <2> QED BY <2>3 DEF EntriesFrom
<1>6. PICK r \in IF retain THEN Added(store, x, 2, q, m) ELSE {kept} :
        \E st \in Retain(t, x, r) : PublishByTopic(st, pk, ar, live, t, x, q, m, r.over)
  BY DEF Publish
<1>7. StoreOK(r.st) /\ NodesFrom(store, r.st, x, m)
  <2>1. CASE retain
    <3>1. r \in Added(store, x, 2, q, m)
      BY <1>6, <2>1
    <3> HIDE DEF m
    <3> QED BY <1>1, <1>2, <3>1, AddedOK, AddedHolds
  <2>2. CASE ~retain
    <3>1. r.st = store
      BY <1>6, <2>2
    <3> QED BY <1>1, <3>1, SameHolds
  <2> QED BY <2>1, <2>2
<1>8. PICK st \in Retain(t, x, r) : PublishByTopic(st, pk, ar, live, t, x, q, m, r.over)
  BY <1>6
<1> HIDE DEF m, pk, ar, live, kept
<1>9. StoreOK(st) /\ NodesFrom(r.st, st, x, m)
  <2>1. CASE r.ok /\ retained[t] # None
    <3>1. retained[t] \in Ids
      BY <1>1, <2>1 DEF RestOK
    <3>2. st \in GivenBack(r.st, retained[t])
      BY <1>8, <2>1 DEF Retain
    <3> QED BY <1>7, <3>1, <3>2, GivenBackOK, GivenBackHolds
  <2>2. CASE ~(r.ok /\ retained[t] # None)
    <3>1. st = r.st
      BY <1>8, <2>2 DEF Retain
    <3> QED BY <1>7, <3>1 DEF NodesFrom
  <2> QED BY <2>1, <2>2
<1>10. live \in SUBSET Socks
  BY DEF live
<1>11. EntriesFrom(pk, packs', x, m) /\ NodesFrom(st, store', x, m)
  BY <1>2, <1>4, <1>8, <1>9, <1>10, FanOutHolds
<1>12. EntriesFrom(packs, packs', x, m)
  BY <1>5, <1>11 DEF EntriesFrom
<1>13. NodesFrom(store, store', x, m)
  BY <1>7, <1>9, <1>11 DEF NodesFrom
<1>14. mixed' = IF InUse(x) THEN mixed \cup {x} ELSE mixed
  BY DEF Publish
<1> QED BY <1>12, <1>13, <1>14, FromHeld, NewMessage

\* A subscriber is given the retained message of a node that is there.
LEMMA SubscribeHolds ==
  ASSUME IInv, OneMessage, NEW s \in Socks, NEW t \in Topics, NEW q \in Qos, Subscribe(s, t, q)
  PROVE  OneMessage'
<1>1. RestOK /\ PacksOK(packs) /\ StoreOK(store)
  BY IInvParts
<1>2. mixed' = mixed
  BY DEF Subscribe
<1>3. CASE UNCHANGED <<packs, store>>
  BY <1>2, <1>3, SameHolds, OldMessages
<1>4. ASSUME NEW j \in Found(store, retained[t]),
             packs' = [packs EXCEPT ![s] = add_packet_id(@,
                         Entry(retained[t], "sendpublish", MinQos(q, store[j].qos), store[j].msg))],
             store' = Counted(store, j, 1)
      PROVE  OneMessage'
  <2> DEFINE x == retained[t]
             e == Entry(x, "sendpublish", MinQos(q, store[j].qos), store[j].msg)
  <2>1. j \in Nodes /\ store[j] \in NodeType /\ store[j].id = x /\ x # None
    <3>1. j \in Nodes /\ store[j] \in NodeType /\ store[j].id = x
      BY <1>1 DEF Found, StoreOK
    <3> QED BY <3>1, IdsAssumption DEF NodeType, None
  <2>2. x \in Ids /\ store[j].qos \in 0..2 /\ store[j].msg \in 0..MaxPubs
    BY <1>1, <2>1 DEF RestOK, NodeType
  <2>3. e \in Slots /\ e.id = x /\ e.msg = store[j].msg
    <3>1. MinQos(q, store[j].qos) \in 0..2
      BY <2>2, QosAssumption, MinQosType
    <3> QED BY <2>2, <3>1, EntryType DEF Entry, SendStates
  <2>4. Kept(store, e.id, e.msg)
    BY <1>1, <2>1, <2>3 DEF Kept, StoreOK
  <2> HIDE DEF e
  <2>5. packs' = [packs EXCEPT ![s] = add_packet_id(packs[s], e)]
    BY <1>4 DEF e
  <2>6. packs[s] \in Seq(Slots)
    BY <1>1 DEF PacksOK
  <2>7. ASSUME NEW c \in Socks, NEW y \in Ids, NEW n, Queue(packs'[c], y, n)
        PROVE  Queue(packs[c], y, n) \/ Kept(store, y, n)
    <3>1. CASE c = s
      <4>1. Queue(add_packet_id(packs[s], e), y, n)
        BY <1>1, <2>5, <2>7, <3>1 DEF PacksOK
      <4> QED BY <2>3, <2>4, <2>6, <3>1, <4>1, AddQueues
    <3>2. CASE c # s
      BY <1>1, <2>5, <2>7, <3>2 DEF PacksOK
    <3> QED BY <3>1, <3>2
  <2>8. NodesFrom(store, store', 0, 0)
    BY <1>1, <1>4, <2>1, CountedHolds DEF StoreOK
  <2>9. \A y \in Ids : \A n : Held(y, n)' => Held(y, n) \/ n = 0
    BY <2>7, <2>8 DEF Held, Entered, NodesFrom
  <2> QED BY <1>2, <2>9, NothingNew
<1> QED BY <1>3, <1>4 DEF Subscribe

\* One entry goes on to a state in which it holds no message to send.
LEMMA OneEntryHolds ==
  ASSUME IInv, OneMessage, mixed' = mixed,
         NEW s \in Socks, NEW i \in DOMAIN packs[s], NEW e, e.state # "sendpublish",
         packs' = [packs EXCEPT ![s][i] = e], NodesFrom(store, store', 0, 0)
  PROVE  OneMessage'
<1>1. EntriesFrom(packs, packs', 0, 0)
  BY OneQueues, IInvParts
<1> QED BY <1>1, OldMessages

LEMMA AckedHolds ==
  ASSUME IInv, OneMessage, NEW s \in Socks, NEW x \in Ids, NEW state,
         NEW next \in {"free", "sendpubrel", "sendpubcomp"}, NEW event,
         Acked(s, x, state, next, event), store' = store \/ store' \in GivenBack(store, x)
  PROVE  OneMessage'
<1> DEFINE i == First(Waiting(s, state, x))
           e == IF next = "free" THEN FreeEntry ELSE [packs[s][i] EXCEPT !.state = next]
<1>1. PacksOK(packs) /\ StoreOK(store)
  BY IInvParts
<1>2. i \in DOMAIN packs[s] /\ packs[s][i] \in Slots
  BY <1>1, WaitingIn DEF Acked
<1>3. packs' = [packs EXCEPT ![s][i] = e] /\ mixed' = mixed
  BY DEF Acked
<1>4. \A f \in Slots : next # "free" => [f EXCEPT !.state = next].state # "sendpublish"
  BY DEF Slots, Entries, FreeEntry
<1>5. e.state # "sendpublish"
  BY <1>2, <1>4 DEF FreeEntry
<1>6. NodesFrom(store, store', 0, 0)
  BY <1>1, GivenBackHolds, SameHolds
<1> HIDE DEF i, e
<1> QED BY <1>2, <1>3, <1>5, <1>6, OneEntryHolds

LEMMA SentHolds ==
  ASSUME IInv, OneMessage, mixed' = mixed, NEW s \in Socks, NEW i \in DOMAIN packs[s],
         packs[s][i].id \in Ids, NEW j \in Found(store, packs[s][i].id),
         NEW q \in 0..2, NEW ok \in BOOLEAN, Sent(s, i, j, q, ok)
  PROVE  OneMessage'
<1>1. PacksOK(packs) /\ StoreOK(store)
  BY IInvParts
<1>2. packs[s][i] \in Slots
  BY <1>1 DEF PacksOK
<1>3. PICK e \in Slots :
        /\ packs' = [packs EXCEPT ![s][i] = e]
        /\ IF ok /\ q > 0 THEN e.state = Awaited(q) /\ e.id = packs[s][i].id ELSE e = FreeEntry
  BY <1>1, <1>2, SentKeeps
<1>4. e.state # "sendpublish"
  BY <1>3 DEF Awaited, FreeEntry
<1>5. j \in DOMAIN store
  BY DEF Found
<1>6. NodesFrom(store, store', 0, 0)
  BY <1>1, <1>5, CountedHolds, SameHolds DEF Sent
<1> QED BY <1>3, <1>4, <1>6, OneEntryHolds

LEMMA WriteHolds == ASSUME IInv, OneMessage, NEW s \in Socks, Write(s) PROVE OneMessage'
<1>1. PacksOK(packs) /\ StoreOK(store)
  BY IInvParts
<1> DEFINE i == First(Sends(s))
<1>2. CASE WriteNothing(s)
  BY <1>2, SameHolds, OldMessages DEF WriteNothing
<1>3. ASSUME NEW ok \in BOOLEAN, WriteAck(s, ok) PROVE OneMessage'
  <2> DEFINE f == packs[s][i]
             next == Next_state(f.state)
             e == IF next = "free" THEN FreeEntry ELSE [f EXCEPT !.state = next]
  <2>1. i \in DOMAIN packs[s] /\ f \in Slots
    BY <1>1, <1>3, SendsIn DEF WriteAck
  <2>2. packs' = [packs EXCEPT ![s][i] = e] /\ mixed' = mixed /\ store' = store
    BY <1>3 DEF WriteAck
  <2>3. next # "sendpublish"
    BY DEF Next_state
  <2> HIDE DEF next
  <2>4. [f EXCEPT !.state = next].state = next
    BY <2>1 DEF Slots, Entries, FreeEntry
  <2>5. e.state # "sendpublish"
    BY <2>3, <2>4 DEF FreeEntry
  <2> HIDE DEF i, f, e
  <2>6. NodesFrom(store, store', 0, 0)
    BY <2>2, SameHolds
  <2> QED BY <2>1, <2>2, <2>5, <2>6, OneEntryHolds
<1>4. ASSUME NEW ok \in BOOLEAN, WritePublish(s, ok) PROVE OneMessage'
  <2>1. i \in DOMAIN packs[s] /\ packs[s][i] \in Slots /\ packs[s][i].id \in Ids
    BY <1>1, <1>4, SendsIn DEF WritePublish
  <2>2. packs[s][i].qos \in 0..2
    BY <2>1, SlotShape DEF Entries
  <2>3. /\ mixed' = mixed
        /\ \E j \in Found(store, packs[s][i].id) : Sent(s, i, j, packs[s][i].qos, ok)
    BY <1>4 DEF WritePublish
  <2> HIDE DEF i
  <2> QED BY <2>1, <2>2, <2>3, SentHolds
<1> QED BY <1>2, <1>3, <1>4 DEF Write

LEMMA MalformedHolds ==
  ASSUME IInv, OneMessage, NEW s \in Socks, NEW state, NEW x \in Ids, NEW ok \in BOOLEAN,
         MalformedAck(s, state, x, ok)
  PROVE  OneMessage'
<1> DEFINE i == First(Waiting(s, state, x))
<1>1. PacksOK(packs) /\ StoreOK(store)
  BY IInvParts
<1>2. i \in DOMAIN packs[s] /\ packs[s][i].id = x
  BY <1>1, WaitingIn DEF MalformedAck
<1>3. PICK j \in Found(store, x) : Sent(s, i, j, store[j].qos, ok)
  BY DEF MalformedAck
<1>4. store[j].qos \in 0..2
  BY <1>1 DEF Found, StoreOK, NodeType
<1>5. mixed' = mixed
  BY DEF MalformedAck
<1> HIDE DEF i
<1> QED BY <1>2, <1>3, <1>4, <1>5, SentHolds

-----------------------------------------------------------------------------
(* The theorem.                                                             *)

LEMMA MessagesStart == Init => OneMessage
<1> SUFFICES ASSUME Init PROVE OneMessage
  OBVIOUS
<1>1. \A y \in Ids : \A n : ~Kept(store, y, n)
  BY SlotShape DEF Init, Kept, FreeNode
<1>2. \A y, n : ~Entered(packs, y, n)
  BY DEF Init, Entered, Queue
<1> QED BY <1>1, <1>2 DEF OneMessage

LEMMA MessagesStep == ASSUME IInv, OneMessage, [Next]_vars PROVE OneMessage'
<1>1. ASSUME packs' = packs, store' = store, mixed' = mixed PROVE OneMessage'
  BY <1>1, SameHolds, OldMessages
<1>2. CASE UNCHANGED vars
  BY <1>1, <1>2 DEF vars
<1>3. ASSUME NEW s \in Socks, Connect(s) PROVE OneMessage'
  BY <1>1, <1>3 DEF Connect
<1>4. ASSUME NEW s \in Socks, Drop(s) PROVE OneMessage'
  <2>1. EntriesFrom(packs, packs', 0, 0)
    BY <1>4, LeftQueues, IInvParts DEF Drop
  <2> QED BY <1>4, <2>1, SameHolds, OldMessages DEF Drop
<1>5. ASSUME NEW s \in Socks, Read(s) PROVE OneMessage'
  <2>1. ASSUME NEW t \in Topics, Unsubscribe(s, t) PROVE OneMessage'
    BY <1>1, <2>1 DEF Unsubscribe
  <2>2. ASSUME NEW x \in Ids, Puback(s, x) \/ Pubrec(s, x) \/ Pubcomp(s, x) \/ Pubrel(s, x)
        PROVE  OneMessage'
    BY <2>2, AckedHolds DEF Puback, Pubrec, Pubcomp, Pubrel
  <2> QED BY <1>5, <2>1, <2>2, PublishHolds, SubscribeHolds, MalformedHolds DEF Read
<1> QED BY <1>2, <1>3, <1>4, <1>5, WillHolds, WriteHolds DEF Next

\* While no id is published again before it is done with, what is stored under
\* the id of an entry still to be sent is the message the entry was made for
\* (worker.cpp:837-849), or bytes without a header: for any number of clients,
\* entries and nodes, with nodes overwritten and slots inherited.
THEOREM MessagesMatch == Spec => []RightMessage
<1>1. IInv /\ OneMessage => RightMessage
  <2> SUFFICES ASSUME IInv, OneMessage, NEW s \in Socks, NEW x \in Ids \ mixed,
                      NEW i \in Waiting(s, "sendpublish", x), NEW j \in Found(store, x)
               PROVE  store[j].msg \in {packs[s][i].msg, 0} \/ packs[s][i].msg = 0
    BY DEF RightMessage
  <2>1. Entered(packs, x, packs[s][i].msg) /\ Kept(store, x, store[j].msg)
    BY DEF Entered, Queue, Kept, Waiting, Found
  <2> QED BY <2>1 DEF OneMessage
<1>2. Init => IInv /\ OneMessage
  BY InitHolds, MessagesStart
<1>3. IInv /\ OneMessage /\ [Next]_vars => (IInv /\ OneMessage)'
  BY StepKeeps, MessagesStep
<1> QED BY <1>1, <1>2, <1>3, PTL DEF Spec
=============================================================================
