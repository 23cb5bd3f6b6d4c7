--------------------------- MODULE DeliveryProofs ---------------------------
(***************************************************************************)
(* What the exchanges promise for every number of connections, ids and     *)
(* entries: the types, and that an acknowledgement a client owes finds the *)
(* entry that waits for it.                                                *)
(***************************************************************************)
EXTENDS Delivery, FiniteSetTheorems, WellFoundedInduction, TLAPS

\* The smallest of some numbers is one of them.
LEMMA FirstIn ==
  ASSUME NEW S \in SUBSET Nat, S # {} PROVE First(S) \in S /\ \A k \in S : First(S) <= k
<1> DEFINE R == OpToRel(<, Nat)
<1>1. IsWellFoundedOn(R, Nat)
  BY NatLessThanWellFounded
<1>2. R = {ss \in Nat \X Nat : ss[1] < ss[2]}
  BY DEF OpToRel
<1> HIDE DEF R
<1>3. \E x \in S : \A y \in S : ~(<<y, x>> \in R)
  BY <1>1, WFMin
<1>4. \A a, b \in Nat : a < b => <<a, b>> \in R
  BY <1>2
<1>5. PICK x \in S : \A y \in S : ~(<<y, x>> \in R)
  BY <1>3
<1>6. ASSUME NEW y \in S PROVE x <= y
  <2>1. x \in Nat /\ y \in Nat
    OBVIOUS
  <2>2. ~(y < x)
    BY <1>4, <1>5, <2>1
  <2> QED BY <2>1, <2>2
<1> QED BY <1>6 DEF First

-----------------------------------------------------------------------------
(* Entries.                                                                 *)

W(q, state, x) == {i \in DOMAIN q : q[i].id = x /\ q[i].state = state}

\* Every entry that waits for an answer in q waits for it in r.
Keeps(q, r) == \A state \in Gets, x \in Ids : W(q, state, x) \subseteq W(r, state, x)

LEMMA SlotShape ==
  /\ 0 \notin Ids
  /\ \A e \in Slots : e.id \in Ids \cup {0} /\ (e.id \in Ids => e \in Entries)
<1>1. 0 \notin Ids
  BY IdsAssumption
<1>2. \A e \in Entries : e.id \in Ids
  BY DEF Entries
<1>3. FreeEntry.id = 0
  BY DEF FreeEntry
<1> QED BY <1>1, <1>2, <1>3 DEF Slots

LEMMA WaitFinite ==
  ASSUME NEW q \in Seq(Slots), NEW state, NEW x
  PROVE  IsFiniteSet(W(q, state, x)) /\ Cardinality(W(q, state, x)) \in Nat
<1>1. W(q, state, x) \in SUBSET (1..Len(q))
  BY DEF W
<1>2. IsFiniteSet(1..Len(q))
  BY FS_Interval
<1>3. IsFiniteSet(W(q, state, x))
  BY <1>1, <1>2, FS_Subset
<1> QED BY <1>3, FS_CardinalityType

\* What happens to one entry.
LEMMA OneChanged ==
  ASSUME NEW q \in Seq(Slots), NEW i \in DOMAIN q, NEW e \in Slots
  PROVE  /\ [q EXCEPT ![i] = e] \in Seq(Slots)
         /\ Len([q EXCEPT ![i] = e]) = Len(q)
         /\ \A state, x : W(q, state, x) \ {i} \subseteq W([q EXCEPT ![i] = e], state, x)
         /\ i \in W([q EXCEPT ![i] = e], e.state, e.id)
BY DEF W

LEMMA AddKeeps ==
  ASSUME NEW q \in Seq(Slots), NEW e \in Slots
  PROVE  /\ add_packet_id(q, e) \in Seq(Slots)
         /\ Keeps(q, add_packet_id(q, e))
         /\ Len(q) <= MaxEntries => Len(add_packet_id(q, e)) <= MaxEntries
<1> DEFINE unused == {i \in DOMAIN q : q[i].id = 0}
<1>1. CASE unused # {}
  <2>1. unused \in SUBSET Nat
    OBVIOUS
  <2>2. First(unused) \in unused
    BY <1>1, <2>1, FirstIn
  <2>3. add_packet_id(q, e) = [q EXCEPT ![First(unused)] = e]
    BY <1>1 DEF add_packet_id
  <2>4. \A state \in Gets, x \in Ids : First(unused) \notin W(q, state, x)
    BY <2>2, SlotShape DEF W
  <2>5. First(unused) \in DOMAIN q
    BY <2>2
  <2> DEFINE r == [q EXCEPT ![First(unused)] = e]
  <2>6. /\ r \in Seq(Slots) /\ Len(r) = Len(q)
        /\ \A state, x : W(q, state, x) \ {First(unused)} \subseteq W(r, state, x)
    BY <2>5, OneChanged
  <2>7. Keeps(q, r)
    BY <2>4, <2>6 DEF Keeps
  <2> QED BY <2>3, <2>6, <2>7
<1>2. CASE unused = {}
  <2>1. add_packet_id(q, e) = push_back(q, e)
    BY <1>2 DEF add_packet_id
  <2>2. CASE Len(q) < MaxEntries
    <3>1. add_packet_id(q, e) = Append(q, e)
      BY <2>1, <2>2 DEF push_back
    <3>2. /\ Append(q, e) \in Seq(Slots)
          /\ Len(Append(q, e)) = Len(q) + 1
          /\ DOMAIN q \subseteq DOMAIN Append(q, e)
          /\ \A i \in DOMAIN q : Append(q, e)[i] = q[i]
      OBVIOUS
    <3>3. Keeps(q, Append(q, e))
      BY <3>2 DEF Keeps, W
    <3>4. Len(q) + 1 <= MaxEntries
      <4>1. Len(q) \in Nat
        OBVIOUS
      <4>2. MaxEntries \in Nat
        BY BoundsAssumption
      <4> QED BY <2>2, <4>1, <4>2
    <3> QED BY <3>1, <3>2, <3>3, <3>4
  <2>3. CASE ~(Len(q) < MaxEntries)
    <3>1. add_packet_id(q, e) = q
      BY <2>1, <2>3 DEF push_back
    <3> QED BY <3>1 DEF Keeps, W
  <2> QED BY <2>2, <2>3
<1> QED BY <1>1, <1>2

LEMMA LeftKeeps ==
  ASSUME NEW q \in Seq(Slots)
  PROVE  /\ LeftBehind(q) \in Seq(Slots)
         /\ Keeps(q, LeftBehind(q))
         /\ Len(LeftBehind(q)) = Len(q)
<1>1. \A e \in Slots : /\ [e EXCEPT !.own = FALSE] \in Slots
                       /\ [e EXCEPT !.own = FALSE].id = e.id
                       /\ [e EXCEPT !.own = FALSE].state = e.state
  <2>1. \A e \in Entries : /\ [e EXCEPT !.own = FALSE] \in Entries
                           /\ [e EXCEPT !.own = FALSE].id = e.id
                           /\ [e EXCEPT !.own = FALSE].state = e.state
    BY DEF Entries
  <2>2. [FreeEntry EXCEPT !.own = FALSE] = FreeEntry
    <3>1. FreeEntry \in [id : {0}, state : {"getpuback"}, qos : {0}, own : {FALSE}, msg : {0}]
      BY DEF FreeEntry
    <3>2. [FreeEntry EXCEPT !.own = FALSE] \in [id : {0}, state : {"getpuback"}, qos : {0}, own : {FALSE}, msg : {0}]
      BY <3>1
    <3> QED BY <3>1, <3>2
  <2> QED BY <2>1, <2>2 DEF Slots
<1>2. /\ LeftBehind(q) \in Seq(Slots)
      /\ Len(LeftBehind(q)) = Len(q)
      /\ DOMAIN LeftBehind(q) = DOMAIN q
  BY <1>1 DEF LeftBehind
<1>3. \A i \in DOMAIN q : /\ q[i] \in Slots
                          /\ LeftBehind(q)[i] = [q[i] EXCEPT !.own = FALSE]
  BY DEF LeftBehind
<1> QED BY <1>1, <1>2, <1>3 DEF Keeps, W

-----------------------------------------------------------------------------
(* The store: a node that holds a message is needed by somebody.            *)

NodeType == [id : Ids \cup {0}, count : 0..MaxCount, qos : 0..2, msg : 0..MaxPubs]

StoreOK(st) == st \in [Nodes -> NodeType] /\ \A j \in Nodes : st[j].id # 0 => st[j].count >= 1

LEMMA FreeNodeType == FreeNode \in NodeType /\ FreeNode.id = 0
BY BoundsAssumption DEF FreeNode, NodeType

LEMMA CountedOK ==
  ASSUME NEW st, StoreOK(st), NEW j \in Nodes, NEW n \in Int, st[j].count + n \in 0..MaxCount
  PROVE  StoreOK(Counted(st, j, n))
<1>1. st[j] \in NodeType /\ st[j].count \in Int
  BY DEF StoreOK, NodeType
<1>2. CASE st[j].count + n = 0
  BY <1>2, FreeNodeType DEF Counted, StoreOK
<1>3. CASE st[j].count + n # 0
  <2> DEFINE node == [st[j] EXCEPT !.count = @ + n]
  <2>1. node \in NodeType /\ node.count = st[j].count + n
    BY <1>1 DEF NodeType
  <2>2. node.count >= 1
    BY <1>3, <2>1, BoundsAssumption
  <2>3. Counted(st, j, n) = [st EXCEPT ![j] = node]
    BY <1>3, <1>1 DEF Counted, StoreOK
  <2> HIDE DEF node
  <2> QED BY <2>1, <2>2, <2>3 DEF StoreOK
<1> QED BY <1>2, <1>3

LEMMA GivenBackOK ==
  ASSUME NEW st, StoreOK(st), NEW x \in Ids, NEW r \in GivenBack(st, x)
  PROVE  StoreOK(r)
<1>1. CASE Found(st, x) = {}
  BY <1>1 DEF GivenBack
<1>2. CASE Found(st, x) # {}
  <2>1. PICK j \in Found(st, x) : r = Counted(st, j, -1)
    BY <1>2 DEF GivenBack
  <2>2. j \in Nodes /\ st[j].id = x
    BY <2>1 DEF Found, StoreOK
  <2>3. st[j].count \in 0..MaxCount /\ st[j].count >= 1
    BY <2>2, SlotShape DEF StoreOK, NodeType
  <2>4. st[j].count + (-1) \in 0..MaxCount
    BY <2>3, BoundsAssumption
  <2> QED BY <2>1, <2>2, <2>4, CountedOK
<1> QED BY <1>1, <1>2

\* A node that becomes another good one leaves a good store.
LEMMA NodeSet ==
  ASSUME NEW st, StoreOK(st), NEW j \in Nodes, NEW node \in NodeType, node.id # 0 => node.count >= 1
  PROVE  StoreOK([st EXCEPT ![j] = node])
BY DEF StoreOK

\* What rehash leaves is good, and it loses only nodes in use.
LEMMA MovedOK ==
  ASSUME NEW st, StoreOK(st), NEW moved \in Moved(st)
  PROVE  StoreOK(moved) /\ Dropped(st, moved) \subseteq Ids
<1>1. PICK D \in SUBSET (DOMAIN st \ Found(st, 0)) :
        moved = [j \in DOMAIN st |-> IF j \in D THEN FreeNode ELSE st[j]]
  BY DEF Moved
<1>2. DOMAIN st = Nodes
  BY DEF StoreOK
<1>3. StoreOK(moved)
  BY <1>1, <1>2, FreeNodeType DEF StoreOK
<1>4. ASSUME NEW k \in DOMAIN st, moved[k] # st[k] PROVE st[k].id \in Ids
  <2>1. k \in D
    BY <1>1, <1>4
  <2>2. st[k].id # 0 /\ st[k] \in NodeType
    BY <1>2, <2>1 DEF Found, StoreOK
  <2> QED BY <2>2 DEF NodeType
<1> QED BY <1>3, <1>4 DEF Dropped

LEMMA PlacedOK ==
  ASSUME NEW st, StoreOK(st), NEW node \in NodeType, node.count >= 1, NEW r \in Placed(st, node)
  PROVE  StoreOK(r.st) /\ r.over \subseteq Ids
<1> DEFINE free == Found(st, 0)
<1>1. DOMAIN st = Nodes /\ free \in SUBSET Nat /\ free \subseteq Nodes
  BY DEF StoreOK, Found, Nodes
<1>2. CASE \E j \in free : r = [st |-> [st EXCEPT ![First(free)] = node], over |-> {}]
  <2>1. First(free) \in Nodes
    BY <1>1, <1>2, FirstIn
  <2> HIDE DEF free
  <2>2. r.st = [st EXCEPT ![First(free)] = node] /\ r.over = {}
    BY <1>2
  <2> QED BY <2>1, <2>2, NodeSet
<1>3. CASE \E j \in DOMAIN st \ free : r = [st |-> [st EXCEPT ![j] = node], over |-> {st[j].id}]
  <2>1. PICK j \in DOMAIN st \ free : r = [st |-> [st EXCEPT ![j] = node], over |-> {st[j].id}]
    BY <1>3
  <2>2. j \in Nodes /\ st[j].id \in Ids
    BY <1>1, <2>1 DEF StoreOK, NodeType, Found
  <2>3. r.st = [st EXCEPT ![j] = node] /\ r.over = {st[j].id}
    BY <2>1
  <2> QED BY <2>2, <2>3, NodeSet
<1> QED BY <1>2, <1>3 DEF Placed

LEMMA SpoiltOK == ASSUME NEW st, StoreOK(st), NEW r \in Spoilt(st) PROVE StoreOK(r)
<1>1. CASE r = st
  BY <1>1
<1>2. CASE \E j \in DOMAIN st : r = [st EXCEPT ![j].msg = 0]
  <2>1. PICK j \in DOMAIN st : r = [st EXCEPT ![j].msg = 0]
    BY <1>2
  <2>2. j \in Nodes /\ st[j] \in NodeType /\ (st[j].id # 0 => st[j].count >= 1)
    BY <2>1 DEF StoreOK
  <2>3. /\ [st[j] EXCEPT !.msg = 0] \in NodeType
        /\ [st[j] EXCEPT !.msg = 0].id = st[j].id /\ [st[j] EXCEPT !.msg = 0].count = st[j].count
    BY <2>2, BoundsAssumption DEF NodeType
  <2>4. StoreOK([st EXCEPT ![j] = [st[j] EXCEPT !.msg = 0]])
    BY <2>2, <2>3, NodeSet
  <2> QED BY <2>1, <2>4
<1> QED BY <1>1, <1>2 DEF Spoilt

LEMMA AddedOK ==
  ASSUME NEW st, StoreOK(st), NEW x \in Ids, NEW n \in {1, 2}, NEW q \in 0..2, NEW m \in 0..MaxPubs,
         NEW a \in Added(st, x, n, q, m)
  PROVE  StoreOK(a.st) /\ a.over \subseteq Ids /\ a.ok \in BOOLEAN
<1> DEFINE node == [id |-> x, count |-> n, qos |-> q, msg |-> m]
<1>1. node \in NodeType /\ node.count >= 1
  BY BoundsAssumption DEF NodeType
<1> HIDE DEF node
<1>2. PICK moved \in Moved(st) :
        \/ \E r \in Placed(moved, node) :
             a = [st |-> r.st, ok |-> TRUE, over |-> r.over \cup Dropped(st, moved)]
        \/ \E r \in Spoilt(moved) : a = [st |-> r, ok |-> FALSE, over |-> Dropped(st, moved)]
  BY DEF Added, node
<1>3. StoreOK(moved) /\ Dropped(st, moved) \subseteq Ids
  BY MovedOK
<1>4. CASE \E r \in Placed(moved, node) :
             a = [st |-> r.st, ok |-> TRUE, over |-> r.over \cup Dropped(st, moved)]
  <2>1. PICK r \in Placed(moved, node) :
          a = [st |-> r.st, ok |-> TRUE, over |-> r.over \cup Dropped(st, moved)]
    BY <1>4
  <2>2. StoreOK(r.st) /\ r.over \subseteq Ids
    BY <1>1, <1>3, PlacedOK
  <2>3. a.st = r.st /\ a.ok = TRUE /\ a.over = r.over \cup Dropped(st, moved)
    BY <2>1
  <2> QED BY <1>3, <2>2, <2>3
<1>5. CASE \E r \in Spoilt(moved) : a = [st |-> r, ok |-> FALSE, over |-> Dropped(st, moved)]
  <2>1. PICK r \in Spoilt(moved) : a = [st |-> r, ok |-> FALSE, over |-> Dropped(st, moved)]
    BY <1>5
  <2>2. a.st = r /\ a.ok = FALSE /\ a.over = Dropped(st, moved)
    BY <2>1
  <2> QED BY <1>3, <2>2, SpoiltOK
<1> QED BY <1>2, <1>4, <1>5

-----------------------------------------------------------------------------
(* The fan-out.                                                             *)

PacksOK(pk) == pk \in [Socks -> Seq(Slots)] /\ \A s \in Socks : Len(pk[s]) <= MaxEntries
ArmedOK(ar) == ar \in [Socks -> SUBSET {"read", "write"}]

LEMMA EntryType ==
  ASSUME NEW x \in Ids, NEW state \in Gets \cup SendStates, NEW q \in 0..2, NEW m \in 0..MaxPubs
  PROVE  Entry(x, state, q, m) \in Slots
BY DEF Entry, Slots, Entries

LEMMA MinQosType == ASSUME NEW a \in 0..2, NEW b \in 0..2 PROVE MinQos(a, b) \in 0..2
BY DEF MinQos

LEMMA FanOut ==
  ASSUME NEW st, StoreOK(st), NEW pk, PacksOK(pk), NEW ar, ArmedOK(ar),
         NEW live \in SUBSET Socks, NEW t \in Topics, NEW x \in Ids, NEW q \in 0..2,
         NEW m \in 0..MaxPubs, NEW gone \in SUBSET Ids,
         subs \in [Socks -> [Topics -> Qos \cup {None}]], lost \in SUBSET Ids,
         PublishByTopic(st, pk, ar, live, t, x, q, m, gone)
  PROVE  /\ StoreOK(store') /\ PacksOK(packs') /\ ArmedOK(armed') /\ lost' \subseteq Ids
         /\ \A c \in Socks : Keeps(pk[c], packs'[c])
<1> DEFINE targets == {c \in live : subs[c][t] # None}
           to(c) == add_packet_id(pk[c], Entry(x, "sendpublish", MinQos(q, subs[c][t]), m))
<1>1. IsFiniteSet(targets) /\ targets \subseteq Socks
  BY SocksAssumption, FS_Subset
<1>2. Cardinality(targets) \in Nat
  BY <1>1, FS_CardinalityType
<1>3. \A c \in targets : to(c) \in Seq(Slots) /\ Len(to(c)) <= MaxEntries /\ Keeps(pk[c], to(c))
  <2> SUFFICES ASSUME NEW c \in targets
               PROVE  to(c) \in Seq(Slots) /\ Len(to(c)) <= MaxEntries /\ Keeps(pk[c], to(c))
    OBVIOUS
  <2>1. c \in Socks /\ subs[c][t] \in 0..2
    BY <1>1, QosAssumption DEF None
  <2>2. MinQos(q, subs[c][t]) \in 0..2
    BY <2>1, MinQosType
  <2>3. Entry(x, "sendpublish", MinQos(q, subs[c][t]), m) \in Slots
    BY <2>2, EntryType DEF SendStates
  <2>4. pk[c] \in Seq(Slots) /\ Len(pk[c]) <= MaxEntries
    BY <2>1 DEF PacksOK
  <2> QED BY <2>3, <2>4, AddKeeps
<1>4. \A c \in Socks : Keeps(pk[c], pk[c])
  BY DEF Keeps
<1>5. PICK a \in Added(st, x, 1, q, m) :
        \/ /\ Found(a.st, x) = {}
           /\ store' = a.st /\ packs' = pk /\ armed' = ar
           /\ lost' = lost \cup gone \cup a.over
        \/ \E j \in Found(a.st, x) :
             /\ a.st[j].count + Cardinality(targets) <= MaxCount
             /\ store' = Counted(a.st, j, Cardinality(targets) - 1)
             /\ packs' = [c \in Socks |-> IF c \in targets THEN to(c) ELSE pk[c]]
             /\ armed' = [c \in Socks |-> IF c \in targets THEN (ar[c] \ {"read"}) \cup {"write"}
                                                          ELSE ar[c]]
             /\ lost' = lost \cup gone \cup a.over \cup (IF a.ok THEN {} ELSE {x})
  BY DEF PublishByTopic
<1>6. StoreOK(a.st) /\ a.over \subseteq Ids
  BY AddedOK
<1>7. CASE Found(a.st, x) = {} /\ store' = a.st /\ packs' = pk /\ armed' = ar
           /\ lost' = lost \cup gone \cup a.over
  BY <1>4, <1>6, <1>7
<1>8. ASSUME NEW j \in Found(a.st, x),
             a.st[j].count + Cardinality(targets) <= MaxCount,
             store' = Counted(a.st, j, Cardinality(targets) - 1),
             packs' = [c \in Socks |-> IF c \in targets THEN to(c) ELSE pk[c]],
             armed' = [c \in Socks |-> IF c \in targets THEN (ar[c] \ {"read"}) \cup {"write"}
                                                          ELSE ar[c]],
             lost' = lost \cup gone \cup a.over \cup (IF a.ok THEN {} ELSE {x})
      PROVE  /\ StoreOK(store') /\ PacksOK(packs') /\ ArmedOK(armed') /\ lost' \subseteq Ids
             /\ \A c \in Socks : Keeps(pk[c], packs'[c])
  <2>1. j \in Nodes /\ a.st[j].id = x
    BY <1>6 DEF Found, StoreOK
  <2>2. a.st[j].count \in 0..MaxCount /\ a.st[j].count >= 1
    BY <1>6, <2>1, SlotShape DEF StoreOK, NodeType
  <2>3. /\ Cardinality(targets) - 1 \in Int
        /\ a.st[j].count + (Cardinality(targets) - 1) \in 0..MaxCount
    <3> HIDE DEF targets
    <3> QED BY <1>2, <1>8, <2>2, BoundsAssumption
  <2>4. StoreOK(store')
    <3> HIDE DEF targets
    <3> QED BY <1>6, <1>8, <2>1, <2>3, CountedOK
  <2>5. PacksOK(packs') /\ \A c \in Socks : Keeps(pk[c], packs'[c])
    <3> HIDE DEF targets, to
    <3>1. \A c \in Socks : packs'[c] = IF c \in targets THEN to(c) ELSE pk[c]
      BY <1>8
    <3>2. \A c \in Socks : pk[c] \in Seq(Slots) /\ Len(pk[c]) <= MaxEntries
      BY DEF PacksOK
    <3>3. \A c \in Socks : /\ packs'[c] \in Seq(Slots) /\ Len(packs'[c]) <= MaxEntries
                           /\ Keeps(pk[c], packs'[c])
      BY <1>3, <1>4, <3>1, <3>2
    <3> QED BY <1>8, <3>3 DEF PacksOK
  <2>6. ArmedOK(armed')
    <3> HIDE DEF targets
    <3> QED BY <1>8 DEF ArmedOK
  <2>7. lost' \subseteq Ids
    BY <1>6, <1>8
  <2> QED BY <2>4, <2>5, <2>6, <2>7
<1> QED BY <1>5, <1>7, <1>8

-----------------------------------------------------------------------------
(* Acknowledgements that are owed.                                          *)

\* The inductive invariant.
IInv == TypeOK /\ StoreOK(store) /\ HonestAckIsFound

OwedOK(ow) == ow \in [Socks \X Gets \X Ids -> Nat]

\* The types that a step which gives the packs and the store may disturb.
RestOK ==
  /\ up \in [Socks -> BOOLEAN] /\ ArmedOK(armed)
  /\ subs \in [Socks -> [Topics -> Qos \cup {None}]]
  /\ retained \in [Topics -> Ids \cup {None}]
  /\ OwedOK(owed)
  /\ pubs \in 0..MaxPubs /\ lost \subseteq Ids /\ mixed \subseteq Ids

LEMMA IInvParts ==
  /\ IInv => RestOK /\ PacksOK(packs) /\ StoreOK(store) /\ HonestAckIsFound
  /\ RestOK /\ PacksOK(packs) /\ StoreOK(store) => TypeOK
BY DEF IInv, RestOK, PacksOK, ArmedOK, OwedOK, StoreOK, NodeType, TypeOK

\* The same of a next state.
LEMMA IInvNext ==
  RestOK' /\ PacksOK(packs') /\ StoreOK(store') /\ HonestAckIsFound' => IInv'
BY DEF IInv, RestOK, PacksOK, ArmedOK, OwedOK, StoreOK, NodeType, TypeOK

LEMMA WaitingIsW == \A s, state, x : Waiting(s, state, x) = W(packs[s], state, x)
BY DEF Waiting, W

\* Honest, said of given entries and answers.
Honest(pk, ow) ==
  \A s \in Socks, state \in Gets, x \in Ids :
    ow[<<s, state, x>>] <= Cardinality(W(pk[s], state, x))

LEMMA HonestParts ==
  /\ HonestAckIsFound <=> Honest(packs, owed)
  /\ HonestAckIsFound' <=> Honest(packs', owed')
BY DEF HonestAckIsFound, Honest, Waiting, W

\* No entry that waits is taken away, and no more is owed.
LEMMA KeptHonest ==
  ASSUME NEW pk, PacksOK(pk), NEW qk, PacksOK(qk), NEW ow, OwedOK(ow), NEW oq, OwedOK(oq),
         Honest(pk, ow),
         \A c \in Socks : Keeps(pk[c], qk[c]),
         \A o \in Socks \X Gets \X Ids : oq[o] <= ow[o]
  PROVE  Honest(qk, oq)
<1> SUFFICES ASSUME NEW s \in Socks, NEW state \in Gets, NEW x \in Ids
             PROVE  oq[<<s, state, x>>] <= Cardinality(W(qk[s], state, x))
  BY DEF Honest
<1>1. pk[s] \in Seq(Slots) /\ qk[s] \in Seq(Slots)
  BY DEF PacksOK
<1>2. W(pk[s], state, x) \subseteq W(qk[s], state, x)
  BY DEF Keeps
<1>3. IsFiniteSet(W(qk[s], state, x)) /\ Cardinality(W(qk[s], state, x)) \in Nat
  BY <1>1, WaitFinite
<1>4. Cardinality(W(pk[s], state, x)) <= Cardinality(W(qk[s], state, x))
  BY <1>2, <1>3, FS_Subset
<1>5. Cardinality(W(pk[s], state, x)) \in Nat
  BY <1>1, WaitFinite
<1>6. /\ oq[<<s, state, x>>] \in Nat /\ ow[<<s, state, x>>] \in Nat
      /\ oq[<<s, state, x>>] <= ow[<<s, state, x>>]
  BY DEF OwedOK
<1>7. ow[<<s, state, x>>] <= Cardinality(W(pk[s], state, x))
  BY DEF Honest
<1> QED BY <1>3, <1>4, <1>5, <1>6, <1>7

One(b) == IF b THEN 1 ELSE 0

\* An entry f of s becomes e: what is owed now has an entry more or less.
Balanced(s, f, e, ow, oq) ==
  /\ \A o \in Socks \X Gets \X Ids : o[1] # s => oq[o] = ow[o]
  /\ \A state \in Gets, x \in Ids :
       \/ oq[<<s, state, x>>] + One(f.state = state /\ f.id = x)
            <= ow[<<s, state, x>>] + One(e.state = state /\ e.id = x)
       \/ oq[<<s, state, x>>] = 0
       \/ oq[<<s, state, x>>] = 1 /\ e.state = state /\ e.id = x

\* One entry of s becomes e.
LEMMA OneHonest ==
  ASSUME NEW pk, PacksOK(pk), NEW s \in Socks, NEW i \in DOMAIN pk[s], NEW e \in Slots,
         NEW ow, OwedOK(ow), NEW oq, OwedOK(oq), Honest(pk, ow),
         Balanced(s, pk[s][i], e, ow, oq)
  PROVE  PacksOK([pk EXCEPT ![s][i] = e]) /\ Honest([pk EXCEPT ![s][i] = e], oq)
<1> DEFINE q == pk[s]
           r == [q EXCEPT ![i] = e]
           qk == [pk EXCEPT ![s][i] = e]
<1>1. /\ q \in Seq(Slots) /\ Len(q) <= MaxEntries
      /\ r \in Seq(Slots) /\ Len(r) = Len(q)
  BY OneChanged DEF PacksOK
<1>2. qk[s] = r /\ \A c \in Socks : c # s => qk[c] = pk[c]
  BY DEF PacksOK
<1>3. PacksOK(qk)
  BY <1>1, <1>2 DEF PacksOK
<1>4. ASSUME NEW c \in Socks, NEW state \in Gets, NEW x \in Ids, c # s
      PROVE  oq[<<c, state, x>>] <= Cardinality(W(qk[c], state, x))
  <2>1. oq[<<c, state, x>>] = ow[<<c, state, x>>]
    BY <1>4 DEF Balanced
  <2> QED BY <1>2, <1>4, <2>1 DEF Honest
<1>5. ASSUME NEW state \in Gets, NEW x \in Ids
      PROVE  oq[<<s, state, x>>] <= Cardinality(W(r, state, x))
  <2> DEFINE A == W(q, state, x)
             B == W(r, state, x)
             was == q[i].state = state /\ q[i].id = x
             is == e.state = state /\ e.id = x
  <2>1. /\ DOMAIN r = DOMAIN q /\ r[i] = e /\ \A k \in DOMAIN q : k # i => r[k] = q[k]
    BY <1>1
  <2>2. /\ i \in A <=> was
        /\ B = (A \ {i}) \cup (IF is THEN {i} ELSE {})
    BY <2>1 DEF W
  <2>3. IsFiniteSet(A) /\ Cardinality(A) \in Nat /\ IsFiniteSet(B) /\ Cardinality(B) \in Nat
    BY <1>1, WaitFinite
  <2>4. Cardinality(A \ {i}) = Cardinality(A) - One(was) /\ IsFiniteSet(A \ {i})
    <3> HIDE DEF A, was
    <3>1. Cardinality(A \ {i}) = IF i \in A THEN Cardinality(A) - 1 ELSE Cardinality(A)
      BY <2>3, FS_RemoveElement
    <3> QED BY <2>2, <2>3, <3>1, FS_RemoveElement DEF One
  <2>5. Cardinality((A \ {i}) \cup {i}) = Cardinality(A \ {i}) + 1
    <3> HIDE DEF A
    <3> QED BY <2>4, FS_AddElement
  <2>6. Cardinality(B) = Cardinality(A) - One(was) + One(is)
    <3> HIDE DEF A, was, is, B
    <3>1. CASE is
      BY <2>2, <2>3, <2>4, <2>5, <3>1 DEF One
    <3>2. CASE ~is
      <4>1. B = A \ {i}
        BY <2>2, <3>2
      <4> QED BY <2>3, <2>4, <3>2, <4>1 DEF One
    <3> QED BY <3>1, <3>2
  <2>7. oq[<<s, state, x>>] \in Nat /\ ow[<<s, state, x>>] \in Nat
    BY DEF OwedOK
  <2>8. ow[<<s, state, x>>] <= Cardinality(A)
    BY DEF Honest
  <2>9. One(was) \in {0, 1} /\ One(is) \in {0, 1} /\ (was => Cardinality(A) >= 1)
    <3>1. was => A # {}
      BY <2>2
    <3>2. Cardinality(A) = 0 => A = {}
      BY <2>3, FS_EmptySet
    <3> HIDE DEF A, was, is
    <3> QED BY <2>3, <3>1, <3>2 DEF One
  <2>10. \/ oq[<<s, state, x>>] + One(was) <= ow[<<s, state, x>>] + One(is)
         \/ oq[<<s, state, x>>] = 0
         \/ oq[<<s, state, x>>] = 1 /\ is
    BY DEF Balanced
  <2> HIDE DEF A, B, was, is
  <2>11. is => One(is) = 1
    BY DEF One
  <2>12. ~was => One(was) = 0
    BY DEF One
  <2>13. oq[<<s, state, x>>] <= Cardinality(B)
    BY <2>3, <2>6, <2>7, <2>8, <2>9, <2>10, <2>11, <2>12
  <2> QED BY <2>13 DEF B
<1> HIDE DEF q, r, qk
<1>6. Honest(qk, oq)
  <2>1. \A c \in Socks, state \in Gets, x \in Ids : oq[<<c, state, x>>] <= Cardinality(W(qk[c], state, x))
    BY <1>2, <1>4, <1>5
  <2> QED BY <2>1 DEF Honest
<1> QED BY <1>3, <1>6 DEF qk

-----------------------------------------------------------------------------
(* Each action keeps the invariant.                                         *)

\* A step that takes no entry that waits and raises no debt.
LEMMA KeepingStep ==
  ASSUME IInv, RestOK', PacksOK(packs'), StoreOK(store'),
         \A c \in Socks : Keeps(packs[c], packs'[c]),
         \A o \in Socks \X Gets \X Ids : owed'[o] <= owed[o]
  PROVE  IInv'
<1>1. OwedOK(owed) /\ OwedOK(owed') /\ PacksOK(packs) /\ Honest(packs, owed)
  BY IInvParts, HonestParts DEF RestOK, OwedOK
<1>2. Honest(packs', owed')
  BY <1>1, KeptHonest
<1> QED BY <1>2, HonestParts, IInvNext

LEMMA KeepsSelf == \A q : Keeps(q, q)
BY DEF Keeps

LEMMA OwedSelf == OwedOK(owed) => \A o \in Socks \X Gets \X Ids : owed[o] <= owed[o]
BY DEF OwedOK

LEMMA ConnectKeeps == ASSUME IInv, NEW s \in Socks, Connect(s) PROVE IInv'
<1>1. RestOK /\ PacksOK(packs) /\ StoreOK(store)
  BY IInvParts
<1>2. RestOK'
  BY <1>1 DEF Connect, RestOK, ArmedOK, OwedOK
<1>3. packs' = packs /\ store' = store /\ owed' = owed
  BY DEF Connect
<1> QED BY <1>1, <1>2, <1>3, KeepsSelf, OwedSelf, KeepingStep DEF RestOK

\* The end of a connection: its answers are forgotten, its entries are not.
LEMMA GoneKeeps ==
  ASSUME RestOK, NEW s \in Socks, Gone(s)
  PROVE  /\ up' \in [Socks -> BOOLEAN]
         /\ subs' \in [Socks -> [Topics -> Qos \cup {None}]]
         /\ OwedOK(owed')
         /\ \A o \in Socks \X Gets \X Ids : owed'[o] <= owed[o]
<1>1. DOMAIN owed = Socks \X Gets \X Ids
  BY DEF RestOK, OwedOK
<1>2. \A o \in Socks \X Gets \X Ids : owed'[o] = IF o[1] = s THEN 0 ELSE owed[o]
  BY <1>1 DEF Gone
<1>3. \A o \in Socks \X Gets \X Ids : owed[o] \in Nat /\ owed'[o] \in Nat /\ owed'[o] <= owed[o]
  BY <1>2 DEF RestOK, OwedOK
<1>4. OwedOK(owed')
  BY <1>1, <1>3 DEF Gone, OwedOK
<1> QED BY <1>3, <1>4 DEF Gone, RestOK

LEMMA LeftOK ==
  ASSUME PacksOK(packs), NEW s \in Socks
  PROVE  /\ PacksOK([packs EXCEPT ![s] = LeftBehind(@)])
         /\ \A c \in Socks : Keeps(packs[c], [packs EXCEPT ![s] = LeftBehind(@)][c])
<1>1. packs[s] \in Seq(Slots) /\ Len(packs[s]) <= MaxEntries
  BY DEF PacksOK
<1>2. /\ LeftBehind(packs[s]) \in Seq(Slots) /\ Keeps(packs[s], LeftBehind(packs[s]))
      /\ Len(LeftBehind(packs[s])) <= MaxEntries
  BY <1>1, LeftKeeps
<1> QED BY <1>2, KeepsSelf DEF PacksOK

LEMMA DropKeeps == ASSUME IInv, NEW s \in Socks, Drop(s) PROVE IInv'
<1>1. RestOK /\ PacksOK(packs) /\ StoreOK(store)
  BY IInvParts
<1>2. RestOK'
  BY <1>1, GoneKeeps DEF Drop, RestOK, ArmedOK
<1>3. store' = store /\ packs' = [packs EXCEPT ![s] = LeftBehind(@)]
  BY DEF Drop
<1> QED BY <1>1, <1>2, <1>3, LeftOK, GoneKeeps, KeepingStep DEF Drop

LEMMA DropWithWillKeeps ==
  ASSUME IInv, NEW s \in Socks, NEW t \in Topics, NEW x \in Ids, NEW q \in Qos, DropWithWill(s, t, x, q)
  PROVE  IInv'
<1> DEFINE pk == [packs EXCEPT ![s] = LeftBehind(@)]
           ar == [armed EXCEPT ![s] = {}]
           live == {c \in Socks \ {s} : up[c]}
<1>1. RestOK /\ PacksOK(packs) /\ StoreOK(store)
  BY IInvParts
<1>2. /\ PacksOK(pk) /\ \A c \in Socks : Keeps(packs[c], pk[c])
      /\ ArmedOK(ar) /\ live \in SUBSET Socks
  BY <1>1, LeftOK DEF RestOK, ArmedOK
<1>3. PublishByTopic(store, pk, ar, live, t, x, q, 0, {})
  BY DEF DropWithWill
<1>4. q \in 0..2 /\ 0 \in 0..MaxPubs /\ {} \in SUBSET Ids
  BY QosAssumption, BoundsAssumption
<1>5. subs \in [Socks -> [Topics -> Qos \cup {None}]] /\ lost \in SUBSET Ids
  BY <1>1 DEF RestOK
<1> HIDE DEF pk, ar, live
<1>6. /\ StoreOK(store') /\ PacksOK(packs') /\ ArmedOK(armed') /\ lost' \subseteq Ids
      /\ \A c \in Socks : Keeps(pk[c], packs'[c])
  BY <1>1, <1>2, <1>3, <1>4, <1>5, FanOut
<1>7. \A c \in Socks : Keeps(packs[c], packs'[c])
  BY <1>2, <1>6 DEF Keeps
<1>8. pubs' \in 0..MaxPubs /\ mixed' \subseteq Ids /\ retained' = retained /\ Gone(s)
  BY <1>1, BoundsAssumption DEF DropWithWill, RestOK
<1>9. RestOK'
  BY <1>1, <1>6, <1>8, GoneKeeps DEF RestOK
<1> QED BY <1>1, <1>6, <1>7, <1>8, <1>9, GoneKeeps, KeepingStep

LEMMA AnsweredKeeps ==
  ASSUME NEW p \in Seq(Slots), Len(p) <= MaxEntries, NEW level \in 0..2, NEW x \in Ids
  PROVE  /\ Answered(p, level, x) \in Seq(Slots) /\ Len(Answered(p, level, x)) <= MaxEntries
         /\ Keeps(p, Answered(p, level, x))
<1>1. CASE level = 0
  BY <1>1, KeepsSelf DEF Answered
<1>2. CASE level = 1
  <2>1. Entry(x, "sendpuback", 1, 0) \in Slots
    <3>1. "sendpuback" \in Gets \cup SendStates /\ 1 \in 0..2 /\ 0 \in 0..MaxPubs
      BY BoundsAssumption DEF SendStates
    <3> QED BY <3>1, EntryType
  <2>2. Answered(p, level, x) = add_packet_id(p, Entry(x, "sendpuback", 1, 0))
    BY <1>2 DEF Answered
  <2> QED BY <2>1, <2>2, AddKeeps
<1>3. CASE level = 2
  <2>1. Entry(x, "sendpubrec", 2, 0) \in Slots
    <3>1. "sendpubrec" \in Gets \cup SendStates /\ 2 \in 0..2 /\ 0 \in 0..MaxPubs
      BY BoundsAssumption DEF SendStates
    <3> QED BY <3>1, EntryType
  <2>2. Answered(p, level, x) = add_packet_id(p, Entry(x, "sendpubrec", 2, 0))
    BY <1>3 DEF Answered
  <2> QED BY <2>1, <2>2, AddKeeps
<1> QED BY <1>1, <1>2, <1>3

\* The entries of s become p, those of the others stay.
LEMMA OneSlotOK ==
  ASSUME PacksOK(packs), NEW s \in Socks, NEW p \in Seq(Slots), Len(p) <= MaxEntries, Keeps(packs[s], p)
  PROVE  /\ PacksOK([packs EXCEPT ![s] = p])
         /\ \A c \in Socks : Keeps(packs[c], [packs EXCEPT ![s] = p][c])
BY KeepsSelf DEF PacksOK

LEMMA PublishKeeps ==
  ASSUME IInv, NEW s \in Socks, NEW t \in Topics, NEW x \in Ids, NEW q \in Qos, NEW retain \in BOOLEAN,
         Publish(s, t, x, q, retain)
  PROVE  IInv'
<1> DEFINE pk == [packs EXCEPT ![s] = Answered(@, q, x)]
           ar == [armed EXCEPT ![s] = IF q = 0 THEN @ ELSE (@ \ {"read"}) \cup {"write"}]
           live == {c \in Socks : up[c]}
           kept == [st |-> store, ok |-> FALSE, over |-> {}]
<1>1. RestOK /\ PacksOK(packs) /\ StoreOK(store)
  BY IInvParts
<1>2. q \in 0..2
  BY QosAssumption
<1>3. packs[s] \in Seq(Slots) /\ Len(packs[s]) <= MaxEntries
  BY <1>1 DEF PacksOK
<1>4. PacksOK(pk) /\ \A c \in Socks : Keeps(packs[c], pk[c])
  BY <1>1, <1>2, <1>3, AnsweredKeeps, OneSlotOK
<1>5. ArmedOK(ar) /\ live \in SUBSET Socks
  BY <1>1 DEF RestOK, ArmedOK
<1>6. pubs \in 0..MaxPubs /\ pubs' = pubs + 1 /\ pubs + 1 \in 0..MaxPubs
  BY <1>1, BoundsAssumption DEF RestOK, Publish
<1>7. subs \in [Socks -> [Topics -> Qos \cup {None}]] /\ lost \in SUBSET Ids
  BY <1>1 DEF RestOK
<1>8. PICK r \in IF retain THEN Added(store, x, 2, q, pubs + 1) ELSE {kept} :
        /\ retained' \in IF r.ok THEN Noted(t, x) ELSE {retained}
        /\ \E st \in Retain(t, x, r) : PublishByTopic(st, pk, ar, live, t, x, q, pubs + 1, r.over)
  BY DEF Publish
<1>9. StoreOK(r.st) /\ r.over \in SUBSET Ids /\ r.ok \in BOOLEAN
  <2>1. CASE retain
    <3>1. r \in Added(store, x, 2, q, pubs + 1)
      BY <1>8, <2>1
    <3> QED BY <1>1, <1>2, <1>6, <3>1, AddedOK
  <2>2. CASE ~retain
    <3>1. r = [st |-> store, ok |-> FALSE, over |-> {}]
      BY <1>8, <2>2
    <3>2. r.st = store /\ r.over = {} /\ r.ok = FALSE
      BY <3>1
    <3> QED BY <1>1, <3>2
  <2> QED BY <2>1, <2>2
<1>10. PICK st \in Retain(t, x, r) : PublishByTopic(st, pk, ar, live, t, x, q, pubs + 1, r.over)
  BY <1>8
<1>11. StoreOK(st)
  <2>1. CASE r.ok /\ retained[t] # None
    <3>1. retained[t] \in Ids
      BY <1>1, <2>1 DEF RestOK
    <3>2. st \in GivenBack(r.st, retained[t])
      BY <1>10, <2>1 DEF Retain
    <3> QED BY <1>9, <3>1, <3>2, GivenBackOK
  <2>2. CASE ~(r.ok /\ retained[t] # None)
    BY <1>9, <1>10, <2>2 DEF Retain
  <2> QED BY <2>1, <2>2
<1> HIDE DEF pk, ar, live, kept
<1>12. /\ StoreOK(store') /\ PacksOK(packs') /\ ArmedOK(armed') /\ lost' \subseteq Ids
       /\ \A c \in Socks : Keeps(pk[c], packs'[c])
  BY <1>2, <1>4, <1>5, <1>6, <1>7, <1>9, <1>10, <1>11, FanOut
<1>13. \A c \in Socks : Keeps(packs[c], packs'[c])
  BY <1>4, <1>12 DEF Keeps
<1>14. retained' \in [Topics -> Ids \cup {None}]
  <2>1. retained \in [Topics -> Ids \cup {None}]
    BY <1>1 DEF RestOK
  <2>2. \/ retained' = [retained EXCEPT ![t] = x]
        \/ retained' = retained
        \/ retained' = [u \in Topics |-> None]
    BY <1>8 DEF Noted
  <2> QED BY <1>1, <2>1, <2>2
<1>15. mixed' \subseteq Ids /\ up' = up /\ subs' = subs /\ owed' = owed
  BY <1>1 DEF Publish, RestOK
<1>16. RestOK'
  BY <1>1, <1>6, <1>12, <1>14, <1>15 DEF RestOK, OwedOK
<1>17. \A o \in Socks \X Gets \X Ids : owed'[o] <= owed[o]
  BY <1>1, <1>15, OwedSelf DEF RestOK
<1> QED BY <1>12, <1>13, <1>16, <1>17, KeepingStep

LEMMA SubscribeKeeps ==
  ASSUME IInv, NEW s \in Socks, NEW t \in Topics, NEW q \in Qos, Subscribe(s, t, q)
  PROVE  IInv'
<1>1. RestOK /\ PacksOK(packs) /\ StoreOK(store)
  BY IInvParts
<1>2. /\ up' = up /\ retained' = retained /\ owed' = owed /\ pubs' = pubs /\ lost' = lost
      /\ mixed' = mixed /\ subs' = [subs EXCEPT ![s][t] = q]
  BY DEF Subscribe
<1>3. subs' \in [Socks -> [Topics -> Qos \cup {None}]]
  <2>1. [subs[s] EXCEPT ![t] = q] \in [Topics -> Qos \cup {None}]
    BY <1>1 DEF RestOK
  <2> QED BY <1>1, <1>2, <2>1 DEF RestOK
<1>4. \A o \in Socks \X Gets \X Ids : owed'[o] <= owed[o]
  BY <1>1, <1>2, OwedSelf DEF RestOK
<1>5. CASE UNCHANGED <<packs, store, armed>>
  <2>1. RestOK'
    BY <1>1, <1>2, <1>3, <1>5 DEF RestOK, ArmedOK, OwedOK
  <2> QED BY <1>1, <1>4, <1>5, <2>1, KeepsSelf, KeepingStep
<1>6. CASE \E j \in Found(store, retained[t]) :
        /\ retained[t] # None
        /\ store[j].count < MaxCount
        /\ packs' = [packs EXCEPT ![s] = add_packet_id(@,
                       Entry(retained[t], "sendpublish", MinQos(q, store[j].qos), store[j].msg))]
        /\ store' = Counted(store, j, 1)
        /\ armed' = [armed EXCEPT ![s] = @ \cup {"write"}]
  <2>1. PICK j \in Found(store, retained[t]) :
        /\ retained[t] # None
        /\ store[j].count < MaxCount
        /\ packs' = [packs EXCEPT ![s] = add_packet_id(@,
                       Entry(retained[t], "sendpublish", MinQos(q, store[j].qos), store[j].msg))]
        /\ store' = Counted(store, j, 1)
        /\ armed' = [armed EXCEPT ![s] = @ \cup {"write"}]
    BY <1>6
  <2>2. j \in Nodes /\ retained[t] \in Ids
    BY <1>1, <2>1 DEF Found, StoreOK, RestOK
  <2>3. store[j].qos \in 0..2 /\ store[j].msg \in 0..MaxPubs /\ store[j].count \in 0..MaxCount
    BY <1>1, <2>2 DEF StoreOK, NodeType
  <2>4. store[j].count + 1 \in 0..MaxCount
    BY <2>1, <2>3, BoundsAssumption
  <2>5. StoreOK(store')
    BY <1>1, <2>1, <2>2, <2>4, CountedOK
  <2> DEFINE e == Entry(retained[t], "sendpublish", MinQos(q, store[j].qos), store[j].msg)
  <2>6. MinQos(q, store[j].qos) \in 0..2
    BY <2>3, QosAssumption, MinQosType
  <2>7. e \in Slots
    BY <2>2, <2>3, <2>6, EntryType DEF SendStates
  <2> HIDE DEF e
  <2>8. packs[s] \in Seq(Slots) /\ Len(packs[s]) <= MaxEntries
    BY <1>1 DEF PacksOK
  <2>9. packs' = [packs EXCEPT ![s] = add_packet_id(packs[s], e)]
    BY <2>1 DEF e
  <2>10. PacksOK(packs') /\ \A c \in Socks : Keeps(packs[c], packs'[c])
    BY <1>1, <2>7, <2>8, <2>9, AddKeeps, OneSlotOK
  <2>11. ArmedOK(armed')
    BY <1>1, <2>1 DEF RestOK, ArmedOK
  <2>12. RestOK'
    BY <1>1, <1>2, <1>3, <2>11 DEF RestOK, OwedOK
  <2> QED BY <1>4, <2>5, <2>10, <2>12, KeepingStep
<1>7. None \notin Ids
  BY IdsAssumption DEF None
<1>8. CASE retained[t] = None /\ ~UNCHANGED <<packs, store, armed>>
  <2>1. Found(store, None) = {}
    <3>1. \A j \in Nodes : store[j].id # None
      BY <1>1, <1>7 DEF StoreOK, NodeType, None
    <3> QED BY <1>1, <3>1 DEF Found, StoreOK
  <2> QED BY <1>8, <2>1 DEF Subscribe
<1> QED BY <1>5, <1>6, <1>8 DEF Subscribe

LEMMA UnsubscribeKeeps ==
  ASSUME IInv, NEW s \in Socks, NEW t \in Topics, Unsubscribe(s, t)
  PROVE  IInv'
<1>1. RestOK /\ PacksOK(packs) /\ StoreOK(store)
  BY IInvParts
<1>2. [subs[s] EXCEPT ![t] = None] \in [Topics -> Qos \cup {None}]
  BY <1>1 DEF RestOK
<1>3. RestOK'
  BY <1>1, <1>2 DEF Unsubscribe, RestOK, ArmedOK, OwedOK
<1>4. packs' = packs /\ store' = store /\ owed' = owed
  BY DEF Unsubscribe
<1> QED BY <1>1, <1>3, <1>4, KeepsSelf, OwedSelf, KeepingStep DEF RestOK

LEMMA RearmedOK == ASSUME ArmedOK(armed), NEW s \in Socks PROVE ArmedOK(Rearmed(s))
BY DEF ArmedOK, Rearmed

LEMMA WriteNothingKeeps == ASSUME IInv, NEW s \in Socks, WriteNothing(s) PROVE IInv'
<1>1. RestOK /\ PacksOK(packs) /\ StoreOK(store)
  BY IInvParts
<1>2. RestOK'
  BY <1>1, RearmedOK DEF WriteNothing, RestOK, OwedOK
<1>3. packs' = packs /\ store' = store /\ owed' = owed
  BY DEF WriteNothing
<1> QED BY <1>1, <1>2, <1>3, KeepsSelf, OwedSelf, KeepingStep DEF RestOK

-----------------------------------------------------------------------------
(* Actions that change one entry.                                           *)

\* The entry f, or a free one.
LEMMA EntryNext ==
  ASSUME NEW f \in Slots, f.id # 0, NEW n \in Gets \cup SendStates
  PROVE  /\ f.id \in Ids
         /\ [f EXCEPT !.state = n] \in Slots
         /\ [f EXCEPT !.state = n].state = n /\ [f EXCEPT !.state = n].id = f.id
<1>1. f \in Entries /\ f.id \in Ids
  BY SlotShape
<1> QED BY <1>1 DEF Entries, Slots

LEMMA FreeShape == FreeEntry \in Slots /\ FreeEntry.id \notin Ids
BY IdsAssumption DEF FreeEntry, Slots

LEMMA OneStep ==
  ASSUME IInv, RestOK', StoreOK(store'), NEW s \in Socks, NEW i \in DOMAIN packs[s], NEW e \in Slots,
         packs' = [packs EXCEPT ![s][i] = e],
         Balanced(s, packs[s][i], e, owed, owed')
  PROVE  IInv'
<1>1. OwedOK(owed) /\ OwedOK(owed') /\ PacksOK(packs) /\ Honest(packs, owed)
  BY IInvParts, HonestParts DEF RestOK, OwedOK
<1> DEFINE ow == owed
           oq == owed'
           pk == packs
<1>2. PacksOK(packs') /\ Honest(packs', owed')
  <2>1. PacksOK([pk EXCEPT ![s][i] = e]) /\ Honest([pk EXCEPT ![s][i] = e], oq)
    BY <1>1, OneHonest
  <2> QED BY <2>1
<1> QED BY <1>2, HonestParts, IInvNext

LEMMA WaitingIn ==
  ASSUME PacksOK(packs), NEW s \in Socks, NEW state, NEW x, Waiting(s, state, x) # {}
  PROVE  /\ First(Waiting(s, state, x)) \in DOMAIN packs[s]
         /\ packs[s][First(Waiting(s, state, x))] \in Slots
         /\ packs[s][First(Waiting(s, state, x))].id = x
         /\ packs[s][First(Waiting(s, state, x))].state = state
<1>1. packs[s] \in Seq(Slots)
  BY DEF PacksOK
<1>2. Waiting(s, state, x) \in SUBSET Nat
  BY <1>1 DEF Waiting
<1>3. First(Waiting(s, state, x)) \in Waiting(s, state, x)
  BY <1>2, FirstIn
<1> DEFINE k == First(Waiting(s, state, x))
<1> HIDE DEF k
<1>4. k \in Waiting(s, state, x)
  BY <1>3 DEF k
<1>5. k \in DOMAIN packs[s] /\ packs[s][k].id = x /\ packs[s][k].state = state
  BY <1>4 DEF Waiting
<1>6. packs[s][k] \in Slots
  BY <1>1, <1>5
<1> QED BY <1>5, <1>6 DEF k

LEMMA AnswerOK ==
  ASSUME OwedOK(owed), NEW s \in Socks, NEW state \in Gets, NEW x \in Ids
  PROVE  /\ OwedOK(Answer(s, state, x))
         /\ \A o \in Socks \X Gets \X Ids :
              o # <<s, state, x>> => Answer(s, state, x)[o] = owed[o]
         /\ Answer(s, state, x)[<<s, state, x>>] =
              IF owed[<<s, state, x>>] = 0 THEN 0 ELSE owed[<<s, state, x>>] - 1
<1> DEFINE o == <<s, state, x>>
<1>1. o \in Socks \X Gets \X Ids
  OBVIOUS
<1> HIDE DEF o
<1>2. owed[o] \in Nat
  BY <1>1 DEF OwedOK
<1>3. Answer(s, state, x) = [owed EXCEPT ![o] = IF owed[o] = 0 THEN 0 ELSE owed[o] - 1]
  BY DEF Answer, o
<1>4. (IF owed[o] = 0 THEN 0 ELSE owed[o] - 1) \in Nat
  BY <1>2
<1> QED BY <1>1, <1>3, <1>4 DEF OwedOK, o

LEMMA AckedKeeps ==
  ASSUME IInv, NEW s \in Socks, NEW x \in Ids, NEW state \in Gets,
         NEW next \in {"free", "sendpubrel", "sendpubcomp"}, NEW event \in {"read", "write"},
         Acked(s, x, state, next, event), StoreOK(store')
  PROVE  IInv'
<1> DEFINE i == First(Waiting(s, state, x))
           f == packs[s][i]
           e == IF next = "free" THEN FreeEntry ELSE [f EXCEPT !.state = next]
<1>1. RestOK /\ PacksOK(packs) /\ OwedOK(owed)
  BY IInvParts DEF RestOK
<1>2. i \in DOMAIN packs[s] /\ f \in Slots /\ f.id = x /\ f.state = state
  BY <1>1, WaitingIn DEF Acked
<1>3. packs' = [packs EXCEPT ![s][i] = e]
  BY DEF Acked
<1>4. owed' = Answer(s, state, x)
  BY DEF Acked
<1> HIDE DEF i
<1>5. e \in Slots /\ ~(e.state \in Gets /\ e.id \in Ids)
  <2>1. CASE next = "free"
    BY <2>1, FreeShape
  <2>2. CASE next # "free"
    <3>1. next \in SendStates /\ next \notin Gets /\ f.id # 0
      BY <1>2, <2>2, IdsAssumption DEF SendStates, Gets
    <3>2. [f EXCEPT !.state = next] \in Slots /\ [f EXCEPT !.state = next].state = next
      BY <1>2, <3>1, EntryNext
    <3> QED BY <2>2, <3>1, <3>2
  <2> QED BY <2>1, <2>2
<1> HIDE DEF e, f
<1>6. RestOK'
  BY <1>1, <1>4, AnswerOK DEF Acked, RestOK, ArmedOK
<1>7. \A o \in Socks \X Gets \X Ids : o[1] # s => owed'[o] = owed[o]
  <2>1. \A o \in Socks \X Gets \X Ids : o[1] # s => o # <<s, state, x>>
    OBVIOUS
  <2> QED BY <1>1, <1>4, <2>1, AnswerOK
<1>8. ASSUME NEW state2 \in Gets, NEW x2 \in Ids
      PROVE  owed'[<<s, state2, x2>>] + One(f.state = state2 /\ f.id = x2)
               <= owed[<<s, state2, x2>>] + One(e.state = state2 /\ e.id = x2)
             \/ owed'[<<s, state2, x2>>] = 0
  <2>1. owed[<<s, state2, x2>>] \in Nat /\ owed'[<<s, state2, x2>>] \in Nat
    BY <1>1, <1>6 DEF OwedOK, RestOK
  <2>2. One(e.state = state2 /\ e.id = x2) = 0
    BY <1>5 DEF One
  <2>3. CASE state2 = state /\ x2 = x
    <3>1. One(f.state = state2 /\ f.id = x2) = 1
      BY <1>2, <2>3 DEF One
    <3>2. owed'[<<s, state2, x2>>] =
            IF owed[<<s, state2, x2>>] = 0 THEN 0 ELSE owed[<<s, state2, x2>>] - 1
      BY <1>1, <1>4, <2>3, AnswerOK
    <3> QED BY <2>1, <2>2, <3>1, <3>2
  <2>4. CASE ~(state2 = state /\ x2 = x)
    <3>1. One(f.state = state2 /\ f.id = x2) = 0
      BY <1>2, <2>4 DEF One
    <3>2. <<s, state2, x2>> # <<s, state, x>> /\ <<s, state2, x2>> \in Socks \X Gets \X Ids
      BY <2>4
    <3>3. owed'[<<s, state2, x2>>] = owed[<<s, state2, x2>>]
      BY <1>1, <1>4, <3>2, AnswerOK
    <3> QED BY <2>1, <2>2, <3>1, <3>3
  <2> QED BY <2>3, <2>4
<1>9. Balanced(s, f, e, owed, owed')
  BY <1>7, <1>8 DEF Balanced
<1>10. Balanced(s, packs[s][i], e, owed, owed')
  BY <1>9 DEF f
<1> QED BY <1>2, <1>3, <1>5, <1>6, <1>10, OneStep

LEMMA SendsIn ==
  ASSUME PacksOK(packs), NEW s \in Socks, Sends(s) # {}
  PROVE  /\ First(Sends(s)) \in DOMAIN packs[s]
         /\ packs[s][First(Sends(s))] \in Slots
         /\ packs[s][First(Sends(s))].id \in Ids
         /\ packs[s][First(Sends(s))].state \in SendStates
<1>1. packs[s] \in Seq(Slots)
  BY DEF PacksOK
<1>2. Sends(s) \in SUBSET Nat
  BY <1>1 DEF Sends
<1>3. First(Sends(s)) \in Sends(s)
  BY <1>2, FirstIn
<1> DEFINE k == First(Sends(s))
<1> HIDE DEF k
<1>4. k \in Sends(s)
  BY <1>3 DEF k
<1>5. k \in DOMAIN packs[s] /\ packs[s][k].id # 0 /\ packs[s][k].state \in SendStates
  BY <1>4 DEF Sends
<1>6. packs[s][k] \in Slots
  BY <1>1, <1>5
<1>7. packs[s][k].id \in Ids
  BY <1>5, <1>6, SlotShape
<1> QED BY <1>5, <1>6, <1>7 DEF k

LEMMA OneMoreOwed ==
  ASSUME NEW ow, OwedOK(ow), NEW s \in Socks, NEW state \in Gets, NEW x \in Ids
  PROVE  /\ OwedOK([ow EXCEPT ![<<s, state, x>>] = @ + 1])
         /\ \A o \in Socks \X Gets \X Ids :
              o # <<s, state, x>> => [ow EXCEPT ![<<s, state, x>>] = @ + 1][o] = ow[o]
         /\ [ow EXCEPT ![<<s, state, x>>] = @ + 1][<<s, state, x>>] = ow[<<s, state, x>>] + 1
<1> DEFINE o == <<s, state, x>>
<1>1. o \in Socks \X Gets \X Ids
  OBVIOUS
<1> HIDE DEF o
<1>2. ow[o] + 1 \in Nat
  BY <1>1 DEF OwedOK
<1> QED BY <1>1, <1>2 DEF OwedOK, o

LEMMA AwaitedType == ASSUME NEW q PROVE Awaited(q) \in Gets
BY DEF Awaited, Gets

\* The entry that is left once a message is sent, and the store.
LEMMA SentKeeps ==
  ASSUME StoreOK(store), NEW s \in Socks, NEW i, NEW q \in 0..2, NEW ok \in BOOLEAN,
         NEW f \in Slots, f = packs[s][i], f.id \in Ids,
         NEW j \in Found(store, f.id), Sent(s, i, j, q, ok)
  PROVE  /\ StoreOK(store')
         /\ \E e \in Slots :
              /\ packs' = [packs EXCEPT ![s][i] = e]
              /\ IF ok /\ q > 0 THEN e.state = Awaited(q) /\ e.id = f.id ELSE e = FreeEntry
<1>1. j \in Nodes /\ store[j].id = f.id
  BY DEF Found, StoreOK
<1>2. store[j].count \in 0..MaxCount /\ store[j].count >= 1
  BY <1>1, SlotShape DEF StoreOK, NodeType
<1>3. StoreOK(Counted(store, j, -1))
  <2>1. store[j].count + (-1) \in 0..MaxCount
    BY <1>2, BoundsAssumption
  <2> QED BY <1>1, <2>1, CountedOK
<1>4. StoreOK(store')
  BY <1>3 DEF Sent
<1>5. CASE ok /\ q > 0
  <2> DEFINE e == [f EXCEPT !.state = Awaited(q)]
  <2>1. f.id # 0 /\ Awaited(q) \in Gets \cup SendStates
    BY AwaitedType, SlotShape
  <2>2. e \in Slots /\ e.state = Awaited(q) /\ e.id = f.id
    BY <2>1, EntryNext
  <2>3. packs' = [packs EXCEPT ![s][i] = [packs[s][i] EXCEPT !.state = Awaited(q)]]
    BY <1>5 DEF Sent
  <2> QED BY <1>4, <1>5, <2>2, <2>3
<1>6. CASE ~(ok /\ q > 0)
  <2>1. packs' = [packs EXCEPT ![s][i] = FreeEntry]
    BY <1>6 DEF Sent
  <2> QED BY <1>4, <1>6, <2>1, FreeShape
<1> QED BY <1>5, <1>6

LEMMA WritePublishKeeps ==
  ASSUME IInv, NEW s \in Socks, NEW ok \in BOOLEAN, WritePublish(s, ok) PROVE IInv'
<1> DEFINE i == First(Sends(s))
           f == packs[s][i]
<1>1. RestOK /\ PacksOK(packs) /\ StoreOK(store) /\ OwedOK(owed)
  BY IInvParts DEF RestOK
<1>2. i \in DOMAIN packs[s] /\ f \in Slots /\ f.id \in Ids
  BY <1>1, SendsIn DEF WritePublish
<1>3. /\ f.state = "sendpublish"
      /\ armed' = Rearmed(s)
      /\ UNCHANGED <<up, subs, retained, pubs, lost, mixed>>
  BY DEF WritePublish
<1>4. PICK j \in Found(store, f.id) :
        /\ Sent(s, i, j, f.qos, ok)
        /\ owed' = IF ok /\ f.qos > 0 /\ Legible(j)
                     THEN [owed EXCEPT ![<<s, Awaited(f.qos), f.id>>] = @ + 1]
                     ELSE owed
  BY DEF WritePublish
<1>5. f.qos \in 0..2
  BY <1>2, SlotShape DEF Entries
<1> HIDE DEF i, f
<1>6. f = packs[s][i]
  BY DEF f
<1>7. /\ StoreOK(store')
      /\ \E e \in Slots :
           /\ packs' = [packs EXCEPT ![s][i] = e]
           /\ IF ok /\ f.qos > 0 THEN e.state = Awaited(f.qos) /\ e.id = f.id ELSE e = FreeEntry
  BY <1>1, <1>2, <1>4, <1>5, <1>6, SentKeeps
<1>8. PICK e \in Slots :
        /\ packs' = [packs EXCEPT ![s][i] = e]
        /\ IF ok /\ f.qos > 0 THEN e.state = Awaited(f.qos) /\ e.id = f.id ELSE e = FreeEntry
  BY <1>7
<1>9. OwedOK(owed') /\ RestOK'
  <2>1. Awaited(f.qos) \in Gets
    BY AwaitedType
  <2>2. OwedOK(owed')
    BY <1>1, <1>2, <1>4, <2>1, OneMoreOwed
  <2> QED BY <1>1, <1>3, <2>2, RearmedOK DEF RestOK
<1>10. Balanced(s, f, e, owed, owed')
  <2>1. \A state \in Gets, x \in Ids : One(f.state = state /\ f.id = x) = 0
    BY <1>3 DEF One, Gets
  <2>2. \A state \in Gets, x \in Ids : One(e.state = state /\ e.id = x) \in {0, 1}
    BY DEF One
  <2>3. \A o \in Socks \X Gets \X Ids : owed[o] \in Nat
    BY <1>1 DEF OwedOK
  <2>4. CASE owed' = owed
    <3>1. \A state \in Gets, x \in Ids :
            owed'[<<s, state, x>>] + One(f.state = state /\ f.id = x)
              <= owed[<<s, state, x>>] + One(e.state = state /\ e.id = x)
      BY <2>1, <2>2, <2>3, <2>4
    <3> QED BY <2>4, <3>1 DEF Balanced
  <2>5. CASE owed' # owed
    <3> DEFINE g == Awaited(f.qos)
    <3>1. owed' = [owed EXCEPT ![<<s, g, f.id>>] = @ + 1] /\ e.state = g /\ e.id = f.id /\ g \in Gets
      BY <1>4, <1>8, <2>5, AwaitedType
    <3> HIDE DEF g
    <3>2. /\ \A o \in Socks \X Gets \X Ids : o # <<s, g, f.id>> => owed'[o] = owed[o]
          /\ owed'[<<s, g, f.id>>] = owed[<<s, g, f.id>>] + 1
      BY <1>1, <1>2, <3>1, OneMoreOwed
    <3>3. ASSUME NEW state \in Gets, NEW x \in Ids
          PROVE  owed'[<<s, state, x>>] + One(f.state = state /\ f.id = x)
                   <= owed[<<s, state, x>>] + One(e.state = state /\ e.id = x)
      <4>1. CASE state = g /\ x = f.id
        <5>1. One(e.state = state /\ e.id = x) = 1
          BY <3>1, <4>1 DEF One
        <5>2. owed'[<<s, state, x>>] = owed[<<s, state, x>>] + 1
          BY <3>2, <4>1
        <5> QED BY <2>1, <2>3, <5>1, <5>2
      <4>2. CASE ~(state = g /\ x = f.id)
        <5>1. <<s, state, x>> # <<s, g, f.id>> /\ <<s, state, x>> \in Socks \X Gets \X Ids
          BY <4>2
        <5>2. owed'[<<s, state, x>>] = owed[<<s, state, x>>]
          BY <3>2, <5>1
        <5> QED BY <2>1, <2>2, <2>3, <5>2
      <4> QED BY <4>1, <4>2
    <3>4. \A o \in Socks \X Gets \X Ids : o[1] # s => owed'[o] = owed[o]
      <4>1. \A o \in Socks \X Gets \X Ids : o[1] # s => o # <<s, g, f.id>>
        OBVIOUS
      <4> QED BY <3>2, <4>1
    <3> QED BY <3>3, <3>4 DEF Balanced
  <2> QED BY <2>4, <2>5
<1>11. Balanced(s, packs[s][i], e, owed, owed')
  BY <1>10 DEF f
<1> QED BY <1>2, <1>7, <1>8, <1>9, <1>11, OneStep

LEMMA WriteAckKeeps ==
  ASSUME IInv, NEW s \in Socks, NEW ok \in BOOLEAN, WriteAck(s, ok) PROVE IInv'
<1> DEFINE i == First(Sends(s))
           f == packs[s][i]
           next == Next_state(f.state)
           e == IF next = "free" THEN FreeEntry ELSE [f EXCEPT !.state = next]
           asked == IF ok THEN {s} \X AskedBy(f.state) \X {f.id} ELSE {}
<1>1. RestOK /\ PacksOK(packs) /\ StoreOK(store) /\ OwedOK(owed)
  BY IInvParts DEF RestOK
<1>2. i \in DOMAIN packs[s] /\ f \in Slots /\ f.id \in Ids /\ f.state \in SendStates
  BY <1>1, SendsIn DEF WriteAck
<1>3. /\ armed' = Rearmed(s) /\ store' = store
      /\ UNCHANGED <<up, subs, retained, pubs, lost, mixed>>
  BY DEF WriteAck
<1>4. packs' = [packs EXCEPT ![s][i] = e]
  BY DEF WriteAck
<1>5. owed' = [o \in DOMAIN owed |-> IF o \in asked THEN owed[o] + 1 ELSE owed[o]]
  BY DEF WriteAck
<1> HIDE DEF i
<1>6. f.state \notin Gets
  BY <1>2 DEF SendStates, Gets
<1>7. \/ next = "free" /\ AskedBy(f.state) = {}
      \/ next \in Gets /\ AskedBy(f.state) = {next}
  <2>1. CASE f.state \notin {"sendpubrec", "sendpubrel"}
    BY <2>1 DEF Next_state, AskedBy
  <2>2. CASE f.state = "sendpubrec"
    <3>1. next = "getpubrel" /\ "getpubrel" \in Gets
      BY <2>2 DEF Next_state, Gets
    <3>2. AskedBy("sendpubrec") = {"getpubrel"}
      BY DEF AskedBy, Gets
    <3> QED BY <2>2, <3>1, <3>2
  <2>3. CASE f.state = "sendpubrel"
    <3>1. next = "getpubcomp" /\ "getpubcomp" \in Gets
      BY <2>3 DEF Next_state, Gets
    <3>2. AskedBy("sendpubrel") = {"getpubcomp"}
      BY DEF AskedBy, Gets
    <3> QED BY <2>3, <3>1, <3>2
  <2> QED BY <2>1, <2>2, <2>3
<1>8. e \in Slots /\ (next # "free" => e.state = next /\ e.id = f.id)
  <2>1. CASE next = "free"
    BY <2>1, FreeShape
  <2>2. CASE next # "free"
    <3>1. f.id # 0 /\ next \in Gets \cup SendStates
      BY <1>2, <1>7, <2>2, SlotShape
    <3> QED BY <1>2, <2>2, <3>1, EntryNext
  <2> QED BY <2>1, <2>2
<1> HIDE DEF f, next, e
<1>9. \A o \in Socks \X Gets \X Ids :
        /\ owed[o] \in Nat
        /\ owed'[o] = IF o \in asked THEN owed[o] + 1 ELSE owed[o]
  BY <1>1, <1>5 DEF OwedOK
<1>10. OwedOK(owed') /\ RestOK'
  <2> HIDE DEF asked
  <2>1. DOMAIN owed = Socks \X Gets \X Ids
    BY <1>1 DEF OwedOK
  <2>2. \A o \in Socks \X Gets \X Ids : owed'[o] \in Nat
    BY <1>9
  <2>3. OwedOK(owed')
    BY <1>5, <2>1, <2>2 DEF OwedOK
  <2> QED BY <1>1, <1>3, <2>3, RearmedOK DEF RestOK
<1>11. Balanced(s, f, e, owed, owed')
  <2>1. \A state \in Gets, x \in Ids : One(f.state = state /\ f.id = x) = 0
    BY <1>6 DEF One
  <2>2. \A state \in Gets, x \in Ids :
          <<s, state, x>> \in asked => next # "free" /\ next = state /\ f.id = x
    BY <1>7 DEF Gets
  <2>3. \A state \in Gets, x \in Ids :
          <<s, state, x>> \in asked => One(e.state = state /\ e.id = x) = 1
    BY <1>8, <2>2 DEF One
  <2>4. \A state \in Gets, x \in Ids : One(e.state = state /\ e.id = x) \in {0, 1}
    BY DEF One
  <2>5. \A o \in Socks \X Gets \X Ids : o[1] # s => o \notin asked
    OBVIOUS
  <2> HIDE DEF asked
  <2>6. ASSUME NEW state \in Gets, NEW x \in Ids
        PROVE  owed'[<<s, state, x>>] + One(f.state = state /\ f.id = x)
                 <= owed[<<s, state, x>>] + One(e.state = state /\ e.id = x)
    <3>1. <<s, state, x>> \in Socks \X Gets \X Ids
      OBVIOUS
    <3> QED BY <1>9, <2>1, <2>3, <2>4, <3>1
  <2>7. \A o \in Socks \X Gets \X Ids : o[1] # s => owed'[o] = owed[o]
    BY <1>9, <2>5
  <2> QED BY <2>6, <2>7 DEF Balanced
<1>12. Balanced(s, packs[s][i], e, owed, owed')
  BY <1>11 DEF f
<1>13. StoreOK(store')
  BY <1>1, <1>3
<1> QED BY <1>2, <1>4, <1>8, <1>10, <1>12, <1>13, OneStep

LEMMA MalformedAckKeeps ==
  ASSUME IInv, NEW s \in Socks, NEW state \in Gets, NEW x \in Ids, NEW ok \in BOOLEAN,
         MalformedAck(s, state, x, ok)
  PROVE  IInv'
<1> DEFINE i == First(Waiting(s, state, x))
           f == packs[s][i]
           settled == Answer(s, state, x)
<1>1. RestOK /\ PacksOK(packs) /\ StoreOK(store) /\ OwedOK(owed)
  BY IInvParts DEF RestOK
<1>2. i \in DOMAIN packs[s] /\ f \in Slots /\ f.id = x /\ f.state = state
  BY <1>1, WaitingIn DEF MalformedAck
<1>3. armed' = [armed EXCEPT ![s] = @ \ {"read"}] /\ UNCHANGED <<up, subs, retained, pubs, lost, mixed>>
  BY DEF MalformedAck
<1>4. PICK j \in Found(store, x) :
        /\ Sent(s, i, j, store[j].qos, ok)
        /\ owed' = IF ok /\ Legible(j)
                     THEN [settled EXCEPT ![<<s, Awaited(store[j].qos), x>>] = @ + 1]
                     ELSE settled
  BY DEF MalformedAck
<1> DEFINE q == store[j].qos
           g == Awaited(q)
<1>5. q \in 0..2 /\ g \in Gets
  <2>1. j \in Nodes
    BY <1>1, <1>4 DEF Found, StoreOK
  <2> QED BY <1>1, <2>1, AwaitedType DEF StoreOK, NodeType
<1>6. Legible(j) => q > 0
  BY <1>5 DEF Legible
<1>7. /\ OwedOK(settled)
      /\ \A o \in Socks \X Gets \X Ids : o # <<s, state, x>> => settled[o] = owed[o]
      /\ settled[<<s, state, x>>] =
           IF owed[<<s, state, x>>] = 0 THEN 0 ELSE owed[<<s, state, x>>] - 1
  BY <1>1, AnswerOK
<1>8. Sent(s, i, j, q, ok)
  BY <1>4
<1>9. owed' = IF ok /\ Legible(j) THEN [settled EXCEPT ![<<s, g, x>>] = @ + 1] ELSE settled
  BY <1>4
<1> HIDE DEF i, f, settled, q, g
<1>10. f = packs[s][i] /\ g = Awaited(q)
  BY DEF f, g
<1>11. /\ StoreOK(store')
       /\ \E e \in Slots :
            /\ packs' = [packs EXCEPT ![s][i] = e]
            /\ IF ok /\ q > 0 THEN e.state = Awaited(q) /\ e.id = f.id ELSE e = FreeEntry
  BY <1>1, <1>2, <1>4, <1>5, <1>8, <1>10, SentKeeps
<1>12. PICK e \in Slots :
        /\ packs' = [packs EXCEPT ![s][i] = e]
        /\ IF ok /\ q > 0 THEN e.state = g /\ e.id = x ELSE e = FreeEntry
  BY <1>2, <1>10, <1>11
<1>13. /\ OwedOK(owed')
       /\ \A o \in Socks \X Gets \X Ids :
            owed'[o] = settled[o] + One(ok /\ Legible(j) /\ o = <<s, g, x>>)
  <2>0. \A o \in Socks \X Gets \X Ids : settled[o] \in Nat
    BY <1>7 DEF OwedOK
  <2>1. CASE ok /\ Legible(j)
    <3>1. /\ OwedOK(owed')
          /\ \A o \in Socks \X Gets \X Ids : o # <<s, g, x>> => owed'[o] = settled[o]
          /\ owed'[<<s, g, x>>] = settled[<<s, g, x>>] + 1
      <4>1. owed' = [settled EXCEPT ![<<s, g, x>>] = @ + 1]
        BY <1>9, <2>1
      <4>2. OwedOK(settled) /\ g \in Gets
        BY <1>5, <1>7
      <4>3. /\ OwedOK([settled EXCEPT ![<<s, g, x>>] = @ + 1])
            /\ \A o \in Socks \X Gets \X Ids :
                 o # <<s, g, x>> => [settled EXCEPT ![<<s, g, x>>] = @ + 1][o] = settled[o]
            /\ [settled EXCEPT ![<<s, g, x>>] = @ + 1][<<s, g, x>>] = settled[<<s, g, x>>] + 1
        BY <4>2, OneMoreOwed
      <4> QED BY <4>1, <4>3
    <3> QED BY <2>0, <2>1, <3>1 DEF One
  <2>2. CASE ~(ok /\ Legible(j))
    BY <1>7, <1>9, <2>0, <2>2 DEF One
  <2> QED BY <2>1, <2>2
<1>14. RestOK'
  BY <1>1, <1>3, <1>13 DEF RestOK, ArmedOK
<1>15. Balanced(s, f, e, owed, owed')
  <2>1. ASSUME NEW o \in Socks \X Gets \X Ids, o[1] # s PROVE owed'[o] = owed[o]
    <3>1. o # <<s, state, x>> /\ o # <<s, g, x>>
      BY <2>1
    <3>2. settled[o] = owed[o] /\ owed[o] \in Nat
      BY <1>1, <1>7, <3>1 DEF OwedOK
    <3> QED BY <1>13, <3>1, <3>2 DEF One
  <2>2. ASSUME NEW state2 \in Gets, NEW x2 \in Ids
        PROVE  \/ owed'[<<s, state2, x2>>] + One(f.state = state2 /\ f.id = x2)
                    <= owed[<<s, state2, x2>>] + One(e.state = state2 /\ e.id = x2)
               \/ owed'[<<s, state2, x2>>] = 0
               \/ owed'[<<s, state2, x2>>] = 1 /\ e.state = state2 /\ e.id = x2
    <3> DEFINE o == <<s, state2, x2>>
               is == e.state = state2 /\ e.id = x2
               was == f.state = state2 /\ f.id = x2
               more == ok /\ Legible(j) /\ o = <<s, g, x>>
    <3>1. o \in Socks \X Gets \X Ids
      OBVIOUS
    <3>2. owed'[o] = settled[o] + One(more)
      BY <1>13, <3>1
    <3>3. more => is
      BY <1>6, <1>12
    <3>4. was <=> o = <<s, state, x>>
      BY <1>2
    <3>5. settled[o] \in Nat /\ owed[o] \in Nat
      BY <1>1, <1>7, <3>1 DEF OwedOK
    <3>6. /\ ~was => settled[o] = owed[o]
          /\ was => settled[o] = IF owed[o] = 0 THEN 0 ELSE owed[o] - 1
      BY <1>7, <3>1, <3>4
    <3>7. \/ owed'[o] + One(was) <= owed[o] + One(is)
          \/ owed'[o] = 0
          \/ owed'[o] = 1 /\ is
      <4> HIDE DEF o, is, was, more
      <4>1. /\ (more => One(more) = 1) /\ (~more => One(more) = 0)
            /\ (is => One(is) = 1) /\ (~is => One(is) = 0)
            /\ (was => One(was) = 1) /\ (~was => One(was) = 0)
        BY DEF One
      <4> QED BY <3>2, <3>3, <3>5, <3>6, <4>1
    <3> QED BY <3>7
  <2> QED BY <2>1, <2>2 DEF Balanced
<1>16. Balanced(s, packs[s][i], e, owed, owed')
  BY <1>15 DEF f
<1> QED BY <1>2, <1>11, <1>12, <1>14, <1>16, OneStep

-----------------------------------------------------------------------------
(* The theorems.                                                            *)

LEMMA InitHolds == Init => IInv
<1> SUFFICES ASSUME Init PROVE IInv
  OBVIOUS
<1>1. RestOK
  <2>1. OwedOK(owed)
    BY DEF Init, OwedOK
  <2> QED BY <2>1, BoundsAssumption DEF Init, RestOK, ArmedOK, None
<1>2. PacksOK(packs)
  <2>1. <<>> \in Seq(Slots) /\ Len(<<>>) = 0
    OBVIOUS
  <2> QED BY <2>1, BoundsAssumption DEF Init, PacksOK
<1>3. StoreOK(store)
  BY FreeNodeType DEF Init, StoreOK
<1>4. Honest(packs, owed)
  <2> SUFFICES ASSUME NEW s \in Socks, NEW state \in Gets, NEW x \in Ids
               PROVE  owed[<<s, state, x>>] <= Cardinality(W(packs[s], state, x))
    BY DEF Honest
  <2>1. packs[s] \in Seq(Slots)
    BY <1>2 DEF PacksOK
  <2>2. Cardinality(W(packs[s], state, x)) \in Nat
    BY <2>1, WaitFinite
  <2>3. owed[<<s, state, x>>] = 0
    BY DEF Init
  <2> QED BY <2>2, <2>3
<1> QED BY <1>1, <1>2, <1>3, <1>4, HonestParts, IInvParts DEF IInv

LEMMA ReadKeeps == ASSUME IInv, NEW s \in Socks, Read(s) PROVE IInv'
<1>1. RestOK /\ StoreOK(store)
  BY IInvParts
<1>2. ASSUME NEW x \in Ids, Puback(s, x) PROVE IInv'
  <2>1. StoreOK(store')
    BY <1>1, <1>2, GivenBackOK DEF Puback
  <2>2. Acked(s, x, "getpuback", "free", "read")
    BY <1>2 DEF Puback
  <2>3. "getpuback" \in Gets
    BY DEF Gets
  <2> QED BY <2>1, <2>2, <2>3, AckedKeeps
<1>3. ASSUME NEW x \in Ids, Pubrec(s, x) PROVE IInv'
  <2>1. StoreOK(store')
    BY <1>1, <1>3, GivenBackOK DEF Pubrec
  <2>2. Acked(s, x, "getpubrec", "sendpubrel", "write")
    BY <1>3 DEF Pubrec
  <2>3. "getpubrec" \in Gets
    BY DEF Gets
  <2> QED BY <2>1, <2>2, <2>3, AckedKeeps
<1>4. ASSUME NEW x \in Ids, Pubcomp(s, x) PROVE IInv'
  <2>1. StoreOK(store') /\ Acked(s, x, "getpubcomp", "free", "read")
    BY <1>1, <1>4 DEF Pubcomp
  <2>2. "getpubcomp" \in Gets
    BY DEF Gets
  <2> QED BY <2>1, <2>2, AckedKeeps
<1>5. ASSUME NEW x \in Ids, Pubrel(s, x) PROVE IInv'
  <2>1. StoreOK(store') /\ Acked(s, x, "getpubrel", "sendpubcomp", "write")
    BY <1>1, <1>5 DEF Pubrel
  <2>2. "getpubrel" \in Gets
    BY DEF Gets
  <2> QED BY <2>1, <2>2, AckedKeeps
<1>6. ASSUME NEW x \in Ids, NEW state \in {"getpuback", "getpubrec"}, NEW ok \in BOOLEAN,
             MalformedAck(s, state, x, ok)
      PROVE  IInv'
  <2>1. state \in Gets
    BY DEF Gets
  <2> QED BY <1>6, <2>1, MalformedAckKeeps
<1> QED BY <1>2, <1>3, <1>4, <1>5, <1>6, PublishKeeps, SubscribeKeeps, UnsubscribeKeeps DEF Read

LEMMA StutterKeeps == ASSUME IInv, UNCHANGED vars PROVE IInv'
<1>1. RestOK /\ PacksOK(packs) /\ StoreOK(store)
  BY IInvParts
<1>2. RestOK' /\ packs' = packs /\ store' = store /\ owed' = owed
  BY <1>1 DEF vars, RestOK, ArmedOK, OwedOK
<1> QED BY <1>1, <1>2, KeepsSelf, OwedSelf, KeepingStep DEF RestOK

LEMMA StepKeeps == ASSUME IInv, [Next]_vars PROVE IInv'
<1>1. ASSUME NEW s \in Socks, Write(s) PROVE IInv'
  BY <1>1, WriteNothingKeeps, WriteAckKeeps, WritePublishKeeps DEF Write
<1>2. ASSUME NEW s \in Socks, NEW t \in Topics, NEW x \in Ids, NEW q \in Qos, DropWithWill(s, t, x, q)
      PROVE  IInv'
  BY <1>2, DropWithWillKeeps
<1>3. ASSUME NEW s \in Socks, Connect(s) \/ Drop(s) \/ Read(s) PROVE IInv'
  BY <1>3, ConnectKeeps, DropKeeps, ReadKeeps
<1> QED BY <1>1, <1>2, <1>3, StutterKeeps DEF Next

LEMMA Invariance == Spec => []IInv
<1> QED BY InitHolds, StepKeeps, PTL DEF Spec

\* The types of the entries, the store and the counts, for any number of
\* connections, ids, entries and nodes (worker.cpp:26-147, 408-856).
THEOREM TypeCorrect == Spec => []TypeOK
<1>1. IInv => TypeOK
  BY DEF IInv
<1> QED BY <1>1, Invariance, PTL

\* An acknowledgement a client owes always finds the entry that waits for it
\* (worker.cpp:520, 558, 601, 628), for any number of clients that choose the
\* same ids and whatever becomes of the messages.
THEOREM HonestAcks == Spec => []HonestAckIsFound
<1>1. IInv => HonestAckIsFound
  BY DEF IInv
<1> QED BY <1>1, Invariance, PTL
=============================================================================
