------------------------ MODULE DeliveryCountProofs ------------------------
(***************************************************************************)
(* No message is erased while an entry or a topic refers to it, and what   *)
(* is to be sent has a write event asked for.  The first compares the      *)
(* number of references to an id, over all slots and topics, with the sum  *)
(* of the counts of its nodes; the second rests on it.                     *)
(***************************************************************************)
EXTENDS DeliveryProofs

\* States of an entry that still needs its message.
Needy == {"sendpublish", "getpuback", "getpubrec"}
Refers(e, y) == e.id = y /\ e.state \in Needy

\* References, Retainers and Uses of given entries, topics and nodes.
R(pk, y) == {p \in Socks \X (1..MaxEntries) : p[2] \in DOMAIN pk[p[1]] /\ Refers(pk[p[1]][p[2]], y)}
T(rt, y) == {t \in Topics : rt[t] = y}
U(st, y) == {u \in Nodes \X (1..MaxCount) : st[u[1]].id = y /\ u[2] <= st[u[1]].count}

Covers(pk, rt, st, L) ==
  \A y \in Ids \ L : Cardinality(R(pk, y)) + Cardinality(T(rt, y)) <= Cardinality(U(st, y))

TopicsOK(rt) == \A y \in Ids : IsFiniteSet(T(rt, y))

\* The strengthening of CountsCover that steps preserve.
CountInv == IInv /\ CountsCover /\ TopicsOK(retained)

-----------------------------------------------------------------------------
(* Uses of a store.                                                         *)

LEMMA UsesFinite ==
  ASSUME NEW st, NEW y PROVE IsFiniteSet(U(st, y)) /\ Cardinality(U(st, y)) \in Nat
<1>1. IsFiniteSet(Nodes) /\ IsFiniteSet(1..MaxCount)
  BY FS_Interval, BoundsAssumption DEF Nodes
<1>2. IsFiniteSet(Nodes \X (1..MaxCount))
  BY <1>1, FS_Product
<1>3. U(st, y) \in SUBSET (Nodes \X (1..MaxCount))
  BY DEF U
<1>4. IsFiniteSet(U(st, y))
  BY <1>2, <1>3, FS_Subset
<1> QED BY <1>4, FS_CardinalityType

\* The uses of nodes other than j, and those of j.
Others(st, j, y) == {u \in U(st, y) : u[1] # j}
Own(st, j, y) == IF st[j].id = y THEN st[j].count ELSE 0

LEMMA UsesSplit ==
  ASSUME NEW st, StoreOK(st), NEW j \in Nodes, NEW y
  PROVE  /\ Cardinality(Others(st, j, y)) \in Nat
         /\ Cardinality(U(st, y)) = Cardinality(Others(st, j, y)) + Own(st, j, y)
<1> DEFINE c == Own(st, j, y)
           A == {j} \X (1..c)
           B == Others(st, j, y)
<1>1. st[j].count \in 0..MaxCount /\ c \in 0..MaxCount
  BY BoundsAssumption DEF StoreOK, NodeType, Own
<1>2. IsFiniteSet(1..c) /\ Cardinality(1..c) = c
  BY <1>1, FS_Interval, BoundsAssumption
<1>3. IsFiniteSet(A) /\ Cardinality(A) = c
  <2>1. IsFiniteSet({j}) /\ Cardinality({j}) = 1
    BY FS_Singleton
  <2> HIDE DEF c
  <2>2. IsFiniteSet(A) /\ Cardinality(A) = 1 * c
    BY <1>2, <2>1, FS_Product
  <2> QED BY <1>1, <2>2, BoundsAssumption
<1>4. IsFiniteSet(B) /\ Cardinality(B) \in Nat
  <2>1. B \in SUBSET U(st, y)
    BY DEF Others
  <2>2. IsFiniteSet(B)
    BY <2>1, UsesFinite, FS_Subset
  <2> QED BY <2>2, FS_CardinalityType
<1>5. A \cap B = {}
  BY DEF Others
<1>6. U(st, y) = A \cup B
  <2>1. ASSUME NEW u \in Nodes \X (1..MaxCount), u[1] = j PROVE u \in U(st, y) <=> u \in A
    <3>1. u = <<j, u[2]>> /\ u[2] \in 1..MaxCount
      BY <2>1
    <3>2. CASE st[j].id = y
      <4>1. c = st[j].count
        BY <3>2 DEF Own
      <4>2. u[2] <= c <=> u[2] \in 1..c
        BY <1>1, <3>1, BoundsAssumption
      <4> QED BY <3>1, <3>2, <4>1, <4>2, <2>1 DEF U
    <3>3. CASE st[j].id # y
      <4>1. c = 0
        BY <3>3 DEF Own
      <4>2. 1..c = {}
        BY <4>1
      <4> QED BY <2>1, <3>3, <4>2 DEF U
    <3> QED BY <3>2, <3>3
  <2>2. A \in SUBSET (Nodes \X (1..MaxCount)) /\ \A u \in A : u[1] = j
    BY <1>1, BoundsAssumption
  <2>3. U(st, y) \in SUBSET (Nodes \X (1..MaxCount))
    BY DEF U
  <2> HIDE DEF A, c
  <2> QED BY <2>1, <2>2, <2>3 DEF Others
<1>7. Cardinality(A \cap B) = 0
  BY <1>5, FS_EmptySet
<1> HIDE DEF A, B, c
<1>8. Cardinality(U(st, y)) = Cardinality(A) + Cardinality(B) - 0
  BY <1>3, <1>4, <1>6, <1>7, FS_Union
<1>9. c \in Nat
  BY <1>1, BoundsAssumption
<1> QED BY <1>3, <1>4, <1>8, <1>9 DEF B, c

\* What becomes of the uses when the node j becomes another.
LEMMA NodeUses ==
  ASSUME NEW st, StoreOK(st), NEW rt, StoreOK(rt), NEW j \in Nodes, NEW y,
         \A k \in Nodes : k # j => rt[k] = st[k]
  PROVE  Cardinality(U(rt, y)) = Cardinality(U(st, y)) - Own(st, j, y) + Own(rt, j, y)
<1>1. Others(rt, j, y) = Others(st, j, y)
  BY DEF Others, U
<1>2. Own(st, j, y) \in Nat /\ Own(rt, j, y) \in Nat
  BY BoundsAssumption DEF Own, StoreOK, NodeType
<1>3. /\ Cardinality(U(st, y)) = Cardinality(Others(st, j, y)) + Own(st, j, y)
      /\ Cardinality(U(rt, y)) = Cardinality(Others(rt, j, y)) + Own(rt, j, y)
      /\ Cardinality(Others(st, j, y)) \in Nat
  BY UsesSplit
<1> QED BY <1>1, <1>2, <1>3

LEMMA CountedUses ==
  ASSUME NEW st, StoreOK(st), NEW j \in Nodes, NEW n \in Int, st[j].count + n \in 0..MaxCount,
         st[j].id \in Ids, NEW y \in Ids
  PROVE  Cardinality(U(Counted(st, j, n), y)) =
           IF y = st[j].id THEN Cardinality(U(st, y)) + n ELSE Cardinality(U(st, y))
<1> DEFINE rt == Counted(st, j, n)
<1>1. StoreOK(rt)
  BY CountedOK
<1>2. \A k \in Nodes : k # j => rt[k] = st[k]
  BY DEF Counted, StoreOK
<1>3. st[j].count \in Int /\ st[j] \in NodeType
  BY BoundsAssumption DEF StoreOK, NodeType
<1>4. Own(rt, j, y) = IF y = st[j].id THEN st[j].count + n ELSE 0
  <2>1. CASE st[j].count + n = 0
    <3>1. rt[j] = FreeNode
      BY <2>1 DEF Counted, StoreOK
    <3>2. rt[j].id = 0 /\ 0 \notin Ids
      BY <3>1, FreeNodeType, SlotShape
    <3> QED BY <2>1, <3>2 DEF Own
  <2>2. CASE st[j].count + n # 0
    <3>1. rt[j] = [st[j] EXCEPT !.count = @ + n]
      BY <2>2 DEF Counted, StoreOK
    <3>2. rt[j].id = st[j].id /\ rt[j].count = st[j].count + n
      BY <1>3, <3>1 DEF NodeType
    <3> QED BY <3>2 DEF Own
  <2> QED BY <2>1, <2>2
<1>5. Own(st, j, y) = IF y = st[j].id THEN st[j].count ELSE 0
  BY DEF Own
<1>6. Cardinality(U(st, y)) \in Nat
  BY UsesFinite
<1> HIDE DEF rt
<1>7. Cardinality(U(rt, y)) = Cardinality(U(st, y)) - Own(st, j, y) + Own(rt, j, y)
  BY <1>1, <1>2, NodeUses
<1> QED BY <1>3, <1>4, <1>5, <1>6, <1>7 DEF rt

\* At most one use is given back.
LEMMA GivenBackUses ==
  ASSUME NEW st, StoreOK(st), NEW x \in Ids, NEW r \in GivenBack(st, x), NEW y \in Ids
  PROVE  /\ y # x => Cardinality(U(r, y)) = Cardinality(U(st, y))
         /\ Cardinality(U(r, y)) >= Cardinality(U(st, y)) - 1
<1>0. Cardinality(U(st, y)) \in Nat
  BY UsesFinite
<1>1. CASE Found(st, x) = {}
  BY <1>0, <1>1 DEF GivenBack
<1>2. CASE Found(st, x) # {}
  <2>1. PICK j \in Found(st, x) : r = Counted(st, j, -1)
    BY <1>2 DEF GivenBack
  <2>2. j \in Nodes /\ st[j].id = x
    BY <2>1 DEF Found, StoreOK
  <2>3. st[j].count \in 0..MaxCount /\ st[j].count >= 1
    BY <2>2, SlotShape DEF StoreOK, NodeType
  <2>4. st[j].count + (-1) \in 0..MaxCount
    BY <2>3, BoundsAssumption
  <2>5. Cardinality(U(r, y)) = IF y = x THEN Cardinality(U(st, y)) + (-1) ELSE Cardinality(U(st, y))
    BY <2>1, <2>2, <2>4, CountedUses
  <2> QED BY <1>0, <2>5
<1> QED BY <1>1, <1>2

\* What rehash does not drop keeps its uses.
LEMMA MovedUses ==
  ASSUME NEW st, StoreOK(st), NEW moved \in Moved(st), NEW y \in Ids \ Dropped(st, moved)
  PROVE  U(moved, y) = U(st, y)
<1>1. DOMAIN st = Nodes
  BY DEF StoreOK
<1>2. \A j \in Nodes : moved[j] = st[j] \/ moved[j] = FreeNode
  BY <1>1 DEF Moved
<1>3. \A j \in Nodes : moved[j] # st[j] => st[j].id # y /\ moved[j].id # y
  BY <1>1, <1>2, FreeNodeType, SlotShape DEF Dropped
<1> QED BY <1>3 DEF U

\* A node is placed: its id has as many uses more, the others keep theirs.
LEMMA PlacedUses ==
  ASSUME NEW st, StoreOK(st), NEW node \in NodeType, node.count >= 1,
         NEW r \in Placed(st, node), NEW y \in Ids \ r.over
  PROVE  Cardinality(U(r.st, y)) = Cardinality(U(st, y)) + (IF y = node.id THEN node.count ELSE 0)
<1> DEFINE free == Found(st, 0)
<1>1. StoreOK(r.st)
  BY PlacedOK
<1>2. \E j \in Nodes : r.st = [st EXCEPT ![j] = node] /\ st[j].id # y
  <2>1. CASE \E j \in free : r = [st |-> [st EXCEPT ![First(free)] = node], over |-> {}]
    <3>1. free \in SUBSET Nat /\ free \subseteq Nodes
      BY DEF Found, StoreOK, Nodes
    <3>2. First(free) \in free
      BY <2>1, <3>1, FirstIn
    <3>3. First(free) \in Nodes /\ st[First(free)].id = 0
      BY <3>1, <3>2 DEF Found
    <3> HIDE DEF free
    <3>4. r.st = [st EXCEPT ![First(free)] = node]
      BY <2>1
    <3> QED BY <3>3, <3>4, SlotShape
  <2>2. CASE \E j \in DOMAIN st \ free : r = [st |-> [st EXCEPT ![j] = node], over |-> {st[j].id}]
    <3>1. PICK j \in DOMAIN st \ free : r = [st |-> [st EXCEPT ![j] = node], over |-> {st[j].id}]
      BY <2>2
    <3>2. r.st = [st EXCEPT ![j] = node] /\ r.over = {st[j].id}
      BY <3>1
    <3>3. j \in Nodes
      BY DEF StoreOK
    <3> QED BY <3>2, <3>3
  <2> QED BY <2>1, <2>2 DEF Placed
<1>3. PICK j \in Nodes : r.st = [st EXCEPT ![j] = node] /\ st[j].id # y
  BY <1>2
<1>4. r.st[j] = node /\ \A k \in Nodes : k # j => r.st[k] = st[k]
  BY <1>3 DEF StoreOK
<1>5. /\ Cardinality(U(st, y)) \in Nat
      /\ Cardinality(U(r.st, y)) = Cardinality(U(st, y)) - Own(st, j, y) + Own(r.st, j, y)
  BY <1>1, <1>4, NodeUses, UsesFinite
<1>6. Own(st, j, y) = 0 /\ Own(r.st, j, y) = IF y = node.id THEN node.count ELSE 0
  BY <1>3, <1>4 DEF Own
<1>7. node.count \in Int
  BY BoundsAssumption DEF NodeType
<1> QED BY <1>5, <1>6, <1>7

\* A message that is not stored leaves the ids and counts as they are.
LEMMA SpoiltUses ==
  ASSUME NEW st, StoreOK(st), NEW r \in Spoilt(st), NEW y PROVE U(r, y) = U(st, y)
<1>1. CASE r = st
  BY <1>1
<1>2. ASSUME NEW j \in DOMAIN st, r = [st EXCEPT ![j].msg = 0] PROVE U(r, y) = U(st, y)
  <2> DEFINE node == [st[j] EXCEPT !.msg = 0]
  <2>1. j \in Nodes /\ st[j] \in NodeType
    BY DEF StoreOK
  <2>2. node.id = st[j].id /\ node.count = st[j].count
    BY <2>1 DEF NodeType
  <2>3. r = [st EXCEPT ![j] = node]
    BY <1>2
  <2> HIDE DEF node
  <2>4. \A k \in Nodes : r[k].id = st[k].id /\ r[k].count = st[k].count
    BY <2>1, <2>2, <2>3 DEF StoreOK
  <2> QED BY <2>4 DEF U
<1> QED BY <1>1, <1>2 DEF Spoilt

LEMMA AddedUses ==
  ASSUME NEW st, StoreOK(st), NEW x \in Ids, NEW n \in {1, 2}, NEW q \in 0..2, NEW m \in 0..MaxPubs,
         NEW a \in Added(st, x, n, q, m), NEW y \in Ids \ a.over
  PROVE  Cardinality(U(a.st, y)) = Cardinality(U(st, y)) + (IF a.ok /\ y = x THEN n ELSE 0)
<1> DEFINE node == [id |-> x, count |-> n, qos |-> q, msg |-> m]
<1>1. node \in NodeType /\ node.count = n /\ node.id = x
  BY BoundsAssumption DEF NodeType
<1> HIDE DEF node
<1>2. PICK moved \in Moved(st) :
        \/ \E r \in Placed(moved, node) :
             a = [st |-> r.st, ok |-> TRUE, over |-> r.over \cup Dropped(st, moved)]
        \/ \E r \in Spoilt(moved) : a = [st |-> r, ok |-> FALSE, over |-> Dropped(st, moved)]
  BY DEF Added, node
<1>3. StoreOK(moved) /\ Cardinality(U(st, y)) \in Nat
  BY MovedOK, UsesFinite
<1>4. CASE \E r \in Placed(moved, node) :
             a = [st |-> r.st, ok |-> TRUE, over |-> r.over \cup Dropped(st, moved)]
  <2>1. PICK r \in Placed(moved, node) :
          a.st = r.st /\ a.ok = TRUE /\ a.over = r.over \cup Dropped(st, moved)
    BY <1>4
  <2>2. U(moved, y) = U(st, y)
    BY <2>1, MovedUses
  <2>3. y \in Ids \ r.over
    BY <2>1
  <2>4. Cardinality(U(r.st, y)) = Cardinality(U(moved, y)) + (IF y = node.id THEN node.count ELSE 0)
    BY <1>1, <1>3, <2>3, PlacedUses
  <2> QED BY <1>1, <2>1, <2>2, <2>4
<1>5. CASE \E r \in Spoilt(moved) : a = [st |-> r, ok |-> FALSE, over |-> Dropped(st, moved)]
  <2>1. PICK r \in Spoilt(moved) : a.st = r /\ a.ok = FALSE /\ a.over = Dropped(st, moved)
    BY <1>5
  <2>2. U(a.st, y) = U(st, y)
    BY <1>3, <2>1, MovedUses, SpoiltUses
  <2> QED BY <1>3, <2>1, <2>2
<1> QED BY <1>2, <1>4, <1>5

-----------------------------------------------------------------------------
(* References.                                                              *)

LEMMA RefsFinite ==
  ASSUME NEW pk, NEW y PROVE IsFiniteSet(R(pk, y)) /\ Cardinality(R(pk, y)) \in Nat
<1>1. IsFiniteSet(1..MaxEntries)
  BY FS_Interval, BoundsAssumption
<1>2. IsFiniteSet(Socks \X (1..MaxEntries))
  BY <1>1, SocksAssumption, FS_Product
<1>3. R(pk, y) \in SUBSET (Socks \X (1..MaxEntries))
  BY DEF R
<1>4. IsFiniteSet(R(pk, y))
  BY <1>2, <1>3, FS_Subset
<1> QED BY <1>4, FS_CardinalityType

LEMMA Places == ASSUME NEW pk, PacksOK(pk), NEW s \in Socks PROVE DOMAIN pk[s] \subseteq 1..MaxEntries
<1>1. pk[s] \in Seq(Slots) /\ Len(pk[s]) <= MaxEntries
  BY DEF PacksOK
<1>2. Len(pk[s]) \in Nat /\ DOMAIN pk[s] = 1..Len(pk[s])
  BY <1>1
<1> QED BY <1>1, <1>2, BoundsAssumption

LEMMA InRefs ==
  ASSUME NEW pk, PacksOK(pk), NEW s \in Socks, NEW i, NEW y
  PROVE  <<s, i>> \in R(pk, y) <=> i \in DOMAIN pk[s] /\ Refers(pk[s][i], y)
BY Places DEF R

\* The entry i of s becomes e.
LEMMA OneRef ==
  ASSUME NEW pk, PacksOK(pk), NEW s \in Socks, NEW i \in DOMAIN pk[s], NEW e \in Slots, NEW y
  PROVE  Cardinality(R([pk EXCEPT ![s][i] = e], y)) =
           Cardinality(R(pk, y)) - One(Refers(pk[s][i], y)) + One(Refers(e, y))
<1> DEFINE qk == [pk EXCEPT ![s][i] = e]
           p == <<s, i>>
           A == R(pk, y)
           B == R(qk, y)
           was == Refers(pk[s][i], y)
           is == Refers(e, y)
<1>1. pk[s] \in Seq(Slots)
  BY DEF PacksOK
<1>2. /\ \A c \in Socks : DOMAIN qk[c] = DOMAIN pk[c]
      /\ \A c \in Socks : c # s => qk[c] = pk[c]
      /\ qk[s][i] = e /\ \A k \in DOMAIN pk[s] : k # i => qk[s][k] = pk[s][k]
  BY <1>1 DEF PacksOK
<1>3. p \in Socks \X (1..MaxEntries)
  BY Places
<1>4. p \in A <=> was
  BY InRefs
<1>5. p \in B <=> is
  BY <1>2, <1>3 DEF R
<1>6. \A u \in Socks \X (1..MaxEntries) : u # p => (u \in A <=> u \in B)
  <2> SUFFICES ASSUME NEW u \in Socks \X (1..MaxEntries), u # p PROVE u \in A <=> u \in B
    OBVIOUS
  <2>1. u[1] \in Socks /\ (u[1] # s \/ u[2] # i)
    OBVIOUS
  <2> HIDE DEF qk
  <2> QED BY <1>2, <2>1 DEF R
<1>7. A \subseteq Socks \X (1..MaxEntries) /\ B \subseteq Socks \X (1..MaxEntries)
  BY DEF R
<1>8. IsFiniteSet(A) /\ Cardinality(A) \in Nat
  BY RefsFinite
<1> HIDE DEF A, B, p, was, is, qk
<1>9. IsFiniteSet(A \ {p}) /\ Cardinality(A \ {p}) = IF was THEN Cardinality(A) - 1 ELSE Cardinality(A)
  BY <1>4, <1>8, FS_RemoveElement
<1>10. CASE is
  <2>1. B = (A \ {p}) \cup {p}
    BY <1>5, <1>6, <1>7, <1>10
  <2>2. Cardinality(B) = Cardinality(A \ {p}) + 1
    BY <1>9, <2>1, FS_AddElement
  <2>3. Cardinality(B) = Cardinality(A) - One(was) + One(is)
    BY <1>8, <1>9, <1>10, <2>2 DEF One
  <2> QED BY <2>3 DEF A, B, was, is, qk
<1>11. CASE ~is
  <2>1. B = A \ {p}
    BY <1>5, <1>6, <1>7, <1>11
  <2>2. Cardinality(B) = Cardinality(A) - One(was) + One(is)
    BY <1>8, <1>9, <1>11, <2>1 DEF One
  <2> QED BY <2>2 DEF A, B, was, is, qk
<1> QED BY <1>10, <1>11

\* What refers to y afterwards did so before.
LEMMA FewerRefs ==
  ASSUME NEW pk, PacksOK(pk), NEW qk, NEW y,
         \A c \in Socks : \A i \in DOMAIN qk[c] :
           Refers(qk[c][i], y) => i \in DOMAIN pk[c] /\ Refers(pk[c][i], y)
  PROVE  Cardinality(R(qk, y)) <= Cardinality(R(pk, y))
<1>1. R(qk, y) \in SUBSET R(pk, y)
  BY DEF R
<1> QED BY <1>1, RefsFinite, FS_Subset

\* r is q but for the place k, which holds e.
Grown(q, r, k, e) == \A i \in DOMAIN r : (i = k /\ r[i] = e) \/ (i \in DOMAIN q /\ r[i] = q[i])

LEMMA AddGrows ==
  ASSUME NEW q \in Seq(Slots), NEW e \in Slots PROVE \E k : Grown(q, add_packet_id(q, e), k, e)
<1> DEFINE unused == {i \in DOMAIN q : q[i].id = 0}
<1>1. CASE unused # {}
  <2>1. add_packet_id(q, e) = [q EXCEPT ![First(unused)] = e]
    BY <1>1 DEF add_packet_id
  <2>2. Grown(q, add_packet_id(q, e), First(unused), e)
    BY <2>1 DEF Grown
  <2> QED BY <2>2
<1>2. CASE unused = {}
  <2>1. add_packet_id(q, e) = q \/ add_packet_id(q, e) = Append(q, e)
    BY <1>2 DEF add_packet_id, push_back
  <2>2. Grown(q, q, 0, e) /\ Grown(q, Append(q, e), Len(q) + 1, e)
    BY DEF Grown
  <2> QED BY <2>1, <2>2
<1> QED BY <1>1, <1>2

\* Slots that are each given an entry of x: as many references more at most.
LEMMA GrownRefs ==
  ASSUME NEW pk, PacksOK(pk), NEW qk, NEW S \in SUBSET Socks, NEW x, NEW y,
         \A c \in Socks \ S : qk[c] = pk[c],
         \A c \in S : \E k, e : e.id = x /\ Grown(pk[c], qk[c], k, e)
  PROVE  Cardinality(R(qk, y)) <= Cardinality(R(pk, y)) + (IF y = x THEN Cardinality(S) ELSE 0)
<1>1. CASE y # x
  <2>1. Cardinality(R(qk, y)) <= Cardinality(R(pk, y))
    <3>1. ASSUME NEW c \in Socks, NEW i \in DOMAIN qk[c], Refers(qk[c][i], y)
          PROVE  i \in DOMAIN pk[c] /\ Refers(pk[c][i], y)
      BY <1>1, <3>1 DEF Grown, Refers
    <3> QED BY <3>1, FewerRefs
  <2> QED BY <1>1, <2>1, RefsFinite
<1>2. CASE y = x
  <2> DEFINE place == [c \in S |-> <<c, CHOOSE k : \E e : e.id = x /\ Grown(pk[c], qk[c], k, e)>>]
             N == {place[c] : c \in S}
  <2>1. IsFiniteSet(S) /\ Cardinality(S) \in Nat
    BY SocksAssumption, FS_Subset, FS_CardinalityType
  <2>2. place \in Surjection(S, N)
    BY DEF Surjection
  <2>3. IsFiniteSet(N) /\ Cardinality(N) <= Cardinality(S)
    <3> HIDE DEF place, N
    <3> QED BY <2>1, <2>2, FS_Surjection
  <2>4. R(qk, y) \subseteq R(pk, y) \cup N
    <3> SUFFICES ASSUME NEW u \in R(qk, y), u \notin R(pk, y) PROVE u \in N
      OBVIOUS
    <3> DEFINE c == u[1]
               i == u[2]
    <3>1. /\ c \in Socks /\ i \in 1..MaxEntries /\ u = <<c, i>>
          /\ i \in DOMAIN qk[c] /\ Refers(qk[c][i], y)
      BY DEF R
    <3>2. ~(i \in DOMAIN pk[c] /\ qk[c][i] = pk[c][i])
      BY <3>1 DEF R
    <3>3. c \in S
      BY <3>1, <3>2
    <3> HIDE DEF c, i
    <3> DEFINE k == CHOOSE k : \E e : e.id = x /\ Grown(pk[c], qk[c], k, e)
    <3>4. \E e : e.id = x /\ Grown(pk[c], qk[c], k, e)
      BY <3>3
    <3> HIDE DEF k
    <3>5. i = k
      BY <3>1, <3>2, <3>4 DEF Grown
    <3>6. place[c] = <<c, k>>
      BY <3>3 DEF k
    <3>7. u = place[c]
      BY <3>1, <3>5, <3>6
    <3> HIDE DEF place
    <3> QED BY <3>3, <3>7
  <2> HIDE DEF place, N
  <2>5. IsFiniteSet(R(pk, y) \cup N) /\ Cardinality(R(pk, y) \cup N) <= Cardinality(R(pk, y)) + Cardinality(N)
    <3>1. IsFiniteSet(R(pk, y) \cap N) /\ Cardinality(R(pk, y) \cap N) \in Nat
      BY <2>3, FS_Intersection, FS_CardinalityType
    <3>2. Cardinality(R(pk, y)) \in Nat /\ Cardinality(N) \in Nat
      BY <2>3, RefsFinite, FS_CardinalityType
    <3>3. /\ IsFiniteSet(R(pk, y) \cup N)
          /\ Cardinality(R(pk, y) \cup N) =
               Cardinality(R(pk, y)) + Cardinality(N) - Cardinality(R(pk, y) \cap N)
      BY <2>3, RefsFinite, FS_Union
    <3> QED BY <3>1, <3>2, <3>3
  <2>6. Cardinality(R(qk, y)) <= Cardinality(R(pk, y) \cup N)
    BY <2>4, <2>5, FS_Subset
  <2>7. /\ Cardinality(R(pk, y)) \in Nat /\ Cardinality(N) \in Nat /\ Cardinality(R(qk, y)) \in Nat
        /\ Cardinality(R(pk, y) \cup N) \in Nat
    BY <2>3, <2>5, RefsFinite, FS_CardinalityType
  <2> QED BY <1>2, <2>1, <2>3, <2>5, <2>6, <2>7
<1> QED BY <1>1, <1>2

-----------------------------------------------------------------------------
(* What covers the references covers them afterwards.                       *)

LEMMA RetainersSize ==
  ASSUME NEW rt, TopicsOK(rt), NEW y \in Ids PROVE Cardinality(T(rt, y)) \in Nat
BY FS_CardinalityType DEF TopicsOK

\* publish_by_topic: a use for each entry made.
LEMMA FanOutCovers ==
  ASSUME NEW st, StoreOK(st), NEW pk, PacksOK(pk), NEW ar, NEW live \in SUBSET Socks,
         NEW t \in Topics, NEW x \in Ids, NEW q \in 0..2, NEW m \in 0..MaxPubs, NEW gone,
         NEW rt, TopicsOK(rt), Covers(pk, rt, st, lost \cup gone),
         subs \in [Socks -> [Topics -> Qos \cup {None}]],
         PublishByTopic(st, pk, ar, live, t, x, q, m, gone)
  PROVE  Covers(packs', rt, store', lost')
<1> DEFINE S == {c \in live : subs[c][t] # None}
           to(c) == add_packet_id(pk[c], Entry(x, "sendpublish", MinQos(q, subs[c][t]), m))
<1>1. PICK a \in Added(st, x, 1, q, m) :
        \/ /\ Found(a.st, x) = {}
           /\ store' = a.st /\ packs' = pk /\ lost' = lost \cup gone \cup a.over
        \/ \E j \in Found(a.st, x) :
             /\ a.st[j].count + Cardinality(S) <= MaxCount
             /\ store' = Counted(a.st, j, Cardinality(S) - 1)
             /\ packs' = [c \in Socks |-> IF c \in S THEN to(c) ELSE pk[c]]
             /\ lost' = lost \cup gone \cup a.over \cup (IF a.ok THEN {} ELSE {x})
  BY DEF PublishByTopic
<1>2. StoreOK(a.st) /\ a.ok \in BOOLEAN
  BY AddedOK
<1>3. S \in SUBSET Socks /\ Cardinality(S) \in Nat
  BY SocksAssumption, FS_Subset, FS_CardinalityType
<1>4. \A c \in S : \E k, e : e.id = x /\ Grown(pk[c], to(c), k, e)
  <2> SUFFICES ASSUME NEW c \in S PROVE \E k, e : e.id = x /\ Grown(pk[c], to(c), k, e)
    OBVIOUS
  <2> DEFINE e == Entry(x, "sendpublish", MinQos(q, subs[c][t]), m)
  <2>1. c \in Socks /\ subs[c][t] \in 0..2 /\ pk[c] \in Seq(Slots)
    BY QosAssumption DEF None, PacksOK
  <2>2. e \in Slots /\ e.id = x
    <3>1. MinQos(q, subs[c][t]) \in 0..2 /\ "sendpublish" \in Gets \cup SendStates
      BY <2>1, MinQosType DEF SendStates
    <3> QED BY <3>1, EntryType DEF Entry
  <2> HIDE DEF e
  <2>3. \E k : Grown(pk[c], add_packet_id(pk[c], e), k, e)
    BY <2>1, <2>2, AddGrows
  <2> QED BY <2>2, <2>3 DEF e
<1> HIDE DEF S, to
<1>5. ASSUME NEW y \in Ids \ lost'
      PROVE  Cardinality(R(packs', y)) + Cardinality(T(rt, y)) <= Cardinality(U(store', y))
  <2>1. y \in Ids \ a.over /\ y \in Ids \ (lost \cup gone)
    BY <1>1
  <2>2. Cardinality(R(pk, y)) + Cardinality(T(rt, y)) <= Cardinality(U(st, y))
    BY <2>1 DEF Covers
  <2>3. Cardinality(U(a.st, y)) = Cardinality(U(st, y)) + (IF a.ok /\ y = x THEN 1 ELSE 0)
    BY <2>1, AddedUses
  <2>4. /\ Cardinality(R(pk, y)) \in Nat /\ Cardinality(T(rt, y)) \in Nat
        /\ Cardinality(U(st, y)) \in Nat /\ Cardinality(R(packs', y)) \in Nat
    BY RefsFinite, UsesFinite, RetainersSize
  <2>5. CASE store' = a.st /\ packs' = pk
    BY <2>2, <2>3, <2>4, <2>5
  <2>6. CASE \E j \in Found(a.st, x) :
               /\ a.st[j].count + Cardinality(S) <= MaxCount
               /\ store' = Counted(a.st, j, Cardinality(S) - 1)
               /\ packs' = [c \in Socks |-> IF c \in S THEN to(c) ELSE pk[c]]
               /\ lost' = lost \cup gone \cup a.over \cup (IF a.ok THEN {} ELSE {x})
    <3>1. PICK j \in Found(a.st, x) :
               /\ a.st[j].count + Cardinality(S) <= MaxCount
               /\ store' = Counted(a.st, j, Cardinality(S) - 1)
               /\ packs' = [c \in Socks |-> IF c \in S THEN to(c) ELSE pk[c]]
               /\ lost' = lost \cup gone \cup a.over \cup (IF a.ok THEN {} ELSE {x})
      BY <2>6
    <3>2. j \in Nodes /\ a.st[j].id = x
      BY <1>2, <3>1 DEF Found, StoreOK
    <3>3. a.st[j].count \in 0..MaxCount /\ a.st[j].count >= 1
      BY <1>2, <3>2, SlotShape DEF StoreOK, NodeType
    <3>4. Cardinality(S) - 1 \in Int /\ a.st[j].count + (Cardinality(S) - 1) \in 0..MaxCount
      BY <1>3, <3>1, <3>3, BoundsAssumption
    <3>5. Cardinality(U(store', y)) =
            IF y = x THEN Cardinality(U(a.st, y)) + (Cardinality(S) - 1) ELSE Cardinality(U(a.st, y))
      BY <1>2, <3>1, <3>2, <3>4, CountedUses
    <3>6. /\ \A c \in Socks \ S : packs'[c] = pk[c]
          /\ \A c \in S : packs'[c] = to(c)
      BY <1>3, <3>1
    <3>7. Cardinality(R(packs', y)) <= Cardinality(R(pk, y)) + (IF y = x THEN Cardinality(S) ELSE 0)
      <4> DEFINE qk == packs'
      <4>1. \A c \in S : \E k, e : e.id = x /\ Grown(pk[c], qk[c], k, e)
        BY <1>4, <3>6
      <4>2. \A c \in Socks \ S : qk[c] = pk[c]
        BY <3>6
      <4> HIDE DEF qk
      <4>3. Cardinality(R(qk, y)) <= Cardinality(R(pk, y)) + (IF y = x THEN Cardinality(S) ELSE 0)
        BY <1>3, <4>1, <4>2, GrownRefs
      <4> QED BY <4>3 DEF qk
    <3>8. y = x => a.ok
      BY <1>2, <3>1
    <3> QED BY <1>3, <2>2, <2>3, <2>4, <3>5, <3>7, <3>8
  <2> QED BY <1>1, <2>5, <2>6
<1> QED BY <1>5 DEF Covers

\* Entries of the sender that refer to no message.
LEMMA AnsweredRefs ==
  ASSUME NEW pk, PacksOK(pk), NEW s \in Socks, NEW q \in 0..2, NEW x \in Ids, NEW y
  PROVE  Cardinality(R([pk EXCEPT ![s] = Answered(@, q, x)], y)) <= Cardinality(R(pk, y))
<1> DEFINE p == Answered(pk[s], q, x)
           qk == [pk EXCEPT ![s] = Answered(@, q, x)]
<1>1. qk[s] = p /\ \A c \in Socks : c # s => qk[c] = pk[c]
  BY DEF PacksOK
<1>2. pk[s] \in Seq(Slots)
  BY DEF PacksOK
<1>3. \E k, e : e.state \notin Needy /\ Grown(pk[s], p, k, e)
  <2>1. CASE q = 0
    <3>1. p = pk[s]
      BY <2>1 DEF Answered
    <3>2. Grown(pk[s], p, 0, [state |-> "free"]) /\ [state |-> "free"].state \notin Needy
      BY <3>1 DEF Grown, Needy
    <3> QED BY <3>2
  <2>2. CASE q = 1
    <3> DEFINE e == Entry(x, "sendpuback", 1, 0)
    <3>1. p = add_packet_id(pk[s], e)
      BY <2>2 DEF Answered
    <3>2. e \in Slots
      <4>1. "sendpuback" \in Gets \cup SendStates /\ 1 \in 0..2 /\ 0 \in 0..MaxPubs
        BY BoundsAssumption DEF SendStates
      <4> QED BY <4>1, EntryType
    <3>3. e.state \notin Needy
      BY DEF Entry, Needy
    <3> HIDE DEF e, p
    <3> QED BY <1>2, <3>1, <3>2, <3>3, AddGrows
  <2>3. CASE q = 2
    <3> DEFINE e == Entry(x, "sendpubrec", 2, 0)
    <3>1. p = add_packet_id(pk[s], e)
      BY <2>3 DEF Answered
    <3>2. e \in Slots
      <4>1. "sendpubrec" \in Gets \cup SendStates /\ 2 \in 0..2 /\ 0 \in 0..MaxPubs
        BY BoundsAssumption DEF SendStates
      <4> QED BY <4>1, EntryType
    <3>3. e.state \notin Needy
      BY DEF Entry, Needy
    <3> HIDE DEF e, p
    <3> QED BY <1>2, <3>1, <3>2, <3>3, AddGrows
  <2> QED BY <2>1, <2>2, <2>3
<1> HIDE DEF p, qk
<1>4. \A c \in Socks : \A i \in DOMAIN qk[c] :
        Refers(qk[c][i], y) => i \in DOMAIN pk[c] /\ Refers(pk[c][i], y)
  BY <1>1, <1>3 DEF Grown, Refers
<1>5. Cardinality(R(qk, y)) <= Cardinality(R(pk, y))
  BY <1>4, FewerRefs
<1> QED BY <1>5 DEF qk

LEMMA LeftRefs ==
  ASSUME NEW pk, PacksOK(pk), NEW s \in Socks, NEW y
  PROVE  Cardinality(R([pk EXCEPT ![s] = LeftBehind(@)], y)) <= Cardinality(R(pk, y))
<1> DEFINE qk == [pk EXCEPT ![s] = LeftBehind(@)]
<1>1. pk[s] \in Seq(Slots) /\ qk[s] = LeftBehind(pk[s]) /\ \A c \in Socks : c # s => qk[c] = pk[c]
  BY DEF PacksOK
<1>2. /\ DOMAIN LeftBehind(pk[s]) = DOMAIN pk[s]
      /\ \A i \in DOMAIN pk[s] : LeftBehind(pk[s])[i] = [pk[s][i] EXCEPT !.own = FALSE]
  BY DEF LeftBehind
<1>3. \A e \in Slots : /\ [e EXCEPT !.own = FALSE].id = e.id
                       /\ [e EXCEPT !.own = FALSE].state = e.state
  BY DEF Slots, Entries, FreeEntry
<1>4. \A i \in DOMAIN pk[s] : pk[s][i] \in Slots
  BY <1>1
<1> HIDE DEF qk
<1>5. ASSUME NEW c \in Socks, NEW i \in DOMAIN qk[c], Refers(qk[c][i], y)
      PROVE  i \in DOMAIN pk[c] /\ Refers(pk[c][i], y)
  <2>1. CASE c = s
    <3>1. i \in DOMAIN pk[s] /\ qk[c][i] = [pk[s][i] EXCEPT !.own = FALSE]
      BY <1>1, <1>2, <2>1
    <3>2. qk[c][i].id = pk[s][i].id /\ qk[c][i].state = pk[s][i].state
      BY <1>3, <1>4, <3>1
    <3> QED BY <1>5, <2>1, <3>1, <3>2 DEF Refers
  <2>2. CASE c # s
    BY <1>1, <1>5, <2>2
  <2> QED BY <2>1, <2>2
<1>6. Cardinality(R(qk, y)) <= Cardinality(R(pk, y))
  BY <1>5, FewerRefs
<1> QED BY <1>6 DEF qk

-----------------------------------------------------------------------------
(* Each action keeps the references covered.                                *)

LEMMA CountParts ==
  /\ PacksOK(packs) => (CountsCover <=> Covers(packs, retained, store, lost))
  /\ PacksOK(packs') => (CountsCover' <=> Covers(packs', retained', store', lost'))
<1>1. ASSUME PacksOK(packs), NEW y PROVE References(y) = R(packs, y)
  <2>1. References(y) \subseteq R(packs, y)
    BY <1>1, InRefs DEF References, Waiting, Refers, Needy
  <2>2. ASSUME NEW p \in R(packs, y) PROVE p \in References(y)
    <3>1. p[1] \in Socks /\ p = <<p[1], p[2]>>
      BY DEF R
    <3>2. p[2] \in Waiting(p[1], packs[p[1]][p[2]].state, y) /\ packs[p[1]][p[2]].state \in Needy
      BY DEF R, Waiting, Refers
    <3> QED BY <3>1, <3>2 DEF References, Needy
  <2> QED BY <2>1, <2>2
<1>2. ASSUME PacksOK(packs'), NEW y PROVE References(y)' = R(packs', y)
  <2> DEFINE qk == packs'
  <2>1. \A s \in Socks : \A i : <<s, i>> \in R(qk, y) <=> i \in DOMAIN qk[s] /\ Refers(qk[s][i], y)
    BY <1>2, InRefs
  <2>2. References(y)' \subseteq R(qk, y)
    BY <2>1 DEF References, Waiting, Refers, Needy
  <2>3. ASSUME NEW p \in R(qk, y) PROVE p \in References(y)'
    <3>1. p[1] \in Socks /\ p = <<p[1], p[2]>>
      BY DEF R
    <3>2. p[2] \in Waiting(p[1], packs[p[1]][p[2]].state, y)' /\ packs'[p[1]][p[2]].state \in Needy
      BY DEF R, Waiting, Refers
    <3> HIDE DEF qk
    <3> QED BY <3>1, <3>2 DEF References, Needy
  <2> QED BY <2>2, <2>3
<1>3. \A y : Retainers(y) = T(retained, y) /\ Retainers(y)' = T(retained', y)
  BY DEF Retainers, T
<1>4. \A y : Uses(y) = U(store, y) /\ Uses(y)' = U(store', y)
  BY DEF Uses, U
<1> QED BY <1>1, <1>2, <1>3, <1>4 DEF CountsCover, Covers

\* What CountInv gives a step, and what the step owes for it.
LEMMA CountInvParts ==
  ASSUME CountInv
  PROVE  /\ RestOK /\ PacksOK(packs) /\ StoreOK(store)
         /\ TopicsOK(retained) /\ Covers(packs, retained, store, lost)
BY IInvParts, CountParts DEF CountInv

LEMMA CountInvNext ==
  ASSUME IInv', TopicsOK(retained'), Covers(packs', retained', store', lost') PROVE CountInv'
<1>1. PacksOK(packs')
  BY DEF IInv, TypeOK, PacksOK
<1> QED BY <1>1, CountParts DEF CountInv, TopicsOK, T

\* No more references, no fewer uses.
LEMMA QuietStep ==
  ASSUME CountInv, IInv', UNCHANGED <<retained, lost>>,
         \A y \in Ids : Cardinality(R(packs', y)) - Cardinality(R(packs, y))
                          <= Cardinality(U(store', y)) - Cardinality(U(store, y))
  PROVE  CountInv'
<1>1. ASSUME NEW y \in Ids \ lost'
      PROVE  Cardinality(R(packs', y)) + Cardinality(T(retained', y)) <= Cardinality(U(store', y))
  <2>1. Cardinality(R(packs, y)) + Cardinality(T(retained, y)) <= Cardinality(U(store, y))
    BY CountInvParts DEF Covers
  <2>2. /\ Cardinality(R(packs, y)) \in Nat /\ Cardinality(R(packs', y)) \in Nat
        /\ Cardinality(U(store, y)) \in Nat /\ Cardinality(U(store', y)) \in Nat
        /\ Cardinality(T(retained, y)) \in Nat
    BY CountInvParts, RefsFinite, UsesFinite, RetainersSize
  <2>3. retained' = retained
    OBVIOUS
  <2> QED BY <2>1, <2>2, <2>3
<1>2. TopicsOK(retained')
  BY CountInvParts
<1> QED BY <1>1, <1>2, CountInvNext DEF Covers

LEMMA SameStep ==
  ASSUME CountInv, IInv', UNCHANGED <<packs, store, retained, lost>> PROVE CountInv'
<1>1. \A y : /\ Cardinality(R(packs, y)) \in Nat /\ Cardinality(U(store, y)) \in Nat
  BY RefsFinite, UsesFinite
<1> QED BY <1>1, QuietStep

LEMMA DropCovers == ASSUME CountInv, IInv', NEW s \in Socks, Drop(s) PROVE CountInv'
<1>1. \A y : Cardinality(R(packs', y)) <= Cardinality(R(packs, y))
  BY CountInvParts, LeftRefs DEF Drop
<1>2. \A y : /\ Cardinality(R(packs, y)) \in Nat /\ Cardinality(R(packs', y)) \in Nat
             /\ Cardinality(U(store, y)) \in Nat
  BY RefsFinite, UsesFinite
<1>3. UNCHANGED <<retained, lost, store>>
  BY DEF Drop
<1> QED BY <1>1, <1>2, <1>3, QuietStep

LEMMA WillCovers ==
  ASSUME CountInv, IInv', NEW s \in Socks, NEW t \in Topics, NEW x \in Ids, NEW q \in Qos,
         DropWithWill(s, t, x, q)
  PROVE  CountInv'
<1> DEFINE pk == [packs EXCEPT ![s] = LeftBehind(@)]
           ar == [armed EXCEPT ![s] = {}]
           live == {c \in Socks \ {s} : up[c]}
<1>1. PacksOK(pk)
  BY CountInvParts, LeftOK
<1>2. Covers(pk, retained, store, lost \cup {})
  <2>1. ASSUME NEW y \in Ids \ lost
        PROVE  Cardinality(R(pk, y)) + Cardinality(T(retained, y)) <= Cardinality(U(store, y))
    <3>1. Cardinality(R(packs, y)) + Cardinality(T(retained, y)) <= Cardinality(U(store, y))
      BY CountInvParts DEF Covers
    <3>2. Cardinality(R(pk, y)) <= Cardinality(R(packs, y))
      BY CountInvParts, LeftRefs
    <3>3. /\ Cardinality(R(packs, y)) \in Nat /\ Cardinality(R(pk, y)) \in Nat
          /\ Cardinality(U(store, y)) \in Nat /\ Cardinality(T(retained, y)) \in Nat
      BY CountInvParts, RefsFinite, UsesFinite, RetainersSize
    <3> HIDE DEF pk
    <3> QED BY <3>1, <3>2, <3>3
  <2> QED BY <2>1 DEF Covers
<1>3. PublishByTopic(store, pk, ar, live, t, x, q, 0, {}) /\ retained' = retained
  BY DEF DropWithWill
<1>4. q \in 0..2 /\ 0 \in 0..MaxPubs /\ live \in SUBSET Socks
  BY QosAssumption, BoundsAssumption
<1>5. subs \in [Socks -> [Topics -> Qos \cup {None}]] /\ StoreOK(store) /\ TopicsOK(retained)
  BY CountInvParts DEF RestOK
<1> HIDE DEF pk, ar, live
<1>6. Covers(packs', retained, store', lost')
  BY <1>1, <1>2, <1>3, <1>4, <1>5, FanOutCovers
<1> QED BY <1>3, <1>5, <1>6, CountInvNext

\* A topic more that holds x, at most, and one less that holds what t held.
LEMMA NotedSize ==
  ASSUME RestOK, TopicsOK(retained), NEW t \in Topics, NEW x \in Ids, NEW rt \in Noted(t, x), NEW y \in Ids
  PROVE  /\ IsFiniteSet(T(rt, y))
         /\ Cardinality(T(rt, y)) <= Cardinality(T(retained, y)) + One(y = x) - One(retained[t] = y)
<1> DEFINE A == T(retained, y)
<1>1. retained \in [Topics -> Ids \cup {None}] /\ None \notin Ids
  BY IdsAssumption DEF RestOK, None
<1>2. IsFiniteSet(A) /\ Cardinality(A) \in Nat
  BY RetainersSize DEF TopicsOK
<1>3. /\ IsFiniteSet(A \cup {t}) /\ Cardinality(A \cup {t}) = IF t \in A THEN Cardinality(A) ELSE Cardinality(A) + 1
      /\ IsFiniteSet(A \ {t}) /\ Cardinality(A \ {t}) = IF t \in A THEN Cardinality(A) - 1 ELSE Cardinality(A)
  BY <1>2, FS_AddElement, FS_RemoveElement
<1>4. t \in A <=> retained[t] = y
  BY DEF T
<1>5. CASE rt = [retained EXCEPT ![t] = x]
  <2>1. T(rt, y) = IF y = x THEN A \cup {t} ELSE A \ {t}
    BY <1>1, <1>5 DEF T
  <2> HIDE DEF A
  <2>2. /\ IsFiniteSet(T(rt, y))
        /\ Cardinality(T(rt, y)) <= Cardinality(A) + One(y = x) - One(retained[t] = y)
    BY <1>2, <1>3, <1>4, <2>1 DEF One
  <2> QED BY <2>2 DEF A
<1>6. CASE retained[t] = None /\ rt = retained
  <2>1. One(retained[t] = y) = 0 /\ One(y = x) \in {0, 1}
    BY <1>1, <1>6 DEF One
  <2> QED BY <1>2, <1>6, <2>1
<1>7. CASE retained[t] = None /\ rt = [u \in Topics |-> None]
  <2>1. One(retained[t] = y) = 0 /\ One(y = x) \in {0, 1}
    BY <1>1, <1>7 DEF One
  <2>2. T(rt, y) = {}
    BY <1>1, <1>7 DEF T
  <2> QED BY <1>2, <2>1, <2>2, FS_EmptySet
<1> QED BY <1>5, <1>6, <1>7 DEF Noted

\* A retained message is stored for two, and its topic is one reference; what
\* the topic held before is given back.
LEMMA RetainCovers ==
  ASSUME CountInv, NEW t \in Topics, NEW x \in Ids, NEW q \in 0..2, NEW m \in 0..MaxPubs,
         NEW a \in Added(store, x, 2, q, m),
         NEW rt \in IF a.ok THEN Noted(t, x) ELSE {retained}, NEW st \in Retain(t, x, a)
  PROVE  TopicsOK(rt) /\ Covers(packs, rt, st, lost \cup a.over)
<1>1. RestOK /\ StoreOK(store) /\ TopicsOK(retained) /\ Covers(packs, retained, store, lost)
  BY CountInvParts
<1>2. StoreOK(a.st) /\ a.ok \in BOOLEAN
  BY <1>1, AddedOK
<1>3. TopicsOK(rt)
  BY <1>1, <1>2, NotedSize DEF TopicsOK
<1>4. ASSUME NEW y \in Ids \ (lost \cup a.over)
      PROVE  Cardinality(R(packs, y)) + Cardinality(T(rt, y)) <= Cardinality(U(st, y))
  <2>1. Cardinality(R(packs, y)) + Cardinality(T(retained, y)) <= Cardinality(U(store, y))
    BY <1>1 DEF Covers
  <2>2. Cardinality(U(a.st, y)) = Cardinality(U(store, y)) + (IF a.ok /\ y = x THEN 2 ELSE 0)
    BY <1>1, AddedUses
  <2>3. /\ Cardinality(R(packs, y)) \in Nat /\ Cardinality(T(retained, y)) \in Nat
        /\ Cardinality(U(store, y)) \in Nat /\ Cardinality(U(a.st, y)) \in Nat
        /\ Cardinality(U(st, y)) \in Nat /\ Cardinality(T(rt, y)) \in Nat
    BY <1>1, <1>3, RefsFinite, UsesFinite, RetainersSize
  <2>4. CASE a.ok
    <3>1. Cardinality(T(rt, y)) <= Cardinality(T(retained, y)) + One(y = x) - One(retained[t] = y)
      BY <1>1, <2>4, NotedSize
    <3>2. Cardinality(U(st, y)) >= Cardinality(U(a.st, y)) - One(retained[t] = y)
      <4>1. CASE retained[t] = None
        <5>1. st = a.st
          BY <4>1 DEF Retain
        <5> QED BY <2>3, <5>1 DEF One
      <4>2. CASE retained[t] # None
        <5>1. retained[t] \in Ids /\ st \in GivenBack(a.st, retained[t])
          BY <1>1, <2>4, <4>2 DEF Retain, RestOK
        <5>2. /\ y # retained[t] => Cardinality(U(st, y)) = Cardinality(U(a.st, y))
              /\ Cardinality(U(st, y)) >= Cardinality(U(a.st, y)) - 1
          BY <1>2, <5>1, GivenBackUses
        <5> QED BY <2>3, <5>2 DEF One
      <4> QED BY <4>1, <4>2
    <3>3. One(retained[t] = y) \in {0, 1} /\ One(y = x) = IF y = x THEN 1 ELSE 0
      BY DEF One
    <3> QED BY <2>1, <2>2, <2>3, <2>4, <3>1, <3>2, <3>3
  <2>5. CASE ~a.ok
    <3>1. rt = retained /\ st = a.st
      BY <2>5 DEF Retain
    <3> QED BY <2>1, <2>2, <2>3, <2>5, <3>1
  <2> QED BY <2>4, <2>5
<1> QED BY <1>3, <1>4 DEF Covers

LEMMA PublishCovers ==
  ASSUME CountInv, IInv', NEW s \in Socks, NEW t \in Topics, NEW x \in Ids, NEW q \in Qos,
         NEW retain \in BOOLEAN, Publish(s, t, x, q, retain)
  PROVE  CountInv'
<1> DEFINE pk == [packs EXCEPT ![s] = Answered(@, q, x)]
           ar == [armed EXCEPT ![s] = IF q = 0 THEN @ ELSE (@ \ {"read"}) \cup {"write"}]
           live == {c \in Socks : up[c]}
           kept == [st |-> store, ok |-> FALSE, over |-> {}]
<1>1. /\ RestOK /\ PacksOK(packs) /\ StoreOK(store)
      /\ TopicsOK(retained) /\ Covers(packs, retained, store, lost)
  BY CountInvParts
<1>2. q \in 0..2 /\ live \in SUBSET Socks /\ subs \in [Socks -> [Topics -> Qos \cup {None}]]
  BY <1>1, QosAssumption DEF RestOK
<1>3. pubs + 1 \in 0..MaxPubs
  BY <1>1, BoundsAssumption DEF RestOK, Publish
<1>4. PICK r \in IF retain THEN Added(store, x, 2, q, pubs + 1) ELSE {kept} :
        /\ retained' \in IF r.ok THEN Noted(t, x) ELSE {retained}
        /\ \E st \in Retain(t, x, r) : PublishByTopic(st, pk, ar, live, t, x, q, pubs + 1, r.over)
  BY DEF Publish
<1>5. PICK st \in Retain(t, x, r) : PublishByTopic(st, pk, ar, live, t, x, q, pubs + 1, r.over)
  BY <1>4
<1>6. StoreOK(st) /\ TopicsOK(retained') /\ Covers(packs, retained', st, lost \cup r.over)
  <2>1. CASE retain
    <3>1. r \in Added(store, x, 2, q, pubs + 1)
      BY <1>4, <2>1
    <3>2. StoreOK(r.st) /\ r.ok \in BOOLEAN
      BY <1>1, <1>2, <1>3, <3>1, AddedOK
    <3>3. StoreOK(st)
      <4>1. retained[t] # None => retained[t] \in Ids
        BY <1>1 DEF RestOK
      <4> QED BY <1>5, <3>2, <4>1, GivenBackOK DEF Retain
    <3> DEFINE rt == retained'
    <3>4. rt \in IF r.ok THEN Noted(t, x) ELSE {retained}
      BY <1>4
    <3> HIDE DEF rt
    <3>5. TopicsOK(rt) /\ Covers(packs, rt, st, lost \cup r.over)
      BY <1>2, <1>3, <1>5, <3>1, <3>4, RetainCovers
    <3> QED BY <3>3, <3>5 DEF rt
  <2>2. CASE ~retain
    <3>1. r.st = store /\ r.ok = FALSE /\ r.over = {}
      BY <1>4, <2>2
    <3>2. st = store /\ retained' = retained /\ lost \cup r.over = lost
      BY <1>4, <1>5, <3>1 DEF Retain
    <3> QED BY <1>1, <3>2
  <2> QED BY <2>1, <2>2
<1>7. PacksOK(pk)
  <2>1. packs[s] \in Seq(Slots) /\ Len(packs[s]) <= MaxEntries
    BY <1>1 DEF PacksOK
  <2> QED BY <1>1, <1>2, <2>1, AnsweredKeeps, OneSlotOK
<1> DEFINE rt == retained'
<1>8. Covers(pk, rt, st, lost \cup r.over)
  <2>1. ASSUME NEW y \in Ids \ (lost \cup r.over)
        PROVE  Cardinality(R(pk, y)) + Cardinality(T(rt, y)) <= Cardinality(U(st, y))
    <3>1. Cardinality(R(packs, y)) + Cardinality(T(rt, y)) <= Cardinality(U(st, y))
      BY <1>6 DEF Covers
    <3>2. Cardinality(R(pk, y)) <= Cardinality(R(packs, y))
      BY <1>1, <1>2, AnsweredRefs
    <3>3. /\ Cardinality(R(packs, y)) \in Nat /\ Cardinality(R(pk, y)) \in Nat
          /\ Cardinality(U(st, y)) \in Nat /\ Cardinality(T(rt, y)) \in Nat
      BY <1>6, RefsFinite, UsesFinite, RetainersSize
    <3> HIDE DEF pk, rt
    <3> QED BY <3>1, <3>2, <3>3
  <2> QED BY <2>1 DEF Covers
<1>9. TopicsOK(rt)
  BY <1>6
<1> HIDE DEF pk, ar, live, kept, rt
<1>10. Covers(packs', rt, store', lost')
  BY <1>2, <1>3, <1>5, <1>6, <1>7, <1>8, <1>9, FanOutCovers
<1> QED BY <1>9, <1>10, CountInvNext DEF rt

LEMMA SubscribeCovers ==
  ASSUME CountInv, IInv', NEW s \in Socks, NEW t \in Topics, NEW q \in Qos, Subscribe(s, t, q)
  PROVE  CountInv'
<1>1. RestOK /\ PacksOK(packs) /\ StoreOK(store)
  BY CountInvParts
<1>2. UNCHANGED <<retained, lost>>
  BY DEF Subscribe
<1>3. CASE UNCHANGED <<packs, store, armed>>
  BY <1>2, <1>3, SameStep
<1>4. ASSUME NEW j \in Found(store, retained[t]),
             store[j].count < MaxCount,
             packs' = [packs EXCEPT ![s] = add_packet_id(@,
                       Entry(retained[t], "sendpublish", MinQos(q, store[j].qos), store[j].msg))],
             store' = Counted(store, j, 1)
      PROVE  CountInv'
  <2> DEFINE x == retained[t]
             e == Entry(x, "sendpublish", MinQos(q, store[j].qos), store[j].msg)
  <2>1. j \in Nodes /\ store[j].id = x /\ store[j] \in NodeType
    BY <1>1, <1>4 DEF Found, StoreOK
  <2>2. x \in Ids /\ store[j].count \in 0..MaxCount /\ store[j].qos \in 0..2 /\ store[j].msg \in 0..MaxPubs
    <3>1. None # 0 /\ x \in Ids \cup {None} /\ x \in Ids \cup {0}
      BY <1>1, <2>1 DEF RestOK, NodeType, None
    <3> QED BY <2>1, <3>1 DEF NodeType
  <2>3. store[j].count + 1 \in 0..MaxCount
    BY <1>4, <2>2, BoundsAssumption
  <2>4. e \in Slots /\ e.id = x
    <3>1. MinQos(q, store[j].qos) \in 0..2 /\ "sendpublish" \in Gets \cup SendStates
      BY <2>2, QosAssumption, MinQosType DEF SendStates
    <3> QED BY <2>2, <3>1, EntryType DEF Entry
  <2>5. packs' = [packs EXCEPT ![s] = add_packet_id(packs[s], e)] /\ packs[s] \in Seq(Slots)
    BY <1>1, <1>4 DEF PacksOK
  <2> HIDE DEF e
  <2>6. \E k : Grown(packs[s], add_packet_id(packs[s], e), k, e)
    BY <2>4, <2>5, AddGrows
  <2> DEFINE qk == packs'
             S == {s}
  <2>7. /\ \A c \in Socks \ S : qk[c] = packs[c]
        /\ \A c \in S : \E k, f : f.id = x /\ Grown(packs[c], qk[c], k, f)
    BY <1>1, <2>4, <2>5, <2>6 DEF PacksOK
  <2>8. S \in SUBSET Socks /\ Cardinality(S) = 1
    BY FS_Singleton
  <2> HIDE DEF qk, x, S
  <2>9. \A y : Cardinality(R(qk, y)) <= Cardinality(R(packs, y)) + (IF y = x THEN Cardinality(S) ELSE 0)
    BY <1>1, <2>7, <2>8, GrownRefs
  <2>10. \A y \in Ids : Cardinality(U(store', y)) =
                          IF y = x THEN Cardinality(U(store, y)) + 1 ELSE Cardinality(U(store, y))
    BY <1>1, <1>4, <2>1, <2>2, <2>3, CountedUses
  <2>11. \A y : /\ Cardinality(R(packs, y)) \in Nat /\ Cardinality(R(qk, y)) \in Nat
                /\ Cardinality(U(store, y)) \in Nat
    BY RefsFinite, UsesFinite
  <2>12. \A y \in Ids : Cardinality(R(packs', y)) - Cardinality(R(packs, y))
                          <= Cardinality(U(store', y)) - Cardinality(U(store, y))
    BY <2>8, <2>9, <2>10, <2>11 DEF qk
  <2> QED BY <1>2, <2>12, QuietStep
<1> QED BY <1>3, <1>4 DEF Subscribe

\* One entry becomes another, and what it needed less is given back.
LEMMA OneStepCovers ==
  ASSUME CountInv, IInv', UNCHANGED <<retained, lost>>,
         NEW s \in Socks, NEW i \in DOMAIN packs[s], NEW e \in Slots, packs' = [packs EXCEPT ![s][i] = e],
         \A y \in Ids : One(Refers(e, y)) - One(Refers(packs[s][i], y))
                          <= Cardinality(U(store', y)) - Cardinality(U(store, y))
  PROVE  CountInv'
<1>1. ASSUME NEW y \in Ids
      PROVE  Cardinality(R(packs', y)) - Cardinality(R(packs, y))
               <= Cardinality(U(store', y)) - Cardinality(U(store, y))
  <2>1. Cardinality(R(packs', y)) =
          Cardinality(R(packs, y)) - One(Refers(packs[s][i], y)) + One(Refers(e, y))
    <3>1. PacksOK(packs)
      BY CountInvParts
    <3>2. \A pk : PacksOK(pk) /\ i \in DOMAIN pk[s] =>
            Cardinality(R([pk EXCEPT ![s][i] = e], y)) =
              Cardinality(R(pk, y)) - One(Refers(pk[s][i], y)) + One(Refers(e, y))
      BY OneRef
    <3> QED BY <3>1, <3>2
  <2>2. /\ Cardinality(R(packs, y)) \in Nat
        /\ Cardinality(U(store, y)) \in Nat /\ Cardinality(U(store', y)) \in Nat
    BY RefsFinite, UsesFinite
  <2>3. One(Refers(packs[s][i], y)) \in {0, 1} /\ One(Refers(e, y)) \in {0, 1}
    BY DEF One
  <2> QED BY <2>1, <2>2, <2>3
<1> QED BY <1>1, QuietStep

LEMMA NotReferring == FreeEntry \in Slots /\ \A y \in Ids : ~Refers(FreeEntry, y)
BY FreeShape DEF Refers

LEMMA AckedCovers ==
  ASSUME CountInv, IInv', NEW s \in Socks, NEW x \in Ids,
         Puback(s, x) \/ Pubrec(s, x) \/ Pubcomp(s, x) \/ Pubrel(s, x)
  PROVE  CountInv'
<1>1. PacksOK(packs) /\ StoreOK(store)
  BY CountInvParts
<1>2. ASSUME NEW state, NEW next \in {"free", "sendpubrel", "sendpubcomp"}, NEW event,
             Acked(s, x, state, next, event),
             \A y \in Ids : Cardinality(U(store', y)) >=
                              Cardinality(U(store, y)) - One(y = x /\ state \in Needy)
      PROVE  CountInv'
  <2> DEFINE i == First(Waiting(s, state, x))
             f == packs[s][i]
             e == IF next = "free" THEN FreeEntry ELSE [f EXCEPT !.state = next]
  <2>1. i \in DOMAIN packs[s] /\ f \in Slots /\ f.id = x /\ f.state = state
    BY <1>1, <1>2, WaitingIn DEF Acked
  <2>2. packs' = [packs EXCEPT ![s][i] = e] /\ UNCHANGED <<retained, lost>>
    BY <1>2 DEF Acked
  <2> HIDE DEF i
  <2>3. e \in Slots /\ \A y \in Ids : ~Refers(e, y)
    <3>1. CASE next = "free"
      BY <3>1, NotReferring
    <3>2. CASE next # "free"
      <4>1. next \in SendStates /\ next \notin Needy /\ f.id # 0
        BY <2>1, <3>2, SlotShape DEF SendStates, Needy
      <4>2. [f EXCEPT !.state = next] \in Slots /\ [f EXCEPT !.state = next].state = next
        BY <2>1, <4>1, EntryNext
      <4> QED BY <3>2, <4>1, <4>2 DEF Refers
    <3> QED BY <3>1, <3>2
  <2> HIDE DEF e
  <2>4. \A y \in Ids : /\ One(Refers(e, y)) = 0
                       /\ One(Refers(f, y)) = One(y = x /\ state \in Needy)
                       /\ One(y = x /\ state \in Needy) \in {0, 1}
    BY <2>1, <2>3 DEF One, Refers
  <2>5. \A y : Cardinality(U(store, y)) \in Nat /\ Cardinality(U(store', y)) \in Nat
    BY UsesFinite
  <2>6. \A y \in Ids : One(Refers(e, y)) - One(Refers(packs[s][i], y))
                         <= Cardinality(U(store', y)) - Cardinality(U(store, y))
    BY <1>2, <2>4, <2>5
  <2> HIDE DEF f
  <2> QED BY <2>1, <2>2, <2>3, <2>6, OneStepCovers
<1>3. \A y : Cardinality(U(store, y)) \in Nat /\ Cardinality(U(store', y)) \in Nat
  BY UsesFinite
<1>4. ASSUME store' \in GivenBack(store, x), NEW state \in Needy
      PROVE  \A y \in Ids : Cardinality(U(store', y)) >=
                              Cardinality(U(store, y)) - One(y = x /\ state \in Needy)
  <2>1. \A y \in Ids : /\ y # x => Cardinality(U(store', y)) = Cardinality(U(store, y))
                       /\ Cardinality(U(store', y)) >= Cardinality(U(store, y)) - 1
    BY <1>1, <1>4, GivenBackUses
  <2> QED BY <1>3, <2>1 DEF One
<1>5. ASSUME store' = store, NEW state
      PROVE  \A y \in Ids : Cardinality(U(store', y)) >=
                              Cardinality(U(store, y)) - One(y = x /\ state \in Needy)
  BY <1>3, <1>5 DEF One
<1>6. CASE Puback(s, x)
  BY <1>2, <1>4, <1>6 DEF Puback, Needy
<1>7. CASE Pubrec(s, x)
  BY <1>2, <1>4, <1>7 DEF Pubrec, Needy
<1>8. CASE Pubcomp(s, x)
  BY <1>2, <1>5, <1>8 DEF Pubcomp
<1>9. CASE Pubrel(s, x)
  BY <1>2, <1>5, <1>9 DEF Pubrel
<1> QED BY <1>6, <1>7, <1>8, <1>9

\* publish: the entry goes on needing the message, or gives its use back.
LEMMA SentCovers ==
  ASSUME CountInv, IInv', UNCHANGED <<retained, lost>>,
         NEW s \in Socks, NEW i \in DOMAIN packs[s], NEW q \in 0..2, NEW ok \in BOOLEAN,
         packs[s][i].id \in Ids, packs[s][i].state \in Needy,
         NEW j \in Found(store, packs[s][i].id), Sent(s, i, j, q, ok)
  PROVE  CountInv'
<1> DEFINE f == packs[s][i]
<1>1. PacksOK(packs) /\ StoreOK(store)
  BY CountInvParts
<1>2. f \in Slots
  BY <1>1 DEF PacksOK
<1>3. \E e \in Slots : /\ packs' = [packs EXCEPT ![s][i] = e]
                       /\ IF ok /\ q > 0 THEN e.state = Awaited(q) /\ e.id = f.id ELSE e = FreeEntry
  <2>1. \A g \in Slots : g = packs[s][i] /\ g.id \in Ids /\ j \in Found(store, g.id) =>
          \E e \in Slots : /\ packs' = [packs EXCEPT ![s][i] = e]
                           /\ IF ok /\ q > 0 THEN e.state = Awaited(q) /\ e.id = g.id ELSE e = FreeEntry
    BY <1>1, SentKeeps
  <2> QED BY <1>2, <2>1
<1>4. PICK e \in Slots : /\ packs' = [packs EXCEPT ![s][i] = e]
                         /\ IF ok /\ q > 0 THEN e.state = Awaited(q) /\ e.id = f.id ELSE e = FreeEntry
  BY <1>3
<1>5. \A y : Cardinality(U(store, y)) \in Nat
  BY UsesFinite
<1>6. \A y \in Ids : One(Refers(e, y)) - One(Refers(f, y))
                       <= Cardinality(U(store', y)) - Cardinality(U(store, y))
  <2>1. \A y \in Ids : One(Refers(f, y)) = One(y = f.id)
    BY DEF Refers, One
  <2>2. CASE ok /\ q > 0
    <3>1. store' = store
      BY <2>2 DEF Sent
    <3>2. \A y \in Ids : One(Refers(e, y)) = One(y = f.id)
      BY <1>4, <2>2 DEF Refers, Awaited, Needy, One
    <3>3. \A y : One(y = f.id) \in {0, 1}
      BY DEF One
    <3> QED BY <1>5, <2>1, <3>1, <3>2, <3>3
  <2>3. CASE ~(ok /\ q > 0)
    <3>1. store' = Counted(store, j, -1)
      BY <2>3 DEF Sent
    <3>2. j \in Nodes /\ store[j].id = f.id
      BY <1>1 DEF Found, StoreOK
    <3>3. store[j].count \in 0..MaxCount /\ store[j].count >= 1
      BY <1>1, <3>2, SlotShape DEF StoreOK, NodeType
    <3>4. store[j].count + (-1) \in 0..MaxCount
      BY <3>3, BoundsAssumption
    <3>5. \A y \in Ids : Cardinality(U(store', y)) =
                           IF y = f.id THEN Cardinality(U(store, y)) + (-1) ELSE Cardinality(U(store, y))
      BY <1>1, <3>1, <3>2, <3>4, CountedUses
    <3>6. \A y \in Ids : One(Refers(e, y)) = 0
      BY <1>4, <2>3, NotReferring DEF One
    <3> HIDE DEF f
    <3> QED BY <1>5, <2>1, <3>5, <3>6 DEF One
  <2> QED BY <2>2, <2>3
<1> QED BY <1>4, <1>6, OneStepCovers

LEMMA WritePublishCovers ==
  ASSUME CountInv, IInv', NEW s \in Socks, NEW ok \in BOOLEAN, WritePublish(s, ok) PROVE CountInv'
<1> DEFINE i == First(Sends(s))
           f == packs[s][i]
<1>1. PacksOK(packs)
  BY CountInvParts
<1>2. i \in DOMAIN packs[s] /\ f \in Slots /\ f.id \in Ids
  BY <1>1, SendsIn DEF WritePublish
<1>3. f.state \in Needy /\ UNCHANGED <<retained, lost>>
  BY DEF WritePublish, Needy
<1>4. PICK j \in Found(store, f.id) : Sent(s, i, j, f.qos, ok)
  BY DEF WritePublish
<1>5. f.qos \in 0..2
  BY <1>2, SlotShape DEF Entries
<1> HIDE DEF i
<1> QED BY <1>2, <1>3, <1>4, <1>5, SentCovers

LEMMA MalformedCovers ==
  ASSUME CountInv, IInv', NEW s \in Socks, NEW state \in {"getpuback", "getpubrec"}, NEW x \in Ids,
         NEW ok \in BOOLEAN, MalformedAck(s, state, x, ok)
  PROVE  CountInv'
<1> DEFINE i == First(Waiting(s, state, x))
           f == packs[s][i]
<1>1. PacksOK(packs) /\ StoreOK(store)
  BY CountInvParts
<1>2. i \in DOMAIN packs[s] /\ f.id = x /\ f.state = state
  BY <1>1, WaitingIn DEF MalformedAck
<1>3. f.state \in Needy /\ UNCHANGED <<retained, lost>>
  BY <1>2 DEF MalformedAck, Needy
<1>4. PICK j \in Found(store, x) : Sent(s, i, j, store[j].qos, ok)
  BY DEF MalformedAck
<1>5. store[j].qos \in 0..2
  BY <1>1 DEF Found, StoreOK, NodeType
<1> HIDE DEF i
<1> QED BY <1>2, <1>3, <1>4, <1>5, SentCovers

LEMMA WriteAckCovers ==
  ASSUME CountInv, IInv', NEW s \in Socks, NEW ok \in BOOLEAN, WriteAck(s, ok) PROVE CountInv'
<1> DEFINE i == First(Sends(s))
           f == packs[s][i]
           next == Next_state(f.state)
           e == IF next = "free" THEN FreeEntry ELSE [f EXCEPT !.state = next]
<1>1. PacksOK(packs)
  BY CountInvParts
<1>2. i \in DOMAIN packs[s] /\ f \in Slots /\ f.id \in Ids /\ f.state \in SendStates
  BY <1>1, SendsIn DEF WriteAck
<1>3. /\ f.state # "sendpublish" /\ packs' = [packs EXCEPT ![s][i] = e]
      /\ UNCHANGED <<retained, lost, store>>
  BY DEF WriteAck
<1> HIDE DEF i
<1>4. \A y \in Ids : ~Refers(f, y)
  BY <1>2, <1>3 DEF Refers, SendStates, Needy
<1>5. e \in Slots /\ \A y \in Ids : ~Refers(e, y)
  <2>1. next \in {"free", "getpubrel", "getpubcomp"}
    BY DEF Next_state
  <2>2. CASE next = "free"
    BY <2>2, NotReferring
  <2>3. CASE next # "free"
    <3>1. next \in Gets /\ next \notin Needy /\ f.id # 0
      BY <1>2, <2>1, <2>3, SlotShape DEF Gets, Needy
    <3> HIDE DEF next
    <3>2. [f EXCEPT !.state = next] \in Slots /\ [f EXCEPT !.state = next].state = next
      BY <1>2, <3>1, EntryNext
    <3> QED BY <2>3, <3>1, <3>2 DEF Refers
  <2> QED BY <2>2, <2>3
<1> HIDE DEF e
<1>6. \A y \in Ids : One(Refers(e, y)) - One(Refers(packs[s][i], y))
                       <= Cardinality(U(store', y)) - Cardinality(U(store, y))
  <2>1. \A y \in Ids : One(Refers(e, y)) = 0 /\ One(Refers(packs[s][i], y)) = 0
    BY <1>4, <1>5 DEF One
  <2>2. \A y : Cardinality(U(store, y)) \in Nat
    BY UsesFinite
  <2> QED BY <1>3, <2>1, <2>2
<1> QED BY <1>2, <1>3, <1>5, <1>6, OneStepCovers

LEMMA CountStart == Init => CountInv
<1> SUFFICES ASSUME Init PROVE CountInv
  OBVIOUS
<1>1. \A y : R(packs, y) = {}
  BY DEF Init, R
<1>2. \A y \in Ids : T(retained, y) = {}
  BY IdsAssumption DEF Init, T
<1>3. TopicsOK(retained)
  BY <1>2, FS_EmptySet DEF TopicsOK
<1>4. Covers(packs, retained, store, lost)
  <2>1. \A y \in Ids : Cardinality(R(packs, y)) = 0 /\ Cardinality(T(retained, y)) = 0
    BY <1>1, <1>2, FS_EmptySet
  <2>2. \A y : Cardinality(U(store, y)) \in Nat
    BY UsesFinite
  <2> QED BY <2>1, <2>2 DEF Covers
<1>5. IInv /\ PacksOK(packs)
  BY InitHolds, IInvParts
<1> QED BY <1>3, <1>4, <1>5, CountParts DEF CountInv

LEMMA CountStep == ASSUME CountInv, [Next]_vars PROVE CountInv'
<1>0. IInv'
  BY StepKeeps DEF CountInv
<1>1. CASE UNCHANGED vars
  BY <1>0, <1>1, SameStep DEF vars
<1>2. ASSUME NEW s \in Socks, Connect(s) PROVE CountInv'
  BY <1>0, <1>2, SameStep DEF Connect
<1>3. ASSUME NEW s \in Socks, Read(s) PROVE CountInv'
  <2>1. ASSUME NEW t \in Topics, Unsubscribe(s, t) PROVE CountInv'
    BY <1>0, <2>1, SameStep DEF Unsubscribe
  <2> QED BY <1>0, <1>3, <2>1, PublishCovers, SubscribeCovers, AckedCovers, MalformedCovers DEF Read
<1>4. ASSUME NEW s \in Socks, Write(s) PROVE CountInv'
  <2>1. ASSUME WriteNothing(s) PROVE CountInv'
    BY <1>0, <2>1, SameStep DEF WriteNothing
  <2> QED BY <1>0, <1>4, <2>1, WriteAckCovers, WritePublishCovers DEF Write
<1> QED BY <1>0, <1>1, <1>2, <1>3, <1>4, DropCovers, WillCovers DEF Next

LEMMA CountInvariance == Spec => []CountInv
<1> QED BY CountStart, CountStep, PTL DEF Spec

\* Whatever entries and topics still refer to an id, the counts of its nodes
\* cover them (worker.cpp:100-146, 455-474, 530, 568), unless one of those
\* nodes was overwritten: no message is erased too early, for any number of
\* connections, ids, entries and nodes.
THEOREM CountsSuffice == Spec => []CountsCover
<1>1. CountInv => CountsCover
  BY DEF CountInv
<1> QED BY <1>1, CountInvariance, PTL

-----------------------------------------------------------------------------
(* What is to be sent has a write event asked for.                          *)

Pending(q, i, L) == i \in DOMAIN q /\ q[i].id \notin L \cup {0} /\ q[i].state \in SendStates /\ q[i].own
ToSend(q, L) == \E i : Pending(q, i, L)

Armed(pk, ar, L) == \A s \in Socks : ToSend(pk[s], L) => "write" \in ar[s]

\* A slot without a client has only entries left behind.
LeftIsNotOwn(pk, u) == \A s \in Socks : ~u[s] => \A i \in DOMAIN pk[s] : ~pk[s][i].own

\* The strengthening of SendsAreArmed that steps preserve.
ArmInv == CountInv /\ SendsAreArmed /\ LeftIsNotOwn(packs, up)

LEMMA ArmedParts ==
  /\ SendsAreArmed <=> Armed(packs, armed, lost)
  /\ SendsAreArmed' <=> Armed(packs', armed', lost')
BY DEF SendsAreArmed, Armed, ToSend, Pending, Sends

LEMMA ArmInvParts ==
  ASSUME ArmInv
  PROVE  /\ RestOK /\ PacksOK(packs) /\ StoreOK(store) /\ ArmedOK(armed)
         /\ Armed(packs, armed, lost) /\ LeftIsNotOwn(packs, up)
BY CountInvParts, ArmedParts DEF ArmInv, RestOK

LEMMA ArmInvNext ==
  ASSUME CountInv', Armed(packs', armed', lost'), LeftIsNotOwn(packs', up') PROVE ArmInv'
BY ArmedParts DEF ArmInv, LeftIsNotOwn

LEMMA FanOutArmed ==
  ASSUME NEW st, NEW pk, NEW ar, ArmedOK(ar), NEW live \in SUBSET Socks, NEW t, NEW x, NEW q, NEW m, NEW gone,
         NEW u, \A c \in live : u[c],
         Armed(pk, ar, lost), LeftIsNotOwn(pk, u), PublishByTopic(st, pk, ar, live, t, x, q, m, gone)
  PROVE  Armed(packs', armed', lost') /\ LeftIsNotOwn(packs', u)
<1> DEFINE S == {c \in live : subs[c][t] # None}
<1>1. /\ lost \subseteq lost'
      /\ \/ packs' = pk /\ armed' = ar
         \/ \A c \in Socks : \/ packs'[c] = pk[c] /\ armed'[c] = ar[c]
                             \/ c \in S /\ armed'[c] = (ar[c] \ {"read"}) \cup {"write"}
  BY DEF PublishByTopic
<1>2. \A c \in Socks : \/ packs'[c] = pk[c] /\ armed'[c] = ar[c]
                       \/ u[c] /\ "write" \in armed'[c]
  BY <1>1
<1>3. \A q1 : ToSend(q1, lost') => ToSend(q1, lost)
  BY <1>1 DEF ToSend, Pending
<1> QED BY <1>2, <1>3 DEF Armed, LeftIsNotOwn

LEMMA LeftArmed ==
  ASSUME PacksOK(packs), NEW s \in Socks, NEW L, NEW u \in [Socks -> BOOLEAN], NEW ar,
         Armed(packs, armed, L), LeftIsNotOwn(packs, u), ar = [armed EXCEPT ![s] = {}], ArmedOK(armed)
  PROVE  /\ Armed([packs EXCEPT ![s] = LeftBehind(@)], ar, L)
         /\ LeftIsNotOwn([packs EXCEPT ![s] = LeftBehind(@)], [u EXCEPT ![s] = FALSE])
<1> DEFINE pk == [packs EXCEPT ![s] = LeftBehind(@)]
<1>1. packs[s] \in Seq(Slots) /\ pk[s] = LeftBehind(packs[s]) /\ \A c \in Socks : c # s => pk[c] = packs[c]
  BY DEF PacksOK
<1>2. \A e \in Slots : ~[e EXCEPT !.own = FALSE].own
  BY DEF Slots, Entries, FreeEntry
<1> HIDE DEF pk
<1>3. ASSUME NEW i \in DOMAIN pk[s] PROVE ~pk[s][i].own
  <2>1. i \in DOMAIN packs[s] /\ pk[s][i] = [packs[s][i] EXCEPT !.own = FALSE]
    BY <1>1 DEF LeftBehind
  <2>2. packs[s][i] \in Slots
    BY <1>1, <2>1
  <2>3. ~[packs[s][i] EXCEPT !.own = FALSE].own
    BY <1>2, <2>2
  <2> QED BY <2>1, <2>3
<1>4. \A c \in Socks : c # s => ar[c] = armed[c]
  BY DEF ArmedOK
<1>5. Armed(pk, ar, L)
  BY <1>1, <1>3, <1>4 DEF Armed, ToSend, Pending
<1>6. LeftIsNotOwn(pk, [u EXCEPT ![s] = FALSE])
  BY <1>1, <1>3 DEF LeftIsNotOwn
<1> QED BY <1>5, <1>6 DEF pk

\* A step that concerns one connection.
LEMMA OneArmed ==
  ASSUME ArmInv, CountInv', NEW s \in Socks, up[s], UNCHANGED <<up, lost>>,
         \A c \in Socks : c # s => packs'[c] = packs[c] /\ armed'[c] = armed[c],
         ToSend(packs'[s], lost) => "write" \in armed'[s]
  PROVE  ArmInv'
<1>1. Armed(packs, armed, lost) /\ LeftIsNotOwn(packs, up)
  BY ArmInvParts
<1>2. Armed(packs', armed', lost')
  BY <1>1 DEF Armed
<1>3. LeftIsNotOwn(packs', up')
  BY <1>1 DEF LeftIsNotOwn
<1> QED BY <1>2, <1>3, ArmInvNext

\* One entry becomes another that is not to be sent.
LEMMA Settled ==
  ASSUME PacksOK(packs), NEW s \in Socks, NEW i \in DOMAIN packs[s], NEW e,
         e.id = 0 \/ e.state \notin SendStates, packs' = [packs EXCEPT ![s][i] = e]
  PROVE  /\ \A c \in Socks : c # s => packs'[c] = packs[c]
         /\ \A k, L : Pending(packs'[s], k, L) => k # i /\ Pending(packs[s], k, L)
<1>1. packs'[s] = [packs[s] EXCEPT ![i] = e] /\ \A c \in Socks : c # s => packs'[c] = packs[c]
  BY DEF PacksOK
<1>2. packs[s] \in Seq(Slots)
  BY DEF PacksOK
<1>3. /\ DOMAIN packs'[s] = DOMAIN packs[s] /\ packs'[s][i] = e
      /\ \A k \in DOMAIN packs[s] : k # i => packs'[s][k] = packs[s][k]
  BY <1>1, <1>2
<1> QED BY <1>1, <1>3 DEF Pending

LEMMA GetsAreNotSends == Gets \cap SendStates = {} /\ \A q : Awaited(q) \in Gets
BY DEF Gets, SendStates, Awaited

-----------------------------------------------------------------------------
(* What a step does to the events.                                          *)

LEMMA ConnectArmed ==
  ASSUME ArmInv, CountInv', NEW s \in Socks, Connect(s) PROVE ArmInv'
<1>1. RestOK /\ Armed(packs, armed, lost) /\ LeftIsNotOwn(packs, up)
  BY ArmInvParts
<1>2. /\ packs' = packs /\ lost' = lost /\ ~up[s]
      /\ \A c \in Socks : c # s => armed'[c] = armed[c] /\ up'[c] = up[c]
      /\ up'[s]
  BY <1>1 DEF Connect, RestOK, ArmedOK
<1>3. ~ToSend(packs[s], lost)
  BY <1>1, <1>2 DEF LeftIsNotOwn, ToSend, Pending
<1>4. Armed(packs', armed', lost') /\ LeftIsNotOwn(packs', up')
  BY <1>1, <1>2, <1>3 DEF Armed, LeftIsNotOwn
<1> QED BY <1>4, ArmInvNext

LEMMA DropArmed == ASSUME ArmInv, CountInv', NEW s \in Socks, Drop(s) PROVE ArmInv'
<1>1. /\ RestOK /\ PacksOK(packs) /\ ArmedOK(armed)
      /\ Armed(packs, armed, lost) /\ LeftIsNotOwn(packs, up)
  BY ArmInvParts
<1>2. /\ packs' = [packs EXCEPT ![s] = LeftBehind(@)] /\ armed' = [armed EXCEPT ![s] = {}]
      /\ up' = [up EXCEPT ![s] = FALSE] /\ lost' = lost
  BY DEF Drop, Gone
<1>3. up \in [Socks -> BOOLEAN]
  BY <1>1 DEF RestOK
<1> DEFINE u == up
           ar == [armed EXCEPT ![s] = {}]
<1>4. /\ Armed([packs EXCEPT ![s] = LeftBehind(@)], ar, lost)
      /\ LeftIsNotOwn([packs EXCEPT ![s] = LeftBehind(@)], [u EXCEPT ![s] = FALSE])
  BY <1>1, <1>3, LeftArmed
<1> QED BY <1>2, <1>4, ArmInvNext

LEMMA WillArmed ==
  ASSUME ArmInv, CountInv', NEW s \in Socks, NEW t \in Topics, NEW x \in Ids, NEW q \in Qos,
         DropWithWill(s, t, x, q)
  PROVE  ArmInv'
<1> DEFINE pk == [packs EXCEPT ![s] = LeftBehind(@)]
           ar == [armed EXCEPT ![s] = {}]
           u == [up EXCEPT ![s] = FALSE]
           live == {c \in Socks \ {s} : up[c]}
<1>1. /\ RestOK /\ PacksOK(packs) /\ ArmedOK(armed)
      /\ Armed(packs, armed, lost) /\ LeftIsNotOwn(packs, up)
  BY ArmInvParts
<1>2. up' = u /\ PublishByTopic(store, pk, ar, live, t, x, q, 0, {})
  BY DEF DropWithWill, Gone
<1>3. up \in [Socks -> BOOLEAN]
  BY <1>1 DEF RestOK
<1>4. Armed(pk, ar, lost) /\ LeftIsNotOwn(pk, u)
  BY <1>1, <1>3, LeftArmed
<1>5. ArmedOK(ar) /\ live \in SUBSET Socks /\ \A c \in live : u[c]
  BY <1>1, <1>3 DEF ArmedOK
<1> HIDE DEF pk, ar, u, live
<1>6. Armed(packs', armed', lost') /\ LeftIsNotOwn(packs', u)
  BY <1>2, <1>4, <1>5, FanOutArmed
<1> QED BY <1>2, <1>6, ArmInvNext

LEMMA PublishArmed ==
  ASSUME ArmInv, CountInv', NEW s \in Socks, NEW t \in Topics, NEW x \in Ids, NEW q \in Qos,
         NEW retain \in BOOLEAN, Publish(s, t, x, q, retain)
  PROVE  ArmInv'
<1> DEFINE p == Answered(packs[s], q, x)
           pk == [packs EXCEPT ![s] = Answered(@, q, x)]
           ar == [armed EXCEPT ![s] = IF q = 0 THEN @ ELSE (@ \ {"read"}) \cup {"write"}]
           live == {c \in Socks : up[c]}
           u == up
<1>1. /\ RestOK /\ PacksOK(packs) /\ ArmedOK(armed)
      /\ Armed(packs, armed, lost) /\ LeftIsNotOwn(packs, up)
  BY ArmInvParts
<1>2. up' = up /\ up[s] /\ \E st, gone : PublishByTopic(st, pk, ar, live, t, x, q, pubs + 1, gone)
  BY DEF Publish, Reads
<1>3. pk[s] = p /\ \A c \in Socks : c # s => pk[c] = packs[c] /\ ar[c] = armed[c]
  BY <1>1 DEF PacksOK, ArmedOK
<1>4. \/ p = packs[s] /\ ar[s] = armed[s]
      \/ "write" \in ar[s]
  BY <1>1 DEF ArmedOK, Answered
<1>5. ArmedOK(ar) /\ live \in SUBSET Socks /\ \A c \in live : u[c]
  BY <1>1 DEF ArmedOK
<1> HIDE DEF p, pk, ar, live
<1>6. Armed(pk, ar, lost) /\ LeftIsNotOwn(pk, u)
  BY <1>1, <1>2, <1>3, <1>4 DEF Armed, LeftIsNotOwn
<1> HIDE DEF u
<1>7. Armed(packs', armed', lost') /\ LeftIsNotOwn(packs', u)
  BY <1>2, <1>5, <1>6, FanOutArmed
<1> QED BY <1>2, <1>7, ArmInvNext DEF u

LEMMA SubscribeArmed ==
  ASSUME ArmInv, CountInv', NEW s \in Socks, NEW t \in Topics, NEW q \in Qos, Subscribe(s, t, q)
  PROVE  ArmInv'
<1>1. PacksOK(packs) /\ ArmedOK(armed) /\ Armed(packs, armed, lost)
  BY ArmInvParts
<1>2. up[s] /\ UNCHANGED <<up, lost>>
  BY DEF Subscribe, Reads
<1>3. CASE UNCHANGED <<packs, armed>>
  BY <1>1, <1>2, <1>3, OneArmed DEF Armed
<1>4. CASE /\ \E e : packs' = [packs EXCEPT ![s] = add_packet_id(@, e)]
           /\ armed' = [armed EXCEPT ![s] = @ \cup {"write"}]
  <2>1. /\ \A c \in Socks : c # s => packs'[c] = packs[c] /\ armed'[c] = armed[c]
        /\ "write" \in armed'[s]
    BY <1>1, <1>4 DEF PacksOK, ArmedOK
  <2> QED BY <1>2, <2>1, OneArmed
<1> QED BY <1>3, <1>4 DEF Subscribe

\* An acknowledgement the entry waited for: no send is given up.
LEMMA AckedArmed ==
  ASSUME ArmInv, CountInv', NEW s \in Socks, NEW x \in Ids,
         Puback(s, x) \/ Pubrec(s, x) \/ Pubcomp(s, x) \/ Pubrel(s, x)
  PROVE  ArmInv'
<1>1. PacksOK(packs) /\ ArmedOK(armed) /\ Armed(packs, armed, lost)
  BY ArmInvParts
<1>2. PICK state, next, event : /\ Acked(s, x, state, next, event)
                                /\ next = "free" \/ event = "write"
  BY DEF Puback, Pubrec, Pubcomp, Pubrel
<1> DEFINE i == First(Waiting(s, state, x))
<1>3. /\ up[s] /\ UNCHANGED <<up, lost>> /\ i \in DOMAIN packs[s]
      /\ packs' = [packs EXCEPT ![s][i] = IF next = "free" THEN FreeEntry ELSE [@ EXCEPT !.state = next]]
      /\ armed' = [armed EXCEPT ![s] = (@ \ {"read"}) \cup {event}]
  BY <1>1, <1>2, WaitingIn DEF Acked, Reads
<1> HIDE DEF i
<1>4. /\ \A c \in Socks : c # s => packs'[c] = packs[c] /\ armed'[c] = armed[c]
      /\ armed'[s] = (armed[s] \ {"read"}) \cup {event}
  BY <1>1, <1>3 DEF PacksOK, ArmedOK
<1>5. CASE event = "write"
  BY <1>3, <1>4, <1>5, OneArmed
<1>6. CASE next = "free"
  <2>1. packs' = [packs EXCEPT ![s][i] = FreeEntry] /\ FreeEntry.id = 0
    BY <1>3, <1>6 DEF FreeEntry
  <2>2. ToSend(packs'[s], lost) => ToSend(packs[s], lost)
    BY <1>1, <1>3, <2>1, Settled DEF ToSend
  <2>3. ToSend(packs'[s], lost) => "write" \in armed'[s]
    BY <1>1, <1>4, <2>2 DEF Armed
  <2> QED BY <1>3, <1>4, <2>3, OneArmed
<1> QED BY <1>2, <1>5, <1>6

\* Sent: what is left of the entry is not to be sent.
LEMMA SentSettles ==
  ASSUME PacksOK(packs), NEW s \in Socks, NEW i \in DOMAIN packs[s], NEW j, NEW q, NEW ok, Sent(s, i, j, q, ok)
  PROVE  /\ \A c \in Socks : c # s => packs'[c] = packs[c]
         /\ \A k, L : Pending(packs'[s], k, L) => k # i /\ Pending(packs[s], k, L)
<1>1. CASE ok /\ q > 0
  <2>1. packs' = [packs EXCEPT ![s][i] = [packs[s][i] EXCEPT !.state = Awaited(q)]]
    BY <1>1 DEF Sent, PacksOK
  <2>2. packs[s][i] \in Slots
    BY DEF PacksOK
  <2>3. [packs[s][i] EXCEPT !.state = Awaited(q)].state = Awaited(q)
    BY <2>2 DEF Slots, Entries, FreeEntry
  <2>4. Awaited(q) \notin SendStates
    BY GetsAreNotSends
  <2> DEFINE e == [packs[s][i] EXCEPT !.state = Awaited(q)]
  <2>5. e.state \notin SendStates /\ packs' = [packs EXCEPT ![s][i] = e]
    BY <2>1, <2>3, <2>4
  <2> HIDE DEF e
  <2> QED BY <2>5, Settled
<1>2. CASE ~(ok /\ q > 0)
  <2>1. packs' = [packs EXCEPT ![s][i] = FreeEntry] /\ FreeEntry.id = 0
    BY <1>2 DEF Sent, FreeEntry
  <2> QED BY <2>1, Settled
<1> QED BY <1>1, <1>2

LEMMA MalformedArmed ==
  ASSUME ArmInv, CountInv', NEW s \in Socks, NEW state, NEW x \in Ids, NEW ok \in BOOLEAN,
         MalformedAck(s, state, x, ok)
  PROVE  ArmInv'
<1>1. PacksOK(packs) /\ ArmedOK(armed) /\ Armed(packs, armed, lost)
  BY ArmInvParts
<1> DEFINE i == First(Waiting(s, state, x))
<1>2. /\ up[s] /\ UNCHANGED <<up, lost>> /\ i \in DOMAIN packs[s]
      /\ \E j, q : Sent(s, i, j, q, ok)
      /\ armed' = [armed EXCEPT ![s] = @ \ {"read"}]
  BY <1>1, WaitingIn DEF MalformedAck, Reads
<1> HIDE DEF i
<1>3. /\ \A c \in Socks : c # s => packs'[c] = packs[c]
      /\ ToSend(packs'[s], lost) => ToSend(packs[s], lost)
  BY <1>1, <1>2, SentSettles DEF ToSend
<1>4. /\ \A c \in Socks : c # s => armed'[c] = armed[c]
      /\ "write" \in armed[s] => "write" \in armed'[s]
  BY <1>1, <1>2 DEF ArmedOK
<1> QED BY <1>1, <1>2, <1>3, <1>4, OneArmed DEF Armed

\* What is still to be sent after an entry was handled comes behind it.
LEMMA HandledArmed ==
  ASSUME ArmInv, CountInv', NEW s \in Socks, Writes(s), Sends(s) # {}, UNCHANGED <<up, lost>>,
         \A c \in Socks : c # s => packs'[c] = packs[c],
         \A k, L : Pending(packs'[s], k, L) => k # First(Sends(s)) /\ Pending(packs[s], k, L),
         armed' = Rearmed(s)
  PROVE  ArmInv'
<1>1. PacksOK(packs) /\ ArmedOK(armed)
  BY ArmInvParts
<1>2. Sends(s) \in SUBSET Nat /\ packs[s] \in Seq(Slots)
  BY <1>1 DEF Sends, PacksOK
<1>3. First(Sends(s)) \in Sends(s) /\ \A k \in Sends(s) : First(Sends(s)) <= k
  BY <1>2, FirstIn
<1>4. ASSUME ToSend(packs'[s], lost) PROVE "write" \in armed'[s]
  <2>1. PICK k : Pending(packs'[s], k, lost)
    BY <1>4 DEF ToSend
  <2>2. k # First(Sends(s)) /\ k \in Sends(s)
    BY <2>1 DEF Pending, Sends
  <2>3. k \in 1..Len(packs[s]) /\ Len(packs[s]) \in Nat /\ First(Sends(s)) \in Nat
    BY <1>2, <1>3, <2>2 DEF Sends
  <2>4. First(Sends(s)) < Len(packs[s])
    BY <1>3, <2>2, <2>3
  <2> QED BY <1>1, <2>4 DEF Rearmed, ArmedOK
<1>5. up[s] /\ \A c \in Socks : c # s => armed'[c] = armed[c]
  BY <1>1 DEF Writes, Rearmed, ArmedOK
<1> QED BY <1>4, <1>5, OneArmed

LEMMA WritePublishArmed ==
  ASSUME ArmInv, CountInv', NEW s \in Socks, NEW ok \in BOOLEAN, WritePublish(s, ok) PROVE ArmInv'
<1> DEFINE i == First(Sends(s))
<1>1. PacksOK(packs)
  BY ArmInvParts
<1>2. i \in DOMAIN packs[s]
  BY <1>1, SendsIn DEF WritePublish
<1>3. \E j, q : Sent(s, i, j, q, ok)
  BY DEF WritePublish
<1>4. /\ \A c \in Socks : c # s => packs'[c] = packs[c]
      /\ \A k, L : Pending(packs'[s], k, L) => k # i /\ Pending(packs[s], k, L)
  <2> HIDE DEF i
  <2> QED BY <1>1, <1>2, <1>3, SentSettles
<1>5. Writes(s) /\ Sends(s) # {} /\ UNCHANGED <<up, lost>> /\ armed' = Rearmed(s)
  BY DEF WritePublish
<1> QED BY <1>4, <1>5, HandledArmed

LEMMA WriteAckArmed ==
  ASSUME ArmInv, CountInv', NEW s \in Socks, NEW ok \in BOOLEAN, WriteAck(s, ok) PROVE ArmInv'
<1> DEFINE i == First(Sends(s))
           f == packs[s][i]
           next == Next_state(f.state)
           e == IF next = "free" THEN FreeEntry ELSE [f EXCEPT !.state = next]
<1>1. PacksOK(packs)
  BY ArmInvParts
<1>2. i \in DOMAIN packs[s] /\ f \in Slots
  BY <1>1, SendsIn DEF WriteAck
<1>3. packs' = [packs EXCEPT ![s][i] = e]
  BY DEF WriteAck
<1>4. e.id = 0 \/ e.state \notin SendStates
  <2>1. next \in {"free", "getpubrel", "getpubcomp"}
    BY DEF Next_state
  <2>2. CASE next = "free"
    BY <2>2 DEF FreeEntry
  <2>3. CASE next # "free"
    <3> HIDE DEF i
    <3>1. [f EXCEPT !.state = next].state = next
      BY <1>2 DEF Slots, Entries, FreeEntry
    <3> QED BY <2>1, <2>3, <3>1, GetsAreNotSends DEF Gets
  <2> QED BY <2>2, <2>3
<1>5. /\ \A c \in Socks : c # s => packs'[c] = packs[c]
      /\ \A k, L : Pending(packs'[s], k, L) => k # i /\ Pending(packs[s], k, L)
  <2> HIDE DEF i, e
  <2> QED BY <1>1, <1>2, <1>3, <1>4, Settled
<1>6. Writes(s) /\ Sends(s) # {} /\ UNCHANGED <<up, lost>> /\ armed' = Rearmed(s)
  BY DEF WriteAck
<1> QED BY <1>5, <1>6, HandledArmed

\* An entry whose message is gone is not one that the counts cover.
LEMMA StoredIfNeeded ==
  ASSUME CountInv, NEW s \in Socks, NEW i \in DOMAIN packs[s], packs[s][i].id \in Ids \ lost,
         packs[s][i].state \in Needy
  PROVE  Found(store, packs[s][i].id) # {}
<1> DEFINE x == packs[s][i].id
<1>1. PacksOK(packs) /\ StoreOK(store) /\ RestOK /\ Covers(packs, retained, store, lost) /\ TopicsOK(retained)
  BY CountInvParts
<1>2. <<s, i>> \in R(packs, x)
  <2>1. i \in 1..MaxEntries
    BY <1>1, Places
  <2> QED BY <2>1 DEF R, Refers
<1>3. Cardinality(R(packs, x)) \in Nat \ {0}
  <2>1. IsFiniteSet(R(packs, x)) /\ Cardinality(R(packs, x)) \in Nat
    BY <1>1, RefsFinite
  <2>2. Cardinality(R(packs, x)) # 0
    BY <1>2, <2>1, FS_EmptySet
  <2> QED BY <2>1, <2>2
<1>4. Cardinality(T(retained, x)) \in Nat
  BY <1>1, FS_CardinalityType DEF TopicsOK
<1>5. Cardinality(U(store, x)) # 0 /\ Cardinality(U(store, x)) \in Nat
  <2> HIDE DEF x
  <2>1. x \in Ids \ lost
    BY DEF x
  <2>2. Cardinality(U(store, x)) \in Nat
    BY UsesFinite
  <2> QED BY <1>1, <1>3, <1>4, <2>1, <2>2 DEF Covers
<1>6. U(store, x) # {}
  BY <1>5, FS_EmptySet
<1>7. PICK n \in U(store, x) : TRUE
  BY <1>6
<1>8. n[1] \in Nodes /\ store[n[1]].id = x
  BY <1>7 DEF U
<1> QED BY <1>1, <1>8 DEF Found, StoreOK

LEMMA WriteNothingArmed ==
  ASSUME ArmInv, CountInv', NEW s \in Socks, WriteNothing(s) PROVE ArmInv'
<1>1. PacksOK(packs) /\ ArmedOK(armed)
  BY ArmInvParts
<1>2. UNCHANGED <<up, packs, lost>> /\ armed' = Rearmed(s) /\ up[s]
  BY DEF WriteNothing, Writes
<1>3. packs[s] \in Seq(Slots) /\ Sends(s) \in SUBSET Nat
  BY <1>1 DEF PacksOK, Sends
<1>4. ASSUME ToSend(packs[s], lost) PROVE "write" \in armed'[s]
  <2> DEFINE f == First(Sends(s))
  <2>1. PICK k : Pending(packs[s], k, lost)
    BY <1>4 DEF ToSend
  <2>2. k \in Sends(s) /\ packs[s][k].id \notin lost
    BY <2>1 DEF Pending, Sends
  <2>3. f \in Sends(s) /\ f <= k
    BY <1>3, <2>2, FirstIn
  <2>4. packs[s][f].state = "sendpublish" /\ Found(store, packs[s][f].id) = {}
    BY <2>2 DEF WriteNothing
  <2>5. k \in 1..Len(packs[s]) /\ Len(packs[s]) \in Nat /\ f \in 1..Len(packs[s])
    BY <1>3, <2>2, <2>3 DEF Sends
  <2>6. f # k
    <3>1. f \in DOMAIN packs[s] /\ packs[s][f].id \in Ids
      BY <1>1, <2>2, SendsIn
    <3>2. packs[s][f].id \in lost
      <4> HIDE DEF f
      <4> QED BY <2>4, <3>1, StoredIfNeeded DEF ArmInv, Needy
    <3> QED BY <2>2, <3>2
  <2>7. f < Len(packs[s])
    BY <2>3, <2>5, <2>6
  <2> QED BY <1>1, <1>2, <2>2, <2>7 DEF Rearmed, ArmedOK
<1>5. \A c \in Socks : c # s => armed'[c] = armed[c]
  BY <1>1, <1>2 DEF Rearmed, ArmedOK
<1> QED BY <1>2, <1>4, <1>5, OneArmed

LEMMA ArmStart == Init => ArmInv
<1> SUFFICES ASSUME Init PROVE ArmInv
  OBVIOUS
<1>1. \A s \in Socks : packs[s] = <<>>
  BY DEF Init
<1>2. Armed(packs, armed, lost) /\ LeftIsNotOwn(packs, up)
  BY <1>1 DEF Armed, ToSend, Pending, LeftIsNotOwn
<1> QED BY <1>2, CountStart, ArmedParts DEF ArmInv

LEMMA ArmStep == ASSUME ArmInv, [Next]_vars PROVE ArmInv'
<1>0. CountInv'
  BY CountStep DEF ArmInv
<1>1. Armed(packs, armed, lost) /\ LeftIsNotOwn(packs, up)
  BY ArmInvParts
<1>2. ASSUME UNCHANGED <<up, armed, packs, lost>> PROVE ArmInv'
  <2>1. Armed(packs', armed', lost') /\ LeftIsNotOwn(packs', up')
    BY <1>1, <1>2
  <2> QED BY <1>0, <2>1, ArmInvNext
<1>3. CASE UNCHANGED vars
  BY <1>2, <1>3 DEF vars
<1>4. ASSUME NEW s \in Socks, Read(s) PROVE ArmInv'
  <2>1. ASSUME NEW t \in Topics, Unsubscribe(s, t) PROVE ArmInv'
    BY <1>2, <2>1 DEF Unsubscribe
  <2> QED BY <1>0, <1>4, <2>1, PublishArmed, SubscribeArmed, AckedArmed, MalformedArmed DEF Read
<1>5. ASSUME NEW s \in Socks, Write(s) PROVE ArmInv'
  BY <1>0, <1>5, WriteNothingArmed, WriteAckArmed, WritePublishArmed DEF Write
<1> QED BY <1>0, <1>3, <1>4, <1>5, ConnectArmed, DropArmed, WillArmed DEF Next

\* On every connection, whatever was queued for it and is not lost has a write
\* event asked for (worker.cpp:127-133, 479-494, 577, 631, 851-855): the
\* event that rearm_events asks for after each write misses no entry, since
\* the entry that was handled came first.
THEOREM WritesAreArmed == Spec => []SendsAreArmed
<1>1. ArmInv => SendsAreArmed
  BY DEF ArmInv
<1>2. Spec => []ArmInv
  BY ArmStart, ArmStep, PTL DEF Spec
<1> QED BY <1>1, <1>2, PTL
=============================================================================
