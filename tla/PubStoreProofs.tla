--------------------------- MODULE PubStoreProofs ---------------------------
(***************************************************************************)
(* What publish_msg_store promises for every set of packet ids, every      *)
(* first and last capacity and every number of holders.                    *)
(***************************************************************************)
EXTENDS PubStore, FiniteSetTheorems, WellFoundedInduction, TLAPS

-----------------------------------------------------------------------------
(* Induction up to a number, said of a set.                                 *)

LEMMA UpTo ==
  ASSUME NEW N \in Nat, NEW S, 0 \in S, \A n \in 0..N : n < N /\ n \in S => n + 1 \in S
  PROVE  \A n \in 0..N : n \in S
<1> DEFINE less == OpToRel(<, Nat)
           B == {n \in 0..N : n \notin S}
<1>1. IsWellFoundedOn(less, Nat) /\ less = {ss \in Nat \X Nat : ss[1] < ss[2]}
  BY NatLessThanWellFounded DEF OpToRel
<1>2. \A a, b \in Nat : a < b => <<a, b>> \in less
  BY <1>1
<1> HIDE DEF less
<1>3. ASSUME B # {} PROVE FALSE
  <2>1. B \in SUBSET Nat
    OBVIOUS
  <2> HIDE DEF B
  <2>2. PICK x \in B : \A y \in B : ~(<<y, x>> \in less)
    BY <1>1, <1>3, <2>1, WFMin
  <2>3. x \in 0..N /\ x \notin S /\ x # 0
    BY <2>2 DEF B
  <2>4. x - 1 \in 0..N /\ x - 1 < x /\ x - 1 < N /\ (x - 1) + 1 = x
    BY <2>3
  <2>5. x - 1 \notin B
    <3>1. <<x - 1, x>> \in less
      BY <1>2, <2>3, <2>4
    <3> QED BY <2>2, <3>1
  <2>6. x - 1 \in S
    BY <2>4, <2>5 DEF B
  <2> QED BY <2>3, <2>4, <2>6
<1> QED BY <1>3

-----------------------------------------------------------------------------
(* Capacities and slots.                                                    *)

Capacity(p) == 2 ^ p
Indexes(p) == 0..(Capacity(p) - 1)
\* What the proofs need to know of 2^p.
Doubles(p) ==
  /\ Capacity(p) \in Nat /\ Capacity(p) >= 2
  /\ p < 16 => Capacity(p + 1) = 2 * Capacity(p)
Shifted(a, p) == a \div 2 ^ (16 - p)
Shifts(p) == \A a \in Nat : a <= 65535 => Shifted(a, p) \in Indexes(p)
Power(p) == Doubles(p) /\ Shifts(p)

LEMMA Powers == \A p \in 1..16 : Power(p)
<1>1. ASSUME NEW p \in 1..16 PROVE Power(p)
  <2>1. CASE p = 1
    BY <2>1 DEF Power, Doubles, Shifts, Shifted, Capacity, Indexes
  <2>2. CASE p = 2
    BY <2>2 DEF Power, Doubles, Shifts, Shifted, Capacity, Indexes
  <2>3. CASE p = 3
    BY <2>3 DEF Power, Doubles, Shifts, Shifted, Capacity, Indexes
  <2>4. CASE p = 4
    BY <2>4 DEF Power, Doubles, Shifts, Shifted, Capacity, Indexes
  <2>5. CASE p = 5
    BY <2>5 DEF Power, Doubles, Shifts, Shifted, Capacity, Indexes
  <2>6. CASE p = 6
    BY <2>6 DEF Power, Doubles, Shifts, Shifted, Capacity, Indexes
  <2>7. CASE p = 7
    BY <2>7 DEF Power, Doubles, Shifts, Shifted, Capacity, Indexes
  <2>8. CASE p = 8
    BY <2>8 DEF Power, Doubles, Shifts, Shifted, Capacity, Indexes
  <2>9. CASE p = 9
    BY <2>9 DEF Power, Doubles, Shifts, Shifted, Capacity, Indexes
  <2>10. CASE p = 10
    BY <2>10 DEF Power, Doubles, Shifts, Shifted, Capacity, Indexes
  <2>11. CASE p = 11
    BY <2>11 DEF Power, Doubles, Shifts, Shifted, Capacity, Indexes
  <2>12. CASE p = 12
    BY <2>12 DEF Power, Doubles, Shifts, Shifted, Capacity, Indexes
  <2>13. CASE p = 13
    BY <2>13 DEF Power, Doubles, Shifts, Shifted, Capacity, Indexes
  <2>14. CASE p = 14
    BY <2>14 DEF Power, Doubles, Shifts, Shifted, Capacity, Indexes
  <2>15. CASE p = 15
    BY <2>15 DEF Power, Doubles, Shifts, Shifted, Capacity, Indexes
  <2>16. CASE p = 16
    BY <2>16 DEF Power, Doubles, Shifts, Shifted, Capacity, Indexes
  <2> QED
    <3>1. \/ p = 1 \/ p = 2 \/ p = 3 \/ p = 4 \/ p = 5 \/ p = 6 \/ p = 7 \/ p = 8
          \/ p = 9 \/ p = 10 \/ p = 11 \/ p = 12 \/ p = 13 \/ p = 14 \/ p = 15 \/ p = 16
      OBVIOUS
    <3> QED BY <3>1, <2>1, <2>2, <2>3, <2>4, <2>5, <2>6, <2>7, <2>8, <2>9, <2>10, <2>11, <2>12, <2>13, <2>14, <2>15, <2>16, Zenon
<1> QED BY <1>1

\* The computation of the code, in 32 bits: 4294967296 is 2^32.
Product(x) == (x * 2654435769) % 4294967296
Shift(n, p) == n \div 2 ^ (32 - p)
CodeHash(x, p) == Shift(Product(x), p)

\* A shift of 32 bits of which the lower 16 do not matter.
Upper(p) ==
  \A n, hi, low \in Nat : low <= 65535 /\ n = hi * 65536 + low => Shift(n, p) = Shifted(hi, p)

LEMMA Uppers == \A p \in 1..16 : Upper(p)
<1>1. ASSUME NEW p \in 1..16 PROVE Upper(p)
  <2>1. CASE p = 1
    BY <2>1 DEF Upper, Shift, Shifted
  <2>2. CASE p = 2
    BY <2>2 DEF Upper, Shift, Shifted
  <2>3. CASE p = 3
    BY <2>3 DEF Upper, Shift, Shifted
  <2>4. CASE p = 4
    BY <2>4 DEF Upper, Shift, Shifted
  <2>5. CASE p = 5
    BY <2>5 DEF Upper, Shift, Shifted
  <2>6. CASE p = 6
    BY <2>6 DEF Upper, Shift, Shifted
  <2>7. CASE p = 7
    BY <2>7 DEF Upper, Shift, Shifted
  <2>8. CASE p = 8
    BY <2>8 DEF Upper, Shift, Shifted
  <2>9. CASE p = 9
    BY <2>9 DEF Upper, Shift, Shifted
  <2>10. CASE p = 10
    BY <2>10 DEF Upper, Shift, Shifted
  <2>11. CASE p = 11
    BY <2>11 DEF Upper, Shift, Shifted
  <2>12. CASE p = 12
    BY <2>12 DEF Upper, Shift, Shifted
  <2>13. CASE p = 13
    BY <2>13 DEF Upper, Shift, Shifted
  <2>14. CASE p = 14
    BY <2>14 DEF Upper, Shift, Shifted
  <2>15. CASE p = 15
    BY <2>15 DEF Upper, Shift, Shifted
  <2>16. CASE p = 16
    BY <2>16 DEF Upper, Shift, Shifted
  <2> QED
    <3>1. \/ p = 1 \/ p = 2 \/ p = 3 \/ p = 4 \/ p = 5 \/ p = 6 \/ p = 7 \/ p = 8
          \/ p = 9 \/ p = 10 \/ p = 11 \/ p = 12 \/ p = 13 \/ p = 14 \/ p = 15 \/ p = 16
      OBVIOUS
    <3> QED BY <3>1, <2>1, <2>2, <2>3, <2>4, <2>5, <2>6, <2>7, <2>8, <2>9, <2>10, <2>11, <2>12, <2>13, <2>14, <2>15, <2>16, Zenon
<1> QED BY <1>1

LEMMA ShiftIs ==
  ASSUME NEW p \in 1..16, NEW n \in Nat, NEW hi \in Nat, NEW low \in Nat, low <= 65535, n = hi * 65536 + low
  PROVE  Shift(n, p) = Shifted(hi, p)
<1>1. Upper(p)
  BY Uppers
<1> QED BY <1>1 DEF Upper

\* knuth_hash as the model computes it is (y * knuth) >> (32 - power_of_cap)
\* of uint32_t (Publishhashmap.hpp:8-13), for every id and capacity.
THEOREM HashIsExact == \A x \in Ids : \A p \in 1..16 : knuth_hash(x, p) = CodeHash(x, p)
<1> SUFFICES ASSUME NEW x \in Ids, NEW p \in 1..16 PROVE knuth_hash(x, p) = CodeHash(x, p)
  OBVIOUS
<1>1. x \in Nat
  BY IdsAssumption
<1> DEFINE lo == x * 31161
           k == lo \div 65536
           b == lo % 65536
           u == k - x * 25033
           a == u % 65536
           m == u \div 65536
<1>2. lo = k * 65536 + b /\ b \in Nat /\ b <= 65535 /\ k \in Int /\ lo \in Nat
  <2>1. lo \in Nat
    BY <1>1
  <2>2. \A n \in Nat : n = (n \div 65536) * 65536 + (n % 65536) /\ n % 65536 \in Nat /\ n % 65536 <= 65535 /\ n \div 65536 \in Int
    OBVIOUS
  <2> QED BY <2>1, <2>2
<1>3. u = m * 65536 + a /\ a \in Nat /\ a <= 65535 /\ m \in Int
  <2>1. u \in Int
    BY <1>1, <1>2
  <2>2. \A n \in Int : n = (n \div 65536) * 65536 + (n % 65536) /\ n % 65536 \in Nat /\ n % 65536 <= 65535 /\ n \div 65536 \in Int
    OBVIOUS
  <2> QED BY <2>1, <2>2
<1>4. lo = x * 31161 /\ u = k - x * 25033
  OBVIOUS
<1>5. knuth_hash(x, p) = Shifted(a, p)
  BY DEF knuth_hash, Shifted
<1> HIDE DEF lo, k, b, u, a, m
\* 2654435769 = 65536 * (65536 - 25033) + 31161
<1>6. x * 2654435769 = (m + x) * 4294967296 + (a * 65536 + b)
  BY <1>1, <1>2, <1>3, <1>4
<1>7. a * 65536 + b \in Nat /\ a * 65536 + b < 4294967296
  BY <1>2, <1>3
<1>8. \A n, r \in Int : 0 <= r /\ r < 4294967296 => (n * 4294967296 + r) % 4294967296 = r
  OBVIOUS
<1>9. Product(x) = a * 65536 + b
  <2>1. m + x \in Int /\ a * 65536 + b \in Int /\ 0 <= a * 65536 + b
    BY <1>1, <1>3, <1>7
  <2> QED BY <1>6, <1>7, <1>8, <2>1 DEF Product
<1>10. CodeHash(x, p) = Shifted(a, p)
  <2> DEFINE n == Product(x)
  <2>2. n = a * 65536 + b /\ n \in Nat /\ a \in Nat /\ b \in Nat /\ b <= 65535
    BY <1>2, <1>3, <1>7, <1>9
  <2> HIDE DEF n
  <2>3. Shift(n, p) = Shifted(a, p)
    BY <2>2, ShiftIs
  <2> QED BY <2>3 DEF CodeHash, n
<1> QED BY <1>5, <1>10

\* The two slots that x may have.
Choices(x, p) == {knuth_hash(x, p), NextSlot(x, p)}

LEMMA CapacityIs ==
  ASSUME NEW p \in 1..16
  PROVE  /\ Capacity(p) \in Nat /\ Capacity(p) >= 2
         /\ p < 16 => Capacity(p + 1) = 2 * Capacity(p)
<1>1. Power(p)
  BY Powers
<1>2. Doubles(p)
  BY <1>1 DEF Power
<1> QED BY <1>2 DEF Doubles

LEMMA ChoicesIn ==
  ASSUME NEW p \in 1..16, NEW x \in Ids PROVE Choices(x, p) \subseteq Indexes(p)
<1>1. knuth_hash(x, p) \in Indexes(p)
  <2> DEFINE a == ((x * 31161) \div 65536 - x * 25033) % 65536
  <2>1. x \in Nat
    BY IdsAssumption
  <2>2. a \in Nat /\ a <= 65535
    <3>1. (x * 31161) \div 65536 \in Int /\ x * 25033 \in Int
      BY <2>1
    <3>2. \A u, v \in Int : (u - v) % 65536 \in Nat /\ (u - v) % 65536 <= 65535
      OBVIOUS
    <3> QED BY <3>1, <3>2
  <2>3. knuth_hash(x, p) = Shifted(a, p)
    BY DEF knuth_hash, Shifted
  <2> HIDE DEF a
  <2>4. Shifts(p)
    BY Powers DEF Power
  <2>5. Shifted(a, p) \in Indexes(p)
    BY <2>2, <2>4 DEF Shifts
  <2> QED BY <2>3, <2>5
<1>2. NextSlot(x, p) \in Indexes(p)
  <2> DEFINE h == knuth_hash(x, p)
             c == Capacity(p)
  <2>1. h \in Nat /\ c \in Nat /\ c >= 2
    BY <1>1, CapacityIs DEF Indexes
  <2>2. NextSlot(x, p) = (h + 1) % c
    BY DEF NextSlot, Capacity
  <2> HIDE DEF h, c
  <2>3. (h + 1) % c \in 0..(c - 1)
    BY <2>1
  <2> QED BY <2>2, <2>3 DEF c, Indexes
<1> QED BY <1>1, <1>2 DEF Choices

-----------------------------------------------------------------------------
(* Tables.                                                                  *)

\* A slot is free and empty, or has an id one of whose two slots it is.
SlotOK(n, i, p) ==
  /\ n \in Nodes
  /\ n.count = 0 => n = Free
  /\ n.count > 0 => n.id \in Ids /\ i \in Choices(n.id, p)
TableOK(t, p) ==
  /\ t = [i \in Indexes(p) |-> t[i]]
  /\ \A i \in Indexes(p) : SlotOK(t[i], i, p)

CopySet(t, x) == {i \in Live(t) : t[i].id = x /\ t[i].full}
CrowdsIn(t, p, y, x) == Choices(y, p) \subseteq Live(t) /\ NextSlot(y, p) \in Choices(x, p)

LEMMA FreeNode ==
  Free \in Nodes /\ Free.count = 0 /\ Free.id = 0 /\ 0 \notin Ids /\ Free.full = FALSE
BY PowersAssumption, IdsAssumption DEF Free, Nodes

LEMMA LiveIn ==
  ASSUME NEW p \in 1..16, NEW t, TableOK(t, p)
  PROVE  /\ Live(t) \subseteq Indexes(p) /\ IsFiniteSet(Live(t)) /\ Cardinality(Live(t)) \in Nat
         /\ \A x : /\ CopySet(t, x) \subseteq Live(t)
                   /\ IsFiniteSet(CopySet(t, x)) /\ Cardinality(CopySet(t, x)) \in Nat
<1>1. Live(t) \subseteq Indexes(p)
  BY DEF Live, TableOK
<1>2. IsFiniteSet(Indexes(p))
  <2>1. 0 \in Int /\ Capacity(p) - 1 \in Int
    BY CapacityIs
  <2> QED BY <2>1, FS_Interval DEF Indexes
<1>3. IsFiniteSet(Live(t))
  BY <1>1, <1>2, FS_Subset
<1>4. \A x : CopySet(t, x) \subseteq Live(t)
  BY DEF CopySet
<1> QED BY <1>1, <1>3, <1>4, FS_Subset, FS_CardinalityType

LEMMA EmptyOK ==
  ASSUME NEW p \in 1..16
  PROVE  /\ TableOK(EmptyTable(p), p) /\ Live(EmptyTable(p)) = {}
         /\ \A x : CopySet(EmptyTable(p), x) = {}
<1> DEFINE t == EmptyTable(p)
<1>1. t = [i \in Indexes(p) |-> Free]
  BY DEF EmptyTable, Indexes, Capacity
<1> HIDE DEF t
<1>2. t = [i \in Indexes(p) |-> t[i]] /\ \A i \in Indexes(p) : t[i] = Free
  BY <1>1
<1>3. \A i : SlotOK(Free, i, p)
  BY FreeNode DEF SlotOK
<1>4. TableOK(t, p)
  BY <1>2, <1>3 DEF TableOK
<1>5. Live(t) = {} /\ \A x : CopySet(t, x) = {}
  BY <1>1, FreeNode DEF Live, CopySet
<1> QED BY <1>4, <1>5 DEF t

\* One slot changes, and stays or becomes taken.
Put(r, t, i, e) == r = [t EXCEPT ![i] = e]
TakenOK(e, i, p) == SlotOK(e, i, p) /\ e.count > 0

LEMMA PutOK ==
  ASSUME NEW p \in 1..16, NEW t, TableOK(t, p), NEW i \in Indexes(p), NEW e, TakenOK(e, i, p),
         NEW r, Put(r, t, i, e)
  PROVE  /\ TableOK(r, p) /\ Live(r) = Live(t) \cup {i}
         /\ r[i] = e /\ \A k \in Indexes(p) : k # i => r[k] = t[k]
         /\ Cardinality(Live(r)) <= Cardinality(Live(t)) + 1
<1>1. r = [k \in Indexes(p) |-> IF k = i THEN e ELSE t[k]]
  BY DEF Put, TableOK
<1>2. r[i] = e /\ \A k \in Indexes(p) : k # i => r[k] = t[k]
  BY <1>1
<1>3. r = [k \in Indexes(p) |-> r[k]]
  BY <1>1
<1>4. TableOK(r, p)
  BY <1>2, <1>3 DEF TableOK, TakenOK
<1>5. DOMAIN r = Indexes(p) /\ DOMAIN t = Indexes(p)
  BY <1>1 DEF TableOK
<1>6. Live(r) = Live(t) \cup {i}
  BY <1>2, <1>5 DEF Live, TakenOK
<1>7. Cardinality(Live(r)) <= Cardinality(Live(t)) + 1
  <2>1. IsFiniteSet(Live(t)) /\ Cardinality(Live(t)) \in Nat
    BY LiveIn
  <2>2. Cardinality(Live(t) \cup {i}) \in {Cardinality(Live(t)), Cardinality(Live(t)) + 1}
    BY <2>1, FS_AddElement
  <2>3. \A c \in Nat : \A d \in {c, c + 1} : d <= c + 1
    OBVIOUS
  <2> QED BY <1>6, <2>1, <2>2, <2>3
<1> QED BY <1>2, <1>4, <1>6, <1>7

\* What add and rehash do to a table: x gets a slot, and whoever loses his is
\* crowded out by x.
LEMMA PlaceIn ==
  ASSUME NEW p \in 1..16, NEW t, TableOK(t, p), NEW x \in Ids
  PROVE  /\ Place(t, p, x) \in Choices(x, p) /\ Place(t, p, x) \in Indexes(p)
         /\ t[Place(t, p, x)].count # 0 => /\ Place(t, p, x) = NextSlot(x, p)
                                           /\ Choices(x, p) \subseteq Live(t)
<1>1. Choices(x, p) \subseteq Indexes(p)
  BY ChoicesIn
<1>2. Place(t, p, x) \in Choices(x, p)
  BY DEF Place, Choices
<1>3. ASSUME t[Place(t, p, x)].count # 0
      PROVE  Place(t, p, x) = NextSlot(x, p) /\ Choices(x, p) \subseteq Live(t)
  <2>1. Place(t, p, x) = NextSlot(x, p) /\ t[knuth_hash(x, p)].count # 0
    BY <1>3 DEF Place
  <2>2. \A i \in Indexes(p) : t[i].count # 0 => i \in Live(t)
    BY DEF TableOK, SlotOK, Live, Nodes
  <2> QED BY <1>1, <1>3, <2>1, <2>2 DEF Choices
<1> QED BY <1>1, <1>2, <1>3

LEMMA PlacedLoses ==
  ASSUME NEW p \in 1..16, NEW t, TableOK(t, p), NEW x \in Ids, NEW e \in Nodes, e.id = x, e.count > 0,
         NEW r, Put(r, t, Place(t, p, x), e)
  PROVE  /\ TableOK(r, p) /\ Live(t) \subseteq Live(r)
         /\ Cardinality(Live(r)) <= Cardinality(Live(t)) + 1
         /\ \A z \in Ids : \/ CrowdsIn(r, p, x, z)
                           \/ /\ CopySet(t, z) \subseteq CopySet(r, z)
                              /\ z = x /\ e.full => \E k \in CopySet(r, z) : k \notin CopySet(t, z)
<1> DEFINE i == Place(t, p, x)
<1>1. /\ i \in Choices(x, p) /\ i \in Indexes(p)
      /\ t[i].count # 0 => i = NextSlot(x, p) /\ Choices(x, p) \subseteq Live(t)
  BY PlaceIn
<1> HIDE DEF i
<1>2. TakenOK(e, i, p)
  BY <1>1 DEF TakenOK, SlotOK, Nodes
<1>3. Put(r, t, i, e)
  BY DEF i
<1>4. /\ TableOK(r, p) /\ Live(r) = Live(t) \cup {i}
      /\ r[i] = e /\ \A k \in Indexes(p) : k # i => r[k] = t[k]
      /\ Cardinality(Live(r)) <= Cardinality(Live(t)) + 1
  <2>1. i \in Indexes(p)
    BY <1>1
  <2>2. TableOK(r, p)
    BY <1>2, <1>3, <2>1, PutOK
  <2>3. Live(r) = Live(t) \cup {i}
    BY <1>2, <1>3, <2>1, PutOK
  <2>4. r[i] = e /\ \A k \in Indexes(p) : k # i => r[k] = t[k]
    BY <1>2, <1>3, <2>1, PutOK
  <2>5. Cardinality(Live(r)) <= Cardinality(Live(t)) + 1
    BY <1>2, <1>3, <2>1, PutOK
  <2> QED BY <2>2, <2>3, <2>4, <2>5
<1>5. Live(t) \subseteq Indexes(p)
  BY LiveIn
<1>6. ASSUME NEW z \in Ids, ~CrowdsIn(r, p, x, z)
      PROVE  /\ CopySet(t, z) \subseteq CopySet(r, z)
             /\ z = x /\ e.full => \E k \in CopySet(r, z) : k \notin CopySet(t, z)
  <2>1. i \notin CopySet(t, z)
    <3>1. SUFFICES ASSUME i \in CopySet(t, z) PROVE FALSE
      OBVIOUS
    <3>2. i \in Live(t) /\ t[i].id = z /\ t[i].count > 0
      BY <3>1 DEF CopySet, Live
    <3>3. i \in Choices(z, p)
      BY <1>1, <3>2 DEF TableOK, SlotOK
    <3>4. i = NextSlot(x, p) /\ Choices(x, p) \subseteq Live(t)
      BY <1>1, <3>2
    <3> QED BY <1>4, <1>6, <3>3, <3>4 DEF CrowdsIn
  <2>2. CopySet(t, z) \subseteq CopySet(r, z)
    BY <1>4, <1>5, <2>1 DEF CopySet
  <2>3. z = x /\ e.full => i \in CopySet(r, z)
    BY <1>4 DEF CopySet
  <2> QED BY <2>1, <2>2, <2>3
<1> QED BY <1>4, <1>6

-----------------------------------------------------------------------------
(* rehash, one slot of the smaller table after the other.                   *)

\* The larger table after slot k of t.
MoveOne(m, t, p, k) ==
  IF t[k].count = 0 THEN m ELSE [m EXCEPT ![Place(m, p + 1, t[k].id)] = t[k]]

\* The larger tables after the first slots, up to n of them.
Moves(f, t, p, n) ==
  /\ f = [k \in 0..n |-> f[k]]
  /\ f[0] = EmptyTable(p + 1)
  /\ \A k \in 1..n : f[k] = MoveOne(f[k - 1], t, p, k - 1)

LEMMA MovesExist ==
  ASSUME NEW t, NEW p, NEW N \in Nat PROVE \E f : Moves(f, t, p, N)
<1> DEFINE S == {n \in 0..N : \E f : Moves(f, t, p, n)}
<1>1. 0 \in S
  <2> DEFINE f == [k \in 0..0 |-> EmptyTable(p + 1)]
  <2>1. Moves(f, t, p, 0)
    BY DEF Moves
  <2> QED BY <2>1
<1>2. ASSUME NEW n \in 0..N, n < N, n \in S PROVE n + 1 \in S
  <2>1. PICK f : Moves(f, t, p, n)
    BY <1>2
  <2> DEFINE g == [k \in 0..(n + 1) |-> IF k = n + 1 THEN MoveOne(f[n], t, p, n) ELSE f[k]]
  <2>2. g = [k \in 0..(n + 1) |-> g[k]] /\ g[n + 1] = MoveOne(f[n], t, p, n) /\ \A k \in 0..n : g[k] = f[k]
    OBVIOUS
  <2> HIDE DEF g
  <2>3. g[0] = EmptyTable(p + 1)
    BY <2>1, <2>2 DEF Moves
  <2>4. ASSUME NEW k \in 1..(n + 1) PROVE g[k] = MoveOne(g[k - 1], t, p, k - 1)
    <3>1. CASE k = n + 1
      <4>1. k - 1 = n /\ n \in 0..n
        BY <3>1
      <4>2. g[n] = f[n]
        BY <2>2, <4>1
      <4> QED BY <2>2, <3>1, <4>1, <4>2
    <3>2. CASE k \in 1..n
      <4>1. k - 1 \in 0..n /\ k \in 0..n
        BY <3>2
      <4> QED BY <2>1, <2>2, <3>2, <4>1 DEF Moves
    <3> QED BY <3>1, <3>2
  <2>5. Moves(g, t, p, n + 1)
    BY <2>2, <2>3, <2>4 DEF Moves
  <2>6. n + 1 \in 0..N
    BY <1>2
  <2> QED BY <2>5, <2>6
<1> HIDE DEF S
<1>3. \A n \in 0..N : n \in S
  BY <1>1, <1>2, UpTo
<1> QED BY <1>3 DEF S

LEMMA RehashedIs ==
  ASSUME NEW t, NEW p \in 1..15
  PROVE  \E f : Moves(f, t, p, Capacity(p)) /\ Rehashed(t, p) = f[Capacity(p)]
<1> DEFINE N == Capacity(p)
           d(m) == [n \in 0..N |->
                     IF n = 0 THEN EmptyTable(p + 1)
                     ELSE IF t[n - 1].count = 0 THEN m[n - 1]
                     ELSE [m[n - 1] EXCEPT ![Place(m[n - 1], p + 1, t[n - 1].id)] = t[n - 1]]]
           moved == CHOOSE m : m = d(m)
<1>1. Rehashed(t, p) = moved[N]
  BY DEF Rehashed, Capacity
<1>2. N \in Nat
  BY CapacityIs
<1>3. PICK f : Moves(f, t, p, N)
  BY <1>2, MovesExist
<1> HIDE DEF N
<1>4. \A m : d(m) = [n \in 0..N |-> IF n = 0 THEN EmptyTable(p + 1) ELSE MoveOne(m[n - 1], t, p, n - 1)]
  BY DEF MoveOne
<1> HIDE DEF d
<1>5. f = d(f)
  <2>1. \A n \in 0..N : f[n] = IF n = 0 THEN EmptyTable(p + 1) ELSE MoveOne(f[n - 1], t, p, n - 1)
    <3> TAKE n \in 0..N
    <3>1. f[0] = EmptyTable(p + 1) /\ \A k \in 1..N : f[k] = MoveOne(f[k - 1], t, p, k - 1)
      BY <1>3 DEF Moves
    <3>2. n = 0 \/ (n # 0 /\ n \in 1..N)
      BY <1>2
    <3> QED BY <3>1, <3>2
  <2>2. f = [n \in 0..N |-> f[n]]
    BY <1>3 DEF Moves
  <2> QED BY <1>4, <2>1, <2>2
<1>6. moved = d(moved)
  BY <1>5
<1> HIDE DEF moved
<1>7. moved = [n \in 0..N |-> IF n = 0 THEN EmptyTable(p + 1) ELSE MoveOne(moved[n - 1], t, p, n - 1)]
  BY <1>4, <1>6
<1>8. Moves(moved, t, p, N)
  <2>1. \A n \in 0..N : moved[n] = IF n = 0 THEN EmptyTable(p + 1) ELSE MoveOne(moved[n - 1], t, p, n - 1)
    BY <1>7
  <2>2. moved[0] = EmptyTable(p + 1)
    BY <1>2, <2>1
  <2>3. \A k \in 1..N : moved[k] = MoveOne(moved[k - 1], t, p, k - 1)
    <3>1. \A k \in 1..N : k \in 0..N /\ k # 0
      BY <1>2
    <3> QED BY <2>1, <3>1
  <2>4. moved = [k \in 0..N |-> moved[k]]
    BY <1>7
  <2> QED BY <2>2, <2>3, <2>4 DEF Moves
<1> QED BY <1>1, <1>8 DEF N

Before(S, n) == {i \in S : i < n}

LEMMA BeforeNext ==
  ASSUME NEW S \in SUBSET Nat, IsFiniteSet(S), NEW n \in Nat
  PROVE  /\ Cardinality(Before(S, n)) \in Nat /\ Cardinality(Before(S, n + 1)) \in Nat
         /\ n \in S => Cardinality(Before(S, n + 1)) = Cardinality(Before(S, n)) + 1
         /\ n \notin S => Cardinality(Before(S, n + 1)) = Cardinality(Before(S, n))
<1>1. Before(S, n) \subseteq S /\ Before(S, n + 1) \subseteq S
  BY DEF Before
<1>2. /\ IsFiniteSet(Before(S, n))
      /\ Cardinality(Before(S, n)) \in Nat /\ Cardinality(Before(S, n + 1)) \in Nat
  BY <1>1, FS_Subset, FS_CardinalityType
<1>0. \A i \in Nat : (i < n + 1 <=> i < n \/ i = n) /\ ~(n < n)
  OBVIOUS
<1>3. CASE n \in S
  <2>1. Before(S, n + 1) = Before(S, n) \cup {n} /\ n \notin Before(S, n)
    <3>1. \A i : i \in S => i \in Nat
      OBVIOUS
    <3>2. \A i : i \in Before(S, n + 1) <=> i \in Before(S, n) \cup {n}
      BY <1>0, <1>3, <3>1 DEF Before
    <3> QED BY <1>0, <3>2 DEF Before
  <2> QED BY <1>2, <1>3, <2>1, FS_AddElement
<1>4. CASE n \notin S
  <2>1. Before(S, n + 1) = Before(S, n)
    <3>1. \A i : i \in S => i \in Nat
      OBVIOUS
    <3>2. \A i : i \in Before(S, n + 1) <=> i \in Before(S, n)
      BY <1>0, <1>4, <3>1 DEF Before
    <3> QED BY <3>2
  <2> QED BY <1>2, <1>4, <2>1
<1> QED BY <1>3, <1>4

\* What holds of the larger table after n slots of t.
MovedOK(m, t, p, n) ==
  /\ TableOK(m, p + 1)
  /\ Cardinality(Live(m)) <= Cardinality(Before(Live(t), n))
  /\ \A z \in Ids : \/ Cardinality(Before(CopySet(t, z), n)) <= Cardinality(CopySet(m, z))
                    \/ \E y \in Ids : CrowdsIn(m, p + 1, y, z)

LEMMA MoreCopies ==
  ASSUME NEW p \in 1..16, NEW t, TableOK(t, p), NEW r, TableOK(r, p), NEW z,
         CopySet(t, z) \subseteq CopySet(r, z)
  PROVE  /\ Cardinality(CopySet(t, z)) <= Cardinality(CopySet(r, z))
         /\ (\E k \in CopySet(r, z) : k \notin CopySet(t, z))
              => Cardinality(CopySet(t, z)) + 1 <= Cardinality(CopySet(r, z))
<1> DEFINE A == CopySet(t, z)
           B == CopySet(r, z)
<1>1. IsFiniteSet(A) /\ IsFiniteSet(B) /\ Cardinality(A) \in Nat /\ Cardinality(B) \in Nat
  BY LiveIn
<1> HIDE DEF A, B
<1>2. A \subseteq B
  BY DEF A, B
<1>3. Cardinality(A) <= Cardinality(B)
  BY <1>1, <1>2, FS_Subset
<1>4. ASSUME NEW k \in B, k \notin A PROVE Cardinality(A) + 1 <= Cardinality(B)
  <2>1. Cardinality(A \cup {k}) = Cardinality(A) + 1
    BY <1>1, <1>4, FS_AddElement
  <2>2. A \cup {k} \subseteq B
    BY <1>2, <1>4
  <2>3. Cardinality(A \cup {k}) <= Cardinality(B)
    BY <1>1, <2>2, FS_Subset
  <2> QED BY <2>1, <2>3
<1> QED BY <1>3, <1>4 DEF A, B

LEMMA OneMoved ==
  ASSUME NEW p \in 1..15, NEW t, TableOK(t, p), NEW k \in Indexes(p), NEW m, MovedOK(m, t, p, k)
  PROVE  MovedOK(MoveOne(m, t, p, k), t, p, k + 1)
<1> DEFINE r == MoveOne(m, t, p, k)
           q == p + 1
           e == t[k]
           x == t[k].id
<1>1. q \in 1..16 /\ p \in 1..16 /\ TableOK(m, q)
  BY DEF MovedOK
<1>2. k \in Nat /\ Indexes(p) \in SUBSET Nat
  BY CapacityIs DEF Indexes
<1>3. Live(t) \in SUBSET Nat /\ IsFiniteSet(Live(t))
  BY <1>1, <1>2, LiveIn
<1>4. \A z : CopySet(t, z) \in SUBSET Nat /\ IsFiniteSet(CopySet(t, z))
  <2>1. \A z : CopySet(t, z) \subseteq Live(t) /\ IsFiniteSet(CopySet(t, z))
    BY <1>1, LiveIn
  <2> QED BY <1>3, <2>1
<1>5. SlotOK(e, k, p) /\ DOMAIN t = Indexes(p)
  BY DEF TableOK
<1>6. CASE e.count = 0
  <2>1. r = m
    BY <1>6 DEF MoveOne
  <2>2. k \notin Live(t) /\ \A z : k \notin CopySet(t, z)
    BY <1>6 DEF Live, CopySet
  <2>3. /\ Cardinality(Before(Live(t), k + 1)) = Cardinality(Before(Live(t), k))
        /\ \A z : Cardinality(Before(CopySet(t, z), k + 1)) = Cardinality(Before(CopySet(t, z), k))
    BY <1>2, <1>3, <1>4, <2>2, BeforeNext
  <2> HIDE DEF r
  <2>4. MovedOK(r, t, p, k + 1)
    BY <2>1, <2>3 DEF MovedOK
  <2> QED BY <2>4 DEF r
<1>7. CASE e.count # 0
  <2>1. e \in Nodes /\ e.count > 0 /\ x \in Ids /\ k \in Live(t)
    BY <1>5, <1>7, PowersAssumption DEF SlotOK, Nodes, Live
  <2>2. Put(r, m, Place(m, q, x), e)
    BY <1>7 DEF MoveOne, Put
  <2> HIDE DEF r, q
  <2>3. /\ TableOK(r, q) /\ Live(m) \subseteq Live(r)
        /\ Cardinality(Live(r)) <= Cardinality(Live(m)) + 1
        /\ \A z \in Ids : \/ CrowdsIn(r, q, x, z)
                          \/ /\ CopySet(m, z) \subseteq CopySet(r, z)
                             /\ z = x /\ e.full => \E i \in CopySet(r, z) : i \notin CopySet(m, z)
    BY <1>1, <2>1, <2>2, PlacedLoses
  <2>4. Cardinality(Live(r)) <= Cardinality(Before(Live(t), k + 1))
    <3>1. Cardinality(Before(Live(t), k + 1)) = Cardinality(Before(Live(t), k)) + 1
      BY <1>2, <1>3, <2>1, BeforeNext
    <3>2. Cardinality(Live(m)) <= Cardinality(Before(Live(t), k))
      BY DEF MovedOK
    <3>3. /\ Cardinality(Live(m)) \in Nat /\ Cardinality(Live(r)) \in Nat
          /\ Cardinality(Before(Live(t), k)) \in Nat
      BY <1>1, <1>2, <1>3, <2>3, LiveIn, BeforeNext
    <3> QED BY <2>3, <3>1, <3>2, <3>3
  <2>5. ASSUME NEW z \in Ids, \A y \in Ids : ~CrowdsIn(r, q, y, z)
        PROVE  Cardinality(Before(CopySet(t, z), k + 1)) <= Cardinality(CopySet(r, z))
    <3>1. \A y \in Ids : ~CrowdsIn(m, q, y, z)
      BY <2>3, <2>5 DEF CrowdsIn
    <3>2. Cardinality(Before(CopySet(t, z), k)) <= Cardinality(CopySet(m, z))
      BY <3>1 DEF MovedOK, q
    <3>3. /\ CopySet(m, z) \subseteq CopySet(r, z)
          /\ z = x /\ e.full => \E i \in CopySet(r, z) : i \notin CopySet(m, z)
      BY <2>1, <2>3, <2>5
    <3>4. /\ Cardinality(CopySet(m, z)) \in Nat /\ Cardinality(CopySet(r, z)) \in Nat
          /\ Cardinality(CopySet(m, z)) <= Cardinality(CopySet(r, z))
          /\ z = x /\ e.full => Cardinality(CopySet(m, z)) + 1 <= Cardinality(CopySet(r, z))
      BY <1>1, <2>3, <3>3, LiveIn, MoreCopies
    <3>5. k \in CopySet(t, z) => z = x /\ e.full
      BY DEF CopySet
    <3>6. /\ Cardinality(Before(CopySet(t, z), k)) \in Nat
          /\ k \in CopySet(t, z) => Cardinality(Before(CopySet(t, z), k + 1)) =
                                      Cardinality(Before(CopySet(t, z), k)) + 1
          /\ k \notin CopySet(t, z) => Cardinality(Before(CopySet(t, z), k + 1)) =
                                         Cardinality(Before(CopySet(t, z), k))
      BY <1>2, <1>4, BeforeNext
    <3> QED BY <3>2, <3>4, <3>5, <3>6
  <2>6. MovedOK(r, t, p, k + 1)
    BY <2>3, <2>4, <2>5 DEF MovedOK, q
  <2> QED BY <2>6 DEF r
<1> QED BY <1>6, <1>7

\* A rehash keeps every publication whose slots nobody crowds, and takes no
\* more slots than were taken.
LEMMA RehashedOK ==
  ASSUME NEW p \in 1..15, NEW t, TableOK(t, p)
  PROVE  /\ TableOK(Rehashed(t, p), p + 1)
         /\ Cardinality(Live(Rehashed(t, p))) <= Cardinality(Live(t))
         /\ \A z \in Ids : \/ Cardinality(CopySet(t, z)) <= Cardinality(CopySet(Rehashed(t, p), z))
                           \/ \E y \in Ids : CrowdsIn(Rehashed(t, p), p + 1, y, z)
<1> DEFINE N == Capacity(p)
<1>1. N \in Nat /\ p \in 1..16 /\ p + 1 \in 1..16
  BY CapacityIs
<1>2. PICK f : Moves(f, t, p, N) /\ Rehashed(t, p) = f[N]
  BY RehashedIs
<1> HIDE DEF N
<1> DEFINE S == {n \in 0..N : MovedOK(f[n], t, p, n)}
<1>3. ASSUME NEW A \in SUBSET Nat PROVE Before(A, 0) = {}
  <2>1. \A i \in Nat : ~(i < 0)
    OBVIOUS
  <2>2. \A i : i \in A => i \in Nat
    OBVIOUS
  <2>3. \A i : i \notin Before(A, 0)
    BY <2>1, <2>2 DEF Before
  <2> QED BY <2>3
<1>4. Live(t) \subseteq Indexes(p) /\ \A z : CopySet(t, z) \subseteq Live(t)
  BY <1>1, LiveIn
<1>5. Indexes(p) \in SUBSET Nat
  BY <1>1 DEF Indexes
<1>6. 0 \in S
  <2>1. f[0] = EmptyTable(p + 1)
    BY <1>2 DEF Moves
  <2>2. /\ TableOK(f[0], p + 1) /\ Live(f[0]) = {} /\ \A z : CopySet(f[0], z) = {}
    BY <1>1, <2>1, EmptyOK
  <2>3. Before(Live(t), 0) = {} /\ \A z : Before(CopySet(t, z), 0) = {}
    BY <1>3, <1>4, <1>5
  <2>4. Cardinality({}) <= Cardinality({})
    BY FS_EmptySet
  <2>5. MovedOK(f[0], t, p, 0)
    BY <2>2, <2>3, <2>4 DEF MovedOK
  <2> QED BY <1>1, <2>5
<1>7. ASSUME NEW n \in 0..N, n < N, n \in S PROVE n + 1 \in S
  <2>1. n \in Indexes(p) /\ n + 1 \in 1..N /\ n + 1 \in 0..N /\ (n + 1) - 1 = n
    BY <1>1, <1>7 DEF Indexes, N
  <2>2. f[n + 1] = MoveOne(f[n], t, p, n)
    <3>1. \A k \in 1..N : f[k] = MoveOne(f[k - 1], t, p, k - 1)
      BY <1>2 DEF Moves
    <3> QED BY <2>1, <3>1
  <2>3. MovedOK(f[n], t, p, n)
    BY <1>7
  <2>4. MovedOK(MoveOne(f[n], t, p, n), t, p, n + 1)
    BY <2>1, <2>3, OneMoved
  <2> QED BY <2>1, <2>2, <2>4
<1> HIDE DEF S
<1>8. \A n \in 0..N : n \in S
  BY <1>1, <1>6, <1>7, UpTo
<1>9. MovedOK(Rehashed(t, p), t, p, N)
  BY <1>1, <1>2, <1>8 DEF S
<1>10. Before(Live(t), N) = Live(t) /\ \A z : Before(CopySet(t, z), N) = CopySet(t, z)
  <2>1. \A i \in Indexes(p) : i < N
    BY <1>1 DEF Indexes, N
  <2> QED BY <1>4, <2>1 DEF Before
<1> QED BY <1>9, <1>10 DEF MovedOK

-----------------------------------------------------------------------------
(* The store.                                                               *)

\* The inductive invariant: a taken slot is one of the two of its id.
StoreInv ==
  /\ power \in InitPower..MaxPower
  /\ TableOK(table, power)
  /\ size \in Nat /\ size <= Capacity(power)
  /\ Cardinality(Live(table)) <= size

LEMMA PowersIn ==
  ASSUME NEW p \in InitPower..MaxPower
  PROVE  p \in 1..16 /\ (p < MaxPower => p \in 1..15 /\ p + 1 \in InitPower..MaxPower)
BY PowersAssumption

LEMMA StoreType == StoreInv => TypeOK
<1> SUFFICES ASSUME StoreInv PROVE TypeOK
  OBVIOUS
<1>1. power \in 1..16
  BY PowersIn DEF StoreInv
<1>2. Slots = Indexes(power) /\ 2 ^ power = Capacity(power)
  BY DEF Slots, Indexes, Capacity
<1>3. table \in [Indexes(power) -> Nodes]
  <2>1. table = [i \in Indexes(power) |-> table[i]] /\ \A i \in Indexes(power) : table[i] \in Nodes
    BY DEF StoreInv, TableOK, SlotOK
  <2> QED BY <2>1
<1>4. Capacity(power) \in Nat
  BY <1>1, CapacityIs
<1>5. size \in 0..Capacity(power)
  BY <1>4 DEF StoreInv
<1> QED BY <1>2, <1>3, <1>5 DEF StoreInv, TypeOK

LEMMA FindIn ==
  ASSUME NEW p \in 1..16, NEW t, TableOK(t, p), NEW x \in Ids, NEW i \in Find(t, p, x)
  PROVE  i \in Indexes(p) /\ t[i].id = x /\ t[i].count > 0 /\ SlotOK(t[i], i, p)
<1>1. i \in Choices(x, p) /\ t[i].id = x
  BY DEF Find, Choices
<1>2. i \in Indexes(p)
  BY <1>1, ChoicesIn
<1>3. SlotOK(t[i], i, p)
  BY <1>2 DEF TableOK
<1>4. t[i].count # 0
  BY <1>1, <1>3, FreeNode DEF SlotOK
<1>5. t[i].count \in Nat
  BY <1>3, PowersAssumption DEF SlotOK, Nodes
<1> QED BY <1>1, <1>2, <1>3, <1>4, <1>5

LEMMA TakenIsFound == StoreInv => LiveIsFound
<1> SUFFICES ASSUME StoreInv, NEW i \in Live(table)
             PROVE  \E j \in Find(table, power, table[i].id) :
                      table[j].count > 0 /\ table[j].id = table[i].id
  BY DEF LiveIsFound
<1> DEFINE x == table[i].id
<1>1. power \in 1..16 /\ TableOK(table, power)
  BY PowersIn DEF StoreInv
<1>2. i \in Indexes(power) /\ table[i].count > 0
  BY <1>1, LiveIn DEF Live
<1>3. x \in Ids /\ i \in Choices(x, power)
  BY <1>1, <1>2 DEF TableOK, SlotOK
<1>4. \E j : j \in Find(table, power, x)
  BY <1>3 DEF Find, Choices
<1> HIDE DEF x
<1>5. PICK j : j \in Find(table, power, x)
  BY <1>4
<1>6. table[j].id = x /\ table[j].count > 0
  BY <1>1, <1>3, <1>5, FindIn
<1> QED BY <1>5, <1>6 DEF x

-----------------------------------------------------------------------------
(* What the steps do.                                                       *)

\* Fewer copies of z, and nobody crowds it in its table.
LosesOpenly(t, r, p, z) ==
  Cardinality(CopySet(r, z)) < Cardinality(CopySet(t, z)) /\ \A y \in Ids : ~CrowdsIn(r, p, y, z)

\* Room for one more, in this table or in a larger one.
LEMMA RoomOK ==
  ASSUME StoreInv, NEW t, NEW p, MakesRoom(t, p)
  PROVE  /\ p \in InitPower..MaxPower /\ TableOK(t, p)
         /\ size + 1 \in Nat /\ size + 1 <= Capacity(p)
         /\ Cardinality(Live(t)) <= size
         /\ \A z \in Ids : ~LosesOpenly(table, t, p, z)
<1>1. power \in 1..16 /\ power \in InitPower..MaxPower /\ TableOK(table, power) /\ size \in Nat
  BY PowersIn DEF StoreInv
<1>2. Capacity(power) \in Nat /\ Capacity(power) >= 2
  BY <1>1, CapacityIs
<1>3. CASE size < 2 ^ power /\ t = table /\ p = power
  <2>1. size < Capacity(power)
    BY <1>3 DEF Capacity
  <2>2. size + 1 <= Capacity(p)
    BY <1>1, <1>2, <1>3, <2>1
  <2>3. \A z : Cardinality(CopySet(table, z)) \in Nat
    BY <1>1, LiveIn
  <2>4. \A z : ~(Cardinality(CopySet(table, z)) < Cardinality(CopySet(table, z)))
    BY <2>3
  <2> QED BY <1>1, <1>3, <2>2, <2>4 DEF StoreInv, LosesOpenly
<1>4. CASE size = 2 ^ power /\ power < MaxPower /\ t = Rehashed(table, power) /\ p = power + 1
  <2>1. power \in 1..15 /\ p \in InitPower..MaxPower /\ p \in 1..16
    BY <1>1, <1>4, PowersIn
  <2>2. size = Capacity(power) /\ Capacity(p) = 2 * Capacity(power)
    <3>1. size = Capacity(power)
      BY <1>4 DEF Capacity
    <3>2. power < 16
      BY <2>1
    <3> QED BY <1>1, <1>4, <3>1, <3>2, CapacityIs
  <2>3. size + 1 \in Nat /\ size + 1 <= Capacity(p)
    BY <1>2, <2>2
  <2>4. /\ TableOK(t, p) /\ Cardinality(Live(t)) <= Cardinality(Live(table))
        /\ \A z \in Ids : \/ Cardinality(CopySet(table, z)) <= Cardinality(CopySet(t, z))
                          \/ \E y \in Ids : CrowdsIn(t, p, y, z)
    BY <1>1, <1>4, <2>1, RehashedOK
  <2>5. /\ Cardinality(Live(t)) \in Nat /\ Cardinality(Live(table)) \in Nat
        /\ \A z : Cardinality(CopySet(t, z)) \in Nat /\ Cardinality(CopySet(table, z)) \in Nat
    BY <1>1, <2>1, <2>4, LiveIn
  <2>6. Cardinality(Live(t)) <= size
    <3>1. Cardinality(Live(table)) <= size
      BY DEF StoreInv
    <3> QED BY <1>1, <2>4, <2>5, <3>1
  <2>7. \A z \in Ids : ~LosesOpenly(table, t, p, z)
    BY <2>4, <2>5 DEF LosesOpenly
  <2> QED BY <2>1, <2>3, <2>4, <2>6, <2>7
<1> QED BY <1>3, <1>4 DEF MakesRoom

\* No step of the second table loses what the first one kept.
LEMMA LosesNext ==
  ASSUME NEW p \in 1..16, NEW q \in 1..16, NEW s, TableOK(s, q), NEW t, TableOK(t, p), NEW r, TableOK(r, p),
         Live(t) \subseteq Live(r), NEW z \in Ids, ~LosesOpenly(s, t, p, z),
         (\E y \in Ids : CrowdsIn(r, p, y, z)) \/ CopySet(t, z) \subseteq CopySet(r, z)
  PROVE  ~LosesOpenly(s, r, p, z)
<1>1. SUFFICES ASSUME LosesOpenly(s, r, p, z) PROVE FALSE
  OBVIOUS
<1>2. \A y \in Ids : ~CrowdsIn(t, p, y, z)
  BY <1>1 DEF LosesOpenly, CrowdsIn
<1>3. CopySet(t, z) \subseteq CopySet(r, z)
  BY <1>1 DEF LosesOpenly
<1>4. Cardinality(CopySet(t, z)) <= Cardinality(CopySet(r, z))
  BY <1>3, MoreCopies
<1>5. ~(Cardinality(CopySet(t, z)) < Cardinality(CopySet(s, z)))
  BY <1>2 DEF LosesOpenly
<1>6. Cardinality(CopySet(r, z)) < Cardinality(CopySet(s, z))
  BY <1>1 DEF LosesOpenly
<1>7. /\ Cardinality(CopySet(s, z)) \in Nat /\ Cardinality(CopySet(t, z)) \in Nat
      /\ Cardinality(CopySet(r, z)) \in Nat
  BY LiveIn
<1> QED BY <1>4, <1>5, <1>6, <1>7

\* What a step owes: the invariant, and that only a release or a crowded slot
\* loses a copy.
StepOK ==
  /\ StoreInv'
  /\ \A z \in Ids : Release(z) \/ ~LosesOpenly(table, table', power', z)

LEMMA AddOK == ASSUME StoreInv, NEW x \in Ids, NEW n \in {1, 2}, Add(x, n) PROVE StepOK
<1> DEFINE e == [id |-> x, count |-> n, full |-> TRUE]
<1>1. PICK t, p : /\ MakesRoom(t, p)
                  /\ table' = [t EXCEPT ![Place(t, p, x)] = e]
                  /\ power' = p /\ size' = size + 1
  BY DEF Add
<1>2. /\ p \in InitPower..MaxPower /\ TableOK(t, p)
      /\ size + 1 \in Nat /\ size + 1 <= Capacity(p)
      /\ Cardinality(Live(t)) <= size
      /\ \A z \in Ids : ~LosesOpenly(table, t, p, z)
  BY <1>1, RoomOK
<1>3. p \in 1..16 /\ power \in 1..16 /\ TableOK(table, power) /\ size \in Nat
  BY <1>2, PowersIn DEF StoreInv
<1>4. e \in Nodes /\ e.id = x /\ e.count > 0
  BY PowersAssumption DEF Nodes
<1> DEFINE r == table'
<1>5. Put(r, t, Place(t, p, x), e)
  BY <1>1 DEF Put
<1> HIDE DEF e, r
<1>6. /\ TableOK(r, p) /\ Live(t) \subseteq Live(r)
      /\ Cardinality(Live(r)) <= Cardinality(Live(t)) + 1
      /\ \A z \in Ids : CrowdsIn(r, p, x, z) \/ CopySet(t, z) \subseteq CopySet(r, z)
  BY <1>2, <1>3, <1>4, <1>5, PlacedLoses
<1>7. \A z \in Ids : ~LosesOpenly(table, r, p, z)
  BY <1>2, <1>3, <1>6, LosesNext
<1>8. Cardinality(Live(r)) <= size + 1
  <2>1. Cardinality(Live(r)) \in Nat /\ Cardinality(Live(t)) \in Nat
    BY <1>2, <1>3, <1>6, LiveIn
  <2> QED BY <1>2, <1>3, <1>6, <2>1
<1> QED BY <1>1, <1>2, <1>6, <1>7, <1>8 DEF StepOK, StoreInv, r

LEMMA AddNoMemoryOK == ASSUME StoreInv, NEW x \in Ids, AddNoMemory(x) PROVE StepOK
<1>1. PICK t, p : /\ MakesRoom(t, p)
                  /\ table' = [t EXCEPT ![Place(t, p, x)].full = FALSE]
                  /\ power' = p /\ size' = size
  BY DEF AddNoMemory
<1>2. /\ p \in InitPower..MaxPower /\ TableOK(t, p)
      /\ size + 1 \in Nat /\ size + 1 <= Capacity(p)
      /\ Cardinality(Live(t)) <= size
      /\ \A z \in Ids : ~LosesOpenly(table, t, p, z)
  BY <1>1, RoomOK
<1>3. p \in 1..16 /\ power \in 1..16 /\ TableOK(table, power) /\ size \in Nat
  BY <1>2, PowersIn DEF StoreInv
<1> DEFINE i == Place(t, p, x)
           e == [t[i] EXCEPT !.full = FALSE]
           r == table'
<1>4. /\ i \in Indexes(p)
      /\ t[i].count # 0 => i = NextSlot(x, p) /\ Choices(x, p) \subseteq Live(t)
  BY <1>2, <1>3, PlaceIn
<1>5. r = [t EXCEPT ![i] = e]
  BY <1>1
<1> HIDE DEF i
<1>6. SlotOK(t[i], i, p) /\ t = [k \in Indexes(p) |-> t[k]]
  BY <1>2, <1>4 DEF TableOK
<1>7. e \in Nodes /\ e.id = t[i].id /\ e.count = t[i].count
  BY <1>6 DEF SlotOK, Nodes
<1>8. size <= Capacity(p)
  <2>1. Capacity(p) \in Nat
    BY <1>3, CapacityIs
  <2> QED BY <1>2, <1>3, <2>1
<1>9. CASE t[i].count = 0
  <2>1. t[i] = Free
    BY <1>6, <1>9 DEF SlotOK
  <2>2. e = Free
    <3>1. Free \in [id : {0}, count : {0}, full : {FALSE}]
      BY DEF Free
    <3>2. e \in [id : {0}, count : {0}, full : {FALSE}]
      BY <2>1, <3>1
    <3> QED BY <3>1, <3>2
  <2>3. r = t
    BY <1>5, <1>6, <2>1, <2>2
  <2> HIDE DEF e
  <2> QED BY <1>1, <1>2, <1>3, <1>8, <2>3 DEF StepOK, StoreInv, r
<1>10. CASE t[i].count # 0
  <2>1. TakenOK(e, i, p)
    BY <1>6, <1>7, <1>10, PowersAssumption DEF TakenOK, SlotOK, Nodes
  <2>2. Put(r, t, i, e)
    BY <1>5 DEF Put
  <2> HIDE DEF e, r
  <2>3. /\ TableOK(r, p) /\ Live(r) = Live(t) \cup {i}
        /\ r[i] = e /\ \A k \in Indexes(p) : k # i => r[k] = t[k]
    BY <1>2, <1>3, <1>4, <2>1, <2>2, PutOK
  <2>4. Choices(x, p) \subseteq Live(t) /\ i = NextSlot(x, p) /\ i \in Choices(x, p)
    BY <1>4, <1>10 DEF Choices
  <2>5. Live(r) = Live(t) /\ Live(t) \subseteq Indexes(p)
    BY <1>2, <1>3, <2>3, <2>4, LiveIn
  <2>6. ASSUME NEW z \in Ids
        PROVE  (\E y \in Ids : CrowdsIn(r, p, y, z)) \/ CopySet(t, z) \subseteq CopySet(r, z)
    <3>1. CASE t[i].id = z
      <4>1. i \in Choices(z, p)
        BY <1>6, <1>7, <1>10, <3>1, PowersAssumption DEF SlotOK, Nodes
      <4> QED BY <2>4, <2>5, <4>1 DEF CrowdsIn
    <3>2. CASE t[i].id # z
      <4>1. \A k \in CopySet(t, z) : k # i /\ k \in Indexes(p) /\ k \in Live(r)
        BY <2>5, <3>2 DEF CopySet
      <4> QED BY <2>3, <4>1 DEF CopySet
    <3> QED BY <3>1, <3>2
  <2>7. \A z \in Ids : ~LosesOpenly(table, r, p, z)
    BY <1>2, <1>3, <2>3, <2>5, <2>6, LosesNext
  <2>8. Cardinality(Live(r)) <= size
    BY <1>2, <2>5
  <2> QED BY <1>1, <1>2, <1>3, <1>8, <2>3, <2>7, <2>8 DEF StepOK, StoreInv, r
<1> QED BY <1>9, <1>10

\* A step that keeps the copies of z.
LEMMA SameCopies ==
  ASSUME StoreInv, NEW r, TableOK(r, power), NEW z \in Ids, CopySet(table, z) \subseteq CopySet(r, z)
  PROVE  ~LosesOpenly(table, r, power, z)
<1>1. power \in 1..16 /\ TableOK(table, power)
  BY PowersIn DEF StoreInv
<1>2. Cardinality(CopySet(table, z)) <= Cardinality(CopySet(r, z))
  BY <1>1, MoreCopies
<1>3. Cardinality(CopySet(table, z)) \in Nat /\ Cardinality(CopySet(r, z)) \in Nat
  BY <1>1, LiveIn
<1> QED BY <1>2, <1>3 DEF LosesOpenly

LEMMA HoldOK == ASSUME StoreInv, NEW x \in Ids, Hold(x) PROVE StepOK
<1>1. PICK i \in Find(table, power, x) :
        /\ table[i].count < MaxCount
        /\ table' = [table EXCEPT ![i].count = @ + 1]
        /\ UNCHANGED <<power, size>>
  BY DEF Hold
<1>2. power \in 1..16 /\ TableOK(table, power)
  BY PowersIn DEF StoreInv
<1>3. /\ i \in Indexes(power) /\ table[i].id = x /\ table[i].count > 0
      /\ SlotOK(table[i], i, power)
  BY <1>2, FindIn
<1> DEFINE e == [table[i] EXCEPT !.count = @ + 1]
           r == table'
<1>4. Put(r, table, i, e)
  BY <1>1 DEF Put
<1>5. e \in Nodes /\ e.id = x /\ e.count > 0 /\ e.full = table[i].full
  BY <1>1, <1>3, PowersAssumption DEF SlotOK, Nodes
<1>6. TakenOK(e, i, power)
  BY <1>3, <1>5 DEF TakenOK, SlotOK, Nodes
<1> HIDE DEF e, r
<1>7. /\ TableOK(r, power) /\ Live(r) = Live(table) \cup {i}
      /\ r[i] = e /\ \A k \in Indexes(power) : k # i => r[k] = table[k]
  BY <1>2, <1>3, <1>4, <1>6, PutOK
<1>8. i \in Live(table) /\ Live(table) \subseteq Indexes(power)
  BY <1>2, <1>3, LiveIn DEF Live, TableOK
<1>9. Live(r) = Live(table)
  BY <1>7, <1>8
<1>10. \A z \in Ids : CopySet(table, z) \subseteq CopySet(r, z)
  BY <1>3, <1>5, <1>7, <1>8, <1>9 DEF CopySet
<1>11. \A z \in Ids : ~LosesOpenly(table, r, power, z)
  BY <1>7, <1>10, SameCopies
<1> QED BY <1>1, <1>7, <1>9, <1>11 DEF StepOK, StoreInv, r

LEMMA ReleaseOK == ASSUME StoreInv, NEW x \in Ids, Release(x) PROVE StepOK
<1>1. PICK i \in Find(table, power, x) :
        /\ table' = [table EXCEPT ![i] = IF table[i].count = 1 THEN Free
                                          ELSE [table[i] EXCEPT !.count = table[i].count - 1]]
        /\ size' = IF table[i].count = 1 THEN size - 1 ELSE size
        /\ power' = power
  BY DEF Release
<1>2. power \in 1..16 /\ TableOK(table, power) /\ size \in Nat /\ Capacity(power) \in Nat
  BY PowersIn, CapacityIs DEF StoreInv
<1>3. /\ i \in Indexes(power) /\ table[i].id = x /\ table[i].count > 0
      /\ SlotOK(table[i], i, power)
  BY <1>2, FindIn
<1>4. i \in Live(table) /\ Live(table) \subseteq Indexes(power) /\ IsFiniteSet(Live(table))
  BY <1>2, <1>3, LiveIn DEF Live, TableOK
<1> DEFINE r == table'
<1>5. CASE table[i].count = 1
  <2>1. r = [k \in Indexes(power) |-> IF k = i THEN Free ELSE table[k]]
    BY <1>1, <1>2, <1>5 DEF TableOK
  <2> HIDE DEF r
  <2>2. r[i] = Free /\ (\A k \in Indexes(power) : k # i => r[k] = table[k]) /\ DOMAIN r = Indexes(power)
    BY <1>3, <2>1
  <2>3. SlotOK(Free, i, power)
    BY FreeNode DEF SlotOK
  <2>4. TableOK(r, power)
    BY <1>2, <2>1, <2>2, <2>3 DEF TableOK
  <2>5. Live(r) = Live(table) \ {i}
    <3>1. DOMAIN table = Indexes(power)
      BY <1>2 DEF TableOK
    <3> QED BY <2>2, <3>1, FreeNode DEF Live
  <2>6. Cardinality(Live(r)) = Cardinality(Live(table)) - 1
    BY <1>4, <2>5, FS_RemoveElement
  <2>7. Cardinality(Live(r)) \in Nat /\ Cardinality(Live(table)) \in Nat
    BY <1>2, <2>4, LiveIn
  <2>8. size - 1 \in Nat /\ size - 1 <= Capacity(power) /\ Cardinality(Live(r)) <= size - 1
    BY <1>2, <2>6, <2>7 DEF StoreInv
  <2>9. \A z \in Ids : z # x => CopySet(table, z) \subseteq CopySet(r, z)
    BY <1>3, <1>4, <2>2, <2>5 DEF CopySet
  <2>10. \A z \in Ids : z # x => ~LosesOpenly(table, r, power, z)
    BY <2>4, <2>9, SameCopies
  <2>11. size' = size - 1
    BY <1>1, <1>5
  <2>12. StoreInv'
    BY <1>1, <2>4, <2>8, <2>11 DEF StoreInv, r
  <2>13. \A z \in Ids : Release(z) \/ ~LosesOpenly(table, table', power', z)
    BY <1>1, <2>10 DEF r
  <2> QED BY <2>12, <2>13 DEF StepOK
<1>6. CASE table[i].count # 1
  <2> DEFINE e == IF table[i].count = 1 THEN Free ELSE [table[i] EXCEPT !.count = table[i].count - 1]
  <2>1. Put(r, table, i, e)
    BY <1>1, Zenon DEF Put
  <2>2. e \in Nodes /\ e.id = x /\ e.count > 0 /\ e.full = table[i].full
    BY <1>3, <1>6, PowersAssumption DEF SlotOK, Nodes
  <2>3. TakenOK(e, i, power)
    BY <1>3, <2>2 DEF TakenOK, SlotOK, Nodes
  <2> HIDE DEF e, r
  <2>4. /\ TableOK(r, power) /\ Live(r) = Live(table) \cup {i}
    BY <1>2, <1>3, <2>1, <2>3, PutOK
  <2>5. r[i] = e /\ \A k \in Indexes(power) : k # i => r[k] = table[k]
    BY <1>2, <1>3, <2>1, <2>3, PutOK
  <2>6. Live(r) = Live(table)
    BY <1>4, <2>4
  <2>7. \A z \in Ids : CopySet(table, z) \subseteq CopySet(r, z)
    BY <1>3, <1>4, <2>2, <2>5, <2>6 DEF CopySet
  <2>8. \A z \in Ids : ~LosesOpenly(table, r, power, z)
    BY <2>4, <2>7, SameCopies
  <2>9. size' = size
    BY <1>1, <1>6
  <2> QED BY <1>1, <2>4, <2>6, <2>8, <2>9 DEF StepOK, StoreInv, r
<1> QED BY <1>5, <1>6

LEMMA StoreStart == Init => StoreInv
<1> SUFFICES ASSUME Init PROVE StoreInv
  OBVIOUS
<1>1. InitPower \in InitPower..MaxPower /\ InitPower \in 1..16
  BY PowersAssumption
<1>2. TableOK(table, power) /\ Live(table) = {}
  BY <1>1, EmptyOK DEF Init
<1>3. Cardinality(Live(table)) = 0
  BY <1>2, FS_EmptySet
<1>4. Capacity(power) \in Nat
  BY <1>1, CapacityIs DEF Init
<1> QED BY <1>1, <1>2, <1>3, <1>4 DEF Init, StoreInv

LEMMA StoreStep == ASSUME StoreInv, [Next]_vars PROVE StoreInv' /\ (Next => StepOK)
<1>1. CASE Next
  <2>1. StepOK
    BY <1>1, AddOK, AddNoMemoryOK, HoldOK, ReleaseOK DEF Next
  <2> QED BY <2>1 DEF StepOK
<1>2. CASE UNCHANGED vars /\ ~Next
  BY <1>2 DEF vars, StoreInv, TableOK, Live
<1> QED BY <1>1, <1>2

LEMMA StoreInvariance == Spec => []StoreInv
<1> QED BY StoreStart, StoreStep, PTL DEF Spec

\* The slots, the capacity and the count stay what they may be, through every
\* growth (Publishhashmap.cpp:36-87): the count never exceeds the capacity.
THEOREM StoreTypes == Spec => []TypeOK
BY StoreInvariance, StoreType, PTL

\* A slot that is taken is one of the two the loops look at for its id, so
\* that a publication somebody holds is found, after any number of growths
\* (Publishhashmap.cpp:42-55, Publishhashmap.hpp:25-38).
THEOREM HeldIsFound == Spec => []LiveIsFound
BY StoreInvariance, TakenIsFound, PTL

\* The count that triggers growth is never below the slots taken
\* (Publishhashmap.cpp:36), though overwriting and growing lose some.
THEOREM GrowsInTime == Spec => []SizeCoversLive
<1>1. StoreInv => SizeCoversLive
  BY DEF StoreInv, SizeCoversLive
<1> QED BY <1>1, StoreInvariance, PTL

\* A copy disappears only when it is released or its slot is the second
\* choice of an id whose first choice was taken, in add or in rehash
\* (Publishhashmap.cpp:42-55): there is no other way to lose a publication.
THEOREM CrowdingLoses == Spec => OnlyCrowdingLoses
<1> DEFINE Kept == \A x \in Ids : Copies(table', x) < Copies(table, x)
                     => Release(x) \/ \E y \in Ids : Crowds(y, x)'
<1>1. ASSUME StoreInv, [Next]_vars PROVE [Kept]_vars
  <2>1. CASE Next
    <3>1. StepOK
      BY <1>1, <2>1, StoreStep
    <3>2. \A x : Copies(table, x) = Cardinality(CopySet(table, x)) /\ Copies(table', x) = Cardinality(CopySet(table', x))
      BY DEF Copies, CopySet
    <3>3. \A x, y : Crowds(y, x)' <=> CrowdsIn(table', power', y, x)
      BY DEF Crowds, CrowdsIn, Choices
    <3>4. Kept
      BY <3>1, <3>2, <3>3 DEF StepOK, LosesOpenly
    <3> QED BY <3>4
  <2>2. CASE UNCHANGED vars
    BY <2>2
  <2> QED BY <1>1, <2>1, <2>2
<1> QED BY <1>1, StoreInvariance, PTL DEF Spec, OnlyCrowdingLoses
=============================================================================
