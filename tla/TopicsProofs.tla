---------------------------- MODULE TopicsProofs ----------------------------
(***************************************************************************)
(* What the topics of a client promise for every set of names, every hash  *)
(* of them and every chain length.  The first part is about myhashmap: a   *)
(* map as the nodes that get finds in it, and what each operation does.    *)
(***************************************************************************)
EXTENDS Topics, FiniteSetTheorems, SequenceTheorems, WellFoundedInduction, TLAPS

NodeType == [key : Keys, qos : Qos \cup {EMPTY_QOS}, deep : BOOLEAN]

-----------------------------------------------------------------------------
(* Chains: nodes of one home, each key once.                                *)

ChainOK(q, c, d) ==
  /\ q \in Seq(NodeType)
  /\ \A i \in DOMAIN q : Hash[q[i].key] % c = d
  /\ \A i, j \in DOMAIN q : q[i].key = q[j].key => i = j

\* n is a node of q.
In(q, n) == \E i \in DOMAIN q : q[i] = n

LEMMA EmptyChain == ASSUME NEW c, NEW d PROVE ChainOK(<<>>, c, d) /\ \A n : ~In(<<>>, n)
BY DEF ChainOK, In

LEMMA AppendChain ==
  ASSUME NEW c, NEW d, NEW q, ChainOK(q, c, d), NEW n \in NodeType, Hash[n.key] % c = d,
         \A i \in DOMAIN q : q[i].key # n.key
  PROVE  /\ ChainOK(Append(q, n), c, d) /\ DOMAIN Append(q, n) = 1..(Len(q) + 1)
         /\ \A x : In(Append(q, n), x) <=> In(q, x) \/ x = n
<1> DEFINE r == Append(q, n)
<1>1. q \in Seq(NodeType)
  BY DEF ChainOK
<1>2. /\ r \in Seq(NodeType) /\ DOMAIN r = DOMAIN q \cup {Len(q) + 1} /\ DOMAIN r = 1..(Len(q) + 1)
      /\ r[Len(q) + 1] = n /\ Len(q) + 1 \notin DOMAIN q
      /\ \A i \in DOMAIN q : r[i] = q[i]
  BY <1>1
<1> HIDE DEF r
<1>3. ChainOK(r, c, d)
  BY <1>2 DEF ChainOK
<1>4. \A x : In(r, x) <=> In(q, x) \/ x = n
  BY <1>2 DEF In
<1> QED BY <1>2, <1>3, <1>4 DEF r

\* The chain without the node at a place.
Without(q, at) == SubSeq(q, 1, at - 1) \o SubSeq(q, at + 1, Len(q))

LEMMA WithoutIs ==
  ASSUME NEW q \in Seq(NodeType), NEW at \in DOMAIN q
  PROVE  /\ Without(q, at) \in Seq(NodeType) /\ DOMAIN Without(q, at) = 1..(Len(q) - 1)
         /\ \A i \in 1..(Len(q) - 1) : Without(q, at)[i] = IF i < at THEN q[i] ELSE q[i + 1]
<1> DEFINE a == SubSeq(q, 1, at - 1)
           b == SubSeq(q, at + 1, Len(q))
<1>1. at \in 1..Len(q) /\ Len(q) \in Nat
  OBVIOUS
<1>2. /\ a \in Seq(NodeType) /\ Len(a) = at - 1 /\ \A i \in 1..(at - 1) : a[i] = q[i]
  <2>1. \A i \in 1..(at - 1) : q[i] \in NodeType
    BY <1>1
  <2>2. 1 \in Int /\ at - 1 \in Int
    BY <1>1
  <2>3. /\ a \in Seq(NodeType) /\ Len(a) = (IF 1 <= at - 1 THEN (at - 1) - 1 + 1 ELSE 0)
        /\ \A i \in 1..((at - 1) - 1 + 1) : a[i] = q[1 + i - 1]
    BY <2>1, <2>2, SubSeqProperties
  <2> HIDE DEF a
  <2> QED BY <1>1, <2>3
<1>3. /\ b \in Seq(NodeType) /\ Len(b) = Len(q) - at /\ \A i \in 1..(Len(q) - at) : b[i] = q[at + i]
  <2>1. \A i \in (at + 1)..Len(q) : q[i] \in NodeType
    BY <1>1
  <2>2. at + 1 \in Int /\ Len(q) \in Int
    BY <1>1
  <2>3. /\ b \in Seq(NodeType) /\ Len(b) = (IF at + 1 <= Len(q) THEN Len(q) - (at + 1) + 1 ELSE 0)
        /\ \A i \in 1..(Len(q) - (at + 1) + 1) : b[i] = q[(at + 1) + i - 1]
    BY <2>1, <2>2, SubSeqProperties
  <2> HIDE DEF b
  <2> QED BY <1>1, <2>3
<1>4. /\ Without(q, at) = a \o b
  BY DEF Without
<1> HIDE DEF a, b
<1>5. /\ a \o b \in Seq(NodeType) /\ Len(a \o b) = Len(q) - 1
      /\ \A i \in 1..(Len(q) - 1) : (a \o b)[i] = IF i <= at - 1 THEN a[i] ELSE b[i - (at - 1)]
  <2>1. /\ a \o b \in Seq(NodeType) /\ Len(a \o b) = Len(a) + Len(b)
        /\ \A i \in 1..(Len(a) + Len(b)) : (a \o b)[i] = IF i <= Len(a) THEN a[i] ELSE b[i - Len(a)]
    BY <1>2, <1>3, ConcatProperties
  <2>2. Len(a) + Len(b) = Len(q) - 1 /\ Len(a) = at - 1
    BY <1>1, <1>2, <1>3
  <2> QED BY <2>1, <2>2
<1>6. ASSUME NEW i \in 1..(Len(q) - 1) PROVE Without(q, at)[i] = IF i < at THEN q[i] ELSE q[i + 1]
  <2>1. CASE i < at
    BY <1>1, <1>2, <1>4, <1>5, <2>1
  <2>2. CASE ~(i < at)
    <3>1. i - (at - 1) \in 1..(Len(q) - at) /\ at + (i - (at - 1)) = i + 1 /\ ~(i <= at - 1)
      BY <1>1, <2>2
    <3> QED BY <1>3, <1>4, <1>5, <2>2, <3>1
  <2> QED BY <2>1, <2>2
<1> QED BY <1>1, <1>4, <1>5, <1>6

LEMMA WithoutChain ==
  ASSUME NEW c, NEW d, NEW q, ChainOK(q, c, d), NEW at \in DOMAIN q
  PROVE  /\ ChainOK(Without(q, at), c, d) /\ DOMAIN Without(q, at) = 1..(Len(q) - 1)
         /\ \A x : In(Without(q, at), x) <=> In(q, x) /\ x.key # q[at].key
<1> DEFINE r == Without(q, at)
<1>1. q \in Seq(NodeType) /\ Len(q) \in Nat /\ at \in 1..Len(q) /\ DOMAIN q = 1..Len(q)
  BY DEF ChainOK
<1>2. /\ r \in Seq(NodeType) /\ DOMAIN r = 1..(Len(q) - 1)
      /\ \A i \in 1..(Len(q) - 1) : r[i] = IF i < at THEN q[i] ELSE q[i + 1]
  BY <1>1, WithoutIs
<1> DEFINE from(i) == IF i < at THEN i ELSE i + 1
<1>3. \A i \in DOMAIN r : from(i) \in DOMAIN q /\ from(i) # at /\ r[i] = q[from(i)]
  BY <1>1, <1>2
<1>4. \A i, j \in DOMAIN r : from(i) = from(j) => i = j
  BY <1>1, <1>2
<1>5. \A k \in DOMAIN q : k # at => \E i \in DOMAIN r : from(i) = k
  <2>1. SUFFICES ASSUME NEW k \in DOMAIN q, k # at PROVE \E i \in DOMAIN r : from(i) = k
    OBVIOUS
  <2>2. CASE k < at
    <3>1. k \in 1..(Len(q) - 1) /\ from(k) = k
      BY <1>1, <2>2
    <3> QED BY <1>2, <3>1
  <2>3. CASE ~(k < at)
    <3>1. k - 1 \in 1..(Len(q) - 1) /\ from(k - 1) = k
      BY <1>1, <2>1, <2>3
    <3> QED BY <1>2, <3>1
  <2> QED BY <2>2, <2>3
<1> HIDE DEF r, from
<1>6. ChainOK(r, c, d)
  BY <1>2, <1>3, <1>4 DEF ChainOK
<1>7. \A x : In(r, x) => In(q, x) /\ x.key # q[at].key
  BY <1>3 DEF In, ChainOK
<1>8. \A x : In(q, x) /\ x.key # q[at].key => In(r, x)
  BY <1>3, <1>5 DEF In
<1> QED BY <1>2, <1>6, <1>7, <1>8 DEF r

\* The node at a place becomes another of its key.
LEMMA ChangedChain ==
  ASSUME NEW c, NEW d, NEW q, ChainOK(q, c, d), NEW at \in DOMAIN q, NEW n \in NodeType, n.key = q[at].key,
         NEW r, r = [i \in DOMAIN q |-> IF i = at THEN n ELSE q[i]]
  PROVE  /\ ChainOK(r, c, d) /\ DOMAIN r = DOMAIN q
         /\ \A x : In(r, x) <=> x = n \/ (In(q, x) /\ x.key # n.key)
<1>1. q \in Seq(NodeType) /\ DOMAIN q = 1..Len(q)
  BY DEF ChainOK
<1>2. r \in Seq(NodeType) /\ DOMAIN r = DOMAIN q
  BY <1>1
<1>3. \A i \in DOMAIN q : r[i] = IF i = at THEN n ELSE q[i]
  OBVIOUS
<1>4. ChainOK(r, c, d)
  BY <1>2, <1>3 DEF ChainOK
<1>5. \A x : In(r, x) <=> x = n \/ (In(q, x) /\ x.key # n.key)
  BY <1>2, <1>3 DEF In, ChainOK
<1> QED BY <1>2, <1>4, <1>5

-----------------------------------------------------------------------------
(* Maps.                                                                    *)

\* A map of c chains.
MapOK(m, c) ==
  /\ c \in Nat \ {0}
  /\ m = [chain |-> m.chain, count |-> m.count]
  /\ m.chain = [d \in 0..(c - 1) |-> m.chain[d]]
  /\ \A d \in 0..(c - 1) : ChainOK(m.chain[d], c, d)
  /\ IsFiniteSet(Positions(m))
  /\ m.count \in Nat /\ Cardinality(Positions(m)) <= m.count

\* What get finds: n, under its key.
Sees(m, c, n) == In(m.chain[Hash[n.key] % c], n)

LEMMA HashIn == ASSUME NEW c \in Nat \ {0}, NEW k \in Keys PROVE Hash[k] % c \in 0..(c - 1)
<1>1. Hash[k] \in Nat
  BY HashAssumption
<1>2. \A a \in Nat : a % c \in 0..(c - 1)
  OBVIOUS
<1> QED BY <1>1, <1>2

LEMMA HomeIs ==
  ASSUME NEW c, NEW m, MapOK(m, c) PROVE Capacity(m) = c /\ \A k : Home(m, k) = Hash[k] % c
<1>1. DOMAIN m.chain = 0..(c - 1) /\ c \in Nat \ {0}
  BY DEF MapOK
<1>2. 0 \in Int /\ c - 1 \in Int
  BY <1>1
<1>3. Cardinality(0..(c - 1)) = IF 0 > c - 1 THEN 0 ELSE (c - 1) - 0 + 1
  BY <1>2, FS_Interval
<1>4. Capacity(m) = c
  BY <1>1, <1>3 DEF Capacity
<1> QED BY <1>4 DEF Home

\* Place, Has and Got, said with Sees.
LEMMA GetIs ==
  ASSUME NEW c, NEW m, MapOK(m, c), NEW k \in Keys
  PROVE  /\ \A i \in DOMAIN m.chain[Hash[k] % c] : m.chain[Hash[k] % c][i].key = k => Place(m, k) = {i}
         /\ Has(m, k) <=> \E n \in NodeType : n.key = k /\ Sees(m, c, n)
         /\ Has(m, k) => /\ Got(m, k) \in NodeType /\ Got(m, k).key = k /\ Sees(m, c, Got(m, k))
                         /\ \E i \in DOMAIN m.chain[Hash[k] % c] :
                              Place(m, k) = {i} /\ Got(m, k) = m.chain[Hash[k] % c][i]
         /\ \A n \in NodeType : n.key = k /\ Sees(m, c, n) => Got(m, k) = n
<1> DEFINE h == Hash[k] % c
           q == m.chain[h]
<1>1. Home(m, k) = h /\ h \in 0..(c - 1)
  BY HomeIs, HashIn DEF MapOK
<1>2. ChainOK(q, c, h)
  BY <1>1 DEF MapOK
<1>3. q \in Seq(NodeType) /\ DOMAIN q \in SUBSET Nat /\ \A i \in DOMAIN q : q[i] \in NodeType
  BY <1>2 DEF ChainOK
<1>4. Place(m, k) = LET S == {i \in DOMAIN q : q[i].key = k} IN {i \in S : \A j \in S : i <= j}
  BY <1>1 DEF Place
<1>5. Got(m, k) = q[CHOOSE i \in Place(m, k) : TRUE]
  BY <1>1 DEF Got
<1>6. \A n : n.key = k => (Sees(m, c, n) <=> In(q, n))
  BY DEF Sees
<1> HIDE DEF q, h
<1>7. \A i \in DOMAIN q : q[i].key = k => Place(m, k) = {i}
  <2>1. SUFFICES ASSUME NEW i \in DOMAIN q, q[i].key = k PROVE Place(m, k) = {i}
    OBVIOUS
  <2>2. {j \in DOMAIN q : q[j].key = k} = {i}
    BY <1>2, <2>1 DEF ChainOK
  <2>3. i <= i
    BY <1>3, <2>1
  <2> QED BY <1>4, <2>2, <2>3
<1>8. \A i \in DOMAIN q : q[i].key = k => Got(m, k) = q[i]
  BY <1>5, <1>7
<1>9. \A i \in Place(m, k) : i \in DOMAIN q /\ q[i].key = k
  BY <1>4
<1>10. Has(m, k) <=> \E i \in DOMAIN q : q[i].key = k
  BY <1>7, <1>9 DEF Has
<1>11. Has(m, k) <=> \E n \in NodeType : n.key = k /\ Sees(m, c, n)
  BY <1>3, <1>6, <1>10 DEF In
<1>12. ASSUME Has(m, k)
       PROVE  /\ Got(m, k) \in NodeType /\ Got(m, k).key = k /\ Sees(m, c, Got(m, k))
              /\ \E i \in DOMAIN q : Place(m, k) = {i} /\ Got(m, k) = q[i]
  <2>1. PICK i \in DOMAIN q : q[i].key = k
    BY <1>10, <1>12
  <2> QED BY <1>3, <1>6, <1>7, <1>8, <2>1 DEF In
<1>13. \A n \in NodeType : n.key = k /\ Sees(m, c, n) => Got(m, k) = n
  BY <1>6, <1>8 DEF In
<1> QED BY <1>7, <1>11, <1>12, <1>13 DEF q, h

\* One chain and the count change.
OneChain(m, h, q, n) == [chain |-> [m.chain EXCEPT ![h] = q], count |-> n]

LEMMA PositionsIs ==
  ASSUME NEW c, NEW m, MapOK(m, c)
  PROVE  \A p : p \in Positions(m) <=> \E d \in 0..(c - 1) : \E i \in DOMAIN m.chain[d] : p = <<d, i>>
<1>1. DOMAIN m.chain = 0..(c - 1)
  BY DEF MapOK
<1> QED BY <1>1 DEF Positions

LEMMA OneChainPositions ==
  ASSUME NEW c, NEW m, MapOK(m, c), NEW h \in 0..(c - 1), NEW q, NEW n
  PROVE  /\ DOMAIN OneChain(m, h, q, n).chain = 0..(c - 1)
         /\ OneChain(m, h, q, n).chain[h] = q
         /\ \A d \in 0..(c - 1) : d # h => OneChain(m, h, q, n).chain[d] = m.chain[d]
         /\ \A p : p \in Positions(OneChain(m, h, q, n)) <=>
                     \/ \E i \in DOMAIN q : p = <<h, i>>
                     \/ p \in Positions(m) /\ p[1] # h
<1> DEFINE ch == OneChain(m, h, q, n).chain
<1>1. /\ DOMAIN ch = 0..(c - 1) /\ ch[h] = q
      /\ \A d \in 0..(c - 1) : d # h => ch[d] = m.chain[d]
  BY DEF MapOK, OneChain
<1>2. Positions(OneChain(m, h, q, n)) = UNION {{<<d, i>> : i \in DOMAIN ch[d]} : d \in DOMAIN ch}
  BY DEF Positions
<1> HIDE DEF ch
<1>3. \A p : p \in Positions(OneChain(m, h, q, n)) <=> \E d \in 0..(c - 1) : \E i \in DOMAIN ch[d] : p = <<d, i>>
  BY <1>1, <1>2
<1>4. \A p : p \in Positions(m) <=> \E d \in 0..(c - 1) : \E i \in DOMAIN m.chain[d] : p = <<d, i>>
  BY PositionsIs
<1>5. \A p : p \in Positions(OneChain(m, h, q, n)) <=>
               \/ \E i \in DOMAIN q : p = <<h, i>>
               \/ p \in Positions(m) /\ p[1] # h
  BY <1>1, <1>3, <1>4
<1> QED BY <1>1, <1>5 DEF ch

LEMMA OneChainOK ==
  ASSUME NEW c, NEW m, MapOK(m, c), NEW h \in 0..(c - 1), NEW q, ChainOK(q, c, h), NEW n \in Nat,
         NEW r, r = OneChain(m, h, q, n), IsFiniteSet(Positions(r)), Cardinality(Positions(r)) <= n
  PROVE  /\ MapOK(r, c) /\ r.count = n
         /\ \A x \in NodeType : Sees(r, c, x) <=> IF Hash[x.key] % c = h THEN In(q, x) ELSE Sees(m, c, x)
<1>1. /\ DOMAIN r.chain = 0..(c - 1) /\ r.chain[h] = q
      /\ \A d \in 0..(c - 1) : d # h => r.chain[d] = m.chain[d]
  BY OneChainPositions
<1>2. r = [chain |-> r.chain, count |-> r.count] /\ r.count = n /\ r.chain = [m.chain EXCEPT ![h] = q]
  BY DEF OneChain
<1>3. r.chain = [d \in 0..(c - 1) |-> r.chain[d]]
  BY <1>2 DEF MapOK
<1>4. \A d \in 0..(c - 1) : ChainOK(r.chain[d], c, d)
  BY <1>1 DEF MapOK
<1>5. MapOK(r, c)
  BY <1>2, <1>3, <1>4 DEF MapOK
<1>6. ASSUME NEW x \in NodeType
      PROVE  Sees(r, c, x) <=> IF Hash[x.key] % c = h THEN In(q, x) ELSE Sees(m, c, x)
  <2>1. Hash[x.key] % c \in 0..(c - 1)
    BY HashIn DEF NodeType, MapOK
  <2> QED BY <1>1, <2>1 DEF Sees
<1> QED BY <1>2, <1>5, <1>6

Edited(m, h, q, n) == [m EXCEPT !.chain[h] = q, !.count = n]

LEMMA OneChainIs ==
  ASSUME NEW c, NEW m, MapOK(m, c), NEW h, NEW q, NEW n PROVE Edited(m, h, q, n) = OneChain(m, h, q, n)
<1> DEFINE a == [m.chain EXCEPT ![h] = q]
           S == {m.chain, a}
           T == {m.count, n}
           r == [m EXCEPT !.chain = a]
<1>1. m \in [chain : S, count : T] /\ a \in S /\ n \in T
  BY DEF MapOK
<1> HIDE DEF S, T, a
<1>2. r = [chain |-> a, count |-> m.count]
  BY <1>1, SMT
<1> HIDE DEF r
<1>3. r \in [chain : S, count : T] /\ r.chain = a
  BY <1>1, <1>2
<1>4. [r EXCEPT !.count = n] = [chain |-> r.chain, count |-> n]
  BY <1>1, <1>3, SMT
<1>5. [r EXCEPT !.count = n] = [chain |-> a, count |-> n]
  BY <1>3, <1>4
<1>6. Edited(m, h, q, n) = [r EXCEPT !.count = n]
  BY Zenon DEF Edited, r, a
<1>7. OneChain(m, h, q, n) = [chain |-> a, count |-> n]
  BY Zenon DEF OneChain, a
<1> QED BY <1>5, <1>6, <1>7, Zenon

\* A node is linked at the end of its chain.
Linked(m, n) == [m EXCEPT !.chain[Home(m, n.key)] = Append(@, n), !.count = @ + 1]

LEMMA LinkedOK ==
  ASSUME NEW c, NEW m, MapOK(m, c), NEW n \in NodeType, ~Has(m, n.key)
  PROVE  /\ MapOK(Linked(m, n), c) /\ Linked(m, n).count = m.count + 1
         /\ Cardinality(Positions(Linked(m, n))) = Cardinality(Positions(m)) + 1
         /\ \A x \in NodeType : Sees(Linked(m, n), c, x) <=> Sees(m, c, x) \/ x = n
<1> DEFINE h == Hash[n.key] % c
           q == m.chain[h]
           r == Linked(m, n)
<1>1. n.key \in Keys /\ Home(m, n.key) = h /\ h \in 0..(c - 1)
  BY HomeIs, HashIn DEF MapOK, NodeType
<1>2. ChainOK(q, c, h)
  BY <1>1 DEF MapOK
<1>3. \A i \in DOMAIN q : q[i].key # n.key
  <2>1. \A i \in DOMAIN q : q[i] \in NodeType
    BY <1>2 DEF ChainOK
  <2>2. \A x \in NodeType : x.key = n.key => ~Sees(m, c, x)
    BY <1>1, GetIs
  <2> QED BY <2>1, <2>2 DEF Sees, In
<1>4. /\ ChainOK(Append(q, n), c, h) /\ DOMAIN Append(q, n) = 1..(Len(q) + 1)
      /\ \A x : In(Append(q, n), x) <=> In(q, x) \/ x = n
  BY <1>2, <1>3, AppendChain
<1>5. r = OneChain(m, h, Append(q, n), m.count + 1)
  <2> DEFINE qq == Append(q, n)
             k == m.count + 1
  <2>1. r = Edited(m, h, qq, k)
    BY <1>1, Zenon DEF Linked, Edited
  <2> HIDE DEF r, h, qq, k
  <2>2. Edited(m, h, qq, k) = OneChain(m, h, qq, k)
    BY OneChainIs
  <2> QED BY <2>1, <2>2, Zenon DEF qq, k
<1> DEFINE new == <<h, Len(q) + 1>>
<1>6. Positions(r) = Positions(m) \cup {new} /\ new \notin Positions(m)
  <2>1. DOMAIN q = 1..Len(q) /\ Len(q) \in Nat
    BY <1>2 DEF ChainOK
  <2>2. \A i : i \in 1..(Len(q) + 1) <=> i \in 1..Len(q) \/ i = Len(q) + 1
    BY <2>1
  <2>3. Len(q) + 1 \notin 1..Len(q)
    BY <2>1
  <2>4. \A p : p \in Positions(m) <=> \E d \in 0..(c - 1) : \E i \in DOMAIN m.chain[d] : p = <<d, i>>
    BY PositionsIs
  <2>5. \A p : p \in Positions(r) <=>
                 \/ \E i \in DOMAIN Append(q, n) : p = <<h, i>>
                 \/ p \in Positions(m) /\ p[1] # h
    <3> HIDE DEF r, h, q, new
    <3> DEFINE qq == Append(q, n)
               k == m.count + 1
    <3>1. r = OneChain(m, h, qq, k)
      BY <1>5
    <3> HIDE DEF qq, k
    <3>2. \A p : p \in Positions(r) <=>
                 \/ \E i \in DOMAIN qq : p = <<h, i>>
                 \/ p \in Positions(m) /\ p[1] # h
      BY <1>1, <3>1, OneChainPositions
    <3> QED BY <3>2 DEF qq
  <2>6. \A p : p \in Positions(m) <=> (\E i \in DOMAIN q : p = <<h, i>>) \/ (p \in Positions(m) /\ p[1] # h)
    BY <1>1, <2>4
  <2> HIDE DEF q, h, r
  <2> QED BY <1>4, <2>1, <2>2, <2>3, <2>5, <2>6
<1>7. IsFiniteSet(Positions(m)) /\ m.count \in Nat /\ Cardinality(Positions(m)) <= m.count
  BY DEF MapOK
<1> HIDE DEF new, r, q, h
<1>8. /\ IsFiniteSet(Positions(r)) /\ Cardinality(Positions(r)) = Cardinality(Positions(m)) + 1
      /\ Cardinality(Positions(r)) <= m.count + 1 /\ m.count + 1 \in Nat
  <2>1. IsFiniteSet(Positions(r)) /\ Cardinality(Positions(r)) = Cardinality(Positions(m)) + 1
    BY <1>6, <1>7, FS_AddElement
  <2>2. Cardinality(Positions(m)) \in Nat
    BY <1>7, FS_CardinalityType
  <2> QED BY <1>7, <2>1, <2>2
<1>9. /\ MapOK(r, c) /\ r.count = m.count + 1
      /\ \A x \in NodeType : Sees(r, c, x) <=> IF Hash[x.key] % c = h THEN In(Append(q, n), x) ELSE Sees(m, c, x)
  BY <1>1, <1>4, <1>5, <1>8, OneChainOK
<1>10. \A x \in NodeType : Sees(r, c, x) <=> Sees(m, c, x) \/ x = n
  BY <1>4, <1>9 DEF Sees, h, q
<1> QED BY <1>8, <1>9, <1>10 DEF r

\* The node of a key is taken out of its chain.
LEMMA ErasedOK ==
  ASSUME NEW c, NEW m, MapOK(m, c), NEW k \in Keys, Has(m, k)
  PROVE  /\ MapOK(erase(m, k), c) /\ erase(m, k).count = m.count - 1
         /\ Cardinality(Positions(erase(m, k))) = Cardinality(Positions(m)) - 1
         /\ \A x \in NodeType : Sees(erase(m, k), c, x) <=> Sees(m, c, x) /\ x.key # k
<1> DEFINE h == Hash[k] % c
           q == m.chain[h]
           r == erase(m, k)
<1>1. Home(m, k) = h /\ h \in 0..(c - 1)
  BY HomeIs, HashIn DEF MapOK
<1>2. ChainOK(q, c, h)
  BY <1>1 DEF MapOK
<1>3. PICK at \in DOMAIN q : Place(m, k) = {at} /\ Got(m, k) = q[at] /\ Got(m, k).key = k
  BY GetIs
<1>4. q[at].key = k
  BY <1>3
<1>5. /\ ChainOK(Without(q, at), c, h) /\ DOMAIN Without(q, at) = 1..(Len(q) - 1)
      /\ \A x : In(Without(q, at), x) <=> In(q, x) /\ x.key # k
  <2> HIDE DEF q, h
  <2> QED BY <1>2, <1>4, WithoutChain
<1>6. r = OneChain(m, h, Without(q, at), m.count - 1)
  <2> DEFINE qq == Without(q, at)
             n == m.count - 1
  <2>1. (CHOOSE i \in Place(m, k) : TRUE) = at
    BY <1>3
  <2>2. r = Edited(m, h, qq, n)
    BY <1>1, <2>1, Zenon DEF erase, Edited, Without
  <2> HIDE DEF r, h, qq, n
  <2>3. Edited(m, h, qq, n) = OneChain(m, h, qq, n)
    BY OneChainIs
  <2> QED BY <2>2, <2>3, Zenon DEF qq, n
<1> DEFINE old == <<h, Len(q)>>
<1>7. Positions(r) = Positions(m) \ {old} /\ old \in Positions(m)
  <2>1. DOMAIN q = 1..Len(q) /\ Len(q) \in Nat /\ at \in 1..Len(q)
    BY <1>2 DEF ChainOK
  <2>2. \A i : i \in 1..(Len(q) - 1) <=> i \in 1..Len(q) /\ i # Len(q)
    BY <2>1
  <2>3. Len(q) \in 1..Len(q)
    BY <2>1
  <2>4. \A p : p \in Positions(m) <=> \E d \in 0..(c - 1) : \E i \in DOMAIN m.chain[d] : p = <<d, i>>
    BY PositionsIs
  <2>5. \A p : p \in Positions(r) <=>
                 \/ \E i \in DOMAIN Without(q, at) : p = <<h, i>>
                 \/ p \in Positions(m) /\ p[1] # h
    <3> HIDE DEF r, h, q, old
    <3> DEFINE qq == Without(q, at)
               n == m.count - 1
    <3>1. r = OneChain(m, h, qq, n)
      BY <1>6
    <3> HIDE DEF qq, n
    <3>2. \A p : p \in Positions(r) <=>
                 \/ \E i \in DOMAIN qq : p = <<h, i>>
                 \/ p \in Positions(m) /\ p[1] # h
      BY <1>1, <3>1, OneChainPositions
    <3> QED BY <3>2 DEF qq
  <2>6. \A p : p \in Positions(m) <=> (\E i \in DOMAIN q : p = <<h, i>>) \/ (p \in Positions(m) /\ p[1] # h)
    BY <1>1, <2>4
  <2> HIDE DEF q, h, r
  <2> QED BY <1>5, <2>1, <2>2, <2>3, <2>5, <2>6
<1>8. IsFiniteSet(Positions(m)) /\ m.count \in Nat /\ Cardinality(Positions(m)) <= m.count
  BY DEF MapOK
<1> HIDE DEF old, r, q, h
<1>9. /\ IsFiniteSet(Positions(r)) /\ Cardinality(Positions(r)) = Cardinality(Positions(m)) - 1
      /\ Cardinality(Positions(r)) <= m.count - 1 /\ m.count - 1 \in Nat
  <2>1. IsFiniteSet(Positions(r)) /\ Cardinality(Positions(r)) = Cardinality(Positions(m)) - 1
    BY <1>7, <1>8, FS_RemoveElement
  <2>2. Cardinality(Positions(m)) \in Nat /\ Cardinality(Positions(r)) \in Nat
    BY <1>8, <2>1, FS_CardinalityType
  <2> QED BY <1>8, <2>1, <2>2
<1>10. /\ MapOK(r, c) /\ r.count = m.count - 1
       /\ \A x \in NodeType : Sees(r, c, x) <=> IF Hash[x.key] % c = h THEN In(Without(q, at), x) ELSE Sees(m, c, x)
  BY <1>1, <1>5, <1>6, <1>9, OneChainOK
<1>11. \A x \in NodeType : Sees(r, c, x) <=> Sees(m, c, x) /\ x.key # k
  BY <1>5, <1>10 DEF Sees, h, q
<1> QED BY <1>9, <1>10, <1>11 DEF r

\* The node of a key becomes another.
EditedChain(m, h, q) == [m EXCEPT !.chain[h] = q]

LEMMA EditedChainIs ==
  ASSUME NEW c, NEW m, MapOK(m, c), NEW h, NEW q PROVE EditedChain(m, h, q) = OneChain(m, h, q, m.count)
<1> DEFINE a == [m.chain EXCEPT ![h] = q]
           S == {m.chain, a}
           T == {m.count}
           r == [m EXCEPT !.chain = a]
<1>1. m \in [chain : S, count : T] /\ a \in S
  BY DEF MapOK
<1> HIDE DEF S, T, a
<1>2. r = [chain |-> a, count |-> m.count]
  BY <1>1, SMT
<1>3. EditedChain(m, h, q) = r
  BY Zenon DEF EditedChain, a
<1>4. OneChain(m, h, q, m.count) = [chain |-> a, count |-> m.count]
  BY Zenon DEF OneChain, a
<1> QED BY <1>2, <1>3, <1>4, Zenon

LEMMA ChangedOK ==
  ASSUME NEW c, NEW m, MapOK(m, c), NEW k \in Keys, Has(m, k), NEW n \in NodeType, n.key = k
  PROVE  /\ MapOK(Changed(m, k, n), c) /\ Changed(m, k, n).count = m.count
         /\ Positions(Changed(m, k, n)) = Positions(m)
         /\ \A x \in NodeType : Sees(Changed(m, k, n), c, x) <=> x = n \/ (Sees(m, c, x) /\ x.key # k)
<1> DEFINE h == Hash[k] % c
           q == m.chain[h]
           r == Changed(m, k, n)
<1>1. Home(m, k) = h /\ h \in 0..(c - 1)
  BY HomeIs, HashIn DEF MapOK
<1>2. ChainOK(q, c, h)
  BY <1>1 DEF MapOK
<1>3. PICK at \in DOMAIN q : Place(m, k) = {at} /\ Got(m, k) = q[at] /\ Got(m, k).key = k
  BY GetIs
<1> DEFINE qq == [i \in DOMAIN q |-> IF i = at THEN n ELSE q[i]]
<1>4. ChainOK(qq, c, h) /\ DOMAIN qq = DOMAIN q /\ \A x : In(qq, x) <=> x = n \/ (In(q, x) /\ x.key # k)
  <2> HIDE DEF q, h
  <2> QED BY <1>2, <1>3, ChangedChain
<1>5. r = OneChain(m, h, qq, m.count)
  <2>1. qq = [i \in DOMAIN q |-> IF i \in Place(m, k) THEN n ELSE q[i]]
    BY <1>3
  <2>2. r = EditedChain(m, h, qq)
    BY <1>1, <2>1, Zenon DEF Changed, EditedChain
  <2> HIDE DEF r, h, qq
  <2> QED BY <2>2, EditedChainIs
<1>6. Positions(r) = Positions(m)
  <2>1. \A p : p \in Positions(m) <=> \E d \in 0..(c - 1) : \E i \in DOMAIN m.chain[d] : p = <<d, i>>
    BY PositionsIs
  <2>2. \A p : p \in Positions(m) <=> (\E i \in DOMAIN q : p = <<h, i>>) \/ (p \in Positions(m) /\ p[1] # h)
    BY <1>1, <2>1
  <2> HIDE DEF r, h, q, qq
  <2>3. \A p : p \in Positions(r) <=>
                 \/ \E i \in DOMAIN qq : p = <<h, i>>
                 \/ p \in Positions(m) /\ p[1] # h
    BY <1>1, <1>5, OneChainPositions
  <2> QED BY <1>4, <2>2, <2>3
<1>7. IsFiniteSet(Positions(m)) /\ m.count \in Nat /\ Cardinality(Positions(m)) <= m.count
  BY DEF MapOK
<1> HIDE DEF r, q, h, qq
<1>8. /\ MapOK(r, c) /\ r.count = m.count
      /\ \A x \in NodeType : Sees(r, c, x) <=> IF Hash[x.key] % c = h THEN In(qq, x) ELSE Sees(m, c, x)
  BY <1>1, <1>4, <1>5, <1>6, <1>7, OneChainOK
<1>9. \A x \in NodeType : Sees(r, c, x) <=> x = n \/ (Sees(m, c, x) /\ x.key # k)
  BY <1>4, <1>8 DEF Sees, h, q
<1> QED BY <1>6, <1>8, <1>9 DEF r

\* A map of c empty chains, whatever it counts.
Emptied(c, n) == [chain |-> EmptyMap(c).chain, count |-> n]

LEMMA EmptiedOK ==
  ASSUME NEW c \in Nat \ {0}, NEW n \in Nat
  PROVE  /\ MapOK(Emptied(c, n), c) /\ Emptied(c, n).count = n /\ Positions(Emptied(c, n)) = {}
         /\ \A x \in NodeType : ~Sees(Emptied(c, n), c, x)
<1> DEFINE r == Emptied(c, n)
<1>1. /\ r.count = n /\ r.chain = [d \in 0..(c - 1) |-> <<>>]
      /\ r = [chain |-> r.chain, count |-> r.count]
  BY DEF Emptied, EmptyMap
<1>2. DOMAIN r.chain = 0..(c - 1) /\ \A d \in 0..(c - 1) : r.chain[d] = <<>>
  BY <1>1
<1> HIDE DEF r
<1>3. Positions(r) = {}
  BY <1>2 DEF Positions
<1>4. IsFiniteSet(Positions(r)) /\ Cardinality(Positions(r)) = 0
  BY <1>3, FS_EmptySet
<1>5. \A d \in 0..(c - 1) : ChainOK(r.chain[d], c, d) /\ \A x : ~In(r.chain[d], x)
  BY <1>2, EmptyChain
<1>6. r.chain = [d \in 0..(c - 1) |-> r.chain[d]]
  BY <1>1, <1>2
<1>7. MapOK(r, c)
  BY <1>1, <1>4, <1>5, <1>6 DEF MapOK
<1>8. \A x \in NodeType : ~Sees(r, c, x)
  <2> TAKE x \in NodeType
  <2>1. Hash[x.key] % c \in 0..(c - 1)
    BY HashIn DEF NodeType
  <2> QED BY <1>5, <2>1 DEF Sees
<1> QED BY <1>1, <1>3, <1>7, <1>8 DEF r

\* What add may leave: the map it got, one with the node in it, or one
\* without any, and that only of a map with more nodes than one chain holds.
LEMMA AddOK ==
  ASSUME NEW c, NEW m, MapOK(m, c), NEW n \in NodeType, ~Has(m, n.key), NEW r \in add(m, n)
  PROVE  \/ r = m
         \/ /\ MapOK(r, c) /\ r.count = m.count + 1
            /\ Cardinality(Positions(r)) = Cardinality(Positions(m)) + 1
            /\ \A x \in NodeType : Sees(r, c, x) <=> Sees(m, c, x) \/ x = n
         \/ /\ m.count + 1 > REHASH_SIZE_TIMES
            /\ \E d : MapOK(r, d) /\ \A x \in NodeType : ~Sees(r, d, x)
<1> DEFINE l == Linked(m, n)
           d == l.count \div 2
<1>1. \/ r = m
      \/ r = l
      \/ Full(l) /\ r = Rehashed(l, d)
  <2>1. add(m, n) = {m, l} \cup {Rehashed(l, l.count \div 2) : x \in
                        {y \in {1} : Full(l) /\ m.chain[Home(m, n.key)] # <<>>}}
    BY Zenon DEF add, Linked
  <2> HIDE DEF l
  <2> QED BY <2>1
<1>2. /\ MapOK(l, c) /\ l.count = m.count + 1
      /\ Cardinality(Positions(l)) = Cardinality(Positions(m)) + 1
      /\ \A x \in NodeType : Sees(l, c, x) <=> Sees(m, c, x) \/ x = n
  BY LinkedOK
<1> HIDE DEF l
<1>3. ASSUME Full(l), r = Rehashed(l, d)
      PROVE  m.count + 1 > REHASH_SIZE_TIMES /\ \E e : MapOK(r, e) /\ \A x \in NodeType : ~Sees(r, e, x)
  <2>1. c \in Nat \ {0} /\ l.count \in Nat /\ Capacity(l) = c /\ REHASH_SIZE_TIMES \in Nat \ {0}
    BY <1>2, HomeIs, HashAssumption DEF MapOK
  <2>2. l.count > c * REHASH_SIZE_TIMES
    BY <1>3, <2>1 DEF Full
  <2>3. \A a, b \in Nat \ {0} : a * b \in Nat /\ a * b >= b
    <3> TAKE a, b \in Nat \ {0}
    <3>1. a - 1 \in Nat /\ a * b = (a - 1) * b + b
      OBVIOUS
    <3>2. \A i, j \in Nat : i * j \in Nat
      OBVIOUS
    <3>3. (a - 1) * b \in Nat
      BY <3>1, <3>2
    <3> QED BY <3>1, <3>3
  <2>4. l.count > REHASH_SIZE_TIMES
    <3>1. c * REHASH_SIZE_TIMES \in Nat /\ c * REHASH_SIZE_TIMES >= REHASH_SIZE_TIMES
      BY <2>1, <2>3
    <3> DEFINE x == c * REHASH_SIZE_TIMES
    <3>2. l.count > x /\ x \in Nat /\ x >= REHASH_SIZE_TIMES
      BY <2>2, <3>1
    <3> HIDE DEF x
    <3> QED BY <2>1, <3>2
  <2>5. l.count >= 2
    BY <2>1, <2>4
  <2>6. \A a \in Nat : a >= 2 => a \div 2 \in Nat \ {0}
    OBVIOUS
  <2>7. d \in Nat \ {0}
    BY <2>1, <2>5, <2>6
  <2> HIDE DEF d
  <2>8. r = Emptied(d, l.count)
    <3>1. r = [l EXCEPT !.chain = EmptyMap(d).chain]
      BY <1>3, Zenon DEF Rehashed
    <3> DEFINE a == EmptyMap(d).chain
               S == {l.chain, a}
               T == {l.count}
    <3>2. l \in [chain : S, count : T] /\ a \in S
      BY <1>2 DEF MapOK
    <3> HIDE DEF a, S, T
    <3>3. [l EXCEPT !.chain = a] = [chain |-> a, count |-> l.count]
      BY <3>2, SMT
    <3> QED BY <3>1, <3>3, Zenon DEF a, Emptied
  <2>9. MapOK(r, d) /\ \A x \in NodeType : ~Sees(r, d, x)
    BY <2>1, <2>7, <2>8, EmptiedOK
  <2> QED BY <1>2, <2>4, <2>9
<1> QED BY <1>1, <1>2, <1>3

-----------------------------------------------------------------------------
(* Maps again, said with the levels kept in them.                           *)

\* Every node of m has its key in u.
Good(m, u) == \E c : MapOK(m, c) /\ \A x \in NodeType : Sees(m, c, x) => x.key \in u

Exact(m) == m.count = Cardinality(Positions(m))

SubIn(m, t) == IF Has(m, t) THEN Got(m, t).qos ELSE EMPTY_QOS

LEMMA SubIs ==
  ASSUME NEW c, NEW m, MapOK(m, c), NEW t \in Keys
  PROVE  /\ \A x \in NodeType : x.key = t /\ Sees(m, c, x) => Has(m, t) /\ SubIn(m, t) = x.qos
         /\ (\A x \in NodeType : x.key = t => ~Sees(m, c, x)) => ~Has(m, t) /\ SubIn(m, t) = EMPTY_QOS
BY GetIs DEF SubIn

LEMMA GoodGot ==
  ASSUME NEW u, NEW m, Good(m, u), NEW k \in Keys, Has(m, k)
  PROVE  Got(m, k) \in NodeType /\ Got(m, k).key = k /\ k \in u
<1>1. PICK c : MapOK(m, c) /\ \A x \in NodeType : Sees(m, c, x) => x.key \in u
  BY DEF Good
<1>2. Got(m, k) \in NodeType /\ Got(m, k).key = k /\ Sees(m, c, Got(m, k))
  BY <1>1, GetIs
<1> QED BY <1>1, <1>2

\* A key for each node: there are no more nodes than keys.
LEMMA NodesPerKey ==
  ASSUME NEW u, NEW m, Good(m, u), IsFiniteSet(u) PROVE Cardinality(Positions(m)) <= Cardinality(u)
<1>1. PICK c : MapOK(m, c) /\ \A x \in NodeType : Sees(m, c, x) => x.key \in u
  BY DEF Good
<1> DEFINE K(p) == m.chain[p[1]][p[2]].key
           f == [p \in Positions(m) |-> K(p)]
<1>2. ASSUME NEW p \in Positions(m)
      PROVE  /\ p[1] \in 0..(c - 1) /\ p[2] \in DOMAIN m.chain[p[1]] /\ p = <<p[1], p[2]>>
             /\ K(p) \in u /\ Hash[K(p)] % c = p[1]
  <2>1. PICK d \in 0..(c - 1) : \E i \in DOMAIN m.chain[d] : p = <<d, i>>
    BY <1>1, PositionsIs
  <2>2. PICK i \in DOMAIN m.chain[d] : p = <<d, i>>
    BY <2>1
  <2>3. ChainOK(m.chain[d], c, d)
    BY <1>1 DEF MapOK
  <2>4. m.chain[d][i] \in NodeType /\ Hash[m.chain[d][i].key] % c = d
    BY <2>3 DEF ChainOK
  <2>5. Sees(m, c, m.chain[d][i])
    BY <2>4 DEF Sees, In
  <2>6. m.chain[d][i].key \in u
    BY <1>1, <2>4, <2>5
  <2> QED BY <2>2, <2>4, <2>6
<1>3. ASSUME NEW p \in Positions(m), NEW o \in Positions(m), K(p) = K(o) PROVE p = o
  <2>1. p[1] = o[1]
    BY <1>2, <1>3
  <2>2. ChainOK(m.chain[p[1]], c, p[1])
    BY <1>1, <1>2 DEF MapOK
  <2>3. p[2] = o[2]
    BY <1>2, <1>3, <2>1, <2>2 DEF ChainOK
  <2>4. p = <<p[1], p[2]>> /\ o = <<o[1], o[2]>>
    BY <1>2
  <2> QED BY <2>1, <2>3, <2>4
<1>4. f \in Injection(Positions(m), u)
  <2>1. f \in [Positions(m) -> u]
    BY <1>2
  <2>2. \A a, b \in Positions(m) : f[a] = f[b] => a = b
    BY <1>3
  <2> HIDE DEF f
  <2> QED BY <2>1, <2>2 DEF Injection, IsInjective
<1>5. IsFiniteSet(Positions(m))
  BY <1>1 DEF MapOK
<1> HIDE DEF f
<1> QED BY <1>4, <1>5, FS_Injection DEF ExistsInjection

LEMMA GoodChanged ==
  ASSUME NEW u, NEW m, Good(m, u), NEW k \in Keys, Has(m, k), NEW n \in NodeType, n.key = k
  PROVE  /\ Good(Changed(m, k, n), u) /\ (Exact(m) => Exact(Changed(m, k, n)))
         /\ \A t \in Keys : SubIn(Changed(m, k, n), t) = IF t = k THEN n.qos ELSE SubIn(m, t)
<1> DEFINE r == Changed(m, k, n)
<1>1. PICK c : MapOK(m, c) /\ \A x \in NodeType : Sees(m, c, x) => x.key \in u
  BY DEF Good
<1>2. /\ MapOK(r, c) /\ r.count = m.count /\ Positions(r) = Positions(m)
      /\ \A x \in NodeType : Sees(r, c, x) <=> x = n \/ (Sees(m, c, x) /\ x.key # k)
  BY <1>1, ChangedOK
<1> HIDE DEF r
<1>3. k \in u
  BY GoodGot
<1>4. Good(r, u)
  BY <1>1, <1>2, <1>3 DEF Good
<1>5. Exact(m) => Exact(r)
  BY <1>2 DEF Exact
<1>6. ASSUME NEW t \in Keys PROVE SubIn(r, t) = IF t = k THEN n.qos ELSE SubIn(m, t)
  <2>1. CASE t = k
    <3>1. Sees(r, c, n)
      BY <1>2
    <3> QED BY <1>2, <2>1, <3>1, SubIs
  <2>2. CASE t # k
    <3>1. \A x \in NodeType : x.key = t => (Sees(r, c, x) <=> Sees(m, c, x))
      BY <1>2, <2>2
    <3>2. CASE \E x \in NodeType : x.key = t /\ Sees(m, c, x)
      BY <1>1, <1>2, <2>2, <3>1, <3>2, SubIs
    <3>3. CASE \A x \in NodeType : x.key = t => ~Sees(m, c, x)
      <4>1. SubIn(m, t) = EMPTY_QOS
        BY <1>1, <3>3, SubIs
      <4>2. \A x \in NodeType : x.key = t => ~Sees(r, c, x)
        BY <3>1, <3>3
      <4>3. SubIn(r, t) = EMPTY_QOS
        BY <1>2, <4>2, SubIs
      <4> QED BY <2>2, <4>1, <4>3
    <3> QED BY <3>2, <3>3
  <2> QED BY <2>1, <2>2
<1> QED BY <1>4, <1>5, <1>6 DEF r

LEMMA GoodErased ==
  ASSUME NEW u, NEW m, Good(m, u), NEW k \in Keys, Has(m, k)
  PROVE  /\ Good(erase(m, k), u) /\ (Exact(m) => Exact(erase(m, k)))
         /\ \A t \in Keys : SubIn(erase(m, k), t) = IF t = k THEN EMPTY_QOS ELSE SubIn(m, t)
<1> DEFINE r == erase(m, k)
<1>1. PICK c : MapOK(m, c) /\ \A x \in NodeType : Sees(m, c, x) => x.key \in u
  BY DEF Good
<1>2. /\ MapOK(r, c) /\ r.count = m.count - 1 /\ Cardinality(Positions(r)) = Cardinality(Positions(m)) - 1
      /\ \A x \in NodeType : Sees(r, c, x) <=> Sees(m, c, x) /\ x.key # k
  BY <1>1, ErasedOK
<1> HIDE DEF r
<1>4. Good(r, u)
  BY <1>1, <1>2 DEF Good
<1>5. Exact(m) => Exact(r)
  BY <1>2 DEF Exact
<1>6. ASSUME NEW t \in Keys PROVE SubIn(r, t) = IF t = k THEN EMPTY_QOS ELSE SubIn(m, t)
  <2>1. CASE t = k
    <3>1. \A x \in NodeType : x.key = t => ~Sees(r, c, x)
      BY <1>2, <2>1
    <3> QED BY <1>2, <2>1, <3>1, SubIs
  <2>2. CASE t # k
    <3>1. \A x \in NodeType : x.key = t => (Sees(r, c, x) <=> Sees(m, c, x))
      BY <1>2, <2>2
    <3>2. CASE \E x \in NodeType : x.key = t /\ Sees(m, c, x)
      BY <1>1, <1>2, <2>2, <3>1, <3>2, SubIs
    <3>3. CASE \A x \in NodeType : x.key = t => ~Sees(m, c, x)
      <4>1. SubIn(m, t) = EMPTY_QOS
        BY <1>1, <3>3, SubIs
      <4>2. \A x \in NodeType : x.key = t => ~Sees(r, c, x)
        BY <3>1, <3>3
      <4>3. SubIn(r, t) = EMPTY_QOS
        BY <1>2, <4>2, SubIs
      <4> QED BY <2>2, <4>1, <4>3
    <3> QED BY <3>2, <3>3
  <2> QED BY <2>1, <2>2
<1> QED BY <1>4, <1>5, <1>6 DEF r

LEMMA GoodEmpty ==
  ASSUME NEW u
  PROVE  /\ Good(EmptyMap(STARTING_CAPACITY), u) /\ Exact(EmptyMap(STARTING_CAPACITY))
         /\ \A t \in Keys : SubIn(EmptyMap(STARTING_CAPACITY), t) = EMPTY_QOS
<1> DEFINE r == EmptyMap(STARTING_CAPACITY)
<1>1. r = Emptied(1, 0)
  BY DEF EmptyMap, Emptied, STARTING_CAPACITY
<1>2. MapOK(r, 1) /\ r.count = 0 /\ Positions(r) = {} /\ \A x \in NodeType : ~Sees(r, 1, x)
  <2> HIDE DEF r
  <2>1. 1 \in Nat \ {0} /\ 0 \in Nat
    OBVIOUS
  <2> QED BY <1>1, <2>1, EmptiedOK
<1> HIDE DEF r
<1>3. Good(r, u)
  BY <1>2 DEF Good
<1>4. Exact(r)
  BY <1>2, FS_EmptySet DEF Exact
<1>5. \A t \in Keys : SubIn(r, t) = EMPTY_QOS
  BY <1>2, SubIs
<1> QED BY <1>3, <1>4, <1>5 DEF r

LEMMA GoodAdd ==
  ASSUME NEW u, IsFiniteSet(u), NEW m, Good(m, u), NEW k \in Keys, ~Has(m, k), NEW r \in add(m, Fresh(k)),
         NEW v, v = u \cup {k}
  PROVE  /\ Good(r, v)
         /\ \/ \A t \in Keys : SubIn(r, t) = SubIn(m, t)
            \/ ~Has(r, k) /\ \A t \in Keys : SubIn(r, t) = EMPTY_QOS
         /\ Cardinality(v) <= REHASH_SIZE_TIMES /\ Exact(m) =>
              Exact(r) /\ \A t \in Keys : SubIn(r, t) = SubIn(m, t)
<1> DEFINE n == Fresh(k)
<1>1. n \in NodeType /\ n.key = k /\ n.qos = EMPTY_QOS
  BY DEF Fresh, NodeType
<1> HIDE DEF n
<1>2. PICK c : MapOK(m, c) /\ \A x \in NodeType : Sees(m, c, x) => x.key \in u
  BY DEF Good
<1>3. \/ r = m
      \/ /\ MapOK(r, c) /\ r.count = m.count + 1
         /\ Cardinality(Positions(r)) = Cardinality(Positions(m)) + 1
         /\ \A x \in NodeType : Sees(r, c, x) <=> Sees(m, c, x) \/ x = n
      \/ /\ m.count + 1 > REHASH_SIZE_TIMES
         /\ \E d : MapOK(r, d) /\ \A x \in NodeType : ~Sees(r, d, x)
  <2>1. r \in add(m, n)
    BY DEF n
  <2> QED BY <1>1, <1>2, <2>1, AddOK
<1>4. CASE r = m
  BY <1>2, <1>4 DEF Good
<1>5. CASE /\ MapOK(r, c) /\ r.count = m.count + 1
           /\ Cardinality(Positions(r)) = Cardinality(Positions(m)) + 1
           /\ \A x \in NodeType : Sees(r, c, x) <=> Sees(m, c, x) \/ x = n
  <2>1. Good(r, v)
    BY <1>1, <1>2, <1>5 DEF Good
  <2>2. Exact(m) => Exact(r)
    BY <1>5 DEF Exact
  <2>3. ASSUME NEW t \in Keys PROVE SubIn(r, t) = SubIn(m, t)
    <3>1. CASE t = k
      <4>1. SubIn(m, t) = EMPTY_QOS
        BY <3>1 DEF SubIn
      <4>2. Sees(r, c, n)
        BY <1>1, <1>5
      <4> QED BY <1>1, <1>5, <3>1, <4>1, <4>2, SubIs
    <3>2. CASE t # k
      <4>1. \A x \in NodeType : x.key = t => (Sees(r, c, x) <=> Sees(m, c, x))
        BY <1>1, <1>5, <3>2
      <4>2. CASE \E x \in NodeType : x.key = t /\ Sees(m, c, x)
        BY <1>2, <1>5, <4>1, <4>2, SubIs
      <4>3. CASE \A x \in NodeType : x.key = t => ~Sees(m, c, x)
        <5>1. SubIn(m, t) = EMPTY_QOS
          BY <1>2, <4>3, SubIs
        <5>2. \A x \in NodeType : x.key = t => ~Sees(r, c, x)
          BY <4>1, <4>3
        <5>3. SubIn(r, t) = EMPTY_QOS
          BY <1>5, <5>2, SubIs
        <5> QED BY <5>1, <5>3
      <4> QED BY <4>2, <4>3
    <3> QED BY <3>1, <3>2
  <2> QED BY <2>1, <2>2, <2>3
<1>6. CASE /\ m.count + 1 > REHASH_SIZE_TIMES
           /\ \E d : MapOK(r, d) /\ \A x \in NodeType : ~Sees(r, d, x)
  <2>1. PICK d : MapOK(r, d) /\ \A x \in NodeType : ~Sees(r, d, x)
    BY <1>6
  <2>2. Good(r, v)
    BY <2>1 DEF Good
  <2>3. ~Has(r, k) /\ \A t \in Keys : SubIn(r, t) = EMPTY_QOS
    BY <2>1, SubIs
  \* With the new node there would be one more node than keys.
  <2>4. ASSUME Cardinality(v) <= REHASH_SIZE_TIMES, Exact(m) PROVE FALSE
    <3> DEFINE l == Linked(m, n)
    <3>1. /\ MapOK(l, c) /\ Cardinality(Positions(l)) = Cardinality(Positions(m)) + 1
          /\ \A x \in NodeType : Sees(l, c, x) <=> Sees(m, c, x) \/ x = n
      BY <1>1, <1>2, LinkedOK
    <3> HIDE DEF l
    <3>2. Good(l, v)
      BY <1>1, <1>2, <3>1 DEF Good
    <3>3. IsFiniteSet(v)
      BY FS_AddElement
    <3>4. Cardinality(Positions(l)) <= Cardinality(v)
      BY <3>2, <3>3, NodesPerKey
    <3>5. Cardinality(v) \in Nat /\ m.count \in Nat /\ REHASH_SIZE_TIMES \in Nat
      BY <1>2, <3>3, FS_CardinalityType, HashAssumption DEF MapOK
    <3>6. m.count = Cardinality(Positions(m))
      BY <2>4 DEF Exact
    <3> QED BY <1>6, <2>4, <3>1, <3>4, <3>5, <3>6
  <2> QED BY <2>2, <2>3, <2>4
<1> QED BY <1>3, <1>4, <1>5, <1>6

-----------------------------------------------------------------------------
(* The topics of a client.                                                  *)

Few == Cardinality(used) <= REHASH_SIZE_TIMES

\* A node is at the level last granted for its name or at none.
OwnLevels == \A f \in Names : MaxQos(f) \in {EMPTY_QOS, told[f]}

\* The inductive invariant.  Of few names the map never counts more nodes
\* than it has, so that it does not grow.
TInv ==
  /\ hung \in BOOLEAN /\ told \in [Names -> Qos \cup {EMPTY_QOS}]
  /\ used \subseteq Keys /\ IsFiniteSet(used)
  /\ Good(kids, used)
  /\ OwnLevels
  /\ Few => Exact(kids) /\ \A t \in Names : MaxQos(t) = told[t]

LEMMA SubIsSub == \A t : MaxQos(t) = SubIn(kids, t)
BY DEF MaxQos, SubIn

LEMMA NamesAreKeys == \A t \in Names : t \in Keys
BY DEF Names

\* The levels kept in m are those kept now, or m keeps none.
SameOrNone(m, k) ==
  \/ \A t \in Keys : SubIn(m, t) = SubIn(kids, t)
  \/ ~Has(m, k) /\ \A t \in Keys : SubIn(m, t) = EMPTY_QOS

LEMMA GoodWithChild ==
  ASSUME TInv, NEW k \in Keys, NEW m \in WithChild(k), NEW u, u = used \cup {k}
  PROVE  /\ u \subseteq Keys /\ IsFiniteSet(u)
         /\ Good(m, u) /\ SameOrNone(m, k)
         /\ Cardinality(u) <= REHASH_SIZE_TIMES =>
              Few /\ Exact(m) /\ \A t \in Keys : SubIn(m, t) = SubIn(kids, t)
<1>1. u \subseteq Keys /\ IsFiniteSet(u)
  BY FS_AddElement DEF TInv
<1>2. Cardinality(u) <= REHASH_SIZE_TIMES => Few
  <2>1. used \subseteq u
    OBVIOUS
  <2>2. Cardinality(used) <= Cardinality(u) /\ Cardinality(used) \in Nat /\ Cardinality(u) \in Nat
    BY <1>1, <2>1, FS_Subset, FS_CardinalityType
  <2> QED BY <2>2, HashAssumption DEF Few
<1>3. IsFiniteSet(used) /\ Good(kids, used) /\ (Few => Exact(kids))
  BY DEF TInv
<1>4. CASE Has(kids, k)
  <2>1. m = kids
    BY <1>4 DEF WithChild
  <2>2. Good(kids, u)
    BY <1>3 DEF Good
  <2> QED BY <1>1, <1>2, <1>3, <2>1, <2>2 DEF SameOrNone
<1>5. CASE ~Has(kids, k)
  <2>1. m \in add(kids, Fresh(k))
    BY <1>5 DEF WithChild
  <2>2. /\ Good(m, u)
        /\ \/ \A t \in Keys : SubIn(m, t) = SubIn(kids, t)
           \/ ~Has(m, k) /\ \A t \in Keys : SubIn(m, t) = EMPTY_QOS
        /\ Cardinality(u) <= REHASH_SIZE_TIMES /\ Exact(kids) =>
              Exact(m) /\ \A t \in Keys : SubIn(m, t) = SubIn(kids, t)
    BY <1>3, <1>5, <2>1, GoodAdd
  <2> QED BY <1>1, <1>2, <1>3, <2>2 DEF SameOrNone
<1> QED BY <1>4, <1>5

\* Everything is forgotten at once.
Emptier ==
  /\ kids' = EmptyMap(STARTING_CAPACITY) /\ told' = [t \in Names |-> EMPTY_QOS] /\ used' = {}
  /\ hung' \in BOOLEAN

LEMMA EmptyInv ==
  ASSUME kids = EmptyMap(STARTING_CAPACITY), told = [t \in Names |-> EMPTY_QOS], used = {}, hung \in BOOLEAN
  PROVE  TInv /\ \A t \in Names : MaxQos(t) = EMPTY_QOS
<1>1. Good(kids, used) /\ Exact(kids) /\ \A t \in Keys : SubIn(kids, t) = EMPTY_QOS
  BY GoodEmpty
<1>2. \A t \in Names : MaxQos(t) = EMPTY_QOS /\ told[t] = EMPTY_QOS
  BY <1>1, SubIsSub, NamesAreKeys
<1>3. IsFiniteSet(used) /\ used \subseteq Keys
  BY FS_EmptySet
<1> QED BY <1>1, <1>2, <1>3 DEF TInv, OwnLevels

LEMMA EmptierInv == ASSUME Emptier PROVE TInv' /\ \A t \in Names : MaxQos(t)' = EMPTY_QOS
<1>1. Good(kids', used') /\ Exact(kids') /\ \A t \in Keys : SubIn(kids', t) = EMPTY_QOS
  BY GoodEmpty DEF Emptier
<1>2. \A t \in Names : MaxQos(t)' = EMPTY_QOS /\ told'[t] = EMPTY_QOS
  BY <1>1, NamesAreKeys DEF Emptier, MaxQos, SubIn
<1>3. IsFiniteSet(used') /\ used' \subseteq Keys
  BY FS_EmptySet DEF Emptier
<1>4. told' \in [Names -> Qos \cup {EMPTY_QOS}] /\ hung' \in BOOLEAN
  BY DEF Emptier
<1>5. TInv'
  BY <1>1, <1>2, <1>3, <1>4 DEF TInv, OwnLevels
<1> QED BY <1>2, <1>5

\* A step that keeps the invariant, said with the levels kept.
LEMMA StepInv ==
  ASSUME hung' \in BOOLEAN, told' \in [Names -> Qos \cup {EMPTY_QOS}],
         used' \subseteq Keys, IsFiniteSet(used'), Good(kids', used'),
         \A t \in Names : SubIn(kids', t) \in {EMPTY_QOS, told'[t]},
         Few' => Exact(kids') /\ \A t \in Names : SubIn(kids', t) = told'[t]
  PROVE  TInv'
BY DEF TInv, OwnLevels, MaxQos, SubIn

-----------------------------------------------------------------------------
(* The steps.  SubMoves: what the abstract set sees of them.                *)

SubMoves ==
  \/ \A t \in Names : SubIn(kids', t) = SubIn(kids, t)
  \/ \A t \in Names : SubIn(kids', t) = EMPTY_QOS
  \/ \E t \in Names, q \in Qos \cup {EMPTY_QOS} :
       \A x \in Names : SubIn(kids', x) = IF x = t THEN q ELSE SubIn(kids, x)

LEMMA SubscribeStep ==
  ASSUME TInv, NEW t \in Names, NEW q \in Qos, Subscribe(t, q) PROVE TInv' /\ SubMoves
<1>1. PICK m \in WithChild(t) :
        IF Has(m, t)
          THEN /\ kids' = Changed(m, t, [Got(m, t) EXCEPT !.qos = q])
               /\ told' = [told EXCEPT ![t] = q]
          ELSE kids' = m /\ UNCHANGED told
  BY DEF Subscribe
<1>2. used' = used \cup {t} /\ hung' = hung
  BY DEF Subscribe
<1>3. /\ hung \in BOOLEAN /\ told \in [Names -> Qos \cup {EMPTY_QOS}] /\ t \in Keys
      /\ \A x \in Names : x \in Keys /\ SubIn(kids, x) \in {EMPTY_QOS, told[x]}
      /\ (Few => \A x \in Names : SubIn(kids, x) = told[x])
  BY SubIsSub, NamesAreKeys DEF TInv, OwnLevels
<1>4. /\ used' \subseteq Keys /\ IsFiniteSet(used') /\ Good(m, used') /\ SameOrNone(m, t)
      /\ Few' => Few /\ Exact(m) /\ \A x \in Keys : SubIn(m, x) = SubIn(kids, x)
  BY <1>1, <1>2, <1>3, GoodWithChild DEF Few
<1>5. CASE Has(m, t)
  <2> DEFINE n == [Got(m, t) EXCEPT !.qos = q]
  <2>1. n \in NodeType /\ n.key = t /\ n.qos = q
    <3>1. Got(m, t) \in NodeType /\ Got(m, t).key = t
      BY <1>3, <1>4, <1>5, GoodGot
    <3> QED BY <3>1 DEF NodeType
  <2>2. kids' = Changed(m, t, n) /\ told' = [told EXCEPT ![t] = q]
    BY <1>1, <1>5
  <2> HIDE DEF n
  <2>3. /\ Good(kids', used') /\ (Exact(m) => Exact(kids'))
        /\ \A x \in Keys : SubIn(kids', x) = IF x = t THEN q ELSE SubIn(m, x)
    BY <1>3, <1>4, <1>5, <2>1, <2>2, GoodChanged
  <2>4. \A x \in Keys : SubIn(m, x) = SubIn(kids, x)
    BY <1>4, <1>5 DEF SameOrNone
  <2>5. \A x \in Names : SubIn(kids', x) = IF x = t THEN q ELSE SubIn(kids, x)
    BY <1>3, <2>3, <2>4
  <2>6. told' \in [Names -> Qos \cup {EMPTY_QOS}] /\ \A x \in Names : told'[x] = IF x = t THEN q ELSE told[x]
    BY <1>3, <2>2
  <2>7. \A x \in Names : SubIn(kids', x) \in {EMPTY_QOS, told'[x]}
    BY <1>3, <2>5, <2>6
  <2>8. Few' => Exact(kids') /\ \A x \in Names : SubIn(kids', x) = told'[x]
    BY <1>3, <1>4, <2>3, <2>5, <2>6
  <2>9. TInv'
    BY <1>2, <1>3, <1>4, <2>3, <2>6, <2>7, <2>8, StepInv
  <2> QED BY <2>5, <2>9 DEF SubMoves
<1>6. CASE ~Has(m, t)
  <2>1. kids' = m /\ told' = told
    BY <1>1, <1>6
  <2>2. \/ \A x \in Names : SubIn(kids', x) = SubIn(kids, x)
        \/ \A x \in Names : SubIn(kids', x) = EMPTY_QOS
    BY <1>3, <1>4, <2>1 DEF SameOrNone
  <2>3. \A x \in Names : SubIn(kids', x) \in {EMPTY_QOS, told'[x]}
    BY <1>3, <2>1, <2>2
  <2>4. Few' => Exact(kids') /\ \A x \in Names : SubIn(kids', x) = told'[x]
    BY <1>3, <1>4, <2>1
  <2>5. TInv'
    BY <1>2, <1>3, <1>4, <2>1, <2>3, <2>4, StepInv
  <2> QED BY <2>2, <2>5 DEF SubMoves
<1> QED BY <1>5, <1>6

LEMMA SubscribeDeepStep ==
  ASSUME TInv, NEW k \in Keys, SubscribeDeep(k) PROVE TInv' /\ SubMoves
<1>1. PICK m \in WithChild(k), chain \in BOOLEAN :
        kids' = IF Has(m, k) THEN Changed(m, k, [Got(m, k) EXCEPT !.deep = @ \/ chain]) ELSE m
  BY DEF SubscribeDeep
<1>2. used' = used \cup {k} /\ hung' = hung /\ told' = told
  BY DEF SubscribeDeep
<1>3. /\ hung \in BOOLEAN /\ told \in [Names -> Qos \cup {EMPTY_QOS}]
      /\ \A x \in Names : x \in Keys /\ SubIn(kids, x) \in {EMPTY_QOS, told[x]}
      /\ (Few => \A x \in Names : SubIn(kids, x) = told[x])
  BY SubIsSub, NamesAreKeys DEF TInv, OwnLevels
<1>4. /\ used' \subseteq Keys /\ IsFiniteSet(used') /\ Good(m, used') /\ SameOrNone(m, k)
      /\ Few' => Few /\ Exact(m) /\ \A x \in Keys : SubIn(m, x) = SubIn(kids, x)
  BY <1>1, <1>2, GoodWithChild DEF Few
<1>5. Good(kids', used') /\ (Exact(m) => Exact(kids')) /\ \A x \in Keys : SubIn(kids', x) = SubIn(m, x)
  <2>1. CASE ~Has(m, k)
    BY <1>1, <1>4, <2>1
  <2>2. CASE Has(m, k)
    <3> DEFINE n == [Got(m, k) EXCEPT !.deep = Got(m, k).deep \/ chain]
    <3>1. Got(m, k) \in NodeType /\ Got(m, k).key = k
      BY <1>4, <2>2, GoodGot
    <3>2. n \in NodeType /\ n.key = k /\ n.qos = Got(m, k).qos
      <4>1. (Got(m, k).deep \/ chain) \in BOOLEAN
        OBVIOUS
      <4> QED BY <3>1, <4>1 DEF NodeType
    <3>3. kids' = Changed(m, k, n)
      BY <1>1, <2>2
    <3> HIDE DEF n
    <3>4. /\ Good(kids', used') /\ (Exact(m) => Exact(kids'))
          /\ \A x \in Keys : SubIn(kids', x) = IF x = k THEN n.qos ELSE SubIn(m, x)
      BY <1>4, <2>2, <3>2, <3>3, GoodChanged
    <3>5. n.qos = SubIn(m, k)
      BY <2>2, <3>2 DEF SubIn
    <3> QED BY <3>4, <3>5
  <2> QED BY <2>1, <2>2
<1>6. \/ \A x \in Names : SubIn(kids', x) = SubIn(kids, x)
      \/ \A x \in Names : SubIn(kids', x) = EMPTY_QOS
  BY <1>3, <1>4, <1>5 DEF SameOrNone
<1>7. \A x \in Names : SubIn(kids', x) \in {EMPTY_QOS, told'[x]}
  BY <1>2, <1>3, <1>6
<1>8. Few' => Exact(kids') /\ \A x \in Names : SubIn(kids', x) = told'[x]
  BY <1>2, <1>3, <1>4, <1>5
<1>9. TInv'
  BY <1>2, <1>3, <1>4, <1>5, <1>7, <1>8, StepInv
<1> QED BY <1>6, <1>9 DEF SubMoves

LEMMA UnsubscribeStep ==
  ASSUME TInv, NEW t \in Names, Unsubscribe(t) PROVE TInv' /\ SubMoves
<1>1. /\ Has(kids, t) /\ told' = [told EXCEPT ![t] = EMPTY_QOS] /\ used' = used /\ hung' = hung
      /\ kids' = IF Got(kids, t).deep
                   THEN Changed(kids, t, [Got(kids, t) EXCEPT !.qos = EMPTY_QOS])
                   ELSE erase(kids, t)
  BY DEF Unsubscribe
<1>2. /\ hung \in BOOLEAN /\ told \in [Names -> Qos \cup {EMPTY_QOS}] /\ t \in Keys
      /\ \A x \in Names : x \in Keys /\ SubIn(kids, x) \in {EMPTY_QOS, told[x]}
      /\ used \subseteq Keys /\ IsFiniteSet(used) /\ Good(kids, used)
      /\ (Few => Exact(kids) /\ \A x \in Names : SubIn(kids, x) = told[x])
  BY SubIsSub, NamesAreKeys DEF TInv, OwnLevels
<1>3. /\ Good(kids', used) /\ (Exact(kids) => Exact(kids'))
      /\ \A x \in Keys : SubIn(kids', x) = IF x = t THEN EMPTY_QOS ELSE SubIn(kids, x)
  <2>1. CASE ~Got(kids, t).deep
    BY <1>1, <1>2, <2>1, GoodErased
  <2>2. CASE Got(kids, t).deep
    <3> DEFINE n == [Got(kids, t) EXCEPT !.qos = EMPTY_QOS]
    <3>1. Got(kids, t) \in NodeType /\ Got(kids, t).key = t
      BY <1>1, <1>2, GoodGot
    <3>2. n \in NodeType /\ n.key = t /\ n.qos = EMPTY_QOS
      BY <3>1 DEF NodeType
    <3>3. kids' = Changed(kids, t, n)
      BY <1>1, <2>2
    <3> HIDE DEF n
    <3> QED BY <1>1, <1>2, <3>2, <3>3, GoodChanged
  <2> QED BY <2>1, <2>2
<1>4. \A x \in Names : SubIn(kids', x) = IF x = t THEN EMPTY_QOS ELSE SubIn(kids, x)
  BY <1>2, <1>3
<1>5. told' \in [Names -> Qos \cup {EMPTY_QOS}] /\ \A x \in Names : told'[x] = IF x = t THEN EMPTY_QOS ELSE told[x]
  BY <1>1, <1>2
<1>6. \A x \in Names : SubIn(kids', x) \in {EMPTY_QOS, told'[x]}
  BY <1>2, <1>4, <1>5
<1>7. Few' => Exact(kids') /\ \A x \in Names : SubIn(kids', x) = told'[x]
  BY <1>1, <1>2, <1>3, <1>4, <1>5 DEF Few
<1>8. TInv'
  BY <1>1, <1>2, <1>3, <1>5, <1>6, <1>7, StepInv
<1> QED BY <1>4, <1>8 DEF SubMoves

LEMMA TNext == ASSUME TInv, [Next]_vars PROVE TInv' /\ SubMoves
<1>1. ASSUME Emptier PROVE TInv' /\ SubMoves
  <2>1. \A t \in Names : SubIn(kids', t) = EMPTY_QOS
    BY <1>1, GoodEmpty, NamesAreKeys DEF Emptier
  <2> QED BY <1>1, <2>1, EmptierInv DEF SubMoves
<1>2. CASE DelSubs
  BY <1>1, <1>2 DEF DelSubs, Emptier, TInv
<1>3. ASSUME NEW t \in Names, UnsubscribeUnknown(t) PROVE TInv' /\ SubMoves
  BY <1>1, <1>3 DEF UnsubscribeUnknown, Panic, Emptier
<1>4. ASSUME NEW k \in Keys, UnsubscribeDeep(k) PROVE TInv' /\ SubMoves
  <2>1. UNCHANGED <<kids, told, used>> /\ hung' \in BOOLEAN
    BY <1>4 DEF UnsubscribeDeep
  <2> QED BY <2>1 DEF TInv, OwnLevels, MaxQos, SubMoves, SubIn, Few, Exact
<1>5. CASE UNCHANGED vars
  BY <1>5 DEF vars, TInv, OwnLevels, MaxQos, SubMoves, SubIn, Few, Exact
<1> QED BY <1>2, <1>3, <1>4, <1>5, SubscribeStep, SubscribeDeepStep, UnsubscribeStep DEF Next

LEMMA TInit == Init => TInv /\ \A t \in Names : MaxQos(t) = EMPTY_QOS
BY EmptyInv DEF Init

LEMMA TInvariant == Spec => []TInv
<1>1. Init => TInv
  BY TInit
<1>2. TInv /\ [Next]_vars => TInv'
  BY TNext
<1> QED BY <1>1, <1>2, PTL DEF Spec

\* The nodes of every first level stay where get looks for them and each is
\* there once, of every hash, also after a map that grew lost them all.
THEOREM NodesAreFound == Spec => []TypeOK
<1>1. TInv => TypeOK
  <2> SUFFICES ASSUME TInv PROVE TypeOK
    OBVIOUS
  <2>1. PICK c : MapOK(kids, c)
    BY DEF TInv, Good
  <2>2. kids.count \in Nat /\ kids.count >= Cardinality(Positions(kids))
    <3>1. Cardinality(Positions(kids)) \in Nat
      BY <2>1, FS_CardinalityType DEF MapOK
    <3> QED BY <2>1, <3>1 DEF MapOK
  <2>3. ASSUME NEW p \in Positions(kids)
        PROVE  /\ kids.chain[p[1]][p[2]] \in NodeType
               /\ p[1] = Home(kids, kids.chain[p[1]][p[2]].key)
               /\ p[2] \in Place(kids, kids.chain[p[1]][p[2]].key)
    <3>1. PICK d \in 0..(c - 1) : \E i \in DOMAIN kids.chain[d] : p = <<d, i>>
      BY <2>1, PositionsIs
    <3>2. PICK i \in DOMAIN kids.chain[d] : p = <<d, i>>
      BY <3>1
    <3> DEFINE n == kids.chain[d][i]
    <3>3. n \in NodeType /\ Hash[n.key] % c = d
      BY <2>1 DEF MapOK, ChainOK
    <3>4. n.key \in Keys
      BY <3>3 DEF NodeType
    <3>5. Home(kids, n.key) = d
      BY <2>1, <3>3, HomeIs
    <3>6. Place(kids, n.key) = {i}
      BY <2>1, <3>3, <3>4, GetIs
    <3> QED BY <3>2, <3>3, <3>5, <3>6
  <2> QED BY <2>2, <2>3 DEF TInv, TypeOK, NodeType
<1> QED BY <1>1, TInvariant, PTL

\* No client is sent a message it was granted no filter for, or at another
\* level than one last granted (add_sub, delete_sub, is_subed_to): the node
\* looked up is the topic's own.
THEOREM NobodyElsesTopics == Spec => []NothingUnasked
<1>1. TInv => NothingUnasked
  BY DEF TInv, OwnLevels, NothingUnasked, is_subed_to, Plain
<1> QED BY <1>1, TInvariant, PTL

\* As long as the first levels asked for fit in one chain the map never grows,
\* and nothing granted is lost (myhashmap::add).
THEOREM FewTopicsStay == Spec => []FewAreKept
<1>1. TInv => FewAreKept
  BY DEF TInv, FewAreKept, Few
<1> QED BY <1>1, TInvariant, PTL

\* The tree implements a set of subscriptions that are changed one at a time
\* or forgotten all together.
THEOREM SetImplemented == Spec => ImplementsSet
<1> DEFINE subs == [t \in Names |-> MaxQos(t)]
<1>1. Init => Abstract!Init
  BY TInit DEF Abstract!Init
<1>2. TInv /\ [Next]_vars => [Abstract!Next]_subs
  <2> SUFFICES ASSUME TInv, [Next]_vars PROVE [Abstract!Next]_subs
    OBVIOUS
  <2>1. \A t \in Names : MaxQos(t) = SubIn(kids, t) /\ MaxQos(t)' = SubIn(kids', t)
    BY DEF MaxQos, SubIn
  <2>2. SubMoves
    BY TNext
  <2>3. CASE \A t \in Names : SubIn(kids', t) = SubIn(kids, t)
    BY <2>1, <2>3
  <2>4. CASE \A t \in Names : SubIn(kids', t) = EMPTY_QOS
    <3>1. subs' = [t \in Names |-> EMPTY_QOS]
      BY <2>1, <2>4
    <3> QED BY <3>1 DEF Abstract!Next, Abstract!Forget
  <2>5. ASSUME NEW t \in Names, NEW q \in Qos \cup {EMPTY_QOS},
               \A x \in Names : SubIn(kids', x) = IF x = t THEN q ELSE SubIn(kids, x)
        PROVE  [Abstract!Next]_subs
    <3>1. subs' = [subs EXCEPT ![t] = q]
      BY <2>1, <2>5
    <3>2. CASE q \in Qos
      BY <3>1, <3>2 DEF Abstract!Next, Abstract!Ask
    <3>3. CASE q = EMPTY_QOS
      BY <3>1, <3>3 DEF Abstract!Next, Abstract!Cancel
    <3> QED BY <3>2, <3>3
  <2> QED BY <2>2, <2>3, <2>4, <2>5 DEF SubMoves
<1> QED BY <1>1, <1>2, TInvariant, PTL DEF Spec, ImplementsSet, Abstract!Spec

-----------------------------------------------------------------------------
(* A loop over a map.                                                       *)

\* The least of a set of numbers.
LEMMA Least == ASSUME NEW S, S \subseteq Nat, S # {} PROVE \E d \in S : \A e \in S : d <= e
<1> DEFINE less == OpToRel(<, Nat)
<1>1. IsWellFoundedOn(less, Nat) /\ less = {ss \in Nat \X Nat : ss[1] < ss[2]}
  BY NatLessThanWellFounded DEF OpToRel
<1>2. \A a, b \in Nat : a < b => <<a, b>> \in less
  BY <1>1
<1> HIDE DEF less
<1>3. PICK d \in S : \A e \in S : ~(<<e, d>> \in less)
  BY <1>1, WFMin
<1>4. \A e \in S : ~(e < d) /\ e \in Nat /\ d \in Nat
  BY <1>2, <1>3
<1>5. \A e \in S : d <= e
  BY <1>4
<1> QED BY <1>5

\* Induction up to a number, said of a set.
LEMMA UpTo ==
  ASSUME NEW N \in Nat, NEW S, 0 \in S, \A n \in 0..N : n < N /\ n \in S => n + 1 \in S
  PROVE  \A n \in 0..N : n \in S
<1> DEFINE B == {n \in 0..N : n \notin S}
<1>1. ASSUME B # {} PROVE FALSE
  <2>1. B \subseteq Nat
    OBVIOUS
  <2>2. PICK x \in B : \A y \in B : x <= y
    BY <1>1, <2>1, Least
  <2>3. x \in 0..N /\ x \notin S /\ x # 0
    BY <2>2
  <2>4. x - 1 \in 0..N /\ ~(x <= x - 1) /\ x - 1 < N /\ (x - 1) + 1 = x
    BY <2>3
  <2>5. x - 1 \in S
    BY <2>2, <2>4
  <2> QED BY <2>3, <2>4, <2>5
<1> QED BY <1>1

LEMMA PositionFacts ==
  ASSUME NEW c, NEW m, MapOK(m, c)
  PROVE  /\ c \in Nat \ {0} /\ DOMAIN m.chain = 0..(c - 1)
         /\ \A d \in 0..(c - 1) : /\ Len(m.chain[d]) \in Nat /\ DOMAIN m.chain[d] = 1..Len(m.chain[d])
                                  /\ m.chain[d] # <<>> <=> Len(m.chain[d]) >= 1
         /\ \A d \in 0..(c - 1) : \A i \in 1..Len(m.chain[d]) : <<d, i>> \in Positions(m)
         /\ \A p \in Positions(m) :
              /\ p = <<p[1], p[2]>> /\ p[1] \in 0..(c - 1) /\ p[2] \in 1..Len(m.chain[p[1]])
              /\ p # End
<1>1. c \in Nat \ {0} /\ DOMAIN m.chain = 0..(c - 1)
  BY DEF MapOK
<1>2. ASSUME NEW d \in 0..(c - 1)
      PROVE  /\ Len(m.chain[d]) \in Nat /\ DOMAIN m.chain[d] = 1..Len(m.chain[d])
             /\ m.chain[d] # <<>> <=> Len(m.chain[d]) >= 1
  <2> DEFINE q == m.chain[d]
  <2>1. q \in Seq(NodeType)
    BY DEF MapOK, ChainOK
  <2> HIDE DEF q
  <2>2. Len(q) \in Nat /\ DOMAIN q = 1..Len(q)
    BY <2>1
  <2>3. q # <<>> <=> Len(q) # 0
    BY <2>1, EmptySeq
  <2> QED BY <2>2, <2>3 DEF q
<1>3. \A p : p \in Positions(m) <=> \E d \in 0..(c - 1) : \E i \in DOMAIN m.chain[d] : p = <<d, i>>
  BY PositionsIs
<1>4. ASSUME NEW p \in Positions(m)
      PROVE  p = <<p[1], p[2]>> /\ p[1] \in 0..(c - 1) /\ p[2] \in 1..Len(m.chain[p[1]]) /\ p # End
  <2>1. PICK d \in 0..(c - 1) : \E i \in DOMAIN m.chain[d] : p = <<d, i>>
    BY <1>3
  <2>2. PICK i \in DOMAIN m.chain[d] : p = <<d, i>>
    BY <2>1
  <2>3. d # -1
    BY <1>1
  <2> QED BY <1>2, <2>2, <2>3 DEF End
<1>5. \A d \in 0..(c - 1) : \A i \in 1..Len(m.chain[d]) : <<d, i>> \in Positions(m)
  BY <1>2, <1>3
<1> QED BY <1>1, <1>2, <1>4, <1>5

\* The positions before p in the order of a loop.
Before(m, p) == {o \in Positions(m) : p = End \/ o[1] < p[1] \/ (o[1] = p[1] /\ o[2] < p[2])}

LEMMA FirstFromIs ==
  ASSUME NEW c, NEW m, MapOK(m, c), NEW b \in Nat, NEW r, r = FirstFrom(m, b)
  PROVE  /\ r \in Positions(m) \cup {End}
         /\ Before(m, r) = {o \in Positions(m) : o[1] < b}
<1> DEFINE S == {d \in DOMAIN m.chain : d >= b /\ m.chain[d] # <<>>}
<1>1. /\ c \in Nat \ {0} /\ DOMAIN m.chain = 0..(c - 1)
      /\ \A d \in 0..(c - 1) : m.chain[d] # <<>> <=> Len(m.chain[d]) >= 1
      /\ \A d \in 0..(c - 1) : Len(m.chain[d]) \in Nat
      /\ \A d \in 0..(c - 1) : \A i \in 1..Len(m.chain[d]) : <<d, i>> \in Positions(m)
      /\ \A p \in Positions(m) :
           /\ p = <<p[1], p[2]>> /\ p[1] \in 0..(c - 1) /\ p[2] \in 1..Len(m.chain[p[1]])
           /\ p # End
  BY PositionFacts
<1>2. r = IF S = {} THEN End ELSE <<CHOOSE d \in S : \A e \in S : d <= e, 1>>
  BY DEF FirstFrom
\* The chain of a position is not empty.
<1>3. \A o \in Positions(m) : o[1] >= b => o[1] \in S
  <2> TAKE o \in Positions(m)
  <2>1. o[1] \in 0..(c - 1) /\ o[2] \in 1..Len(m.chain[o[1]])
    BY <1>1
  <2>2. Len(m.chain[o[1]]) >= 1
    BY <1>1, <2>1
  <2> QED BY <1>1, <2>1, <2>2
<1>4. \A o \in Positions(m) : o[1] \in Nat /\ o[2] \in Nat /\ o[2] >= 1
  BY <1>1
<1>5. CASE S = {}
  <2>1. r = End
    BY <1>2, <1>5
  <2>2. \A o \in Positions(m) : o[1] < b
    BY <1>3, <1>4, <1>5
  <2> QED BY <2>1, <2>2 DEF Before
<1>6. CASE S # {}
  <2>1. S \subseteq Nat
    BY <1>1
  <2> DEFINE d == CHOOSE x \in S : \A e \in S : x <= e
  <2>2. d \in S /\ \A e \in S : d <= e
    <3> HIDE DEF S
    <3> QED BY <1>6, <2>1, Least
  <2>3. r = <<d, 1>>
    BY <1>2, <1>6
  <2> HIDE DEF d
  <2>4. d \in 0..(c - 1) /\ d >= b /\ Len(m.chain[d]) >= 1 /\ d \in Nat
    BY <1>1, <2>2
  <2>5. r \in Positions(m)
    BY <1>1, <2>3, <2>4
  <2>6. r # End /\ r[1] = d /\ r[2] = 1
    BY <2>3, <2>4 DEF End
  <2>7. ASSUME NEW o \in Positions(m)
        PROVE  (r = End \/ o[1] < r[1] \/ (o[1] = r[1] /\ o[2] < r[2])) <=> o[1] < b
    <3>1. CASE o[1] < b
      BY <1>4, <2>4, <2>6, <3>1
    <3>2. CASE ~(o[1] < b)
      <4>1. o[1] \in S
        BY <1>3, <1>4, <3>2
      <4>2. d <= o[1]
        BY <2>2, <4>1
      <4> HIDE DEF S
      <4> QED BY <1>4, <2>4, <2>6, <3>2, <4>2
    <3> QED BY <3>1, <3>2
  <2> QED BY <2>5, <2>7 DEF Before
<1> QED BY <1>5, <1>6

LEMMA AfterIs ==
  ASSUME NEW c, NEW m, MapOK(m, c), NEW p \in Positions(m), NEW r, r = After(m, p)
  PROVE  /\ r \in Positions(m) \cup {End}
         /\ p \notin Before(m, p) /\ Before(m, r) = Before(m, p) \cup {p}
<1>1. /\ c \in Nat \ {0}
      /\ \A d \in 0..(c - 1) : Len(m.chain[d]) \in Nat
      /\ \A d \in 0..(c - 1) : \A i \in 1..Len(m.chain[d]) : <<d, i>> \in Positions(m)
      /\ \A o \in Positions(m) :
           /\ o = <<o[1], o[2]>> /\ o[1] \in 0..(c - 1) /\ o[2] \in 1..Len(m.chain[o[1]])
           /\ o # End
  BY PositionFacts
<1>2. \A o \in Positions(m) : o[1] \in Nat /\ o[2] \in Nat
  BY <1>1
<1>3. \A o \in Positions(m) : o = p <=> o[1] = p[1] /\ o[2] = p[2]
  BY <1>1
<1>4. p \notin Before(m, p)
  BY <1>1, <1>2 DEF Before
<1>5. CASE p[2] < Len(m.chain[p[1]])
  <2>1. r = <<p[1], p[2] + 1>>
    BY <1>5 DEF After
  <2>2. p[1] \in 0..(c - 1) /\ p[2] \in 1..Len(m.chain[p[1]]) /\ Len(m.chain[p[1]]) \in Nat
    BY <1>1
  <2>3. p[2] + 1 \in 1..Len(m.chain[p[1]])
    BY <1>5, <2>2
  <2>4. r \in Positions(m)
    BY <1>1, <2>1, <2>2, <2>3
  <2>5. r # End /\ p # End /\ r[1] = p[1] /\ r[2] = p[2] + 1
    BY <1>1, <2>1, <2>4
  <2>6. \A o \in Positions(m) :
          (o[1] < r[1] \/ (o[1] = r[1] /\ o[2] < r[2])) <=> (o[1] < p[1] \/ (o[1] = p[1] /\ o[2] < p[2])) \/ o = p
    BY <1>2, <1>3, <2>5
  <2>7. \A o \in Positions(m) : o \in Before(m, r) <=> o \in Before(m, p) \/ o = p
    BY <2>5, <2>6 DEF Before
  <2>8. Before(m, r) \subseteq Positions(m) /\ Before(m, p) \subseteq Positions(m)
    BY DEF Before
  <2> QED BY <1>4, <2>4, <2>7, <2>8
<1>6. CASE ~(p[2] < Len(m.chain[p[1]]))
  <2>1. r = FirstFrom(m, p[1] + 1)
    BY <1>6 DEF After
  <2>2. p[1] + 1 \in Nat
    BY <1>2
  <2>3. r \in Positions(m) \cup {End} /\ Before(m, r) = {o \in Positions(m) : o[1] < p[1] + 1}
    BY <2>1, <2>2, FirstFromIs
  <2>4. \A o \in Positions(m) : o[1] = p[1] => o[2] <= p[2]
    <3> TAKE o \in Positions(m)
    <3>1. o[2] \in 1..Len(m.chain[o[1]]) /\ o[1] \in 0..(c - 1)
      BY <1>1
    <3>2. Len(m.chain[o[1]]) \in Nat
      BY <1>1, <3>1
    <3> QED BY <1>2, <1>6, <3>1, <3>2
  <2>5. \A o \in Positions(m) : o[1] < p[1] + 1 <=> (o[1] < p[1] \/ (o[1] = p[1] /\ o[2] < p[2])) \/ o = p
    BY <1>2, <1>3, <2>4
  <2>6. p # End
    BY <1>1
  <2>7. \A o \in Positions(m) : o \in Before(m, r) <=> o \in Before(m, p) \/ o = p
    BY <2>3, <2>5, <2>6 DEF Before
  <2>8. Before(m, r) \subseteq Positions(m) /\ Before(m, p) \subseteq Positions(m)
    BY DEF Before
  <2> QED BY <1>4, <2>3, <2>7, <2>8
<1> QED BY <1>5, <1>6

\* The first n steps of a loop.
Steps(f, m, n) ==
  /\ f = [i \in 0..n |-> f[i]]
  /\ f[0] = begin(m)
  /\ \A i \in 1..n : f[i] = After(m, f[i - 1])

LEMMA StepsExist == ASSUME NEW m, NEW N \in Nat PROVE \E f : Steps(f, m, N)
<1> DEFINE S == {n \in 0..N : \E f : Steps(f, m, n)}
<1>1. 0 \in S
  <2> DEFINE f == [k \in 0..0 |-> begin(m)]
  <2>1. Steps(f, m, 0)
    BY DEF Steps
  <2> QED BY <2>1
<1>2. ASSUME NEW n \in 0..N, n < N, n \in S PROVE n + 1 \in S
  <2>1. PICK f : Steps(f, m, n)
    BY <1>2
  <2> DEFINE g == [k \in 0..(n + 1) |-> IF k = n + 1 THEN After(m, f[n]) ELSE f[k]]
  <2>2. g = [k \in 0..(n + 1) |-> g[k]] /\ g[n + 1] = After(m, f[n]) /\ \A k \in 0..n : g[k] = f[k]
    OBVIOUS
  <2> HIDE DEF g
  <2>3. g[0] = begin(m)
    BY <2>1, <2>2 DEF Steps
  <2>4. ASSUME NEW k \in 1..(n + 1) PROVE g[k] = After(m, g[k - 1])
    <3>1. CASE k = n + 1
      <4>1. k - 1 = n /\ n \in 0..n
        BY <3>1
      <4>2. g[n] = f[n]
        BY <2>2, <4>1
      <4> QED BY <2>2, <3>1, <4>1, <4>2
    <3>2. CASE k \in 1..n
      <4>1. k - 1 \in 0..n /\ k \in 0..n
        BY <3>2
      <4> QED BY <2>1, <2>2, <3>2, <4>1 DEF Steps
    <3> QED BY <3>1, <3>2
  <2>5. Steps(g, m, n + 1)
    BY <2>2, <2>3, <2>4 DEF Steps
  <2>6. n + 1 \in 0..N
    BY <1>2
  <2> QED BY <2>5, <2>6
<1> HIDE DEF S
<1>3. \A n \in 0..N : n \in S
  BY <1>1, <1>2, UpTo
<1> QED BY <1>3 DEF S

LEMMA WalkIs ==
  ASSUME NEW m, Cardinality(Positions(m)) \in Nat
  PROVE  Steps(Walk(m), m, Cardinality(Positions(m)))
<1> DEFINE N == Cardinality(Positions(m))
           d(w) == [i \in 0..N |-> IF i = 0 THEN begin(m) ELSE After(m, w[i - 1])]
           walk == CHOOSE w : w = d(w)
<1>1. Walk(m) = walk
  BY DEF Walk
<1>2. N \in Nat
  OBVIOUS
<1> HIDE DEF N
<1>3. PICK f : Steps(f, m, N)
  BY <1>2, StepsExist
<1>4. \A w : d(w) = [i \in 0..N |-> IF i = 0 THEN begin(m) ELSE After(m, w[i - 1])]
  OBVIOUS
<1> HIDE DEF d
<1>5. f = d(f)
  <2>1. \A i \in 0..N : f[i] = IF i = 0 THEN begin(m) ELSE After(m, f[i - 1])
    <3> TAKE i \in 0..N
    <3>1. f[0] = begin(m) /\ \A k \in 1..N : f[k] = After(m, f[k - 1])
      BY <1>3 DEF Steps
    <3>2. i = 0 \/ (i # 0 /\ i \in 1..N)
      BY <1>2
    <3> QED BY <3>1, <3>2
  <2>2. f = [i \in 0..N |-> f[i]]
    BY <1>3 DEF Steps
  <2> QED BY <1>4, <2>1, <2>2
<1>6. walk = d(walk)
  BY <1>5
<1> HIDE DEF walk
<1>7. walk = [i \in 0..N |-> IF i = 0 THEN begin(m) ELSE After(m, walk[i - 1])]
  BY <1>4, <1>6
<1>8. Steps(walk, m, N)
  <2>1. \A i \in 0..N : walk[i] = IF i = 0 THEN begin(m) ELSE After(m, walk[i - 1])
    BY <1>7
  <2>2. walk[0] = begin(m)
    BY <1>2, <2>1
  <2>3. \A k \in 1..N : walk[k] = After(m, walk[k - 1])
    <3>1. \A k \in 1..N : k \in 0..N /\ k # 0
      BY <1>2
    <3> QED BY <2>1, <3>1
  <2>4. walk = [k \in 0..N |-> walk[k]]
    BY <1>7
  <2> QED BY <2>2, <2>3, <2>4 DEF Steps
<1> QED BY <1>1, <1>8 DEF N

\* Where the loop stands after i steps: as many nodes are behind it.
StandsAt(w, m, i) ==
  /\ w[i] \in Positions(m) \cup {End}
  /\ Before(m, w[i]) = {w[j] : j \in 0..(i - 1)}
  /\ Cardinality(Before(m, w[i])) = i

LEMMA WalkStands ==
  ASSUME NEW c, NEW m, MapOK(m, c), NEW N \in Nat, N = Cardinality(Positions(m)), NEW w, Steps(w, m, N)
  PROVE  \A i \in 0..N : StandsAt(w, m, i)
<1> DEFINE S == {i \in 0..N : StandsAt(w, m, i)}
<1>1. IsFiniteSet(Positions(m)) /\ c \in Nat \ {0}
  BY DEF MapOK
<1>2. 0 \in S
  <2>1. w[0] = FirstFrom(m, 0)
    BY DEF Steps, begin
  <2>2. w[0] \in Positions(m) \cup {End} /\ Before(m, w[0]) = {o \in Positions(m) : o[1] < 0}
    BY <2>1, FirstFromIs
  <2>3. \A o \in Positions(m) : ~(o[1] < 0)
    <3>1. \A o \in Positions(m) : o[1] \in 0..(c - 1)
      BY PositionFacts
    <3> QED BY <1>1, <3>1
  <2>4. Before(m, w[0]) = {}
    BY <2>2, <2>3
  <2>5. {w[j] : j \in 0..(0 - 1)} = {}
    <3>1. 0..(0 - 1) = {}
      OBVIOUS
    <3> QED BY <3>1
  <2>6. Cardinality(Before(m, w[0])) = 0
    BY <2>4, FS_EmptySet
  <2>7. StandsAt(w, m, 0)
    BY <2>2, <2>4, <2>5, <2>6 DEF StandsAt
  <2> QED BY <2>7
<1>3. ASSUME NEW i \in 0..N, i < N, i \in S PROVE i + 1 \in S
  <2>1. /\ w[i] \in Positions(m) \cup {End} /\ Before(m, w[i]) = {w[j] : j \in 0..(i - 1)}
        /\ Cardinality(Before(m, w[i])) = i
    BY <1>3 DEF StandsAt
  <2>2. w[i] \in Positions(m)
    <3>1. Before(m, End) = Positions(m)
      BY DEF Before
    <3>2. i # N
      BY <1>3
    <3> QED BY <2>1, <3>1, <3>2
  <2>3. i + 1 \in 1..N /\ (i + 1) - 1 = i /\ i + 1 \in 0..N
    BY <1>3
  <2>4. w[i + 1] = After(m, w[i])
    BY <2>3 DEF Steps
  <2>5. /\ w[i + 1] \in Positions(m) \cup {End}
        /\ w[i] \notin Before(m, w[i]) /\ Before(m, w[i + 1]) = Before(m, w[i]) \cup {w[i]}
    BY <2>2, <2>4, AfterIs
  <2>6. Before(m, w[i + 1]) = {w[j] : j \in 0..i}
    <3>1. \A j : j \in 0..i <=> j \in 0..(i - 1) \/ j = i
      BY <1>3
    <3> QED BY <2>1, <2>5, <3>1
  <2>7. Cardinality(Before(m, w[i + 1])) = i + 1
    <3>1. Before(m, w[i]) \subseteq Positions(m)
      BY DEF Before
    <3>2. IsFiniteSet(Before(m, w[i]))
      BY <1>1, <3>1, FS_Subset
    <3> QED BY <2>1, <2>5, <3>2, FS_AddElement
  <2>8. StandsAt(w, m, i + 1)
    BY <2>3, <2>5, <2>6, <2>7 DEF StandsAt
  <2> QED BY <2>3, <2>8
<1> HIDE DEF S
<1>4. \A i \in 0..N : i \in S
  BY <1>2, <1>3, UpTo
<1> QED BY <1>4 DEF S

\* A loop over the first levels of a client sees each of them once and ends,
\* whatever was added, erased or lost before it (begin, operator++).
THEOREM LoopsSeeAll == Spec => []WalkSeesAll
<1>1. TInv => WalkSeesAll
  <2> SUFFICES ASSUME TInv PROVE WalkSeesAll
    OBVIOUS
  <2>1. PICK c : MapOK(kids, c)
    BY DEF TInv, Good
  <2> DEFINE P == Positions(kids)
             n == Cardinality(P)
             w == Walk(kids)
  <2>2. IsFiniteSet(P) /\ n \in Nat
    BY <2>1, FS_CardinalityType DEF MapOK
  <2>3. Steps(w, kids, n)
    BY <2>2, WalkIs
  <2> HIDE DEF w
  <2>4. \A i \in 0..n : StandsAt(w, kids, i)
    <3> HIDE DEF n
    <3>1. n = Cardinality(P)
      BY DEF n
    <3> QED BY <2>1, <2>2, <2>3, <3>1, WalkStands DEF P
  <2>5. /\ w[n] \in P \cup {End} /\ Before(kids, w[n]) = {w[j] : j \in 0..(n - 1)}
        /\ Cardinality(Before(kids, w[n])) = n
    <3> HIDE DEF n
    <3>1. n \in 0..n
      BY <2>2
    <3>2. StandsAt(w, kids, n)
      BY <2>4, <3>1
    <3> QED BY <3>2, Zenon DEF StandsAt, P
  \* Not at a position: it would be one of n others.
  <2>6. Before(kids, w[n]) = P
    <3>1. Before(kids, w[n]) \subseteq P
      BY DEF Before
    <3> QED BY <2>2, <2>5, <3>1, FS_Subset
  <2>7. w[n] = End
    <3>1. ASSUME w[n] \in P PROVE w[n] \notin Before(kids, w[n])
      BY <2>1, <3>1, AfterIs
    <3> QED BY <2>5, <2>6, <3>1
  <2> QED BY <2>5, <2>6, <2>7 DEF WalkSeesAll, w
<1> QED BY <1>1, TInvariant, PTL
=============================================================================
