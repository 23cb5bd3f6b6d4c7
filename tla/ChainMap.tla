------------------------------ MODULE ChainMap ------------------------------
(***************************************************************************)
(* myhashmap (myhashmap.hpp): the chained hash table behind client_store,  *)
(* retained_sub_msg and the children of every topic level.  A map is its   *)
(* chains of nodes and the count it keeps of them; a node has a key.       *)
(***************************************************************************)
EXTENDS Integers, Sequences, FiniteSets

CONSTANTS
  Keys,              \* names in use
  Hash,              \* fnv1a_hash of each: first and last characters only
  REHASH_SIZE_TIMES  \* nodes per chain before the map grows

ASSUME HashAssumption == Hash \in [Keys -> Nat] /\ REHASH_SIZE_TIMES \in Nat \ {0}

EmptyMap(capacity) == [chain |-> [c \in 0..(capacity - 1) |-> <<>>], count |-> 0]

Capacity(m) == Cardinality(DOMAIN m.chain)
Home(m, k) == Hash[k] % Capacity(m)
Positions(m) == UNION {{<<c, i>> : i \in DOMAIN m.chain[c]} : c \in DOMAIN m.chain}

\* get: where the node of k is, at most one place.
Place(m, k) ==
  LET S == {i \in DOMAIN m.chain[Home(m, k)] : m.chain[Home(m, k)][i].key = k} IN
    {i \in S : \A j \in S : i <= j}
Has(m, k) == Place(m, k) # {}
Got(m, k) == m.chain[Home(m, k)][CHOOSE i \in Place(m, k) : TRUE]

\* The node of k becomes n.
Changed(m, k, n) == [m EXCEPT !.chain[Home(m, k)] =
                       [i \in DOMAIN @ |-> IF i \in Place(m, k) THEN n ELSE @[i]]]

\* Mutant: the chains keep their nodes, wherever those belong now.
GrownInPlace(m, capacity) ==
  [m EXCEPT !.chain = [c \in 0..(capacity - 1) |-> IF c \in DOMAIN m.chain THEN m.chain[c] ELSE <<>>]]

\* rehash: the loop runs to the size of the old vector, which is 0 whatever it
\* holds: nothing is moved, every node is freed, and the count stays.
Rehashed(m, capacity) == [m EXCEPT !.chain = EmptyMap(capacity).chain]

\* Mutant: the map grows one node early.
Overfull(m) == m.count >= Capacity(m) * REHASH_SIZE_TIMES
Full(m) == m.count > Capacity(m) * REHASH_SIZE_TIMES

\* add: what it may leave behind.  No memory for the node or its key; none for
\* the larger map; a map is not looked at when the node is alone in its chain.
add(m, n) ==
  LET linked == [m EXCEPT !.chain[Home(m, n.key)] = Append(@, n), !.count = @ + 1] IN
    {m, linked} \cup {Rehashed(linked, linked.count \div 2) : x \in
                        {y \in {1} : Full(linked) /\ m.chain[Home(m, n.key)] # <<>>}}

\* Mutant: the rest of the chain goes with the node.
EraseCuts(m, k) ==
  IF Has(m, k)
    THEN [m EXCEPT !.chain[Home(m, k)] = SubSeq(@, 1, (CHOOSE i \in Place(m, k) : TRUE) - 1),
                   !.count = @ - 1]
    ELSE m

\* Mutant: the count stays.
EraseUncounted(m, k) ==
  [m EXCEPT !.chain[Home(m, k)] = SelectSeq(@, LAMBDA n : n.key # k)]

\* erase: the caller has made sure that the chain is not empty.
erase(m, k) ==
  IF Has(m, k)
    THEN LET at == CHOOSE i \in Place(m, k) : TRUE IN
         [m EXCEPT !.chain[Home(m, k)] = SubSeq(@, 1, at - 1) \o SubSeq(@, at + 1, Len(@)),
                   !.count = @ - 1]
    ELSE m

-----------------------------------------------------------------------------
(* Iterator.  A position of the map, or End.                                *)

End == <<-1, 0>>

\* The first node of the first chain from c that has one.
FirstFrom(m, c) ==
  LET S == {d \in DOMAIN m.chain : d >= c /\ m.chain[d] # <<>>} IN
    IF S = {} THEN End ELSE <<CHOOSE d \in S : \A e \in S : d <= e, 1>>

begin(m) == FirstFrom(m, 0)

\* Mutant: a chain is left after its first node.
LeavesChain(m, p) == FirstFrom(m, p[1] + 1)

\* operator++
After(m, p) == IF p[2] < Len(m.chain[p[1]]) THEN <<p[1], p[2] + 1>> ELSE FirstFrom(m, p[1] + 1)

\* The positions a loop from begin() to end() sees, in order, and where it
\* stands after the last of them.
Walk(m) ==
  LET n == Cardinality(Positions(m))
      at[i \in 0..n] == IF i = 0 THEN begin(m) ELSE After(m, at[i - 1])
  IN at
=============================================================================
