------------------------------ MODULE PubStore ------------------------------
(***************************************************************************)
(* publish_msg_store: the hash table (Publishhashmap.hpp, .cpp) that keeps *)
(* a publication under its packet id while somebody still has to send it   *)
(* or to acknowledge it.  A slot is free when its count is 0.              *)
(*                                                                         *)
(* The probing loops increment the slot they started from (id) instead of  *)
(* the one they look at (cur_id): they look at the home slot and the one   *)
(* after it, never further.  From the last slot they go round until id has *)
(* run through every std::size_t; Place and Find are what they end with.   *)
(*                                                                         *)
(* The actions are what worker.cpp does with the store, for any order of   *)
(* publications, sends and acknowledgements.                               *)
(***************************************************************************)
EXTENDS Integers, FiniteSets

CONSTANTS
  Ids,         \* packet ids in use; 0 is what a free slot holds and no client may send
  InitPower,   \* log2 of the first capacity (5 in worker.cpp)
  MaxPower,    \* bound: log2 of the last capacity there is memory for
  MaxCount     \* bound: holders of one publication (a uint8_t)

ASSUME IdsAssumption == \A x \in Ids : x \in Nat /\ x > 0 /\ x <= 65535
ASSUME PowersAssumption ==
  /\ InitPower \in 1..16 /\ MaxPower \in InitPower..16
  /\ MaxCount \in 2..255

VARIABLES
  table,   \* the slots of map
  power,   \* power_of_cap
  size     \* map.size: how many entries the code believes there are

vars == <<table, power, size>>

Free == [id |-> 0, count |-> 0, full |-> FALSE]
Nodes == [id : Ids \cup {0}, count : 0..MaxCount, full : BOOLEAN]
EmptyTable(p) == [i \in 0..(2 ^ p - 1) |-> Free]

\* (y * 2654435769) >> (32 - power) in 32 bits.  The factor is
\* (2^16 - 25033) * 2^16 + 31161, and only the upper 16 bits matter.
knuth_hash(x, p) == (((x * 31161) \div 65536 - x * 25033) % 65536) \div 2 ^ (16 - p)

\* The slot the loops look at when the home slot will not do.
NextSlot(x, p) == (knuth_hash(x, p) + 1) % 2 ^ p

\* Where add and rehash put x: the home slot if it is free, else the next one,
\* which is overwritten when it is taken.
Place(t, p, x) == IF t[knuth_hash(x, p)].count = 0 THEN knuth_hash(x, p) ELSE NextSlot(x, p)

\* get: the slot of x, or the empty set for a null pointer.  It compares ids only.
Find(t, p, x) ==
  LET home == knuth_hash(x, p) IN
    IF t[home].id = x THEN {home} ELSE {i \in {NextSlot(x, p)} : t[i].id = x}

\* Mutant: every node keeps its slot.
GrownInPlace(t, p) ==
  [i \in 0..(2 ^ (p + 1) - 1) |-> IF i \in DOMAIN t THEN t[i] ELSE Free]

\* Mutant: nodes are moved to their home slots, taken or not.
RehashedHome(t, p) ==
  LET moved[n \in 0..(2 ^ p)] ==
        IF n = 0 THEN EmptyTable(p + 1)
        ELSE IF t[n - 1].count = 0 THEN moved[n - 1]
        ELSE [moved[n - 1] EXCEPT ![knuth_hash(t[n - 1].id, p + 1)] = t[n - 1]]
  IN moved[2 ^ p]

\* The table of twice the capacity, filled in the order of the slots.
Rehashed(t, p) ==
  LET moved[n \in 0..(2 ^ p)] ==
        IF n = 0 THEN EmptyTable(p + 1)
        ELSE IF t[n - 1].count = 0 THEN moved[n - 1]
        ELSE [moved[n - 1] EXCEPT ![Place(moved[n - 1], p + 1, t[n - 1].id)] = t[n - 1]]
  IN moved[2 ^ p]

Init == table = EmptyTable(InitPower) /\ power = InitPower /\ size = 0

\* Mutant: the capacity is not checked.
MakesNoRoom(t, p) == t = table /\ p = power

\* add makes room first; when there is no memory for that it fails and leaves
\* the store as it is.
MakesRoom(t, p) ==
  \/ size < 2 ^ power /\ t = table /\ p = power
  \/ size = 2 ^ power /\ power < MaxPower /\ t = Rehashed(table, power) /\ p = power + 1

\* Mutant: the new entry is not counted.
AddUncounted(x, n) ==
  \E t \in {table, Rehashed(table, power)}, p \in {power, power + 1} :
    /\ MakesRoom(t, p)
    /\ table' = [t EXCEPT ![Place(t, p, x)] = [id |-> x, count |-> n, full |-> TRUE]]
    /\ power' = p /\ UNCHANGED size

\* A publication is stored: once for its subscribers, and with a count of two
\* if it is to be retained as well.
Add(x, n) ==
  \E t \in {table, Rehashed(table, power)}, p \in {power, power + 1} :
    /\ MakesRoom(t, p)
    /\ table' = [t EXCEPT ![Place(t, p, x)] = [id |-> x, count |-> n, full |-> TRUE]]
    /\ power' = p /\ size' = size + 1

\* No memory for the copy: the slot chosen loses what it held all the same.
AddNoMemory(x) ==
  \E t \in {table, Rehashed(table, power)}, p \in {power, power + 1} :
    /\ MakesRoom(t, p)
    /\ table' = [t EXCEPT ![Place(t, p, x)].full = FALSE]
    /\ power' = p /\ UNCHANGED size

\* One more client has to be sent x.
Hold(x) ==
  \E i \in Find(table, power, x) :
    /\ table[i].count < MaxCount
    /\ table' = [table EXCEPT ![i].count = @ + 1]
    /\ UNCHANGED <<power, size>>

\* Somebody is done with x; the last one erases it.
Release(x) ==
  \E i \in Find(table, power, x) :
    /\ table[i].count > 0
    /\ table' = [table EXCEPT ![i] = IF @.count = 1 THEN Free ELSE [@ EXCEPT !.count = table[i].count - 1]]
    /\ size' = IF table[i].count = 1 THEN size - 1 ELSE size
    /\ UNCHANGED power

Next == \E x \in Ids : \/ Add(x, 1) \/ Add(x, 2) \/ AddNoMemory(x)
                       \/ Hold(x) \/ Release(x)

Spec == Init /\ [][Next]_vars

-----------------------------------------------------------------------------
Slots == 0..(2 ^ power - 1)
Live(t) == {i \in DOMAIN t : t[i].count > 0}

TypeOK ==
  /\ power \in InitPower..MaxPower
  /\ table \in [Slots -> Nodes]
  /\ size \in 0..(2 ^ power)

\* Whatever grew, moved, was overwritten or erased: a publication somebody still
\* holds is found under its id, though the loops look at two slots only.
LiveIsFound ==
  \A i \in Live(table) : \E j \in Find(table, power, table[i].id) :
    table[j].count > 0 /\ table[j].id = table[i].id

\* The count that triggers growth (Publishhashmap.cpp:36) is never below the
\* slots taken, or add would overwrite before it grows.
SizeCoversLive == Cardinality(Live(table)) <= size

Copies(t, x) == Cardinality({i \in Live(t) : t[i].id = x /\ t[i].full})
\* Both slots y may have are taken, and the second one is one of x's slots.
Crowds(y, x) ==
  /\ {knuth_hash(y, power), NextSlot(y, power)} \subseteq Live(table)
  /\ NextSlot(y, power) \in {knuth_hash(x, power), NextSlot(x, power)}

\* A publication disappears only when its last holder is done with it, or when
\* a slot it may have was the second choice of an id whose first choice was
\* taken (Publishhashmap.cpp:42-55, Publishhashmap.hpp:25-38).
OnlyCrowdingLoses ==
  [][\A x \in Ids : Copies(table', x) < Copies(table, x)
        => Release(x) \/ \E y \in Ids : Crowds(y, x)']_vars

\* "degradation in worst case (probing) to O(n) is acceptible"
\* (Publishhashmap.hpp:4): probing finds room for every publication, so only
\* its last holder, or a lack of memory, makes one disappear.
OnlyReleaseLoses ==
  [][\A x \in Ids : Copies(table', x) < Copies(table, x)
        => Release(x) \/ \E y \in Ids : AddNoMemory(y)]_vars
=============================================================================
