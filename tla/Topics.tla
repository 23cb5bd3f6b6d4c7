------------------------------- MODULE Topics -------------------------------
(***************************************************************************)
(* The topics of one client (Subscription.cpp): a tree of levels, each with*)
(* its children in a myhashmap.                                            *)
(*                                                                         *)
(* No loop of Subscription.cpp steps over a '/'.  A topic of one level is  *)
(* a child of the root.  Of a topic with more levels only the first is     *)
(* seen; after it every level is empty, and add_sub adds empty levels until*)
(* memory ends.  A node is its first level, the level granted for it, and  *)
(* whether it has such a chain below.  Blank is the first level of a topic *)
(* that begins with a '/'.  A wildcard is a name like any other to the     *)
(* code; a topic of a message is none (MQTT, unchecked by the code).       *)
(*                                                                         *)
(* Left out: memory that ends between a level and its own (empty) map, and *)
(* topics of length zero.                                                  *)
(***************************************************************************)
EXTENDS ChainMap

CONSTANTS
  Blank,     \* the empty level, one of Keys
  Wild,      \* levels that are wildcards, as '+'
  Qos,       \* levels that are asked for
  EMPTY_QOS  \* no subscription

ASSUME TopicsAssumption ==
  /\ Blank \in Keys /\ Wild \subseteq Keys \ {Blank}
  /\ EMPTY_QOS \notin Qos

VARIABLES
  kids,  \* m_child_nodes of the root
  hung,  \* the worker is in a loop that does not end
  told,  \* history: level last granted for a filter, until it is given up
  used   \* history: first levels that were asked for

vars == <<kids, hung, told, used>>

Names == Keys \ {Blank}   \* filters of one level
Plain == Names \ Wild     \* topics of one level that messages have
STARTING_CAPACITY == 1

Init ==
  /\ kids = EmptyMap(STARTING_CAPACITY)
  /\ hung = FALSE
  /\ told = [t \in Names |-> EMPTY_QOS]
  /\ used = {}

\* A null dereference: the device starts again and the client is new.
Panic ==
  /\ kids' = EmptyMap(STARTING_CAPACITY)
  /\ hung' = FALSE
  /\ told' = [t \in Names |-> EMPTY_QOS]
  /\ used' = {}

Fresh(k) == [key |-> k, qos |-> EMPTY_QOS, deep |-> FALSE]

\* The child k of the root, old or new: what memory leaves of the map.
WithChild(k) == IF Has(kids, k) THEN {kids} ELSE add(kids, Fresh(k))

\* add_sub of a topic of one level: granted if the child is there afterwards.
Subscribe(t, q) ==
  /\ ~hung
  /\ \E m \in WithChild(t) :
       IF Has(m, t)
         THEN /\ kids' = Changed(m, t, [Got(m, t) EXCEPT !.qos = q])
              /\ told' = [told EXCEPT ![t] = q]
         ELSE kids' = m /\ UNCHANGED told
  /\ used' = used \cup {t}
  /\ UNCHANGED hung

\* add_sub of a topic with more levels: SUB_ERROR_CODE, sooner or later.
SubscribeDeep(k) ==
  /\ ~hung
  /\ \E m \in WithChild(k), chain \in BOOLEAN :
       kids' = IF Has(m, k) THEN Changed(m, k, [Got(m, k) EXCEPT !.deep = @ \/ chain]) ELSE m
  /\ used' = used \cup {k}
  /\ UNCHANGED <<hung, told>>

\* Mutant: a level with something below it stays as it is.
UnsubscribeKeepsLevel(t) ==
  /\ ~hung /\ Has(kids, t)
  /\ kids' = IF Got(kids, t).deep THEN kids ELSE erase(kids, t)
  /\ told' = [told EXCEPT ![t] = EMPTY_QOS]
  /\ UNCHANGED <<hung, used>>

\* delete_sub of a topic of one level.
Unsubscribe(t) ==
  /\ ~hung /\ Has(kids, t)
  /\ kids' = IF Got(kids, t).deep
               THEN Changed(kids, t, [Got(kids, t) EXCEPT !.qos = EMPTY_QOS])
               ELSE erase(kids, t)
  /\ told' = [told EXCEPT ![t] = EMPTY_QOS]
  /\ UNCHANGED <<hung, used>>

\* The child is not looked for before it is used.
UnsubscribeUnknown(t) == ~hung /\ ~Has(kids, t) /\ Panic

\* delete_sub of a topic with more levels: cur_node stays at the root, so
\* that the next level looked for is its empty child, over and over if it has
\* one; if not nothing is done.
UnsubscribeDeep(k) ==
  /\ ~hung /\ Has(kids, k) /\ Has(kids, Blank)
  /\ hung' = TRUE
  /\ UNCHANGED <<kids, told, used>>

\* del_subs
DelSubs ==
  /\ ~hung
  /\ kids' = EmptyMap(STARTING_CAPACITY)
  /\ told' = [t \in Names |-> EMPTY_QOS]
  /\ used' = {}
  /\ UNCHANGED hung

Next ==
  \/ DelSubs
  \/ \E t \in Names : Unsubscribe(t) \/ UnsubscribeUnknown(t) \/ \E q \in Qos : Subscribe(t, q)
  \/ \E k \in Keys : SubscribeDeep(k) \/ UnsubscribeDeep(k)

Spec == Init /\ [][Next]_vars

-----------------------------------------------------------------------------
(* What must hold.                                                          *)

\* m_max_qos of the node of a filter: what the tree keeps of it.
MaxQos(f) == IF Has(kids, f) THEN Got(kids, f).qos ELSE EMPTY_QOS

\* is_subed_to of a topic of one level: the node of that name and no other.
\* Of any other topic it finds nothing.
is_subed_to(t) == MaxQos(t)

\* The nodes are where get looks for them and there once (myhashmap.hpp:186).
TypeOK ==
  /\ \A p \in Positions(kids) :
       /\ kids.chain[p[1]][p[2]] \in [key : Keys, qos : Qos \cup {EMPTY_QOS}, deep : BOOLEAN]
       /\ p[1] = Home(kids, kids.chain[p[1]][p[2]].key)
       /\ p[2] \in Place(kids, kids.chain[p[1]][p[2]].key)
  /\ kids.count \in Nat /\ kids.count >= Cardinality(Positions(kids))
  /\ hung \in BOOLEAN
  /\ told \in [Names -> Qos \cup {EMPTY_QOS}]
  /\ used \subseteq Keys

\* A message goes to a client at a level last granted for a filter that may
\* match its topic and is not given up since: its own name, or a wildcard
\* (Subscription.cpp:31-45, 61-76).  That no wildcard does match is not asked.
NothingUnasked ==
  \A t \in Plain : is_subed_to(t) \in {EMPTY_QOS} \cup {told[f] : f \in {t} \cup Wild}

\* Of a client that never asked for more first levels than one chain may hold
\* the tree keeps every filter as it was granted (myhashmap.hpp:293).
FewAreKept ==
  Cardinality(used) <= REHASH_SIZE_TIMES => \A f \in Names : MaxQos(f) = told[f]

\* A loop over a map sees every node once and ends (myhashmap.hpp:132-153):
\* publish_by_topic leaves no client out.
WalkSeesAll ==
  LET w == Walk(kids)
      n == Cardinality(Positions(kids))
  IN {w[i] : i \in 0..(n - 1)} = Positions(kids) /\ w[n] = End

Abstract == INSTANCE SubscriptionSet WITH
  Topics <- Names, NoQos <- EMPTY_QOS, subs <- [t \in Names |-> MaxQos(t)]

\* The filters kept are changed one at a time or lost all together.
ImplementsSet == Abstract!Spec
=============================================================================
