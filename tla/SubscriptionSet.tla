--------------------------- MODULE SubscriptionSet ---------------------------
(***************************************************************************)
(* What a client can count on of its subscriptions: each stands for itself *)
(* with the level last granted, and none is lost unless all of them are.   *)
(***************************************************************************)
CONSTANTS
  Topics,
  Qos,
  NoQos  \* none of Qos: no subscription

VARIABLE subs

Init == subs = [t \in Topics |-> NoQos]

Ask(t, q) == subs' = [subs EXCEPT ![t] = q]
Cancel(t) == subs' = [subs EXCEPT ![t] = NoQos]
Forget == subs' = [t \in Topics |-> NoQos]

Next == Forget \/ \E t \in Topics : Cancel(t) \/ \E q \in Qos : Ask(t, q)

Spec == Init /\ [][Next]_subs
=============================================================================
