--------------------------- MODULE ConnLifecycle ---------------------------
(***************************************************************************)
(* What the broker promises about a descriptor: the phases of              *)
(* sock_cid::phase belong to a connection.  A connection is accepted,      *)
(* completes its own TLS handshake in one or several rounds, speaks MQTT,  *)
(* and may be closed at any point; the next connection on the same         *)
(* descriptor starts from the beginning.                                   *)
(***************************************************************************)
CONSTANT Socks
VARIABLE stage

Init == stage = [s \in Socks |-> "closed"]

Accept(s) == stage[s] = "closed" /\ stage' = [stage EXCEPT ![s] = "accepted"]

Handshake(s) ==
  /\ stage[s] \in {"accepted", "tls_handshake"}
  /\ \E phase \in {"tls_handshake", "mqtt"} : stage' = [stage EXCEPT ![s] = phase]

Close(s) == stage[s] # "closed" /\ stage' = [stage EXCEPT ![s] = "closed"]

Next == \E s \in Socks : Accept(s) \/ Handshake(s) \/ Close(s)

Spec == Init /\ [][Next]_stage
=============================================================================
