------------------------------ MODULE MCPubStore ------------------------------
(* Packet ids 2, 5 and 10 share the first home slot, 8 has the last one. *)
EXTENDS PubStore
=============================================================================
