---------------------------- MODULE MCSessions ----------------------------
(* Three descriptors: one recorded and two that share its client. *)
EXTENDS Sessions
===========================================================================
