----------------------------- MODULE MCSessions -----------------------------
(* Instances of Sessions. *)
EXTENDS Sessions, TLC

CONSTANTS c1, c2

=============================================================================
