---------------------------- MODULE MCTxRecovery ----------------------------
(* Instances of TxRecovery: the rows the table starts with. *)
EXTENDS TxRecovery

CONSTANTS a, b

OneRow  == <<[val |-> a, del |-> FALSE]>>
TwoRows == <<[val |-> a, del |-> FALSE], [val |-> b, del |-> FALSE]>>

=============================================================================
