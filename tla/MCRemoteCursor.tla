--------------------------- MODULE MCRemoteCursor ---------------------------
(* Instances of RemoteCursor: moves of up to two rows either way. *)
EXTENDS RemoteCursor

MoveSteps == -2..2

=============================================================================
