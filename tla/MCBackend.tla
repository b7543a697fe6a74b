------------------------------ MODULE MCBackend ------------------------------
(* A small instance of Backend.tla for TLC. *)
EXTENDS BackendProperties

CONSTANTS b1, b2

MCBatches == {b1, b2}
MCSize    == [b \in MCBatches |-> 2]
=============================================================================
