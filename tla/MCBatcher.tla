------------------------------ MODULE MCBatcher ------------------------------
(* Small instances of Batcher.tla for TLC. *)
EXTENDS BatcherProperties, TLC

CONSTANTS r1, r2, r3, idA, idB

\* r1 and r2 come from clients that chose the same id.
MCRequests == {r1, r2, r3}
MCIdOf     == [r \in MCRequests |-> IF r = r3 THEN idB ELSE idA]

\* Swapping r1 and r2 changes nothing: they have the same id.
MCSymmetry == Permutations({r1, r2})

\* The smallest set with a duplicate id and a batch.
MCTwo     == {r1, r2}
MCTwoIds  == [r \in MCTwo |-> idA]

=============================================================================
