------------------------------ MODULE MCSidecar ------------------------------
(* Small instances of Sidecar.tla for TLC. *)
EXTENDS SidecarProperties

CONSTANTS r1, r2, idA

\* Two clients that chose the same id.
MCRequests == {r1, r2}
MCIdOf     == [r \in MCRequests |-> idA]
=============================================================================
