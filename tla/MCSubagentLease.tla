--------------------------- MODULE MCSubagentLease ---------------------------
(* Instances of SubagentLease for TLC. *)
EXTENDS SubagentLease, TLC

CONSTANTS j1, j2

JobSymmetry == Permutations(Jobs)

=============================================================================
