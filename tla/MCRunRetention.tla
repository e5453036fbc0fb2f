--------------------------- MODULE MCRunRetention ---------------------------
(***************************************************************************)
(* Model checking of RunRetention: runs of one experiment, since passes    *)
(* treat the runs of each experiment alike.                                *)
(***************************************************************************)
EXTENDS RunRetention

CONSTANTS r1, r2, train

OneExperiment == [r \in Runs |-> train]

=============================================================================
