---------------------------- MODULE MCRunRecords ----------------------------
(***************************************************************************)
(* Model checking of RunRecords, and with it of RunSession: either a run   *)
(* of a session, which is inspected and frozen, or one of rlab exec.       *)
(***************************************************************************)
EXTENDS RunRecords

\* Bound: a run that is observed is no run of rlab exec, and no jobs run beside it; it
\* is inspected or frozen.
Bounded == /\ exec = {} => \A j \in Jobs : job'[j] = "none"
           /\ exec # {} => look' = <<>> /\ frost' = <<>>
           /\ look' = <<>> \/ frost' = <<>>

MCSpec == RInit /\ [][RNext /\ Bounded]_rvars /\ \A r \in Runs : WF_vars(Proceed(r))

=============================================================================
