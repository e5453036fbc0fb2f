--------------------------- MODULE MCHostExecution ---------------------------
(***************************************************************************)
(* Model checking of HostExecution: one run, since runs are executed by    *)
(* rlab processes that share nothing but the artifact store.               *)
(***************************************************************************)
EXTENDS HostExecution

=============================================================================
