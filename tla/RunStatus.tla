----------------------------- MODULE RunStatus -----------------------------
(***************************************************************************)
(* The status machine of a run: rlab-core/src/run/state.rs.  A status is   *)
(* written to run.json, run.yaml and status.txt of the run directory; the  *)
(* value "none" stands for a file that is not there yet.                   *)
(***************************************************************************)

\* The variants of the enum RunStatus.
Statuses == {"created", "planned", "running", "completed", "failed",
             "cancelled", "stale", "reproduced"}

\* The table of RunStatus::can_transition_to.
Transitions == { <<"created", "planned">>, <<"created", "running">>,
                 <<"planned", "running">>,
                 <<"running", "completed">>, <<"running", "failed">>,
                 <<"running", "cancelled">>,
                 <<"completed", "stale">>, <<"completed", "reproduced">>,
                 <<"failed", "stale">> }

CanTransitionTo(from, to) == <<from, to>> \in Transitions

\* What a status file of a run directory holds.
Recorded == Statuses \cup {"none"}

=============================================================================
