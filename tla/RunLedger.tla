----------------------------- MODULE RunLedger -----------------------------
(***************************************************************************)
(* What a run record promises to whoever reads the run directory, with     *)
(* none of the order in which RunSession writes its files: a run gathers   *)
(* evidence while it is open, its status only moves along the status       *)
(* machine, a status is recorded only when the evidence it stands for is   *)
(* already on disk, and the evidence of a run that ended never changes.    *)
(***************************************************************************)
EXTENDS RunStatus, Sequences

CONSTANTS Runs,      \* the runs of the project
          Metrics    \* the metric lines a run may append

VARIABLES status,    \* what run.json says of each run
          evidence,  \* the files of the run directory that back its status
          metrics    \* the lines of metrics.jsonl

vars == <<status, evidence, metrics>>

Evidence == {"reproducibility", "results", "summary", "error"}

\* What a reader may rely on when it sees a status.
Required(s) == CASE s = "running"   -> {"reproducibility"}
                 [] s = "completed" -> {"reproducibility", "results", "summary"}
                 [] s = "failed"    -> {"reproducibility", "error", "summary"}
                 [] OTHER           -> {}

\* A completed run shows no error.
Excluded(s) == IF s = "completed" THEN {"error"} ELSE {}

Ended == {"completed", "failed"}

Init == /\ status = [r \in Runs |-> "none"]
        /\ evidence = [r \in Runs |-> {}]
        /\ metrics = [r \in Runs |-> <<>>]

Open(r) == /\ status[r] = "none"
           /\ status' = [status EXCEPT ![r] = "created"]
           /\ UNCHANGED <<evidence, metrics>>

Gather(r, e) == /\ status[r] \in {"created", "running"}
                /\ evidence' = [evidence EXCEPT ![r] = @ \cup {e}]
                /\ UNCHANGED <<status, metrics>>

\* The summary is taken of the final metrics: none is appended after it.
Measure(r, m) == /\ status[r] = "running"
                 /\ "summary" \notin evidence[r]
                 /\ metrics' = [metrics EXCEPT ![r] = Append(@, m)]
                 /\ UNCHANGED <<status, evidence>>

Advance(r, s) == /\ CanTransitionTo(status[r], s)
                 /\ Required(s) \subseteq evidence[r]
                 /\ Excluded(s) \cap evidence[r] = {}
                 /\ status' = [status EXCEPT ![r] = s]
                 /\ UNCHANGED <<evidence, metrics>>

Next == \E r \in Runs : \/ Open(r)
                        \/ \E e \in Evidence : Gather(r, e)
                        \/ \E m \in Metrics : Measure(r, m)
                        \/ \E s \in {"running", "completed", "failed"} : Advance(r, s)

Spec == Init /\ [][Next]_vars

=============================================================================
