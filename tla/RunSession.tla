----------------------------- MODULE RunSession -----------------------------
(***************************************************************************)
(* RunSession of rlab-core/src/run/lifecycle.rs: the one writer of a run   *)
(* directory, from RunSession::create to complete, fail or fail_with_      *)
(* result, one action per file it writes.  Every write goes through the    *)
(* temporary-file-and-rename helpers of fs/atomic.rs, so a file has its    *)
(* old or its new content; between two writes the process may die (Crash), *)
(* and any write may return an error, which drops the session (Abandon):   *)
(* no caller holds on to a session after an error.                         *)
(*                                                                         *)
(* Run identifiers carry a nanosecond timestamp, so two sessions never     *)
(* share a directory here.  Log and note lines are left out: no property   *)
(* reads them.  What finalize_storage does to the artifact store is the    *)
(* subject of ArtifactStore; here it is one step under the lock.  Pruning  *)
(* is off, as it is by default (keep_per_experiment = 0): no run directory *)
(* is removed.                                                             *)
(***************************************************************************)
EXTENDS RunStatus, Sequences, Naturals

CONSTANTS Runs,        \* the runs, each with its own directory
          Metrics,     \* the metric lines a caller may append
          MaxLines     \* bound on metrics.jsonl and on artifacts.jsonl

ASSUME BoundAssumption == MaxLines \in Nat

VARIABLES pc,         \* the next write of the session
          mem,        \* RunDirectory.status, in memory
          lock,       \* .rlab.lock: absent, held by flock, or left by a dead process
          json,       \* the status in run.json
          yaml,       \* the status in run.yaml
          text,       \* status.txt
          captured,   \* the reproducibility directory is complete
          metrics,    \* the lines of metrics.jsonl
          artifacts,  \* the number of lines of artifacts.jsonl
          summary,    \* metrics_summary.json: {} or {the metrics it was computed from}
          results,    \* results.json exists
          error,      \* logs/error.txt exists
          report,     \* the status shown by report.md
          verdict,    \* the closing call the caller made
          outcome     \* what the caller of create or of the closing call got

files == <<json, yaml, text, captured, metrics, artifacts, summary, results, error, report>>
vars == <<pc, mem, lock, files, verdict, outcome>>

-----------------------------------------------------------------------------

Creating  == {"manifest", "yaml", "status", "capture"}
Moving    == {"advance", "advanceYaml", "advanceStatus"}
Closing   == {"error", "summary", "report", "storage"}
Live      == Creating \cup Moving \cup Closing \cup {"open"}
Ended     == {"closed", "crashed"}
Steps     == {"new"} \cup Live \cup Ended

Verdicts  == {"none", "complete", "fail", "fail_with_result"}
Terminal  == {"completed", "failed"}

Init == /\ pc = [r \in Runs |-> "new"]
        /\ mem = [r \in Runs |-> "created"]
        /\ lock = [r \in Runs |-> "absent"]
        /\ json = [r \in Runs |-> "none"]
        /\ yaml = [r \in Runs |-> "none"]
        /\ text = [r \in Runs |-> "none"]
        /\ captured = [r \in Runs |-> FALSE]
        /\ metrics = [r \in Runs |-> <<>>]
        /\ artifacts = [r \in Runs |-> 0]
        /\ summary = [r \in Runs |-> {}]
        /\ results = [r \in Runs |-> FALSE]
        /\ error = [r \in Runs |-> FALSE]
        /\ report = [r \in Runs |-> "none"]
        /\ verdict = [r \in Runs |-> "none"]
        /\ outcome = [r \in Runs |-> "none"]

\* The session of r writes one file, or none, and goes on to the step "to".
Goto(r, from, to) == /\ pc[r] = from
                     /\ pc' = [pc EXCEPT ![r] = to]

-----------------------------------------------------------------------------
(* RunSession::create                                                      *)

\* The directories are made and the lock file is created and locked.
StartRun(r) ==
  /\ Goto(r, "new", "manifest")
  /\ lock' = [lock EXCEPT ![r] = "held"]
  /\ UNCHANGED <<mem, files, verdict, outcome>>

WriteInitialManifest(r) ==
  /\ Goto(r, "manifest", "yaml")
  /\ json' = [json EXCEPT ![r] = mem[r]]
  /\ UNCHANGED <<mem, lock, yaml, text, captured, metrics, artifacts, summary,
                 results, error, report, verdict, outcome>>

WriteInitialYaml(r) ==
  /\ Goto(r, "yaml", "status")
  /\ yaml' = [yaml EXCEPT ![r] = mem[r]]
  /\ UNCHANGED <<mem, lock, json, text, captured, metrics, artifacts, summary,
                 results, error, report, verdict, outcome>>

\* status.txt, then params.json and notes.jsonl, which nothing here reads.
WriteInitialStatus(r) ==
  /\ Goto(r, "status", "capture")
  /\ text' = [text EXCEPT ![r] = "created"]
  /\ UNCHANGED <<mem, lock, json, yaml, captured, metrics, artifacts, summary,
                 results, error, report, verdict, outcome>>

\* Mutant: the environment is not captured.
SkipReproducibility(r) == Goto(r, "capture", "advance") /\ UNCHANGED <<mem, lock, files, verdict, outcome>>

CaptureReproducibility(r) ==
  /\ Goto(r, "capture", "advance")
  /\ captured' = [captured EXCEPT ![r] = TRUE]
  /\ UNCHANGED <<mem, lock, json, yaml, text, metrics, artifacts, summary,
                 results, error, report, verdict, outcome>>

-----------------------------------------------------------------------------
(* RunSession::transition: the check, the status in memory, then its three *)
(* files, run.json first and status.txt last.                              *)

Target(r) == CASE verdict[r] = "none"     -> "running"
               [] verdict[r] = "complete" -> "completed"
               [] OTHER                   -> "failed"

TransitionManifest(r) ==
  /\ Goto(r, "advance", "advanceYaml")
  /\ CanTransitionTo(mem[r], Target(r))
  /\ mem' = [mem EXCEPT ![r] = Target(r)]
  /\ json' = [json EXCEPT ![r] = Target(r)]
  /\ UNCHANGED <<lock, yaml, text, captured, metrics, artifacts, summary,
                 results, error, report, verdict, outcome>>

\* Mutant: status.txt before run.yaml.
TransitionTextFirst(r) ==
  /\ Goto(r, "advanceYaml", "advanceStatus")
  /\ text' = [text EXCEPT ![r] = mem[r]]
  /\ UNCHANGED <<mem, lock, json, yaml, captured, metrics, artifacts, summary,
                 results, error, report, verdict, outcome>>

TransitionYaml(r) ==
  /\ Goto(r, "advanceYaml", "advanceStatus")
  /\ yaml' = [yaml EXCEPT ![r] = mem[r]]
  /\ UNCHANGED <<mem, lock, json, text, captured, metrics, artifacts, summary,
                 results, error, report, verdict, outcome>>

\* create returns the session after the first transition.
TransitionStatus(r) ==
  /\ Goto(r, "advanceStatus", IF verdict[r] = "none" THEN "open" ELSE "report")
  /\ text' = [text EXCEPT ![r] = mem[r]]
  /\ UNCHANGED <<mem, lock, json, yaml, captured, metrics, artifacts, summary,
                 results, error, report, verdict, outcome>>

-----------------------------------------------------------------------------
(* Calls on an open session.                                               *)

\* Mutant: the session stays usable while it is closed.
AppendMetricAnyTime(r, m) ==
  /\ pc[r] \in Live
  /\ Len(metrics[r]) < MaxLines
  /\ metrics' = [metrics EXCEPT ![r] = Append(@, m)]
  /\ UNCHANGED <<pc, mem, lock, json, yaml, text, captured, artifacts, summary,
                 results, error, report, verdict, outcome>>

AppendMetric(r, m) ==
  /\ pc[r] = "open"
  /\ Len(metrics[r]) < MaxLines
  /\ metrics' = [metrics EXCEPT ![r] = Append(@, m)]
  /\ UNCHANGED <<pc, mem, lock, json, yaml, text, captured, artifacts, summary,
                 results, error, report, verdict, outcome>>

\* The artifact is in the store before its line is (see ArtifactStore).
SaveArtifactReference(r) ==
  /\ pc[r] = "open"
  /\ artifacts[r] < MaxLines
  /\ artifacts' = [artifacts EXCEPT ![r] = @ + 1]
  /\ UNCHANGED <<pc, mem, lock, json, yaml, text, captured, metrics, summary,
                 results, error, report, verdict, outcome>>

\* Mutant: the summary is not taken.
CompleteUnsummarised(r) ==
  /\ Goto(r, "open", "advance")
  /\ verdict' = [verdict EXCEPT ![r] = "complete"]
  /\ results' = [results EXCEPT ![r] = TRUE]
  /\ UNCHANGED <<mem, lock, json, yaml, text, captured, metrics, artifacts, summary,
                 error, report, outcome>>

\* The three closing calls, each with the first file it writes.
Complete(r) ==
  /\ Goto(r, "open", "summary")
  /\ verdict' = [verdict EXCEPT ![r] = "complete"]
  /\ results' = [results EXCEPT ![r] = TRUE]
  /\ UNCHANGED <<mem, lock, json, yaml, text, captured, metrics, artifacts, summary,
                 error, report, outcome>>

Fail(r) ==
  /\ Goto(r, "open", "summary")
  /\ verdict' = [verdict EXCEPT ![r] = "fail"]
  /\ error' = [error EXCEPT ![r] = TRUE]
  /\ UNCHANGED <<mem, lock, json, yaml, text, captured, metrics, artifacts, summary,
                 results, report, outcome>>

FailWithResult(r) ==
  /\ Goto(r, "open", "error")
  /\ verdict' = [verdict EXCEPT ![r] = "fail_with_result"]
  /\ results' = [results EXCEPT ![r] = TRUE]
  /\ UNCHANGED <<mem, lock, json, yaml, text, captured, metrics, artifacts, summary,
                 error, report, outcome>>

-----------------------------------------------------------------------------
(* The rest of a closing call.                                             *)

WriteError(r) ==
  /\ Goto(r, "error", "summary")
  /\ error' = [error EXCEPT ![r] = TRUE]
  /\ UNCHANGED <<mem, lock, json, yaml, text, captured, metrics, artifacts, summary,
                 results, report, verdict, outcome>>

\* write_metric_summary reads metrics.jsonl back: the last value of each name.
WriteMetricSummary(r) ==
  /\ Goto(r, "summary", "advance")
  /\ summary' = [summary EXCEPT ![r] = {metrics[r]}]
  /\ UNCHANGED <<mem, lock, json, yaml, text, captured, metrics, artifacts,
                 results, error, report, verdict, outcome>>

\* The last write of fail and fail_with_result, whose session is then dropped.
WriteReport(r) ==
  /\ Goto(r, "report", IF verdict[r] = "complete" THEN "storage" ELSE "closed")
  /\ report' = [report EXCEPT ![r] = mem[r]]
  /\ lock' = [lock EXCEPT ![r] = IF verdict[r] = "complete" THEN @ ELSE "absent"]
  /\ outcome' = [outcome EXCEPT ![r] = IF verdict[r] = "complete" THEN @ ELSE "failed"]
  /\ UNCHANGED <<mem, json, yaml, text, captured, metrics, artifacts, summary,
                 results, error, verdict>>

\* Mutant: storage management waits for the lock its own session holds.
FinalizeStorageLocking(r) ==
  /\ lock[r] = "absent"
  /\ Goto(r, "storage", "closed")
  /\ outcome' = [outcome EXCEPT ![r] = "completed"]
  /\ UNCHANGED <<mem, lock, files, verdict>>

\* Storage management never fails the run: whatever it returns, complete does Ok.
FinalizeStorage(r) ==
  /\ Goto(r, "storage", "closed")
  /\ lock' = [lock EXCEPT ![r] = "absent"]
  /\ outcome' = [outcome EXCEPT ![r] = "completed"]
  /\ UNCHANGED <<mem, files, verdict>>

-----------------------------------------------------------------------------
(* Failures.                                                               *)

\* A `?' of create, of a closing call, or of the caller between them: the
\* session is dropped, which unlocks and removes the lock file.
Abandon(r) ==
  /\ pc[r] \in ({"new"} \cup Live) \ {"storage"}
  /\ pc' = [pc EXCEPT ![r] = "closed"]
  /\ lock' = [lock EXCEPT ![r] = "absent"]
  /\ outcome' = [outcome EXCEPT ![r] = "err"]
  /\ UNCHANGED <<mem, files, verdict>>

\* The process dies: its flock goes with it, the lock file stays.
Crash(r) ==
  /\ pc[r] \in Live
  /\ pc' = [pc EXCEPT ![r] = "crashed"]
  /\ lock' = [lock EXCEPT ![r] = "left"]
  /\ UNCHANGED <<mem, files, verdict, outcome>>

-----------------------------------------------------------------------------

\* The steps a session takes by itself, once it was asked to.
Create(r) == \/ WriteInitialManifest(r)
             \/ WriteInitialYaml(r)
             \/ WriteInitialStatus(r)
             \/ CaptureReproducibility(r)
Transition(r) == \/ TransitionManifest(r)
                 \/ TransitionYaml(r)
                 \/ TransitionStatus(r)
Close(r) == \/ WriteError(r)
            \/ WriteMetricSummary(r)
            \/ WriteReport(r)
            \/ FinalizeStorage(r)
Proceed(r) == Create(r) \/ Transition(r) \/ Close(r)

\* The calls of its user.
Call(r) == \/ StartRun(r)
           \/ \E m \in Metrics : AppendMetric(r, m)
           \/ SaveArtifactReference(r)
           \/ Complete(r)
           \/ Fail(r)
           \/ FailWithResult(r)

Done == /\ \A r \in Runs : pc[r] \in Ended
        /\ UNCHANGED vars

Next == \/ \E r \in Runs : Proceed(r) \/ Call(r) \/ Abandon(r) \/ Crash(r)
        \/ Done

Spec == Init /\ [][Next]_vars

\* A process that is not killed executes its next statement.
FairSpec == Spec /\ \A r \in Runs : WF_vars(Proceed(r))

-----------------------------------------------------------------------------
(* Properties.                                                             *)

TypeOK ==
  /\ pc \in [Runs -> Steps]
  /\ mem \in [Runs -> Statuses]
  /\ lock \in [Runs -> {"absent", "held", "left"}]
  /\ json \in [Runs -> Recorded]
  /\ yaml \in [Runs -> Recorded]
  /\ text \in [Runs -> Recorded]
  /\ captured \in [Runs -> BOOLEAN]
  /\ metrics \in [Runs -> Seq(Metrics)]
  /\ artifacts \in [Runs -> Nat]
  /\ summary \in [Runs -> SUBSET Seq(Metrics)]
  /\ results \in [Runs -> BOOLEAN]
  /\ error \in [Runs -> BOOLEAN]
  /\ report \in [Runs -> Recorded]
  /\ verdict \in [Runs -> Verdicts]
  /\ outcome \in [Runs -> {"none", "completed", "failed", "err"}]

\* Whoever reads status.txt (garbage collection, retention) never sees more
\* than whoever reads run.json (run listings): at every instant, and after a
\* crash or an error between the three writes of a transition, each file holds
\* the status of the file written before it or the one that came before.
Successors(s) == {s} \cup {t \in Recorded : CanTransitionTo(s, t)}
                     \cup (IF s = "none" THEN {"created"} ELSE {})
StatusFilesInOrder ==
  \A r \in Runs : /\ yaml[r] \in {json[r], text[r]}
                  /\ json[r] \in Successors(text[r])
                  /\ report[r] # "none" => report[r] = text[r]

\* A run that reads as completed has a captured environment, a result, and a
\* summary of all its metrics, and shows no error, whatever died since.
CompletedIsBacked ==
  \A r \in Runs : "completed" \in {json[r], yaml[r], text[r], report[r]} =>
                    /\ captured[r] /\ results[r] /\ ~error[r]
                    /\ summary[r] = {metrics[r]}

\* A run that reads as failed says why, and has the summary of the metrics
\* logged until then.
FailedIsBacked ==
  \A r \in Runs : "failed" \in {json[r], yaml[r], text[r], report[r]} =>
                    /\ captured[r] /\ error[r]
                    /\ summary[r] = {metrics[r]}

\* What a closing call returns is what every file of the run says; a session
\* that returned an error or crashed promises nothing.
OutcomeIsOnDisk ==
  \A r \in Runs : outcome[r] \in Terminal =>
                    {json[r], yaml[r], text[r], report[r]} = {outcome[r]}

\* What the files of a run say is one story: see the two above.
StatusIsTold == StatusFilesInOrder /\ OutcomeIsOnDisk

\* A run that reads as ended, whichever of its files is read, has what backs it.
EndedIsBacked == CompletedIsBacked /\ FailedIsBacked

\* The directory is locked for as long as its session may still write to it,
\* the storage management of a completed run included.
LockedWhileLive == \A r \in Runs : pc[r] \in Live <=> lock[r] = "held"

\* Once run.json shows an ended run, its status and what backs it never change.
Unchanging(r) == /\ json'[r] = json[r]
                 /\ metrics'[r] = metrics[r] /\ artifacts'[r] = artifacts[r]
                 /\ summary'[r] = summary[r] /\ captured'[r] = captured[r]
                 /\ results'[r] = results[r] /\ error'[r] = error[r]
EndedIsFrozen == [][\A r \in Runs : json[r] \in Terminal => Unchanging(r)]_vars

\* A closing call ends the session: it returns, or the process died in it.
ClosingCallEnds == \A r \in Runs : (verdict[r] # "none") ~> (pc[r] \in Ended)

\* The session implements the run ledger.
Backing(r) == (IF captured[r] THEN {"reproducibility"} ELSE {})
         \cup (IF results[r] THEN {"results"} ELSE {})
         \cup (IF error[r] THEN {"error"} ELSE {})
         \cup (IF summary[r] # {} THEN {"summary"} ELSE {})

Ledger == INSTANCE RunLedger WITH status <- json,
                                  evidence <- [r \in Runs |-> Backing(r)]

\* Every behaviour of the session is one of RunLedger: run.json follows the
\* status machine, and is never ahead of the files that back it.
LedgerSpec == Ledger!Spec

=============================================================================
