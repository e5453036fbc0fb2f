----------------------------- MODULE RunRecords -----------------------------
(***************************************************************************)
(* What other commands make and see of the runs of RunSession while their  *)
(* sessions are at work: rlab exec, whose run wraps a shell command that   *)
(* is recorded as a job (jobs/store.rs); rlab jobs start, a job with no    *)
(* run; rlab cache clean, which removes the jobs and their logs; one rlab  *)
(* runs inspect (run/query.rs), which reads the files of a run one by one; *)
(* and one rlab freeze run, which copies them in the order of the          *)
(* directory.                                                              *)
(*                                                                         *)
(* A job has one row, written when it has ended, so cancel_job, which asks *)
(* for a running one, refuses every job and changes nothing.               *)
(***************************************************************************)
EXTENDS RunSession

CONSTANT Jobs          \* the jobs; a run of rlab exec is its own job

VARIABLES exec,        \* the runs that are made by rlab exec
          job,         \* the next step of start_job
          exit,        \* how the command of a job ended
          joblog,      \* the jobs whose log file is there
          rows,        \* the jobs that have a row in jobs.jsonl
          wiped,       \* the jobs that lost a file to rlab cache clean
          look,        \* the run that is inspected, and how many files were read
          shown,        \* what they held
          frost,       \* the run that is frozen: copying, stopped, frozen
          copied,      \* the files that were copied
          copy,        \* what they held
          settled      \* the run had ended when the freeze began

recVars == <<exec, job, exit, joblog, rows, wiped, look, shown, frost, copied, copy, settled>>
rvars == <<vars, recVars>>

jobVars == <<exec, job, exit, joblog, rows, wiped>>
lookVars == <<look, shown>>
frostVars == <<frost, copied, copy, settled>>

\* The files that are compared, of all that a run has.
Files == {"json", "metrics", "summary", "results", "error"}
Content(r) == [json |-> json[r], metrics |-> metrics[r], summary |-> summary[r],
               results |-> results[r], error |-> error[r]]
NoContent == [json |-> "none", metrics |-> <<>>, summary |-> {},
              results |-> FALSE, error |-> FALSE]

RInit == /\ Init
         /\ exec \in SUBSET (Runs \cap Jobs)
         /\ job = [j \in Jobs |-> "none"]
         /\ exit = [j \in Jobs |-> "none"]
         /\ joblog = {} /\ rows = {} /\ wiped = {}
         /\ look = <<>> /\ shown = NoContent
         /\ frost = <<>> /\ copied = {} /\ copy = NoContent /\ settled = FALSE

-----------------------------------------------------------------------------
(* The sessions.  Those of rlab exec log nothing, and complete when the    *)
(* job is recorded, whatever the command returned.                         *)

ExecCompletes(r) == r \in exec /\ job[r] = "recorded" /\ Complete(r)

\* A process that dies leaves its job as it is.
OwnStep(r) ==
  /\ \/ Proceed(r) \/ StartRun(r) \/ Crash(r)
     \/ r \notin exec /\ (Call(r) \/ Abandon(r))
     \/ ExecCompletes(r)
     \/ r \in exec /\ pc[r] # "open" /\ Abandon(r)
  /\ UNCHANGED recVars

-----------------------------------------------------------------------------
(* start_job: the command, its log, its row.                               *)

Owner(j) == j \in exec => pc[j] = "open"
MyJob(j, from, to) == /\ job[j] = from /\ Owner(j) /\ (j \in Runs => j \in exec)
                      /\ job' = [job EXCEPT ![j] = to]

StartJob(j) == /\ MyJob(j, "none", "running")
               /\ UNCHANGED <<vars, exec, exit, joblog, rows, wiped, lookVars, frostVars>>

\* External: the command ends.
JobEnds(j, how) == /\ MyJob(j, "running", "ran")
                   /\ exit' = [exit EXCEPT ![j] = how]
                   /\ UNCHANGED <<vars, exec, joblog, rows, wiped, lookVars, frostVars>>

WriteJobLog(j) == /\ MyJob(j, "ran", "logged")
                  /\ joblog' = joblog \cup {j}
                  /\ UNCHANGED <<vars, exec, exit, rows, wiped, lookVars, frostVars>>

RecordJob(j) == /\ MyJob(j, "logged", "recorded")
                /\ rows' = rows \cup {j}
                /\ UNCHANGED <<vars, exec, exit, joblog, wiped, lookVars, frostVars>>

\* A write fails, or the shell cannot be started; rlab exec drops its session.
JobError(j) == /\ \E from \in {"none", "ran", "logged"} : MyJob(j, from, "error")
               /\ IF j \in exec THEN Abandon(j) ELSE UNCHANGED vars
               /\ UNCHANGED <<exec, exit, joblog, rows, wiped, lookVars, frostVars>>

\* rlab cache clean: what is there is gone, what is written later is not.
CleanCache == /\ joblog \cup rows # {}
              /\ joblog' = {} /\ rows' = {}
              /\ wiped' = wiped \cup joblog \cup rows
              /\ UNCHANGED <<vars, exec, job, exit, lookVars, frostVars>>

-----------------------------------------------------------------------------
(* inspect_run: run.json, then what the run has besides.                   *)

\* Mutant: the status is read last.
ReadOrderStatusLast == <<"summary", "results", "error", "json">>

ReadOrder == <<"json", "summary", "results", "error">>

\* A run with no run.json is an error; so it is for the queries over all runs.
Inspect(r) == /\ look = <<>> /\ json[r] # "none"
              /\ look' = <<r, 0>>
              /\ UNCHANGED <<vars, jobVars, shown, frostVars>>

ReadFile == /\ look # <<>> /\ look[2] < Len(ReadOrder)
            /\ look' = [look EXCEPT ![2] = @ + 1]
            /\ LET f == ReadOrder[look'[2]]
               IN shown' = [shown EXCEPT ![f] = Content(look[1])[f]]
            /\ UNCHANGED <<vars, jobVars, frostVars>>

-----------------------------------------------------------------------------
(* rlab freeze run: it asks only for the directory.                        *)

Freeze(r) == /\ frost = <<>> /\ pc[r] # "new"
             /\ frost' = <<r, "copying">>
             /\ settled' = (pc[r] \in Ended)
             /\ UNCHANGED <<vars, jobVars, lookVars, copied, copy>>

Copying == frost # <<>> /\ frost[2] = "copying"

CopyFile(f) == /\ Copying /\ f \notin copied
               /\ copied' = copied \cup {f}
               /\ copy' = [copy EXCEPT ![f] = Content(frost[1])[f]]
               /\ UNCHANGED <<vars, jobVars, lookVars, frost, settled>>

FreezeEnds(how) == /\ Copying
                   /\ frost' = <<frost[1], how>>
                   /\ UNCHANGED <<vars, jobVars, lookVars, copied, copy, settled>>

\* Mutant: frozen.txt is not the last.
MarkFrozenEarly == copied # {} /\ FreezeEnds("frozen")

\* frozen.txt is written when all is copied; a copy that fails has none.
MarkFrozen == copied = Files /\ FreezeEnds("frozen")
FreezeError == FreezeEnds("stopped")

-----------------------------------------------------------------------------

JobStep(j) == \/ StartJob(j) \/ (\E how \in {"completed", "failed"} : JobEnds(j, how))
              \/ WriteJobLog(j) \/ RecordJob(j) \/ JobError(j)

Observe == \/ \E r \in Runs : Inspect(r) \/ Freeze(r)
           \/ ReadFile
           \/ \E f \in Files : CopyFile(f)
           \/ MarkFrozen \/ FreezeError

ROver == (\A r \in Runs : pc[r] \in Ended) /\ UNCHANGED rvars

RNext == \/ \E r \in Runs : OwnStep(r)
         \/ \E j \in Jobs : JobStep(j)
         \/ CleanCache
         \/ Observe
         \/ ROver

RSpec == RInit /\ [][RNext]_rvars

-----------------------------------------------------------------------------
(* Properties, besides those of RunSession.                                *)

\* A run that inspection shows as completed or failed is shown with all that backs
\* it, and with no more than it will ever have, though the files are read one by one
\* while the session writes them.
InspectionIsBacked ==
  (look # <<>> /\ look[2] = Len(ReadOrder) /\ shown.json \in Terminal) =>
     \A f \in Files \ {"metrics"} : shown[f] = Content(look[1])[f]

FrozenIsWhole ==
  (frost # <<>> /\ frost[2] = "frozen" /\ settled) => copy = Content(frost[1])

\* rlab jobs logs: the job is looked up by its row, then its log is read.
JobLogs(j) == j \in rows /\ j \in joblog

JobsResolve ==
  /\ \A j \in rows \ wiped : JobLogs(j)
  /\ \A r \in exec \ wiped : json[r] = "completed" => r \in rows

\* A copy that is marked frozen, of a run that had ended when it was begun, is the run.
\* A job that is listed has its log, and a completed run of rlab exec has its job,
\* whatever failed, unless rlab cache clean removed a part of it.
RecordsAreWhole == FrozenIsWhole /\ JobsResolve

=============================================================================
