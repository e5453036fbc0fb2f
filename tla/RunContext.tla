----------------------------- MODULE RunContext -----------------------------
(***************************************************************************)
(* What callables do through their context (rlab-py/src/py_run.rs), each   *)
(* in the runner process of its run: make a workspace for an external      *)
(* program (ExternalWorkspace), run external commands in it with a timeout *)
(* (rlab-core/src/external/runners.rs), write files and record artifacts.  *)
(* A record names a path; the files are read when the callable has         *)
(* returned and its events are replayed (HostExecution).  The processes of *)
(* a command may leave processes of their own behind.                      *)
(*                                                                         *)
(* Here all commands of a run have one name, hence one stdout.txt, and the *)
(* root of their artifacts is the outputs directory of the workspace.      *)
(* Docker is left out: nothing in the repository asks for that runner.     *)
(***************************************************************************)
EXTENDS ExternalWorkspace

CONSTANTS MaxCalls     \* bound on the calls a callable makes of its context

ASSUME CallAssumption == MaxCalls \in Nat

VARIABLES life,      \* the callable
          calls,     \* the calls it has made; a command is known by the number of its call
          step,      \* where run_process or run_process_to_files is
          command,   \* the last command of the run: its capture, its timeout
          child,     \* the process of that command
          expired,   \* timed_out
          heirs,     \* the process that each command left behind
          result,    \* how the last ctx.run_external ended
          log,       \* stdout.txt: the command that created it, those that wrote to it
          outputs,   \* a command wrote to the outputs of the run
          file,      \* the version of the file the callable writes
          records,   \* the records made: of the log, the outputs, versions of the file
          stored     \* what the replay of the events ingested

callVars == <<life, calls, step, command, child, expired, heirs, result, log, outputs,
              file, records, stored>>
cvars == <<wsVars, callVars>>

NoLog == [of |-> 0, by |-> {}]
NoRecord == [log |-> FALSE, outputs |-> FALSE, versions |-> {}]
Nothing == [log |-> NoLog, outputs |-> FALSE, file |-> 0]

CInit == /\ WInit
         /\ life \in [Callers -> {"calling", "dead"}]
         /\ calls = [r \in Callers |-> 0]
         /\ step = [r \in Callers |-> "none"]
         /\ command = [r \in Callers |-> [capture |-> "files", timed |-> FALSE]]
         /\ child = [r \in Callers |-> "off"]
         /\ expired = [r \in Callers |-> FALSE]
         /\ heirs = [r \in Callers |-> [n \in 1..MaxCalls |-> "none"]]
         /\ result = [r \in Callers |-> "none"]
         /\ log = [r \in Callers |-> NoLog]
         /\ outputs = [r \in Callers |-> FALSE]
         /\ file = [r \in Callers |-> 0]
         /\ records = [r \in Callers |-> NoRecord]
         /\ stored = [r \in Callers |-> Nothing]

Idle(r) == life[r] = "calling" /\ at[r] = "idle" /\ step[r] = "none"
Calls(r) == /\ Idle(r) /\ calls[r] < MaxCalls
            /\ calls' = [calls EXCEPT ![r] = @ + 1]

-----------------------------------------------------------------------------
(* ctx.external_workspace                                                  *)

BeginWorkspace(r) ==
  /\ Calls(r) /\ CallWorkspace(r)
  /\ UNCHANGED <<life, step, command, child, expired, heirs, result, log, outputs,
                 file, records, stored>>

InWorkspace(r) == WorkspaceStep(r) /\ UNCHANGED callVars

\* The error is raised in the callable, which may go on and call again.
WorkspaceError(r) == Stop(r) /\ UNCHANGED callVars

-----------------------------------------------------------------------------
(* ctx.run_external, whose output goes to files, and command.run(), whose  *)
(* output comes through pipes.                                             *)

\* A program that cannot be started is an error, before anything is recorded.
Start(r, capture, timed, newLog) ==
  /\ Calls(r)
  /\ command' = [command EXCEPT ![r] = [capture |-> capture, timed |-> timed]]
  /\ expired' = [expired EXCEPT ![r] = FALSE]
  /\ log' = IF capture = "files" THEN [log EXCEPT ![r] = newLog] ELSE log
  /\ \/ /\ step' = [step EXCEPT ![r] = "waiting"]
        /\ child' = [child EXCEPT ![r] = "alive"]
        /\ result' = [result EXCEPT ![r] = "none"]
     \/ /\ result' = [result EXCEPT ![r] = "raised"]
        /\ UNCHANGED <<step, child>>
  /\ UNCHANGED <<wsVars, life, heirs, outputs, file, records, stored>>

\* Mutant: the output is appended to the file of an earlier command.
StartAppending(r, capture, timed) ==
  Start(r, capture, timed, [of |-> calls'[r], by |-> log[r].by])

\* The files of the name are created or truncated.
StartCommand(r, capture, timed) ==
  Start(r, capture, timed, [of |-> calls'[r], by |-> {}])

Writers(r) == {n \in 1..MaxCalls : heirs[r][n] = "running"}
                \cup (IF child[r] = "alive" THEN {calls[r]} ELSE {})

\* External: a process of a command writes to its standard output, and to the
\* output path.
WriteLog(r, n) ==
  /\ n \in Writers(r) /\ command[r].capture = "files"
  /\ log' = [log EXCEPT ![r].by = @ \cup {n}]
  /\ UNCHANGED <<wsVars, life, calls, step, command, child, expired, heirs, result,
                 outputs, file, records, stored>>

Produce(r, n) ==
  /\ n \in Writers(r) /\ OutputsOf(r) = r
  /\ outputs' = [outputs EXCEPT ![r] = TRUE]
  /\ UNCHANGED <<wsVars, life, calls, step, command, child, expired, heirs, result,
                 log, file, records, stored>>

Left(r, leaves) == IF leaves THEN [heirs EXCEPT ![r][calls[r]] = "running"] ELSE heirs

\* External: the program ends with an exit code, and may leave a process behind,
\* which holds the files or the pipes open.
ChildEnds(r, code, leaves) ==
  /\ child[r] = "alive"
  /\ child' = [child EXCEPT ![r] = code]
  /\ heirs' = Left(r, leaves)
  /\ UNCHANGED <<wsVars, life, calls, step, command, expired, result, log, outputs,
                 file, records, stored>>

HeirEnds(r, n) ==
  /\ heirs[r][n] = "running"
  /\ heirs' = [heirs EXCEPT ![r][n] = "gone"]
  /\ UNCHANGED <<wsVars, life, calls, step, command, child, expired, result, log, outputs,
                 file, records, stored>>

\* wait_timeout gives up: the process is alive then.
Expire(r) ==
  /\ step[r] = "waiting" /\ command[r].timed /\ child[r] = "alive"
  /\ step' = [step EXCEPT ![r] = "killing"]
  /\ expired' = [expired EXCEPT ![r] = TRUE]
  /\ UNCHANGED <<wsVars, life, calls, command, child, heirs, result, log, outputs,
                 file, records, stored>>

\* kill: the process may have ended in between; its own children live on.
Kill(r, leaves) ==
  /\ step[r] = "killing"
  /\ step' = [step EXCEPT ![r] = "reaping"]
  /\ IF child[r] = "alive"
     THEN child' = [child EXCEPT ![r] = "killed"] /\ heirs' = Left(r, leaves)
     ELSE UNCHANGED <<child, heirs>>
  /\ UNCHANGED <<wsVars, life, calls, command, expired, result, log, outputs,
                 file, records, stored>>

Reaped(r) == step[r] \in {"waiting", "reaping"} /\ child[r] \notin {"off", "alive"}

AwaitReaders(r) ==
  /\ step' = [step EXCEPT ![r] = "joining"]
  /\ UNCHANGED <<wsVars, life, calls, command, child, expired, heirs, result, log,
                 outputs, file, records, stored>>

\* Mutants: the exit code alone decides; the end of the output is waited for
\* whatever it goes to.
FailedByCode(r) == child[r] # "exit0"
ReapWaiting(r) == Reaped(r) /\ AwaitReaders(r)

Failed(r) == expired[r] \/ child[r] # "exit0"

\* register_external_artifacts: the outputs that are there.
Registered(r) == records[r].outputs \/ outputs[r]

\* The logs are recorded, and the outputs that are there, before a command that
\* failed is raised; command.run() records nothing and never raises.
Finish(r) ==
  /\ step' = [step EXCEPT ![r] = "none"]
  /\ child' = [child EXCEPT ![r] = "off"]
  /\ IF command[r].capture = "files"
     THEN /\ records' = [records EXCEPT ![r].log = TRUE,
                                         ![r].outputs = Registered(r)]
          /\ result' = [result EXCEPT ![r] = IF Failed(r) THEN "raised" ELSE child[r]]
     ELSE UNCHANGED <<records, result>>
  /\ UNCHANGED <<wsVars, life, calls, command, expired, heirs, log, outputs, file, stored>>

\* wait: with pipes, both are read to their ends before the call returns.
Reap(r) == /\ Reaped(r)
           /\ IF command[r].capture = "files" THEN Finish(r) ELSE AwaitReaders(r)

Join(r) == step[r] = "joining" /\ heirs[r][calls[r]] # "running" /\ Finish(r)

-----------------------------------------------------------------------------
(* The files of the callable itself, and its end.                          *)

\* A file is written under the outputs directory of the run, and recorded or not.
WriteOutput(r, recorded) ==
  /\ Calls(r)
  /\ file' = [file EXCEPT ![r] = @ + 1]
  /\ records' = IF recorded THEN [records EXCEPT ![r].versions = @ \cup {file'[r]}] ELSE records
  /\ UNCHANGED <<wsVars, life, step, command, child, expired, heirs, result, log, outputs, stored>>

\* write_json, save_table and their like record what they write; the sections of a
\* report are recorded with its manifest, when it is saved; those that are written
\* later too.
WriteFile(r) == WriteOutput(r, TRUE)
WriteSection(r) == WriteOutput(r, FALSE)
SaveReport(r) == WriteOutput(r, TRUE)

\* save_artifact, save_file and save_dir: the path must be there.
SaveArtifact(r) ==
  /\ Calls(r)
  /\ file[r] # 0
  /\ records' = [records EXCEPT ![r].versions = @ \cup {file[r]}]
  /\ UNCHANGED <<wsVars, life, step, command, child, expired, heirs, result, log, outputs,
                 file, stored>>

ReturnValue(r) ==
  /\ Idle(r)
  /\ life' = [life EXCEPT ![r] = "returned"]
  /\ UNCHANGED <<wsVars, calls, step, command, child, expired, heirs, result, log, outputs,
                 file, records, stored>>

\* A callable that raises takes its records with it: only a failed event is
\* written.  A process that dies leaves the child of its command behind.
Leave(r, how) ==
  /\ life[r] = "calling"
  /\ how = "raised" => Idle(r)
  /\ life' = [life EXCEPT ![r] = how]
  /\ step' = [step EXCEPT ![r] = "none"]
  /\ child' = [child EXCEPT ![r] = "off"]
  /\ heirs' = Left(r, child[r] = "alive")
  /\ IF at[r] = "idle" THEN UNCHANGED wsVars ELSE Stop(r)
  /\ UNCHANGED <<calls, command, expired, result, log, outputs, file, records, stored>>

Store(r, version) ==
  /\ life[r] = "returned"
  /\ life' = [life EXCEPT ![r] = "stored"]
  /\ stored' = [stored EXCEPT ![r] =
       [log |-> IF records[r].log THEN log[r] ELSE NoLog,
        outputs |-> records[r].outputs,
        file |-> version]]
  /\ UNCHANGED <<wsVars, calls, step, command, child, expired, heirs, result, log, outputs,
                 file, records>>

\* The replay reads each recorded path, whatever is there by now.
Ingest(r) == Store(r, IF records[r].versions = {} THEN 0 ELSE file[r])

-----------------------------------------------------------------------------

\* What the runner process does by itself once it was called.
ContextStep(r) == Expire(r) \/ (\E leaves \in BOOLEAN : Kill(r, leaves)) \/ Reap(r) \/ Join(r)

CallStep(r) ==
  \/ BeginWorkspace(r) \/ InWorkspace(r) \/ WorkspaceError(r)
  \/ \E capture \in {"files", "pipes"}, timed \in BOOLEAN : StartCommand(r, capture, timed)
  \/ ContextStep(r)
  \/ WriteFile(r) \/ WriteSection(r) \/ SaveReport(r) \/ SaveArtifact(r) \/ ReturnValue(r) \/ Ingest(r)
  \/ \E how \in {"raised", "dead"} : Leave(r, how)

ProcessStep(r) ==
  \/ \E n \in 1..MaxCalls : WriteLog(r, n) \/ Produce(r, n) \/ HeirEnds(r, n)
  \/ \E code \in {"exit0", "exit1"}, leaves \in BOOLEAN : ChildEnds(r, code, leaves)

COver == (\A r \in Callers : life[r] \in {"raised", "dead", "stored"}) /\ UNCHANGED cvars

CNext == \/ \E r \in Callers : CallStep(r) \/ ProcessStep(r)
         \/ CleanCache /\ UNCHANGED callVars
         \/ COver

CSpec == CInit /\ [][CNext]_cvars

\* The runner process goes on and its timer runs; nothing is assumed of programs.
CFairness == \A r \in Callers : WF_cvars(ContextStep(r)) /\ WF_cvars(InWorkspace(r))

-----------------------------------------------------------------------------
(* Properties.                                                             *)

\* A workspace that can be seen is the whole copy of its source.
WorkspaceWhole == \A r \in Callers : workspace[r] \in {None, Files}

\* The resource in the cache has every file of a source.
Whole == \A p \in Parts : resource.parts[p] \in Sources
NothingToCopy == \E r \in Callers : holds[source[r]] # "dir"

LinkedIsComplete ==
  (\E r \in Callers : linked[r]) =>
     Whole \/ NothingToCopy \/ spoilt \/ \E r \in Callers : at[r] = "parts"

ReturnedIsLinked == \A r \in Callers : got[r] = "returned" => linked[r] \/ again[r]

OutputsAreOwn == \A r \in Callers : OutputsOf(r) \in {None, r} \/ nested

\* Whatever call failed or process died, a workspace that can be seen is whole, so
\* that a later call may take it as it is; the resource it is linked to has every
\* file of a source, unless a run is still filling it, a copy stopped midway or the
\* cache was cleaned; and a call that returns has made the link, unless an earlier
\* call of the run raised between the rename and the link.  The output path leads
\* every run to its own outputs, except in specifications that put it inside a
\* cached path, where the last run to call has it.
WorkspaceIsSound == WorkspaceWhole /\ LinkedIsComplete /\ ReturnedIsLinked /\ OutputsAreOwn

\* A command that timed out, failed or could not be started never looks like a
\* success to the callable, though its process may end with 0 after it timed out.
ResultIsHonest ==
  \A r \in Callers : result[r] = "exit0" => ~expired[r] /\ records[r].log

StoredLogIsOwn ==
  \A r \in Callers : \A n \in stored[r].log.by : n = stored[r].log.of \/ heirs[r][n] # "none"

StoredIsLatest ==
  \A r \in Callers : life[r] = "stored" => \A v \in records[r].versions : v <= stored[r].file

\* The files are read after the callable returned, long after they were recorded:
\* the log that is stored is then the output of the last command of that name and
\* of processes that earlier ones left behind, and a file is the last version that
\* was written, for every record of it.
StoredIsOwn == StoredLogIsOwn /\ StoredIsLatest

TimedCallEnds ==
  \A r \in Callers : (step[r] # "none" /\ command[r].timed) ~>
                  \/ step[r] = "none"
                  \/ command[r].capture = "pipes" /\ heirs[r][calls[r]] = "running"

WorkspaceCallEnds == \A r \in Callers : (at[r] # "idle") ~> (at[r] = "idle")

\* A call with a timeout ends, whatever its program does, unless its output comes
\* through pipes that a process left behind holds open; and a call for a workspace
\* returns or raises.
ContextCallsEnd == TimedCallEnds /\ WorkspaceCallEnds

=============================================================================
