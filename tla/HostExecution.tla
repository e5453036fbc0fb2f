--------------------------- MODULE HostExecution ---------------------------
(***************************************************************************)
(* execute_run of rlab-cli/src/host/execution.rs: a session is created,    *)
(* the Python runner executes the user's callable and writes one event per *)
(* line of its standard output, and once the runner has exited the events  *)
(* are replayed, in order, into the session, which is then closed.         *)
(*                                                                         *)
(* The runner (python/rlab/_runner.py) writes log and progress events      *)
(* while the callable runs; the metrics and artifacts it recorded are      *)
(* written with the completed event after it returned.  A callable may     *)
(* also print to standard output, log a metric that JSON cannot carry      *)
(* (NaN), remove an artifact it has saved, leave through sys.exit, or be   *)
(* killed: RunnerFaults says which of these a model has.                   *)
(***************************************************************************)
EXTENDS RunSession, SequencesExt

CONSTANTS RunnerFaults,  \* what the user's code may do wrong
          HostFaults     \* TRUE: the rlab process may fail a write, or die

ASSUME FaultAssumption ==
  /\ RunnerFaults \subseteq {"print", "nan", "lost", "exit", "die"}
  /\ HostFaults \in BOOLEAN

VARIABLES runner,   \* the Python process of the run
          stream,   \* the lines of its standard output
          cursor,   \* how many of them have been replayed into the session
          seen      \* the closing events met in the replay

hostVars == <<runner, stream, cursor, seen>>
hvars == <<vars, hostVars>>

Line(k) == [kind |-> k, metric |-> {}]
MetricLine(m) == [kind |-> "metric", metric |-> {m}]

\* The events of a callable that returned: see execution_events.
Records == {MetricLine(m) : m \in Metrics} \cup {Line("artifact")}
           \cup {Line(k) : k \in {"nan", "lost"} \cap RunnerFaults}
Payloads == UNION {[1..n -> Records] : n \in 0..MaxLines}

\* All that may appear on the standard output of the runner.
Lines == [kind : {"log", "print", "metric", "nan", "artifact", "lost", "completed", "failed"},
          metric : {{}} \cup {{m} : m \in Metrics}]

\* Lines run_python_host cannot parse: serde_json writes NaN as null, which is
\* not a float any more.
Unparseable == {"print", "nan"}

Exited == {"returned", "raised", "exited", "died"}

HInit == /\ Init
         /\ runner = [r \in Runs |-> "off"]
         /\ stream = [r \in Runs |-> <<>>]
         /\ cursor = [r \in Runs |-> 0]
         /\ seen = [r \in Runs |-> {}]

-----------------------------------------------------------------------------
(* The runner.                                                             *)

Spawn(r) == /\ pc[r] = "open"
            /\ runner[r] = "off"
            /\ runner' = [runner EXCEPT ![r] = "calling"]
            /\ UNCHANGED <<vars, stream, cursor, seen>>

Write(r, lines) == stream' = [stream EXCEPT ![r] = @ \o lines]

\* While the callable runs: ctx.log, report_progress, or a bare print.
Emit(r, k) == /\ runner[r] = "calling"
              /\ Len(stream[r]) < MaxLines
              /\ Write(r, <<Line(k)>>)
              /\ UNCHANGED <<vars, runner, cursor, seen>>

Exit(r, how) == /\ runner[r] = "calling"
                /\ runner' = [runner EXCEPT ![r] = how]
                /\ UNCHANGED <<vars, cursor, seen>>

\* The callable returned: its metrics, its artifacts, then completed.
Return(r, payload) == Exit(r, "returned") /\ Write(r, payload \o <<Line("completed")>>)

\* An import or the callable raised an Exception: one failed event, exit code 0.
Raise(r) == Exit(r, "raised") /\ Write(r, <<Line("failed")>>)

\* sys.exit(0) is a SystemExit, which "except Exception" lets through: the
\* process ends with exit code 0 and writes no closing event.
SystemExit(r) == /\ "exit" \in RunnerFaults
                 /\ Exit(r, "exited")
                 /\ UNCHANGED stream

\* Any other end: a non-zero exit code, whatever was written.
Die(r) == /\ "die" \in RunnerFaults
          /\ Exit(r, "died")
          /\ UNCHANGED stream

-----------------------------------------------------------------------------
(* The rlab process.                                                       *)

Garbled(r) == \E i \in 1..Len(stream[r]) : stream[r][i].kind \in Unparseable

\* The runner is waited for, without a timeout, and every line is parsed before
\* any is used: an error drops the session.
HostError(r) == /\ runner[r] \in Exited
                /\ runner[r] = "died" \/ Garbled(r)
                /\ pc[r] = "open"
                /\ Abandon(r)
                /\ UNCHANGED hostVars

\* Mutant: the exit status of the runner is ignored.
ReplayableAnyExit(r) == pc[r] = "open" /\ runner[r] \in Exited /\ ~Garbled(r)

Replayable(r) == /\ pc[r] = "open"
                 /\ runner[r] \in Exited \ {"died"}
                 /\ ~Garbled(r)

\* Mutant: off by one after the first line.
NextLineBehind(r) == stream[r][IF cursor[r] = 0 THEN 1 ELSE cursor[r]]

NextLine(r) == stream[r][cursor[r] + 1]

\* finalize_session hands the next event to process_event.
Replay(r) ==
  /\ Replayable(r)
  /\ cursor[r] < Len(stream[r])
  /\ LET e == NextLine(r) IN
       \/ /\ \E m \in Metrics : e = MetricLine(m) /\ AppendMetric(r, m)
          /\ UNCHANGED seen
       \/ /\ e.kind = "artifact"
          /\ SaveArtifactReference(r)
          /\ UNCHANGED seen
       \/ /\ e.kind = "log"
          /\ UNCHANGED <<vars, seen>>
       \/ /\ e.kind \in {"completed", "failed"}
          /\ seen' = [seen EXCEPT ![r] = @ \cup {e.kind}]
          /\ UNCHANGED vars
  /\ cursor' = [cursor EXCEPT ![r] = @ + 1]
  /\ UNCHANGED <<runner, stream>>

\* An artifact whose path is gone when its event is replayed: the error of
\* process_event drops the session.
ReplayError(r) ==
  /\ Replayable(r)
  /\ cursor[r] < Len(stream[r])
  /\ NextLine(r).kind = "lost"
  /\ Abandon(r)
  /\ UNCHANGED hostVars

\* Mutant: the session is closed only once a completed event has been met.
FinalizeOnCompleted(r) ==
  /\ Replayable(r)
  /\ cursor[r] = Len(stream[r])
  /\ "completed" \in seen[r]
  /\ Complete(r)
  /\ UNCHANGED hostVars

\* A failed event wins; without one the run is completed, with the default
\* result when there was no completed event either.
Finalize(r) ==
  /\ Replayable(r)
  /\ cursor[r] = Len(stream[r])
  /\ IF "failed" \in seen[r] THEN Fail(r) ELSE Complete(r)
  /\ UNCHANGED hostVars

\* A write fails, or the process dies, at any moment.
HostFault(r) == /\ HostFaults
                /\ Abandon(r) \/ Crash(r)
                /\ UNCHANGED hostVars

-----------------------------------------------------------------------------

SessionStep(r) == (StartRun(r) \/ Proceed(r)) /\ UNCHANGED hostVars

RunnerStep(r) == \/ \E p \in Payloads : Return(r, p)
                 \/ Raise(r)
                 \/ SystemExit(r)
                 \/ Die(r)

HostStep(r) == Spawn(r) \/ HostError(r) \/ Replay(r) \/ ReplayError(r) \/ Finalize(r)

HDone == /\ \A r \in Runs : pc[r] \in Ended
         /\ UNCHANGED hvars

HNext == \/ \E r \in Runs : \/ SessionStep(r) \/ RunnerStep(r) \/ HostStep(r)
                            \/ \E k \in {"log"} \cup ({"print"} \cap RunnerFaults) : Emit(r, k)
                            \/ HostFault(r)
         \/ HDone

HSpec == HInit /\ [][HNext]_hvars

\* The rlab process goes on while it lives, and the user's callable ends: without
\* a timeout on the runner nothing else ends a run.
HFairSpec == /\ HSpec
             /\ \A r \in Runs : /\ WF_hvars(SessionStep(r))
                                /\ WF_hvars(HostStep(r))
                                /\ WF_hvars(RunnerStep(r))

-----------------------------------------------------------------------------
(* Properties.                                                             *)

HTypeOK ==
  /\ TypeOK
  /\ runner \in [Runs -> {"off", "calling"} \cup Exited]
  /\ stream \in [Runs -> Seq(Lines)]
  /\ cursor \in [Runs -> Nat]
  /\ seen \in [Runs -> SUBSET {"completed", "failed"}]

\* A run whose callable raised is never recorded as completed, whatever was
\* printed, logged or lost.
RaisedNeverCompletes ==
  \A r \in Runs : runner[r] = "raised" => "completed" \notin {json[r], text[r]}

\* The lines of a kind among the first n that the runner wrote.
LinesOf(r, kind, n) == {i \in 1..n : stream[r][i].kind = kind}

\* The session has the metrics and the artifacts of these lines: the k-th line with a
\* metric is its k-th metric.
HasRecords(r, n) ==
  /\ Len(metrics[r]) = Cardinality(LinesOf(r, "metric", n))
  /\ \A i \in LinesOf(r, "metric", n) :
       stream[r][i].metric = {metrics[r][Cardinality(LinesOf(r, "metric", i))]}
  /\ artifacts[r] = Cardinality(LinesOf(r, "artifact", n))

\* A run recorded as completed holds the metrics its callable recorded, each
\* once and in order, and all its artifacts.
CompletedHasAllRecords ==
  \A r \in Runs : json[r] = "completed" => HasRecords(r, Len(stream[r]))

\* A run whose runner raised, was killed, or exited with an error code is never
\* completed; neither is one whose output cannot be parsed.
CompletedIsClean ==
  \A r \in Runs : json[r] = "completed" => runner[r] \in {"returned", "exited"} /\ ~Garbled(r)

\* Nothing that goes wrong in the runner ends in a completed run: see RaisedNeverCompletes
\* and CompletedIsClean.
CompletedIsEarned == RaisedNeverCompletes /\ CompletedIsClean

\* Only a callable that returned makes a completed run (false: see SystemExit).
CompletedMeansReturned == \A r \in Runs : json[r] = "completed" => runner[r] = "returned"

\* A callable that raised leaves a failed run, unless it also garbled the stream
\* or the rlab process itself failed.
RaisedIsRecorded ==
  \A r \in Runs : (runner[r] = "raised" /\ ~Garbled(r)) ~>
                  (json[r] = "failed" \/ pc[r] = "crashed" \/ outcome[r] = "err")

=============================================================================
