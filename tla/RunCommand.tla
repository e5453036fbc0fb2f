------------------------------ MODULE RunCommand ------------------------------
(***************************************************************************)
(* "rlab run", "rlab benchmark" and "rlab evaluate" as processes           *)
(* (rlab-cli/src/commands), and the runs a callable makes with ctx.run     *)
(* (rlab-py/src/py_run.rs), each of which is another "rlab run" process on *)
(* the same run directory.                                                 *)
(*                                                                         *)
(* A command loads the configuration and its registry once, parses and     *)
(* resolves the parameters of its command line, plans its jobs, and        *)
(* executes them one after the other; each job is one run directory.  A    *)
(* parent recognises its child as the only directory that appeared since   *)
(* before the call, while other commands create directories of their own   *)
(* and the retention of runs that complete removes some.                   *)
(*                                                                         *)
(* Run identifiers are 1, 2, ... in the order of creation.  A parameter    *)
(* object is a function from names to values.  What happens inside a run   *)
(* is the subject of HostExecution and RunSession.                         *)
(***************************************************************************)
EXTENDS Naturals, SequencesExt

CONSTANTS Commands,      \* the processes
          Shells,        \* those a user starts
          Lines,         \* the command lines typed in each of these
          Calls,         \* the calls of ctx.run in the callable of each target
          Projects,      \* what lab.toml and the modules may say: a default seed,
                         \* default parameters, and the records declared
          EqualsTexts,   \* the values whose JSON text holds an equals sign
          RefOf,         \* the "@kind:name" values, with what they name
          Axes,          \* all parameter names, in order
          Values,        \* what a parameter may be set to, other than by a reference
          MaxDepth,      \* MAX_NESTED_DEPTH
          MaxRuns,       \* bound on the number of runs
          Pruning,       \* TRUE: the retention of completed runs is on
          Rejected,      \* an error instead of a result
          None, Unseeded, Split, SplitText

\* An error is not a plan without jobs; a call of ctx.run may say that its child need
\* not succeed, or not.
ASSUME CommandAssumption ==
  /\ MaxRuns \in Nat /\ Rejected # <<>>
  /\ \A k \in UNION Range(Calls) : k.tolerant \in BOOLEAN

\* A parameter object, or a seed, as it is written; what is written is never the
\* identifier of a run, which is a number here.
Written(params) == params \in [DOMAIN params -> Values]
WrittenSeed(seed) == seed \in Values \cup {Unseeded}

ASSUME ValueAssumption ==
  /\ Values \cap Nat = {} /\ SplitText \in Values
  /\ Axes \in Seq(Range(Axes))
  /\ \A k \in UNION Range(Calls) : Written(k.params) /\ WrittenSeed(k.seed)

WrittenLine(line) ==
  /\ line.command \in {"run", "benchmark", "evaluate"}
  /\ line.command # "run" => line.target.name \in Values
  /\ WrittenSeed(line.seed)
  /\ line.args \in Seq(Range(line.args))
  /\ \A i \in DOMAIN line.args : line.args[i].form = "bad" \/ Written(line.args[i].params)

ASSUME LineAssumption == \A c \in Shells : \A line \in Lines[c] : WrittenLine(line)

\* A record declares parameters, values for the axes of a matrix, and seeds.
WrittenRecord(r) ==
  /\ Written(r.params) /\ r.seeds \in Seq(Values)
  /\ r.matrix \in [DOMAIN r.matrix -> Seq(Values)]

ASSUME ProjectAssumption ==
  \A p \in Projects : /\ WrittenSeed(p.seed) /\ Written(p.params)
                      /\ p.lab \in Seq(Range(p.lab))
                      /\ \A i \in DOMAIN p.lab : WrittenRecord(p.lab[i])

VARIABLES project,   \* what lab.toml and the modules say now
          phase,     \* where each command is
          call,      \* its command line, with where it was started from
          loaded,    \* the project as it loaded it
          jobs,      \* its jobs
          made,      \* the runs it created, in order
          cmdRuns,   \* all runs ever created
          dir,       \* the run directories that hold a run.json
          nested,    \* the call of ctx.run its callable is in
          childRuns  \* child_runs.jsonl of each run

cmdVars == <<project, phase, call, loaded, jobs, made, cmdRuns, dir, nested, childRuns>>

NoCall == [cmd |-> None, before |-> {}, tolerant |-> FALSE]

-----------------------------------------------------------------------------
(* Parameters.                                                             *)

Empty == [k \in {} |-> {}]

\* What both set is as the first says.
Onto(over, params) ==
  [k \in DOMAIN over \cup DOMAIN params |-> IF k \in DOMAIN over THEN over[k] ELSE params[k]]
With(params, key, value) == Onto([k \in {key} |-> value], params)

\* One --param argument: key=value, or else a JSON object.  An object whose text
\* holds an equals sign is taken for a key and a value.
ParseArgument(params, arg) ==
  CASE arg.form = "bad" -> Rejected
    [] arg.form = "json" /\ Range(arg.params) \cap EqualsTexts # {} ->
         With(params, Split, SplitText)
    [] OTHER -> Onto(arg.params, params)

ParseParams(args) ==
  FoldLeft(LAMBDA params, arg : IF params = Rejected THEN Rejected ELSE ParseArgument(params, arg),
           Empty, args)

\* The latest completed run of a target, among the directories there are.
Completed(kind, name) ==
  {r \in dir : /\ cmdRuns[r].kind = kind /\ cmdRuns[r].name = name
               /\ cmdRuns[r].status = "completed"}

ResolveRunReference(ref) ==
  IF Completed(ref.kind, ref.name) = {} THEN Rejected
  ELSE CHOOSE r \in Completed(ref.kind, ref.name) :
         \A s \in Completed(ref.kind, ref.name) : s <= r

ResolveValue(v) == IF v \in DOMAIN RefOf THEN ResolveRunReference(RefOf[v]) ELSE v

ResolveParamRefs(params) ==
  LET resolved == [k \in DOMAIN params |-> ResolveValue(params[k])]
  IN IF \E k \in DOMAIN params : resolved[k] = Rejected THEN Rejected ELSE resolved

\* Mutant: the cell of the matrix wins.
MergeCellWins(explicit, cell) == Onto(cell, explicit)

\* What is explicit wins over the cell of the matrix.
MergeParams(explicit, cell) == Onto(explicit, cell)

-----------------------------------------------------------------------------
(* The registry and the jobs of an experiment.                             *)

\* Registry::insert: a record that is there may come again, another of its kind
\* and name may not.
Same(a, b) == a.kind = b.kind /\ a.name = b.name
Insert(records, record) ==
  IF \E i \in DOMAIN records : Same(records[i], record) /\ records[i] # record THEN Rejected
  ELSE IF record \in ToSet(records) THEN records
  ELSE Append(records, record)

Registry(lab) ==
  FoldLeft(LAMBDA records, r : IF records = Rejected THEN Rejected ELSE Insert(records, r), <<>>, lab)

Find(registry, kind, name) == {r \in ToSet(registry) : r.kind = kind /\ r.name = name}

Runnable == {"experiment", "study", "workflow", "benchmark", "evaluation"}

\* The kind and the name of a target: given, or those of the only record of that
\* name; a path is refused, and so is a kind that cannot be executed.
ResolveTarget(lab, target) ==
  CASE target.form = "path" -> Rejected
    [] target.form = "kinded" -> IF target.kind \in Runnable THEN target ELSE Rejected
    [] target.form = "bare" ->
         LET named == {r \in ToSet(Registry(lab)) : r.name = target.name}
         IN IF Registry(lab) = Rejected \/ Cardinality(named) # 1 THEN Rejected
            ELSE LET r == CHOOSE r \in named : TRUE
                 IN IF r.kind \in Runnable THEN r ELSE Rejected

\* Every row with every value of one more axis.
Expand(rows, axis, values) ==
  FlattenSeq([i \in DOMAIN rows |-> [j \in DOMAIN values |-> With(rows[i], axis, values[j])]])

\* The rows of a matrix: every choice of a value for each axis, in the order of
\* the names; the last axis varies first.
MatrixRows(matrix) ==
  FoldLeft(LAMBDA rows, axis : IF axis \in DOMAIN matrix THEN Expand(rows, axis, matrix[axis]) ELSE rows,
           <<Empty>>, Axes)

\* Every row with every seed, over the declared parameters.
PlanExperiment(record) ==
  LET rows == MatrixRows(record.matrix)
      seeds == IF record.seeds = <<>> THEN <<Unseeded>> ELSE record.seeds
  IN IF \E a \in DOMAIN record.matrix : record.matrix[a] = <<>> THEN Rejected
     ELSE FlattenSeq([i \in DOMAIN rows |->
                        [j \in DOMAIN seeds |-> [params |-> Onto(rows[i], record.params),
                                                 seed |-> seeds[j]]]])

\* Nothing is planned for an experiment that declares none of the three.
PlanRecord(record) ==
  IF record.matrix = Empty /\ record.params = Empty /\ record.seeds = <<>> THEN <<>>
  ELSE PlanExperiment(record)

\* The jobs of a target; a target that is no known experiment has none.
TargetJobs(lab, target) ==
  CASE target.kind # "experiment" -> <<>>
    [] target.kind = "experiment" /\ Registry(lab) = Rejected -> Rejected
    [] OTHER -> LET found == Find(Registry(lab), target.kind, target.name)
                IN IF found = {} THEN <<>> ELSE PlanRecord(CHOOSE r \in found : TRUE)

OrSeed(seed, other) == IF seed = Unseeded THEN other ELSE seed

\* The executions of a command line; a target without jobs is executed once, with
\* the parameters as they are.
PlanTarget(lab, target, line, explicit) ==
  LET planned == TargetJobs(lab, target)
      Of(params, seed) == [kind |-> target.kind, name |-> target.name,
                           params |-> params, seed |-> seed]
  IN CASE planned = Rejected -> Rejected
       [] planned = <<>> -> << Of(explicit, line.seed) >>
       [] OTHER -> [i \in DOMAIN planned |->
                      Of(MergeParams(explicit, planned[i].params),
                         OrSeed(line.seed, planned[i].seed))]

RunJobs(lab, line) ==
  LET target == ResolveTarget(lab, line.target)
      parsed == ParseParams(line.args)
      explicit == IF parsed = Rejected THEN Rejected ELSE ResolveParamRefs(parsed)
  IN IF target = Rejected \/ explicit = Rejected THEN Rejected
     ELSE PlanTarget(lab, target, line, explicit)

\* The job of a benchmark or of an evaluation: its parameters stay as they are
\* written, but for the target.
TargetJob(kind, name, line) ==
  [kind |-> kind, name |-> name, seed |-> Unseeded,
   params |-> With(ParseParams(line.args), "target", line.target.name)]

\* A benchmark is for one target, or for all of a kind.
Targets(r, target) == /\ r.kind = "benchmark"
                      /\ r.target.kind = target.kind
                      /\ r.target.name \in {target.name, "*"}

\* The benchmarks of a target, in the order of the registry.
Targeting(records, target) ==
  FoldLeft(LAMBDA found, r : IF Targets(r, target) THEN Append(found, r) ELSE found, <<>>, records)

\* One benchmark by its name, or every benchmark of a target.
BenchmarkJobs(lab, line) ==
  IF ParseParams(line.args) = Rejected THEN Rejected
  ELSE IF line.suite # None
       THEN IF line.target.form = "path" THEN Rejected
            ELSE << TargetJob("benchmark", line.suite, line) >>
       ELSE IF Registry(lab) = Rejected \/ Targeting(Registry(lab), line.target) = <<>> THEN Rejected
            ELSE LET found == Targeting(Registry(lab), line.target)
                 IN [i \in DOMAIN found |-> TargetJob("benchmark", found[i].name, line)]

EvaluateJobs(line) ==
  IF line.target.form = "path" \/ ParseParams(line.args) = Rejected THEN Rejected
  ELSE << TargetJob("evaluation", line.suite, line) >>

\* The jobs of a command line.
Jobs(lab, line) ==
  CASE line.command = "run"       -> RunJobs(lab, line)
    [] line.command = "benchmark" -> BenchmarkJobs(lab, line)
    [] line.command = "evaluate"  -> EvaluateJobs(line)

\* execute_run: over the parameters of the configuration, and with its seed if
\* nothing else gives one.
Executed(job, configured) ==
  LET seed == OrSeed(job.seed, configured.seed)
      params == Onto(job.params, configured.params)
  IN IF seed = Unseeded THEN params ELSE With(params, "seed", seed)

-----------------------------------------------------------------------------
(* A command.                                                              *)

Ends  == {"exit0", "exit1", "error"}
Alive == {"started", "ready", "calling", "waiting"}

CmdInit == /\ project \in Projects
           /\ phase = [c \in Commands |-> "off"]
           /\ call = [c \in Commands |-> None]
           /\ loaded = [c \in Commands |-> None]
           /\ jobs = [c \in Commands |-> <<>>]
           /\ made = [c \in Commands |-> <<>>]
           /\ cmdRuns = <<>>
           /\ dir = {}
           /\ nested = [c \in Commands |-> NoCall]
           /\ childRuns = [r \in 1..MaxRuns |-> <<>>]

\* The user edits lab.toml or a module, while a command is under way.
Edit == /\ \E c \in Commands : phase[c] \in Alive
        /\ project' \in Projects \ {project}
        /\ UNCHANGED <<phase, call, loaded, jobs, made, cmdRuns, dir, nested, childRuns>>

\* A command line is typed in a shell, where no RLAB_ variable is set.
Type(c, line) ==
  /\ phase[c] = "off"
  /\ phase' = [phase EXCEPT ![c] = "started"]
  /\ call' = [call EXCEPT ![c] = [line |-> line, parent |-> 0, depth |-> 0]]
  /\ UNCHANGED <<project, loaded, jobs, made, cmdRuns, dir, nested, childRuns>>

\* All that is decided before the first run: the project is loaded, the target
\* and the parameters resolved, the jobs planned; an error ends the command.  The
\* registry is discovered for a bare name and again for the jobs: here, once.
Load(c) ==
  /\ phase[c] = "started"
  /\ loaded' = [loaded EXCEPT ![c] = project]
  /\ jobs' = [jobs EXCEPT ![c] = Jobs(project.lab, call[c].line)]
  /\ phase' = [phase EXCEPT ![c] = IF jobs'[c] = Rejected THEN "error" ELSE "ready"]
  /\ UNCHANGED <<project, call, made, cmdRuns, dir, nested, childRuns>>

CmdRun(c, job) == [by |-> c, parent |-> call[c].parent, kind |-> job.kind, name |-> job.name,
                   params |-> Executed(job, loaded[c]), status |-> "running"]

\* The next job: its run is created, and its callable started.
Execute(c) ==
  /\ phase[c] = "ready"
  /\ Len(made[c]) < Len(jobs[c])
  /\ Len(cmdRuns) < MaxRuns
  /\ phase' = [phase EXCEPT ![c] = "calling"]
  /\ cmdRuns' = Append(cmdRuns, CmdRun(c, jobs[c][Len(made[c]) + 1]))
  /\ made' = [made EXCEPT ![c] = Append(@, Len(cmdRuns'))]
  /\ dir' = dir \cup {Len(cmdRuns')}
  /\ UNCHANGED <<project, call, loaded, jobs, nested, childRuns>>

\* What the retention of a run that completes removes: see RunRetention.
Removable == {{}} \cup (IF Pruning THEN {{r} : r \in {r \in dir : cmdRuns[r].status # "running"}} ELSE {})

\* The callable returned, or raised: its run ends, and the command goes on with
\* the next job in both cases.
End(c, status, gone) ==
  /\ phase[c] = "calling"
  /\ phase' = [phase EXCEPT ![c] = "ready"]
  /\ cmdRuns' = [cmdRuns EXCEPT ![Last(made[c])].status = status]
  /\ dir' = dir \ gone
  /\ UNCHANGED <<project, call, loaded, jobs, made, nested, childRuns>>

Returns(c) == \E gone \in Removable : End(c, "completed", gone)
Raises(c)  == End(c, "failed", {})

\* An error of the host (see HostExecution), or the death of the process, ends the
\* command, whatever jobs are left; its run stays as it is, and a command that its
\* callable has started goes on.
Abort(c) ==
  /\ phase[c] \in Alive
  /\ phase' = [phase EXCEPT ![c] = "error"]
  /\ UNCHANGED <<project, call, loaded, jobs, made, cmdRuns, dir, nested, childRuns>>

\* Mutant: the outcome of the last job is the outcome of the command.
ExitLikeLast(c) ==
  /\ phase[c] = "ready"
  /\ Len(made[c]) = Len(jobs[c])
  /\ phase' = [phase EXCEPT ![c] = IF cmdRuns[Last(made[c])].status = "failed" THEN "exit1" ELSE "exit0"]
  /\ UNCHANGED <<project, call, loaded, jobs, made, cmdRuns, dir, nested, childRuns>>

Exit(c) ==
  /\ phase[c] = "ready"
  /\ Len(made[c]) = Len(jobs[c])
  /\ phase' = [phase EXCEPT ![c] =
       IF \E r \in ToSet(made[c]) : cmdRuns[r].status = "failed" THEN "exit1" ELSE "exit0"]
  /\ UNCHANGED <<project, call, loaded, jobs, made, cmdRuns, dir, nested, childRuns>>

-----------------------------------------------------------------------------
(* ctx.run.                                                                *)

\* The parameters go through a JSON text on the command line of the child.
ChildLine(k) == [command |-> "run", target |-> k.target, suite |-> None, seed |-> k.seed,
                 args |-> <<[form |-> "json", params |-> k.params]>>]

\* The depth is in the environment of the command.
TooDeep(c) == call[c].depth >= MaxDepth

\* The runs there are are noted, and "rlab run" is started for the child.  Too
\* deep, it raises instead, before anything is started.
Spawn(c, k, s) ==
  /\ phase[c] = "calling"
  /\ k \in Calls[cmdRuns[Last(made[c])].name]
  /\ ~TooDeep(c)
  /\ s \notin Shells /\ phase[s] = "off"
  /\ phase' = [phase EXCEPT ![c] = "waiting", ![s] = "started"]
  /\ nested' = [nested EXCEPT ![c] = [cmd |-> s, before |-> dir, tolerant |-> k.tolerant]]
  /\ call' = [call EXCEPT ![s] = [line |-> ChildLine(k), parent |-> Last(made[c]),
                                  depth |-> call[c].depth + 1]]
  /\ UNCHANGED <<project, loaded, jobs, made, cmdRuns, dir, childRuns>>

\* The child is the only directory that was not there before the call.
Created(c) == dir \ nested[c].before

\* The call returns a handle if it need not succeed, or if both the exit code of
\* the command and the status of the run it found say so.
Succeeded(c, r) == \/ nested[c].tolerant
                   \/ phase[nested[c].cmd] = "exit0" /\ cmdRuns[r].status # "failed"

\* The line of child_runs.jsonl about a child: what the directory says of it.
ChildRow(c, r) == [run |-> r, status |-> cmdRuns[r].status, cmd |-> nested[c].cmd,
                   tolerant |-> nested[c].tolerant, returned |-> Succeeded(c, r)]

Record(c, r) == childRuns' = [childRuns EXCEPT ![Last(made[c])] = Append(@, ChildRow(c, r))]

\* Mutant: the first of the new directories is the child.
CollectFirst(c) ==
  /\ phase[c] = "waiting"
  /\ phase[nested[c].cmd] \in Ends
  /\ phase' = [phase EXCEPT ![c] = "calling"]
  /\ nested' = [nested EXCEPT ![c] = NoCall]
  /\ IF Created(c) = {} THEN UNCHANGED childRuns
     ELSE Record(c, CHOOSE r \in Created(c) : \A s \in Created(c) : r <= s)
  /\ UNCHANGED <<project, call, loaded, jobs, made, cmdRuns, dir>>

\* The command of the child has ended.  No new directory, or several, is an error
\* of the call; so is a child that failed, after it was recorded.  The callable
\* goes on after any of them, or raises.
Collect(c) ==
  /\ phase[c] = "waiting"
  /\ phase[nested[c].cmd] \in Ends
  /\ phase' = [phase EXCEPT ![c] = "calling"]
  /\ nested' = [nested EXCEPT ![c] = NoCall]
  /\ IF Cardinality(Created(c)) # 1 THEN UNCHANGED childRuns
     ELSE \E r \in Created(c) : Record(c, r)
  /\ UNCHANGED <<project, call, loaded, jobs, made, cmdRuns, dir>>

-----------------------------------------------------------------------------

Step(c) == \/ Load(c) \/ Execute(c) \/ Returns(c) \/ Raises(c)
           \/ Exit(c) \/ Abort(c) \/ Collect(c)
           \/ c \in Shells /\ \E line \in Lines[c] : Type(c, line)
           \/ \E k \in UNION Range(Calls), s \in Commands : Spawn(c, k, s)

Over == /\ \A c \in Shells : phase[c] \in Ends
        /\ \A c \in Commands : phase[c] \notin Alive
        /\ UNCHANGED cmdVars

CmdNext == Edit \/ (\E c \in Commands : Step(c)) \/ Over

CmdSpec == CmdInit /\ [][CmdNext]_cmdVars

-----------------------------------------------------------------------------
(* Properties.                                                             *)

ChildRows == UNION {ToSet(childRuns[r]) : r \in DOMAIN childRuns}
Own(e) == cmdRuns[e.run].by = e.cmd

RecordedIsOwn == \A e \in ChildRows : Own(e) \/ ToSet(made[e.cmd]) \cap dir = {}

ReturnedIsCompleted ==
  \A e \in ChildRows : e.returned /\ ~e.tolerant /\ Own(e) => cmdRuns[e.run].status = "completed"

\* A run that a parent lists as its child was created by the command the parent
\* started for it, whatever other commands, grandchildren and the retention did
\* meanwhile; the exception is a command that left no directory at all.  A call of
\* ctx.run that had to succeed and returned its child returned a completed run: a
\* child that was killed, or whose host failed, is not one.
ChildIsOwn == RecordedIsOwn /\ ReturnedIsCompleted

NoneLeftOut ==
  \A c \in Commands : phase[c] = "exit0" /\ call[c].line.command = "benchmark" /\ call[c].line.suite = None =>
    \A r \in ToSet(loaded[c].lab) : Targets(r, call[c].line.target) =>
      \E run \in ToSet(made[c]) : cmdRuns[run].kind = r.kind /\ cmdRuns[run].name = r.name

JobsExecuted ==
  \A c \in Commands : phase[c] = "exit0" =>
    /\ Len(made[c]) = Len(jobs[c])
    /\ \A i \in DOMAIN made[c] : /\ cmdRuns[made[c][i]].status = "completed"
                                 /\ cmdRuns[made[c][i]].params = Executed(jobs[c][i], loaded[c])

\* A command that exits with 0 executed each of its jobs once, in order and over
\* the configuration it loaded first, and all of them completed; a command that
\* was asked for the benchmarks of a target left out none.
ExitZeroAccounts == NoneLeftOut /\ JobsExecuted

Asked(c) == call[c].line.args[1].params
Garbled(c) == Range(Asked(c)) \cap EqualsTexts # {}
CallsReachChild ==
  \A c \in Commands \ Shells : \A r \in ToSet(made[c]) : ~Garbled(c) =>
    \A k \in DOMAIN Asked(c) \ {"seed"} : Asked(c)[k] \notin DOMAIN RefOf =>
      k \in DOMAIN cmdRuns[r].params /\ cmdRuns[r].params[k] = Asked(c)[k]

ReferencesAreCompleted ==
  \A r \in DOMAIN cmdRuns : \A v \in Range(cmdRuns[r].params) \cap (1..MaxRuns) :
    v < r /\ cmdRuns[v].status = "completed"

\* The parameters of a call are those of every run of its child, over what its matrix,
\* its declaration and the configuration say, but for the seed, for references, and for
\* texts with an equals sign; and a reference stands for an earlier, completed run.
ParamsReachChild == CallsReachChild /\ ReferencesAreCompleted

=============================================================================
