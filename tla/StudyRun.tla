------------------------------ MODULE StudyRun ------------------------------
(***************************************************************************)
(* rlab study run: rlab-cli/src/commands/study.rs.  The jobs of the study  *)
(* are planned, a parent run is created, every job is executed as a run of *)
(* its own, one after the other, and the parent is closed with the list of *)
(* its children.  A failed child is counted; an error of a child returns   *)
(* at once and drops the session of the parent, whose directory stays as   *)
(* it is.                                                                  *)
(*                                                                         *)
(* The parent and the children are sessions (see RunSession, Host-         *)
(* Execution): here a run is its status, the parameters it was given, and  *)
(* whether it promoted an artifact.  A run that completes ends with a pass *)
(* of retention over the directories of all runs (see RunRetention), the   *)
(* earlier children of the same study among them.                          *)
(***************************************************************************)
EXTENDS StudyPlan, RunStatus

CONSTANTS Requests,     \* what may be asked: see PlanStudy for the fields
          Keep,         \* storage.runs.keep_per_experiment; 0 keeps all
          MaxChildren,  \* bound on the plans that are executed
          NoResults

ASSUME StudyAssumption == Keep \in Nat /\ MaxChildren \in Nat

Overrides == Seq(Override)
DesignAxis == {a \in [path : Path, values : Seq(Leaves \cup Mappings)] :
           \A i \in DOMAIN a.values : [path |-> a.path, value |-> a.values[i]] \in Override}

\* In the order of the paths: none twice, and one before those that go on from it.
Ordered(overrides) ==
  \A i, j \in DOMAIN overrides :
    i < j => /\ overrides[i].path # overrides[j].path
             /\ ~(Len(overrides[j].path) = 1 /\ overrides[i].path[1] = overrides[j].path[1])

Listed(s) == s \in Seq(ToSet(s))

WrittenExperiment(e) ==
  /\ e.params = Malformed \/ e.params \in Overrides
  /\ e.matrix = Malformed \/ e.matrix \in Seq(DesignAxis)
  /\ e.seeds = Malformed \/ Listed(e.seeds)

\* What is given in pairs of a path and a value, and what is listed.
WrittenStudy(r) ==
  /\ r.defaults \in Overrides /\ r.explicit \in Overrides
  /\ Ordered(r.explicit)
  /\ r.params = Malformed \/ r.params \in Overrides
  /\ r.axes = Malformed \/ r.axes \in Seq(DesignAxis)
  /\ r.variants = Malformed \/ (Listed(r.variants) /\ \A v \in ToSet(r.variants) : v.params \in Overrides)
  /\ r.conditions = Malformed \/ (Listed(r.conditions) /\ \A c \in ToSet(r.conditions) : c.params \in Overrides)
  /\ r.experiments = Malformed \/ Listed(r.experiments)
  /\ r.seeds = Malformed \/ Listed(r.seeds)
  /\ r.qualification \in {NoQualification, Malformed} \/ r.qualification.params \in Overrides
  /\ Listed(r.lab) /\ \A e \in ToSet(r.lab) : WrittenExperiment(e)

ASSUME WrittenAssumption == \A r \in Requests : WrittenStudy(r)

VARIABLES request,   \* the command line, the configuration and the registry
          pc,        \* the next step of run_study
          plan,      \* plan.jobs
          runs,      \* the runs of the children, in the order of their creation
          children,  \* what run_study knows of them
          failures,
          parent,    \* the run of the study: its status and its results.json
          answer     \* the exit code: 0, 1, or the code of an error

vars == <<request, pc, plan, runs, children, failures, parent, answer>>

Live == {"plan", "create", "next", "child", "close"}

Init == /\ request \in Requests
        /\ pc = "plan"
        /\ plan = <<>>
        /\ runs = <<>>
        /\ children = <<>>
        /\ failures = 0
        /\ parent = [status |-> "none", results |-> NoResults]
        /\ answer = "none"

Return(a) == pc' = "returned" /\ answer' = a

-----------------------------------------------------------------------------

\* load_plan: discovery, the plan, then the references in its parameters, which
\* name the runs completed so far.
PlanStudy ==
  /\ pc = "plan"
  /\ Plan(request) # Refused
  /\ plan' = Plan(request)
  /\ pc' = "create"
  /\ UNCHANGED <<request, runs, children, failures, parent, answer>>

\* A plan refused, and an error of discovery or of a reference, leave no run.
PlanError ==
  /\ pc = "plan"
  /\ Return("error")
  /\ UNCHANGED <<request, plan, runs, children, failures, parent>>

\* RunSession::create returns a running session.
CreateParent ==
  /\ pc = "create"
  /\ Len(plan) <= MaxChildren
  /\ pc' = "next"
  /\ parent' = [parent EXCEPT !.status = "running"]
  /\ UNCHANGED <<request, plan, runs, children, failures, answer>>

CreateParentError ==
  /\ pc = "create"
  /\ \E s \in {"none", "created", "running"} : parent' = [parent EXCEPT !.status = s]
  /\ Return("error")
  /\ UNCHANGED <<request, plan, runs, children, failures>>

-----------------------------------------------------------------------------
(* The children.                                                           *)

\* The parameters execute_run gives to the runner.
Received(job) ==
  LET defaults == ExtendParams(<<>>, request.defaults)
      given == [k \in DOMAIN job.params \cup DOMAIN defaults |->
                  IF k \in DOMAIN job.params THEN job.params[k] ELSE defaults[k]]
      seed == IF job.seed = NoSeed THEN request.default_seed ELSE job.seed
  IN IF seed = NoSeed THEN given ELSE Put(given, <<"seed">>, seed)

Current == plan[Len(children) + 1]

NewRun(status) == [experiment |-> Current.experiment, params |-> Received(Current),
                   status |-> status, promoted |-> FALSE, kept |-> TRUE]

StartChild ==
  /\ pc = "next"
  /\ Len(children) < Len(plan)
  /\ runs' = Append(runs, NewRun("running"))
  /\ pc' = "child"
  /\ UNCHANGED <<request, plan, children, failures, parent, answer>>

\* The runs retention counts: those of the experiment with a promoted artifact.
Counted(rs, e) == {i \in DOMAIN rs : rs[i].kept /\ rs[i].promoted /\ rs[i].experiment = e}

Surplus(rs) == {i \in DOMAIN rs :
                  LET counted == Counted(rs, rs[i].experiment)
                  IN Keep > 0 /\ i \in counted /\ Cardinality({j \in counted : j > i}) >= Keep}

Without(rs, gone) == [i \in DOMAIN rs |-> [rs[i] EXCEPT !.kept = @ /\ i \notin gone]]

\* finalize_storage: an error leaves some of the surplus, and is ignored.
Finalize(rs) == \E gone \in SUBSET Surplus(rs) : runs' = Without(rs, gone)

Ending(status, promoted) ==
  [runs EXCEPT ![Len(runs)] = [@ EXCEPT !.status = status, !.promoted = promoted]]

Child(status) == [experiment |-> Current.experiment, condition |-> Current.condition,
                  variant |-> Current.variant, job_id |-> Len(children) + 1,
                  run_id |-> Len(runs), status |-> status]

ChildCompletes ==
  /\ pc = "child"
  /\ \E promoted \in BOOLEAN : Finalize(Ending("completed", promoted))
  /\ children' = Append(children, Child("completed"))
  /\ pc' = "next"
  /\ UNCHANGED <<request, plan, failures, parent, answer>>

\* Mutant: a failure is listed and not counted.
ChildFailsUncounted ==
  /\ pc = "child"
  /\ \E promoted \in BOOLEAN : runs' = Ending("failed", promoted)
  /\ children' = Append(children, Child("failed"))
  /\ pc' = "next"
  /\ UNCHANGED <<request, plan, failures, parent, answer>>

\* A failed run leaves out the storage management.
ChildFails ==
  /\ pc = "child"
  /\ \E promoted \in BOOLEAN : runs' = Ending("failed", promoted)
  /\ children' = Append(children, Child("failed"))
  /\ failures' = failures + 1
  /\ pc' = "next"
  /\ UNCHANGED <<request, plan, parent, answer>>

\* execute_run returns an error: the runner died or wrote a line that is no
\* event, or a write failed, the last of them after the status of the run.
ChildError ==
  /\ \/ /\ pc = "next"
        /\ Len(children) < Len(plan)
        /\ \/ UNCHANGED runs
           \/ runs' = Append(runs, NewRun("created"))
     \/ /\ pc = "child"
        /\ \E status \in {"running", "completed", "failed"}, promoted \in BOOLEAN :
             runs' = Ending(status, promoted)
  /\ Return("error")
  /\ UNCHANGED <<request, plan, children, failures, parent>>

-----------------------------------------------------------------------------
(* finish_parent.                                                          *)

\* complete and fail_with_result write the result first, the status last.
SaveResults ==
  /\ pc = "next"
  /\ Len(children) = Len(plan)
  /\ parent' = [parent EXCEPT !.results = [runs |-> children, failures |-> failures]]
  /\ pc' = "close"
  /\ UNCHANGED <<request, plan, runs, children, failures, answer>>

Verdict == IF failures = 0 THEN "completed" ELSE "failed"

CloseParent ==
  /\ pc = "close"
  /\ parent' = [parent EXCEPT !.status = Verdict]
  /\ IF failures = 0 THEN Finalize(runs) ELSE UNCHANGED runs
  /\ Return(IF failures = 0 THEN "ok" ELSE "failures")
  /\ UNCHANGED <<request, plan, children, failures>>

CloseParentError ==
  /\ pc = "close"
  /\ \E s \in {"running", Verdict} : parent' = [parent EXCEPT !.status = s]
  /\ Return("error")
  /\ UNCHANGED <<request, plan, runs, children, failures>>

\* rlab is killed: every run stays as it is on disk.
Die == /\ pc \in Live
       /\ pc' = "dead"
       /\ UNCHANGED <<request, plan, runs, children, failures, parent, answer>>

Done == /\ pc \in {"returned", "dead"}
        /\ UNCHANGED vars

Next == \/ PlanStudy \/ PlanError
        \/ CreateParent \/ CreateParentError
        \/ StartChild \/ ChildCompletes \/ ChildFails \/ ChildError
        \/ SaveResults \/ CloseParent \/ CloseParentError
        \/ Die
        \/ Done

Spec == Init /\ [][Next]_vars

-----------------------------------------------------------------------------
(* Properties.                                                             *)

TypeOK ==
  /\ request \in Requests
  /\ pc \in Live \cup {"returned", "dead"}
  /\ plan \in Seq([experiment : {e.name : e \in ToSet(request.lab)}, condition : Names(request.conditions) \cup {NoName},
                   variant : Names(request.variants) \cup {NoName}, cell : Nat,
                   seed : UNION {ToSet(Seeds(request, e)) : e \in ToSet(request.lab)},
                   params : {plan[i].params : i \in DOMAIN plan}])
  /\ \A i \in DOMAIN runs : runs[i].status \in Statuses /\ runs[i].promoted \in BOOLEAN /\ runs[i].kept \in BOOLEAN
  /\ \A i \in DOMAIN children : children[i] \in [experiment : {plan[i].experiment}, condition : {plan[i].condition},
                                                 variant : {plan[i].variant}, job_id : {i},
                                                 run_id : DOMAIN runs, status : {"completed", "failed"}]
  /\ failures \in 0..Len(children)
  /\ parent.status \in Recorded
  /\ answer \in {"none", "ok", "failures", "error"}

\* The list of the parent has every job of the plan, in order, each with a run
\* of its own that ended as the list says, and every run of the study is in it.
ListsEveryJob ==
  LET listed == parent.results.runs
  IN /\ Len(listed) = Len(plan)
     /\ Len(runs) = Len(plan)
     /\ \A i \in DOMAIN listed :
          LET child == listed[i]
          IN /\ child.job_id = i /\ child.run_id = i
             /\ child.experiment = plan[i].experiment
             /\ child.condition = plan[i].condition /\ child.variant = plan[i].variant
             /\ runs[i].experiment = child.experiment
             /\ runs[i].status = child.status

\* Its number of failures is theirs, and it has completed if there are none.
CountsFailures ==
  LET failed == {i \in DOMAIN runs : runs[i].status = "failed"}
  IN /\ parent.results.failures = Cardinality(failed)
     /\ parent.status = "completed" <=> failed = {}

\* A run is gone only if Keep later ones of its experiment promoted an artifact.
Later(rs, i) == {j \in DOMAIN rs : j > i /\ rs[j].promoted /\ rs[j].experiment = rs[i].experiment}
LosesOnlySurplus == \A i \in DOMAIN runs : ~runs[i].kept => Cardinality(Later(runs, i)) >= Keep

\* A study that reads as ended accounts for its children, whatever of them
\* failed, and whatever the retention passes of later children removed; one
\* that stopped at an error or was killed never reads as ended, unless the
\* last write of its closing call is what failed.
ParentAccounts ==
  parent.status \in {"completed", "failed"} => ListsEveryJob /\ CountsFailures /\ LosesOnlySurplus

\* The value the layers have put at a path: the field of the object that leads
\* there, or else that of the key with its dots.
At(params, path) ==
  IF Len(path) = 2 /\ Leads(params, path) /\ path[2] \in DOMAIN params[<<path[1]>>]
  THEN params[<<path[1]>>][path[2]]
  ELSE IF path \in DOMAIN params THEN params[path] ELSE Refused

Under(p, q) == p # q /\ p[1] = q[1] /\ Len(q) = 1
Overlap(p, q) == p = q \/ Under(p, q) \/ Under(q, p)

\* The value a child reads: ctx.param looks for the key with its dots, and ctx.config
\* sets the fields of the object first and that key after them.
Read(params, path) == IF path \in DOMAIN params THEN params[path] ELSE At(params, path)

\* The paths that a layer before the command line may have left as keys with their dots.
KeysBefore(run) ==
  Paths(request.defaults) \cup Paths(Experiment(request, run.experiment).params) \cup Paths(request.params)
    \cup (IF Full(request) THEN {} ELSE Paths(Qualification(request).params))

\* Every child reads the values of the command line, whatever the grid and the
\* variant say, and whatever objects the defaults, the experiment, the study and
\* the qualification set, except what a longer path of the command line sets
\* inside one of them, and the seed, which is that of the job, with anything
\* inside it.  A key with dots of an earlier layer is not replaced if its first
\* name leads to an object: then only the field of the object has the value of
\* the command line, and the child reads the old key.
ExplicitWins ==
  LET explicit == ToSet(request.explicit)
      settled == {o \in explicit : /\ o.path[1] # "seed"
                                   /\ \A longer \in explicit : ~Under(longer.path, o.path)}
  IN \A i \in DOMAIN runs : \A o \in settled :
       /\ At(runs[i].params, o.path) = o.value
       /\ o.path \notin KeysBefore(runs[i]) => Read(runs[i].params, o.path) = o.value

\* The axes of a case that no other layer says anything about.
FreeAxes(experiment) ==
  LET axes == ToSet(experiment.matrix \o request.axes)
      said == (UNION {Paths(request.variants[i].params) : i \in DOMAIN request.variants})
                \cup Paths(Qualification(request).params) \cup Paths(request.explicit)
  IN {a \in axes : /\ \A b \in axes : Overlap(a.path, b.path) => a = b
                   /\ \A p \in said : ~Overlap(a.path, p)}

Product(S) == FoldLeft(LAMBDA n, a : n * Len(a.values), 1, S)

\* Every choice of a value for each free axis is made with every variant.
ChoicesMade(experiment, jobs) ==
  LET free == FreeAxes(experiment)
      variants == {v.name : v \in ToSet(VariantRows(request.variants))}
      values == UNION {ToSet(a.values) : a \in free}
      choices == {f \in [free -> values] : \A a \in free : f[a] \in ToSet(a.values)}
  IN {<<j.variant, [a \in free |-> At(j.params, a.path)]>> : j \in jobs} = variants \X choices

\* Every cell is executed once with every seed, and means the same each time.
CellsSeeded(experiment, indices) ==
  LET cells == Product(experiment.matrix) * Product(request.axes) * Len(VariantRows(request.variants))
      seeds == Seeds(request, experiment)
      jobs == {plan[k] : k \in indices}
  IN /\ {<<j.cell, j.seed>> : j \in jobs} = (0..(cells - 1)) \X ToSet(seeds)
     /\ Cardinality(indices) = cells * Len(seeds)
     /\ \A j, k \in jobs : j.cell = k.cell => j.params = k.params /\ j.variant = k.variant

\* The plan is the whole grid of every case, nothing twice and nothing else, in
\* both modes: a qualification has the cells of the full study, each once.
PlanCovers ==
  pc = "create" =>
    LET Of(case) == {k \in DOMAIN plan : plan[k].condition = case.name /\ plan[k].experiment = case.experiment}
    IN /\ \A case \in ToSet(Cases(request)) :
            LET experiment == Experiment(request, case.experiment)
            IN /\ CellsSeeded(experiment, Of(case))
               /\ ChoicesMade(experiment, {plan[k] : k \in Of(case)})
       /\ DOMAIN plan = UNION {Of(case) : case \in ToSet(Cases(request))}

\* The plan is the grid that was asked for, and the command line wins over it.
PlanIsExact == PlanCovers /\ ExplicitWins

=============================================================================
