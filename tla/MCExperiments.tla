--------------------------- MODULE MCExperiments ----------------------------
(***************************************************************************)
(* Model checking of the commands that execute experiments: a study        *)
(* (StudyRun, with the requests of MCStudyRun), or "rlab run" and its like *)
(* and the runs their callables make (RunCommand), one of the two in a     *)
(* behaviour.  For the second: a sweep, a workflow, benchmarks, and        *)
(* references to runs, with children that are workflows, sweeps or refused.*)
(***************************************************************************)
EXTENDS MCStudyRun, RunCommand

CONSTANTS c1, c2, n1, n2,        \* commands
          low, high, text, last, \* values of parameters
          seven,                 \* a seed
          gpt                    \* a model

NoParameters == [k \in {} |-> {}]
Model(name) == [form |-> "kinded", kind |-> "model", name |-> name]

Declared(kind, name, params, matrix, seeds) ==
  [kind |-> kind, name |-> name, params |-> params, matrix |-> matrix, seeds |-> seeds,
   target |-> Model(None)]
Benchmark(name, target) ==
  [Declared("benchmark", name, NoParameters, NoParameters, <<>>) EXCEPT !.target = Model(target)]

Flow == Declared("workflow", "flow", NoParameters, NoParameters, <<>>)
Grid == Declared("experiment", "grid", "lr" :> low, "lr" :> <<low, high>>, <<>>)

Other == Declared("workflow", "flow", "lr" :> low, NoParameters, <<>>)

MCProjects == {[seed |-> Unseeded, params |-> NoParameters,
                lab |-> <<Flow, Grid, Benchmark("speed", gpt), Benchmark("size", "*")>>],
               [seed |-> seven, params |-> "lr" :> low, lab |-> <<Flow, Flow, Grid, Other>>]}

Bare(name) == [form |-> "bare", kind |-> "", name |-> name]
Kinded(kind, name) == [form |-> "kinded", kind |-> kind, name |-> name]
Pair(params) == [form |-> "pair", params |-> params]

NestedAlike == Permutations(Commands \ Shells)

MCAxes == <<"lr", "wd">>
MCRefOf == last :> [kind |-> "workflow", name |-> "flow"]

Line(command, target, suite, args) ==
  [command |-> command, target |-> target, suite |-> suite, args |-> args, seed |-> Unseeded]
TypeFlow == Line("run", Bare("flow"), None, <<>>)
TypeGrid == Line("run", Kinded("experiment", "grid"), None, <<Pair("from" :> last)>>)
TypeBenchmarks == Line("benchmark", Model(gpt), None, <<>>)
TypeEvaluate == Line("evaluate", Model(gpt), "suite", <<Pair("from" :> last)>>)
MCLines == c1 :> {TypeFlow, TypeGrid, TypeEvaluate} @@ c2 :> {TypeFlow, TypeBenchmarks}

CallFlow == [target |-> Kinded("workflow", "flow"), params |-> "lr" :> text, seed |-> Unseeded, tolerant |-> FALSE]
CallGrid == [target |-> Kinded("experiment", "grid"), params |-> "lr" :> high, seed |-> seven, tolerant |-> TRUE]
MCCalls == "flow" :> {CallGrid} @@ "grid" :> {CallFlow}
           @@ [name \in {"speed", "size", "suite"} |-> {}]

VARIABLE part   \* "study" or "command"

NoStudy == /\ request = CHOOSE r \in Requests : TRUE
           /\ pc = "plan" /\ plan = <<>> /\ runs = <<>> /\ children = <<>> /\ failures = 0
           /\ parent = [status |-> "none", results |-> NoResults] /\ answer = "none"

NoCommand == CmdInit /\ project = CHOOSE p \in MCProjects : TRUE

MCInit == \/ part = "study" /\ Init /\ NoCommand
          \/ part = "command" /\ CmdInit /\ NoStudy

MCNext == /\ \/ part = "study" /\ Next /\ UNCHANGED cmdVars
             \/ part = "command" /\ CmdNext /\ UNCHANGED vars
          /\ UNCHANGED part

MCSpec == MCInit /\ [][MCNext]_<<vars, cmdVars, part>>
=============================================================================
