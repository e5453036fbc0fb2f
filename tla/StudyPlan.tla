------------------------------ MODULE StudyPlan ------------------------------
(***************************************************************************)
(* plan_registry_study of rlab-core/src/study/registry.rs: the jobs of a   *)
(* study, for every experiment or condition it names, every row of the     *)
(* matrix of the experiment and of the axes of the study, every variant    *)
(* and every seed, each with its parameters merged in layers.              *)
(*                                                                         *)
(* A parameter path has one name ("m") or two ("m.w"), written <<"m">> and *)
(* <<"m", "w">>.  Parameters are an object: a function whose keys are      *)
(* paths, since a path that cannot be followed may become a key as it is.  *)
(* A value is a leaf or an object, whose keys are names.  Overrides, axes  *)
(* and variants are sequences in the order of their keys, as the maps of   *)
(* the code are.                                                           *)
(***************************************************************************)
EXTENDS Naturals, SequencesExt

CONSTANTS Leaves,      \* values that no path goes into
          Fields,      \* the names within an object
          MaxCount,    \* the largest usize
          NoSeed, NoName, NoSelector, NoQualification,
          DefaultSeed, \* the seed of a qualification that says none
          Malformed,   \* metadata of another shape than the one asked for
          Blank,       \* a name of nothing but spaces
          Refused      \* an error instead of a result

Mappings == UNION {[fields -> Leaves] : fields \in SUBSET Fields}

\* An object is not a leaf.
ASSUME LeafAssumption == Leaves \cap Mappings = {}

Path == {p \in Seq(STRING) : Len(p) = 1 \/ (Len(p) = 2 /\ p[2] \in Fields)}

\* A value may be an object where a path of one name sets it.
Override == {o \in [path : Path, value : Leaves \cup Mappings] : Len(o.path) = 2 => o.value \in Leaves}

Put(object, key, value) ==
  [k \in DOMAIN object \cup {key} |-> IF k = key THEN value ELSE object[k]]

\* The parent is there, and is an object.
Leads(params, path) == LET parent == <<path[1]>> IN parent \in DOMAIN params /\ params[parent] \notin Leaves

SetPath(params, path, value) ==
  LET parent == <<path[1]>>
  IN CASE Len(path) = 1 -> Put(params, path, value)
       [] Len(path) = 2 /\ Leads(params, path) -> Put(params, parent, Put(params[parent], path[2], value))
       [] OTHER -> Refused

\* A dotted path that cannot be followed becomes a key.
SetOrPut(params, path, value) ==
  IF Len(path) = 2 /\ Leads(params, path) THEN SetPath(params, path, value)
  ELSE Put(params, path, value)

\* The ways to apply an override: at its path; as a key; only if its path is dotted, or
\* only if it is not; or as a key if its path cannot be followed.
Apply(way, params, path, value) ==
  CASE way = "dotted" -> SetPath(params, path, value)
    [] way = "extend" -> Put(params, path, value)
    [] way = "declared dotted" -> IF Len(path) = 1 THEN params ELSE SetPath(params, path, value)
    [] way = "declared flat" -> IF Len(path) = 1 THEN Put(params, path, value) ELSE params
    [] way = "runtime" -> SetOrPut(params, path, value)

\* The overrides are applied one after the other, up to the first refused.
Layer(way, params, overrides) ==
  FoldLeft(LAMBDA done, o : IF done = Refused THEN Refused ELSE Apply(way, done, o.path, o.value),
           params, overrides)

ApplyDotted(params, overrides) == Layer("dotted", params, overrides)

ExtendParams(params, overrides) == Layer("extend", params, overrides)

\* The dotted paths of a layer are set before its plain keys.
ApplyDeclared(params, overrides) ==
  Layer("declared flat", Layer("declared dotted", params, overrides), overrides)

ApplyRuntime(params, overrides) == Layer("runtime", params, overrides)

-----------------------------------------------------------------------------
(* The grid.                                                               *)

\* For every element of s, for every element of t.
Pairs(s, t) == [k \in 1..(Len(s) * Len(t)) |-> <<s[((k - 1) \div Len(t)) + 1], t[((k - 1) % Len(t)) + 1]>>]

\* Every row with every value of an axis.
Across(rows, axis) ==
  LET pairs == Pairs(rows, axis.values)
  IN [k \in DOMAIN pairs |-> Append(pairs[k][1], [path |-> axis.path, value |-> pairs[k][2]])]

\* Every choice of a value for each axis; the last axis varies first.
Rows(axes) == FoldLeft(Across, << <<>> >>, axes)

ValidAxes(axes) == \A i \in DOMAIN axes : axes[i].values # <<>>

VariantRows(variants) ==
  IF variants = <<>> THEN << [name |-> NoName, params |-> <<>>] >> ELSE variants

Full(request) == request.mode = "full"

\* A study without a qualification has one that sets nothing.
Qualification(request) ==
  IF request.qualification = NoQualification THEN [params |-> <<>>, seed |-> DefaultSeed]
  ELSE request.qualification

\* The seeds of the study, or else those of the experiment, or else none.
Seeds(request, experiment) ==
  CASE ~Full(request) -> <<Qualification(request).seed>>
    [] Full(request) /\ request.seeds # <<>> -> request.seeds
    [] Full(request) /\ request.seeds = <<>> /\ experiment.seeds # <<>> -> experiment.seeds
    [] OTHER -> <<NoSeed>>

-----------------------------------------------------------------------------
(* What a study names.                                                     *)

\* The names of s in the order they come first in.
Distinct(s) == FoldLeft(LAMBDA done, x : IF x \in ToSet(done) THEN done ELSE Append(done, x), <<>>, s)

Names(conditions) == {conditions[i].name : i \in DOMAIN conditions}

\* The names of the conditions differ, and none is blank.
ParsedConditions(conditions) ==
  /\ Blank \notin Names(conditions) \cup {conditions[i].experiment : i \in DOMAIN conditions}
  /\ \A i, j \in DOMAIN conditions : conditions[i].name = conditions[j].name => i = j

ParsedVariants(variants) == \A i \in DOMAIN variants : variants[i].name # Blank

\* All of a study is decoded, whatever the mode uses of it.
ParsedStudy(request) ==
  /\ Malformed \notin {request.qualification, request.params, request.axes, request.variants,
                       request.conditions, request.seeds}
  /\ ValidAxes(request.axes)
  /\ ParsedVariants(request.variants) /\ ParsedConditions(request.conditions)

Decoded(experiment) == Malformed \notin {experiment.params, experiment.matrix, experiment.seeds}

\* The experiments with every tag of the selector, in the order of the registry.
Selected(request) ==
  IF request.selector = NoSelector THEN <<>>
  ELSE FoldLeft(LAMBDA found, e : IF request.selector \subseteq e.tags THEN Append(found, e.name) ELSE found,
                <<>>, request.lab)

\* A study names conditions, or else experiments and a selector of them.
Cases(request) ==
  LET experiments == Distinct(request.experiments \o Selected(request))
      given == Malformed \notin {request.experiments, request.selector}
      mixed == request.experiments # <<>> \/ request.selector # NoSelector
  IN CASE given /\ request.conditions # <<>> /\ ~mixed -> request.conditions
       [] given /\ request.conditions = <<>> /\ experiments # <<>> ->
            [i \in DOMAIN experiments |-> [name |-> NoName, experiment |-> experiments[i], params |-> <<>>]]
       [] OTHER -> Refused

Paths(overrides) == {overrides[i].path : i \in DOMAIN overrides}

\* The qualification may not fix what the design varies.
Collides(request, experiment) ==
  Paths(Qualification(request).params) \cap
    (Paths(experiment.matrix) \cup Paths(request.axes)
       \cup UNION {Paths(request.variants[i].params) : i \in DOMAIN request.variants}) # {}

\* Names are unique in the registry of one kind.
Known(request, name) == \E i \in DOMAIN request.lab : request.lab[i].name = name

Experiment(request, name) == CHOOSE e \in ToSet(request.lab) : e.name = name

-----------------------------------------------------------------------------
(* The jobs.                                                               *)

BaseParams(request, experiment, case) ==
  LET defaults == ExtendParams(<<>>, request.defaults)
      declared == ExtendParams(ExtendParams(defaults, experiment.params), request.params)
  IN ApplyDeclared(declared, case.params)

\* Mutant: the command line comes before the qualification.
RuntimeParamsFirst(request, params) ==
  ApplyRuntime(ApplyRuntime(params, request.explicit),
               IF Full(request) THEN <<>> ELSE Qualification(request).params)

\* The command line comes last.
RuntimeParams(request, params) ==
  ApplyRuntime(ApplyRuntime(params, IF Full(request) THEN <<>> ELSE Qualification(request).params),
               request.explicit)

\* The parameters of a cell: a row of the matrix, a row of the axes and a variant.
CellParams(request, experiment, case, cell) ==
  RuntimeParams(request,
    ApplyDeclared(
      ApplyDotted(ApplyDotted(BaseParams(request, experiment, case), cell[1][1]), cell[1][2]),
      cell[2].params))

Job(request, case, cell, number, seed) ==
  [experiment |-> case.experiment, condition |-> case.name, variant |-> cell[2].name,
   cell |-> number, seed |-> seed,
   params |-> CellParams(request, Experiment(request, case.experiment), case, cell)]

StudyJobs(request, case) ==
  LET experiment == Experiment(request, case.experiment)
      seeds == Seeds(request, experiment)
      cells == Pairs(Pairs(Rows(experiment.matrix), Rows(request.axes)), VariantRows(request.variants))
      seeded == Pairs(cells, seeds)
      jobs == [k \in DOMAIN seeded |->
                 Job(request, case, seeded[k][1], (k - 1) \div Len(seeds), seeded[k][2])]
  IN IF Len(seeded) > MaxCount \/ \E k \in DOMAIN jobs : jobs[k].params = Refused
     THEN Refused ELSE jobs

CaseJobs(request, case) ==
  IF /\ Known(request, case.experiment)
     /\ Decoded(Experiment(request, case.experiment))
     /\ ~Collides(request, Experiment(request, case.experiment))
     /\ ValidAxes(Experiment(request, case.experiment).matrix)
  THEN StudyJobs(request, case) ELSE Refused

Plan(request) ==
  IF ~ParsedStudy(request) \/ Cases(request) = Refused THEN Refused
  ELSE FoldLeft(LAMBDA jobs, case :
                  IF jobs = Refused \/ CaseJobs(request, case) = Refused THEN Refused
                  ELSE jobs \o CaseJobs(request, case),
                <<>>, Cases(request))

=============================================================================
