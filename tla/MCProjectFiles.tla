--------------------------- MODULE MCProjectFiles ----------------------------
(* A terminal that loads the configuration, a program that resolves        *)
(* configuration documents, commands on the journal, or programs that      *)
(* share a cache of rows: one of the four in a behaviour.                  *)
EXTENDS ProjectConfig, Journal, RowCache

CONSTANTS a, b, one, two, null, NoParent, Refused, BadName, MaxDocEdits,
          notes, ideas

MCDirName(d) == IF d = 1 THEN "project" ELSE "package"

MCPyprojectFiles ==
  {<<>>,
   [project |-> "alpha"],
   [project |-> "alpha", name |-> "beta", modules |-> {<<"py", "m">>}],
   [name |-> "", cache |-> "py-cache", executable |-> "", strict |-> TRUE],
   [runs |-> "outside", modules |-> {}]}

MCLabFiles ==
  {[name |-> "gamma", load |-> {<<"lab", "l">>}, modules |-> {<<"lab", "m">>}],
   [load |-> {<<"lab", "l">>}, params |-> "lab", seed |-> "lab",
    registry_cache |-> <<"lab-registry", "own.json">>],
   [modules |-> {}, executable |-> "lab-python", runs |-> "lab-runs"],
   [cache |-> "lab-cache", registry_cache |-> <<"lab-registry", "own.json">>],
   [cache |-> "outside", strict |-> FALSE]}

MCEnvironments ==
  {<<>>,
   [cache |-> "env-cache", runs |-> "env-runs"],
   [strict |-> TRUE, executable |-> "env-python"],
   [strict |-> BadBoolean]}

MCSources == {{}, {<<"root", "experiments">>, <<"alpha", "workflows">>, <<"gamma", "workflows">>}}

\* Objects of two levels.
MCContents ==
  LET Values == {[m |-> [w |-> two]], [m |-> [w |-> one, v |-> null]], [k |-> two, m |-> null]}
  IN [parent : {NoParent, a, b}, value : Values] \cup {[parent |-> BadName, value |-> [k |-> one]]}

MCOverrideLists ==
  {<<>>,
   <<[path |-> <<"m", "w">>, value |-> null]>>,
   <<[path |-> <<"k">>, value |-> [w |-> one]], [path |-> <<"k", "w">>, value |-> two]>>}

MCKeyPaths ==
  <<<<"k">>, <<"k", "w">>, <<"m">>, <<"m", "k">>, <<"m", "v">>, <<"m", "w">>, <<"m", "w", "v">>,
    <<"w">>, <<"w", "v">>>>

\* Parameters by their own names; two that come to one path, one that is excluded;
\* one below another.
MCContexts ==
  LET P(key, value) == [path |-> key, value |-> value]
  IN {[params |-> <<P(<<"k">>, one), P(<<"m", "w">>, null)>>,
       exclude |-> {}, prefix |-> <<>>, passthrough |-> {}],
      [params |-> <<P(<<"k">>, two), P(<<"m", "w">>, one), P(<<"w">>, two)>>,
       exclude |-> {<<"k">>}, prefix |-> <<"m">>, passthrough |-> {"m"}],
      [params |-> <<P(<<"w">>, [v |-> one]), P(<<"w", "v">>, two)>>,
       exclude |-> {}, prefix |-> <<"m">>, passthrough |-> {}]}

MCRows == {one, two, NoRow}
MCTables == {<<one>>, <<two, one>>, <<one, NoRow>>}

MCReadingOrder == <<ideas, notes>>

VARIABLES docs, resolution, docEdits,
          part   \* "settings", "documents", "journal" or "rows"

D == INSTANCE ConfigDocuments WITH
       Docs <- {a, b}, Scalars <- {one, two, null}, Null <- null,
       Contents <- MCContents, OverrideLists <- MCOverrideLists,
       KeyPaths <- MCKeyPaths, Contexts <- MCContexts

docVars == <<docs, resolution, docEdits>>

NoDocuments ==
  docs = [d \in {a, b} |-> D!Missing] /\ resolution = D!Idle /\ docEdits = 0

NoFiles ==
  /\ pyproject = [d \in Dirs |-> Absent] /\ lab = [d \in Dirs |-> Absent]
  /\ git = {} /\ sources = [d \in Dirs |-> {}] /\ load = NoCommand /\ configEdits = 0

\* The upper directory is any project; what the lower one holds is one of a few.
FewBelow ==
  /\ pyproject[Depth] \in {Absent, Whole([project |-> "alpha"])}
  /\ lab[Depth] \in {Absent, Whole([cache |-> "outside", strict |-> FALSE])}
  /\ Absent \in {pyproject[Depth], lab[Depth]}
  /\ sources[Depth] = {}
  /\ git \in IF pyproject[Depth] = Absent /\ lab[Depth] = Absent THEN {{}, {Depth}} ELSE {{}}

Init ==
  /\ \/ part = "settings" /\ ConfigInit /\ FewBelow /\ NoDocuments
     \/ part = "documents" /\ D!DocInit /\ NoFiles
     \/ part \in {"journal", "rows"} /\ NoFiles /\ NoDocuments
  /\ JournalInit /\ RowInit

Next ==
  /\ \/ part = "settings" /\ ConfigNext /\ UNCHANGED <<docVars, journalVars, rowVars>>
     \/ part = "documents" /\ D!DocNext /\ UNCHANGED <<configVars, journalVars, rowVars>>
     \/ part = "journal" /\ JournalNext /\ UNCHANGED <<configVars, docVars, rowVars>>
     \/ part = "rows" /\ RowNext /\ UNCHANGED <<configVars, docVars, journalVars>>
  /\ UNCHANGED part

Symmetry == Permutations(Writers) \cup Permutations(Callers)

Spec == Init /\ [][Next]_<<configVars, docVars, journalVars, rowVars, part>>

DocumentsAreExact == part = "documents" => D!DocumentsAreExact
=============================================================================
