----------------------------- MODULE MCStudyRun -----------------------------
(***************************************************************************)
(* Model checking of StudyRun: the layers of parameters with one way of    *)
(* naming experiments, then the ways of naming them with few layers.       *)
(***************************************************************************)
EXTENDS StudyRun

CONSTANTS v1, v2, v3, s1, s2, s3

X == <<"x">>
M == <<"m">>
MW == <<"m", "w">>
Set(path, value) == [path |-> path, value |-> value]
Axis(path, values) == [path |-> path, values |-> values]
Object(value) == "w" :> value

First == [name |-> "e1", tags |-> {"t"}, params |-> <<Set(M, Object(v1))>>,
          matrix |-> <<Axis(X, <<v1, v2>>)>>, seeds |-> <<>>]
Second == [First EXCEPT !.name = "e2", !.matrix = <<>>, !.seeds = <<s1, s2>>]

Experiments ==
  [name : {"e1"}, tags : {{"t"}},
   params : {<<>>, <<Set(M, Object(v1))>>, <<Set(MW, v1)>>},
   matrix : {<<>>, <<Axis(X, <<v1, v2>>)>>, <<Axis(MW, <<v1, v2>>)>>},
   seeds : {<<>>, <<s1, s2>>}]

Variants == <<[name |-> "a", params |-> <<Set(M, Object(v2))>>],
              [name |-> "b", params |-> <<Set(MW, v2)>>]>>

Layered ==
  [mode : {"full", "qualification"},
   defaults : {<<>>, <<Set(M, v1), Set(X, v1)>>},
   default_seed : {NoSeed},
   explicit : {<<>>, <<Set(X, v3)>>, <<Set(MW, v3)>>, <<Set(M, v3), Set(MW, v3)>>},
   lab : {<<e>> : e \in Experiments},
   params : {<<>>, <<Set(M, Object(v2))>>},
   axes : {<<>>, <<Axis(X, <<v2, v3>>)>>},
   variants : {<<>>, Variants},
   conditions : {<<>>},
   experiments : {<<"e1">>},
   selector : {NoSelector},
   seeds : {<<>>},
   qualification : [params : {<<>>, <<Set(MW, v2)>>}, seed : {s3}]]

Condition(name, experiment) == [name |-> name, experiment |-> experiment, params |-> <<Set(MW, v3)>>]

Named ==
  [mode : {"full", "qualification"},
   defaults : {<<>>},
   default_seed : {NoSeed, s3},
   explicit : {<<Set(X, v3)>>},
   lab : {<<First, Second>>},
   params : {<<>>},
   axes : {<<>>, <<Axis(X, <<>>)>>},
   variants : {<<>>},
   conditions : {<<>>, <<Condition("c1", "e1"), Condition("c2", "e1")>>,
                 <<Condition("c1", "e1"), Condition("c1", "e2")>>},
   experiments : {<<>>, <<"e2", "e1", "e2">>, <<"e3">>},
   selector : {NoSelector, {"t"}, {"t", "u"}},
   seeds : {<<>>, <<s2>>},
   qualification : [params : {<<>>, <<Set(X, v2)>>}, seed : {s3}]]

\* Studies and experiments with a part of another shape, or a blank name.
Plain == CHOOSE r \in Named :
           /\ r.conditions # <<>> /\ r.selector = NoSelector /\ r.axes = <<>>
           /\ Plan(r) # Refused
Flawed ==
  {[Plain EXCEPT !.qualification = q] : q \in {NoQualification, Malformed}}
    \cup {[Plain EXCEPT !.variants = v] : v \in {<<[name |-> Blank, params |-> <<>>]>>, Malformed}}
    \cup {[Plain EXCEPT !.conditions = <<Condition(n, e)>>] :
             <<n, e>> \in {<<Blank, "e1">>, <<"c1", Blank>>}}
    \cup {[Plain EXCEPT !.selector = Malformed], [Plain EXCEPT !.lab[1].matrix = Malformed]}

AllRequests == Layered \cup Named \cup Flawed

=============================================================================
