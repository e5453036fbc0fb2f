----------------------------- MODULE MCRunScans -----------------------------
(***************************************************************************)
(* Bounds of RunScans for MCReaders: three runs, of which some are there at *)
(* the start, and one or two commands.                                     *)
(***************************************************************************)
EXTENDS RunScans

CONSTANTS a, b

Query(target, seed) == [kind |-> "query", target |-> target, seed |-> seed]
Gc(older, dry, force) == [kind |-> "prune", older |-> older, dry |-> dry, force |-> force]
Compare(threshold) == [kind |-> "compare", threshold |-> threshold]
Migrate(apply) == [kind |-> "migrate", apply |-> apply]
Clean(force) == [kind |-> "clean", force |-> force]
Older(amount, unit) == [amount |-> amount, unit |-> unit]
List == [kind |-> "list"]
CheckAll == [kind |-> "reproducibility"]

\* The first run may be of another release, or torn; at the start the runs are as far
\* as given.
Lab(version, far, time, cache, asked1, asked2) ==
  [version |-> <<version, "current", "current">>, step |-> far, now |-> time, place |-> <<2, 1, 3>>,
   registry |-> cache, outside |-> cache = "torn", asked |-> [c1 |-> asked1, c2 |-> asked2],
   target |-> <<<<a>>, <<a, b>>, <<b>>>>, seed |-> <<1, 2, 1>>, metric |-> <<5, 2, 4>>]

Letters == {a, "*", "?"}
Patterns == UNION {[1..n -> Letters] : n \in 0..2}

\* What is removed while others read.
Removals == {Clean(TRUE), Gc(Older(1, "s"), FALSE, TRUE)}
\* The command lines of gc: all units, both modes, none, amounts that go round and that reach
\* back too far; and those that are refused.
GcLines == {Gc(Older(n, "m"), d, ~d) : n \in {0, 1, 4, 5, 7}, d \in BOOLEAN}
           \cup {Gc(Older(1, "s"), TRUE, f) : f \in BOOLEAN}
           \cup {Gc(Unset, FALSE, TRUE), Gc(Older(1, "s"), FALSE, FALSE)}

MCLabs ==
  {Lab("current", <<5, 5, 0>>, 2, "current", {List, Query(Unset, 1)}, Removals),
   Lab("current", <<5, 5, 3>>, 2, "current", {Query(Unset, 1), CheckAll}, {Clean(TRUE)}),
   Lab("other", <<5, 5, 1>>, 2, "unversioned", {Migrate(FALSE)}, Removals),
   Lab("torn", <<5, 5, 0>>, 2, "none", {List, Query(Unset, Unset), Migrate(FALSE)}, {}),
   Lab("unversioned", <<5, 5, 0>>, 2, "torn", {Migrate(TRUE), List}, {Clean(TRUE)}),
   Lab("unversioned", <<5, 5, 0>>, 2, "other", {Migrate(TRUE), CheckAll}, {Clean(FALSE)}),
   Lab("current", <<5, 5, 5>>, 2, "none", {Query(p, Unset) : p \in Patterns}, {}),
   Lab("current", <<3, 5, 5>>, 2, "none", {Compare(t) : t \in {Unset, 1}}, {Gc(Older(1, "s"), FALSE, TRUE)}),
   Lab("current", <<0, 5, 3>>, 1, "none", GcLines, {}),
   Lab("current", <<5, 5, 2>>, 2, "none", {Gc(Older(1, "m"), FALSE, TRUE)}, {Gc(Older(1, "s"), FALSE, TRUE)})}

MCUnitSeconds == [s |-> 1, m |-> 2]
=============================================================================
