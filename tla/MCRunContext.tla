---------------------------- MODULE MCRunContext ----------------------------
(***************************************************************************)
(* Model checking of RunContext: two runs that make workspaces, or one     *)
(* that also runs commands and writes files.                               *)
(***************************************************************************)
EXTENDS RunContext

\* Bound: either both runs call for workspaces, three times in all, and the cache may be
\* cleaned; or one run makes three calls of any kind, the first for a workspace, and
\* its workspace calls succeed.
Alone(r) == \A q \in Callers \ {r} : life[q] = "dead" /\ calls[q] = 0
Bounded == \A r \in Callers :
  \/ /\ Alone(r) /\ ~again'[r] /\ ~spoilt'
     /\ got'[r] = "returned" \/ (step'[r] = "none" /\ file'[r] = 0)
  \/ \E q \in Callers \ {r} : Alone(q)
  \/ /\ step'[r] = "none" /\ result'[r] = "none" /\ file'[r] = 0
     /\ \A q \in Callers \ {r} : calls'[r] + calls'[q] <= 3
     /\ calls[r] = 0 => life'[r] # "dead"

\* Bound: by symmetry the run that is alone is always the same, and it has a plain cached path.
First == CHOOSE r \in Callers : TRUE
ContextInit == /\ CInit
               /\ life[First] = "calling"
               /\ Alone(First) => ~nested /\ \A s \in Sources : holds[s] = "dir"

=============================================================================
