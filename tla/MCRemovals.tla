----------------------------- MODULE MCRemovals -----------------------------
(***************************************************************************)
(* Model checking of what removes whole directories while others use them: *)
(* the passes over run directories (RunRetention), or the evictions of the *)
(* materialized cache (Materialized), one of the two in a behaviour.       *)
(***************************************************************************)
EXTENDS RunRetention, Materialized

CONSTANTS r1, r2, train

\* Passes treat the runs of each experiment alike.
OneExperiment == [r \in Runs |-> train]

VARIABLE part   \* "runs" or "materialized"

MCInit == Init /\ CacheInit /\ part \in {"runs", "materialized"}

\* Every call has ended; the evictions may have nothing left to remove.
CallsOver == /\ part = "materialized" /\ \A c \in Calls : pc[c] \in {"returned", "failed"}
             /\ UNCHANGED <<vars, cacheVars>>

MCNext == /\ \/ part = "runs" /\ Next /\ UNCHANGED cacheVars
             \/ part = "materialized" /\ CacheNext /\ UNCHANGED vars
             \/ CallsOver
          /\ UNCHANGED part

RunsGoOn(A) == part = "runs" /\ A
CacheGoesOn(A) == part = "materialized" /\ A

\* The fairness of each, in the behaviours that are its own.
MCFairness == /\ \A p \in Passes : WF_vars(RunsGoOn(PassStep(p)))
              /\ \A c \in Calls : WF_cacheVars(CacheGoesOn(CallStep(c)))

MCSpec == MCInit /\ [][MCNext]_<<vars, cacheVars, part>> /\ MCFairness

\* A pass over the runs that has begun ends, even when others remove what it wants
\* to remove; a call of resolve_path returns or fails, whatever evictions do.
RemovalsEnd == PassEnds /\ CallEnds
=============================================================================
