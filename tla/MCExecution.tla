---------------------------- MODULE MCExecution -----------------------------
(***************************************************************************)
(* Model checking of an executed run, seen from its two sides: the host    *)
(* that replays what the runner writes (HostExecution), or the callable    *)
(* and its context (RunContext), one of the two in a behaviour.  They meet *)
(* in the stream of events: what the one calls an artifact record is what  *)
(* the other records and what it stores when it is replayed.               *)
(***************************************************************************)
EXTENDS HostExecution, MCRunContext

VARIABLE side   \* "host" or "context"

NoContext ==
  /\ CInit
  /\ life = [r \in Callers |-> "dead"] /\ ~nested
  /\ source = [r \in Callers |-> CHOOSE s \in Sources : TRUE]
  /\ holds = [s \in Sources |-> "dir"]

MCInit == \/ side = "host" /\ HInit /\ NoContext
          \/ side = "context" /\ HInit /\ ContextInit

MCNext == /\ \/ side = "host" /\ HNext /\ UNCHANGED cvars
             \/ side = "context" /\ CNext /\ Bounded /\ UNCHANGED hvars
          /\ UNCHANGED side

HostGoesOn(A) == side = "host" /\ A
ContextGoesOn(A) == side = "context" /\ A
MCFairness ==
  /\ \A r \in Runs : /\ WF_hvars(HostGoesOn(SessionStep(r)))
                     /\ WF_hvars(HostGoesOn(HostStep(r)))
                     /\ WF_hvars(HostGoesOn(RunnerStep(r)))
  /\ \A r \in Callers : /\ WF_cvars(ContextGoesOn(ContextStep(r)))
                        /\ WF_cvars(ContextGoesOn(InWorkspace(r)))

MCSpec == MCInit /\ [][MCNext]_<<hvars, cvars, side>> /\ MCFairness
=============================================================================
