---------------------------- MODULE RunRetention ----------------------------
(***************************************************************************)
(* Run retention: prune_runs_keep_per_experiment of artifact/gc.rs, made   *)
(* by every completed run while it still holds its lock, and by the        *)
(* "storage optimize" command.  A pass looks at the run directories one by *)
(* one, groups those that promoted an artifact by experiment name, and     *)
(* removes all but the newest Keep of each group.                          *)
(*                                                                         *)
(* A session whose directory was removed does not notice: the helpers of   *)
(* fs/atomic.rs make the missing directories again, and it goes on in a    *)
(* directory without what it wrote before.                                 *)
(***************************************************************************)
EXTENDS Naturals, FiniteSets

CONSTANTS Runs,      \* run sessions, each with a directory of its own
          Names,     \* experiment names
          Name,      \* the experiment of each run
          Commands,  \* storage optimize commands
          Keep,      \* storage.runs.keep_per_experiment; 0 turns pruning off
          Kinds,     \* the kinds of artifacts the runs save
          Stops      \* TRUE: processes may die

ASSUME RetentionAssumption ==
  /\ IsFiniteSet(Runs)
  /\ Name \in [Runs -> Names]
  /\ Runs \cap Commands = {}
  /\ Keep \in Nat
  /\ Kinds \subseteq {"promoted", "staged"}
  /\ Stops \in BOOLEAN

Passes == Runs \cup Commands

VARIABLES clock,     \* the number of runs created
          created,   \* created_at of each run; 0: not created
          session,   \* where the session of each run is
          present,   \* the run directories that exist
          manifest,  \* those that hold a run.json
          lines,     \* the kinds of lines in each artifacts.jsonl
          saved,     \* the kinds of lines each session has ever written
          pass,      \* where each pass is
          unread,    \* the directories it has not looked at yet
          eligible,  \* those it found prunable
          doomed     \* those it still has to remove

dirs == <<present, manifest, lines>>
sessions == <<clock, created, session, saved>>
passes == <<pass, unread, eligible, doomed>>
vars == <<sessions, dirs, passes>>

\* The lock file .rlab.lock is there, held or left by a dead process.
Locked(r) == session[r] \in {"starting", "open", "pruning", "dead"}

Init == /\ clock = 0
        /\ created = [r \in Runs |-> 0]
        /\ session = [r \in Runs |-> "new"]
        /\ present = {}
        /\ manifest = {}
        /\ lines = [r \in Runs |-> {}]
        /\ saved = [r \in Runs |-> {}]
        /\ pass = [p \in Passes |-> "idle"]
        /\ unread = [p \in Passes |-> {}]
        /\ eligible = [p \in Passes |-> {}]
        /\ doomed = [p \in Passes |-> {}]

-----------------------------------------------------------------------------
(* Sessions: see RunSession for all they write.                            *)

\* create: the directory and its lock, the clock read into created_at.
Create(r) ==
  /\ session[r] = "new"
  /\ session' = [session EXCEPT ![r] = "starting"]
  /\ clock' = clock + 1
  /\ created' = [created EXCEPT ![r] = clock + 1]
  /\ present' = present \cup {r}
  /\ UNCHANGED <<manifest, lines, saved, passes>>

WriteManifest(r) ==
  /\ session[r] = "starting"
  /\ session' = [session EXCEPT ![r] = "open"]
  /\ present' = present \cup {r}
  /\ manifest' = manifest \cup {r}
  /\ UNCHANGED <<clock, created, lines, saved, passes>>

\* save_artifact_reference: an event with an artifact kind is also promoted.
SaveLine(r, kind) ==
  /\ session[r] = "open"
  /\ present' = present \cup {r}
  /\ lines' = [lines EXCEPT ![r] = @ \cup {kind}]
  /\ saved' = [saved EXCEPT ![r] = @ \cup {kind}]
  /\ UNCHANGED <<clock, created, session, manifest, passes>>

\* complete writes run.json again, then begins its pass under the lock, unless
\* Keep = 0 or an earlier step of the storage management fails.
Complete(r) ==
  /\ session[r] = "open"
  /\ present' = present \cup {r}
  /\ manifest' = manifest \cup {r}
  /\ \/ /\ session' = [session EXCEPT ![r] = "ended"]
        /\ UNCHANGED <<pass, unread>>
     \/ /\ Keep # 0
        /\ session' = [session EXCEPT ![r] = "pruning"]
        /\ pass' = [pass EXCEPT ![r] = "list"]
        /\ unread' = [unread EXCEPT ![r] = present']
  /\ UNCHANGED <<clock, created, lines, saved, eligible, doomed>>

Fail(r) ==
  /\ session[r] = "open"
  /\ present' = present \cup {r}
  /\ manifest' = manifest \cup {r}
  /\ session' = [session EXCEPT ![r] = "ended"]
  /\ UNCHANGED <<clock, created, lines, saved, passes>>

\* An error drops the session, and with it the lock file.
Abandon(r) ==
  /\ session[r] \in {"starting", "open"}
  /\ session' = [session EXCEPT ![r] = "ended"]
  /\ UNCHANGED <<clock, created, dirs, saved, passes>>

\* The process of a run dies and leaves the lock file.
Die(r) ==
  /\ Stops
  /\ session[r] \in {"starting", "open", "pruning"}
  /\ session' = [session EXCEPT ![r] = "dead"]
  /\ pass' = [pass EXCEPT ![r] = "idle"]
  /\ unread' = [unread EXCEPT ![r] = {}]
  /\ eligible' = [eligible EXCEPT ![r] = {}]
  /\ doomed' = [doomed EXCEPT ![r] = {}]
  /\ UNCHANGED <<clock, created, dirs, saved>>

-----------------------------------------------------------------------------
(* Passes.                                                                 *)

Optimize(c) ==
  /\ Keep # 0
  /\ pass[c] = "idle"
  /\ pass' = [pass EXCEPT ![c] = "list"]
  /\ unread' = [unread EXCEPT ![c] = present]
  /\ UNCHANGED <<sessions, dirs, eligible, doomed>>

\* The code looks for a file named run.lock, which no run directory holds; it
\* wants a promoted line, then run.json.
Look(p, r) ==
  /\ pass[p] = "list"
  /\ r \in unread[p]
  /\ unread' = [unread EXCEPT ![p] = @ \ {r}]
  /\ eligible' = [eligible EXCEPT ![p] =
                    IF r \in present \cap manifest /\ "promoted" \in lines[r]
                    THEN @ \cup {r} ELSE @]
  /\ UNCHANGED <<sessions, dirs, pass, doomed>>

\* The runs of set that the sort puts before r.
Newer(r, set) == {q \in set : Name[q] = Name[r] /\ created[q] > created[r]}

\* Mutant: the oldest are kept.
ChooseOldest(p) ==
  /\ pass[p] = "list"
  /\ unread[p] = {}
  /\ pass' = [pass EXCEPT ![p] = "remove"]
  /\ doomed' = [doomed EXCEPT ![p] =
       {r \in eligible[p] : Cardinality({q \in eligible[p] : r \in Newer(q, {r})}) >= Keep}]
  /\ UNCHANGED <<sessions, dirs, unread, eligible>>

\* sort_by created_at, newest first, and skip(keep), in each group.
Choose(p) ==
  /\ pass[p] = "list"
  /\ unread[p] = {}
  /\ pass' = [pass EXCEPT ![p] = "remove"]
  /\ doomed' = [doomed EXCEPT ![p] =
       {r \in eligible[p] : Cardinality(Newer(r, eligible[p])) >= Keep}]
  /\ UNCHANGED <<sessions, dirs, unread, eligible>>

\* Each group is removed newest first.
Turn(p, r) == r \in doomed[p] /\ Newer(r, doomed[p]) = {}

Remove(p, r) ==
  /\ pass[p] = "remove"
  /\ Turn(p, r)
  /\ r \in present
  /\ present' = present \ {r}
  /\ manifest' = manifest \ {r}
  /\ lines' = [lines EXCEPT ![r] = {}]
  /\ doomed' = [doomed EXCEPT ![p] = @ \ {r}]
  /\ UNCHANGED <<sessions, pass, unread, eligible>>

\* The pass of a session is the last thing it does: the lock file goes.
Leave(p) ==
  /\ pass' = [pass EXCEPT ![p] = "idle"]
  /\ unread' = [unread EXCEPT ![p] = {}]
  /\ eligible' = [eligible EXCEPT ![p] = {}]
  /\ doomed' = [doomed EXCEPT ![p] = {}]
  /\ session' = [r \in Runs |-> IF r = p THEN "ended" ELSE session[r]]
  /\ UNCHANGED <<clock, created, saved, dirs>>

EndPass(p) == pass[p] = "remove" /\ doomed[p] = {} /\ Leave(p)

\* Mutant: the groups are formed again from the runs found before.
PassErrorRetried(p) ==
  /\ pass[p] = "remove"
  /\ \E r \in Runs \ present : Turn(p, r)
  /\ pass' = [pass EXCEPT ![p] = "list"]
  /\ UNCHANGED <<sessions, dirs, unread, eligible, doomed>>

\* remove_dir_all of a directory another pass has removed already.
PassError(p) == /\ pass[p] = "remove"
                /\ \E r \in Runs \ present : Turn(p, r)
                /\ Leave(p)

-----------------------------------------------------------------------------

SessionStep(r) == \/ Create(r)
                  \/ WriteManifest(r)
                  \/ \E kind \in Kinds : SaveLine(r, kind)
                  \/ Complete(r)
                  \/ Fail(r)
                  \/ Abandon(r)
                  \/ Die(r)

PassStep(p) == \/ \E r \in Runs : Look(p, r) \/ Remove(p, r)
               \/ Choose(p)
               \/ EndPass(p)
               \/ PassError(p)

Next == \/ \E r \in Runs : SessionStep(r)
        \/ \E c \in Commands : Optimize(c)
        \/ \E p \in Passes : PassStep(p)

Spec == Init /\ [][Next]_vars

\* A pass whose process lives goes on.
FairSpec == Spec /\ \A p \in Passes : WF_vars(PassStep(p))

-----------------------------------------------------------------------------
(* Properties.                                                             *)

TypeOK ==
  /\ clock \in Nat
  /\ created \in [Runs -> Nat]
  /\ session \in [Runs -> {"new", "starting", "open", "pruning", "ended", "dead"}]
  /\ present \subseteq Runs
  /\ manifest \subseteq present
  /\ lines \in [Runs -> SUBSET Kinds]
  /\ saved \in [Runs -> SUBSET Kinds]
  /\ pass \in [Passes -> {"idle", "list", "remove"}]
  /\ unread \in [Passes -> SUBSET Runs]
  /\ eligible \in [Passes -> SUBSET Runs]
  /\ doomed \in [Passes -> SUBSET Runs]

\* However many passes read, choose and remove at the same time, and whatever
\* runs are created or promote meanwhile, the newest Keep runs of an experiment
\* that promoted an artifact have their directory.
Promoters == {r \in Runs : "promoted" \in saved[r]}
RecentKept == \A r \in Promoters :
                Cardinality(Newer(r, Promoters)) < Keep => r \in present

\* config/model.rs: "lightweight runs are never lost", which promoted nothing.
LightweightKept == [][\A r \in present \ present' : r \in Promoters]_vars

\* A pass that has begun ends, even when others remove what it wants to remove.
PassEnds == \A p \in Passes : (pass[p] # "idle") ~> (pass[p] = "idle")

\* gc.rs:116: "Runs holding a `run.lock` are always preserved."
LockedPreserved == [][\A r \in present \ present' : ~Locked(r)]_vars

=============================================================================
