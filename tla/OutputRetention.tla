--------------------------- MODULE OutputRetention ---------------------------
(***************************************************************************)
(* Output retention: apply_output_retention of run/storage.rs and what     *)
(* follows it, on the outputs of one completed run.  A pass finds the      *)
(* checkpoint directories that hold resume-only files, decides which one   *)
(* is to stay resumable, removes the resume-only files of the others one   *)
(* by one, stages the changed directories again, and links the files of    *)
(* all of them to the store.  A pass is made by the run's own session when *)
(* it completes, and by every "storage optimize" command, which looks for  *)
(* a lock file by a name no run uses: passes may overlap.                  *)
(*                                                                         *)
(* A directory is looked at in one step, and so are its modification       *)
(* times; what staging one does to the store is part of ArtifactStore.     *)
(***************************************************************************)
EXTENDS Naturals, FiniteSets

CONSTANTS Dirs,       \* the directories of outputs/, in the order of their names
          Files,      \* names that match resume_only_globs
          Saved,      \* the directories saved as artifacts of the run
          Passes,     \* the run's session and storage optimize commands
          NoDir

ASSUME OutputAssumption ==
  /\ Dirs \subseteq Nat /\ IsFiniteSet(Dirs)
  /\ Saved \subseteq Dirs
  /\ NoDir \notin Dirs

VARIABLES had,      \* the resume-only files the program left in each directory
          pointer,  \* the directory the resume pointer names, if any
          keep,     \* keep_resume_state, "last" or "none"; "all" makes no pass
          state,    \* those that are still there
          mtime,    \* the modification time of each directory
          clock,    \* the last modification time given
          staged,   \* those in the object the run's artifacts.jsonl names
          linked,   \* the directories whose files are links to the store
          pc,       \* where each pass is
          found,    \* the directories it found resume-only files in
          keeps,    \* the one it leaves alone
          changed,  \* those it removed a file from, and has not staged again
          lines,    \* artifacts.jsonl as it read it, with what it has staged since
          events    \* "overlap": a pass began while another was at work;
                    \* "rewrite": it read artifacts.jsonl while another was to
                    \* write it; "stop": a pass was stopped

given == <<had, pointer, keep>>
files == <<state, mtime, clock, staged, linked>>
passes == <<pc, found, keeps, changed, lines>>
vars == <<given, files, passes, events>>

Init == /\ had \in [Dirs -> SUBSET Files]
        /\ pointer \in Dirs \cup {NoDir}
        /\ keep \in {"last", "none"}
        /\ state = had
        /\ mtime \in [Dirs -> 1..Cardinality(Dirs)]
        /\ \A d, e \in Dirs : d # e => mtime[d] # mtime[e]
        /\ clock = Cardinality(Dirs)
        /\ staged = had
        /\ linked = {}
        /\ pc = [p \in Passes |-> "idle"]
        /\ found = [p \in Passes |-> {}]
        /\ keeps = [p \in Passes |-> NoDir]
        /\ changed = [p \in Passes |-> {}]
        /\ lines = [p \in Passes |-> had]
        /\ events = {}

Goto(p, from, to) == pc[p] = from /\ pc' = [pc EXCEPT ![p] = to]

\* Whatever changes an entry of a directory changes its modification time.
Touch(d) == /\ clock' = clock + 1
            /\ mtime' = [mtime EXCEPT ![d] = clock + 1]

-----------------------------------------------------------------------------

\* find_resume_state_dirs.
Find(p) ==
  /\ Goto(p, "idle", "resolve")
  /\ events' = IF \A q \in Passes : pc[q] = "idle" THEN events ELSE events \cup {"overlap"}
  /\ found' = [found EXCEPT ![p] = {d \in Dirs : state[d] # {}}]
  /\ UNCHANGED <<given, files, keeps, changed, lines>>

\* max_by_key on the modification times.
Newest(dirs) == {d \in dirs : \A e \in dirs : mtime[e] <= mtime[d]}

\* Mutant: the pointer is not read.
ResumeDirUnpointed(dirs) == IF keep = "none" THEN {} ELSE Newest(dirs)

\* resolve_resume_dir: the pointer if it names one of dirs, else the newest.
ResumeDir(dirs) ==
  CASE keep = "none"                       -> {}
    [] keep = "last" /\ pointer \in dirs   -> {pointer}
    [] OTHER                               -> Newest(dirs)

Resolve(p) ==
  /\ Goto(p, "resolve", "strip")
  /\ \/ /\ ResumeDir(found[p]) = {}
        /\ UNCHANGED keeps
     \/ \E d \in ResumeDir(found[p]) : keeps' = [keeps EXCEPT ![p] = d]
  /\ UNCHANGED <<given, files, found, changed, lines, events>>

\* Mutant: the directory to keep is stripped as well.
ToStripAll(p) == found[p]

ToStrip(p) == found[p] \ {keeps[p]}

\* strip_resume_only_files removes one file, of the first directory that has one.
StripFile(p, d, f) ==
  /\ pc[p] = "strip"
  /\ d \in ToStrip(p)
  /\ f \in state[d]
  /\ \A e \in ToStrip(p) : e < d => state[e] = {}
  /\ state' = [state EXCEPT ![d] = @ \ {f}]
  /\ changed' = [changed EXCEPT ![p] = @ \cup {d}]
  /\ Touch(d)
  /\ UNCHANGED <<given, staged, linked, pc, found, keeps, lines, events>>

\* Mutant: a directory is done once one file of it is removed.
EndStripEarly(p) ==
  /\ \A d \in ToStrip(p) : d \in changed[p] \/ state[d] = {}
  /\ Goto(p, "strip", IF changed[p] = {} THEN "link" ELSE "restage")
  /\ UNCHANGED <<given, files, found, keeps, changed, lines, events>>

EndStrip(p) ==
  /\ \A d \in ToStrip(p) : state[d] = {}
  /\ Goto(p, "strip", IF changed[p] = {} THEN "link" ELSE "restage")
  /\ UNCHANGED <<given, files, found, keeps, changed, lines, events>>

\* restage_run_checkpoints reads the lines of artifacts.jsonl, all at once.
ReadLines(p) ==
  /\ Goto(p, "restage", "stage")
  /\ lines' = [lines EXCEPT ![p] = staged]
  /\ events' = IF \E q \in Passes : pc[q] = "stage" THEN events \cup {"rewrite"} ELSE events
  /\ UNCHANGED <<given, files, found, keeps, changed>>

\* It stages again, one by one, the changed directories that have a line.
StageDir(p, d) ==
  /\ pc[p] = "stage"
  /\ d \in changed[p] \cap Saved
  /\ lines' = [lines EXCEPT ![p][d] = state[d]]
  /\ changed' = [changed EXCEPT ![p] = @ \ {d}]
  /\ UNCHANGED <<given, files, pc, found, keeps, events>>

\* Mutant: one directory staged again is enough.
WriteLinesEarly(p) ==
  /\ Cardinality(changed[p] \cap Saved) < 2
  /\ Goto(p, "stage", "link")
  /\ staged' = lines[p]
  /\ changed' = [changed EXCEPT ![p] = {}]
  /\ lines' = [lines EXCEPT ![p] = had]
  /\ UNCHANGED <<given, state, mtime, clock, linked, found, keeps, events>>

\* And it writes the whole file, with the lines it read for all the others.
WriteLines(p) ==
  /\ changed[p] \cap Saved = {}
  /\ Goto(p, "stage", "link")
  /\ staged' = lines[p]
  /\ changed' = [changed EXCEPT ![p] = {}]
  /\ lines' = [lines EXCEPT ![p] = had]
  /\ UNCHANGED <<given, state, mtime, clock, linked, found, keeps, events>>

\* relink_run_outputs renames a link over each file of a saved directory.
Relink(p, d) ==
  /\ pc[p] = "link"
  /\ d \in Saved \ linked
  /\ linked' = linked \cup {d}
  /\ Touch(d)
  /\ UNCHANGED <<given, state, staged, passes, events>>

Leave(p) ==
  /\ pc' = [pc EXCEPT ![p] = "idle"]
  /\ found' = [found EXCEPT ![p] = {}]
  /\ keeps' = [keeps EXCEPT ![p] = NoDir]
  /\ changed' = [changed EXCEPT ![p] = {}]
  /\ lines' = [lines EXCEPT ![p] = had]
  /\ UNCHANGED <<given, files>>

EndPass(p) == pc[p] = "link" /\ Saved \subseteq linked /\ Leave(p) /\ UNCHANGED events

\* A file is linked under a temporary name that is the same for every pass, then
\* renamed: of two passes that link at the same time one finds the name taken, or
\* what it made gone, and the pass ends there.
RelinkFails(p) == /\ pc[p] = "link"
                  /\ \E q \in Passes \ {p} : pc[q] = "link"
                  /\ ~(Saved \subseteq linked)
                  /\ Leave(p)
                  /\ UNCHANGED events

\* A pass is killed, or one of its calls fails, as when a file it wants to
\* remove is gone.
Stop(p) == /\ pc[p] # "idle"
           /\ events' = events \cup {"stop"}
           /\ Leave(p)

-----------------------------------------------------------------------------

Step(p) == \/ Resolve(p)
           \/ \E d \in Dirs, f \in Files : StripFile(p, d, f)
           \/ EndStrip(p)
           \/ ReadLines(p)
           \/ \E d \in Dirs : StageDir(p, d)
           \/ WriteLines(p)
           \/ \E d \in Dirs : Relink(p, d)
           \/ RelinkFails(p)
           \/ EndPass(p)

Next == \E p \in Passes : Find(p) \/ Step(p) \/ Stop(p)

Spec == Init /\ [][Next]_vars

-----------------------------------------------------------------------------
(* Properties.                                                             *)

TypeOK ==
  /\ had \in [Dirs -> SUBSET Files]
  /\ pointer \in Dirs \cup {NoDir}
  /\ keep \in {"last", "none"}
  /\ state \in [Dirs -> SUBSET Files]
  /\ mtime \in [Dirs -> Nat]
  /\ clock \in Nat
  /\ staged \in [Dirs -> SUBSET Files]
  /\ linked \subseteq Dirs
  /\ pc \in [Passes -> {"idle", "resolve", "strip", "restage", "stage", "link"}]
  /\ found \in [Passes -> SUBSET Dirs]
  /\ keeps \in [Passes -> Dirs \cup {NoDir}]
  /\ changed \in [Passes -> SUBSET Dirs]
  /\ lines \in [Passes -> [Dirs -> SUBSET Files]]
  /\ events \subseteq {"overlap", "rewrite", "stop"}

\* The directory the resume pointer names keeps all its resume-only files, however
\* many passes overlap and wherever they stop.
PointerKept == keep = "last" /\ pointer # NoDir => state[pointer] = had[pointer]

\* A directory can still be resumed from: one that the program left whole is whole.
Resumable == (\E d \in Dirs : had[d] # {}) => \E d \in Dirs : had[d] # {} /\ state[d] = had[d]

\* With or without a pointer, passes that neither overlap nor stop midway leave one
\* directory to resume from, however many there are: the next pass chooses the same
\* although modification times have changed.
StillResumable == keep = "last" /\ events = {} => Resumable

\* config/model.rs:107: "Keep resume-only files only on the resumable copy; strip
\* them elsewhere."  Without the condition on the passes it is false.
AlwaysResumable == keep = "last" => Resumable

\* A pass that ends leaves resume-only files in one directory at most, in none
\* when the policy says so, whatever other passes did meanwhile.
PolicyApplied ==
  [][\A p \in Passes : EndPass(p) =>
       \A d, e \in Dirs : state[d] # {} /\ state[e] # {} => d = e /\ keep = "last"]_vars

\* What artifacts.jsonl records of a directory never lacks a file that is there, and
\* has none that a pass has removed once all have ended, as long as none was stopped
\* and no two had read the file before either wrote it; the second would write the
\* lines it read over those of the first.
StagedFresh ==
  /\ \A d \in Saved : state[d] \subseteq staged[d]
  /\ (events \subseteq {"overlap"} /\ \A p \in Passes : pc[p] = "idle") =>
       \A d \in Saved : staged[d] = state[d]

=============================================================================
