---------------------------- MODULE ArtifactStore ----------------------------
(***************************************************************************)
(* The content-addressed store of rlab-core/src/artifact: the runs that    *)
(* stage artifacts into it (stage_artifact_into of run/lifecycle.rs), the  *)
(* "artifact promote" command (store.rs), and the sweeps of the garbage    *)
(* collector (gc.rs), all processes of their own on one directory tree.    *)
(*                                                                         *)
(* An artifact is a file or a directory, known by the blobs it is made of; *)
(* a directory also has a tree file that lists them.  Each step below is   *)
(* one file-system operation of one process.  Nothing in the code keeps a  *)
(* sweep from running while other processes write, nor two processes from  *)
(* copying to the same file.  The versions are those that are given by     *)
(* name: a version left empty is the digest of its only object.            *)
(*                                                                         *)
(* Observe keeps what the properties speak of and no process knows.        *)
(***************************************************************************)
EXTENDS Naturals, Sequences

CONSTANTS Blobs,       \* file contents, named by their digest
          Objects,     \* the artifacts that may be stored
          Versions,    \* kind/name@version references
          Aliases,     \* kind/name/alias files
          Runs,        \* run sessions
          Promoters,   \* artifact promote commands
          Sweepers,    \* gc commands, and the sweep a completed run makes
          NoVersion, NoAlias, NoBlob, NoOne, NoJob,
          Events,      \* the artifacts asked for: see Jobs
          MaxBegun,    \* bound on the artifacts and sweeps together
          MaxStops     \* bound on the processes that die or fail midway

Writers == Runs \cup Promoters
Kinds == {"file", "directory"}

ASSUME StoreAssumption ==
  /\ Objects \subseteq [kind : Kinds, blobs : SUBSET Blobs]
  /\ NoVersion \notin Versions /\ NoAlias \notin Aliases
  /\ NoBlob \notin Blobs /\ NoOne \notin Writers
  /\ Runs \cap Promoters = {} /\ Blobs \cap Objects = {}
  /\ MaxBegun \in Nat

\* An artifact event, and the line of artifacts.jsonl it becomes.
Jobs == [obj : Objects, ver : Versions \cup {NoVersion}, alias : Aliases \cup {NoAlias}]

ASSUME JobAssumption == Events \subseteq Jobs /\ NoJob \notin Jobs

VARIABLES blob,       \* objects/blobs: absent, partial (being copied, or torn) or full
          owner,      \* the last writer that opened the partial blob
          trees,      \* objects/trees: the directories whose tree file is there
          manifest,   \* <kind>/<name>@<version>.json: the object it points to
          index,      \* the rows of index.jsonl
          alias,      \* <kind>/<name>/<alias>: the version it holds
          refs,       \* the lines of each run's artifacts.jsonl
          status,     \* each run's status.txt; open: created or running, and alive
          wpc, job, old, new, pass, todo, cur,  \* the writers
          spc, live, unread, doomed,            \* the sweepers
          begun, stops, \* how many jobs and sweeps, and how many deaths, so far
          calm,        \* no sweep since this writer began what it is to be kept for
          safe,        \* the roots whose objects were stored in such a calm
          torn,        \* blobs whose writer stopped between removing and copying them
          seen         \* files needed, or put in the store, since this sweep began

store == <<blob, owner, trees, manifest, index, alias, refs, status>>
writers == <<wpc, job, old, new, pass, todo, cur>>
sweepers == <<spc, live, unread, doomed>>
observed == <<calm, safe, torn, seen>>
vars == <<store, writers, sweepers, begun, stops, observed>>

Init == /\ blob = [b \in Blobs |-> "absent"]
        /\ owner = [b \in Blobs |-> NoOne]
        /\ trees = {}
        /\ manifest = [v \in Versions |-> {}]
        /\ index = <<>>
        /\ alias = [a \in Aliases |-> {}]
        /\ refs = [r \in Runs |-> {}]
        /\ status = [r \in Runs |-> "open"]
        /\ wpc = [w \in Writers |-> "idle"]
        /\ job = [w \in Writers |-> NoJob]
        /\ old = [w \in Writers |-> {}]
        /\ new = [w \in Writers |-> {}]
        /\ pass = [w \in Writers |-> "stage"]
        /\ todo = [w \in Writers |-> {}]
        /\ cur = [w \in Writers |-> NoBlob]
        /\ spc = [s \in Sweepers |-> "idle"]
        /\ live = [s \in Sweepers |-> {}]
        /\ unread = [s \in Sweepers |-> {}]
        /\ doomed = [s \in Sweepers |-> {}]
        /\ begun = 0
        /\ stops = 0
        /\ calm = [w \in Writers |-> TRUE]
        /\ safe = {}
        /\ torn = {}
        /\ seen = [s \in Sweepers |-> {}]

-----------------------------------------------------------------------------
(* What a collection must keep, and what is observed of it.                *)

\* The rows reachable_objects keeps: the last of each reference.
LastRow(i) == \A k \in i+1..Len(index) : index[k].ver # index[i].ver
Indexed == {index[i].obj : i \in {k \in 1..Len(index) : LastRow(k)}}

\* The objects the lines of a run name.
Referenced(r) == {line.obj : line \in refs[r]}

\* The files under objects/: a directory is its own tree file.
InStore == {b \in Blobs : blob[b] # "absent"} \cup trees
Files(o) == o.blobs \cup (IF o.kind = "directory" THEN {o} ELSE {})
FilesOf(objs) == UNION {Files(o) : o \in objs}

\* The latest row of each reference, and the lines of the completed runs.
Rows  == {<<"row", index[i].ver, index[i].obj>> : i \in {k \in 1..Len(index) : LastRow(k)}}
Lines == UNION {{<<"run", r, o>> : o \in Referenced(r)} : r \in {q \in Runs : status[q] = "completed"}}
Roots == Rows \cup Lines

Kept == {p[3] : p \in Roots}

Sweeping == \E s \in Sweepers : spc[s] # "idle"

\* Something has been begun that no root names yet: a job, or the lines of a run that
\* has not completed.
Busy(w) == wpc[w] # "idle" \/ (w \in Runs /\ status[w] = "open" /\ refs[w] # {})

Moves(w) == wpc'[w] # wpc[w] \/ (w \in Runs /\ status'[w] # status[w])

Observe ==
  /\ calm' = [w \in Writers |-> Busy(w)' => ~Sweeping' /\ (Busy(w) => calm[w])]
  /\ safe' = {p \in Roots' : p \in safe \/ (p \notin Roots /\ \A w \in Writers : Moves(w) => calm[w])}
  /\ torn' = {b \in Blobs \ InStore' :
                b \in torn \/ \E w \in Writers : cur[w] = b /\ wpc[w] = "retry" /\ wpc'[w] = "idle"}
  /\ seen' = [s \in Sweepers |-> IF spc'[s] = "idle" THEN {}
                                  ELSE seen[s] \cup FilesOf(Kept') \cup (InStore' \ InStore)]

-----------------------------------------------------------------------------
(* Writers.  A run ingests the artifact, promotes it if the event names a  *)
(* version, which ingests it once more, and appends its line to artifacts. *)
(* jsonl.  A promote command only promotes.                                *)

Begin(w, j) ==
  /\ wpc[w] = "idle"
  /\ w \in Runs => status[w] = "open"
  /\ w \in Promoters => j.ver # NoVersion
  /\ j.ver = NoVersion => j.alias = NoAlias
  /\ begun < MaxBegun
  /\ begun' = begun + 1
  /\ wpc' = [wpc EXCEPT ![w] = "ingest"]
  /\ job' = [job EXCEPT ![w] = j]
  /\ pass' = [pass EXCEPT ![w] = IF w \in Runs THEN "stage" ELSE "promote"]
  /\ todo' = [todo EXCEPT ![w] = j.obj.blobs]
  /\ UNCHANGED <<store, old, new, cur, sweepers, stops>>
  /\ Observe

\* restage_run_checkpoints: a completed run whose directories lost files to the
\* retention policy stages them again, smaller and under the version they had, one by
\* one, before it writes their lines.
Restage(r, line, o) ==
  /\ wpc[r] \in {"idle", "line"}
  /\ status[r] = "completed"
  /\ line \in refs[r] \ old[r]
  /\ line.obj.kind = "directory" /\ o.kind = "directory"
  /\ o.blobs \subseteq line.obj.blobs /\ o # line.obj
  /\ wpc' = [wpc EXCEPT ![r] = "ingest"]
  /\ new' = [new EXCEPT ![r] = IF wpc[r] = "line" THEN @ \cup {job[r]} ELSE @]
  /\ job' = [job EXCEPT ![r] = [line EXCEPT !.obj = o]]
  /\ old' = [old EXCEPT ![r] = @ \cup {line}]
  /\ pass' = [pass EXCEPT ![r] = "stage"]
  /\ todo' = [todo EXCEPT ![r] = o.blobs]
  /\ UNCHANGED <<store, cur, sweepers, begun, stops>>
  /\ Observe

\* ingest_file finds a file at the path of the digest, whatever is in it.
FindBlob(w, b) ==
  /\ wpc[w] = "ingest"
  /\ b \in todo[w]
  /\ blob[b] # "absent"
  /\ todo' = [todo EXCEPT ![w] = @ \ {b}]
  /\ UNCHANGED <<store, wpc, job, old, new, pass, cur, sweepers, begun, stops>>
  /\ Observe

\* ingest_file finds none.
MissBlob(w, b) ==
  /\ wpc[w] = "ingest"
  /\ b \in todo[w]
  /\ blob[b] = "absent"
  /\ wpc' = [wpc EXCEPT ![w] = "missing"]
  /\ cur' = [cur EXCEPT ![w] = b]
  /\ UNCHANGED <<store, job, old, new, pass, todo, sweepers, begun, stops>>
  /\ Observe

\* Whoever opens a blob to write empties it, even if another has put it there
\* meanwhile: until the last to open it has done, it is partial.
Open(w, from, to) ==
  /\ wpc[w] = from
  /\ blob' = [blob EXCEPT ![cur[w]] = "partial"]
  /\ owner' = [owner EXCEPT ![cur[w]] = w]
  /\ wpc' = [wpc EXCEPT ![w] = to]
  /\ UNCHANGED <<trees, manifest, index, alias, refs, status, job, old, new, pass, todo, cur,
                 sweepers, begun, stops>>
  /\ Observe

\* copy_file_fast copies to the final path: on Linux clone_file opens it first.
OpenClone(w) == Open(w, "missing", "clone")

\* The file system cannot clone: clone_file removes what is at the path, whoever put
\* it there.
CloneFails(w) ==
  /\ wpc[w] = "clone"
  /\ blob' = [blob EXCEPT ![cur[w]] = "absent"]
  /\ owner' = [owner EXCEPT ![cur[w]] = NoOne]
  /\ wpc' = [wpc EXCEPT ![w] = "retry"]
  /\ UNCHANGED <<trees, manifest, index, alias, refs, status, job, old, new, pass, todo, cur,
                 sweepers, begun, stops>>
  /\ Observe

\* fs::copy, after a clone that failed, or on a system that has none to try.
StartCopy(w) == Open(w, "retry", "copy") \/ Open(w, "missing", "copy")

\* Mutant: the copy ends short.
EndCopyShort(w) ==
  /\ wpc[w] \in {"clone", "copy"}
  /\ owner' = [b \in Blobs |-> IF owner[b] = w THEN NoOne ELSE owner[b]]
  /\ todo' = [todo EXCEPT ![w] = @ \ {cur[w]}]
  /\ wpc' = [wpc EXCEPT ![w] = "ingest"]
  /\ cur' = [cur EXCEPT ![w] = NoBlob]
  /\ UNCHANGED <<blob, trees, manifest, index, alias, refs, status, job, old, new, pass, sweepers,
                 begun, stops>>
  /\ Observe

\* The clone or the copy ends; if the file was unlinked meanwhile, by a sweep or by a
\* clone that failed, nothing is left of it.
EndCopy(w) ==
  /\ wpc[w] \in {"clone", "copy"}
  /\ LET b == cur[w] IN
       /\ blob' = IF owner[b] = w THEN [blob EXCEPT ![b] = "full"] ELSE blob
       /\ owner' = IF owner[b] = w THEN [owner EXCEPT ![b] = NoOne] ELSE owner
       /\ todo' = [todo EXCEPT ![w] = @ \ {b}]
  /\ wpc' = [wpc EXCEPT ![w] = "ingest"]
  /\ cur' = [cur EXCEPT ![w] = NoBlob]
  /\ UNCHANGED <<trees, manifest, index, alias, refs, status, job, old, new, pass, sweepers, begun, stops>>
  /\ Observe

\* Mutant: the index before the manifest.
EndIngestIndexFirst(w) ==
  /\ wpc[w] = "ingest"
  /\ todo[w] = {}
  /\ trees' = IF job[w].obj.kind = "directory" THEN trees \cup {job[w].obj} ELSE trees
  /\ wpc' = [wpc EXCEPT ![w] = IF job[w].ver = NoVersion THEN "line" ELSE "index"]
  /\ UNCHANGED <<blob, owner, manifest, index, alias, refs, status, job, old, new, pass, todo,
                 cur, sweepers, begun, stops>>
  /\ Observe

\* The tree file of a directory is renamed into place once its blobs are there.
EndIngest(w) ==
  /\ wpc[w] = "ingest"
  /\ todo[w] = {}
  /\ trees' = IF job[w].obj.kind = "directory" THEN trees \cup {job[w].obj} ELSE trees
  /\ \/ /\ pass[w] = "stage" /\ job[w].ver = NoVersion
        /\ wpc' = [wpc EXCEPT ![w] = "line"]
        /\ UNCHANGED <<pass, todo>>
     \/ /\ pass[w] = "stage" /\ job[w].ver # NoVersion
        /\ pass' = [pass EXCEPT ![w] = "promote"]
        /\ todo' = [todo EXCEPT ![w] = job[w].obj.blobs]
        /\ UNCHANGED wpc
     \/ /\ pass[w] = "promote"
        /\ wpc' = [wpc EXCEPT ![w] = "manifest"]
        /\ UNCHANGED <<pass, todo>>
  /\ UNCHANGED <<blob, owner, manifest, index, alias, refs, status, job, old, new, cur, sweepers,
                 begun, stops>>
  /\ Observe

WriteManifest(w) ==
  /\ wpc[w] = "manifest"
  /\ manifest' = [manifest EXCEPT ![job[w].ver] = {job[w].obj}]
  /\ wpc' = [wpc EXCEPT ![w] = "index"]
  /\ UNCHANGED <<blob, owner, trees, index, alias, refs, status, job, old, new, pass, todo, cur,
                 sweepers, begun, stops>>
  /\ Observe

AppendIndex(w) ==
  /\ wpc[w] = "index"
  /\ index' = Append(index, [ver |-> job[w].ver, obj |-> job[w].obj])
  /\ wpc' = [wpc EXCEPT ![w] = "alias"]
  /\ UNCHANGED <<blob, owner, trees, manifest, alias, refs, status, job, old, new, pass, todo, cur,
                 sweepers, begun, stops>>
  /\ Observe

\* The last step of promote.
WriteAlias(w) ==
  /\ wpc[w] = "alias"
  /\ alias' = IF job[w].alias = NoAlias THEN alias
              ELSE [alias EXCEPT ![job[w].alias] = {job[w].ver}]
  /\ wpc' = [wpc EXCEPT ![w] = IF w \in Runs THEN "line" ELSE "idle"]
  /\ job' = [job EXCEPT ![w] = IF w \in Runs THEN @ ELSE NoJob]
  /\ pass' = [pass EXCEPT ![w] = "stage"]
  /\ UNCHANGED <<blob, owner, trees, manifest, index, refs, status, old, new, todo, cur,
                 sweepers, begun, stops>>
  /\ Observe

\* save_artifact_reference appends the staged event to artifacts.jsonl; a restage
\* writes the file again with the new lines in place of the old.
WriteLine(r) ==
  /\ wpc[r] = "line"
  /\ refs' = [refs EXCEPT ![r] = (@ \ old[r]) \cup new[r] \cup {job[r]}]
  /\ wpc' = [wpc EXCEPT ![r] = "idle"]
  /\ job' = [job EXCEPT ![r] = NoJob]
  /\ old' = [old EXCEPT ![r] = {}]
  /\ new' = [new EXCEPT ![r] = {}]
  /\ UNCHANGED <<blob, owner, trees, manifest, index, alias, status, pass, todo, cur,
                 sweepers, begun, stops>>
  /\ Observe

\* status.txt says completed: see RunSession.
CompleteRun(r) ==
  /\ wpc[r] = "idle"
  /\ status[r] = "open"
  /\ status' = [status EXCEPT ![r] = "completed"]
  /\ UNCHANGED <<blob, owner, trees, manifest, index, alias, refs, writers, sweepers,
                 begun, stops>>
  /\ Observe

\* The run failed, or its process is gone and it stays as it is: created or running.
LoseRun(r) ==
  /\ wpc[r] = "idle"
  /\ status[r] = "open"
  /\ status' = [status EXCEPT ![r] = "stopped"]
  /\ UNCHANGED <<blob, owner, trees, manifest, index, alias, refs, writers, sweepers,
                 begun, stops>>
  /\ Observe

\* A writer is killed, or one of its writes fails: a run is never resumed.
StopWriter(w) ==
  /\ wpc[w] # "idle"
  /\ stops < MaxStops
  /\ stops' = stops + 1
  /\ owner' = [b \in Blobs |-> IF owner[b] = w THEN NoOne ELSE owner[b]]
  /\ wpc' = [wpc EXCEPT ![w] = "idle"]
  /\ job' = [job EXCEPT ![w] = NoJob]
  /\ old' = [old EXCEPT ![w] = {}]
  /\ new' = [new EXCEPT ![w] = {}]
  /\ pass' = [pass EXCEPT ![w] = "stage"]
  /\ todo' = [todo EXCEPT ![w] = {}]
  /\ cur' = [cur EXCEPT ![w] = NoBlob]
  /\ status' = [r \in Runs |-> IF r = w /\ status[r] = "open" THEN "stopped" ELSE status[r]]
  /\ UNCHANGED <<blob, trees, manifest, index, alias, refs, sweepers, begun>>
  /\ Observe

-----------------------------------------------------------------------------
(* Sweepers: gc_artifacts and sweep_unreachable_objects.                   *)

\* insert_object_path reads the tree file of a directory: it must be there.
Readable(objs) == \A o \in objs : o.kind = "directory" => o \in trees

Goto(s, from, to) == spc[s] = from /\ spc' = [spc EXCEPT ![s] = to]

BeginSweep(s) ==
  /\ begun < MaxBegun
  /\ begun' = begun + 1
  /\ Goto(s, "idle", "index")
  /\ UNCHANGED <<store, writers, live, unread, doomed, stops>>
  /\ Observe

ReadIndex(s) ==
  /\ Readable(Indexed)
  /\ Goto(s, "index", "runs")
  /\ live' = [live EXCEPT ![s] = Indexed]
  /\ unread' = [unread EXCEPT ![s] = Runs]
  /\ UNCHANGED <<store, writers, doomed, begun, stops>>
  /\ Observe

\* Mutant: the references of the runs are not read.
SkipRun(s, r) ==
  /\ spc[s] = "runs"
  /\ r \in unread[s]
  /\ unread' = [unread EXCEPT ![s] = @ \ {r}]
  /\ UNCHANGED <<store, writers, spc, live, doomed, begun, stops>>
  /\ Observe

\* Only a run whose status.txt says completed keeps what it references.
ReadRun(s, r) ==
  /\ spc[s] = "runs"
  /\ r \in unread[s]
  /\ status[r] = "completed" => Readable(Referenced(r))
  /\ unread' = [unread EXCEPT ![s] = @ \ {r}]
  /\ live' = [live EXCEPT ![s] = IF status[r] = "completed" THEN @ \cup Referenced(r) ELSE @]
  /\ UNCHANGED <<store, writers, spc, doomed, begun, stops>>
  /\ Observe

\* Mutant: only the blobs are walked.
WalkBlobs(s) ==
  /\ unread[s] = {}
  /\ Goto(s, "runs", "remove")
  /\ doomed' = [doomed EXCEPT ![s] = (InStore \cap Blobs) \ FilesOf(live[s])]
  /\ UNCHANGED <<store, writers, live, unread, begun, stops>>
  /\ Observe

\* remove_unreachable_files lists the objects, then removes them one by one.
Walk(s) ==
  /\ unread[s] = {}
  /\ Goto(s, "runs", "remove")
  /\ doomed' = [doomed EXCEPT ![s] = InStore \ FilesOf(live[s])]
  /\ UNCHANGED <<store, writers, live, unread, begun, stops>>
  /\ Observe

Remove(s, f) ==
  /\ spc[s] = "remove"
  /\ f \in doomed[s] \cap InStore
  /\ blob' = [b \in Blobs |-> IF b = f THEN "absent" ELSE blob[b]]
  /\ owner' = [b \in Blobs |-> IF b = f THEN NoOne ELSE owner[b]]
  /\ trees' = trees \ {f}
  /\ doomed' = [doomed EXCEPT ![s] = @ \ {f}]
  /\ UNCHANGED <<manifest, index, alias, refs, status, writers, spc, live, unread, begun, stops>>
  /\ Observe

\* The process ends, and all it knew is gone.
Leave(s) ==
  /\ spc' = [spc EXCEPT ![s] = "idle"]
  /\ live' = [live EXCEPT ![s] = {}]
  /\ unread' = [unread EXCEPT ![s] = {}]
  /\ doomed' = [doomed EXCEPT ![s] = {}]
  /\ UNCHANGED <<store, writers, begun>>

EndSweep(s) ==
  /\ spc[s] = "remove"
  /\ doomed[s] = {}
  /\ Leave(s)
  /\ UNCHANGED stops
  /\ Observe

\* Mutant: a sweep tries again to remove an object that is gone.
SweepErrorRetried(s) ==
  \/ /\ \/ spc[s] = "index" /\ ~Readable(Indexed)
        \/ spc[s] = "runs" /\ \E r \in unread[s] : status[r] = "completed" /\ ~Readable(Referenced(r))
     /\ Leave(s)
     /\ UNCHANGED stops
     /\ Observe
  \/ /\ spc[s] = "remove"
     /\ ~(doomed[s] \subseteq InStore)
     /\ UNCHANGED <<store, writers, sweepers, begun, stops>>
     /\ Observe

\* The sweep ends with an error: a tree file that cannot be read, an object that
\* another sweep, or a clone that failed, has removed already.
SweepError(s) ==
  /\ \/ spc[s] = "index" /\ ~Readable(Indexed)
     \/ spc[s] = "runs" /\ \E r \in unread[s] : status[r] = "completed" /\ ~Readable(Referenced(r))
     \/ spc[s] = "remove" /\ ~(doomed[s] \subseteq InStore)
  /\ Leave(s)
  /\ UNCHANGED stops
  /\ Observe

StopSweeper(s) ==
  /\ spc[s] # "idle"
  /\ stops < MaxStops
  /\ stops' = stops + 1
  /\ Leave(s)
  /\ Observe

-----------------------------------------------------------------------------
(* Readers.                                                                *)

\* A name is that of a version if a manifest has it, or else that of an alias.
ResolveVersion(name) == IF name \in Versions /\ manifest[name] # {} THEN {name}
                        ELSE IF name \in Aliases THEN alias[name] ELSE {}

\* The object that is found under a name; none is an error.
Describe(name) == UNION {manifest[v] : v \in ResolveVersion(name)}

-----------------------------------------------------------------------------

WriterStep(w) == \/ \E b \in Blobs : FindBlob(w, b) \/ MissBlob(w, b)
                 \/ OpenClone(w)
                 \/ CloneFails(w)
                 \/ StartCopy(w)
                 \/ EndCopy(w)
                 \/ EndIngest(w)
                 \/ WriteManifest(w)
                 \/ AppendIndex(w)
                 \/ WriteAlias(w)

RunStep(r) == \/ WriteLine(r)
              \/ CompleteRun(r)
              \/ LoseRun(r)
              \/ \E line \in refs[r], o \in Objects : Restage(r, line, o)

\* A sweep that has begun.
SweepStep(s) == \/ ReadIndex(s)
                \/ \E r \in Runs : ReadRun(s, r)
                \/ Walk(s)
                \/ \E f \in Blobs \cup Objects : Remove(s, f)
                \/ EndSweep(s)
                \/ SweepError(s)

Next == \/ \E w \in Writers : \/ \E j \in Events : Begin(w, j)
                              \/ WriterStep(w)
                              \/ StopWriter(w)
        \/ \E r \in Runs : RunStep(r)
        \/ \E s \in Sweepers : BeginSweep(s) \/ SweepStep(s) \/ StopSweeper(s)

Spec == Init /\ [][Next]_vars

\* A sweep that is not killed goes on.
FairSpec == Spec /\ \A s \in Sweepers : WF_vars(SweepStep(s))

-----------------------------------------------------------------------------
(* Properties.                                                             *)

ProcessTypes ==
  /\ blob \in [Blobs -> {"absent", "partial", "full"}]
  /\ owner \in [Blobs -> Writers \cup {NoOne}]
  /\ trees \subseteq Objects
  /\ manifest \in [Versions -> SUBSET Objects]
  /\ index \in Seq([ver : Versions, obj : Objects])
  /\ alias \in [Aliases -> SUBSET Versions]
  /\ refs \in [Runs -> SUBSET Jobs]
  /\ status \in [Runs -> {"open", "completed", "stopped"}]
  /\ wpc \in [Writers -> {"idle", "ingest", "missing", "clone", "retry", "copy", "manifest",
                          "index", "alias", "line"}]
  /\ job \in [Writers -> Jobs \cup {NoJob}]
  /\ old \in [Writers -> SUBSET Jobs]
  /\ new \in [Writers -> SUBSET Jobs]
  /\ pass \in [Writers -> {"stage", "promote"}]
  /\ todo \in [Writers -> SUBSET Blobs]
  /\ cur \in [Writers -> Blobs \cup {NoBlob}]
  /\ spc \in [Sweepers -> {"idle", "index", "runs", "remove"}]
  /\ live \in [Sweepers -> SUBSET Objects]
  /\ unread \in [Sweepers -> SUBSET Runs]
  /\ doomed \in [Sweepers -> SUBSET (Blobs \cup Objects)]
  /\ begun \in Nat /\ stops \in Nat

TypeOK ==
  /\ ProcessTypes
  /\ calm \in [Writers -> BOOLEAN]
  /\ safe \subseteq Roots
  /\ torn \subseteq Blobs
  /\ seen \in [Sweepers -> SUBSET (Blobs \cup Objects)]

NamesHold ==
  /\ \A a \in Aliases : \A v \in alias[a] : manifest[v] # {}
  /\ \A i \in 1..Len(index) : manifest[index[i].ver] # {}

\* describe finds an object for every alias that is there and for every row of the
\* index, whichever writers ran together and wherever they died: it never ends in a
\* missing file.
NamesResolve ==
  /\ \A a \in Aliases : alias[a] # {} => Describe(a) # {}
  /\ \A i \in 1..Len(index) : Describe(index[i].ver) # {}

\* Between removing and copying a blob its writer may be at work, or may have stopped.
Retried(b) == b \in torn \/ \E w \in Writers : wpc[w] = "retry" /\ cur[w] = b

\* What was stored while no sweep was at work is in the store for as long as a root
\* names it, whatever sweeps, writers and deaths there are afterwards, but for a blob
\* that another writer, which found it missing before, has removed to copy it again.
RootsPresent == \A p \in safe : \A f \in Files(p[3]) : f \in InStore \/ Retried(f)

\* And every blob of it has its whole content, unless a process died: it is short or
\* missing only while a writer is copying it.
RootsIntact ==
  stops = 0 => \A p \in safe : \A b \in p[3].blobs :
                 \/ blob[b] = "full"
                 \/ \E w \in Writers : wpc[w] \in {"clone", "retry", "copy"} /\ cur[w] = b

\* A sweep that ends without an error has left nothing in the store but what a root
\* needed at some time since it began and what was put there since.
SweepIsComplete == [][\A s \in Sweepers : EndSweep(s) => InStore \subseteq seen[s]]_vars

\* artifact/gc.rs:49: "Remove content-addressed objects (blobs/trees) that are no
\* longer reachable from any artifact manifest or completed run".  Of what a sweep
\* finds without a root a promote may have made one before it is removed.
NeededStays == \A o \in Kept : Files(o) \subseteq InStore

\* A sweep that has begun ends.
SweepEnds == \A s \in Sweepers : (spc[s] # "idle") ~> (spc[s] = "idle")

=============================================================================
