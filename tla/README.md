# rlab: formal verification

rlab records machine-learning experiments: a `rlab` command runs a user's Python
callable in a runner process, keeps what it did in a run directory under
`.rlab/runs`, stores its artifacts in a content-addressed store under
`.rlab/artifacts`, and prunes, strips, links and sweeps these files under
retention policies. There is no server and no database: every command is a
process of its own on one shared directory tree, protected, where it is
protected at all, by lock files and atomic renames.

This directory models that system in TLA+, checks it with TLC on small instances and
proves its main invariants with TLAPS for every instance. `PROJECT.json` is the
index: components, runs, mutants, the source lines each definition models,
findings, hazards and theorems.

Paths below are relative to `src/`; `core/` stands for `crates/rlab-core/src/`,
`cli/` for `crates/rlab-cli/src/` and `py/` for `crates/rlab-py/src/`.

## 1. The system

| Component | State it keeps | Operations | Talks to | What is hard | What makes it correct |
|---|---|---|---|---|---|
| Run lifecycle: `core/run/lifecycle.rs`, `state.rs`, `fs/atomic.rs`, `fs/lock.rs` | a run directory: `run.json`, `run.yaml`, `status.txt`, `metrics.jsonl`, `artifacts.jsonl`, results, summary, error, report, `.rlab.lock` | create, append metric / log / note, save artifact reference, complete, fail, fail with result | artifact store, retention, reproducibility capture | a status is three files written one after the other; a process may die, or a write fail, between any two | a status on disk is never ahead of its evidence; an ended run never changes |
| Inspection, freeze, jobs, exec: `core/run/query.rs`, `cli/commands/freeze.rs`, `core/jobs/store.rs`, `cli/commands/exec.rs` | copies of runs, job rows and logs | inspect, freeze, start a job, exec | lifecycle, external commands | they read and copy file by file while the session writes; a job is two writes | what is shown or frozen is one state of the run; run and job agree |
| Host execution: `cli/host/execution.rs`, `process.rs`, `core/host/*`, `python/rlab/_runner.py` | the child process, its output, the events parsed from it | spawn, read lines, replay events into the session, finalize | run lifecycle, user code | user code may raise, exit, print, be killed; errors in the replay drop the session | a callable that raised is never recorded as completed; a completed run holds all its records |
| Run context: `py/py_run.rs`, `py_external.rs`, `core/external/runners.rs` | workspaces, shared resources, outputs, logs of commands, artifact records | make a workspace, run a command with a timeout, write files, record artifacts | host, other runs through the cache | runs share half-filled resources; commands leave processes behind; files are read long after they were recorded | a visible workspace is whole; a result is honest; a call ends |
| Commands and nested runs: `cli/commands/run.rs`, `benchmark.rs`, `evaluate.rs`, `core/registry/record.rs`, `core/experiments/*`, `py/py_run.rs` | the registry as it was loaded, one run directory per job, the children of a run | parse, resolve, plan, execute, exit; `ctx.run` | lifecycle, host, registry | a child is found by comparing directory listings, while other commands create and remove runs | the recorded child is the child; exit code 0 means every job completed |
| Study runner and planner: `cli/commands/study.rs`, `core/study/registry.rs`, `core/experiments/matrix.rs` | a parent run and one child run per job | plan, run children, finish the parent | host, lifecycle, retention | seven layers of parameters; a child that fails, against one that cannot be run | every combination once, explicit overrides win; the parent reports every child |
| Artifact store: `core/artifact/store.rs`, `index.rs`, `manifest.rs` | blobs, tree files, manifests, `index.jsonl`, alias files, the references of runs | stage, promote, describe, resolve, export | runs, garbage collection | several writers, deduplication by file existence, three writes per promote | names resolve; nothing a row or a completed run needs is missing or short |
| Garbage collection: `core/artifact/gc.rs` | none (one pass) | sweep unreachable objects, evict materialized trees, prune runs by age or count | all directories | reads roots, then removes, with no lock | removes garbage and only garbage; ends |
| Run retention, output retention: `core/artifact/gc.rs`, `core/run/storage.rs` | none (one pass) | keep the newest runs; find, resolve, strip, restage and relink outputs | sessions at work, the store, modification times | passes overlap and stop midway; they choose by times they change | the newest runs stay; a copy to resume from remains; the store follows |
| Materialized cache: `core/artifact/store.rs`, `gc.rs` | one directory per tree, with a marker | materialize, evict | store | calls and evictions share directories | a returned path holds the whole tree |
| Registry and discovery: `core/registry`, `cli/commands/discover.rs`, `python/rlab/_loader.py` | cache of discovered items | discover, validate the cache | host, sources | a cache stands for sources that change under it | what is used is what the sources say |
| Queries, compare, ci, migrate, clean: `core/run/query.rs`, `core/compare`, `core/ci`, `core/migrate`, `core/clean.rs` | none | go through all run directories | runs that are written and removed meanwhile | each has its own idea of what a run is and of what to do with one it cannot read | they report what was there all along; a removal takes what it was asked to |
| Configuration: `core/config`, `py/py_config.rs` | documents | find the root, load layers, merge, override | all | nesting projects, precedence, files edited meanwhile | the nearest layer that names a setting wins |
| Journal, notes, lineage, baselines, search: `core/journal`, `core/graph`, `core/baselines`, `core/search` | JSON lines and an index of them | append, list, search | runs, `cache clean` | an append is two writes; a note goes to two files | an entry that was recorded is there, once |
| Row caches: `py/py_cache.rs` | a JSON lines file | write atomically, read | programs of the user | every writer uses one temporary name | a published cache is whole |
| Reports, statistics, tables, rendering, web UI, governance, lint, doctor | none, or a record nobody reads | renderings, scans of text | the queries | none | |

How the parts meet: `execute_run` creates a session, waits for the runner and replays
its events; each artifact event makes the session ingest files into the store,
and promote them when the event names a kind; `complete` writes the results and the
terminal status and then, still under the run's lock, manages the storage:
output retention, restage and sweep, relink, run retention, materialized cap
(`lifecycle.rs:132-159`). An error in that part becomes a note and the run stays
completed. `gc` and `storage optimize` do the same from processes of their own.

## 2. The modules

| Module | Models | Checked by | Proofs |
|---|---|---|---|
| `RunStatus` | the status machine of `run/state.rs` | through the others | |
| `RunLedger` | the abstract record of runs: status, evidence, metrics | the target of `LedgerSpec` | `RunProofs` |
| `RunSession` | `RunSession`, one action per file written | `sessions` | `RunProofs` |
| `RunRecords` | inspect, freeze, jobs and exec around a `RunSession` | `sessions` | `RunProofs` |
| `HostExecution` | `execute_run` around a `RunSession`, the runner and its output | `host`, `host_sys_exit` | `RunProofs` |
| `ExternalWorkspace` | `ctx.external_workspace`: the workspaces of runs that share a cached resource | `host` | `RunContextProofs` |
| `RunContext` | the callable: workspaces, commands with timeouts, files, artifact records | `host` | `RunContextProofs` |
| `ArtifactStore` | runs, promote commands and sweeps on the store; describe | `store`, `store_sweep_race` | `ArtifactStoreProofs` |
| `RunRetention` | keep-per-experiment passes over run directories | `removals`, `run_retention_locked` | `RemovalProofs` |
| `Materialized` | calls and evictions on one materialized tree | `removals` | `RemovalProofs` |
| `OutputRetention` | retention passes over one run's outputs | `output_retention`, `output_disturbed` | `OutputRetentionProofs` |
| `RegistryCache` | the discovery of the registry and its cache file, by several terminals | `readers` | `ReaderProofs` |
| `RunScans` | list, find, compare, ci, migrate, gc by age and clean, over run directories that change | `readers` | `ReaderProofs` |
| `StudyPlan` | `plan_registry_study`: the grid of a study and its layers of parameters (operators only) | `experiments` | `ExperimentProofs` |
| `StudyRun` | `study run`: the plan, the parent, its children one by one | `experiments` | `ExperimentProofs` |
| `RunCommand` | `run`, `benchmark`, `evaluate` and the runs that callables make with `ctx.run` | `experiments` | `ExperimentProofs` |
| `ProjectConfig` | `load_effective_config` and the paths of a project | `project_files` | `ProjectFilesProofs` |
| `ConfigDocuments` | configuration documents that extend one another; `ctx.config` | `project_files` | |
| `Journal` | the appends to the journal, notes, baselines and lineage, and the search over them | `project_files` | `ProjectFilesProofs` |
| `RowCache` | `write_jsonl_atomic` and `read_jsonl` | `project_files` | `ProjectFilesProofs` |

The `MC...` modules give values to the constants and are named by the configurations. How
modules are composed:

- `HostExecution` EXTENDS `RunSession` and its actions call those of the session, so that
  one event replayed is one call of the session. `RunRecords` EXTENDS it too: the other
  commands read the variables that the session writes, and exec completes the session.
  `RunContext` EXTENDS `ExternalWorkspace`; `StudyRun` EXTENDS `StudyPlan`.
- `RunSession` implements `RunLedger` through an INSTANCE with a refinement mapping.
- `MCExecution`, `MCRemovals`, `MCReaders`, `MCExperiments` and `MCProjectFiles` each put
  components that share no variable side by side: the initial state chooses the one that
  acts in the behaviour (`side` or `part`), the others stay in their initial states. Such a
  sum has the behaviours of each component and no product of them; it answers a question the
  components have in common (what commands read while others change it, what removes
  directories, which files a project holds). They EXTEND the modules of the components they
  are about, whose variables have names of their own, so that a property that a run checks
  and the theorem about it are one definition; only `ConfigDocuments`, which
  no theorem is about, is an INSTANCE. `ExperimentProofs`, `RemovalProofs`, `RunProofs`, `ReaderProofs`,
  `RunContextProofs` and `ProjectFilesProofs` each hold the proofs of two or three components, one after the other.

Operators whose comment begins with *Mutant* are plausible bugs: each is a changed copy
of the definition after it, and substituting it for that definition violates
one property of a passing run (the "mutants" of `PROJECT.json`). They are never part of a
specification.

### RunSession, RunRecords

Variables are the files of a run directory reduced to what they say: `json`, `yaml`
and `text` are the status in `run.json`, `run.yaml` and `status.txt`; `summary`
holds the metrics the summary was computed from; `captured`, `results`, `error`,
`report` say what else is there. `pc` is the next write: `create` is `manifest`,
`yaml`, `status`, `capture`, then the transition to running; `complete` writes the
results, the summary, the transition (`advance`, `advanceYaml`, `advanceStatus`) and
the report, in the order of the code, then does the storage management.
`Abandon` is an error at any write (the session is dropped and its lock file
removed) and `Crash` is the death of the process (the lock file stays). The
summary is written before the status moves, so `EndedIsBacked` asks that it covers
all the metrics.

In `RunRecords`, `look` counts the files an inspection has read, in the order of
`inspect_run` (`ReadOrder`), and `shown` what they held; `frost` and `copied` do the same for a
freeze, whose order is that of the directory, hence any. A copy of a run that is still at work
may mix its states, and is then frozen all the same; `FrozenIsWhole` is about runs that had ended.
`OwnStep` is what the process of a run does: all that a session does, but that a run of exec
logs nothing, completes when its job is recorded, and is dropped only inside a call.
The log of a job and its row are two steps, and `cache clean` may come between (`wiped`).

### HostExecution

The runner is `off`, `calling`, or one of the ways it ends: returned, raised, exited
(code 0 with no closing event), died. `stream` is its standard output as a sequence
of lines, `cursor` how many were replayed. All lines are parsed before any is
replayed, as in `run_python_host`; one that cannot be parsed, or a non-zero exit code,
drops the session (`HostError`), and so does an artifact that is gone
(`ReplayError`). `finalize_session` fails the run if a failed event was seen and
completes it otherwise.

### ExternalWorkspace, RunContext

`at` is where a call for a workspace is: copying the source to a temporary directory, renaming
it, looking for the shared resource, filling it part by part, linking, linking the outputs. All
runs of one adapter share one resource, which has a final name while it is filled. The
output path may lie inside a cached path, which the validation allows; then the outputs of all
runs are one link (`nested`). A call may raise, and a process die, at every step.

A command is a child process whose output goes to files or through pipes, with a timeout or
not; it may leave a process behind (`heirs`) that goes on writing to the log and holds the
pipes. `records` are what the callable asked to be kept and `stored` what the replay
of its events read when the callable had returned.

### ArtifactStore

A blob is absent, partial or full; an object is a file or a directory made of a set of
blobs; a directory also has a tree file. A writer goes through `ingest_file` blob
by blob: `FindBlob` when a file is at the final path, whatever is in it, else `MissBlob` and
the steps of `copy_file_fast`. `OpenClone` is `clone_file`, which empties the file to clone into it;
`CloneFails` is the removal of that file where the file system cannot clone, whoever has put it there in between;
`StartCopy` and `EndCopy` are `fs::copy`. So the existence check, the clone, the removal and
the copy are steps of their own, between which other writers, sweeps and a death may come. Then
`EndIngest`, `WriteManifest`, `AppendIndex`, `WriteAlias`, and for a run `WriteLine`. A sweep reads the
index, then each run, then lists the store, then removes object by object (`Remove`);
it fails on a tree file it cannot read and on an object that is gone. `Restage`
is the restaging of stripped checkpoints by the retention policy: the directories that changed one by one,
and the lines of all of them at the end. `Describe` is `describe` of a reference: the alias or the last version first, then the manifest.

Nothing in the code keeps a sweep from running while writers are at work, nor two writers from one blob, and
nothing in the model does. What can be promised all the same is said with four variables that `Observe` keeps
and no process reads:

- `safe` are the roots (latest rows, lines of completed runs) that became such by steps of writers for which it had
  been `calm`: no sweep was at work from when the writer began (for a run, from its first line) until then. `RootsPresent` says
  that these stay in the store, whatever sweeps, writers and deaths there are afterwards, and
  `RootsIntact` that their blobs are whole unless a process died. The exception of both is a blob that another
  writer found missing earlier and is copying again; `torn` are the blobs whose writer died
  after the removal and before the copy, which may be missing for good.
- `seen` is what was needed at some time since a sweep began, or put in the store since. A sweep that ends without an
  error has left nothing else (`SweepIsComplete`).

What is stored while a sweep is at work may be lost: `store_sweep_race` shows `NeededStays`, the words of the code, violated
by one promote and one sweep.

### RunRetention, OutputRetention, Materialized

A pass looks at one directory per step and removes one directory (or file) per step, so
two passes interleave at every point the code allows. Both are made by a completing
session under its own lock, and by `storage optimize`, which looks for a file
`run.lock` while sessions hold `.rlab.lock`: the models therefore have no mutual
exclusion between passes. In `RunRetention` a session whose directory was removed
goes on, since the helpers make missing directories again. In `OutputRetention`
the pointer, the policy, the order in which the directories were written and the
files in each are chosen in the initial state. `restage_run_checkpoints` reads `artifacts.jsonl` (`ReadLines`: `lines` are
what it read), stages the changed directories one by one (`StageDir`) and writes the whole file (`WriteLines`), so that
of two passes the later may write its old lines over those of the other. The temporary name of a link is
the same for every pass, so of two that link at once one may fail (`RelinkFails`). `events` records whether passes have
overlapped, whether one has read `artifacts.jsonl` while another was to write it, and whether one has stopped, so that one run states both what always holds
and what holds of undisturbed passes. In `Materialized` a directory is named by the
call that made it and has a place, temporary or final; an eviction removes it entry by entry wherever
it has been renamed to, and `events` says whether one has overlapped a call or stopped midway.

### RegistryCache, RunScans

A terminal runs one command after the other. `Begin` takes the key (the mode and the
sources there are), `Load` reads the cache file and compares the rest of the key,
`Check` compares one source at a time, `Serve` returns the records of the cache;
otherwise `Spawn` collects the module names, `ImportFile` and `EndImport` are the
runner of `_runner.py` and `_loader.py`, and `Hash` and `Save` write the cache. The
sources are read by the comparison, by the import and by the hashing at different
moments, and `Edit` and `Install` may come in between. A record stands for the
content that declared it. A content is a kind: it declares records, it needs a package that
may not be installed (a relaxed discovery skips it, a strict one fails), it raises, or it
calls `sys.exit(0)`, after which the registry is empty, in strict mode too.
Two ghosts say what the properties are conditioned on: `disturbed` (a change came
while the command ran) and `clean` (none came in the discovery that wrote the cache,
and none since removed a source or changed a package: the changes that the key cannot see).

In `RunScans` a directory has the files its run has written so far (`WriteOrder`) and a modification
time, which a run at work renews only when it adds a file to the directory itself. A command lists the directories in one
step and then judges, reads or removes one per step. The commands differ in what
they take for a run, in whether a run they cannot read is skipped or fails the whole command,
and in whether one that has gone is; `began` remembers what each found and which runs have stayed as
they were, which is what a scan can be held to. A removal takes a run only if it was as old as asked at one moment while the command
was at work; with an age of 0 that is any run, one made at that moment included. Wildcards are matched by the table of the code (`WildcardMatch`) and
compared with the words a pattern stands for; seconds are taken modulo `Width`.

### StudyPlan, StudyRun

A request is all that decides a plan: the mode, the defaults of the configuration, the
command line, the experiments of the registry and the fields of the study. Parameters are
functions from paths of one or two names (deeper ones nest in the same way); a value is a leaf
or an object with `Fields` that are leaves; a reference such as `@experiment:x` is a value like another, and the refusal of one that cannot be
resolved is `PlanError`. Metadata of another shape than the one asked for (`Malformed`) and names of nothing but spaces
(`Blank`) are refused where the planner looks at them, which is not everywhere; a study without a qualification has one that sets nothing but the seed. The operators follow the helpers of `registry.rs`
one by one, `Apply` the ways in which they apply one override; overrides are sequences in the order of the maps of the code, because the order matters
when a path is inside another. That no path comes twice on the command line, and an object before what is set inside it, is what being a map
sorted by its keys means (`Ordered`). `Refused` is an error. The axes given to one
experiment are enumerated row by row, as `expand_axes` does.

`StudyRun` takes a child as one run with a status, the parameters the runner receives
(`Received`: the defaults again, and the seed over a parameter of that name) and whether it
promoted an artifact. How a child and the parent write their files is in `RunSession` and
`HostExecution`; what is left of that here is the order (the result of the parent before its status)
and the outcomes: a failed child is an outcome, an error returns and leaves the
parent running on disk. A child that completes, and a parent that does, ends with a pass of retention (`Finalize`) over
the runs of the study, of which an error may leave any part undone. Passes
of other terminals are in `RunRetention`.

`PlanIsExact` has two halves. One compares the plan with the sets it should contain: every choice of the axes
that no other layer speaks of (`FreeAxes`), with every variant, in cells that
each have every seed once. An axis that another layer overlaps is given up by the code
itself: the command line wins over a matrix, as `docs/experiments.md` says, and so does a
qualification whose path is inside an axis, which `Collides` does not see. The other half says
that a value of the command line is what the callable of every child receives (`At`) and reads (`Read`); but for `seed` and what is inside it, since the seed of
the job is written over that parameter (`with_seed`). The two differ: a layer that sets `m.w` where there is no object `m` leaves a key with its dot, and when
a later one adds the object, the command line sets the field of the object and leaves the key as it was. `ctx.param` looks for the key, and `ctx.config` sets it
last, so the child reads the old value. The property therefore says of all paths what the layers have put there, and of those that no layer before the
command line may have left as such a key (`KeysBefore`) that this is what the child reads.

### RunCommand

A command line is typed in a shell (`Type`) or made by `ctx.run` in a callable (`Spawn`). `Load`
is all that is decided before the first run: the registry, with the rules of `Registry::insert` for records
of one identity, the target, the parameters with their references to other runs, and the jobs. `Execute`,
`Returns` and `Raises` take the jobs one by one, each a directory of its own; `Abort` is an error of the host or
the death of the process; `Exit` sums up. A nested call notes the directories there are, waits for its
command, and `Collect` takes the only new one for the child, while other commands create
directories, and the retention of runs that complete removes some. The project may be edited
while commands are at work; each keeps the one it loaded. `ExitZeroAccounts` has two halves:
a command that was asked for the benchmarks of a target left out none (`NoneLeftOut`), and every job was executed, with
its own parameters, by a run that completed (`JobsExecuted`).

### ProjectConfig, ConfigDocuments

`ProjectConfig` has two directories, one within the other, each with `pyproject.toml`, `lab.toml`, `.git` and sources
of its own. A command looks for its root from the inside out, then reads one layer after the other, as
functions from settings to values, infers the modules if no layer names any, and resolves its paths inside the root.
`SettingsAreNearest` is stated through the last layer that names a setting, without the order in which
the code applies them, and through the rules that tie settings to one another: the registry cache
goes with the cache, unless a later layer gave it a place of its own.

`ConfigDocuments` reads a chain of documents one at a time. `ResolutionIsExact` says what a value must be, path by path: that of
the last override or the nearest document of the chain that speaks of it. `DiffIsExact` is about two resolutions, `ContextIsExact` about `ctx.config`, which
makes overrides of the parameters of a run.

### Journal, RowCache

In `Journal` a file is an identity and a text, a sequence of entries and newlines: an append opens the file,
writes the text, and then writes the newline. The identity is there because a command goes on writing to the
file it opened when that has been removed and another has its name. A note of a run is appended to the file of the
run and then to the journal. `rlab cache clean` removes the logs one by one, and retention a run with its notes. The promotion of an idea appends
nothing: it reads the ideas and writes them, the one it names in its new status, to `ideas.snapshot.json`, so that the log
goes on saying what it said and a second promotion shows the first idea as it was before. A search
answers from the index file if there is one, else reads every run and the logs it knows of (`Searched`) and writes the index. `torn`
are the files in which appends overlapped or died, `due` the appends that ended and whose file still is there.

In `RowCache` a file has an identity, so that a writer or a reader goes on with the file it opened; `temporary` and
`path` say which file has either name. `mixed` are the files of calls that overlapped.

## 3. The runs

| Run | Bounds | What it shows |
|---|---|---|
| `sessions` | 1 run, inspected or frozen, or made by exec beside another job; 2 metrics to choose from, logs of 1 line, every fault at every step | The three status files are never more than one transition apart, and what a closing call returned is on disk (`StatusIsTold`); a run that reads as ended has all its evidence (`EndedIsBacked`); so has what an inspection shows; a frozen copy of an ended run is the run, and job and run agree (`RecordsAreWhole`); an ended run is frozen; a closing call ends; the session implements `RunLedger`. |
| `host` | 1 run of the host with 3 lines and 3 records, every fault; or 2 runs with 3 calls for workspaces in all, or one with 3 calls of any kind | A runner that raised, died or garbled its output never makes a completed run (`CompletedIsEarned`), and a callable that raised ends as failed; a completed run holds every metric and artifact once and in order. A workspace that can be seen is whole and linked; a result with exit code 0 did not time out; what is stored is the own log and the last version of a file; calls with a timeout, and for workspaces, end. |
| `store` | a run, a promote command and 2 sweeps at the same time, 2 blobs, 3 objects, 1 version, 1 alias, 3 artifacts or sweeps in all, 1 death | Names resolve; what was stored in calm stays, and whole, but for blobs that are copied again; a sweep ends although others remove the same files, and leaves no garbage. |
| `removals` | 2 runs and 1 command, keep 1, promoted and staged artifacts, deaths; or 2 calls, 2 evictions, 2 files and the marker, faults and stops | The newest promoting run stays; undisturbed calls return whole trees; every pass and call ends. |
| `output_retention` | 3 directories, 2 of them artifacts, 2 resume-only files, 2 passes, unbounded overlaps and stops | The pointed directory is never touched; undisturbed passes leave a copy to resume from; the policy holds at the end of every pass; recorded copies never lack a file that is there, and follow the run unless a pass was stopped or two rewrote `artifacts.jsonl` at once. |
| `readers` | 2 terminals, 2 sources, 1 change at any time; or 1 or 2 commands over 3 runs that write up to 2 more files, clock of 2, durations modulo 8 | A cache that nothing has spoilt and that compares equal is what a fresh discovery returns; so is what an undisturbed command returns; what a relaxed discovery skips never reaches a strict one. A scan that succeeds reports, of the runs that stayed as they were, exactly the ones it is about, and fails only for cause; `gc --older-than` and `clean` remove what they were asked to and nothing younger. |
| `experiments` | 5472 studies, executed up to 3 jobs, planned up to 15, keep 1 run per experiment; or 2 shells and 2 nested commands, 3 runs, 2 projects, nesting of 1 | A plan is the whole grid, nothing twice, with the command line in every job, where its child reads it unless an earlier layer left a key with dots; a study that reads as ended accounts for each of its children, and retention took only those with newer ones. A recorded child is the child; a command that exits with 0 completed all its jobs; the parameters of a call reach every run of its child, and references stand for earlier, completed runs. |
| `project_files` | 2 nested directories with 5 files of each kind and 4 environments, 1 edit; or 2 documents, 1 edit; or 2 writers, 1 search, 2 entries, 1 removal; or 2 writers and a reader of 3 tables, 2 files, 1 removal | Every setting has the value of the last layer that names it; a resolved document is the exact merge; no entry is lost, doubled or unreadable but by what overlaps it, and a search that built its index saw all; a published row cache that no calls overlapped on is whole, and read whole. |
| `host_sys_exit` (violation) | a callable that may call `sys.exit(0)` | A callable that did not return is recorded as completed. |
| `store_sweep_race` (violation) | a promote command and a sweep | The sweep lists the store between ingest and index row, and then removes what the row needs. |
| `run_retention_locked` (violation) | 2 runs | A completing run removes the directory of a run at work. |
| `output_disturbed` (violation) | 2 directories, 2 passes | Overlapping passes strip every copy. |

Why these bounds are enough to show the interesting cases. Two writers suffice for every
pairwise race over one blob, one manifest, one alias, one log or one temporary file; three operations let two writers meet a sweep, or
one writer two; one version and one alias
make writers collide as often as possible. Two blobs let a copy stop between
files, and let two objects share a blob. Three output directories let a pass
keep one, strip two and be overtaken between them, and two files let it stop inside
a directory. Runs of one experiment suffice because groups never interact. Three calls of
one run let a command leave a process behind, another reuse its log, and a third come after it; two runs with three workspace
calls let one find, half-find and outlive what the other fills. Three run directories, of another release, torn or whole, let one be
read, one written and one removed in any order. The
requests of `experiments` combine, on one side, every layer that may set one path, its parent
or nothing (defaults, experiment, study, matrix, axes, variants, qualification, command line) and, on the
other, the ways to name experiments, with those that are refused; one name within an object (`Fields`) is enough for a path to lead into it, or not; three jobs let a failure, a
promotion and an error each come before or after another child. Two shells and a nested command are the fewest with which a
directory that is not the child's appears during a call; a nested command that makes a call of its own is refused
at once with nesting of 1, while the code allows 8, so deeper chains are not explored.

The bounds that are constants: `MaxLines` (lines of a log, events in a stream), `MaxBegun`
(artifacts begun and sweeps, together), `MaxStops` (processes that die in
`ArtifactStore`), `MaxEdits`, `MaxConfigEdits` and `MaxDocEdits` (changes by the user in `RegistryCache`, `ProjectConfig` and
`ConfigDocuments`), `MaxCalls` (calls of a callable), `MaxTime` and `MaxWrites` (the clock of `RunScans` and how far its runs go), `Width` (the integers of its durations),
`MaxChildren` (jobs of a study that is executed), `MaxCount` (the largest number of jobs, which stands for that of the machine), `MaxRuns` and `MaxDepth` (runs and nesting in `RunCommand`),
`MaxEntries` (entries and promotions in `Journal`) and `MaxCleans` (removals of the cache and of runs in it), `MaxTables` and `MaxLosses` (files and removals in `RowCache`). `Bounded` in `MCRunRecords` and
`MCRunContext` restricts which of the actors act together, and says which. Theorems hold for every value of the constants. The number of runs and
passes is larger in the theorems: `RecentKept`, for instance, is checked with two
runs and proved for any number.

Symmetry is used for processes that are alike and that no CHOOSE tells apart: passes, terminals, nested commands, writers and callers. The runs with
symmetry have no liveness property.

Deadlock is checked in every run but `store`, `store_sweep_race` and `run_retention_locked`, where the system stops when every process has ended. Where a system
comes to rest with all its work done, an action that changes nothing says so (`Done`, `HDone`, `Over`, `COver`, `ROver`, `CallsOver`).

### Fairness

- `RunSession!FairSpec`: weak fairness of the session's own next write. A process that is
  alive executes its next statement; calls of the user are not fair (a session may
  stay open for ever), nor are faults.
- `HostExecution!HFairSpec`: the session and the host go on while the rlab process lives,
  and the user's callable ends. There is no timeout on the runner, so liveness cannot
  be had without the last one.
- `RunContext!CFairness`: a call of the context goes on, and a timeout expires. External programs are
  not fair: a command without a timeout may never end, and nor may a process that it left behind.
- `ArtifactStore!FairSpec`, `RunRetention!FairSpec`, `Materialized!CacheFairSpec`: a sweep, a pass
  or a call that has begun goes on. Commands and evictions need not begin, or go on.

In a sum of components the fairness of each is stated of its steps in the behaviours where it is the one that acts
(`HostGoesOn`, `RunsGoOn`, ...): a step that is enabled in the formula of a component that never acts would
otherwise make the specification unsatisfiable, and its liveness properties true of nothing. Only weak fairness is used, since each step
stays enabled until its process takes it.

## 4. The proofs

All theorems are proved by TLAPS from the assumptions the modules declare on their constants
(finite sets, disjoint names, natural bounds). Their list is in `PROJECT.json`.

- `RunProofs`, of the sessions. `IInv` is `TypeOK` and, for each run, `RunInv`: what each value of `pc`
  implies of the files (`Phase`, `Shows`). It is needed because the properties speak
  of files, and only the step reached tells which of them are already written. A step of
  one run leaves the others alone (`Frame`), so the inductive step is about one run.
  `StatusAlwaysTold`, `EndedBacked`, the action property `FrozenOnceEnded` and the
  refinement of `RunLedger` (`Implements`) follow. `Implements` has one lemma per
  group of writes: each maps to one abstract step or to none.
- `RunProofs`, of what reads them. `RecordsAreSessions`: a step of `RunRecords` is a step of a session or
  leaves it alone, so `IInv` holds beside it. `RecInv` adds that a file under inspection that was read
  agrees with the run for ever once `run.json`, the first that is read, showed an end (`Inspected`); the same
  of the files that a freeze copied of a run that had ended, in any order (`Frosted`); and how far the log
  and the row of a job are at each step (`JobsRecorded`, `ExecRecorded`). Each rests on `EndedIsFrozen`, step by step: what
  is compared later is what no session changes any more. From it `InspectionBacked` and `RecordsWhole`.
- `RunProofs`, of the host. `HostIsSession`: every step of the host is a step of the session or
  stutters, so whatever is proved of sessions holds of executed runs. `Replayed` adds
  what the replay knows: the failed event of a callable that raised is the last line,
  so a replay that reached the end has seen it. From it `RaisedNever` and `CompletedEarned`: what completes a run is a
  callable that returned or one that left through `sys.exit(0)`, which `host_sys_exit` shows. `Copied` says that what a run holds is, kind by kind and in order, what the
  lines replayed so far announced, and `CompletedAlwaysHasAll` that a completed run holds all of them.
- `RunContextProofs`, of the workspaces. `WInv`: a resource that is a directory has every part that no run owes it
  (`Owed`): since several runs fill one directory under its final name, wholeness cannot be
  said of the one that looks, only of all that fill. A call past its link has made it, or an earlier call
  has raised (`LinkMade`), and the link leads to a directory (`Leads`). All of it is conditioned on what
  spoils a resource (`spoilt`: a copy that stopped, a cleaned cache) and on a source that has something to copy.
  `WorkspaceAlwaysSound` follows.
- `RunContextProofs`, of the calls. `CInv`: where the wait for a command is says whether its process is there and whether a
  result is (`Honest`); the log of a name is that of the last command, and only that one and what earlier ones
  left behind have written to it (`LogIsOwn`); the versions of a file that records asked for are no newer than the file
  (`Written`). `ResultAlwaysHonest` and `StoredAlwaysOwn` follow. A step of one part leaves the variables of the other
  unchanged, so `ContextInvariance` is proved of the two separately.
- `ArtifactStoreProofs`, of any number of writers and sweeps at the same time. `NamesInv` needs only that a writer past its manifest has written it;
  it holds whatever overlaps, and so does what `describe` makes of the names (`HeldNamesResolve`). `KeepInv` has three
  parts. `HoldInv`: what a writer holds (has ingested for its job, or has in lines that no root names yet) is there while it is calm for it;
  `SafeInv`: so is what the safe roots need; `MarkInv`: what a sweep is to remove is none of that, because a root that was safe when it
  read the index or the run is in what it keeps, and one that becomes safe later was begun later still, when no sweep was at work.
  A root that appears is that of the writer that moved (`NewRoot`), so what it held (`HeldFresh`) becomes what the root needs. From it `RootsAlwaysPresent`.
  `SeenInv`: what a sweep has read as needed was needed since it began, and of what is in the store it is to remove all that was not seen;
  from it `SweepsAreComplete`. `CopyInv` follows the open copies to their end: as long as nobody died a partial blob has a writer that will end it, whichever opened it last.
  With `KeepInv` it gives `RootsAlwaysIntact`.
- `RemovalProofs`, of the retention of runs. A pass dooms a run only if it has seen Keep newer promoting runs, and
  newer runs never become fewer, since promoting is never undone and creation times
  never change (`NewerGrows`): so overlapping passes that saw different directories still
  never remove one of the newest. This holds for any number of runs, experiments and passes. `LightweightAlwaysKept`, that a pass removes no run
  that promoted nothing, is proved without a run of its own.
- `RemovalProofs`, of the materialized cache. `Calm`: while nothing was disturbed, calls and evictions are never at work
  together, a call's directory holds what it copied, and a directory at the final
  path is whole or being removed.
- `OutputRetentionProofs`. While the pointed directory is whole, a pass that found it keeps it
  (`PointerAlwaysKept`). Files are only removed, so a directory that a pass has emptied, or in which it found
  nothing, is empty when it ends, whatever overlaps (`AllApplied`, `PolicyAlwaysApplied`). A line that differs from its directory, in the file or as the pass at work on it has read it, is
  that of a directory some pass is yet to stage again, as long as one pass at most is between its reading and its writing; and
  no line lacks a file, whatever the passes do, because files are only removed (`Restaged`, `StagedAlwaysFresh`). `WholeInv` is about passes that nothing disturbed: only one is
  at work, between passes every directory is whole or empty, and one at work keeps a whole
  one, if it found any (`Keeping`). That needs a newest directory among those found, which is the
  well-founded induction of `NewestExists` over modification times, none of which is in the future (`Past`).
  `AlwaysStillResumable` follows.
- `ReaderProofs`, of the cache. `RInv`: an unspoilt cache is what a discovery of the sources it has
  hashed would return today, and has no hash of a file that is gone (`Backed`); an undisturbed
  command has compared, imported or hashed so far the sources as they are (`Checked`,
  `Imported`, `Hashed`). So a cache that compares equal has hashed exactly the sources there
  are (`ValidIsWhole`), which is what the three properties need. A step of one command
  leaves the others alone (`Aside`), and a change disturbs all of them (`ChangeDisturbs`).
- `ReaderProofs`, of the scans. `ScanInv`: what a command has judged so far (`Judged`) is right of every run that stayed as it was when the
  command began, for a reading command (`ReaderInv`); and for one that removes, what it is yet to remove was old
  enough when it was measured, and only the command itself has made it go meanwhile (`RemoverInv`, `TimeOK`). A step of one command, or of a run, leaves what the
  other commands hold on to alone (`Bystander`). `ScansAlwaysSound` and `RemovedAlwaysAsAsked` follow, the first from `WildcardsAreExact` too:
  the table that the code fills row by row says for every pattern and every text whether one stands for the other. The table is a recursive function, of which the prover
  knows nothing but its equation; the proof exhibits a function that satisfies the equation, so that the one chosen does, and then compares the two
  entry by entry, by the least entry at which they could differ.
- `ExperimentProofs`, of studies. `Matched`: what was listed so far is a prefix of the plan, each job executed by the
  run of its number, and the failures counted are those of the runs. Retention is harmless to it,
  since it changes nothing of a run but its presence, and what made it remove a run, newer promoting
  runs, never stops being true (`FinalizeLosses`, `OtherLosses`). The proof takes the plan as
  any value with a length, so it holds whatever the planner does.
- `ExperimentProofs`, of the plan. What a path holds (`Holds`) stays through every override that does not overlap it (`HoldsStays`), in each of the ways overrides are
  applied, so through a layer (`LayerKeeps`); a row leaves a path one of the values it sets there (`RowSets`); and of the command line, sorted by its paths, the last word on a settled path is its own
  (`LastWins`). In the same way a key with dots that some layer does not name stays as it was or absent (`ApplyKey`, `LeavesKey`, `LayerKey`), so that one which no layer before the
  command line names is absent or has the value of the command line at the end (`CellKey`), which is what `Read` finds first. Along the layers of a cell this gives what the grid says of a free axis (`CellChooses`) and what the command line says (`CellExplicit`).
  The other half counts. A place among pairs is divided into those of its two parts and back (`PairPlace`, `PlacePair`: products of two variables, which the solver is led
  through step by step), so the rows of a grid are every choice of a value for each axis (`GridRows`, `GridCovers`, over the steps of the fold), their number the product of the lengths (`ProductSteps`),
  the cells every pair of rows and variant (`CellsAre`), and the jobs of a case every cell with every seed (`JobsSeeded`, `JobsChoose`). No case comes twice (`CasesAre`), so the
  jobs of a case are in one place of the plan, and no job of another is (`PlanIs`, `PlacesAre`). `GridInv` carries it through the execution: what is executed was planned, and each run was
  given the parameters of a job (`Given`), which neither its end nor retention changes. `PlanAlwaysExact` follows, for any study, whose
  paths have one name or two as in the runs.
- `ExperimentProofs`, of commands. `CommandInv`: each run is of the command that made it, with the parameters of its
  job and an end to its status once the next is begun (`Makers`, `Makes`); the command that a callable waits for makes no run that was there
  before the call (`Awaits`). So the one new directory that `Collect` finds is of the command it started, or that
  command left none (`ListedChild`), the one case in which another's is taken, and which the property excepts. A step of one command leaves what the others made, and await,
  as it was (`Aside`). `ChildAlwaysOwn` follows for any number of commands, of nesting and of removals by
  retention; so does `ExitZeroExecuted`, the half of `ExitZeroAccounts` about the jobs.
- `ExperimentProofs`, of what reaches the runs. Arguments are parsed, records registered, benchmarks selected and the rows of a matrix
  expanded by folds, which are recursive functions of the library. `FoldTable` shows, by induction up to the length, that a fold
  is the last entry of a table with one entry per step (`Parses`, `Registers`, `Selects`, `Grows`); an induction over the steps then says what it returns:
  a parsed object is written (`ParsedWritten`), the call of a callable comes to its child as it is (`ParsedCall`), a registry has the records that are declared and no other (`RegistryHas`), the benchmarks
  selected are those of the target (`TargetingHas`), rows set the axes to values of theirs (`RowsWritten`). From these, `JobsFit`: the jobs of any command line. `DataInv` says
  of each command that it is committed to such jobs over the project it loaded (`Committed`), and of each run that its values are settled: written somewhere, or an
  earlier run that completed (`RunsSettle`). That stays so because the run that ends is always one that had not (`Underway`, `Stays`). `ExitZeroAlwaysAccounts` and `ParamsAlwaysReach` follow.
- `ProjectFilesProofs`, of row caches. Until calls overlap on a file it has one call at most, which has put the
  first of its rows there (`Prefixes`), and it is not the published one (`Apart`); the file with the temporary name is that of the call at work
  (`Named`), so a rename publishes a whole table (`CacheWhole`); a reader that opened it has its first rows
  (`ReadersFollow`). That two calls at work have mixed their files (`Overlapped`) ties the three together. `RowsAlwaysWhole` follows.
- `ProjectFilesProofs`, of the journal. `LogInv`: the entries of commands at work differ and are not yet in the files they
  are still to go to, and a text at the end of a file that is not torn is of a command about to end its line (`Sound`). Identities are
  needed here: a writer whose file was removed, and made again by another, must not end the other's line. `NoteInv` follows a note
  from its run to the log, `SnapshotInv` a promotion from its reading to its writing, and `SearchInv` says that what
  was there when a search began is found, or is in a log it has yet to read, or is gone with its file. They give `JournalAlwaysExact`,
  for any number of writers, searches, entries and removals.
- `ProjectFilesProofs`, of the settings. `LoadInv`: a command that nothing disturbed has, at each stage (`Passed`), exactly the
  configuration that the layers read so far make of the defaults (`Made0` to `Made3`, then `Made`), none of those layers is broken, and its root is one that
  was given or that `FindRoot` may stop at (`FoundRoot`, by the first directory upwards that is marked). `MadeIsEffective` then compares the result with the definition that
  knows no order: each setting is that of the nearest layer that names it. `SettingsAlwaysNearest` follows, errors included:
  a command fails exactly where a layer it has read is unusable or a path leaves the project.

Assumptions on the constants, and why the code justifies them. The sets of directories, files, logs and runs are finite, as those on a disk are
(`OutputAssumption`, `RetentionAssumption`, `RegistryAssumption`, `JournalAssumption`, `ScanAssumption`), and so are the writers of the journal, so that a new file has an
identity that nobody holds; directories and sources are numbers, since the code sorts them. The values that stand for nothing
(`NoBlob`, `NoDir`, `NoCall`, `Hole`, `Newline`, `None`, ...) are none of the things they are not
(`StoreAssumption`, `JobAssumption`, `MaterializedAssumption`, `RowAssumption`, `WorkspaceAssumption`). Bounds are natural numbers (`BoundAssumption`, `CallAssumption`,
`StudyAssumption`, `CommandAssumption`), and switches Booleans or subsets of the faults there are (`FaultAssumption`). No assumption bounds how
many processes act, or keeps them apart.

The rest say which values the inputs may have, as the types of the code do:

- `LabAssumption`, `RequestAssumption`: a run has some of its five files and a target of some length; a command line has one of the subcommands there are,
  a unit of time that is known, and switches that are on or off.
- `LayerAssumption`, `DirectoryAssumption`: each kind of file can name the settings its section has, and no others; no directory has a blank name.
- `CommandAssumption`: a call of `ctx.run` tolerates a failure or does not, and an error is not a plan without jobs (`Err` is not `Ok(vec![])`).
- `LeafAssumption`, `WrittenAssumption`: a leaf is not an object; a study and its experiments give overrides, axes and lists, or metadata of another shape (`Malformed`),
  and the command line is in the order of its paths.
- `ValueAssumption`, `LineAssumption`, `ProjectAssumption`: parameter objects, seeds, records and command lines are made of written values. The model
  names a run by a number, and no written value is one: a text that only reads like the identifier of a run refers to none, and is passed on as it is.

The type invariants are proved (`TypeCorrect` of each module) and have no run of their own.

Model-checked only, and why:

- Every liveness property (`ClosingCallEnds`, `RaisedIsRecorded`, `ContextCallsEnd`, `SweepEnds`, `RemovalsEnd`) depends on
  fairness, outside what the prover does.
- `DocumentsAreExact` is about recursive operators on trees of any depth (`Merge`, `Diff`, `SetPath`), which the prover cannot unfold.

## 5. What disagrees with the code's own words

The four violation runs, each quoting the line it refutes; see "findings" in `PROJECT.json`. In
short: `_runner.py` lets `sys.exit(0)` through; a sweep takes no lock against writers;
passes look for a lock file no run has; output retention chooses by modification
times that it changes.

Known limits seen while modelling. Properties are conditioned on them where the modules say so; none is stated of them alone.

- *Runs.* A metric that is NaN makes the stream unparseable and leaves the run in status running. A freeze of a run at work
  mixes its states and marks the copy frozen; a second freeze under one label leaves the first mark in place while it copies.
  A job is recorded when it has ended, so `cancel_job` refuses every job. A run of exec completes whatever the exit code of its command.
- *Context.* Another run may link a resource that is half copied, and two fillers truncate each other's files (`LinkedIsComplete` excepts a run that fills); a copy that stops
  leaves it partial for ever; its key is not the source; a retry after a failure past the rename returns without the links;
  an output path inside a cached path is shared by all runs. A timeout kills only the child, so a process it left behind keeps a call with pipes waiting
  and goes on writing to the next command's log. The log of a command is truncated by the next of its name, and is read only after the callable has returned.
- *Store.* Two promotes of one reference may leave a manifest and a last index row that name different objects, and the next
  sweep keeps only the row's; restaging under a reference gives up the object promoted before
  it. Blobs are copied to their final name, so a process killed in the copy leaves a short blob that later promotes take for whole (`RootsIntact` is
  conditioned on it); and two writers may copy the same one: where the file system cannot clone, the second removes what the first has put there, and if it is killed then the
  blob stays missing (`torn`, which `RootsPresent` excepts). What is stored while a sweep is at work may be removed by it (`safe`).
- *Retention.* A pruned run takes the root of what it only staged with it; output retention that stopped
  before its restage does not restage later; two passes that stage at once may lose one's lines of `artifacts.jsonl`
  (`StagedFresh` is conditioned on it), and if a sweep has come between, a line may name an object that is gone; evictions remove temporary directories of calls at work and may leave a
  marker on half a tree (`ReturnsComplete` is conditioned on it); `gc --prune-runs` judges a run by the modification time of its directory; durations are multiplied in 64 bits, and go round in a release build.
- *Registry.* The hashes of the cache are taken after the discovery, so a source edited in between makes the cache
  stale until it changes again (`disturbed`), and a package installed later does not invalidate
  what a relaxed discovery skipped; the comparison never looks at a source that is gone (`clean`).
- *Scans.* `list` skips a run it cannot read, a query and `migrate` fail for it; a query returns an empty record for a run that is removed
  between two of its looks; `migrate` calls every other version older, and `migrate apply` reports success and changes nothing; `ci compare` compares the newest and the oldest run only, and has not the two
  options that `docs/cli.md:149` shows.
- *Commands.* A study that an error of one child stops leaves its parent running, with none of the finished children recorded
  (`ChildError`); a key with dots that an earlier layer left hides what the command line
  sets inside an object (`ExplicitWins` is conditioned on it); a parameter named `seed` gives way to the seed of the job; a JSON text with an equals sign is split at it; with a limit on the runs kept, a finished study may list children that its own
  later children had removed (`LosesOnlySurplus` says which); a nested run that makes runs itself, or a sweep, makes the outer call fail, since more than one directory appeared.
- *Files.* `docs/configuration.md` describes a `--set` option that no caller passes on, and default modules that the code does not have. The journal, which `docs/journal-search-baselines.md` calls durable
  and append-only, lies in the cache directory that `rlab cache clean` removes. The search index is never rebuilt once it is there. One torn line makes every
  later listing fail. Row caches of overlapping writers may be mixed (`mixed`), and what a writer that failed left in the temporary file stays there.

## 6. What is not modelled, and why

- Floating-point statistics, reports, tables, rendering, templates: pure numerics
  and formatting. The web UI only reads, through the queries of `RunScans` and `RunRecords`.
- Governance, lint, strict, plan, doctor: scans of text and of the registry that report. Invalidate appends to a file that nothing reads.
- Appends to `index.jsonl`, `artifacts.jsonl` and `metrics.jsonl` are atomic in the models of the run and of the store; `Journal` has the append in its two
  writes, and what it shows holds of any file that several processes append to.
- Run identifiers never collide: they hold a timestamp in nanoseconds. Times of creation are distinct and ordered; in the
  code they are compared as text whose fraction of a second has no fixed length.
- Batch requests of the host protocol and its version checks. Export of artifacts (what `Describe` finds is copied).
- The docker runner and the retry policy of external commands, which have no caller. Sampled parameters of an experiment, and the predicates of Python grids.
- The text of the registry that a search indexes beside the journal. The contents of reproducibility capture (git, environment): one step that may fail.
- An inspection's reads of `artifacts.jsonl` and `events.jsonl` (`query.rs:100-101`), to which the session only appends while it is open: `ReadOrder` has the files that tell
  how a run ended. Metadata of an experiment whose `matrix` or `params` is no object counts as empty in `rlab run` (`record.rs:70-82`): `PlanRecord` has objects only.
- A rewrite of `artifacts.jsonl` by two passes together with the store: `OutputRetention` has the rewrite in its steps, and `ArtifactStore` the restaging of one pass per run.
- The parent and one child of a study as two sessions side by side, file by file: `StudyRun` takes a run as one state, and `RunSession` and `HostExecution` say how it comes about.
