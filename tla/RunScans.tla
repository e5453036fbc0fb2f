------------------------------- MODULE RunScans -------------------------------
(***************************************************************************)
(* The commands that go through every run directory, one after the other,  *)
(* while runs write theirs and other commands remove them:                 *)
(*                                                                         *)
(*   runs list, RunQuery.find          (rlab-core/src/run/query.rs)        *)
(*   compare, ci compare, ci reproducibility-check  (compare, ci)          *)
(*   migrate plan and apply            (rlab-core/src/migrate)             *)
(*   gc --prune-runs --older-than      (prune_runs of artifact/gc.rs)      *)
(*   clean                             (rlab-core/src/clean.rs)            *)
(*                                                                         *)
(* They differ in what they take for a run, in what they do with one they  *)
(* cannot read, and in what they do when a directory goes away under them. *)
(*                                                                         *)
(* A directory is named by a number, in the order of the names.  A run may *)
(* be of an earlier release (its run.json is of another schema version or  *)
(* of none), or torn by a power cut, since nothing is synced.  The         *)
(* registry cache, which migrate reads last, is the file of number 0.      *)
(***************************************************************************)
EXTENDS Integers, Sequences, FiniteSetsExt, Functions

CONSTANTS Runs,       \* directories; 0 is not one of them
          Labs,       \* what there is, and what the commands are asked: see ScanInit
          Scanners,   \* the commands
          MaxTime,    \* bound on the clock
          MaxWrites,  \* bound on how far a run goes from where it is found
          UnitSeconds,\* the seconds of each unit of a duration
          Width,      \* a duration is an integer modulo Width
          Unset       \* an option that is not given

ASSUME ScanAssumption ==
  /\ Runs \subseteq Nat \ {0} /\ IsFiniteSet(Runs) /\ Width \in Nat \ {0}
  /\ \A unit \in DOMAIN UnitSeconds : UnitSeconds[unit] \in Nat

ASSUME LabAssumption ==
  \A l \in Labs : /\ l.step \in [Runs -> 0..5] /\ l.now \in Nat /\ DOMAIN l.version = Runs
                  /\ \A r \in Runs : Len(l.target[r]) \in Nat

\* What a command may be asked.
ASSUME RequestAssumption ==
  \A l \in Labs, c \in Scanners : \A q \in l.asked[c] :
    /\ q.kind \in {"list", "query", "compare", "reproducibility", "migrate", "prune", "clean"}
    /\ q.kind = "query" => q.target = Unset \/ Len(q.target) \in Nat
    /\ q.kind = "prune" =>
         /\ q.older = Unset \/ (q.older.amount \in Nat /\ q.older.unit \in DOMAIN UnitSeconds)
         /\ q.dry \in BOOLEAN
    /\ q.kind \in {"prune", "clean"} => q.force \in BOOLEAN
    /\ q.kind = "migrate" => q.apply \in BOOLEAN

VARIABLES lab,      \* how far the runs are at the start, and what they hold
          registry, \* the schema version of the registry cache
          step,     \* how far each run is: 0 if there is none, then 1 and the number of its files
          now,      \* the clock
          dir,      \* the directories there are
          files,    \* the files in each
          touched,  \* the modification time of each directory
          phase, request, todo, doing, rows, cutoff,  \* of each command
          began,    \* what each command found, and what has stayed since
          removed   \* the runs each command removed

scanVars == <<lab, registry, step, now, dir, files, touched, phase, request, todo, doing, rows, cutoff, began, removed>>
commandVars == <<phase, request, todo, doing, rows, cutoff>>
treeVars == <<dir, files, touched>>

-----------------------------------------------------------------------------
(* What a run is found to be.                                              *)

\* The files of a run, in the order they are written; the environment lies in a
\* directory of its own.
WriteOrder == <<"run.json", "params.json", "env.json", "metrics_summary.json">>

\* show_run: the manifest of another schema version is refused.
Listed(r, found) == "run.json" \in found /\ lab.version[r] = "current"

\* The wildcards of a target: a table of the prefixes that match, row by row.
WildcardMatch(pattern, value) ==
  LET matched[at \in (0..Len(pattern)) \X (0..Len(value))] ==
        LET row == at[1]
            col == at[2]
        IN CASE row = 0 -> col = 0
             [] row # 0 /\ col = 0 -> pattern[row] = "*" /\ matched[<<row - 1, 0>>]
             [] row # 0 /\ col # 0 /\ pattern[row] = "*" ->
                  matched[<<row - 1, col>>] \/ matched[<<row, col - 1>>]
             [] row # 0 /\ col # 0 /\ pattern[row] = "?" -> matched[<<row - 1, col - 1>>]
             [] OTHER -> pattern[row] = value[col] /\ matched[<<row - 1, col - 1>>]
  IN matched[<<Len(pattern), Len(value)>>]

Ghost == [run |-> 0, found |-> {}]

\* The target and the seed of a row: of the files that were read, or nothing.
TargetName(row) == IF "run.json" \in row.found THEN lab.target[row.run] ELSE <<":">>
SeedMatches(row, seed) ==
  seed = Unset \/ ("params.json" \in row.found /\ lab.seed[row.run] = seed)

\* The rows of a query.
Selected(c) == {row \in rows[c] : /\ \/ request[c].target = Unset
                                     \/ WildcardMatch(request[c].target, TargetName(row))
                                  /\ SeedMatches(row, request[c].seed)}

Abs(n) == IF n < 0 THEN -n ELSE n

\* Runs are listed newest first: ci compare takes the value of the last less the first.
Delta(runs) == Abs(lab.metric[Min(runs)] - lab.metric[Max(runs)])

\* The runs that have the value.
Measured(c) == {row.run : row \in {w \in rows[c] : "metrics_summary.json" \in w.found}}

\* parse_duration: an amount and its unit, multiplied in 64 bits.
Product(older) == older.amount * UnitSeconds[older.unit]
Overflows(older) == Product(older) >= Width
Seconds(older) == Product(older) % Width

-----------------------------------------------------------------------------

\* Runs go on as long as there is a command that could notice.
Active == \E c \in Scanners : phase[c] \notin {"done", "failed", "passed"}
UnderWay == {c \in Scanners : phase[c] \notin {"off", "done", "failed", "passed"}}

ScanInit == /\ lab \in Labs
            /\ registry = lab.registry
            /\ step = lab.step
            /\ now = lab.now
            /\ dir = {r \in Runs : step[r] > 0}
            /\ files = [r \in Runs |-> {WriteOrder[i] : i \in 1..(step[r] - 1)}]
            /\ touched = [r \in Runs |-> 0]
            /\ phase = [c \in Scanners |-> "off"]
            /\ request = [c \in Scanners |-> [kind |-> "none"]]
            /\ todo = [c \in Scanners |-> {}]
            /\ doing = [c \in Scanners |-> Ghost]
            /\ rows = [c \in Scanners |-> {}]
            /\ cutoff = [c \in Scanners |-> 0]
            /\ began = [c \in Scanners |-> [at |-> 0, dir |-> {}, files |-> files, touched |-> touched, still |-> {}]]
            /\ removed = [c \in Scanners |-> {}]

\* What changes a directory: the commands at work cannot count on it any more.
Disturb(r, others) ==
  began' = [c \in Scanners |->
              IF c \in others \cap UnderWay THEN [began[c] EXCEPT !.still = @ \ {r}] ELSE began[c]]

Tick == /\ now < MaxTime /\ UnderWay # {}
        /\ now' = now + 1
        /\ UNCHANGED <<lab, registry, step, treeVars, commandVars, began, removed>>

\* A run makes its directory; a command that is reading the directories may come
\* across it or not.
Create(r) ==
  /\ Active /\ step[r] = 0
  /\ step' = [step EXCEPT ![r] = 1]
  /\ dir' = dir \cup {r}
  /\ touched' = [touched EXCEPT ![r] = now]
  /\ \E met \in SUBSET {c \in UnderWay : todo[c] # {}} :
       todo' = [c \in Scanners |-> IF c \in met THEN todo[c] \cup {r} ELSE todo[c]]
  /\ Disturb(r, Scanners)
  /\ UNCHANGED <<lab, registry, now, files, phase, request, doing, rows, cutoff, removed>>

\* A run writes its next file; in a directory that was removed under it, it makes
\* the directory again.  It may stop at any time.
WriteFile(r) ==
  LET file == WriteOrder[step[r]]
  IN /\ Active /\ step[r] \in DOMAIN WriteOrder /\ step[r] < lab.step[r] + MaxWrites
     /\ step' = [step EXCEPT ![r] = @ + 1]
     /\ dir' = dir \cup {r}
     /\ files' = [files EXCEPT ![r] = @ \cup {file}]
     /\ touched' = [touched EXCEPT ![r] = IF file = "env.json" /\ r \in dir THEN @ ELSE now]
     /\ Disturb(r, Scanners)
     /\ UNCHANGED <<lab, registry, now, commandVars, removed>>

-----------------------------------------------------------------------------
(* A command.                                                              *)

\* The guards of the command line of gc, and of clean, before anything is read: a
\* directory that is configured outside .rlab is not clean's to remove.
GcRefuses(q) == q.kind = "prune" /\ (q.older = Unset \/ ~(q.dry \/ q.force))
CleanRefuses(q) == q.kind = "clean" /\ lab.outside
Refuses(q) == GcRefuses(q) \/ CleanRefuses(q)

\* The oldest time a pass of gc leaves alone: an overflow goes round.
CutoffOf(q) == IF q.kind = "prune" THEN now - Seconds(q.older) ELSE 0

\* A command begins: it refuses what it is asked, or opens the directory of runs.  A
\* debug build panics where a duration overflows; checked_sub refuses what would
\* reach back beyond the signed range.
Ask(c, q) ==
  /\ phase[c] = "off"
  /\ request' = [request EXCEPT ![c] = q]
  /\ began' = [began EXCEPT ![c] = [at |-> now, dir |-> dir, files |-> files, touched |-> touched, still |-> Runs]]
  /\ \/ /\ Refuses(q)
        /\ phase' = [phase EXCEPT ![c] = "failed"]
        /\ UNCHANGED <<todo, cutoff>>
     \/ /\ ~Refuses(q) /\ q.kind = "prune"
        /\ Overflows(q.older) \/ Seconds(q.older) >= now + Width \div 2
        /\ phase' = [phase EXCEPT ![c] = "failed"]
        /\ UNCHANGED <<todo, cutoff>>
     \/ /\ ~Refuses(q)
        /\ q.kind = "prune" => Seconds(q.older) < now + Width \div 2
        /\ cutoff' = [cutoff EXCEPT ![c] = CutoffOf(q)]
        /\ todo' = [todo EXCEPT ![c] = dir]
        /\ phase' = [phase EXCEPT ![c] = "scan"]
  /\ UNCHANGED <<lab, registry, step, now, treeVars, doing, rows, removed>>

Is(c, kinds) == request[c].kind \in kinds
Row(r) == [run |-> r, found |-> files[r]]

\* The next entry of the directory is one that is passed over.
Pass(c, r) == /\ todo' = [todo EXCEPT ![c] = @ \ {r}]
              /\ UNCHANGED <<phase, request, doing, rows, cutoff, removed>>

Keep(c, r) == /\ todo' = [todo EXCEPT ![c] = @ \ {r}]
              /\ rows' = [rows EXCEPT ![c] = @ \cup {Row(r)}]
              /\ UNCHANGED <<phase, request, doing, cutoff, removed>>

TakeUp(c, r, next) == /\ todo' = [todo EXCEPT ![c] = @ \ {r}]
                      /\ doing' = [doing EXCEPT ![c] = Row(r)]
                      /\ phase' = [phase EXCEPT ![c] = next]
                      /\ UNCHANGED <<request, rows, cutoff, removed>>

GiveUp(c) == /\ phase' = [phase EXCEPT ![c] = "failed"]
             /\ UNCHANGED <<request, todo, doing, rows, cutoff, removed>>

Listing == {"list", "compare", "reproducibility"}

\* Mutant: an entry that is no run ends the list.
SummariseStrictly(c, r) == /\ Is(c, Listing)
                           /\ IF r \in dir /\ Listed(r, files[r]) THEN Keep(c, r) ELSE GiveUp(c)

\* read_run_summaries: what cannot be read is no run.
Summarise(c, r) == /\ Is(c, Listing)
                   /\ IF r \in dir /\ Listed(r, files[r]) THEN Keep(c, r) ELSE Pass(c, r)

\* all_run_records and migrate: a directory with a run.json is a run.
Look(c, r) == /\ Is(c, {"query", "migrate"})
              /\ IF r \in dir /\ "run.json" \in files[r] THEN TakeUp(c, r, "read") ELSE Pass(c, r)

\* Mutant: a dry run removes what it reports.
JudgeWet(c, r) ==
  /\ Is(c, {"prune"})
  /\ IF r \notin dir THEN Pass(c, r) \/ GiveUp(c)
     ELSE IF touched[r] > cutoff[c] THEN Pass(c, r)
     ELSE TakeUp(c, r, "remove")

\* prune_runs: no run has a file named run.lock, so all are judged, by the time of
\* their directory, which is gone if another command was faster.
Judge(c, r) ==
  /\ Is(c, {"prune"})
  /\ IF r \notin dir THEN Pass(c, r) \/ GiveUp(c)
     ELSE IF touched[r] > cutoff[c] THEN Pass(c, r)
     ELSE IF request[c].dry THEN Keep(c, r)
     ELSE TakeUp(c, r, "remove")

\* clean: everything goes, or nothing without --force.
Sweep(c, r) == /\ Is(c, {"clean"})
               /\ IF r \in dir /\ request[c].force THEN TakeUp(c, r, "remove") ELSE Pass(c, r)

\* The entries come in the order the file system keeps them in.
Visit(c, r) == /\ phase[c] = "scan" /\ r \in todo[c]
               /\ \A s \in todo[c] : lab.place[r] <= lab.place[s]
               /\ Summarise(c, r) \/ Look(c, r) \/ Judge(c, r) \/ Sweep(c, r)
               /\ UNCHANGED <<lab, registry, step, now, treeVars, began>>

Undecodable(r) == lab.version[r] = "torn"

\* The files are read after they were looked for.  One that has gone is an error to
\* migrate; to a query an error, or an object with nothing in it.  The manifest, the
\* parameters and the metrics are read one after the other: here, at once.
Read(c) ==
  LET r == doing[c].run
  IN /\ phase[c] = "read"
     /\ \/ /\ "run.json" \notin files[r] \/ Undecodable(r)
           /\ phase' = [phase EXCEPT ![c] = "failed"]
           /\ UNCHANGED rows
        \/ /\ "run.json" \in files[r] => ~Undecodable(r)
           /\ "run.json" \in files[r] \/ Is(c, {"query"})
           /\ phase' = [phase EXCEPT ![c] = "scan"]
           /\ rows' = [rows EXCEPT ![c] =
                IF Is(c, {"migrate"}) /\ lab.version[r] = "current" THEN @ ELSE @ \cup {Row(r)}]
     /\ doing' = [doing EXCEPT ![c] = Ghost]
     /\ UNCHANGED <<lab, registry, step, now, treeVars, request, todo, cutoff, began, removed>>

\* remove_dir_all: files go one by one, in no order: some are seen left.  Then the directory goes, unless
\* a run wrote to it meanwhile; what another command removed first is an error or none.
RemoveFiles(c) ==
  LET r == doing[c].run
  IN /\ phase[c] = "remove"
     /\ \/ /\ r \notin dir
           /\ phase' = [phase EXCEPT ![c] = "failed"]
           /\ UNCHANGED <<files, doing, removed, began>>
        \/ /\ r \in dir
           /\ \E left \in {{}, files[r] \ {"run.json"}, files[r] \cap {"run.json"}} : files' = [files EXCEPT ![r] = left]
           /\ phase' = [phase EXCEPT ![c] = "unlink"]
           /\ removed' = [removed EXCEPT ![c] = @ \cup {r}]
           /\ doing' = [doing EXCEPT ![c].found = files'[r]]
           /\ Disturb(r, Scanners \ {c})
     /\ UNCHANGED <<lab, registry, step, now, dir, touched, request, todo, rows, cutoff>>

RemoveDirectory(c) ==
  LET r == doing[c].run
  IN /\ phase[c] = "unlink"
     /\ \/ /\ r \notin dir \/ ~(files[r] \subseteq doing[c].found)
           /\ phase' = [phase EXCEPT ![c] = "failed"]
           /\ UNCHANGED <<dir, files, rows>>
        \/ /\ files[r] \subseteq doing[c].found
           /\ phase' = [phase EXCEPT ![c] = "scan"]
           /\ dir' = dir \ {r}
           /\ files' = [files EXCEPT ![r] = {}]
           /\ rows' = [rows EXCEPT ![c] = @ \cup {[run |-> r, found |-> {}]}]
     /\ doing' = [doing EXCEPT ![c] = Ghost]
     /\ Disturb(r, Scanners \ {c})
     /\ UNCHANGED <<lab, registry, step, now, touched, request, todo, cutoff, removed>>

\* compare_runs and the reproducibility check go through the runs that were listed, to
\* look for one file of each.
Wanted(c) == IF Is(c, {"compare"}) THEN "metrics_summary.json" ELSE "env.json"

Second(c) ==
  /\ phase[c] = "scan" /\ todo[c] = {} /\ Is(c, {"compare", "reproducibility"})
  /\ phase' = [phase EXCEPT ![c] = "second"]
  /\ todo' = [todo EXCEPT ![c] = {row.run : row \in rows[c]}]
  /\ rows' = [rows EXCEPT ![c] = {}]
  /\ UNCHANGED <<lab, registry, step, now, treeVars, request, doing, cutoff, began, removed>>

Measure(c, r) ==
  /\ phase[c] = "second" /\ r \in todo[c]
  /\ \A s \in todo[c] : s <= r
  /\ IF Wanted(c) \in files[r] /\ Is(c, {"compare"}) THEN TakeUp(c, r, "measure")
     ELSE IF Wanted(c) \in files[r] \/ Is(c, {"compare"}) THEN Pass(c, r)
     ELSE Keep(c, r)
  /\ UNCHANGED <<lab, registry, step, now, treeVars, began>>

ReadMeasure(c) ==
  LET r == doing[c].run
  IN /\ phase[c] = "measure"
     /\ IF Wanted(c) \in files[r]
        THEN /\ phase' = [phase EXCEPT ![c] = "second"]
             /\ rows' = [rows EXCEPT ![c] = @ \cup {Row(r)}]
        ELSE /\ phase' = [phase EXCEPT ![c] = "failed"]
             /\ UNCHANGED rows
     /\ doing' = [doing EXCEPT ![c] = Ghost]
     /\ UNCHANGED <<lab, registry, step, now, treeVars, request, todo, cutoff, began, removed>>

\* The registry cache comes last in a plan of migrate.
Plan(c) == rows[c] \cup (IF registry \in {"none", "current"} THEN {}
                         ELSE {[run |-> 0, found |-> {"registry.json"}]})

VersionOf(row) == IF row.run = 0 THEN registry ELSE lab.version[row.run]

\* ci compare passes or not; plain compare only lists.
CompareVerdict(c) ==
  CASE request[c].threshold = Unset -> "done"
    [] request[c].threshold # Unset /\ Cardinality(Measured(c)) < 2 -> "failed"
    [] OTHER -> IF Delta(Measured(c)) <= request[c].threshold THEN "passed" ELSE "done"

ReproducibilityVerdict(c) == IF rows[c] = {} THEN "passed" ELSE "done"

\* ensure_supported, which only apply asks for.
Supported(c) == \A row \in Plan(c) : VersionOf(row) # "unversioned"
MigrateVerdict(c) ==
  IF registry = "torn" \/ (request[c].apply /\ ~Supported(c)) THEN "failed" ELSE "done"

\* A directory that was made meanwhile keeps .rlab from being removed.
CleanVerdict(c) == IF request[c].force /\ dir # {} THEN "failed" ELSE "done"

Verdict(c) == CASE Is(c, {"compare"})         -> CompareVerdict(c)
                [] Is(c, {"reproducibility"}) -> ReproducibilityVerdict(c)
                [] Is(c, {"migrate"})         -> MigrateVerdict(c)
                [] Is(c, {"clean"})           -> CleanVerdict(c)
                [] OTHER -> "done"

\* A command has been through all there is.  migrate apply refuses a file without a
\* version, and otherwise reports that it is done: it changes no file.
Finish(c) ==
  /\ todo[c] = {}
  /\ phase[c] = IF Is(c, {"compare", "reproducibility"}) THEN "second" ELSE "scan"
  /\ phase' = [phase EXCEPT ![c] = Verdict(c)]
  /\ registry' = IF Is(c, {"clean"}) /\ request[c].force THEN "none" ELSE registry
  /\ rows' = [rows EXCEPT ![c] = CASE Is(c, {"query"}) -> Selected(c)
                                   [] Is(c, {"migrate"}) -> Plan(c)
                                   [] OTHER -> @]
  /\ UNCHANGED <<lab, step, now, treeVars, request, todo, doing, cutoff, began, removed>>

\* The process of a command dies, with a directory half removed.
Die(c) == /\ c \in UnderWay /\ phase[c] = "unlink"
          /\ phase' = [phase EXCEPT ![c] = "failed"]
          /\ UNCHANGED <<lab, registry, step, now, treeVars, request, todo, doing, rows, cutoff, began, removed>>

Scan(c) == \/ \E r \in Runs : Visit(c, r) \/ Measure(c, r)
           \/ Read(c) \/ RemoveFiles(c) \/ RemoveDirectory(c)
           \/ Second(c) \/ ReadMeasure(c) \/ Finish(c) \/ Die(c)

Over == /\ ~Active \/ \A c \in Scanners : phase[c] = "off" => lab.asked[c] = {}
        /\ UNCHANGED scanVars

ScanNext == \/ Tick
            \/ \E r \in Runs : Create(r) \/ WriteFile(r)
            \/ \E c \in Scanners : Scan(c) \/ \E q \in lab.asked[c] : Ask(c, q)
            \/ Over

ScanSpec == ScanInit /\ [][ScanNext]_scanVars

-----------------------------------------------------------------------------
(* Properties.                                                             *)

\* A pattern stands for a value if the value can be cut into pieces, one for each of its
\* characters: a wildcard stands for any piece, or for one of a single character.
Stands(pattern, value) ==
  \E cut \in [0..Len(pattern) -> 0..Len(value)] :
    /\ cut[0] = 0 /\ cut[Len(pattern)] = Len(value)
    /\ \A i \in 1..Len(pattern) :
         \/ pattern[i] = "*" /\ cut[i - 1] <= cut[i]
         \/ pattern[i] = "?" /\ cut[i] = cut[i - 1] + 1
         \/ pattern[i] \notin {"*", "?"} /\ cut[i] = cut[i - 1] + 1 /\ value[cut[i]] = pattern[i]

Found(c, r) == began[c].files[r]
Steady(c) == began[c].still \cap began[c].dir
Reported(c) == {row.run : row \in rows[c]}
Undisturbed(c) == began[c].still = Runs

\* What each command should report of the runs that stayed as they were.
Due(c, q) ==
  CASE q.kind = "list" -> {r \in Steady(c) : Listed(r, Found(c, r))}
    [] q.kind = "query" ->
         {r \in Steady(c) : /\ "run.json" \in Found(c, r)
                            /\ q.target = Unset \/ Stands(q.target, lab.target[r])
                            /\ q.seed = Unset \/ ("params.json" \in Found(c, r) /\ lab.seed[r] = q.seed)}
    [] q.kind = "compare" ->
         {r \in Steady(c) : Listed(r, Found(c, r)) /\ "metrics_summary.json" \in Found(c, r)}
    [] q.kind = "reproducibility" ->
         {r \in Steady(c) : Listed(r, Found(c, r)) /\ "env.json" \notin Found(c, r)}
    [] q.kind = "migrate" ->
         {r \in Steady(c) : "run.json" \in Found(c, r) /\ lab.version[r] # "current"}

\* The difference between the newest and the oldest run that ci compare judges by.
Drift(c) == Delta(Due(c, request[c]))

Readers == {"list", "query", "compare", "reproducibility", "migrate"}

\* Whatever runs are written and removed meanwhile, a command that goes through all runs
\* and succeeds reports, of those that stayed as they were, exactly the ones it is about;
\* with none changed, it fails only for a file that cannot be read, for a run without a
\* version that migrate apply is to change, or for want of two measured runs, and ci
\* compare passes exactly if the newest and the oldest are close.
ScansAreSound ==
  \A c \in Scanners : phase[c] # "off" /\ Is(c, Readers) =>
    /\ phase[c] \in {"done", "passed"} => Reported(c) \cap Steady(c) = Due(c, request[c])
    /\ phase[c] = "failed" /\ Undisturbed(c) =>
         \/ Is(c, {"query", "migrate"}) /\ "torn" \in Range(lab.version) \cup {lab.registry}
         \/ Is(c, {"migrate"}) /\ request[c].apply /\ "unversioned" \in Range(lab.version) \cup {lab.registry}
         \/ Is(c, {"compare"}) /\ Cardinality(Due(c, request[c])) < 2
    /\ Is(c, {"compare"}) /\ phase[c] \in {"done", "passed"} /\ Undisturbed(c) /\ request[c].threshold # Unset =>
         (phase[c] = "passed" <=> Drift(c) <= request[c].threshold)

\* The runs that were as old, when the command began, as gc --older-than asks for.
Old(c) == {r \in began[c].dir :
             began[c].touched[r] + Product(request[c].older) <= began[c].at}

\* Only gc --prune-runs and clean remove runs, and only if they are forced to; gc no run
\* that was younger than asked for when it began, whatever the runs did since then, unless
\* the seconds overflow, or it is asked for runs of any age and finds one that was made at
\* that moment.  With nothing changed, a dry run reports what a real one removes.
RemovedAsAsked ==
  \A c \in Scanners : phase[c] # "off" =>
    /\ removed[c] # {} => Is(c, {"prune", "clean"}) /\ request[c].force
    /\ Is(c, {"prune"}) /\ request[c].dry => removed[c] = {}
    /\ Is(c, {"prune"}) /\ request[c].older # Unset /\ ~Overflows(request[c].older) =>
         /\ \A r \in removed[c] \ Old(c) : Product(request[c].older) = 0 /\ r \notin began[c].dir
         /\ phase[c] = "done" /\ Undisturbed(c) =>
              Reported(c) = Old(c) /\ (~request[c].dry => removed[c] = Old(c))
    /\ Is(c, {"clean"}) /\ phase[c] = "done" /\ Undisturbed(c) /\ request[c].force =>
         removed[c] = began[c].dir

=============================================================================
