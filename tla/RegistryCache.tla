---------------------------- MODULE RegistryCache ----------------------------
(***************************************************************************)
(* discover_registry of rlab-cli/src/commands/discover.rs: every command   *)
(* that needs the registry takes it from .rlab/cache/registry.json when    *)
(* the cache is valid for its key, and otherwise runs the Python discovery *)
(* of the project's modules and writes the cache again.  The key lists the *)
(* source files there are when the command begins; their hashes are taken  *)
(* when the cache is compared, and again when it is written, after the     *)
(* discovery.  Meanwhile the user edits, adds and removes sources, and     *)
(* installs packages that they import.                                     *)
(*                                                                         *)
(* The sources are the submodules of one configured package, imported in   *)
(* the order of their names (python/rlab/_loader.py).  A registry is, for  *)
(* each source, the content it was declared by.  A hash is the content it  *)
(* was taken of.  The other fields of the key (versions, configuration,    *)
(* interpreter) are compared as the strictness is.                         *)
(***************************************************************************)
EXTENDS Naturals, FiniteSetsExt

CONSTANTS Commands,  \* terminals: each runs commands one after the other
          Files,     \* the source files, in the order they are imported
          Plain,     \* contents that declare records when they are imported
          Needing,   \* contents that also import a package
          Failing,   \* contents whose import raises
          Exiting,   \* contents whose import calls sys.exit(0)
          Absent, NoCache,
          MaxEdits   \* bounds the changes of sources and packages

Contents == Plain \cup Needing \cup Failing \cup Exiting

ASSUME RegistryAssumption ==
  /\ Files \subseteq Nat /\ IsFiniteSet(Files)
  /\ Absent \notin Contents
  /\ Plain \cap (Failing \cup Exiting) = {} /\ Needing \cap (Failing \cup Exiting) = {}
  /\ Failing \cap Exiting = {}
  /\ MaxEdits \in Nat

VARIABLES source,     \* the content of each file, or Absent
          installed,  \* whether the package is installed
          cache,      \* registry.json, or NoCache
          pc,         \* where each command is
          strict,     \* its mode
          listed,     \* the source_paths of its key
          loaded,     \* the cache it has read
          left,       \* the files it has yet to compare, import or hash
          seen,       \* what its discovery has collected
          hashes,     \* the hashes it will write
          disturbed,  \* whether a source or the package changed while it ran
          edits       \* the changes so far

command == <<pc, strict, listed, loaded, left, seen, hashes>>
vars == <<source, installed, cache, command, disturbed, edits>>

Working == {"load", "check", "spawn", "import", "hash"}

Sources == [Files -> Contents \cup {Absent}]
Nothing == [f \in Files |-> Absent]

\* strict says in which mode the records were discovered. clean is not in the file:
\* no source or package changed in the discovery that wrote it, and since then
\* no source was removed and no package changed.
Caches == [strict : BOOLEAN, hashes : Sources, records : Sources, clean : BOOLEAN]

Present == {f \in Files : source[f] # Absent}

Init == /\ source \in Sources
        /\ installed \in BOOLEAN
        /\ cache = NoCache
        /\ pc = [c \in Commands |-> "idle"]
        /\ strict = [c \in Commands |-> FALSE]
        /\ listed = [c \in Commands |-> {}]
        /\ loaded = [c \in Commands |-> NoCache]
        /\ left = [c \in Commands |-> {}]
        /\ seen = [c \in Commands |-> Nothing]
        /\ hashes = [c \in Commands |-> Nothing]
        /\ disturbed = [c \in Commands |-> FALSE]
        /\ edits = 0

Go(c, where) == pc' = [pc EXCEPT ![c] = where]

\* The command has ended, and what it held is gone.
End(c, how) == /\ Go(c, how)
               /\ strict' = [strict EXCEPT ![c] = FALSE]
               /\ listed' = [listed EXCEPT ![c] = {}]
               /\ loaded' = [loaded EXCEPT ![c] = NoCache]
               /\ left' = [left EXCEPT ![c] = {}]
               /\ seen' = [seen EXCEPT ![c] = Nothing]
               /\ hashes' = [hashes EXCEPT ![c] = Nothing]
               /\ disturbed' = [disturbed EXCEPT ![c] = FALSE]

-----------------------------------------------------------------------------
(* The cache is tried: cache_key_for, load_registry_cache, is_valid_for.   *)

\* The key: the mode, and the sources that are there now.
CacheKeyFor(c, s) == /\ strict' = [strict EXCEPT ![c] = s]
                     /\ listed' = [listed EXCEPT ![c] = Present]

Begin(c, s, refresh) ==
  /\ pc[c] \notin Working
  /\ CacheKeyFor(c, s)
  /\ Go(c, IF refresh THEN "spawn" ELSE "load")
  /\ disturbed' = [disturbed EXCEPT ![c] = FALSE]
  /\ UNCHANGED <<source, installed, cache, loaded, left, seen, hashes, edits>>

\* Mutant: the mode is left out of the key.
MatchesAnyMode(c) == cache # NoCache

\* metadata_matches
Matches(c) == cache # NoCache /\ cache.strict = strict[c]

Load(c) ==
  /\ pc[c] = "load"
  /\ \/ /\ Matches(c)
        /\ loaded' = [loaded EXCEPT ![c] = cache]
        /\ left' = [left EXCEPT ![c] = listed[c]]
        /\ Go(c, "check")
     \/ /\ ~Matches(c)
        /\ Go(c, "spawn")
        /\ UNCHANGED <<loaded, left>>
  /\ UNCHANGED <<source, installed, cache, strict, listed, seen, hashes, disturbed, edits>>

\* Mutant: a file the cache does not know of is taken for unchanged.
CheckKnown(c, f) ==
  /\ pc[c] = "check"
  /\ f \in left[c]
  /\ \/ /\ source[f] = loaded[c].hashes[f] \/ loaded[c].hashes[f] = Absent
        /\ left' = [left EXCEPT ![c] = @ \ {f}]
        /\ UNCHANGED <<pc, loaded>>
     \/ /\ source[f] # loaded[c].hashes[f] /\ loaded[c].hashes[f] # Absent
        /\ Go(c, "spawn")
        /\ loaded' = [loaded EXCEPT ![c] = NoCache]
        /\ left' = [left EXCEPT ![c] = {}]
  /\ UNCHANGED <<source, installed, cache, strict, listed, seen, hashes, disturbed, edits>>

\* sources_match asks of the files of the key that are still there; a hash the
\* cache has of any other file is not looked at.
Check(c, f) ==
  /\ pc[c] = "check"
  /\ f \in left[c]
  /\ \/ /\ source[f] \in {Absent, loaded[c].hashes[f]}
        /\ left' = [left EXCEPT ![c] = @ \ {f}]
        /\ UNCHANGED <<pc, loaded>>
     \/ /\ source[f] \notin {Absent, loaded[c].hashes[f]}
        /\ Go(c, "spawn")
        /\ loaded' = [loaded EXCEPT ![c] = NoCache]
        /\ left' = [left EXCEPT ![c] = {}]
  /\ UNCHANGED <<source, installed, cache, strict, listed, seen, hashes, disturbed, edits>>

\* The registry is the one it has read.
Serve(c) ==
  /\ pc[c] = "check"
  /\ left[c] = {}
  /\ End(c, "served")
  /\ UNCHANGED <<source, installed, cache, edits>>

-----------------------------------------------------------------------------
(* The discovery, in a runner process.                                     *)

\* The names of the submodules are collected before the first is imported.
Spawn(c) ==
  /\ pc[c] = "spawn"
  /\ left' = [left EXCEPT ![c] = Present]
  /\ seen' = [seen EXCEPT ![c] = Nothing]
  /\ Go(c, "import")
  /\ UNCHANGED <<source, installed, cache, strict, listed, loaded, hashes, disturbed, edits>>

\* ModuleNotFoundError: the file has gone, or the package is not there.
NotFound(v) == v = Absent \/ (v \in Needing /\ ~installed)

\* The runner ended well; what it had sent is the registry.
Collect(c, records) ==
  /\ seen' = [seen EXCEPT ![c] = records]
  /\ left' = [left EXCEPT ![c] = listed[c]]
  /\ Go(c, "hash")
  /\ UNCHANGED <<strict, listed, loaded, hashes, disturbed>>

\* Mutant: a relaxed discovery stops at the first module it does not find.
ImportUpTo(c, f, v) ==
  \/ /\ ~NotFound(v) /\ v \in Plain \cup Needing
     /\ seen' = [seen EXCEPT ![c][f] = v]
     /\ left' = [left EXCEPT ![c] = @ \ {f}]
     /\ UNCHANGED <<pc, strict, listed, loaded, hashes, disturbed>>
  \/ /\ NotFound(v) /\ ~strict[c]
     /\ Collect(c, seen[c])
  \/ /\ (NotFound(v) /\ strict[c]) \/ v \in Failing
     /\ End(c, "idle")
  \/ /\ v \in Exiting
     /\ Collect(c, Nothing)

Import(c, f, v) ==
  \/ /\ ~NotFound(v) /\ v \in Plain \cup Needing
     /\ seen' = [seen EXCEPT ![c][f] = v]
     /\ left' = [left EXCEPT ![c] = @ \ {f}]
     /\ UNCHANGED <<pc, strict, listed, loaded, hashes, disturbed>>
  \/ /\ NotFound(v) /\ ~strict[c]
     /\ left' = [left EXCEPT ![c] = @ \ {f}]
     /\ UNCHANGED <<pc, strict, listed, loaded, seen, hashes, disturbed>>
  \/ /\ (NotFound(v) /\ strict[c]) \/ v \in Failing
     /\ End(c, "idle")
  \/ \* Records are sent once all is imported: none was.
     /\ v \in Exiting
     /\ Collect(c, Nothing)

ImportFile(c) ==
  /\ pc[c] = "import"
  /\ left[c] # {}
  /\ LET f == Min(left[c]) IN Import(c, f, source[f])
  /\ UNCHANGED <<source, installed, cache, edits>>

\* A strict discovery of nothing is an error.
EndImport(c) ==
  /\ pc[c] = "import"
  /\ left[c] = {}
  /\ IF strict[c] /\ seen[c] = Nothing THEN End(c, "idle") ELSE Collect(c, seen[c])
  /\ UNCHANGED <<source, installed, cache, edits>>

-----------------------------------------------------------------------------
(* The cache is written: from_registry, save_registry_cache.               *)

Hash(c, f) ==
  /\ pc[c] = "hash"
  /\ f \in left[c]
  /\ hashes' = [hashes EXCEPT ![c][f] = source[f]]
  /\ left' = [left EXCEPT ![c] = @ \ {f}]
  /\ UNCHANGED <<source, installed, cache, pc, strict, listed, loaded, seen, disturbed, edits>>

\* The whole file is renamed into place; the registry is what was discovered.
Save(c) ==
  /\ pc[c] = "hash"
  /\ left[c] = {}
  /\ cache' = [strict |-> strict[c], hashes |-> hashes[c], records |-> seen[c],
               clean |-> ~disturbed[c]]
  /\ End(c, "discovered")
  /\ UNCHANGED <<source, installed, edits>>

\* A file that cannot be read or written, a runner or a command that is killed.
Fail(c) ==
  /\ pc[c] \in Working
  /\ End(c, "idle")
  /\ UNCHANGED <<source, installed, cache, edits>>

-----------------------------------------------------------------------------
(* The user.                                                               *)

Change == /\ edits < MaxEdits
          /\ edits' = edits + 1
          /\ disturbed' = [c \in Commands |-> disturbed[c] \/ pc[c] \in Working]

Spoil(gone) == cache' = IF cache # NoCache /\ gone THEN [cache EXCEPT !.clean = FALSE] ELSE cache

\* A source is edited, added or removed.
Edit(f, v) ==
  /\ Change
  /\ source[f] # v
  /\ source' = [source EXCEPT ![f] = v]
  /\ Spoil(v = Absent)
  /\ UNCHANGED <<installed, command>>

Install ==
  /\ Change
  /\ installed' = ~installed
  /\ Spoil(TRUE)
  /\ UNCHANGED <<source, command>>

\* rlab cache clean, rlab clean
CleanCache ==
  /\ cache # NoCache
  /\ cache' = NoCache
  /\ UNCHANGED <<source, installed, command, disturbed, edits>>

-----------------------------------------------------------------------------

CommandStep(c) == \/ Load(c)
                  \/ \E f \in Files : Check(c, f) \/ Hash(c, f)
                  \/ Serve(c)
                  \/ Spawn(c)
                  \/ ImportFile(c)
                  \/ EndImport(c)
                  \/ Save(c)

Next == \/ \E c \in Commands : \/ \E s, refresh \in BOOLEAN : Begin(c, s, refresh)
                               \/ CommandStep(c)
                               \/ Fail(c)
        \/ \E f \in Files, v \in Contents \cup {Absent} : Edit(f, v)
        \/ Install
        \/ CleanCache

Spec == Init /\ [][Next]_vars

-----------------------------------------------------------------------------
(* Properties.                                                             *)

TypeOK ==
  /\ source \in Sources
  /\ installed \in BOOLEAN
  /\ cache \in Caches \cup {NoCache}
  /\ pc \in [Commands -> {"idle", "served", "discovered"} \cup Working]
  /\ strict \in [Commands -> BOOLEAN]
  /\ listed \in [Commands -> SUBSET Files]
  /\ loaded \in [Commands -> Caches \cup {NoCache}]
  /\ \A c \in Commands : pc[c] = "check" <=> loaded[c] # NoCache
  /\ left \in [Commands -> SUBSET Files]
  /\ seen \in [Commands -> Sources]
  /\ hashes \in [Commands -> Sources]
  /\ disturbed \in [Commands -> BOOLEAN]
  /\ edits \in 0..MaxEdits

\* What a discovery that ends well returns for these sources.
Discovered(s) == IF \E f \in Files : s[f] \in Exiting THEN Nothing
                 ELSE [f \in Files |-> IF NotFound(s[f]) THEN Absent ELSE s[f]]

\* A cache that nothing has spoilt is used, by a command that begins now, only if it
\* is what a fresh discovery returns, whatever commands discover, fail or clean the
\* cache at the same time and whichever of them wrote it last.
CacheIsFresh ==
  cache # NoCache /\ cache.clean /\ (\A f \in Present : cache.hashes[f] = source[f])
    => cache.records = Discovered(source)

\* The registry that a command returns in this step, when it ends well.
Ends(c) == pc[c] \in Working /\ pc'[c] \in {"served", "discovered"}
Returned(c) == IF pc'[c] = "served" THEN loaded[c].records ELSE seen[c]

\* A command that no change has disturbed returns what a fresh discovery returns,
\* unless the cache it read was spoilt.
Trusted(c) == ~disturbed[c] /\ (pc[c] = "check" => loaded[c].clean)
ReturnsFresh == [][\A c \in Commands : Ends(c) /\ Trusted(c) => Returned(c) = Discovered(source)]_vars

\* Modules that a relaxed discovery has skipped are never missing from the registry of
\* a strict command: it has imported all there was, or the runner was made to exit,
\* unless the packages have changed since; commands of both modes share the one file.
StrictSkipsNothing ==
  [][\A c \in Commands : Ends(c) /\ Trusted(c) /\ strict[c] /\ Returned(c) # Nothing
       => \A f \in Present : Returned(c)[f] # Absent]_vars

=============================================================================
