------------------------------- MODULE Journal -------------------------------
(***************************************************************************)
(* The records people keep beside the runs: notes, decisions, negative     *)
(* results, ideas, baselines and lineage edges (rlab-core/src/journal,     *)
(* baselines and graph), each a file of JSON lines that commands append    *)
(* to, and the search index that is built from them (search).              *)
(*                                                                         *)
(* append_line opens the file and writes the text and the newline in two   *)
(* calls, so commands that overlap may put two texts on one line, which    *)
(* read_jsonl refuses.  The files lie in the cache directory, but for the  *)
(* notes of a run, which lie in the directory of the run too; "rlab cache  *)
(* clean" removes the one, the retention of runs the other.                *)
(*                                                                         *)
(* A file has an identity, since a command goes on writing to a file that  *)
(* was removed; its text is a sequence of entries and newlines.            *)
(***************************************************************************)
EXTENDS Naturals, Sequences, FiniteSets

CONSTANTS Logs,       \* the files in the cache directory
          Notes,      \* the one of them for the notes of runs
          Ideas,      \* the one of them for ideas
          ReadingOrder, \* the order a search reads them in
          Runs,       \* run directories, each with a notes.jsonl
          Writers,    \* commands that append
          Searches,   \* commands that search
          Newline,
          MaxEntries, \* bound on the number of entries
          MaxCleans   \* bound on the removals of the cache and of runs

ASSUME JournalAssumption ==
  /\ IsFiniteSet(Logs) /\ IsFiniteSet(Runs) /\ IsFiniteSet(Writers)
  /\ Notes \in Logs /\ Ideas \in Logs /\ Logs \cap Runs = {}
  /\ ReadingOrder \in Seq(Logs)
  /\ Newline \notin Nat

VARIABLES file,      \* [id, text] of each log and of the notes of each run
          writer,    \* the command at work
          search,
          index,     \* search_index.json: NoIndex or the entries it holds
          snapshot,  \* ideas.snapshot.json: NoSnapshot or the ideas it holds
          cleaner,   \* "rlab cache clean"
          entries,   \* how many entries there are
          removals,
          due,       \* <<file, entry>>: an append that ended, while the file lasts
          torn,      \* files that appends overlapped in, or died in
          removed    \* runs whose directory was removed

journalVars == <<file, writer, search, index, snapshot, cleaner, entries, removals, due, torn, removed>>

JournalFiles == Logs \cup Runs
NoFile == [id |-> 0, text |-> <<>>]
NoIndex == [there |-> FALSE, entries |-> {}]
NoSnapshot == [there |-> FALSE, ideas |-> {}, promoted |-> 0]

\* todo: the files an entry has yet to go to.  read: what a promotion has read.
Idle == [pc |-> "idle", entry |-> 0, todo |-> <<>>, id |-> 0, read |-> {}]
IdleSearch == [pc |-> "idle", todo |-> <<>>, found |-> {}, before |-> {}, built |-> FALSE]
NoClean == [pc |-> "idle", listed |-> {}, others |-> {}]

Texts(f) == {file[f].text[i] : i \in DOMAIN file[f].text} \ {Newline}

\* read_jsonl: blank lines are left out, a line of two entries is an error.
Readable(f) ==
  \A i \in 2 .. Len(file[f].text) : Newline \in {file[f].text[i - 1], file[f].text[i]}
\* No entry is there twice.
Once(f) == \A i, j \in DOMAIN file[f].text :
             i # j /\ file[f].text[i] = file[f].text[j] => file[f].text[i] = Newline

JournalInit ==
  /\ file = [f \in JournalFiles |-> NoFile]
  /\ writer = [w \in Writers |-> Idle]
  /\ search = [s \in Searches |-> IdleSearch]
  /\ index = NoIndex
  /\ snapshot = NoSnapshot
  /\ cleaner = NoClean
  /\ entries = 0 /\ removals = 0
  /\ due = {} /\ torn = {} /\ removed = {}

-----------------------------------------------------------------------------
(* Appending.                                                              *)

\* Mutant: the project's log first.
NotePlacesLogFirst(run) == <<Notes, run>>

\* A note goes to its run, then to the log of all notes.
NotePlaces(run) == <<run, Notes>>

Start(w, places) ==
  /\ writer[w].pc = "idle" /\ entries < MaxEntries
  /\ entries' = entries + 1
  /\ writer' = [writer EXCEPT ![w] = [Idle EXCEPT !.pc = "open", !.entry = entries + 1,
                                                   !.todo = places]]
  /\ UNCHANGED <<file, search, index, snapshot, cleaner, removals, due, torn, removed>>

AddNote(w, run) == Start(w, NotePlaces(run))

\* A decision, a negative result, an idea, a baseline or an edge.
Add(w, log) == log # Notes /\ Start(w, <<log>>)

\* One that no file has, nor any file that a command holds.
Ids == {file[f].id : f \in JournalFiles} \cup {writer[w].id : w \in Writers}
FreshId == CHOOSE id \in 1 .. Cardinality(Ids) + 1 : id \notin Ids

\* The directory is made if need be: also that of a run that is not there.
Open(w) ==
  LET f == Head(writer[w].todo)
  IN /\ writer[w].pc = "open"
     /\ file' = IF file[f] = NoFile THEN [file EXCEPT ![f].id = FreshId] ELSE file
     /\ writer' = [writer EXCEPT ![w] = [@ EXCEPT !.pc = "text", !.id = file'[f].id]]
     /\ UNCHANGED <<search, index, snapshot, cleaner, entries, removals, due, torn, removed>>

\* What is written to a file that was removed is lost.
Write(w, piece) ==
  LET f == Head(writer[w].todo)
  IN file' = IF file[f].id = writer[w].id THEN [file EXCEPT ![f].text = Append(@, piece)]
             ELSE file

\* A text without its newline is at the end of the file.
Unended(f, w) == writer[w].pc = "newline" /\ Head(writer[w].todo) = f /\ writer[w].id = file[f].id

WriteText(w) ==
  LET f == Head(writer[w].todo)
  IN /\ writer[w].pc = "text"
     /\ Write(w, writer[w].entry)
     /\ writer' = [writer EXCEPT ![w].pc = "newline"]
     /\ torn' = IF \E v \in Writers \ {w} : Unended(f, v) THEN torn \cup {f} ELSE torn
     /\ UNCHANGED <<search, index, snapshot, cleaner, entries, removals, due, removed>>

WriteNewline(w) ==
  LET f == Head(writer[w].todo)
      left == Tail(writer[w].todo)
  IN /\ writer[w].pc = "newline"
     /\ Write(w, Newline)
     /\ due' = IF file[f].id = writer[w].id THEN due \cup {<<f, writer[w].entry>>} ELSE due
     /\ writer' = [writer EXCEPT ![w] = IF left = <<>> THEN Idle
                                        ELSE [@ EXCEPT !.pc = "open", !.todo = left]]
     /\ UNCHANGED <<search, index, snapshot, cleaner, entries, removals, torn, removed>>

\* A promotion is not appended to the log: the ideas are read, all of them, and
\* written elsewhere with the one that is named in its new status, if it is there.  A
\* log that cannot be read ends the command.
ReadIdeas(w, idea) ==
  /\ writer[w].pc = "idle" /\ entries < MaxEntries
  /\ Readable(Ideas)
  /\ entries' = entries + 1
  /\ writer' = [writer EXCEPT ![w] = [Idle EXCEPT !.pc = "promote", !.entry = idea,
                                                   !.read = Texts(Ideas)]]
  /\ UNCHANGED <<file, search, index, snapshot, cleaner, removals, due, torn, removed>>

WriteSnapshot(w) ==
  /\ writer[w].pc = "promote"
  /\ snapshot' = [there |-> TRUE, ideas |-> writer[w].read,
                  promoted |-> IF writer[w].entry \in writer[w].read THEN writer[w].entry ELSE 0]
  /\ writer' = [writer EXCEPT ![w] = Idle]
  /\ UNCHANGED <<file, search, index, cleaner, entries, removals, due, torn, removed>>

\* The command fails or dies between two of its steps.
StopWriting(w) ==
  /\ writer[w].pc # "idle"
  /\ torn' = IF Unended(Head(writer[w].todo), w) THEN torn \cup {Head(writer[w].todo)} ELSE torn
  /\ writer' = [writer EXCEPT ![w] = Idle]
  /\ UNCHANGED <<file, search, index, snapshot, cleaner, entries, removals, due, removed>>

-----------------------------------------------------------------------------
(* Removals.                                                               *)

Forget(f) ==
  /\ file' = [file EXCEPT ![f] = NoFile]
  /\ due' = {d \in due : d[1] # f}
  /\ torn' = torn \ {f}

BeginClean ==
  /\ cleaner.pc = "idle" /\ removals < MaxCleans
  /\ cleaner' = [pc |-> "removing", listed |-> {f \in Logs : file[f] # NoFile},
                others |-> {o \in {"index", "snapshot"} : IF o = "index" THEN index.there
                                                         ELSE snapshot.there}]
  /\ removals' = removals + 1
  /\ UNCHANGED <<file, writer, search, index, snapshot, entries, due, torn, removed>>

CleanLog(f) ==
  /\ f \in cleaner.listed
  /\ cleaner' = [cleaner EXCEPT !.listed = @ \ {f}]
  /\ Forget(f)
  /\ UNCHANGED <<writer, search, index, snapshot, entries, removals, removed>>

CleanSnapshot ==
  /\ "snapshot" \in cleaner.others
  /\ cleaner' = [cleaner EXCEPT !.others = @ \ {"snapshot"}]
  /\ snapshot' = NoSnapshot
  /\ UNCHANGED <<file, writer, search, index, entries, removals, due, torn, removed>>

CleanIndex ==
  /\ "index" \in cleaner.others
  /\ cleaner' = [cleaner EXCEPT !.others = @ \ {"index"}]
  /\ index' = NoIndex
  /\ UNCHANGED <<file, writer, search, snapshot, entries, removals, due, torn, removed>>

\* The directory is removed and made again; that fails if a file is there again.
EndClean ==
  /\ cleaner.pc = "removing" /\ cleaner.listed = {} /\ cleaner.others = {}
  /\ cleaner' = NoClean
  /\ UNCHANGED <<file, writer, search, index, snapshot, entries, removals, due, torn, removed>>

\* A pass of the retention of runs, or the user, removes a run directory.
RemoveRun(r) ==
  /\ removals < MaxCleans /\ file[r] # NoFile
  /\ Forget(r)
  /\ removals' = removals + 1
  /\ removed' = removed \cup {r}
  /\ UNCHANGED <<writer, search, index, snapshot, cleaner, entries>>

-----------------------------------------------------------------------------
(* Searching.                                                              *)

Searched == {ReadingOrder[i] : i \in DOMAIN ReadingOrder}

BeginSearch(s) ==
  /\ search[s].pc = "idle"
  /\ search' = [search EXCEPT ![s] =
       IF index.there THEN [IdleSearch EXCEPT !.pc = "done", !.found = index.entries]
       ELSE [IdleSearch EXCEPT !.pc = "runs", !.todo = ReadingOrder,
                               !.before = {d \in due : d[1] \in Searched}, !.built = TRUE]]
  /\ UNCHANGED <<file, writer, index, snapshot, cleaner, entries, removals, due, torn, removed>>

\* The runs there are, each as an entry of its own; then registry.json, whose text
\* is not modelled.
ReadRuns(s) ==
  /\ search[s].pc = "runs"
  /\ search' = [search EXCEPT ![s] =
                  [@ EXCEPT !.pc = "read", !.found = {<<r, 0>> : r \in Runs \ removed}]]
  /\ UNCHANGED <<file, writer, index, snapshot, cleaner, entries, removals, due, torn, removed>>

\* What was there when it was looked for is gone when it is opened.
SearchError(s) ==
  /\ \/ search[s].pc = "runs" /\ removed # {}
     \/ search[s].pc = "read" /\ search[s].todo # <<>> /\ removals > 0
                              /\ file[Head(search[s].todo)] = NoFile
  /\ search' = [search EXCEPT ![s] = IdleSearch]
  /\ UNCHANGED <<file, writer, index, snapshot, cleaner, entries, removals, due, torn, removed>>

\* The files are read whole, one after the other, as text.
ReadLog(s) ==
  LET f == Head(search[s].todo)
  IN /\ search[s].pc = "read" /\ search[s].todo # <<>>
     /\ search' = [search EXCEPT ![s] =
                     [@ EXCEPT !.todo = Tail(search[s].todo),
                               !.found = search[s].found \cup {<<f, e>> : e \in Texts(f)}]]
     /\ UNCHANGED <<file, writer, index, snapshot, cleaner, entries, removals, due, torn, removed>>

WriteIndex(s) ==
  /\ search[s].pc = "read" /\ search[s].todo = <<>>
  /\ index' = [there |-> TRUE, entries |-> search[s].found]
  /\ search' = [search EXCEPT ![s].pc = "done"]
  /\ UNCHANGED <<file, writer, snapshot, cleaner, entries, removals, due, torn, removed>>

EndSearch(s) ==
  /\ search[s].pc = "done"
  /\ search' = [search EXCEPT ![s] = IdleSearch]
  /\ UNCHANGED <<file, writer, index, snapshot, cleaner, entries, removals, due, torn, removed>>

\* rlab journal adds or promotes; what it lists is what Readable and Texts say.
JournalCommand(w) == \/ \E log \in Logs : Add(w, log)
                     \/ \E idea \in 1 .. MaxEntries : ReadIdeas(w, idea)

JournalNext ==
  \/ \E w \in Writers :
       \/ \E run \in Runs : AddNote(w, run)
       \/ JournalCommand(w)
       \/ Open(w) \/ WriteText(w) \/ WriteNewline(w) \/ WriteSnapshot(w) \/ StopWriting(w)
  \/ BeginClean \/ CleanIndex \/ CleanSnapshot \/ EndClean
  \/ \E f \in Logs : CleanLog(f)
  \/ \E r \in Runs : RemoveRun(r)
  \/ \E s \in Searches : \/ BeginSearch(s) \/ ReadRuns(s) \/ ReadLog(s)
                         \/ SearchError(s) \/ WriteIndex(s) \/ EndSearch(s)

JournalSpec == JournalInit /\ [][JournalNext]_journalVars

-----------------------------------------------------------------------------

\* The lines of f can be read back, an entry a line, unless appends overlapped or
\* one died in it; and an append that ended stays there, once, as long as f does.
Exact(f) == /\ f \notin torn => Readable(f)
            /\ Once(f)
            /\ {d[2] : d \in {d \in due : d[1] = f}} \subseteq Texts(f)

\* Every note of the project is a note of its run.
NotesAgree == Texts(Notes) \subseteq UNION {Texts(r) : r \in Runs}

\* A promotion changes an idea it has read, and shows none that is not in the log,
\* unless that was removed.
SnapshotIsExact ==
  /\ snapshot.promoted \in {0} \cup snapshot.ideas
  /\ removals = 0 => snapshot.ideas \subseteq Texts(Ideas)

LogsAreExact == (\A f \in JournalFiles : Exact(f)) /\ (removed = {} => NotesAgree)

FreshSearchSeesAll ==
  \A s \in Searches :
    search[s].pc = "done" /\ search[s].built =>
      /\ search[s].before \cap due \subseteq search[s].found
      /\ {<<r, 0>> : r \in Runs \ removed} \subseteq search[s].found

(* Only appends that overlap, or die, spoil a file: any other can be read  *)
(* back, and no append that ended is lost or doubled before its file is    *)
(* removed; the two files a note goes to agree, whichever commands stop    *)
(* between them, until the directory of a run is removed.  A search that   *)
(* built its index found every run, and every entry that was there when it *)
(* began and still is, whatever was appended, cleaned or searched          *)
(* meanwhile.  What the promotion of an idea writes beside the log shows   *)
(* only ideas of the log.                                                  *)
JournalIsExact == LogsAreExact /\ SnapshotIsExact /\ FreshSearchSeesAll
=============================================================================
