------------------------------- MODULE RowCache -------------------------------
(***************************************************************************)
(* The row caches of rlab-py/src/py_cache.rs: write_jsonl_atomic,          *)
(* write_through_jsonl_atomic and read_jsonl on one path, by programs that *)
(* share a cache directory.                                                *)
(*                                                                         *)
(* A call writes its rows to the path with ".tmp" after it and renames     *)
(* that.  The temporary name is the same in every process: a second call   *)
(* truncates the file that a first one goes on writing, and a rename takes *)
(* whatever has the name.  A file has an identity, so that a call goes on  *)
(* with the file it opened whatever its name is by then.                   *)
(***************************************************************************)
EXTENDS Naturals, FiniteSets, Sequences

CONSTANTS Callers, Readers,
          Rows,
          Tables,      \* the rows that calls are given
          NoRow,       \* a row that is not an object, or an error in place of one
          Hole,        \* what was never written
          MaxTables,   \* bound on the files that are made
          MaxLosses    \* bound on the files that "rlab cache clean" removes

ASSUME RowAssumption == Tables \subseteq Seq(Rows) /\ Hole \notin Rows

VARIABLES content,  \* of each file, by its identity
          temporary, path,  \* the file with each of the two names, or 0
          caller, reader,
          given,    \* the rows of the call that made each file, or truncated it
          mixed,    \* files of calls that overlapped
          losses

rowVars == <<content, temporary, path, caller, reader, given, mixed, losses>>

NoCaller == [pc |-> "idle", rows |-> <<>>, id |-> 0, at |-> 0]
NoReader == [pc |-> "idle", id |-> 0, got |-> <<>>]

RowInit ==
  /\ content = <<>> /\ given = <<>>
  /\ temporary = 0 /\ path = 0
  /\ caller = [c \in Callers |-> NoCaller]
  /\ reader = [r \in Readers |-> NoReader]
  /\ mixed = {} /\ losses = 0

-----------------------------------------------------------------------------
(* Writing.                                                                *)

\* write_through_jsonl_atomic encodes every row before it opens a file, and may stop
\* there; write_jsonl_atomic takes its rows one by one from an iterator.
Call(c, rows) ==
  /\ caller[c].pc = "idle"
  /\ caller' = [caller EXCEPT ![c] = [NoCaller EXCEPT !.pc = "create", !.rows = rows]]
  /\ UNCHANGED <<content, temporary, path, reader, given, mixed, losses>>

AtWork == {c \in Callers : caller[c].pc = "write"}

\* The file named temporary is truncated, or made, and opened by c.
OpenTemporary(c, kept) ==
  LET new == temporary = 0
      id == IF new THEN Len(content) + 1 ELSE temporary
  IN /\ caller[c].pc = "create"
     /\ new => Len(content) < MaxTables
     /\ temporary' = id
     /\ content' = IF new THEN Append(content, <<>>) ELSE [content EXCEPT ![id] = kept]
     /\ given' = IF new THEN Append(given, caller[c].rows)
                 ELSE [given EXCEPT ![id] = caller[c].rows]
     /\ mixed' = IF AtWork = {} THEN mixed \ {id}
                 ELSE mixed \cup {id} \cup {caller[d].id : d \in AtWork}
     /\ caller' = [caller EXCEPT ![c].pc = "write", ![c].id = id]
     /\ UNCHANGED <<path, reader, losses>>

\* Mutant: the file is opened without being truncated.
CreateKeeping(c) == OpenTemporary(c, IF temporary = 0 THEN <<>> ELSE content[temporary])

Create(c) == OpenTemporary(c, <<>>)

\* Each call writes at an offset of its own.
Put(text, at, row) ==
  [i \in 1 .. (IF at > Len(text) THEN at ELSE Len(text)) |->
     IF i = at THEN row ELSE IF i <= Len(text) THEN text[i] ELSE Hole]

\* The rows are taken, turned into JSON and written one by one.
WriteRow(c) ==
  LET at == caller[c].at + 1
  IN /\ caller[c].pc = "write" /\ caller[c].at < Len(caller[c].rows)
     /\ caller[c].rows[at] # NoRow
     /\ content' = [content EXCEPT ![caller[c].id] = Put(@, at, caller[c].rows[at])]
     /\ caller' = [caller EXCEPT ![c].at = at]
     /\ UNCHANGED <<temporary, path, reader, given, mixed, losses>>

\* Whatever file has the temporary name gets the name of the cache.
Rename(c) ==
  /\ caller[c].pc = "write" /\ caller[c].at = Len(caller[c].rows)
  /\ temporary # 0
  /\ path' = temporary /\ temporary' = 0
  /\ caller' = [caller EXCEPT ![c] = NoCaller]
  /\ UNCHANGED <<content, reader, given, mixed, losses>>

\* A row is refused, a write fails, the temporary file is gone, or the process
\* dies: what is there stays.
StopCall(c) ==
  /\ caller[c].pc # "idle"
  /\ caller' = [caller EXCEPT ![c] = NoCaller]
  /\ UNCHANGED <<content, temporary, path, reader, given, mixed, losses>>

\* "rlab cache clean" comes to one of the two names.
Lose ==
  /\ losses < MaxLosses
  /\ \/ temporary # 0 /\ temporary' = 0 /\ UNCHANGED path
     \/ path # 0 /\ path' = 0 /\ UNCHANGED temporary
  /\ losses' = losses + 1
  /\ UNCHANGED <<content, caller, reader, given, mixed>>

-----------------------------------------------------------------------------
(* Reading.                                                                *)

OpenCache(r) ==
  /\ reader[r].pc \in {"idle", "done", "refused"} /\ path # 0
  /\ reader' = [reader EXCEPT ![r] = [pc |-> "read", id |-> path, got |-> <<>>]]
  /\ UNCHANGED <<content, temporary, path, caller, given, mixed, losses>>

\* A line that is not an object of JSON ends the call with an error.
ReadRow(r) ==
  LET text == content[reader[r].id]
      at == Len(reader[r].got) + 1
  IN /\ reader[r].pc = "read"
     /\ \/ at > Len(text) /\ reader' = [reader EXCEPT ![r].pc = "done"]
        \/ /\ at <= Len(text) /\ text[at] = Hole
           /\ reader' = [reader EXCEPT ![r].pc = "refused"]
        \/ /\ at <= Len(text) /\ text[at] # Hole
           /\ reader' = [reader EXCEPT ![r].got = Append(@, text[at])]
     /\ UNCHANGED <<content, temporary, path, caller, given, mixed, losses>>

RowNext ==
  \/ \E c \in Callers : \/ \E rows \in Tables : Call(c, rows)
                        \/ Create(c) \/ WriteRow(c) \/ Rename(c) \/ StopCall(c)
  \/ \E r \in Readers : OpenCache(r) \/ ReadRow(r)
  \/ Lose

RowSpec == RowInit /\ [][RowNext]_rowVars

-----------------------------------------------------------------------------

HasWholeTable(id) == /\ content[id] = given[id]
             /\ \A i \in DOMAIN given[id] : given[id][i] # NoRow

(* Unless calls overlapped on it, the file with the name of the cache      *)
(* holds all rows of one call, whatever calls failed or died before and    *)
(* left in the temporary file; and a read of it, however long it takes and *)
(* whatever replaces the cache meanwhile, is never refused and returns     *)
(* exactly those rows.                                                     *)
RowsAreWhole ==
  /\ path \notin mixed \cup {0} => HasWholeTable(path)
  /\ \A r \in Readers :
       reader[r].id \notin mixed \cup {0} =>
         /\ reader[r].pc # "refused"
         /\ reader[r].pc = "done" => reader[r].got = given[reader[r].id]
=============================================================================
