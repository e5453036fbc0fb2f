------------------------- MODULE ProjectFilesProofs --------------------------
(***************************************************************************)
(* Proofs about RowCache, Journal and ProjectConfig, for any number of     *)
(* programs, tables, logs, entries, directories and layers.                *)
(***************************************************************************)
EXTENDS RowCache, Journal, ProjectConfig,
        SequenceTheorems, FiniteSetTheorems, NaturalsInduction, WellFoundedInduction, TLAPS

-----------------------------------------------------------------------------
(* RowCache.  A file that calls did not overlap on is written by one call  *)
(* at most, which has put the first of its rows there (Prefix), and it is  *)
(* not yet the cache (Apart); the file that has the temporary name is that *)
(* of the call at work (Named), so that a rename takes a whole file.       *)

Opened == 1 .. Len(content)
Text == Seq(Rows \cup {Hole})

RowTypeOK ==
  /\ content \in Seq(Text)
  /\ given \in Seq(Seq(Rows)) /\ Len(given) = Len(content)
  /\ temporary \in 0 .. Len(content)
  /\ path \in 0 .. Len(content)
  /\ caller \in [Callers -> [pc : {"idle", "create", "write"}, rows : Seq(Rows),
                             id : 0 .. Len(content), at : Nat]]
  /\ reader \in [Readers -> [pc : {"idle", "read", "done", "refused"},
                             id : 0 .. Len(content), got : Text]]
  /\ \A c \in Callers : /\ caller[c].pc = "create" => caller[c].at = 0
                        /\ caller[c].pc = "write" => caller[c].id # 0
  /\ \A r \in Readers : reader[r].pc = "read" => reader[r].id # 0

\* A file that was renamed, or that a reader has, is not the temporary file.
TemporaryIsNew ==
  temporary # 0 => temporary # path /\ \A r \in Readers : reader[r].id # temporary

\* Calls that are at work together have mixed their files.
Overlapped == \A c, d \in AtWork : c # d => caller[c].id \in mixed

Apart == \A c \in AtWork : caller[c].id \notin mixed =>
           caller[c].id # path /\ \A r \in Readers : reader[r].id # caller[c].id

Named == temporary \notin mixed \cup {0} => \A c \in AtWork : caller[c].id = temporary

Prefix(c) ==
  LET rows == caller[c].rows
      text == content[caller[c].id]
  IN /\ given[caller[c].id] = rows
     /\ Len(text) = caller[c].at /\ caller[c].at <= Len(rows)
     /\ \A i \in 1 .. caller[c].at : text[i] = rows[i] /\ rows[i] # NoRow

Prefixes == \A c \in AtWork : caller[c].id \notin mixed => Prefix(c)

CacheWhole == path \notin mixed \cup {0} => HasWholeTable(path)

\* What a reader has so far is the first rows of the file it opened.
Following(r) ==
  LET rows == given[reader[r].id]
      got == reader[r].got
  IN /\ HasWholeTable(reader[r].id)
     /\ reader[r].pc # "refused"
     /\ Len(got) <= Len(rows)
     /\ \A i \in 1 .. Len(got) : got[i] = rows[i]
     /\ reader[r].pc = "done" => Len(got) = Len(rows)

ReadersFollow == \A r \in Readers : reader[r].id \notin mixed \cup {0} => Following(r)

RowInv == /\ RowTypeOK /\ TemporaryIsNew /\ Overlapped /\ Apart /\ Named /\ Prefixes
          /\ CacheWhole /\ ReadersFollow

LEMMA RowsInit == RowInit => RowInv
<1> SUFFICES ASSUME RowInit PROVE RowInv
  OBVIOUS
<1> content = <<>> /\ Len(content) = 0 /\ content \in Seq(Text) /\ <<>> \in Text
  BY DEF RowInit, Text
<1> AtWork = {}
  BY DEF AtWork, RowInit, NoCaller
<1>1. RowTypeOK
  BY DEF RowTypeOK, RowInit, NoCaller, NoReader
<1>2. TemporaryIsNew /\ Overlapped /\ Apart /\ Named /\ Prefixes /\ CacheWhole
  BY DEF TemporaryIsNew, Overlapped, Apart, Named, Prefixes, CacheWhole, RowInit
<1>3. ReadersFollow
  BY DEF ReadersFollow, RowInit, NoReader
<1>4. QED
  BY <1>1, <1>2, <1>3 DEF RowInv

\* Putting the next row at the end of a text appends it; elsewhere it may leave holes.
LEMMA PutText ==
  ASSUME NEW text \in Text, NEW at \in Nat \ {0}, NEW row \in Rows
  PROVE  /\ Put(text, at, row) \in Text
         /\ at = Len(text) + 1 =>
              /\ Len(Put(text, at, row)) = at
              /\ Put(text, at, row)[at] = row
              /\ \A i \in 1 .. Len(text) : Put(text, at, row)[i] = text[i]
<1> DEFINE n == IF at > Len(text) THEN at ELSE Len(text)
           next == Put(text, at, row)
<1>0. n \in Nat /\ Len(text) \in Nat /\ DOMAIN text = 1 .. Len(text)
  BY LenProperties DEF Text
<1>1. next = [i \in 1 .. n |-> IF i = at THEN row
                               ELSE IF i <= Len(text) THEN text[i] ELSE Hole]
  BY DEF Put
<1>2. \A i \in 1 .. Len(text) : text[i] \in Rows \cup {Hole}
  BY ElementOfSeq DEF Text
<1>3. \A i \in 1 .. n : next[i] \in Rows \cup {Hole}
  BY <1>0, <1>1, <1>2
<1>4. next \in [1 .. n -> Rows \cup {Hole}]
  BY <1>1, <1>3
<1>5. next \in Text /\ Len(next) = n
  BY <1>0, <1>1, <1>4, SeqDef, LenProperties DEF Text
<1>6. ASSUME at = Len(text) + 1
      PROVE  n = at /\ next[at] = row /\ \A i \in 1 .. Len(text) : next[i] = text[i]
  <2>1. n = at
    BY <1>0, <1>6
  <2>2. \A i \in 1 .. at : next[i] = IF i = at THEN row
                                    ELSE IF i <= Len(text) THEN text[i] ELSE Hole
    BY <1>1, <2>1
  <2> HIDE DEF next
  <2>3. QED
    BY <1>0, <1>6, <2>1, <2>2
<1>7. QED
  BY <1>5, <1>6

\* A step that changes only callers, and no call is at work that was not.
LEMMA CallersStep ==
  ASSUME RowInv, NEW c \in Callers,
         UNCHANGED <<content, temporary, path, reader, given, mixed>>,
         NEW next \in [pc : {"idle", "create"}, rows : Seq(Rows), id : {0}, at : {0}],
         caller' = [caller EXCEPT ![c] = next]
  PROVE  RowInv'
<1> AtWork' = AtWork \ {c} /\ \A d \in AtWork' : caller'[d] = caller[d]
  BY DEF AtWork, RowInv, RowTypeOK
<1>1. RowTypeOK'
  <2>1. next \in [pc : {"idle", "create", "write"}, rows : Seq(Rows), id : 0 .. Len(content), at : Nat]
    BY DEF RowInv, RowTypeOK
  <2>2. /\ caller' \in [Callers -> [pc : {"idle", "create", "write"}, rows : Seq(Rows),
                                    id : 0 .. Len(content), at : Nat]]
        /\ caller'[c] = next /\ \A d \in Callers : d # c => caller'[d] = caller[d]
    BY <2>1 DEF RowInv, RowTypeOK
  <2>3. QED
    BY <2>2 DEF RowInv, RowTypeOK
<1>2. TemporaryIsNew' /\ CacheWhole' /\ ReadersFollow'
  BY DEF RowInv, TemporaryIsNew, CacheWhole, ReadersFollow, HasWholeTable, Following
<1>3. Overlapped' /\ Apart' /\ Named' /\ Prefixes'
  BY DEF RowInv, Overlapped, Apart, Named, Prefixes, Prefix
<1>4. QED
  BY <1>1, <1>2, <1>3 DEF RowInv

LEMMA CallStep ==
  ASSUME RowInv, NEW c \in Callers, NEW rows \in Tables, Call(c, rows)  PROVE  RowInv'
<1> DEFINE next == [NoCaller EXCEPT !.pc = "create", !.rows = rows]
<1>1. next \in [pc : {"idle", "create"}, rows : Seq(Rows), id : {0}, at : {0}]
  BY RowAssumption DEF NoCaller
<1>2. QED
  BY <1>1, CallersStep DEF Call

LEMMA StopCallStep ==
  ASSUME RowInv, NEW c \in Callers, StopCall(c)  PROVE  RowInv'
<1>1. NoCaller \in [pc : {"idle", "create"}, rows : Seq(Rows), id : {0}, at : {0}]
  BY DEF NoCaller
<1>2. QED
  BY <1>1, CallersStep DEF StopCall

LEMMA LoseStep == ASSUME RowInv, Lose  PROVE RowInv'
<1> AtWork' = AtWork
  BY DEF AtWork, Lose
<1>1. RowTypeOK' /\ TemporaryIsNew' /\ CacheWhole' /\ ReadersFollow'
  <2>1. RowTypeOK'
    BY DEF Lose, RowInv, RowTypeOK, TemporaryIsNew, CacheWhole, ReadersFollow,
           HasWholeTable, Following, Text
  <2>2. TemporaryIsNew'
    BY DEF Lose, RowInv, RowTypeOK, TemporaryIsNew, CacheWhole, ReadersFollow,
           HasWholeTable, Following, Text
  <2>3. CacheWhole'
    BY DEF Lose, RowInv, RowTypeOK, TemporaryIsNew, CacheWhole, ReadersFollow,
           HasWholeTable, Following, Text
  <2>4. ReadersFollow'
    BY SMTT(60) DEF Lose, RowInv, RowTypeOK, TemporaryIsNew, CacheWhole, ReadersFollow,
           HasWholeTable, Following, Text
  <2> QED BY <2>1, <2>2, <2>3, <2>4
<1>2. \A c \in AtWork : caller[c].id # 0
  BY DEF AtWork, RowInv, RowTypeOK
<1>3. Overlapped' /\ Apart' /\ Named' /\ Prefixes'
  BY <1>2 DEF Lose, RowInv, Overlapped, Apart, Named, Prefixes, Prefix
<1>4. QED
  BY <1>1, <1>3 DEF RowInv

LEMMA OpenCacheStep ==
  ASSUME RowInv, NEW r \in Readers, OpenCache(r)  PROVE RowInv'
<1> AtWork' = AtWork
  BY DEF AtWork, OpenCache
<1> path \in 1 .. Len(content) /\ path # temporary /\ <<>> \in Text
  BY DEF OpenCache, RowInv, RowTypeOK, TemporaryIsNew, Text
<1>1. reader' = [reader EXCEPT ![r] = [pc |-> "read", id |-> path, got |-> <<>>]]
      /\ UNCHANGED <<content, temporary, path, caller, given, mixed, losses>>
  BY DEF OpenCache
<1>2. RowTypeOK'
  BY <1>1 DEF RowInv, RowTypeOK
<1>3. TemporaryIsNew' /\ Apart'
  BY <1>1 DEF RowInv, RowTypeOK, TemporaryIsNew, Apart
<1>4. Overlapped' /\ Named' /\ Prefixes' /\ CacheWhole'
  BY <1>1 DEF RowInv, Overlapped, Named, Prefixes, Prefix, CacheWhole, HasWholeTable
<1>5. ReadersFollow'
  <2> SUFFICES ASSUME NEW s \in Readers, reader'[s].id \notin mixed \cup {0}
               PROVE  Following(s)'
    BY <1>1 DEF ReadersFollow
  <2>1. CASE s = r
    <3>1. reader'[s] = [pc |-> "read", id |-> path, got |-> <<>>]
      BY <1>1, <2>1 DEF RowInv, RowTypeOK
    <3>2. HasWholeTable(path)
      BY <3>1 DEF RowInv, CacheWhole
    <3>3. Len(given[path]) \in Nat
      BY ElementOfSeq, LenProperties DEF RowInv, RowTypeOK
    <3>4. QED
      BY <1>1, <3>1, <3>2, <3>3 DEF Following, HasWholeTable
  <2>2. CASE s # r
    <3>1. reader'[s] = reader[s]
      BY <1>1, <2>2 DEF RowInv, RowTypeOK
    <3>2. Following(s)
      BY <3>1 DEF RowInv, ReadersFollow
    <3>3. QED
      BY <1>1, <3>1, <3>2 DEF Following, HasWholeTable
  <2>3. QED
    BY <2>1, <2>2
<1>6. QED
  BY <1>2, <1>3, <1>4, <1>5 DEF RowInv

\* A reader takes the next row of the file it opened, or finds its end.
LEMMA ReadRowStep ==
  ASSUME RowInv, NEW r \in Readers, ReadRow(r)  PROVE RowInv'
<1> DEFINE id == reader[r].id
           text == content[id]
           got == reader[r].got
           at == Len(got) + 1
           next == reader'[r]
<1> AtWork' = AtWork
  BY DEF AtWork, ReadRow
<1>1. /\ reader[r].pc = "read" /\ id \in Opened /\ got \in Text /\ text \in Text
      /\ at \in Nat \ {0} /\ Len(text) \in Nat
  BY ElementOfSeq, LenProperties, SMTT(60) DEF ReadRow, RowInv, RowTypeOK, Opened, Text
<1>2. /\ \/ at > Len(text) /\ reader' = [reader EXCEPT ![r].pc = "done"]
         \/ /\ at <= Len(text) /\ text[at] = Hole
            /\ reader' = [reader EXCEPT ![r].pc = "refused"]
         \/ /\ at <= Len(text) /\ text[at] # Hole
            /\ reader' = [reader EXCEPT ![r].got = Append(got, text[at])]
      /\ \A s \in Readers : s # r => reader'[s] = reader[s]
      /\ UNCHANGED <<content, temporary, path, caller, given, mixed>>
  BY DEF ReadRow, RowInv, RowTypeOK
<1>3. \/ at > Len(text) /\ next = [reader[r] EXCEPT !.pc = "done"]
      \/ /\ at <= Len(text) /\ text[at] = Hole
         /\ next = [reader[r] EXCEPT !.pc = "refused"]
      \/ /\ at <= Len(text) /\ text[at] # Hole
         /\ next = [reader[r] EXCEPT !.got = Append(got, text[at])]
  BY <1>1, <1>2 DEF RowInv, RowTypeOK
<1>4. /\ next \in [pc : {"idle", "read", "done", "refused"}, id : 0 .. Len(content),
                   got : Text]
      /\ next.id = id
  <2>1. at <= Len(text) => Append(got, text[at]) \in Text
    BY <1>1, ElementOfSeq, AppendProperties DEF Text
  <2>2. reader[r] \in [pc : {"idle", "read", "done", "refused"}, id : 0 .. Len(content),
                       got : Text]
    BY DEF RowInv, RowTypeOK
  <2>3. QED
    BY <1>3, <2>1, <2>2
<1>5. RowTypeOK'
  <2>1. reader' \in [Readers -> [pc : {"idle", "read", "done", "refused"},
                                 id : 0 .. Len(content), got : Text]]
    BY <1>2, <1>4 DEF RowInv, RowTypeOK
  <2>2. \A s \in Readers : reader'[s].pc = "read" => reader'[s].id # 0
    BY <1>1, <1>2, <1>4, ZenonT(60) DEF RowInv, RowTypeOK, Opened
  <2>3. QED
    BY <1>2, <2>1, <2>2 DEF RowInv, RowTypeOK
<1>6. TemporaryIsNew' /\ Apart'
  <2>1. TemporaryIsNew'
    BY <1>2, <1>4 DEF RowInv, TemporaryIsNew, Apart
  <2>2. Apart'
    BY <1>2, <1>4 DEF RowInv, TemporaryIsNew, Apart
  <2> QED BY <2>1, <2>2
<1>7. Overlapped' /\ Named' /\ Prefixes' /\ CacheWhole'
  BY <1>2 DEF RowInv, Overlapped, Named, Prefixes, Prefix, CacheWhole, HasWholeTable
<1>8. ReadersFollow'
  <2> SUFFICES ASSUME NEW s \in Readers, reader'[s].id \notin mixed \cup {0}
               PROVE  Following(s)'
    BY <1>2 DEF ReadersFollow
  <2>1. CASE s = r
    <3>1. Following(r) /\ text = given[id]
      BY <1>4, <2>1 DEF RowInv, ReadersFollow, Following, HasWholeTable
    <3>2. \A i \in 1 .. Len(text) : text[i] \in Rows
      BY <1>1, <3>1, ElementOfSeq DEF RowInv, RowTypeOK, Opened
    <3>3. at <= Len(text) => text[at] # Hole
      BY <1>1, <3>2, RowAssumption, SMTT(60)
    <3>4. CASE at > Len(text) /\ next = [reader[r] EXCEPT !.pc = "done"]
      <4>1. next.pc = "done" /\ next.got = got
        BY <3>4 DEF RowInv, RowTypeOK
      <4>2. QED
        BY <1>1, <1>2, <1>4, <2>1, <3>1, <3>4, <4>1 DEF Following, HasWholeTable
    <3>5. CASE /\ at <= Len(text) /\ text[at] # Hole
               /\ next = [reader[r] EXCEPT !.got = Append(got, text[at])]
      <4>1. next.pc = "read" /\ next.got = Append(got, text[at])
        BY <1>1, <3>5 DEF RowInv, RowTypeOK
      <4>2. /\ Len(next.got) = at /\ next.got[at] = text[at]
            /\ \A i \in 1 .. Len(got) : next.got[i] = got[i]
        BY <1>1, <3>2, <3>5, <4>1, AppendProperties, ElementOfSeq DEF Text
      <4>3. \A i \in 1 .. at : next.got[i] = text[i]
        <5>1. \A i \in 1 .. at : i = at \/ i \in 1 .. Len(got)
          BY <1>1
        <5>2. \A i \in 1 .. Len(got) : got[i] = text[i]
          BY <3>1 DEF Following
        <5>3. QED
          BY <4>2, <5>1, <5>2
      <4>4. id = reader'[s].id /\ reader'[s].pc = "read" /\ reader'[s].got = next.got
        BY <1>4, <2>1, <4>1
      <4>5. given' = given /\ content' = content /\ HasWholeTable(id)
        BY <1>2, <3>1 DEF Following
      <4>6. HasWholeTable(reader[s].id)'
        BY <4>4, <4>5 DEF HasWholeTable
      <4>7. Len(text) = Len(given[id]) /\ \A i \in 1 .. at : next.got[i] = given[id][i]
        BY <3>1, <4>3
      <4>8. at <= Len(text) /\ Len(next.got) = at
        BY <3>5, <4>2
      <4> HIDE DEF next, text, at, id
      <4>9. QED
        BY <4>4, <4>5, <4>6, <4>7, <4>8 DEF Following
    <3>6. QED
      BY <1>3, <3>3, <3>4, <3>5
  <2>2. CASE s # r
    <3>1. reader'[s] = reader[s]
      BY <1>2, <2>2
    <3>2. Following(s)
      BY <3>1 DEF RowInv, ReadersFollow
    <3>3. QED
      BY <1>2, <3>1, <3>2 DEF Following, HasWholeTable
  <2>3. QED
    BY <2>1, <2>2
<1>9. QED
  BY <1>5, <1>6, <1>7, <1>8 DEF RowInv

\* One call is at work on an unmixed file at most: it renames its own, whole by then.
LEMMA RenameStep ==
  ASSUME RowInv, NEW c \in Callers, Rename(c)  PROVE RowInv'
<1>1. /\ path' = temporary /\ temporary' = 0 /\ temporary \in Opened
      /\ caller' = [caller EXCEPT ![c] = NoCaller]
      /\ UNCHANGED <<content, reader, given, mixed>>
      /\ c \in AtWork /\ caller[c].at = Len(caller[c].rows)
  BY DEF Rename, AtWork, RowInv, RowTypeOK, Opened
<1>2. AtWork' = AtWork \ {c} /\ \A d \in AtWork' : caller'[d] = caller[d]
  BY <1>1 DEF AtWork, RowInv, RowTypeOK, NoCaller
<1>3. RowTypeOK'
  BY <1>1 DEF RowInv, RowTypeOK, NoCaller, Opened
<1>4. TemporaryIsNew' /\ Overlapped' /\ Named' /\ Prefixes' /\ ReadersFollow'
  BY <1>1, <1>2 DEF RowInv, TemporaryIsNew, Overlapped, Named, Prefixes, Prefix,
                    ReadersFollow, Following, HasWholeTable
<1>5. \A d \in AtWork' : caller[d].id \in mixed
  BY <1>1, <1>2 DEF RowInv, Overlapped
<1>6. Apart'
  BY <1>1, <1>2, <1>5 DEF Apart
<1>7. CacheWhole'
  <2> SUFFICES ASSUME temporary \notin mixed \cup {0}  PROVE HasWholeTable(temporary)
    BY <1>1 DEF CacheWhole, HasWholeTable
  <2> DEFINE text == content[temporary]
             rows == given[temporary]
  <2>1. caller[c].id = temporary /\ Prefix(c)
    BY <1>1 DEF RowInv, Named, Prefixes
  <2>2. /\ text \in Text /\ rows \in Seq(Rows) /\ Len(text) = Len(rows)
        /\ \A i \in 1 .. Len(rows) : text[i] = rows[i] /\ rows[i] # NoRow
    BY <1>1, <2>1, ElementOfSeq DEF Prefix, RowInv, RowTypeOK, Opened
  <2>3. rows \in Text
    BY <2>2, SeqMonotonic DEF Text
  <2>4. text = rows
    BY <2>2, <2>3, SeqEqual DEF Text
  <2>5. DOMAIN rows = 1 .. Len(rows)
    BY <2>2, LenProperties
  <2>6. QED
    BY <2>2, <2>4, <2>5 DEF HasWholeTable
<1>8. QED
  BY <1>3, <1>4, <1>6, <1>7 DEF RowInv

\* A row goes to a file that is mixed, or that only this call has.
LEMMA WriteRowStep ==
  ASSUME RowInv, NEW c \in Callers, WriteRow(c)  PROVE RowInv'
<1> DEFINE id == caller[c].id
           at == caller[c].at + 1
           rows == caller[c].rows
           next == Put(content[id], at, rows[at])
<1>1. /\ id \in Opened /\ rows \in Seq(Rows) /\ at \in 1 .. Len(rows) /\ c \in AtWork
      /\ rows[at] \in Rows /\ rows[at] # NoRow /\ content[id] \in Text
  <2>1. /\ id \in Opened /\ rows \in Seq(Rows) /\ at \in 1 .. Len(rows) /\ c \in AtWork
        /\ rows[at] # NoRow
    BY LenProperties DEF WriteRow, AtWork, RowInv, RowTypeOK, Opened
  <2>2. QED
    BY <2>1, ElementOfSeq DEF RowInv, RowTypeOK, Opened
<1>2. /\ content' = [content EXCEPT ![id] = next]
      /\ caller' = [caller EXCEPT ![c].at = at]
      /\ UNCHANGED <<temporary, path, reader, given, mixed>>
  BY DEF WriteRow
<1>3. /\ caller'[c] = [caller[c] EXCEPT !.at = at]
      /\ \A d \in Callers : d # c => caller'[d] = caller[d]
      /\ AtWork' = AtWork
  BY <1>2 DEF AtWork, RowInv, RowTypeOK
<1>4. next \in Text
  BY <1>1, PutText
<1>5. /\ content' \in Seq(Text) /\ Len(content') = Len(content)
      /\ content'[id] = next
      /\ \A k \in Opened : k # id => content'[k] = content[k]
  BY <1>1, <1>2, <1>4, ExceptSeq DEF RowInv, RowTypeOK, Opened
<1>6. RowTypeOK'
  <2>1. caller'[c] \in [pc : {"idle", "create", "write"}, rows : Seq(Rows),
                        id : 0 .. Len(content), at : Nat]
    <3>1. caller[c] \in [pc : {"idle", "create", "write"}, rows : Seq(Rows),
                         id : 0 .. Len(content), at : Nat]
      BY DEF RowInv, RowTypeOK
    <3>2. at \in Nat
      BY <3>1
    <3>3. QED
      BY <1>3, <3>1, <3>2
  <2>2. QED
    BY <1>1, <1>2, <1>3, <1>5, <2>1, SMTT(60) DEF RowInv, RowTypeOK, AtWork
<1>7. \A d \in AtWork : caller'[d].id = caller[d].id
  <2>1. caller'[c].id = id
    BY <1>3 DEF RowInv, RowTypeOK
  <2>2. QED
    BY <1>3, <2>1 DEF AtWork
<1>8. TemporaryIsNew' /\ Overlapped' /\ Apart' /\ Named'
  BY <1>2, <1>3, <1>7 DEF RowInv, TemporaryIsNew, Overlapped, Apart, Named
<1>9. Prefixes'
  <2> SUFFICES ASSUME NEW d \in AtWork, caller[d].id \notin mixed  PROVE Prefix(d)'
    BY <1>2, <1>3, <1>7 DEF Prefixes
  <2>1. d = c /\ Prefix(c)
    <3>1. d # c => caller[d].id \in mixed
      BY <1>1 DEF RowInv, Overlapped
    <3>2. QED
      BY <3>1 DEF RowInv, Prefixes
  <2>2. Len(content[id]) + 1 = at
    BY <1>1, <2>1 DEF Prefix, RowInv, RowTypeOK
  <2>3. /\ Len(next) = at /\ next[at] = rows[at]
        /\ \A i \in 1 .. Len(content[id]) : next[i] = content[id][i]
    <3>1. at \in Nat \ {0}
      BY <1>1, LenProperties
    <3>2. next = Put(content[id], at, rows[at]) /\ rows[at] \in Rows /\ content[id] \in Text
      BY <1>1
    <3> HIDE DEF next, id, at, rows
    <3>3. at = Len(content[id]) + 1
      BY <2>2
    <3>4. QED
      BY <3>1, <3>2, <3>3, PutText
  <2>4. caller'[c].id = id /\ caller'[c].at = at /\ caller'[c].rows = rows
    BY <1>3 DEF RowInv, RowTypeOK
  <2> HIDE DEF next
  <2>5. \A i \in 1 .. at : next[i] = rows[i] /\ rows[i] # NoRow
    <3>1. \A i \in 1 .. at : i = at \/ i \in 1 .. Len(content[id])
      BY <1>1, <2>2
    <3>2. \A i \in 1 .. Len(content[id]) : content[id][i] = rows[i] /\ rows[i] # NoRow
      BY <2>1 DEF Prefix
    <3>3. QED
      BY <1>1, <2>3, <3>1, <3>2
  <2>6. given[id] = rows
    BY <2>1 DEF Prefix
  <2>7. QED
    BY <1>1, <1>2, <1>5, <2>1, <2>3, <2>4, <2>5, <2>6 DEF Prefix
<1>10. id \in mixed \/ (id # path /\ \A r \in Readers : reader[r].id # id)
  BY <1>1 DEF RowInv, Apart
<1>11. CacheWhole'
  <2> SUFFICES ASSUME path \notin mixed \cup {0}  PROVE HasWholeTable(path)'
    BY <1>2 DEF CacheWhole
  <2>1. HasWholeTable(path) /\ content'[path] = content[path]
    BY <1>5, <1>10 DEF RowInv, CacheWhole, RowTypeOK, Opened
  <2>2. QED
    BY <1>2, <2>1 DEF HasWholeTable
<1>12. ReadersFollow'
  <2> SUFFICES ASSUME NEW r \in Readers, reader[r].id \notin mixed \cup {0}
               PROVE  Following(r)'
    BY <1>2 DEF ReadersFollow
  <2>1. Following(r) /\ content'[reader[r].id] = content[reader[r].id]
    BY <1>5, <1>10, SMTT(60) DEF RowInv, ReadersFollow, RowTypeOK, Opened
  <2>2. QED
    BY <1>2, <2>1 DEF Following, HasWholeTable
<1>13. QED
  BY <1>6, <1>8, <1>9, <1>11, <1>12 DEF RowInv

\* The file that is truncated, or made, was not the cache and no reader has it; it
\* is the caller's own unless another call is at work.
LEMMA CreateStep ==
  ASSUME RowInv, NEW c \in Callers, Create(c)  PROVE RowInv'
<1> DEFINE id == IF temporary = 0 THEN Len(content) + 1 ELSE temporary
           rows == caller[c].rows
<1>1. /\ id \in Nat \ {0} /\ rows \in Seq(Rows) /\ Len(content) \in Nat
      /\ caller[c].at = 0 /\ caller[c].pc = "create" /\ c \notin AtWork
      /\ <<>> \in Text
  BY LenProperties DEF Create, OpenTemporary, AtWork, RowInv, RowTypeOK, Text
<1>2. /\ temporary' = id
      /\ mixed' = IF AtWork = {} THEN mixed \ {id}
                  ELSE mixed \cup {id} \cup {caller[d].id : d \in AtWork}
      /\ caller' = [caller EXCEPT ![c].pc = "write", ![c].id = id]
      /\ UNCHANGED <<path, reader>>
  BY DEF Create, OpenTemporary
<1>3. /\ content' \in Seq(Text) /\ given' \in Seq(Seq(Rows))
      /\ Len(given') = Len(content') /\ Len(content) <= Len(content')
      /\ id \in 1 .. Len(content')
      /\ content'[id] = <<>> /\ given'[id] = rows
      /\ \A k \in Opened : k # id => content'[k] = content[k] /\ given'[k] = given[k]
  <2>1. CASE temporary = 0
    <3>1. /\ content' = Append(content, <<>>) /\ given' = Append(given, rows)
          /\ id = Len(content) + 1
      BY <2>1 DEF Create, OpenTemporary
    <3>2. QED
      BY <1>1, <3>1, AppendProperties DEF RowInv, RowTypeOK, Opened
  <2>2. CASE temporary # 0
    <3>1. /\ content' = [content EXCEPT ![id] = <<>>] /\ given' = [given EXCEPT ![id] = rows]
          /\ id = temporary
      BY <2>2 DEF Create, OpenTemporary
    <3>2. QED
      BY <1>1, <2>2, <3>1, ExceptSeq DEF RowInv, RowTypeOK, Opened
  <2>3. QED
    BY <2>1, <2>2
<1>4. id # path /\ \A r \in Readers : reader[r].id # id
  BY <1>1 DEF RowInv, RowTypeOK, TemporaryIsNew
<1> HIDE DEF id
<1>5. /\ caller'[c].pc = "write" /\ caller'[c].id = id
      /\ caller'[c].at = 0 /\ caller'[c].rows = rows
      /\ \A d \in Callers : d # c => caller'[d] = caller[d]
  BY <1>1, <1>2 DEF RowInv, RowTypeOK
<1>6. AtWork' = AtWork \cup {c} /\ \A d \in AtWork : caller'[d] = caller[d]
  BY <1>1, <1>5 DEF AtWork
<1>7. RowTypeOK'
  <2>1. /\ temporary' \in 0 .. Len(content') /\ path' \in 0 .. Len(content')
        /\ 0 .. Len(content) \subseteq 0 .. Len(content')
    BY <1>1, <1>2, <1>3, LenProperties DEF RowInv, RowTypeOK
  <2>2. reader' \in [Readers -> [pc : {"idle", "read", "done", "refused"},
                                 id : 0 .. Len(content'), got : Text]]
    BY <1>2, <2>1 DEF RowInv, RowTypeOK
  <2>3. caller' \in [Callers -> [pc : {"idle", "create", "write"}, rows : Seq(Rows),
                                 id : 0 .. Len(content'), at : Nat]]
    <3> DEFINE calls(ids) == [pc : {"idle", "create", "write"}, rows : Seq(Rows),
                              id : ids, at : Nat]
    <3>1. \A d \in Callers : caller[d] \in calls(0 .. Len(content'))
      <4>1. caller \in [Callers -> calls(0 .. Len(content))]
        BY DEF RowInv, RowTypeOK
      <4>2. QED
        BY <2>1, <4>1
    <3>2. caller'[c] \in calls(0 .. Len(content')) /\ id \in 0 .. Len(content')
      <4>1. id \in 0 .. Len(content')
        BY <1>3
      <4>2. caller'[c] = [caller[c] EXCEPT !.pc = "write", !.id = id]
        BY <1>2 DEF RowInv, RowTypeOK
      <4>3. QED
        BY <3>1, <4>1, <4>2
    <3>3. caller \in [Callers -> calls(0 .. Len(content))]
      BY DEF RowInv, RowTypeOK
    <3>4. QED
      BY <1>2, <1>5, <3>1, <3>2, <3>3
  <2>4. QED
    BY <1>1, <1>2, <1>3, <1>5, <2>1, <2>2, <2>3 DEF RowInv, RowTypeOK
<1>8. TemporaryIsNew'
  BY <1>2, <1>4 DEF TemporaryIsNew
<1>9. \/ AtWork = {} /\ mixed' = mixed \ {id}
      \/ AtWork # {} /\ mixed \subseteq mixed' /\ \A d \in AtWork' : caller'[d].id \in mixed'
  <2>1. AtWork # {} =>
          mixed \subseteq mixed' /\ id \in mixed' /\ \A d \in AtWork : caller[d].id \in mixed'
    BY <1>2
  <2>2. QED
    BY <1>2, <1>5, <1>6, <2>1
<1>10. Overlapped' /\ Apart' /\ Named'
  BY <1>2, <1>4, <1>5, <1>6, <1>9 DEF Overlapped, Apart, Named
<1>11. Prefixes'
  <2> SUFFICES ASSUME NEW d \in AtWork', caller'[d].id \notin mixed'  PROVE Prefix(d)'
    BY DEF Prefixes
  <2>1. d = c
    BY <1>6, <1>9
  <2>2. Len(rows) \in Nat /\ Len(<<>>) = 0
    BY <1>1, LenProperties
  <2>3. QED
    BY <1>3, <1>5, <2>1, <2>2 DEF Prefix
<1>12. \A k \in Opened : k \notin mixed' \cup {0} /\ k # id => k \notin mixed \cup {0}
  BY <1>9
<1>13. CacheWhole'
  <2> SUFFICES ASSUME path \notin mixed' \cup {0}  PROVE HasWholeTable(path)'
    BY <1>2 DEF CacheWhole
  <2>1. path \in Opened
    BY DEF RowInv, RowTypeOK, Opened
  <2>2. HasWholeTable(path)
    BY <1>4, <1>12, <2>1 DEF RowInv, CacheWhole
  <2>3. QED
    BY <1>2, <1>3, <1>4, <2>1, <2>2 DEF HasWholeTable
<1>14. ReadersFollow'
  <2> SUFFICES ASSUME NEW r \in Readers, reader[r].id \notin mixed' \cup {0}
               PROVE  Following(r)'
    BY <1>2 DEF ReadersFollow
  <2>1. reader[r].id \in Opened /\ reader[r].id # id
    <3>1. reader[r].id \in 0 .. Len(content)
      BY DEF RowInv, RowTypeOK
    <3>2. QED
      BY <1>1, <1>4, <3>1 DEF Opened
  <2>2. Following(r)
    BY <1>12, <2>1 DEF RowInv, ReadersFollow
  <2>3. QED
    BY <1>2, <1>3, <1>4, <2>1, <2>2 DEF Following, HasWholeTable
<1>15. QED
  BY <1>7, <1>8, <1>10, <1>11, <1>13, <1>14 DEF RowInv

LEMMA RowsStay == RowInv /\ UNCHANGED rowVars => RowInv'
BY DEF RowInv, RowTypeOK, TemporaryIsNew, Overlapped, Apart, Named, Prefixes, Prefix, CacheWhole,
       ReadersFollow, Following, HasWholeTable, AtWork, rowVars

LEMMA RowInvHolds == RowInv => RowsAreWhole
<1> SUFFICES ASSUME RowInv  PROVE RowsAreWhole
  OBVIOUS
<1> SUFFICES ASSUME NEW r \in Readers, reader[r].id \notin mixed \cup {0},
                    reader[r].pc = "done"
             PROVE  reader[r].got = given[reader[r].id]
  BY DEF RowInv, RowsAreWhole, CacheWhole, ReadersFollow, Following
<1> DEFINE got == reader[r].got
           rows == given[reader[r].id]
<1>1. got \in Text /\ rows \in Seq(Rows)
  BY ElementOfSeq DEF RowInv, RowTypeOK
<1>2. Len(got) = Len(rows) /\ \A i \in 1 .. Len(got) : got[i] = rows[i]
  BY DEF RowInv, ReadersFollow, Following
<1>3. rows \in Text
  BY <1>1, SeqMonotonic DEF Text
<1>4. QED
  BY <1>1, <1>2, <1>3, SeqEqual DEF Text

(* The cache of rows that has its name is whole and every read of it, however long it  *)
(* takes, returns the rows of one call, unless calls overlapped on the file.           *)
THEOREM RowsAlwaysWhole == RowSpec => []RowsAreWhole
<1>1. RowInit => RowInv
  BY RowsInit
<1>2. RowInv /\ [RowNext]_rowVars => RowInv'
  BY CallStep, CreateStep, WriteRowStep, RenameStep, StopCallStep, OpenCacheStep,
     ReadRowStep, LoseStep, RowsStay DEF RowNext
<1>3. RowInv => RowsAreWhole
  BY RowInvHolds
<1>4. QED
  BY <1>1, <1>2, <1>3, PTL DEF RowSpec

-----------------------------------------------------------------------------
(* Journal.                                                                *)

Places == {<<f>> : f \in Logs} \cup {<<r, Notes>> : r \in Runs}
Ahead(places) == {places[i] : i \in DOMAIN places}

Appending(w) == writer[w].pc \in {"open", "text", "newline"}

Entries == SUBSET (JournalFiles \X Nat)
FileType == [id : Nat, text : Seq(Nat \cup {Newline})]
WriterType == [pc : {"idle", "open", "text", "newline", "promote"}, entry : Nat,
               todo : Places \cup {<<>>}, id : Nat, read : SUBSET Nat]
SearchType == [pc : {"idle", "runs", "read", "done"}, todo : Seq(Logs), found : Entries,
               before : Entries, built : BOOLEAN]

JournalTypeOK ==
  /\ file \in [JournalFiles -> FileType]
  /\ writer \in [Writers -> WriterType]
  /\ search \in [Searches -> SearchType]
  /\ index \in [there : BOOLEAN, entries : Entries]
  /\ snapshot \in [there : BOOLEAN, ideas : SUBSET Nat, promoted : Nat]
  /\ cleaner \in [pc : {"idle", "removing"}, listed : SUBSET Logs,
                  others : SUBSET {"index", "snapshot"}]
  /\ entries \in Nat /\ removals \in Nat
  /\ due \in Entries /\ torn \subseteq JournalFiles /\ removed \subseteq Runs
  /\ \A f \in JournalFiles : file[f].id = 0 => file[f].text = <<>>
  /\ \A w \in Writers : /\ Appending(w) => writer[w].todo \in Places
                        /\ writer[w].pc \in {"text", "newline"} => writer[w].id # 0

\* Every command at work has an entry of its own, and every entry is of a command.
Numbered ==
  /\ \A f \in JournalFiles : Texts(f) \subseteq 1 .. entries
  /\ \A w \in Writers : Appending(w) => writer[w].entry \in 1 .. entries
  /\ \A s \in Searches : \A d \in search[s].before : d[2] <= entries

Distinct == \A v, w \in Writers : v # w /\ Appending(v) /\ Appending(w)
              => writer[v].entry # writer[w].entry

\* The files that the text of w's entry has yet to be written to.
Unwritten(w) == IF writer[w].pc = "newline" THEN Ahead(Tail(writer[w].todo))
                ELSE Ahead(writer[w].todo)

NotYet == \A w \in Writers : Appending(w) =>
            \A f \in Unwritten(w) : writer[w].entry \notin Texts(f)

NotDue == \A w \in Writers : Appending(w) =>
            \A f \in Ahead(writer[w].todo) :
              /\ <<f, writer[w].entry>> \notin due
              /\ \A s \in Searches : <<f, writer[w].entry>> \notin search[s].before

Written == \A w \in Writers, f \in JournalFiles :
             Unended(f, w) => writer[w].entry \in Texts(f)

\* A text at the end of a file that is not torn is of a command about to end it.
Sound(f) ==
  f \notin torn =>
    /\ Readable(f)
    /\ \/ file[f].text = <<>>
       \/ file[f].text[Len(file[f].text)] = Newline
       \/ \E w \in Writers : Unended(f, w)

Dues == \A d \in due : d[2] \in Texts(d[1])

LogInv == /\ Numbered /\ Distinct /\ NotYet /\ NotDue /\ Written /\ Dues
          /\ \A f \in JournalFiles : Sound(f) /\ Once(f)

\* A note comes to the project's log from its run.
NoteInv ==
  removed = {} =>
    /\ NotesAgree
    /\ \A w \in Writers : Appending(w) =>
         /\ Head(writer[w].todo) \in Runs /\ writer[w].pc \in {"text", "newline"}
            => file[Head(writer[w].todo)].id = writer[w].id
         /\ \/ Head(writer[w].todo) = Notes
            \/ Head(writer[w].todo) \in Runs /\ writer[w].pc = "newline"
            => \E r \in Runs : writer[w].entry \in Texts(r)

SnapshotInv ==
  /\ SnapshotIsExact
  /\ cleaner.listed # {} => removals > 0
  /\ removals = 0 => \A w \in Writers : writer[w].pc = "promote"
                                         => writer[w].read \subseteq Texts(Ideas)

\* What a search began with is found, or is in a log it has yet to read, or is gone
\* with its file.
SearchOf(s) ==
  /\ search[s].pc = "runs" => search[s].found = {}
  /\ search[s].pc = "done" /\ search[s].built => search[s].todo = <<>>
  /\ search[s].pc \in {"runs", "read", "done"} /\ search[s].built =>
       \A d \in search[s].before \cap due :
          d \in search[s].found \/ d[1] \in Ahead(search[s].todo)
  /\ search[s].pc \in {"read", "done"} /\ search[s].built =>
       {<<r, 0>> : r \in Runs \ removed} \subseteq search[s].found

SearchInv == \A s \in Searches : SearchOf(s)

JournalInv == JournalTypeOK /\ LogInv /\ NoteInv /\ SnapshotInv /\ SearchInv

LEMMA PlaceFacts ==
  ASSUME NEW p \in Places
  PROVE  /\ Head(p) \in JournalFiles /\ Ahead(p) \subseteq JournalFiles
         /\ Ahead(p) = {Head(p)} \cup Ahead(Tail(p)) /\ Head(p) \notin Ahead(Tail(p))
         /\ \/ Head(p) \in Logs /\ Head(p) \notin Runs /\ Tail(p) = <<>> /\ Ahead(Tail(p)) = {}
            \/ /\ Head(p) \in Runs /\ Head(p) # Notes
               /\ Tail(p) = <<Notes>> /\ Tail(p) \in Places /\ Head(Tail(p)) = Notes
<1>1. CASE \E f \in Logs : p = <<f>>
  <2> PICK f \in Logs : p = <<f>>
    BY <1>1
  <2>1. Head(p) = f /\ Tail(p) = <<>> /\ Ahead(p) = {f} /\ Ahead(<<>>) = {}
    BY DEF Ahead
  <2>2. QED
    BY <2>1, JournalAssumption DEF JournalFiles
<1>2. CASE \E r \in Runs : p = <<r, Notes>>
  <2> PICK r \in Runs : p = <<r, Notes>>
    BY <1>2
  <2>1. Head(p) = r /\ Tail(p) = <<Notes>> /\ Ahead(p) = {r, Notes} /\ Ahead(<<Notes>>) = {Notes}
        /\ Head(<<Notes>>) = Notes
    BY DEF Ahead
  <2>2. <<Notes>> \in Places /\ r # Notes
    BY JournalAssumption DEF Places
  <2>3. QED
    BY <2>1, <2>2, JournalAssumption DEF JournalFiles
<1>3. QED
  BY <1>1, <1>2 DEF Places

\* There is always an identity left.
LEMMA FreshIdIsNew ==
  ASSUME JournalTypeOK
  PROVE  /\ FreshId \in Nat \ {0}
         /\ \A f \in JournalFiles : file[f].id # FreshId
         /\ \A w \in Writers : writer[w].id # FreshId
<1> DEFINE F == {file[f].id : f \in JournalFiles}
           W == {writer[w].id : w \in Writers}
           n == Cardinality(Ids)
<1>1. IsFiniteSet(F)
  <2>1. IsFiniteSet(JournalFiles)
    BY JournalAssumption, FS_Union DEF JournalFiles
  <2>2. [f \in JournalFiles |-> file[f].id] \in Surjection(JournalFiles, F)
    BY DEF Surjection
  <2>3. QED
    BY <2>1, <2>2, FS_Surjection
<1>2. IsFiniteSet(W)
  <2>1. [w \in Writers |-> writer[w].id] \in Surjection(Writers, W)
    BY DEF Surjection
  <2>2. QED
    BY <2>1, FS_Surjection, JournalAssumption
<1>3. IsFiniteSet(Ids) /\ n \in Nat
  BY <1>1, <1>2, FS_Union, FS_CardinalityType DEF Ids
<1>4. Cardinality(1 .. n + 1) = n + 1
  BY <1>3, FS_Interval
<1>5. \E id \in 1 .. n + 1 : id \notin Ids
  <2> SUFFICES ASSUME 1 .. n + 1 \subseteq Ids  PROVE FALSE
    OBVIOUS
  <2>1. Cardinality(1 .. n + 1) <= n
    BY <1>3, FS_Subset
  <2>2. QED
    BY <1>3, <1>4, <2>1
<1>6. FreshId \in 1 .. n + 1 /\ FreshId \notin Ids
  BY <1>5 DEF FreshId
<1>7. QED
  BY <1>3, <1>6 DEF Ids

LEMMA JournalStarts == JournalInit => JournalInv
<1> SUFFICES ASSUME JournalInit  PROVE JournalInv
  OBVIOUS
<1>1. /\ \A f \in JournalFiles : file[f] = NoFile /\ file[f].text = <<>> /\ Texts(f) = {}
      /\ \A w \in Writers : writer[w].pc = "idle" /\ ~ Appending(w)
      /\ \A s \in Searches : search[s] = IdleSearch
  BY DEF JournalInit, NoFile, Idle, Texts, Appending
<1>2. JournalTypeOK
  <2>1. NoFile \in FileType /\ Idle \in WriterType /\ IdleSearch \in SearchType
    BY DEF NoFile, Idle, IdleSearch, FileType, WriterType, SearchType, Entries
  <2>2. QED
    BY <1>1, <2>1 DEF JournalInit, JournalTypeOK, NoIndex, NoSnapshot, NoClean, Entries
<1>3. LogInv
  <2>1. Numbered /\ Distinct /\ NotYet /\ NotDue /\ Written /\ Dues
    BY <1>1 DEF JournalInit, Numbered, Distinct, NotYet, NotDue, Written, Dues, Unended,
               IdleSearch
  <2>2. \A f \in JournalFiles : Sound(f) /\ Once(f)
    BY <1>1 DEF Sound, Once, Readable
  <2>3. QED
    BY <2>1, <2>2 DEF LogInv
<1>4. NoteInv
  <2>1. Notes \in JournalFiles
    BY JournalAssumption DEF JournalFiles
  <2>2. QED
    BY <1>1, <2>1 DEF NoteInv, NotesAgree
<1>5. SnapshotInv /\ SearchInv
  BY <1>1 DEF JournalInit, SnapshotInv, SnapshotIsExact, SearchInv, SearchOf, NoSnapshot, NoClean,
              IdleSearch
<1>6. QED
  BY <1>2, <1>3, <1>4, <1>5 DEF JournalInv

\* What a step may do to the files: make one, append to one, or remove one.
FilesStep ==
  \/ UNCHANGED file
  \/ \E f \in JournalFiles, t \in FileType :
       /\ file' = [file EXCEPT ![f] = t]
       /\ t.id = 0 => t.text = <<>>

LEMMA FilesTypeStep ==
  ASSUME JournalTypeOK, FilesStep
  PROVE  /\ file' \in [JournalFiles -> FileType]
         /\ \A f \in JournalFiles : file'[f].id = 0 => file'[f].text = <<>>
BY DEF JournalTypeOK, FilesStep

LEMMA WritersTypeStep ==
  ASSUME JournalTypeOK, NEW w \in Writers, NEW next \in WriterType,
         writer' = [writer EXCEPT ![w] = next],
         next.pc \in {"open", "text", "newline"} => next.todo \in Places,
         next.pc \in {"text", "newline"} => next.id # 0
  PROVE  /\ writer' \in [Writers -> WriterType]
         /\ \A v \in Writers : /\ Appending(v)' => writer'[v].todo \in Places
                               /\ writer'[v].pc \in {"text", "newline"} => writer'[v].id # 0
BY DEF JournalTypeOK, Appending

LEMMA StartStep ==
  ASSUME JournalTypeOK, NEW w \in Writers, NEW places \in Places, Start(w, places)
  PROVE  JournalTypeOK'
<1> DEFINE next == [Idle EXCEPT !.pc = "open", !.entry = entries + 1, !.todo = places]
<1>1. next \in WriterType /\ next.todo \in Places /\ next.pc = "open"
  <2>1. Idle \in WriterType
    BY DEF Idle, WriterType
  <2>2. entries + 1 \in Nat
    BY DEF JournalTypeOK
  <2>3. QED
    BY <2>1, <2>2 DEF WriterType
<1>2. writer' = [writer EXCEPT ![w] = next]
  BY DEF Start
<1>3. /\ writer' \in [Writers -> WriterType]
      /\ \A v \in Writers : /\ Appending(v)' => writer'[v].todo \in Places
                            /\ writer'[v].pc \in {"text", "newline"} => writer'[v].id # 0
  BY <1>1, <1>2, WritersTypeStep
<1>4. QED
  BY <1>3 DEF Start, JournalTypeOK

LEMMA OpenTypeStep ==
  ASSUME JournalTypeOK, NEW w \in Writers, Open(w)  PROVE JournalTypeOK'
<1> DEFINE f == Head(writer[w].todo)
           new == [file[f] EXCEPT !.id = FreshId]
           next == [writer[w] EXCEPT !.pc = "text", !.id = file'[f].id]
<1>1. f \in JournalFiles /\ writer[w].todo \in Places /\ writer[w] \in WriterType
  BY PlaceFacts DEF JournalTypeOK, Open, Appending
<1>2. new \in FileType /\ new.id # 0 /\ file[f] \in FileType
  BY <1>1, FreshIdIsNew, ZenonT(60) DEF JournalTypeOK, FileType
<1>3. FilesStep /\ file'[f].id \in Nat \ {0}
  <2>1. CASE file[f] = NoFile
    <3>1. file' = [file EXCEPT ![f] = new]
      BY <2>1 DEF Open, JournalTypeOK
    <3>2. file'[f] = new
      BY <1>1, <3>1 DEF JournalTypeOK
    <3>3. QED
      BY <1>1, <1>2, <3>1, <3>2 DEF FilesStep, FileType
  <2>2. CASE file[f] # NoFile
    <3>1. file' = file
      BY <2>2 DEF Open
    <3>2. file[f].id # 0
      BY <1>1, <1>2, <2>2 DEF JournalTypeOK, NoFile, FileType
    <3>3. QED
      BY <1>2, <3>1, <3>2 DEF FilesStep, FileType
  <2>3. QED
    BY <2>1, <2>2
<1>4. /\ next \in WriterType /\ next.todo \in Places /\ next.id # 0
      /\ writer' = [writer EXCEPT ![w] = next]
  <2>1. writer' = [writer EXCEPT ![w] = next]
    BY DEF Open, JournalTypeOK
  <2>2. file'[f].id \in Nat \ {0}
    BY <1>3
  <2>3. QED
    BY <1>1, <2>1, <2>2 DEF WriterType
<1>5. /\ writer' \in [Writers -> WriterType]
      /\ \A v \in Writers : /\ Appending(v)' => writer'[v].todo \in Places
                            /\ writer'[v].pc \in {"text", "newline"} => writer'[v].id # 0
  BY <1>4, WritersTypeStep
<1>6. /\ file' \in [JournalFiles -> FileType]
      /\ \A g \in JournalFiles : file'[g].id = 0 => file'[g].text = <<>>
  BY <1>3, FilesTypeStep
<1>7. QED
  BY <1>5, <1>6 DEF Open, JournalTypeOK

LEMMA WriteFilesStep ==
  ASSUME JournalTypeOK, NEW w \in Writers, NEW piece \in Nat \cup {Newline}, Write(w, piece),
         writer[w].pc \in {"text", "newline"}
  PROVE  FilesStep
<1> DEFINE f == Head(writer[w].todo)
           next == [file[f] EXCEPT !.text = Append(file[f].text, piece)]
<1>1. f \in JournalFiles /\ file[f] \in FileType /\ writer[w].id # 0
  BY PlaceFacts DEF JournalTypeOK, Appending
<1>2. next \in FileType /\ next.id = file[f].id
  BY <1>1, AppendProperties DEF FileType
<1>3. CASE file[f].id = writer[w].id
  <2>1. file' = [file EXCEPT ![f] = next]
    BY <1>3 DEF Write, JournalTypeOK
  <2>2. QED
    BY <1>1, <1>2, <1>3, <2>1 DEF FilesStep
<1>4. CASE file[f].id # writer[w].id
  BY <1>4 DEF Write, FilesStep
<1>5. QED
  BY <1>3, <1>4

LEMMA WriteTextTypeStep ==
  ASSUME JournalTypeOK, NEW w \in Writers, WriteText(w)  PROVE JournalTypeOK'
<1> DEFINE next == [writer[w] EXCEPT !.pc = "newline"]
<1>1. /\ Head(writer[w].todo) \in JournalFiles /\ writer[w] \in WriterType
      /\ writer[w].todo \in Places /\ writer[w].entry \in Nat /\ writer[w].id # 0
  BY PlaceFacts DEF JournalTypeOK, WriteText, Appending, WriterType
<1>2. FilesStep
  BY <1>1, WriteFilesStep DEF WriteText
<1>3. /\ next \in WriterType /\ next.todo \in Places /\ next.id # 0
      /\ writer' = [writer EXCEPT ![w] = next]
  BY <1>1 DEF WriterType, WriteText, JournalTypeOK
<1>4. /\ writer' \in [Writers -> WriterType]
      /\ \A v \in Writers : /\ Appending(v)' => writer'[v].todo \in Places
                            /\ writer'[v].pc \in {"text", "newline"} => writer'[v].id # 0
  BY <1>3, WritersTypeStep
<1>5. /\ file' \in [JournalFiles -> FileType]
      /\ \A g \in JournalFiles : file'[g].id = 0 => file'[g].text = <<>>
  BY <1>2, FilesTypeStep
<1>6. QED
  BY <1>1, <1>4, <1>5 DEF WriteText, JournalTypeOK

LEMMA WriteNewlineTypeStep ==
  ASSUME JournalTypeOK, NEW w \in Writers, WriteNewline(w)  PROVE JournalTypeOK'
<1> DEFINE f == Head(writer[w].todo)
           left == Tail(writer[w].todo)
           next == IF left = <<>> THEN Idle ELSE [writer[w] EXCEPT !.pc = "open", !.todo = left]
<1>1. /\ f \in JournalFiles /\ writer[w] \in WriterType
      /\ writer[w].entry \in Nat
      /\ left = <<>> \/ left \in Places
  BY PlaceFacts DEF JournalTypeOK, WriteNewline, Appending, WriterType
<1>2. FilesStep
  BY WriteFilesStep DEF WriteNewline
<1>3. /\ next \in WriterType /\ next.pc \in {"idle", "open"}
      /\ next.pc = "open" => next.todo \in Places
  BY <1>1 DEF WriterType, Idle
<1>4. writer' = [writer EXCEPT ![w] = next]
  BY DEF WriteNewline, JournalTypeOK
<1>5. /\ writer' \in [Writers -> WriterType]
      /\ \A v \in Writers : /\ Appending(v)' => writer'[v].todo \in Places
                            /\ writer'[v].pc \in {"text", "newline"} => writer'[v].id # 0
  BY <1>3, <1>4, WritersTypeStep
<1>6. /\ file' \in [JournalFiles -> FileType]
      /\ \A g \in JournalFiles : file'[g].id = 0 => file'[g].text = <<>>
  BY <1>2, FilesTypeStep
<1>7. due' \in Entries
  <2> HIDE DEF f, left, next
  <2>1. <<f, writer[w].entry>> \in JournalFiles \X Nat
    BY <1>1
  <2>2. due' = due \/ due' = due \cup {<<f, writer[w].entry>>}
    BY DEF WriteNewline, f
  <2>3. QED
    BY <2>1, <2>2 DEF JournalTypeOK, Entries
<1>8. QED
  BY <1>5, <1>6, <1>7 DEF WriteNewline, JournalTypeOK

LEMMA PromotionTypeStep ==
  ASSUME JournalTypeOK, NEW w \in Writers,
         (\E idea \in 1 .. MaxEntries : ReadIdeas(w, idea)) \/ WriteSnapshot(w) \/ StopWriting(w)
  PROVE  JournalTypeOK'
<1>1. Idle \in WriterType
  BY DEF Idle, WriterType
<1>2. ASSUME NEW idea \in 1 .. MaxEntries, ReadIdeas(w, idea)  PROVE JournalTypeOK'
  <2> DEFINE next == [Idle EXCEPT !.pc = "promote", !.entry = idea, !.read = Texts(Ideas)]
  <2>1. Texts(Ideas) \subseteq Nat
    <3>1. file[Ideas].text \in Seq(Nat \cup {Newline})
      BY JournalAssumption DEF JournalTypeOK, FileType, JournalFiles
    <3>2. QED
      BY <3>1, ElementOfSeq, LenProperties DEF Texts
  <2>2. next \in WriterType /\ next.pc = "promote"
    <3>1. idea \in Nat
      OBVIOUS
    <3>2. QED
      BY <1>1, <2>1, <3>1 DEF WriterType
  <2>3. writer' = [writer EXCEPT ![w] = next]
    BY <1>2 DEF ReadIdeas
  <2>4. /\ writer' \in [Writers -> WriterType]
        /\ \A v \in Writers : /\ Appending(v)' => writer'[v].todo \in Places
                              /\ writer'[v].pc \in {"text", "newline"} => writer'[v].id # 0
    BY <2>2, <2>3, WritersTypeStep
  <2>5. /\ entries' = entries + 1
        /\ UNCHANGED <<file, search, index, snapshot, cleaner, removals, due, torn, removed>>
    BY <1>2 DEF ReadIdeas
  <2> HIDE DEF next
  <2>6. QED
    BY <2>4, <2>5 DEF JournalTypeOK
<1>3. CASE WriteSnapshot(w) \/ StopWriting(w)
  <2>1. writer' = [writer EXCEPT ![w] = Idle] /\ Idle.pc = "idle"
    BY <1>3 DEF WriteSnapshot, StopWriting, Idle
  <2>2. /\ writer' \in [Writers -> WriterType]
        /\ \A v \in Writers : /\ Appending(v)' => writer'[v].todo \in Places
                              /\ writer'[v].pc \in {"text", "newline"} => writer'[v].id # 0
    BY <1>1, <2>1, WritersTypeStep
  <2>3. CASE WriteSnapshot(w)
    <3>1. writer[w].read \in SUBSET Nat /\ writer[w].entry \in Nat
      BY DEF JournalTypeOK, WriterType
    <3>2. snapshot' \in [there : BOOLEAN, ideas : SUBSET Nat, promoted : Nat]
      BY <2>3, <3>1 DEF WriteSnapshot
    <3>3. QED
      BY <2>2, <2>3, <3>2 DEF WriteSnapshot, JournalTypeOK
  <2>4. CASE StopWriting(w)
    <3>1. torn' \subseteq JournalFiles
      BY <2>4, PlaceFacts DEF StopWriting, JournalTypeOK, Unended, Appending
    <3>2. QED
      BY <2>2, <2>4, <3>1 DEF StopWriting, JournalTypeOK
  <2>5. QED
    BY <1>3, <2>3, <2>4
<1>4. QED
  BY <1>2, <1>3

LEMMA ForgetTypeStep ==
  ASSUME JournalTypeOK, NEW f \in JournalFiles, Forget(f)
  PROVE  /\ file' \in [JournalFiles -> FileType] /\ due' \in Entries /\ torn' \subseteq JournalFiles
         /\ \A g \in JournalFiles : file'[g].id = 0 => file'[g].text = <<>>
<1>1. NoFile \in FileType /\ NoFile.text = <<>>
  BY DEF NoFile, FileType
<1>2. QED
  BY <1>1, FilesTypeStep DEF Forget, FilesStep, JournalTypeOK, Entries

LEMMA RemovalTypeStep ==
  ASSUME JournalTypeOK,
         \/ BeginClean \/ CleanIndex \/ CleanSnapshot \/ EndClean
         \/ \E f \in Logs : CleanLog(f)
         \/ \E r \in Runs : RemoveRun(r)
  PROVE  JournalTypeOK'
<1> UNCHANGED <<writer, search, entries>>
  BY DEF BeginClean, CleanIndex, CleanSnapshot, EndClean, CleanLog, RemoveRun
<1> UNCHANGED <<\A w \in Writers : Appending(w) => writer[w].todo \in Places>>
  BY DEF Appending
<1>1. CASE BeginClean \/ CleanIndex \/ CleanSnapshot \/ EndClean
  <2>1. UNCHANGED <<file, due, torn, removed>>
    BY <1>1 DEF BeginClean, CleanIndex, CleanSnapshot, EndClean
  <2>2. cleaner' \in [pc : {"idle", "removing"}, listed : SUBSET Logs,
                      others : SUBSET {"index", "snapshot"}]
    BY <1>1 DEF BeginClean, CleanIndex, CleanSnapshot, EndClean, NoClean, JournalTypeOK
  <2>3. /\ index' \in [there : BOOLEAN, entries : Entries]
        /\ snapshot' \in [there : BOOLEAN, ideas : SUBSET Nat, promoted : Nat]
        /\ removals' \in Nat
    <3>1. /\ NoIndex \in [there : BOOLEAN, entries : Entries]
          /\ NoSnapshot \in [there : BOOLEAN, ideas : SUBSET Nat, promoted : Nat]
      BY DEF NoIndex, NoSnapshot, Entries
    <3>2. /\ index' = index \/ index' = NoIndex
          /\ snapshot' = snapshot \/ snapshot' = NoSnapshot
          /\ removals' = removals \/ removals' = removals + 1
      BY <1>1 DEF BeginClean, CleanIndex, CleanSnapshot, EndClean
    <3>3. QED
      BY <3>1, <3>2 DEF JournalTypeOK
  <2>4. QED
    BY <2>1, <2>2, <2>3 DEF JournalTypeOK, Appending
<1>2. ASSUME NEW f \in Logs, CleanLog(f)  PROVE JournalTypeOK'
  <2>1. /\ file' \in [JournalFiles -> FileType] /\ due' \in Entries /\ torn' \subseteq JournalFiles
        /\ \A g \in JournalFiles : file'[g].id = 0 => file'[g].text = <<>>
    BY <1>2, ForgetTypeStep DEF CleanLog, JournalFiles
  <2>2. cleaner' \in [pc : {"idle", "removing"}, listed : SUBSET Logs,
                      others : SUBSET {"index", "snapshot"}]
    BY <1>2 DEF CleanLog, JournalTypeOK
  <2>3. QED
    BY <1>2, <2>1, <2>2 DEF CleanLog, JournalTypeOK, Appending
<1>3. ASSUME NEW r \in Runs, RemoveRun(r)  PROVE JournalTypeOK'
  <2>1. /\ file' \in [JournalFiles -> FileType] /\ due' \in Entries /\ torn' \subseteq JournalFiles
        /\ \A g \in JournalFiles : file'[g].id = 0 => file'[g].text = <<>>
    BY <1>3, ForgetTypeStep DEF RemoveRun, JournalFiles
  <2>2. QED
    BY <1>3, <2>1 DEF RemoveRun, JournalTypeOK, Appending
<1>4. QED
  BY <1>1, <1>2, <1>3

LEMMA SearchTypeStep ==
  ASSUME JournalTypeOK, NEW s \in Searches,
         BeginSearch(s) \/ ReadRuns(s) \/ ReadLog(s) \/ SearchError(s) \/ WriteIndex(s)
         \/ EndSearch(s)
  PROVE  JournalTypeOK'
<1> DEFINE indexed == [IdleSearch EXCEPT !.pc = "done", !.found = index.entries]
           begun == [IdleSearch EXCEPT !.pc = "runs", !.todo = ReadingOrder,
                                       !.before = {d \in due : d[1] \in Searched},
                                       !.built = TRUE]
           looked == [search[s] EXCEPT !.pc = "read",
                                       !.found = {<<r, 0>> : r \in Runs \ removed}]
           f == Head(search[s].todo)
           red == [search[s] EXCEPT !.todo = Tail(search[s].todo),
                     !.found = search[s].found \cup {<<f, e>> : e \in Texts(f)}]
           ended == [search[s] EXCEPT !.pc = "done"]
<1>1. IdleSearch \in SearchType /\ search[s] \in SearchType
  BY DEF IdleSearch, SearchType, Entries, JournalTypeOK
<1>2. /\ UNCHANGED <<file, writer, snapshot, cleaner, entries, removals, due, torn, removed>>
      /\ index' \in [there : BOOLEAN, entries : Entries]
  <2>1. search[s].found \in Entries
    BY <1>1 DEF SearchType
  <2>2. index' = index \/ index' = [there |-> TRUE, entries |-> search[s].found]
    BY DEF BeginSearch, ReadRuns, ReadLog, SearchError, WriteIndex, EndSearch
  <2>3. UNCHANGED <<file, writer, snapshot, cleaner, entries, removals, due, torn, removed>>
    BY DEF BeginSearch, ReadRuns, ReadLog, SearchError, WriteIndex, EndSearch
  <2>4. index \in [there : BOOLEAN, entries : Entries]
    BY DEF JournalTypeOK
  <2>5. [there |-> TRUE, entries |-> search[s].found] \in [there : BOOLEAN, entries : Entries]
    BY <2>1
  <2>6. index' \in [there : BOOLEAN, entries : Entries]
    BY <2>2, <2>4, <2>5
  <2>7. QED
    BY <2>3, <2>6
<1>3. search' \in [Searches -> SearchType]
  <2>1. CASE BeginSearch(s)
    <3>1. indexed \in SearchType
      BY <1>1 DEF SearchType, JournalTypeOK
    <3>2. begun \in SearchType
      <4>1. {d \in due : d[1] \in Searched} \in Entries
        BY DEF JournalTypeOK, Entries
      <4>2. QED
        BY <1>1, <4>1, JournalAssumption DEF SearchType
    <3>3. search' = [search EXCEPT ![s] = indexed] \/ search' = [search EXCEPT ![s] = begun]
      BY <2>1 DEF BeginSearch
    <3>4. QED
      BY <3>1, <3>2, <3>3 DEF JournalTypeOK
  <2>2. CASE ReadRuns(s)
    <3>1. {<<r, 0>> : r \in Runs \ removed} \in Entries
      BY DEF Entries, JournalFiles
    <3>2. looked \in SearchType
      BY <1>1, <3>1 DEF SearchType
    <3>3. search' = [search EXCEPT ![s] = looked]
      BY <2>2 DEF ReadRuns, JournalTypeOK
    <3>4. QED
      BY <3>2, <3>3 DEF JournalTypeOK
  <2>3. CASE ReadLog(s)
    <3>1. search[s].todo \in Seq(Logs) /\ search[s].todo # <<>>
      BY <1>1, <2>3 DEF SearchType, ReadLog
    <3>2. f \in Logs /\ Tail(search[s].todo) \in Seq(Logs)
      BY <3>1, HeadTailProperties
    <3>3. Texts(f) \subseteq Nat
      <4>1. file[f].text \in Seq(Nat \cup {Newline})
        BY <3>2 DEF JournalTypeOK, FileType, JournalFiles
      <4>2. QED
        BY <4>1, ElementOfSeq, LenProperties DEF Texts
    <3>4. search[s].found \cup {<<f, e>> : e \in Texts(f)} \in Entries
      BY <1>1, <3>2, <3>3 DEF Entries, JournalFiles, SearchType
    <3>5. red \in SearchType
      BY <1>1, <3>2, <3>4 DEF SearchType
    <3>6. search' = [search EXCEPT ![s] = red]
      BY <2>3 DEF ReadLog, JournalTypeOK
    <3>7. QED
      BY <3>5, <3>6 DEF JournalTypeOK
  <2>4. CASE SearchError(s) \/ EndSearch(s)
    BY <1>1, <2>4 DEF SearchError, EndSearch, JournalTypeOK
  <2>5. CASE WriteIndex(s)
    <3>1. ended \in SearchType
      BY <1>1 DEF SearchType
    <3>2. search' = [search EXCEPT ![s] = ended]
      BY <2>5 DEF WriteIndex, JournalTypeOK
    <3>3. QED
      BY <3>1, <3>2 DEF JournalTypeOK
  <2>6. QED
    BY <2>1, <2>2, <2>3, <2>4, <2>5
<1>4. QED
  BY <1>2, <1>3 DEF JournalTypeOK, Appending

LEMMA JournalTypeStep == JournalTypeOK /\ [JournalNext]_journalVars => JournalTypeOK'
<1> SUFFICES ASSUME JournalTypeOK, [JournalNext]_journalVars  PROVE JournalTypeOK'
  OBVIOUS
<1>1. ASSUME NEW w \in Writers, NEW r \in Runs, AddNote(w, r)  PROVE JournalTypeOK'
  <2>1. NotePlaces(r) \in Places
    BY DEF NotePlaces, Places
  <2>2. QED
    BY <1>1, <2>1, StartStep DEF AddNote
<1>2. ASSUME NEW w \in Writers, NEW log \in Logs, Add(w, log)  PROVE JournalTypeOK'
  <2>1. <<log>> \in Places
    BY DEF Places
  <2>2. QED
    BY <1>2, <2>1, StartStep DEF Add
<1>3. CASE UNCHANGED journalVars
  BY <1>3 DEF journalVars, JournalTypeOK, Appending
<1>4. QED
  BY <1>1, <1>2, <1>3, OpenTypeStep, WriteTextTypeStep, WriteNewlineTypeStep, PromotionTypeStep,
     RemovalTypeStep, SearchTypeStep DEF JournalNext, JournalCommand

\* What an append does to the texts of a file.
LEMMA TextsOfAppend ==
  ASSUME NEW f \in JournalFiles, NEW piece \in Nat \cup {Newline}, JournalTypeOK,
         file' = [file EXCEPT ![f].text = Append(@, piece)]
  PROVE  /\ Texts(f)' = Texts(f) \cup ({piece} \ {Newline})
         /\ file'[f].text = Append(file[f].text, piece) /\ file'[f].id = file[f].id
         /\ file'[f].text # <<>> /\ file'[f].text[Len(file'[f].text)] = piece
         /\ Len(file'[f].text) = Len(file[f].text) + 1
         /\ \A i \in 1 .. Len(file[f].text) : file'[f].text[i] = file[f].text[i]
         /\ \A g \in JournalFiles : g # f => file'[g] = file[g] /\ Texts(g)' = Texts(g)
<1> DEFINE text == file[f].text
           next == Append(text, piece)
<1>1. text \in Seq(Nat \cup {Newline}) /\ Len(text) \in Nat /\ DOMAIN text = 1 .. Len(text)
  <2>1. text \in Seq(Nat \cup {Newline})
    BY DEF JournalTypeOK, FileType
  <2>2. QED
    BY <2>1, LenProperties
<1>2. /\ file'[f].text = next /\ file'[f].id = file[f].id
      /\ \A g \in JournalFiles : g # f => file'[g] = file[g]
  BY DEF JournalTypeOK, FileType
<1>3. /\ next \in Seq(Nat \cup {Newline}) /\ Len(next) = Len(text) + 1
      /\ next[Len(text) + 1] = piece /\ next # <<>>
      /\ \A i \in 1 .. Len(text) : next[i] = text[i]
      /\ DOMAIN next = 1 .. Len(text) + 1
  BY <1>1, AppendProperties, LenProperties
<1> HIDE DEF next, text
<1>4. {next[i] : i \in DOMAIN next} = {text[i] : i \in DOMAIN text} \cup {piece}
  <2>1. DOMAIN next = (DOMAIN text) \cup {Len(text) + 1}
    BY <1>1, <1>3
  <2>2. QED
    BY <1>1, <1>3, <2>1
<1>5. /\ Texts(f)' = {next[i] : i \in DOMAIN next} \ {Newline}
      /\ Texts(f) = {text[i] : i \in DOMAIN text} \ {Newline}
  BY <1>2 DEF Texts, text
<1>6. Texts(f)' = Texts(f) \cup ({piece} \ {Newline})
  BY <1>4, <1>5
<1>7. \A g \in JournalFiles : g # f => file'[g] = file[g] /\ Texts(g)' = Texts(g)
  BY <1>2 DEF Texts
<1>8. QED
  BY <1>2, <1>3, <1>6, <1>7 DEF text

LEMMA UnwrittenAreFiles ==
  JournalTypeOK => \A v \in Writers : Appending(v) => Unwritten(v) \subseteq JournalFiles
BY PlaceFacts DEF Unwritten, JournalTypeOK

\* A step that leaves the files and those that append to them as they are.
LEMMA LogsUntouched ==
  ASSUME JournalTypeOK, LogInv, UNCHANGED <<file, writer, due, torn, entries>>,
         \A s \in Searches : search'[s].before \subseteq search[s].before \cup due
  PROVE  LogInv'
<1>1. \A f \in JournalFiles : Texts(f)' = Texts(f) /\ Readable(f)' = Readable(f) /\ Once(f)' = Once(f)
  BY DEF Texts, Readable, Once
<1>2. \A w \in Writers : /\ Appending(w)' = Appending(w) /\ Unwritten(w)' = Unwritten(w)
                         /\ \A f \in JournalFiles : Unended(f, w)' = Unended(f, w)
  BY DEF Appending, Unwritten, Unended, Ahead
<1>3. \A d \in due : d[2] <= entries
  BY DEF LogInv, Dues, Numbered, JournalTypeOK, Entries
<1>4. Numbered'
  BY <1>1, <1>2, <1>3 DEF LogInv, Numbered
<1>5. Distinct' /\ Dues'
  BY <1>1, <1>2 DEF LogInv, Distinct, Dues, JournalTypeOK, Entries
<1>6. NotYet'
  BY <1>1, <1>2, UnwrittenAreFiles DEF LogInv, NotYet
<1>7. NotDue'
  BY <1>2 DEF LogInv, NotDue
<1>8. Written'
  BY <1>1, <1>2 DEF LogInv, Written
<1>9. \A f \in JournalFiles : Sound(f)' /\ Once(f)'
  BY <1>1, <1>2 DEF LogInv, Sound
<1>10. QED
  BY <1>4, <1>5, <1>6, <1>7, <1>8, <1>9 DEF LogInv

\* A command that stops appending, or one that never did.
LEMMA WriterLeaves ==
  ASSUME JournalTypeOK, LogInv, NEW w \in Writers, NEW next \in WriterType,
         next.pc \in {"idle", "promote"},
         writer' = [writer EXCEPT ![w] = next], UNCHANGED <<file, search, due>>,
         torn \subseteq torn', \A f \in JournalFiles : Unended(f, w) => f \in torn',
         entries' \in Nat, entries <= entries'
  PROVE  LogInv'
<1>1. \A f \in JournalFiles : Texts(f)' = Texts(f) /\ Readable(f)' = Readable(f) /\ Once(f)' = Once(f)
  BY DEF Texts, Readable, Once
<1>2. ~ Appending(w)' /\ \A f \in JournalFiles : ~ Unended(f, w)'
  BY DEF Appending, Unended, JournalTypeOK
<1>3. \A v \in Writers : v # w =>
        /\ writer'[v] = writer[v] /\ Appending(v)' = Appending(v) /\ Unwritten(v)' = Unwritten(v)
        /\ \A f \in JournalFiles : Unended(f, v)' = Unended(f, v)
  BY ZenonT(60) DEF Appending, Unwritten, Unended, Ahead, JournalTypeOK
<1>4. Numbered'
  <2>1. \A n \in 1 .. entries : n \in 1 .. entries'
    BY DEF JournalTypeOK
  <2>2. \A s \in Searches : \A d \in search[s].before : d[2] \in Nat
    BY DEF JournalTypeOK, SearchType, Entries
  <2>3. \A s \in Searches : \A d \in search'[s].before : d[2] <= entries'
    BY <2>2 DEF LogInv, Numbered, JournalTypeOK
  <2>4. QED
    BY <1>1, <1>2, <1>3, <2>1, <2>3 DEF LogInv, Numbered
<1>5. Distinct' /\ Dues'
  BY <1>1, <1>2, <1>3 DEF LogInv, Distinct, Dues, JournalTypeOK, Entries
<1>6. NotYet'
  BY <1>1, <1>2, <1>3, UnwrittenAreFiles DEF LogInv, NotYet
<1>7. NotDue'
  BY <1>2, <1>3 DEF LogInv, NotDue
<1>8. Written'
  BY <1>1, <1>2, <1>3 DEF LogInv, Written
<1>9. \A f \in JournalFiles : Sound(f)' /\ Once(f)'
  BY <1>1, <1>2, <1>3 DEF LogInv, Sound
<1>10. QED
  BY <1>4, <1>5, <1>6, <1>7, <1>8, <1>9 DEF LogInv

LEMMA LogStart ==
  ASSUME JournalTypeOK, LogInv, NEW w \in Writers, NEW places \in Places, Start(w, places)
  PROVE  LogInv'
<1>1. \A f \in JournalFiles : Texts(f)' = Texts(f) /\ Readable(f)' = Readable(f) /\ Once(f)' = Once(f)
  BY DEF Start, Texts, Readable, Once
<1>2. /\ writer'[w].pc = "open" /\ writer'[w].entry = entries + 1 /\ writer'[w].todo = places
      /\ entries' = entries + 1 /\ entries \in Nat
      /\ UNCHANGED <<file, search, due, torn>> /\ writer[w].pc = "idle"
  BY DEF Start, Idle, JournalTypeOK
<1>3. \A v \in Writers : v # w =>
        /\ writer'[v] = writer[v] /\ Appending(v)' = Appending(v) /\ Unwritten(v)' = Unwritten(v)
        /\ \A f \in JournalFiles : Unended(f, v)' = Unended(f, v)
  BY ZenonT(60) DEF Start, Appending, Unwritten, Unended, Ahead, JournalTypeOK
<1>4. \A f \in JournalFiles : ~ Unended(f, w) /\ ~ Unended(f, w)'
  BY <1>2 DEF Unended
<1>5. \A d \in due : d[2] <= entries
  BY DEF LogInv, Dues, Numbered, JournalTypeOK, Entries
<1>6. Numbered'
  <2>1. \A s \in Searches : \A d \in search[s].before : d[2] \in Nat
    BY DEF JournalTypeOK, SearchType, Entries
  <2>2. \A s \in Searches : \A d \in search'[s].before : d[2] <= entries'
    BY <1>2, <2>1 DEF LogInv, Numbered
  <2>3. QED
    BY <1>1, <1>2, <1>3, <2>2 DEF LogInv, Numbered
<1>7. Distinct'
  <2>1. \A v \in Writers : v # w /\ Appending(v)' => writer'[v].entry # entries + 1
    BY <1>2, <1>3 DEF LogInv, Numbered
  <2>2. QED
    BY <1>2, <1>3, <2>1 DEF LogInv, Distinct
<1>8. NotYet'
  <2>1. \A f \in JournalFiles : entries + 1 \notin Texts(f)
    BY <1>2 DEF LogInv, Numbered
  <2>2. Unwritten(w)' \subseteq JournalFiles
    BY <1>2, PlaceFacts DEF Unwritten
  <2>3. QED
    BY <1>1, <1>2, <1>3, <2>1, <2>2, UnwrittenAreFiles DEF LogInv, NotYet
<1>9. NotDue'
  <2>1. \A f : <<f, entries + 1>> \notin due
    BY <1>2, <1>5
  <2>2. \A f : \A s \in Searches : <<f, entries + 1>> \notin search[s].before
    BY <1>2 DEF LogInv, Numbered
  <2>3. QED
    BY <1>2, <1>3, <2>1, <2>2 DEF LogInv, NotDue
<1>10. Written'
  BY <1>1, <1>3, <1>4 DEF LogInv, Written
<1>11. Dues'
  BY <1>1, <1>2 DEF LogInv, Dues, JournalTypeOK, Entries
<1>12. \A f \in JournalFiles : Sound(f)' /\ Once(f)'
  BY <1>1, <1>2, <1>3, <1>4 DEF LogInv, Sound
<1>13. QED
  BY <1>6, <1>7, <1>8, <1>9, <1>10, <1>11, <1>12 DEF LogInv

\* A file that is made is of nobody else.
LEMMA LogOpen ==
  ASSUME JournalTypeOK, LogInv, NEW w \in Writers, Open(w)
  PROVE  LogInv'
<1> DEFINE h == Head(writer[w].todo)
<1>1. /\ writer'[w].pc = "text" /\ writer'[w].entry = writer[w].entry
      /\ writer'[w].todo = writer[w].todo /\ writer[w].pc = "open"
      /\ UNCHANGED <<search, due, torn, entries>>
      /\ \A v \in Writers : v # w => writer'[v] = writer[v]
      /\ h \in JournalFiles
  BY PlaceFacts DEF Open, JournalTypeOK, WriterType, Appending
<1>2. \A f \in JournalFiles :
        /\ file'[f].text = file[f].text
        /\ \/ file'[f].id = file[f].id
           \/ \A v \in Writers : /\ writer[v].id # file'[f].id
                                 /\ writer[v].pc = "newline" => writer[v].id # file[f].id
  <2>1. CASE file[h] = NoFile
    <3>1. /\ file'[h].id = FreshId /\ file'[h].text = file[h].text /\ file[h].id = 0
          /\ \A f \in JournalFiles : f # h => file'[f] = file[f]
      BY <1>1, <2>1 DEF Open, JournalTypeOK, FileType, NoFile
    <3>2. \A v \in Writers : /\ writer[v].id # FreshId
                             /\ writer[v].pc = "newline" => writer[v].id # 0
      BY FreshIdIsNew DEF JournalTypeOK
    <3> HIDE DEF h
    <3>3. QED
      BY <3>1, <3>2
  <2>2. CASE file[h] # NoFile
    BY <2>2 DEF Open
  <2>3. QED
    BY <2>1, <2>2
<1>3. \A f \in JournalFiles : Texts(f)' = Texts(f) /\ Readable(f)' = Readable(f) /\ Once(f)' = Once(f)
  BY <1>2 DEF Texts, Readable, Once
<1>4. \A v \in Writers : /\ Appending(v)' = Appending(v) /\ Unwritten(v)' = Unwritten(v)
                         /\ writer'[v].entry = writer[v].entry /\ writer'[v].todo = writer[v].todo
  <2>1. \A v \in Writers : \/ writer'[v] = writer[v]
                           \/ /\ writer'[v].pc = "text" /\ writer[v].pc = "open"
                              /\ writer'[v].entry = writer[v].entry
                              /\ writer'[v].todo = writer[v].todo
    BY <1>1
  <2> SUFFICES ASSUME NEW v \in Writers
               PROVE  /\ Appending(v)' = Appending(v) /\ Unwritten(v)' = Unwritten(v)
                      /\ writer'[v].entry = writer[v].entry
                      /\ writer'[v].todo = writer[v].todo
    OBVIOUS
  <2>2. CASE writer'[v] = writer[v]
    BY <2>2 DEF Appending, Unwritten, Ahead
  <2>3. CASE /\ writer'[v].pc = "text" /\ writer[v].pc = "open"
             /\ writer'[v].entry = writer[v].entry /\ writer'[v].todo = writer[v].todo
    BY <2>3 DEF Appending, Unwritten, Ahead
  <2>4. QED
    BY <2>1, <2>2, <2>3
<1>5. \A v \in Writers : \A f \in JournalFiles : Unended(f, v)' = Unended(f, v)
  <2> SUFFICES ASSUME NEW v \in Writers, NEW f \in JournalFiles
               PROVE  Unended(f, v)' = Unended(f, v)
    OBVIOUS
  <2>1. CASE v = w
    BY <1>1, <2>1 DEF Unended
  <2>2. CASE v # w
    <3>1. writer'[v] = writer[v]
      BY <1>1, <2>2
    <3>2. \/ file'[f].id = file[f].id
          \/ ~ Unended(f, v) /\ ~ Unended(f, v)'
      <4>1. \/ file'[f].id = file[f].id
            \/ /\ writer[v].id # file'[f].id
               /\ writer[v].pc = "newline" => writer[v].id # file[f].id
        BY <1>2
      <4>2. QED
        BY <3>1, <4>1 DEF Unended
    <3>3. QED
      BY <3>1, <3>2 DEF Unended
  <2>3. QED
    BY <2>1, <2>2
<1>6. Numbered' /\ Distinct'
  BY <1>1, <1>3, <1>4 DEF LogInv, Numbered, Distinct
<1>7. NotYet'
  BY <1>3, <1>4, UnwrittenAreFiles DEF LogInv, NotYet
<1>8. NotDue'
  BY <1>1, <1>4 DEF LogInv, NotDue
<1>9. Written' /\ Dues'
  BY <1>1, <1>3, <1>4, <1>5 DEF LogInv, Written, Dues, JournalTypeOK, Entries
<1>10. \A f \in JournalFiles : Sound(f)' /\ Once(f)'
  BY <1>1, <1>2, <1>3, <1>5 DEF LogInv, Sound
<1>11. QED
  BY <1>6, <1>7, <1>8, <1>9, <1>10 DEF LogInv

LEMMA LogForget ==
  ASSUME JournalTypeOK, LogInv, NEW f \in JournalFiles, Forget(f),
         UNCHANGED <<writer, search, entries>>
  PROVE  LogInv'
<1>1. /\ file'[f].text = <<>> /\ file'[f].id = 0
      /\ \A g \in JournalFiles : g # f => file'[g] = file[g]
      /\ due' = {d \in due : d[1] # f} /\ torn' = torn \ {f}
  BY DEF Forget, NoFile, JournalTypeOK
<1>2. Texts(f)' = {} /\ Readable(f)' /\ Once(f)'
  BY <1>1 DEF Texts, Readable, Once
<1>3. \A g \in JournalFiles : g # f => /\ Texts(g)' = Texts(g) /\ Readable(g)' = Readable(g)
                                       /\ Once(g)' = Once(g)
  BY <1>1 DEF Texts, Readable, Once
<1>4. \A w \in Writers : /\ Appending(w)' = Appending(w) /\ Unwritten(w)' = Unwritten(w)
                         /\ ~ Unended(f, w)'
                         /\ \A g \in JournalFiles : g # f => Unended(g, w)' = Unended(g, w)
  BY <1>1 DEF Appending, Unwritten, Unended, Ahead, JournalTypeOK
<1>5. Numbered' /\ Distinct'
  BY <1>2, <1>3, <1>4 DEF LogInv, Numbered, Distinct
<1>6. NotYet'
  BY <1>2, <1>3, <1>4, UnwrittenAreFiles DEF LogInv, NotYet
<1>7. NotDue'
  BY <1>1, <1>4 DEF LogInv, NotDue
<1>8. Written' /\ Dues'
  BY <1>1, <1>3, <1>4 DEF LogInv, Written, Dues, JournalTypeOK, Entries
<1>9. \A g \in JournalFiles : Sound(g)' /\ Once(g)'
  BY <1>1, <1>2, <1>3, <1>4 DEF LogInv, Sound
<1>10. QED
  BY <1>5, <1>6, <1>7, <1>8, <1>9 DEF LogInv

\* A text goes after the last newline, unless the file is torn.
LEMMA LogWriteText ==
  ASSUME JournalTypeOK, LogInv, NEW w \in Writers, WriteText(w)
  PROVE  LogInv'
<1> DEFINE here == file[Head(writer[w].todo)].id = writer[w].id
<1> Appending(w) /\ writer[w].todo \in Places /\ writer[w].entry \in Nat
  BY DEF WriteText, JournalTypeOK, WriterType, Appending
<1>0. PICK h \in JournalFiles, entry \in Nat :
        h = Head(writer[w].todo) /\ entry = writer[w].entry
  BY PlaceFacts
<1>1. /\ writer'[w].pc = "newline" /\ writer'[w].entry = entry
      /\ writer'[w].todo = writer[w].todo /\ writer'[w].id = writer[w].id
      /\ writer[w].pc = "text" /\ Appending(w)'
      /\ UNCHANGED <<search, due, entries>>
      /\ \A v \in Writers : v # w => writer'[v] = writer[v]
      /\ torn' = IF \E v \in Writers \ {w} : Unended(h, v) THEN torn \cup {h} ELSE torn
  BY <1>0 DEF WriteText, JournalTypeOK, WriterType, Appending
<1>2. /\ entry # Newline
      /\ Unwritten(w) = {h} \cup Unwritten(w)' /\ h \notin Unwritten(w)'
      /\ Unwritten(w)' \subseteq JournalFiles
  <2>1. entry # Newline
    BY JournalAssumption
  <2>2. Unwritten(w) = Ahead(writer[w].todo) /\ Unwritten(w)' = Ahead(Tail(writer[w].todo))
    BY <1>1 DEF Unwritten, Ahead
  <2>3. QED
    BY <1>0, <2>1, <2>2, PlaceFacts
<1>3. entry \notin Texts(h) /\ \A f \in Unwritten(w)' : f # h /\ entry \notin Texts(f)
  BY <1>0, <1>1, <1>2 DEF LogInv, NotYet
<1>4. CASE ~ here
  <2>1. file' = file
    BY <1>4 DEF WriteText, Write
  <2>2. \A v \in Writers : \A f \in JournalFiles : Unended(f, v)' = Unended(f, v)
    <3> SUFFICES ASSUME NEW v \in Writers, NEW f \in JournalFiles
                 PROVE  Unended(f, v)' = Unended(f, v)
      OBVIOUS
    <3>1. CASE v = w
      BY <1>0, <1>1, <1>4, <2>1, <3>1 DEF Unended
    <3>2. CASE v # w
      BY <1>1, <2>1, <3>2 DEF Unended
    <3>3. QED
      BY <3>1, <3>2
  <2>3. \A f \in JournalFiles : Texts(f)' = Texts(f) /\ Readable(f)' = Readable(f) /\ Once(f)' = Once(f)
    BY <2>1 DEF Texts, Readable, Once
  <2>4. \A f \in JournalFiles : Sound(f)' /\ Once(f)'
    BY <1>1, <2>1, <2>2, <2>3 DEF LogInv, Sound
  <2>5. Written'
    BY <1>0, <1>1, <2>2, <2>3 DEF LogInv, Written
  <2>6. \A f \in JournalFiles : Texts(f)' = Texts(f) \/ f = h
    BY <2>3
  <2>7. NotYet'
    <3>1. \A v \in Writers : v # w => Unwritten(v)' = Unwritten(v) /\ Appending(v)' = Appending(v)
      BY <1>1 DEF Unwritten, Ahead, Appending
    <3>2. QED
      BY <1>0, <1>1, <1>2, <2>3, <3>1, UnwrittenAreFiles DEF LogInv, NotYet
  <2>8. Numbered' /\ Distinct' /\ NotDue' /\ Dues'
    BY <1>0, <1>1, <2>3 DEF LogInv, Numbered, Distinct, NotDue, Dues, Appending, JournalTypeOK, Entries
  <2>9. QED
    BY <2>4, <2>5, <2>7, <2>8 DEF LogInv
<1>5. CASE here
  <2>1. file' = [file EXCEPT ![h].text = Append(@, entry)]
    BY <1>0, <1>5 DEF WriteText, Write
  <2>2. /\ Texts(h)' = Texts(h) \cup {entry}
        /\ file'[h].text = Append(file[h].text, entry) /\ file'[h].id = file[h].id
        /\ Len(file'[h].text) = Len(file[h].text) + 1
        /\ file'[h].text[Len(file'[h].text)] = entry
        /\ \A i \in 1 .. Len(file[h].text) : file'[h].text[i] = file[h].text[i]
        /\ \A g \in JournalFiles : g # h => file'[g] = file[g] /\ Texts(g)' = Texts(g)
    BY <1>2, <2>1, TextsOfAppend, ZenonT(60)
  <2>3. /\ Unended(h, w)'
        /\ \A v \in Writers : v # w =>
             /\ \A f \in JournalFiles : Unended(f, v)' = Unended(f, v)
             /\ Unwritten(v)' = Unwritten(v) /\ Appending(v)' = Appending(v)
    <3>1. Unended(h, w)'
      BY <1>0, <1>1, <1>5, <2>2 DEF Unended
    <3>2. \A v \in Writers : v # w =>
             \A f \in JournalFiles : Unended(f, v)' = Unended(f, v)
      BY <1>1, <2>2 DEF Unended
    <3>3. QED
      BY <1>1, <3>1, <3>2 DEF Unwritten, Ahead, Appending
  <2>4. \A f \in JournalFiles : f # h => ~ Unended(f, w)'
    BY <1>0, <1>1, SMTT(60) DEF Unended
  <2>5. Numbered'
    <3>1. entry \in 1 .. entries
      BY <1>0, <1>1 DEF LogInv, Numbered
    <3>2. QED
      BY <1>0, <1>1, <2>2, <2>3, <3>1, ZenonT(60) DEF LogInv, Numbered
  <2>6. Distinct'
    BY <1>0, <1>1, <2>3 DEF LogInv, Distinct
  <2>7. NotYet'
    <3>1. \A v \in Writers : v # w /\ Appending(v) => writer[v].entry # entry
      BY <1>0, <1>1 DEF LogInv, Distinct
    <3>2. \A f \in Unwritten(w)' : entry \notin Texts(f)'
      BY <1>2, <1>3, <2>2
    <3>3. \A v \in Writers : v # w /\ Appending(v)' =>
            \A f \in Unwritten(v)' : writer'[v].entry \notin Texts(f)'
      <4> SUFFICES ASSUME NEW v \in Writers, v # w, Appending(v), NEW f \in Unwritten(v)
                   PROVE  writer'[v].entry \notin Texts(f)'
        BY <2>3
      <4>1. f \in JournalFiles /\ writer'[v].entry = writer[v].entry
        BY <1>1, UnwrittenAreFiles
      <4>2. writer[v].entry \notin Texts(f) /\ writer[v].entry # entry
        BY <3>1 DEF LogInv, NotYet
      <4>3. QED
        BY <2>2, <4>1, <4>2
    <3>4. QED
      BY <1>1, <3>2, <3>3 DEF NotYet
  <2>8. NotDue'
    BY <1>0, <1>1, <2>3 DEF LogInv, NotDue
  <2>9. Written'
    BY <1>0, <1>1, <1>2, <2>2, <2>3, <2>4, ZenonT(60) DEF LogInv, Written
  <2>10. Dues'
    BY <1>1, <2>2 DEF LogInv, Dues, JournalTypeOK, Entries
  <2>11. \A f \in JournalFiles : f # h => Sound(f)' /\ Once(f)'
    <3> SUFFICES ASSUME NEW f \in JournalFiles, f # h  PROVE Sound(f)' /\ Once(f)'
      OBVIOUS
    <3>1. file'[f] = file[f] /\ (f \in torn => f \in torn')
      BY <1>1, <2>2
    <3>2. Readable(f)' = Readable(f) /\ Once(f)' = Once(f)
      BY <3>1 DEF Readable, Once
    <3>3. ~ Unended(f, w)
      BY <1>1 DEF Unended
    <3>4. QED
      BY <1>1, <2>3, <3>1, <3>2, <3>3 DEF LogInv, Sound
  <2>12. Once(h)'
    <3>1. Once(h) /\ file[h].text \in Seq(Nat \cup {Newline})
      BY <1>2 DEF LogInv, JournalTypeOK, FileType
    <3>2. /\ Len(file[h].text) \in Nat /\ DOMAIN file[h].text = 1 .. Len(file[h].text)
          /\ DOMAIN file'[h].text = 1 .. Len(file[h].text) + 1
      BY <2>2, <3>1, AppendProperties, LenProperties, <1>2
    <3>3. \A i \in 1 .. Len(file[h].text) : file[h].text[i] # entry
      BY <1>2, <1>3, <3>2 DEF Texts
    <3>4. QED
      BY <2>2, <3>1, <3>2, <3>3, SMTT(60) DEF Once
  <2>13. Sound(h)'
    <3> SUFFICES ASSUME h \notin torn'  PROVE Readable(h)'
      BY <2>3 DEF Sound
    <3>1. h \notin torn /\ \A v \in Writers : ~ Unended(h, v)
      BY <1>0, <1>1 DEF Unended
    <3>2. /\ Readable(h)
          /\ file[h].text = <<>> \/ file[h].text[Len(file[h].text)] = Newline
      BY <1>2, <3>1 DEF LogInv, Sound
    <3>3. Len(file[h].text) \in Nat /\ (file[h].text = <<>> => Len(file[h].text) = 0)
      BY <1>2, LenProperties DEF JournalTypeOK, FileType
    <3>4. QED
      BY <2>2, <3>2, <3>3 DEF Readable
  <2>14. QED
    BY <2>5, <2>6, <2>7, <2>8, <2>9, <2>10, <2>11, <2>12, <2>13 DEF LogInv
<1>6. QED
  BY <1>4, <1>5

\* The text is ended and due from then on.
LEMMA LogWriteNewline ==
  ASSUME JournalTypeOK, LogInv, NEW w \in Writers, WriteNewline(w)
  PROVE  LogInv'
<1> Appending(w) /\ writer[w].todo \in Places /\ writer[w].entry \in Nat
  BY DEF WriteNewline, JournalTypeOK, WriterType, Appending
<1>0. PICK h \in JournalFiles, entry \in Nat :
        h = Head(writer[w].todo) /\ entry = writer[w].entry
  BY PlaceFacts
<1>1. /\ UNCHANGED <<search, torn, entries>> /\ writer[w].pc = "newline"
      /\ \A v \in Writers : v # w => writer'[v] = writer[v]
      /\ writer'[w].pc \in {"idle", "open"}
      /\ writer'[w].pc = "open" => /\ writer'[w].entry = entry
                                   /\ writer'[w].todo = Tail(writer[w].todo)
  BY <1>0 DEF WriteNewline, JournalTypeOK, WriterType, Idle
<1>2. /\ Ahead(writer[w].todo) = {h} \cup Unwritten(w) /\ h \notin Unwritten(w)
      /\ Appending(w)' => Unwritten(w)' = Unwritten(w) /\ Ahead(writer'[w].todo) = Unwritten(w)
      /\ Unwritten(w) \subseteq JournalFiles
  <2>1. Unwritten(w) = Ahead(Tail(writer[w].todo))
    BY <1>1 DEF Unwritten
  <2>2. Appending(w)' => Unwritten(w)' = Ahead(Tail(writer[w].todo))
    BY <1>1 DEF Unwritten, Appending, Ahead
  <2>3. QED
    BY <1>0, <1>1, <2>1, <2>2, PlaceFacts DEF Appending
<1>3. Appending(w)' => writer'[w].entry = entry
  BY <1>1 DEF Appending
<1>4. \A v \in Writers : v # w => Unwritten(v)' = Unwritten(v) /\ Appending(v)' = Appending(v)
  BY <1>1 DEF Unwritten, Ahead, Appending
<1>5. /\ \A f \in JournalFiles :
           /\ Texts(f)' = Texts(f) /\ file'[f].id = file[f].id
           /\ Readable(f) => Readable(f)'
           /\ Once(f) => Once(f)'
      /\ \A f \in JournalFiles \ {h} : file'[f] = file[f]
      /\ \/ file' = file /\ file[h].id # writer[w].id
         \/ file'[h].text[Len(file'[h].text)] = Newline
  <2>1. CASE file[h].id # writer[w].id
    <3>1. file' = file
      BY <1>0, <2>1 DEF WriteNewline, Write
    <3>2. QED
      BY <2>1, <3>1 DEF Texts, Readable, Once
  <2>2. CASE file[h].id = writer[w].id
    <3>1. file' = [file EXCEPT ![h].text = Append(@, Newline)]
      BY <1>0, <2>2 DEF WriteNewline, Write
    <3>2. /\ Texts(h)' = Texts(h) /\ file'[h].id = file[h].id
          /\ file'[h].text = Append(file[h].text, Newline)
          /\ Len(file'[h].text) = Len(file[h].text) + 1
          /\ file'[h].text[Len(file'[h].text)] = Newline
          /\ \A i \in 1 .. Len(file[h].text) : file'[h].text[i] = file[h].text[i]
          /\ \A g \in JournalFiles : g # h => file'[g] = file[g] /\ Texts(g)' = Texts(g)
      <4>1. Newline \in Nat \cup {Newline}
        OBVIOUS
      <4>2. Texts(h)' = Texts(h) \cup ({Newline} \ {Newline})
        BY <3>1, <4>1, TextsOfAppend
      <4>3. QED
        BY <3>1, <4>1, <4>2, TextsOfAppend
    <3>3. \A g \in JournalFiles \ {h} : Readable(g)' = Readable(g) /\ Once(g)' = Once(g)
      BY <3>2 DEF Readable, Once
    <3>4. file[h].text \in Seq(Nat \cup {Newline})
      BY DEF JournalTypeOK, FileType
    <3>5. /\ Len(file[h].text) \in Nat /\ DOMAIN file[h].text = 1 .. Len(file[h].text)
          /\ DOMAIN file'[h].text = 1 .. Len(file[h].text) + 1
      BY <3>2, <3>4, AppendProperties, LenProperties
    <3>6. Readable(h) => Readable(h)'
      BY <3>2, <3>5 DEF Readable
    <3>7. Once(h) => Once(h)'
      BY <3>2, <3>5 DEF Once
    <3>8. QED
      BY <3>2, <3>3, <3>6, <3>7
  <2>3. QED
    BY <2>1, <2>2
<1>6. /\ \A f \in JournalFiles : ~ Unended(f, w)'
      /\ \A v \in Writers : v # w => \A f \in JournalFiles : Unended(f, v)' = Unended(f, v)
      /\ \A f \in JournalFiles : Unended(f, w) => f = h /\ file[h].id = writer[w].id
  <2>1. \A f \in JournalFiles : ~ Unended(f, w)'
    BY <1>1 DEF Unended
  <2>2. \A v \in Writers : v # w => \A f \in JournalFiles : Unended(f, v)' = Unended(f, v)
    BY <1>1, <1>5 DEF Unended
  <2>3. \A f \in JournalFiles : Unended(f, w) => f = h /\ file[h].id = writer[w].id
    BY <1>0 DEF Unended
  <2>4. QED
    BY <2>1, <2>2, <2>3
<1>7. \A v \in Writers : Appending(v)' => Appending(v) /\ writer'[v].entry = writer[v].entry
  BY <1>0, <1>1, <1>3, <1>4
<1>8. Numbered' /\ Distinct'
  BY <1>1, <1>5, <1>7 DEF LogInv, Numbered, Distinct
<1>9. NotYet'
  <2> SUFFICES ASSUME NEW v \in Writers, Appending(v)', NEW f \in Unwritten(v)'
               PROVE  writer'[v].entry \notin Texts(f)'
    BY DEF NotYet
  <2>1. Appending(v) /\ f \in Unwritten(v) /\ writer'[v].entry = writer[v].entry
    <3>1. Unwritten(v)' = Unwritten(v)
      BY <1>2, <1>4
    <3>2. QED
      BY <1>7, <3>1
  <2>2. QED
    BY <1>5, <2>1, UnwrittenAreFiles DEF LogInv, NotYet
<1>10. \/ due' = due \cup {<<h, entry>>} /\ file[h].id = writer[w].id
       \/ due' = due
  BY <1>0 DEF WriteNewline
<1>11. NotDue'
  <2> SUFFICES ASSUME NEW v \in Writers, Appending(v)', NEW f \in Ahead(writer'[v].todo)
               PROVE  /\ <<f, writer'[v].entry>> \notin due'
                      /\ \A s \in Searches : <<f, writer'[v].entry>> \notin search[s].before
    BY <1>1 DEF NotDue
  <2>1. Appending(v) /\ writer'[v].entry = writer[v].entry
    BY <1>7
  <2>2. f \in Ahead(writer[v].todo) /\ (v = w => f # h)
    <3>1. CASE v = w
      BY <1>2, <3>1
    <3>2. CASE v # w
      BY <1>1, <3>2
    <3>3. QED
      BY <3>1, <3>2
  <2>3. v # w => writer[v].entry # entry
    BY <1>0, <2>1 DEF LogInv, Distinct
  <2>4. <<f, writer[v].entry>> # <<h, entry>>
    BY <2>2, <2>3
  <2>5. /\ <<f, writer[v].entry>> \notin due
        /\ \A s \in Searches : <<f, writer[v].entry>> \notin search[s].before
    BY <2>1, <2>2 DEF LogInv, NotDue
  <2>6. QED
    BY <1>10, <2>1, <2>4, <2>5
<1>12. Written'
  <2> SUFFICES ASSUME NEW v \in Writers, NEW f \in JournalFiles, Unended(f, v)'
               PROVE  writer'[v].entry \in Texts(f)'
    BY DEF Written
  <2>1. v # w /\ Unended(f, v)
    BY <1>6
  <2>2. QED
    BY <1>1, <1>5, <2>1 DEF LogInv, Written
<1>13. Dues'
  <2>1. file[h].id = writer[w].id => entry \in Texts(h)
    BY <1>0, <1>1 DEF LogInv, Written, Unended
  <2> SUFFICES ASSUME NEW d \in due'  PROVE d[2] \in Texts(d[1])'
    BY DEF Dues
  <2>2. CASE d \in due
    BY <1>5, <2>2 DEF LogInv, Dues, JournalTypeOK, Entries
  <2>3. CASE d = <<h, entry>> /\ file[h].id = writer[w].id
    BY <1>5, <2>1, <2>3
  <2>4. QED
    BY <1>10, <2>2, <2>3
<1>14. \A f \in JournalFiles : Sound(f)' /\ Once(f)'
  <2> SUFFICES ASSUME NEW f \in JournalFiles, f \notin torn
               PROVE  \/ file'[f].text = <<>>
                      \/ file'[f].text[Len(file'[f].text)] = Newline
                      \/ \E v \in Writers : Unended(f, v)'
    BY <1>1, <1>5 DEF LogInv, Sound
  <2>1. CASE f = h /\ file'[h].text[Len(file'[h].text)] = Newline
    BY <2>1
  <2>2. CASE file'[f] = file[f] /\ ~ Unended(f, w)
    BY <1>6, <2>2 DEF LogInv, Sound
  <2>3. QED
    BY <1>5, <1>6, <2>1, <2>2
<1>15. QED
  BY <1>8, <1>9, <1>11, <1>12, <1>13, <1>14 DEF LogInv

LEMMA LogStep == JournalTypeOK /\ LogInv /\ [JournalNext]_journalVars => LogInv'
<1> SUFFICES ASSUME JournalTypeOK, LogInv, [JournalNext]_journalVars  PROVE LogInv'
  OBVIOUS
<1>1. ASSUME NEW w \in Writers, NEW r \in Runs, AddNote(w, r)  PROVE LogInv'
  <2>1. NotePlaces(r) \in Places
    BY DEF NotePlaces, Places
  <2>2. QED
    BY <1>1, <2>1, LogStart DEF AddNote
<1>2. ASSUME NEW w \in Writers, NEW log \in Logs, Add(w, log)  PROVE LogInv'
  <2>1. <<log>> \in Places
    BY DEF Places
  <2>2. QED
    BY <1>2, <2>1, LogStart DEF Add
<1>3. ASSUME NEW w \in Writers, NEW idea \in 1 .. MaxEntries, ReadIdeas(w, idea)  PROVE LogInv'
  <2>1. PICK next : /\ next = writer'[w] /\ next.pc = "promote"
                    /\ writer' = [writer EXCEPT ![w] = next]
    BY <1>3 DEF ReadIdeas, JournalTypeOK, Idle
  <2>2. next \in WriterType
    BY <1>3, <2>1, PromotionTypeStep DEF JournalTypeOK
  <2>3. \A f \in JournalFiles : ~ Unended(f, w)
    BY <1>3 DEF ReadIdeas, Unended
  <2>4. /\ UNCHANGED <<file, search, due, torn>>
        /\ entries' \in Nat /\ entries <= entries'
    BY <1>3 DEF ReadIdeas, JournalTypeOK
  <2>5. QED
    BY <2>1, <2>2, <2>3, <2>4, WriterLeaves
<1>4. ASSUME NEW w \in Writers, WriteSnapshot(w) \/ StopWriting(w)  PROVE LogInv'
  <2>1. /\ writer' = [writer EXCEPT ![w] = Idle] /\ Idle.pc = "idle" /\ Idle \in WriterType
        /\ UNCHANGED <<file, search, due, entries>>
    BY <1>4 DEF WriteSnapshot, StopWriting, Idle, WriterType
  <2>2. torn \subseteq torn' /\ \A f \in JournalFiles : Unended(f, w) => f \in torn'
    BY <1>4 DEF WriteSnapshot, StopWriting, Unended
  <2>3. entries' \in Nat /\ entries <= entries'
    BY <2>1 DEF JournalTypeOK
  <2>4. PICK next \in WriterType : next.pc = "idle" /\ writer' = [writer EXCEPT ![w] = next]
    BY <2>1
  <2>5. UNCHANGED <<file, search, due>>
    BY <2>1
  <2>6. QED
    BY <2>2, <2>3, <2>4, <2>5, WriterLeaves
<1>5. CASE BeginClean \/ CleanIndex \/ CleanSnapshot \/ EndClean
  BY <1>5, LogsUntouched DEF BeginClean, CleanIndex, CleanSnapshot, EndClean
<1>6. ASSUME NEW f \in Logs, CleanLog(f)  PROVE LogInv'
  BY <1>6, LogForget DEF CleanLog, JournalFiles
<1>7. ASSUME NEW r \in Runs, RemoveRun(r)  PROVE LogInv'
  BY <1>7, LogForget DEF RemoveRun, JournalFiles
<1>8. ASSUME NEW s \in Searches,
             BeginSearch(s) \/ ReadRuns(s) \/ ReadLog(s) \/ SearchError(s) \/ WriteIndex(s)
             \/ EndSearch(s)
      PROVE  LogInv'
  <2>1. UNCHANGED <<file, writer, due, torn, entries>>
    BY <1>8 DEF BeginSearch, ReadRuns, ReadLog, SearchError, WriteIndex, EndSearch
  <2>2. \A t \in Searches : t # s => search'[t] = search[t]
    BY <1>8 DEF BeginSearch, ReadRuns, ReadLog, SearchError, WriteIndex, EndSearch, JournalTypeOK
  <2>3. search'[s].before \subseteq search[s].before \cup due
    <3>1. CASE BeginSearch(s)
      BY <3>1 DEF BeginSearch, JournalTypeOK, IdleSearch
    <3>2. CASE ReadRuns(s) \/ ReadLog(s) \/ WriteIndex(s)
      <4>1. search[s] \in SearchType
        BY DEF JournalTypeOK
      <4>2. CASE ReadRuns(s)
        BY <4>1, <4>2 DEF ReadRuns, JournalTypeOK, SearchType
      <4>3. CASE ReadLog(s)
        <5>1. PICK todo, found :
                search' = [search EXCEPT ![s] = [search[s] EXCEPT !.todo = todo, !.found = found]]
          BY <4>3 DEF ReadLog
        <5>2. search'[s] = [search[s] EXCEPT !.todo = todo, !.found = found]
          BY <5>1 DEF JournalTypeOK
        <5>3. QED
          BY <4>1, <5>2, SMTT(60) DEF SearchType
      <4>4. CASE WriteIndex(s)
        BY <4>1, <4>4 DEF WriteIndex, JournalTypeOK, SearchType
      <4>5. QED
        BY <3>2, <4>2, <4>3, <4>4
    <3>3. CASE SearchError(s) \/ EndSearch(s)
      <4>1. search'[s] = IdleSearch
        BY <3>3 DEF SearchError, EndSearch, JournalTypeOK
      <4>2. IdleSearch.before = {}
        BY DEF IdleSearch
      <4>3. QED
        BY <4>1, <4>2
    <3>4. QED
      BY <1>8, <3>1, <3>2, <3>3
  <2>4. QED
    BY <2>1, <2>2, <2>3, LogsUntouched
<1>9. CASE UNCHANGED journalVars
  BY <1>9, LogsUntouched DEF journalVars
<1>10. QED
  BY <1>1, <1>2, <1>3, <1>4, <1>5, <1>6, <1>7, <1>8, <1>9, LogOpen, LogWriteText,
     LogWriteNewline DEF JournalNext, JournalCommand

\* The texts of a file while it is not removed.
LEMMA TextsGrow ==
  ASSUME JournalTypeOK, NEW w \in Writers, Open(w) \/ WriteText(w) \/ WriteNewline(w)
  PROVE  /\ \A f \in JournalFiles :
              /\ Texts(f) \subseteq Texts(f)'
              /\ \/ Texts(f)' = Texts(f)
                 \/ /\ WriteText(w) /\ f = Head(writer[w].todo)
                    /\ Texts(f)' = Texts(f) \cup {writer[w].entry}
              /\ file'[f].id = file[f].id \/ (Open(w) /\ file[f].id = 0)
         /\ WriteText(w) /\ file[Head(writer[w].todo)].id = writer[w].id =>
              writer[w].entry \in Texts(Head(writer[w].todo))'
<1> Appending(w) /\ writer[w].todo \in Places /\ writer[w].entry \in Nat
  BY DEF Open, WriteText, WriteNewline, JournalTypeOK, WriterType, Appending
<1>0. PICK h \in JournalFiles, entry \in Nat :
        h = Head(writer[w].todo) /\ entry = writer[w].entry
  BY PlaceFacts
<1>1. CASE Open(w)
  <2>1. \A f \in JournalFiles : /\ file'[f].text = file[f].text
                                /\ file'[f].id = file[f].id \/ file[f].id = 0
    BY <1>1 DEF Open, JournalTypeOK, FileType, NoFile
  <2>2. ~ WriteText(w)
    BY <1>1 DEF Open, WriteText
  <2>3. \A f \in JournalFiles : Texts(f)' = Texts(f)
    BY <2>1 DEF Texts
  <2>4. QED
    BY <1>1, <2>1, <2>2, <2>3
<1>2. CASE WriteText(w)
  <2>1. CASE file[h].id = writer[w].id
    <3>1. file' = [file EXCEPT ![h].text = Append(@, entry)] /\ {entry} \ {Newline} = {entry}
      BY <1>0, <1>2, <2>1, JournalAssumption DEF WriteText, Write
    <3>2. /\ Texts(h)' = Texts(h) \cup {entry} /\ file'[h].id = file[h].id
          /\ \A g \in JournalFiles : g # h => file'[g] = file[g] /\ Texts(g)' = Texts(g)
      BY <3>1, TextsOfAppend, ZenonT(60)
    <3>3. writer'[w].todo = writer[w].todo
      BY <1>2 DEF WriteText, JournalTypeOK, WriterType
    <3>4. Head(writer'[w].todo) = h
      BY <1>0, <3>3
    <3>5. entry \in Texts(Head(writer[w].todo))'
      BY <3>2, <3>4
    <3>6. QED
      BY <1>0, <1>2, <3>2, <3>5
  <2>2. CASE file[h].id # writer[w].id
    <3>1. file' = file
      BY <1>0, <1>2, <2>2 DEF WriteText, Write
    <3>2. QED
      BY <1>0, <2>2, <3>1 DEF Texts
  <2>3. QED
    BY <2>1, <2>2
<1>3. CASE WriteNewline(w)
  <2>0. ~ WriteText(w)
    BY <1>3 DEF WriteNewline, WriteText
  <2>1. CASE file[h].id = writer[w].id
    <3>1. file' = [file EXCEPT ![h].text = Append(@, Newline)] /\ {Newline} \ {Newline} = {}
          /\ Newline \in Nat \cup {Newline}
      BY <1>0, <1>3, <2>1 DEF WriteNewline, Write
    <3>2. /\ Texts(h)' = Texts(h) \cup ({Newline} \ {Newline}) /\ file'[h].id = file[h].id
          /\ \A g \in JournalFiles : g # h => file'[g] = file[g] /\ Texts(g)' = Texts(g)
      BY <3>1, TextsOfAppend
    <3>3. Texts(h)' = Texts(h)
      BY <3>1, <3>2
    <3>4. QED
      BY <2>0, <3>2, <3>3
  <2>2. CASE file[h].id # writer[w].id
    <3>1. file' = file
      BY <1>0, <1>3, <2>2 DEF WriteNewline, Write
    <3>2. QED
      BY <2>0, <3>1 DEF Texts
  <2>3. QED
    BY <2>1, <2>2
<1>4. QED
  BY <1>1, <1>2, <1>3

\* No append goes on, or it goes on as it was, and nothing is lost in the directories
\* of the runs.
LEMMA NotesUntouched ==
  ASSUME JournalTypeOK, NoteInv, removed \subseteq removed',
         removed' = {} => /\ \A r \in Runs : /\ Texts(r) \subseteq Texts(r)'
                                             /\ file'[r].id = file[r].id
                          /\ Texts(Notes)' \subseteq Texts(Notes),
         \A w \in Writers : Appending(w)' => writer'[w] = writer[w]
  PROVE  NoteInv'
<1> SUFFICES ASSUME removed' = {}  PROVE NoteInv'
  BY DEF NoteInv
<1>1. \A w \in Writers : Appending(w)' => Appending(w) /\ writer'[w] = writer[w]
  BY DEF Appending
<1>2. QED
  BY <1>1 DEF NoteInv, NotesAgree

LEMMA NoteStart ==
  ASSUME JournalTypeOK, NoteInv, NEW w \in Writers, NEW places \in Places, Start(w, places),
         Head(places) # Notes
  PROVE  NoteInv'
<1>1. /\ writer'[w].pc = "open" /\ writer'[w].todo = places
      /\ UNCHANGED <<file, removed>>
      /\ \A v \in Writers : v # w => writer'[v] = writer[v] /\ Appending(v)' = Appending(v)
  BY DEF Start, Idle, JournalTypeOK, Appending
<1>2. \A f : Texts(f)' = Texts(f)
  BY <1>1 DEF Texts
<1>3. QED
  BY <1>1, <1>2 DEF NoteInv, NotesAgree

LEMMA NoteAppend ==
  ASSUME JournalTypeOK, NoteInv, NEW w \in Writers,
         Open(w) \/ WriteText(w) \/ WriteNewline(w)
  PROVE  NoteInv'
<1> Appending(w) /\ writer[w].todo \in Places /\ writer[w].entry \in Nat
  BY DEF Open, WriteText, WriteNewline, JournalTypeOK, WriterType, Appending
<1>0. PICK h \in JournalFiles, entry \in Nat, left \in {Tail(writer[w].todo)} :
        h = Head(writer[w].todo) /\ entry = writer[w].entry
  BY PlaceFacts, SMTT(60)
<1> SUFFICES ASSUME removed = {}  PROVE NoteInv'
  BY DEF NoteInv, Open, WriteText, WriteNewline
<1>1. /\ removed' = removed
      /\ \A v \in Writers : v # w => writer'[v] = writer[v] /\ Appending(v)' = Appending(v)
  BY DEF Open, WriteText, WriteNewline, JournalTypeOK, Appending
<1>2. \A f \in JournalFiles : /\ Texts(f) \subseteq Texts(f)'
                              /\ Texts(f)' \subseteq Texts(f) \cup {entry}
                              /\ f # h => Texts(f)' = Texts(f)
                              /\ file'[f].id = file[f].id \/ file[f].id = 0
                              /\ ~ WriteText(w) => Texts(f)' = Texts(f)
  BY <1>0, TextsGrow
<1>3. /\ Runs \subseteq JournalFiles /\ Notes \in JournalFiles /\ Notes \notin Runs
      /\ \/ h \in Logs /\ h \notin Runs /\ left = <<>>
         \/ h \in Runs /\ left # <<>> /\ Head(left) = Notes
  BY <1>0, PlaceFacts, JournalAssumption, ZenonT(60) DEF JournalFiles
<1>4. \A v \in Writers : v # w /\ Appending(v)' =>
        /\ Head(writer'[v].todo) \in Runs /\ writer'[v].pc \in {"text", "newline"}
           => file'[Head(writer'[v].todo)].id = writer'[v].id
        /\ \/ Head(writer'[v].todo) = Notes
           \/ Head(writer'[v].todo) \in Runs /\ writer'[v].pc = "newline"
           => \E r \in Runs : writer'[v].entry \in Texts(r)'
  <2> SUFFICES ASSUME NEW v \in Writers, v # w, Appending(v)
               PROVE  /\ Head(writer[v].todo) \in Runs /\ writer[v].pc \in {"text", "newline"}
                         => file'[Head(writer[v].todo)].id = writer[v].id
                      /\ \/ Head(writer[v].todo) = Notes
                         \/ Head(writer[v].todo) \in Runs /\ writer[v].pc = "newline"
                         => \E r \in Runs : writer[v].entry \in Texts(r)'
    BY <1>1
  <2>1. writer[v].pc \in {"text", "newline"} => writer[v].id # 0
    BY DEF JournalTypeOK
  <2>2. QED
    BY <1>2, <1>3, <2>1 DEF NoteInv
<1>5. NotesAgree /\ (h = Notes => \E r \in Runs : entry \in Texts(r))
  BY <1>0 DEF NoteInv
<1>6. NotesAgree'
  BY <1>2, <1>3, <1>5 DEF NotesAgree
<1>7. Appending(w)' =>
        /\ Head(writer'[w].todo) \in Runs /\ writer'[w].pc \in {"text", "newline"}
           => file'[Head(writer'[w].todo)].id = writer'[w].id
        /\ \/ Head(writer'[w].todo) = Notes
           \/ Head(writer'[w].todo) \in Runs /\ writer'[w].pc = "newline"
           => \E r \in Runs : writer'[w].entry \in Texts(r)'
  <2>1. CASE Open(w)
    <3>1. /\ writer'[w].todo = writer[w].todo /\ writer'[w].entry = entry
          /\ writer'[w].pc = "text" /\ writer'[w].id = file'[h].id
      BY <1>0, <2>1 DEF Open, JournalTypeOK, WriterType
    <3>2. QED
      BY <1>0, <1>2, <1>3, <1>5, <3>1
  <2>2. CASE WriteText(w)
    <3>1. /\ writer'[w].todo = writer[w].todo /\ writer'[w].entry = entry
          /\ writer'[w].pc = "newline" /\ writer'[w].id = writer[w].id
          /\ writer[w].pc = "text" /\ writer[w].id # 0
      BY <1>0, <2>2 DEF WriteText, JournalTypeOK, WriterType
    <3>2. h \in Runs => file[h].id = writer[w].id
      BY <1>0, <3>1 DEF NoteInv
    <3>3. h \in Runs => entry \in Texts(Head(writer[w].todo))'
      BY <1>0, <2>2, <3>2, TextsGrow
    <3>4. h \in Runs => entry \in Texts(h)' /\ file'[h].id = writer[w].id
      <4>1. Head(writer[w].todo)' = h
        BY <1>0, <3>1
      <4>2. QED
        BY <1>2, <3>1, <3>2, <3>3, <4>1 DEF Texts
    <3>5. QED
      BY <1>0, <1>2, <1>3, <1>5, <3>1, <3>4
  <2>3. CASE WriteNewline(w)
    <3>1. /\ left = <<>> => ~ Appending(w)'
          /\ left # <<>> => /\ writer'[w].todo = left /\ writer'[w].entry = entry
                            /\ writer'[w].pc = "open"
          /\ writer[w].pc = "newline"
      BY <1>0, <2>3 DEF WriteNewline, JournalTypeOK, WriterType, Appending, Idle
    <3>2. h \in Runs => \E r \in Runs : entry \in Texts(r)
      BY <1>0, <3>1 DEF NoteInv
    <3>3. QED
      BY <1>2, <1>3, <3>1, <3>2
  <2>4. QED
    BY <2>1, <2>2, <2>3
<1>8. QED
  BY <1>1, <1>4, <1>6, <1>7 DEF NoteInv

LEMMA NoteStep == JournalTypeOK /\ NoteInv /\ [JournalNext]_journalVars => NoteInv'
<1> SUFFICES ASSUME JournalTypeOK, NoteInv, [JournalNext]_journalVars  PROVE NoteInv'
  OBVIOUS
<1> USE DEF Appending
<1>1. ASSUME NEW w \in Writers, NEW r \in Runs, AddNote(w, r)  PROVE NoteInv'
  <2>1. NotePlaces(r) \in Places /\ Head(NotePlaces(r)) # Notes
    BY JournalAssumption DEF NotePlaces, Places
  <2>2. QED
    BY <1>1, <2>1, NoteStart DEF AddNote
<1>2. ASSUME NEW w \in Writers, NEW log \in Logs, Add(w, log)  PROVE NoteInv'
  <2>1. <<log>> \in Places /\ Head(<<log>>) = log
    BY DEF Places
  <2>2. QED
    BY <1>2, <2>1, NoteStart DEF Add
<1>3. ASSUME UNCHANGED <<file, removed>>,
             \A w \in Writers : writer'[w] = writer[w] \/ writer'[w].pc \in {"idle", "promote"}
      PROVE  NoteInv'
  <2>1. \A f : Texts(f)' = Texts(f)
    BY <1>3 DEF Texts
  <2>2. \A w \in Writers : Appending(w)' => writer'[w] = writer[w]
    BY <1>3
  <2>3. QED
    BY <1>3, <2>1, <2>2, NotesUntouched
<1>4. ASSUME NEW w \in Writers,
             \/ \E idea \in 1 .. MaxEntries : ReadIdeas(w, idea)
             \/ WriteSnapshot(w) \/ StopWriting(w)
      PROVE  NoteInv'
  <2>1. UNCHANGED <<file, removed>>
    BY <1>4 DEF ReadIdeas, WriteSnapshot, StopWriting
  <2>2. CASE \E idea \in 1 .. MaxEntries : ReadIdeas(w, idea)
    <3>1. PICK idea : ReadIdeas(w, idea)
      BY <2>2
    <3>2. \A v \in Writers : writer'[v] = writer[v] \/ writer'[v].pc = "promote"
      BY <3>1 DEF ReadIdeas, Idle, JournalTypeOK
    <3>3. QED
      BY <1>3, <2>1, <3>2
  <2>3. CASE WriteSnapshot(w) \/ StopWriting(w)
    <3>1. writer' = [writer EXCEPT ![w] = Idle]
      BY <2>3 DEF WriteSnapshot, StopWriting
    <3>2. \A v \in Writers : writer'[v] = writer[v] \/ writer'[v].pc = "idle"
      BY <3>1 DEF Idle, JournalTypeOK
    <3>3. QED
      BY <1>3, <2>1, <3>2
  <2>4. QED
    BY <1>4, <2>2, <2>3
<1>5. CASE BeginClean \/ CleanIndex \/ CleanSnapshot \/ EndClean
  BY <1>3, <1>5 DEF BeginClean, CleanIndex, CleanSnapshot, EndClean
<1>6. ASSUME NEW s \in Searches,
             BeginSearch(s) \/ ReadRuns(s) \/ ReadLog(s) \/ SearchError(s) \/ WriteIndex(s)
             \/ EndSearch(s)
      PROVE  NoteInv'
  BY <1>3, <1>6 DEF BeginSearch, ReadRuns, ReadLog, SearchError, WriteIndex, EndSearch
<1>7. ASSUME NEW f \in Logs, CleanLog(f)  PROVE NoteInv'
  <2>1. /\ f \notin Runs /\ f \in JournalFiles /\ Notes \in JournalFiles
        /\ Runs \subseteq JournalFiles
    BY JournalAssumption DEF JournalFiles
  <2>2. UNCHANGED <<writer, removed>> /\ file' = [file EXCEPT ![f] = NoFile] /\ NoFile.text = <<>>
    BY <1>7 DEF CleanLog, Forget, NoFile
  <2>3. \A g \in JournalFiles : g # f => file'[g] = file[g]
    BY <2>2 DEF JournalTypeOK
  <2>4. \A r \in Runs : Texts(r)' = Texts(r) /\ file'[r].id = file[r].id
    BY <2>1, <2>3 DEF Texts
  <2>5. Texts(Notes)' \subseteq Texts(Notes)
    <3>1. CASE f = Notes
      BY <2>1, <2>2, <3>1 DEF Texts, JournalTypeOK
    <3>2. CASE f # Notes
      BY <2>1, <2>3, <3>2 DEF Texts
    <3>3. QED
      BY <3>1, <3>2
  <2>6. QED
    BY <2>2, <2>4, <2>5, NotesUntouched
<1>8. ASSUME NEW r \in Runs, RemoveRun(r)  PROVE NoteInv'
  BY <1>8 DEF RemoveRun, NoteInv
<1>9. CASE UNCHANGED journalVars
  BY <1>3, <1>9 DEF journalVars
<1>10. QED
  BY <1>1, <1>2, <1>4, <1>5, <1>6, <1>7, <1>8, <1>9, NoteAppend DEF JournalNext, JournalCommand

\* The ideas that are there stay there, as long as nothing is removed.
LEMMA SnapshotUntouched ==
  ASSUME JournalTypeOK, SnapshotInv, UNCHANGED <<snapshot, cleaner, removals>>,
         removals = 0 => Texts(Ideas) \subseteq Texts(Ideas)',
         \A w \in Writers : writer'[w].pc = "promote" => writer'[w] = writer[w]
  PROVE  SnapshotInv'
BY DEF SnapshotInv, SnapshotIsExact

LEMMA SnapshotStep == JournalTypeOK /\ SnapshotInv /\ [JournalNext]_journalVars => SnapshotInv'
<1> SUFFICES ASSUME JournalTypeOK, SnapshotInv, [JournalNext]_journalVars  PROVE SnapshotInv'
  OBVIOUS
<1>1. ASSUME UNCHANGED <<file, snapshot, cleaner, removals>>,
             \A w \in Writers : writer'[w].pc = "promote" => writer'[w] = writer[w]
      PROVE  SnapshotInv'
  <2>1. Texts(Ideas)' = Texts(Ideas)
    BY <1>1 DEF Texts
  <2>2. QED
    BY <1>1, <2>1, SnapshotUntouched
<1>2. ASSUME NEW w \in Writers, \E places : Start(w, places)  PROVE SnapshotInv'
  BY <1>1, <1>2 DEF Start, Idle, JournalTypeOK
<1>3. ASSUME NEW w \in Writers, Open(w) \/ WriteText(w) \/ WriteNewline(w)  PROVE SnapshotInv'
  <2>1. Texts(Ideas) \subseteq Texts(Ideas)'
    BY <1>3, TextsGrow, JournalAssumption DEF JournalFiles
  <2>2. /\ UNCHANGED <<snapshot, cleaner, removals>>
        /\ \A v \in Writers : v # w => writer'[v] = writer[v]
    BY <1>3 DEF Open, WriteText, WriteNewline, JournalTypeOK
  <2>3. writer'[w].pc \in {"text", "newline", "idle", "open"}
    <3> writer[w] \in WriterType
      BY DEF JournalTypeOK
    <3>1. CASE Open(w) \/ WriteText(w)
      <4>1. CASE Open(w)
        <5>1. PICK id : writer' = [writer EXCEPT ![w] = [@ EXCEPT !.pc = "text", !.id = id]]
          BY <4>1 DEF Open
        <5>2. QED
          BY <5>1 DEF JournalTypeOK, WriterType
      <4>2. CASE WriteText(w)
        BY <4>2 DEF WriteText, JournalTypeOK, WriterType
      <4>3. QED
        BY <3>1, <4>1, <4>2
    <3>2. CASE WriteNewline(w)
      BY <3>2 DEF WriteNewline, JournalTypeOK, WriterType, Idle
    <3>3. QED
      BY <1>3, <3>1, <3>2
  <2>4. QED
    BY <2>1, <2>2, <2>3, SnapshotUntouched
<1>4. ASSUME NEW w \in Writers, NEW idea \in 1 .. MaxEntries, ReadIdeas(w, idea)
      PROVE  SnapshotInv'
  <2>1. UNCHANGED <<file, snapshot, cleaner, removals>>
    BY <1>4 DEF ReadIdeas
  <2>2. \A v \in Writers : writer'[v] = writer[v] \/ writer'[v].read = Texts(Ideas)
    BY <1>4 DEF ReadIdeas, JournalTypeOK, Idle
  <2>3. Texts(Ideas)' = Texts(Ideas)
    BY <2>1 DEF Texts
  <2>4. QED
    BY <2>1, <2>2, <2>3 DEF SnapshotInv, SnapshotIsExact
<1>5. ASSUME NEW w \in Writers, WriteSnapshot(w)  PROVE SnapshotInv'
  <2>1. UNCHANGED <<file, cleaner, removals>>
    BY <1>5 DEF WriteSnapshot
  <2>2. Texts(Ideas)' = Texts(Ideas)
    BY <2>1 DEF Texts
  <2>3. /\ writer[w].pc = "promote" /\ snapshot'.ideas = writer[w].read
        /\ snapshot'.promoted \in {0} \cup writer[w].read
        /\ \A v \in Writers : writer'[v] = writer[v] \/ writer'[v].pc = "idle"
    BY <1>5 DEF WriteSnapshot, Idle, JournalTypeOK
  <2>4. QED
    BY <2>1, <2>2, <2>3 DEF SnapshotInv, SnapshotIsExact
<1>6. ASSUME NEW w \in Writers, StopWriting(w)  PROVE SnapshotInv'
  BY <1>1, <1>6 DEF StopWriting, Idle, JournalTypeOK
<1>7. CASE BeginClean \/ CleanIndex \/ CleanSnapshot \/ EndClean
  <2>1. UNCHANGED <<file, writer>>
    BY <1>7 DEF BeginClean, CleanIndex, CleanSnapshot, EndClean
  <2>2. Texts(Ideas)' = Texts(Ideas)
    BY <2>1 DEF Texts
  <2>3. snapshot' = snapshot \/ snapshot' = NoSnapshot
    BY <1>7 DEF BeginClean, CleanIndex, CleanSnapshot, EndClean
  <2>4. \/ removals' = removals + 1
        \/ removals' = removals /\ cleaner'.listed \subseteq cleaner.listed
    <3>1. CASE BeginClean
      BY <3>1 DEF BeginClean
    <3>2. CASE CleanIndex \/ CleanSnapshot
      BY <3>2 DEF CleanIndex, CleanSnapshot, JournalTypeOK
    <3>3. CASE EndClean
      BY <3>3 DEF EndClean, NoClean
    <3>4. QED
      BY <1>7, <3>1, <3>2, <3>3
  <2>5. removals \in Nat
    BY DEF JournalTypeOK
  <2>6. SnapshotIsExact'
    BY <2>2, <2>3, <2>4, <2>5 DEF SnapshotInv, SnapshotIsExact, NoSnapshot
  <2>7. QED
    BY <2>1, <2>2, <2>4, <2>5, <2>6 DEF SnapshotInv
<1>8. ASSUME (\E f \in Logs : CleanLog(f)) \/ (\E r \in Runs : RemoveRun(r))  PROVE SnapshotInv'
  <2>1. UNCHANGED snapshot /\ removals' > 0
    BY <1>8 DEF CleanLog, RemoveRun, SnapshotInv, JournalTypeOK
  <2>2. QED
    BY <2>1 DEF SnapshotInv, SnapshotIsExact
<1>9. ASSUME NEW s \in Searches,
             BeginSearch(s) \/ ReadRuns(s) \/ ReadLog(s) \/ SearchError(s) \/ WriteIndex(s)
             \/ EndSearch(s)
      PROVE  SnapshotInv'
  BY <1>1, <1>9 DEF BeginSearch, ReadRuns, ReadLog, SearchError, WriteIndex, EndSearch
<1>10. CASE UNCHANGED journalVars
  BY <1>1, <1>10 DEF journalVars
<1>11. QED
  BY <1>2, <1>3, <1>4, <1>5, <1>6, <1>7, <1>8, <1>9, <1>10
  DEF JournalNext, JournalCommand, AddNote, Add

LEMMA SearchUntouched ==
  ASSUME NEW s \in Searches, SearchOf(s), search'[s] = search[s], removed \subseteq removed',
         search[s].before \cap due' \subseteq due
  PROVE  SearchOf(s)'
<1> Ahead(search[s].todo)' = Ahead(search[s].todo)
  BY DEF Ahead
<1> QED
  BY DEF SearchOf

LEMMA SearchStep ==
  JournalTypeOK /\ LogInv /\ SearchInv /\ [JournalNext]_journalVars => SearchInv'
<1> SUFFICES ASSUME JournalTypeOK, LogInv, SearchInv, [JournalNext]_journalVars,
                    NEW t \in Searches
             PROVE  SearchOf(t)'
  BY DEF SearchInv
<1> SearchOf(t)
  BY DEF SearchInv
<1>1. ASSUME UNCHANGED <<search, removed>>, due' \subseteq due  PROVE SearchOf(t)'
  BY <1>1, SearchUntouched
<1>2. ASSUME NEW w \in Writers,
             (\E places : Start(w, places)) \/ Open(w) \/ WriteText(w)
             \/ (\E idea \in 1 .. MaxEntries : ReadIdeas(w, idea))
             \/ WriteSnapshot(w) \/ StopWriting(w)
      PROVE  SearchOf(t)'
  BY <1>1, <1>2 DEF Start, Open, WriteText, ReadIdeas, WriteSnapshot, StopWriting
<1>3. ASSUME NEW w \in Writers, WriteNewline(w)  PROVE SearchOf(t)'
  <2>1. UNCHANGED <<search, removed>>
        /\ due' \subseteq due \cup {<<Head(writer[w].todo), writer[w].entry>>}
    BY <1>3 DEF WriteNewline
  <2>2. <<Head(writer[w].todo), writer[w].entry>> \notin search[t].before
    <3>1. Appending(w) /\ writer[w].todo \in Places
      BY <1>3 DEF WriteNewline, JournalTypeOK, Appending
    <3>2. Head(writer[w].todo) \in Ahead(writer[w].todo)
      BY <3>1, PlaceFacts
    <3>3. QED
      BY <3>1, <3>2 DEF LogInv, NotDue
  <2>3. QED
    BY <2>1, <2>2, SearchUntouched
<1>4. CASE BeginClean \/ CleanIndex \/ CleanSnapshot \/ EndClean
  BY <1>1, <1>4 DEF BeginClean, CleanIndex, CleanSnapshot, EndClean
<1>5. ASSUME NEW f \in Logs, CleanLog(f)  PROVE SearchOf(t)'
  BY <1>1, <1>5 DEF CleanLog, Forget
<1>6. ASSUME NEW r \in Runs, RemoveRun(r)  PROVE SearchOf(t)'
  <2>1. search'[t] = search[t] /\ removed \subseteq removed' /\ due' \subseteq due
    BY <1>6 DEF RemoveRun, Forget
  <2>2. QED
    BY <2>1, SearchUntouched
<1>7. ASSUME NEW s \in Searches,
             BeginSearch(s) \/ ReadRuns(s) \/ ReadLog(s) \/ SearchError(s) \/ WriteIndex(s)
             \/ EndSearch(s)
      PROVE  SearchOf(t)'
  <2>1. UNCHANGED <<due, removed>> /\ (t # s => search'[t] = search[t])
    BY <1>7 DEF BeginSearch, ReadRuns, ReadLog, SearchError, WriteIndex, EndSearch, JournalTypeOK
  <2>2. CASE t # s
    BY <2>1, <2>2, SearchUntouched
  <2> SUFFICES ASSUME t = s  PROVE SearchOf(s)'
    BY <2>2
  <2> search[s] \in SearchType
    BY DEF JournalTypeOK
  <2>3. CASE BeginSearch(s)
    <3>1. CASE index.there
      <4>1. search'[s].pc = "done" /\ search'[s].built = FALSE
        BY <2>3, <3>1 DEF BeginSearch, IdleSearch, JournalTypeOK
      <4>2. QED
        BY <4>1 DEF SearchOf
    <3>2. CASE ~ index.there
      <4>1. /\ search'[s].pc = "runs" /\ search'[s].found = {} /\ search'[s].todo = ReadingOrder
            /\ search'[s].before = {d \in due : d[1] \in Searched}
        BY <2>3, <3>2 DEF BeginSearch, IdleSearch, JournalTypeOK
      <4>2. Ahead(search'[s].todo) = Searched
        BY <4>1 DEF Ahead, Searched
      <4>3. QED
        BY <2>1, <4>1, <4>2 DEF SearchOf, Ahead
    <3>3. QED
      BY <3>1, <3>2
  <2>4. CASE ReadRuns(s)
    <3>1. /\ search'[s].pc = "read" /\ search'[s].found = {<<r, 0>> : r \in Runs \ removed}
          /\ search'[s].todo = search[s].todo /\ search'[s].before = search[s].before
          /\ search'[s].built = search[s].built
          /\ search[s].pc = "runs"
      BY <2>4 DEF ReadRuns, JournalTypeOK, SearchType
    <3>2. QED
      BY <2>1, <3>1 DEF SearchOf, Ahead
  <2>5. CASE ReadLog(s)
    <3>1. PICK f, todo, found :
            /\ f = Head(search[s].todo) /\ todo = Tail(search[s].todo)
            /\ found = search[s].found \cup {<<f, e>> : e \in Texts(f)}
      OBVIOUS
    <3>2. /\ search' = [search EXCEPT ![s] = [search[s] EXCEPT !.todo = todo, !.found = found]]
          /\ search[s].pc = "read" /\ search[s].todo # <<>>
      BY <2>5, <3>1 DEF ReadLog
    <3>3. search'[s] = [search[s] EXCEPT !.todo = todo, !.found = found]
      BY <3>2 DEF JournalTypeOK
    <3>4. /\ search'[s].pc = "read" /\ search'[s].todo = todo /\ search'[s].found = found
          /\ search'[s].before = search[s].before /\ search'[s].built = search[s].built
      BY <3>2, <3>3 DEF SearchType
    <3>5. Ahead(search[s].todo) \subseteq {f} \cup Ahead(todo)
      <4>1. /\ search[s].todo \in Seq(Logs) /\ todo \in Seq(Logs) /\ f = search[s].todo[1]
            /\ Len(todo) = Len(search[s].todo) - 1
            /\ \A i \in 1 .. Len(todo) : todo[i] = search[s].todo[i + 1]
        BY <3>1, <3>2, HeadTailProperties DEF SearchType
      <4>2. DOMAIN todo = 1 .. Len(todo) /\ DOMAIN search[s].todo = 1 .. Len(search[s].todo)
            /\ Len(todo) \in Nat
        BY <4>1, LenProperties
      <4>3. \A i \in DOMAIN search[s].todo :
              i = 1 \/ (i - 1 \in DOMAIN todo /\ todo[i - 1] = search[s].todo[i])
        BY <4>1, <4>2
      <4>4. ASSUME NEW g \in Ahead(search[s].todo)  PROVE g \in {f} \cup Ahead(todo)
        <5>1. PICK i \in DOMAIN search[s].todo : g = search[s].todo[i]
          BY <4>4 DEF Ahead
        <5>2. CASE i = 1
          BY <4>1, <5>1, <5>2
        <5>3. CASE i - 1 \in DOMAIN todo /\ todo[i - 1] = search[s].todo[i]
          BY <5>1, <5>3 DEF Ahead
        <5>4. QED
          BY <4>3, <5>2, <5>3
      <4>5. QED
        BY <4>4
    <3>6. \A d \in due : d[1] = f => d \in found
      <4> SUFFICES ASSUME NEW d \in due, d[1] = f  PROVE d \in found
        OBVIOUS
      <4>1. d \in JournalFiles \X Nat /\ d = <<d[1], d[2]>>
        BY DEF JournalTypeOK, Entries
      <4>2. d[2] \in Texts(d[1])
        BY <4>1 DEF LogInv, Dues
      <4>3. QED
        BY <3>1, <4>1, <4>2
    <3>7. search[s].found \subseteq found
      BY <3>1
    <3>8. ASSUME search[s].built, NEW d \in search[s].before \cap due
          PROVE  d \in found \/ d[1] \in Ahead(todo)
      <4>1. d \in search[s].found \/ d[1] \in Ahead(search[s].todo)
        BY <3>2, <3>8 DEF SearchOf
      <4>2. QED
        BY <3>5, <3>6, <3>7, <4>1
    <3>9. Ahead(search'[s].todo) = Ahead(todo)
      BY <3>4
    <3>10. search[s].built => {<<r, 0>> : r \in Runs \ removed'} \subseteq found
      BY <2>1, <3>2, <3>7 DEF SearchOf
    <3>11. QED
      BY <2>1, <3>4, <3>8, <3>9, <3>10 DEF SearchOf, Ahead
  <2>6. CASE WriteIndex(s)
    <3>1. /\ search'[s] = [search[s] EXCEPT !.pc = "done"]
          /\ search[s].pc = "read" /\ search[s].todo = <<>>
      BY <2>6 DEF WriteIndex, JournalTypeOK
    <3>2. /\ search'[s].pc = "done" /\ search'[s].todo = <<>> /\ search'[s].found = search[s].found
          /\ search'[s].before = search[s].before /\ search'[s].built = search[s].built
      BY <3>1 DEF SearchType
    <3>3. QED
      BY <2>1, <3>1, <3>2 DEF SearchOf, Ahead
  <2>7. CASE SearchError(s) \/ EndSearch(s)
    <3>1. search'[s] = IdleSearch
      BY <2>7 DEF SearchError, EndSearch, JournalTypeOK
    <3>2. QED
      BY <3>1 DEF SearchOf, IdleSearch
  <2>8. QED
    BY <1>7, <2>3, <2>4, <2>5, <2>6, <2>7
<1>8. CASE UNCHANGED journalVars
  BY <1>1, <1>8 DEF journalVars
<1>9. QED
  BY <1>2, <1>3, <1>4, <1>5, <1>6, <1>7, <1>8 DEF JournalNext, JournalCommand, AddNote, Add

LEMMA JournalInvHolds == JournalInv => JournalIsExact
<1> SUFFICES ASSUME JournalInv  PROVE JournalIsExact
  OBVIOUS
<1>1. \A f \in JournalFiles : Exact(f)
  BY DEF JournalInv, LogInv, Sound, Dues, Exact
<1>2. removed = {} => NotesAgree
  BY DEF JournalInv, NoteInv
<1>3. SnapshotIsExact
  BY DEF JournalInv, SnapshotInv
<1>4. FreshSearchSeesAll
  <2>1. Ahead(<<>>) = {}
    BY DEF Ahead
  <2>2. QED
    BY <2>1 DEF JournalInv, SearchInv, SearchOf, FreshSearchSeesAll
<1>5. QED
  BY <1>1, <1>2, <1>3, <1>4 DEF JournalIsExact, LogsAreExact

(* The logs can be read back and hold each append that ended, once; a note of the      *)
(* project is one of a run; a promotion shows ideas of the log; and a search that      *)
(* built its index found all there was and still is: for any number of commands,       *)
(* searches, logs, runs and entries, with "rlab cache clean" and removals of runs in   *)
(* between.                                                                            *)
THEOREM JournalAlwaysExact == JournalSpec => []JournalIsExact
<1>1. JournalInit => JournalInv
  BY JournalStarts
<1>2. JournalInv /\ [JournalNext]_journalVars => JournalInv'
  BY JournalTypeStep, LogStep, NoteStep, SnapshotStep, SearchStep DEF JournalInv
<1>3. JournalInv => JournalIsExact
  BY JournalInvHolds
<1>4. QED
  BY <1>1, <1>2, <1>3, PTL DEF JournalSpec

-----------------------------------------------------------------------------
(* ProjectConfig.  What a command has made of the layers when no edit      *)
(* disturbed it: the configuration after each step is that of the layers   *)
(* so far (Made), and it got there only past the checks on the way.        *)

Stages == {"name", "pyproject", "lab", "environment", "modules", "validate", "loaded",
           "resolved", "error"}

\* The command is idle, or a record of what it does.
LoadTypeOK ==
  /\ pyproject \in [Dirs -> Files(PyprojectFiles)]
  /\ lab \in [Dirs -> Files(LabFiles)]
  /\ load = NoCommand \/ load \in [pc : Stages, cwd : Dirs, given : {0, 1},
                                   environment : Environments, root : Dirs,
                                   config : {load.config}, clean : BOOLEAN]

Made0 == Defaults(InferName(pyproject[load.root], load.root))
Made1 == OfPyproject(Made0, LayerOf(pyproject[load.root]))
Made2 == OfLab(Made1, LayerOf(lab[load.root]))
Made3 == OfEnvironment(Made2, load.environment)
Made == IF Made3.modules # {} THEN Made3
        ELSE [Made3 EXCEPT !.modules = InferModules(load.root, Made3.name)]

BadEnvironment == Has(load.environment, "strict") /\ load.environment.strict = BadBoolean
BlankText == Made.name = Blank \/ Made.executable = Blank
OutsideRoot == Made.runs = Outside \/ Made.cache = Outside \/ Made.registry_cache[1] = Outside

RootFound == load.root = load.given \/ IsRoot(load.root)

\* The checks that are behind a command at a stage, and the configuration it has then.
Passed(stage, config) ==
  /\ stage \in {"pyproject", "lab", "environment", "modules", "validate", "loaded", "resolved"}
       => pyproject[load.root] # Broken
  /\ stage \in {"environment", "modules", "validate", "loaded", "resolved"}
       => lab[load.root] # Broken
  /\ stage \in {"modules", "validate", "loaded", "resolved"} => ~BadEnvironment
  /\ stage \in {"loaded", "resolved"} => ~BlankText
  /\ stage = "resolved" => ~OutsideRoot
  /\ stage = "error" => \/ pyproject[load.root] = Broken \/ lab[load.root] = Broken
                        \/ BadEnvironment \/ BlankText \/ OutsideRoot
  /\ stage = "pyproject" => config = Made0
  /\ stage = "lab" => config = Made1
  /\ stage = "environment" => config = Made2
  /\ stage = "modules" => config = Made3
  /\ stage \in {"validate", "loaded", "resolved"} => config = Made

Settled == load.pc # "idle" /\ load.clean => RootFound /\ Passed(load.pc, load.config)

LoadInv == LoadTypeOK /\ Settled

-----------------------------------------------------------------------------
(* ProjectConfig: the operators.                                           *)

\* A set of numbers up to a bound has a greatest.
LEMMA Greatest == ASSUME NEW n \in Nat, NEW S \in SUBSET (0 .. n), S # {}
                  PROVE  Max(S) \in S /\ \A d \in S : Max(S) >= d
<1> DEFINE R == OpToRel(<, Nat)
           Gaps == {n - d : d \in S}
<1>1. Gaps \subseteq Nat /\ Gaps # {}
  <2>1. \A d \in S : n - d \in Nat
    OBVIOUS
  <2>2. PICK d : d \in S
    OBVIOUS
  <2>3. n - d \in Gaps
    BY <2>2
  <2> QED BY <2>1, <2>3
<1>2. PICK x \in Gaps : \A y \in Gaps : ~ (<<y, x>> \in R)
  <2> HIDE DEF R, Gaps
  <2>1. IsWellFoundedOn(R, Nat)
    BY NatLessThanWellFounded DEF R
  <2> QED BY <1>1, <2>1, WFMin
<1>3. PICK m \in S : x = n - m
  BY <1>2
<1>4. ASSUME NEW d \in S PROVE m >= d
  <2>1. ~ (<<n - d, n - m>> \in R)
    BY <1>2, <1>3
  <2>2. ~ (n - d < n - m)
    BY <1>1, <1>3, <2>1 DEF OpToRel
  <2> QED BY <2>2
<1> QED BY <1>4 DEF Max

\* The directory a command takes without --root is the nearest.
LEMMA FoundRoot == ASSUME NEW cwd \in Dirs
                   PROVE  /\ FindRoot(cwd) \in Dirs
                          /\ Marked(FindRoot(cwd)) \/ FindRoot(cwd) = cwd
                          /\ \A d \in 1 .. cwd : Marked(d) => d <= FindRoot(cwd)
<1>1. Dirs = 1 .. Depth /\ Depth \in Nat /\ cwd \in Nat /\ cwd <= Depth
  BY DirectoryAssumption DEF Dirs
<1>2. CASE ~ \E d \in 1 .. cwd : Marked(d)
  BY <1>2 DEF FindRoot
<1>3. CASE \E d \in 1 .. cwd : Marked(d)
  <2> DEFINE S == {d \in 1 .. cwd : Marked(d)}
  <2>1. S # {} /\ S \in SUBSET (0 .. cwd)
    BY <1>1, <1>3
  <2>2. Max(S) \in S /\ \A d \in S : Max(S) >= d
    <3> HIDE DEF S
    <3> QED BY <1>1, <2>1, Greatest
  <2>3. FindRoot(cwd) = Max(S)
    BY <1>3 DEF FindRoot
  <2>4. FindRoot(cwd) \in S /\ \A d \in S : FindRoot(cwd) >= d
    BY <2>2, <2>3
  <2> QED BY <1>1, <2>4
<1> QED BY <1>2, <1>3

\* The last of three layers that names a setting.
LEMMA LastLayerIs ==
  ASSUME NEW s
  PROVE  LastLayer(s) = IF Has(Layers[3], s) THEN 3 ELSE IF Has(Layers[2], s) THEN 2
                        ELSE IF Has(Layers[1], s) THEN 1 ELSE 0
<1> DEFINE S == {0} \cup {i \in DOMAIN Layers : Has(Layers[i], s)}
<1>1. DOMAIN Layers = 1 .. 3
  BY DEF Layers
<1>2. S \in SUBSET (0 .. 3) /\ S # {}
  BY <1>1
<1>3. Max(S) \in S /\ \A i \in S : Max(S) >= i
  <2> HIDE DEF S
  <2> QED BY <1>2, Greatest
<1>4. LastLayer(s) = Max(S)
  BY DEF LastLayer
<1>5. LastLayer(s) \in S /\ \A i \in S : LastLayer(s) >= i
  BY <1>3, <1>4
<1>6. \A i \in 1 .. 3 : i \in S <=> Has(Layers[i], s)
  BY <1>1
<1>7. LastLayer(s) = IF Has(Layers[3], s) THEN 3 ELSE IF Has(Layers[2], s) THEN 2
                     ELSE IF Has(Layers[1], s) THEN 1 ELSE 0
  <2> HIDE DEF S
  <2>1. LastLayer(s) \in 0 .. 3
    BY <1>2, <1>5
  <2>2. CASE Has(Layers[3], s)
    BY <1>5, <1>6, <2>1, <2>2
  <2>3. CASE ~Has(Layers[3], s) /\ Has(Layers[2], s)
    BY <1>5, <1>6, <2>1, <2>3
  <2>4. CASE ~Has(Layers[3], s) /\ ~Has(Layers[2], s) /\ Has(Layers[1], s)
    BY <1>5, <1>6, <2>1, <2>4
  <2>5. CASE ~Has(Layers[3], s) /\ ~Has(Layers[2], s) /\ ~Has(Layers[1], s)
    BY <1>5, <1>6, <2>1, <2>5
  <2> QED BY <2>2, <2>3, <2>4, <2>5
<1> QED BY <1>7

LEMMA SettingIs ==
  ASSUME NEW s, NEW d
  PROVE  Setting(s, d) = IF Has(Layers[3], s) THEN Layers[3][s]
                         ELSE IF Has(Layers[2], s) THEN Layers[2][s]
                         ELSE IF Has(Layers[1], s) THEN Layers[1][s] ELSE d
BY LastLayerIs DEF Setting

\* A layer names only what its source may.
LEMMA LayerDomains ==
  ASSUME LoadTypeOK, load # NoCommand
  PROVE  /\ DOMAIN Layers[1] \subseteq {"name", "modules", "runs", "executable", "cache", "strict",
                                       "project"}
         /\ DOMAIN Layers[2] \subseteq {"name", "modules", "runs", "executable", "cache", "strict",
                                       "load", "registry_cache", "seed", "params"}
         /\ DOMAIN Layers[3] \subseteq {"runs", "executable", "cache", "strict"}
<1>1. load.root \in Dirs /\ load.environment \in Environments
  BY DEF LoadTypeOK
<1>2. \A x \in Files(PyprojectFiles) : LayerOf(x) \in PyprojectFiles \cup {<<>>}
  BY DEF Files, LayerOf, Whole, Absent, Broken
<1>3. \A x \in Files(LabFiles) : LayerOf(x) \in LabFiles \cup {<<>>}
  BY DEF Files, LayerOf, Whole, Absent, Broken
<1>4. DOMAIN <<>> = {}
  OBVIOUS
<1>5. /\ Layers[1] \in PyprojectFiles \cup {<<>>} /\ Layers[2] \in LabFiles \cup {<<>>}
      /\ Layers[3] \in Environments
  BY <1>1, <1>2, <1>3 DEF Layers, LoadTypeOK
<1> QED BY <1>4, <1>5, LayerAssumption

ConfigSettings == {"name", "modules", "runs", "executable", "cache", "registry_cache", "strict",
                   "seed", "params"}

\* A layer applied, with the paths that follow its cache.
LEMMA ApplyAt ==
  ASSUME NEW config, NEW layer, NEW settings, DOMAIN config = ConfigSettings, "cache" \notin settings
  PROVE  LET applied == Apply(ApplyCache(config, layer), layer, settings)
         IN /\ DOMAIN applied = ConfigSettings
            /\ \A s \in ConfigSettings \ {"cache", "registry_cache"} :
                 applied[s] = IF s \in settings /\ Has(layer, s) THEN layer[s] ELSE config[s]
            /\ applied.cache = IF Has(layer, "cache") THEN layer.cache ELSE config.cache
            /\ applied.registry_cache =
                 IF "registry_cache" \in settings /\ Has(layer, "registry_cache")
                 THEN layer.registry_cache
                 ELSE IF Has(layer, "cache") THEN InCache(layer.cache) ELSE config.registry_cache
<1> DEFINE cached == ApplyCache(config, layer)
<1>1. /\ DOMAIN cached = ConfigSettings
      /\ \A s \in ConfigSettings \ {"cache", "registry_cache"} : cached[s] = config[s]
      /\ cached.cache = IF Has(layer, "cache") THEN layer.cache ELSE config.cache
      /\ cached.registry_cache =
           IF Has(layer, "cache") THEN InCache(layer.cache) ELSE config.registry_cache
  BY DEF ApplyCache, SetCachePaths, ConfigSettings
<1> HIDE DEF cached
<1>2. /\ DOMAIN Apply(cached, layer, settings) = ConfigSettings
      /\ \A s \in ConfigSettings : Apply(cached, layer, settings)[s] =
           IF s \in settings /\ Has(layer, s) THEN layer[s] ELSE cached[s]
  BY <1>1 DEF Apply
<1> QED BY <1>1, <1>2 DEF cached, ConfigSettings

\* The environment applied on the two files gives each setting its last value.
LEMMA MadeAt ==
  ASSUME LoadTypeOK, load # NoCommand
  PROVE  /\ DOMAIN Made3 = ConfigSettings
         /\ Made3.name = ProjectName /\ Made3.modules = NamedModules
         /\ Made3.runs = Setting("runs", DefaultPath)
         /\ Made3.executable = Setting("executable", DefaultExecutable)
         /\ Made3.cache = Setting("cache", DefaultCache)
         /\ Made3.registry_cache = RegistryCachePath
         /\ Made3.strict = Setting("strict", FALSE)
         /\ Made3.seed = Setting("seed", NoSeed) /\ Made3.params = Setting("params", NoParams)
<1> DEFINE P == Layers[1]  L == Layers[2]  E == Layers[3]
           loaded == IF Has(L, "load") THEN [Made1 EXCEPT !.modules = L.load] ELSE Made1
<1>1. /\ P = LayerOf(pyproject[load.root]) /\ L = LayerOf(lab[load.root])
      /\ E = load.environment
  BY DEF Layers
<1>2. /\ \A s \in {"load", "registry_cache", "seed", "params"} : ~Has(P, s)
      /\ \A s \in {"name", "modules", "load", "registry_cache", "seed", "params"} : ~Has(E, s)
  BY LayerDomains DEF Has
<1>3. /\ DOMAIN Made0 = ConfigSettings
      /\ Made0.name = InferName(pyproject[load.root], load.root) /\ Made0.modules = {}
      /\ Made0.runs = DefaultPath /\ Made0.executable = DefaultExecutable
      /\ Made0.cache = DefaultCache /\ Made0.registry_cache = InCache(DefaultCache)
      /\ Made0.strict = FALSE /\ Made0.seed = NoSeed /\ Made0.params = NoParams
  BY DEF Made0, Defaults, ConfigSettings
<1>4. Made1 = Apply(ApplyCache(Made0, P), P, {"name", "modules", "runs", "strict", "executable"})
  BY <1>1 DEF Made1, OfPyproject
<1>5. /\ DOMAIN Made1 = ConfigSettings
      /\ \A s \in {"name", "modules", "runs", "executable", "strict"} :
           Made1[s] = IF Has(P, s) THEN P[s] ELSE Made0[s]
      /\ Made1.cache = IF Has(P, "cache") THEN P.cache ELSE Made0.cache
      /\ Made1.registry_cache = IF Has(P, "cache") THEN InCache(P.cache) ELSE Made0.registry_cache
      /\ Made1.seed = Made0.seed /\ Made1.params = Made0.params
  <2> DEFINE applied == Apply(ApplyCache(Made0, P), P, {"name", "modules", "runs", "strict", "executable"})
  <2> HIDE DEF P
  <2>1. /\ DOMAIN applied = ConfigSettings
        /\ \A s \in ConfigSettings \ {"cache", "registry_cache"} :
             applied[s] = IF s \in {"name", "modules", "runs", "strict", "executable"} /\ Has(P, s)
                          THEN P[s] ELSE Made0[s]
        /\ applied.cache = IF Has(P, "cache") THEN P.cache ELSE Made0.cache
        /\ applied.registry_cache =
             IF "registry_cache" \in {"name", "modules", "runs", "strict", "executable"} /\ Has(P, "registry_cache")
             THEN P.registry_cache
             ELSE IF Has(P, "cache") THEN InCache(P.cache) ELSE Made0.registry_cache
    BY <1>3, ApplyAt
  <2> QED BY <1>4, <2>1 DEF ConfigSettings
<1>6. /\ DOMAIN loaded = ConfigSettings
      /\ \A s \in ConfigSettings \ {"modules"} : loaded[s] = Made1[s]
      /\ loaded.modules = IF Has(L, "load") THEN L.load ELSE Made1.modules
  <2> HIDE DEF L
  <2> QED BY <1>5 DEF ConfigSettings
<1>7. Made2 = Apply(ApplyCache(loaded, L), L, ConfigSettings \ {"cache"})
  <2>1. Made2 = Apply(ApplyCache(loaded, L), L, DOMAIN Made1 \ {"cache"})
    BY <1>1 DEF Made2, OfLab
  <2> QED BY <1>5, <2>1
<1>8. /\ DOMAIN Made2 = ConfigSettings
      /\ \A s \in {"name", "modules", "runs", "executable", "strict", "seed", "params"} :
           Made2[s] = IF Has(L, s) THEN L[s] ELSE loaded[s]
      /\ Made2.cache = IF Has(L, "cache") THEN L.cache ELSE loaded.cache
      /\ Made2.registry_cache =
           IF Has(L, "registry_cache") THEN L.registry_cache
           ELSE IF Has(L, "cache") THEN InCache(L.cache) ELSE loaded.registry_cache
  <2> DEFINE applied == Apply(ApplyCache(loaded, L), L, ConfigSettings \ {"cache"})
  <2> HIDE DEF L, loaded
  <2>1. /\ DOMAIN applied = ConfigSettings
        /\ \A s \in ConfigSettings \ {"cache", "registry_cache"} :
             applied[s] = IF s \in ConfigSettings \ {"cache"} /\ Has(L, s)
                          THEN L[s] ELSE loaded[s]
        /\ applied.cache = IF Has(L, "cache") THEN L.cache ELSE loaded.cache
        /\ applied.registry_cache =
             IF "registry_cache" \in ConfigSettings \ {"cache"} /\ Has(L, "registry_cache")
             THEN L.registry_cache
             ELSE IF Has(L, "cache") THEN InCache(L.cache) ELSE loaded.registry_cache
    BY <1>6, ApplyAt
  <2> QED BY <1>7, <2>1 DEF ConfigSettings
<1>9. Made3 = Apply(ApplyCache(Made2, E), E, {"strict", "executable", "runs"})
  BY <1>1 DEF Made3, OfEnvironment
<1>10. /\ DOMAIN Made3 = ConfigSettings
       /\ \A s \in {"runs", "executable", "strict"} :
            Made3[s] = IF Has(E, s) THEN E[s] ELSE Made2[s]
       /\ \A s \in {"name", "modules", "seed", "params"} : Made3[s] = Made2[s]
       /\ Made3.cache = IF Has(E, "cache") THEN E.cache ELSE Made2.cache
       /\ Made3.registry_cache = IF Has(E, "cache") THEN InCache(E.cache) ELSE Made2.registry_cache
  <2> DEFINE applied == Apply(ApplyCache(Made2, E), E, {"strict", "executable", "runs"})
  <2> HIDE DEF E
  <2>1. /\ DOMAIN applied = ConfigSettings
        /\ \A s \in ConfigSettings \ {"cache", "registry_cache"} :
             applied[s] = IF s \in {"strict", "executable", "runs"} /\ Has(E, s)
                          THEN E[s] ELSE Made2[s]
        /\ applied.cache = IF Has(E, "cache") THEN E.cache ELSE Made2.cache
        /\ applied.registry_cache =
             IF "registry_cache" \in {"strict", "executable", "runs"} /\ Has(E, "registry_cache")
             THEN E.registry_cache
             ELSE IF Has(E, "cache") THEN InCache(E.cache) ELSE Made2.registry_cache
    BY <1>8, ApplyAt
  <2> QED BY <1>9, <2>1 DEF ConfigSettings
<1>11. \A s, d : Setting(s, d) = IF Has(E, s) THEN E[s] ELSE IF Has(L, s) THEN L[s]
                                 ELSE IF Has(P, s) THEN P[s] ELSE d
  BY SettingIs
<1> HIDE DEF P, L, E, loaded
<1>12. /\ Made3.runs = Setting("runs", DefaultPath)
       /\ Made3.executable = Setting("executable", DefaultExecutable)
       /\ Made3.cache = Setting("cache", DefaultCache)
       /\ Made3.strict = Setting("strict", FALSE)
  BY <1>3, <1>5, <1>6, <1>8, <1>10, <1>11 DEF ConfigSettings
<1>13. /\ Made3.name = ProjectName
       /\ Made3.seed = Setting("seed", NoSeed) /\ Made3.params = Setting("params", NoParams)
  BY <1>2, <1>3, <1>5, <1>6, <1>8, <1>10, <1>11 DEF ConfigSettings, ProjectName
<1>14. Made3.modules = NamedModules
  <2>1. Made3.modules = IF Has(L, "modules") THEN L.modules
                        ELSE IF Has(L, "load") THEN L.load
                        ELSE IF Has(P, "modules") THEN P.modules ELSE {}
    BY <1>3, <1>5, <1>6, <1>8, <1>10
  <2>2. Setting("modules", {}) = IF Has(L, "modules") THEN L.modules
                                 ELSE IF Has(P, "modules") THEN P.modules ELSE {}
    BY <1>2, <1>11
  <2>3. NamedModules = CASE Has(L, "modules") -> L.modules
                         [] ~Has(L, "modules") /\ Has(L, "load") -> L.load
                         [] OTHER -> Setting("modules", {})
    BY DEF NamedModules, L
  <2> QED BY <2>1, <2>2, <2>3
<1>15. Made3.registry_cache = RegistryCachePath
  <2>1. LastLayer("cache") = 3 <=> Has(E, "cache")
    BY LastLayerIs DEF E
  <2>2. RegistryCachePath = IF Has(L, "registry_cache") /\ ~Has(E, "cache") THEN L.registry_cache
                            ELSE InCache(Setting("cache", DefaultCache))
    BY <2>1 DEF RegistryCachePath, L
  <2>3. Setting("cache", DefaultCache) =
          IF Has(E, "cache") THEN E.cache ELSE IF Has(L, "cache") THEN L.cache
          ELSE IF Has(P, "cache") THEN P.cache ELSE DefaultCache
    BY <1>11
  <2>4. Made3.registry_cache =
          IF Has(E, "cache") THEN InCache(E.cache)
          ELSE IF Has(L, "registry_cache") THEN L.registry_cache
          ELSE IF Has(L, "cache") THEN InCache(L.cache)
          ELSE IF Has(P, "cache") THEN InCache(P.cache) ELSE InCache(DefaultCache)
    BY <1>3, <1>5, <1>6, <1>8, <1>10 DEF ConfigSettings
  <2> QED BY <2>2, <2>3, <2>4
<1> QED BY <1>10, <1>12, <1>13, <1>14, <1>15

\* With the inferred modules, it is the effective configuration.
LEMMA MadeIsEffective == ASSUME LoadTypeOK, load # NoCommand PROVE Made = EffectiveConfig
<1>1. DOMAIN EffectiveConfig = ConfigSettings
  BY DEF EffectiveConfig, ConfigSettings
<1>2. Made3 = [s \in DOMAIN Made3 |-> Made3[s]]
  BY DEF Made3, OfEnvironment, Apply
<1>3. EffectiveConfig = [s \in DOMAIN EffectiveConfig |-> EffectiveConfig[s]]
  BY DEF EffectiveConfig
<1>4. /\ EffectiveConfig.name = Made3.name
      /\ EffectiveConfig.modules = IF Made3.modules = {} THEN InferModules(load.root, Made3.name)
                                   ELSE Made3.modules
      /\ EffectiveConfig.runs = Made3.runs /\ EffectiveConfig.executable = Made3.executable
      /\ EffectiveConfig.cache = Made3.cache
      /\ EffectiveConfig.registry_cache = Made3.registry_cache
      /\ EffectiveConfig.strict = Made3.strict /\ EffectiveConfig.seed = Made3.seed
      /\ EffectiveConfig.params = Made3.params
  BY MadeAt DEF EffectiveConfig
<1>5. /\ DOMAIN Made = ConfigSettings
      /\ Made.modules = IF Made3.modules = {} THEN InferModules(load.root, Made3.name)
                        ELSE Made3.modules
      /\ \A s \in ConfigSettings \ {"modules"} : Made[s] = Made3[s]
  BY MadeAt DEF Made, ConfigSettings
<1>6. Made = [s \in DOMAIN Made |-> Made[s]]
  BY <1>2 DEF Made
<1>7. \A s \in ConfigSettings : Made[s] = EffectiveConfig[s]
  BY <1>4, <1>5 DEF ConfigSettings
<1> QED BY <1>1, <1>3, <1>5, <1>6, <1>7

-----------------------------------------------------------------------------
(* ProjectConfig: the steps.                                               *)

LEMMA ConfigStarts == ConfigInit => LoadInv
<1> SUFFICES ASSUME ConfigInit PROVE LoadInv
  OBVIOUS
<1>1. load.pc = "idle"
  BY DEF ConfigInit, NoCommand
<1> QED BY <1>1 DEF ConfigInit, LoadInv, LoadTypeOK, Settled

\* While the files and what the command was given stay, so does what they make.
LEMMA SameLayers ==
  ASSUME UNCHANGED <<pyproject, lab, git, sources>>, load'.root = load.root,
         load'.environment = load.environment, load'.cwd = load.cwd, load'.given = load.given
  PROVE  /\ Made0' = Made0 /\ Made1' = Made1 /\ Made2' = Made2 /\ Made3' = Made3 /\ Made' = Made
         /\ BadEnvironment' = BadEnvironment /\ RootFound' = RootFound
         /\ BlankText' = BlankText /\ OutsideRoot' = OutsideRoot
<1>1. Made0' = Made0
  BY DEF Made0
<1>2. Made1' = Made1
  BY <1>1 DEF Made1
<1>3. Made2' = Made2
  BY <1>2 DEF Made2
<1>4. Made3' = Made3
  BY <1>3 DEF Made3
<1>5. Made' = Made
  BY <1>4 DEF Made, InferModules
<1>6. BlankText' = BlankText /\ OutsideRoot' = OutsideRoot
  BY <1>5 DEF BlankText, OutsideRoot
<1> QED BY <1>1, <1>2, <1>3, <1>4, <1>5, <1>6 DEF BadEnvironment, RootFound, IsRoot, Marked

\* A step of the command at work: it moves on, or ends in an error.
LEMMA StepKeeps ==
  ASSUME LoadTypeOK, NEW from \in Stages, NEW to \in Stages, NEW STATE ok, NEW STATE config,
         Step(from, to, ok, config)
  PROVE  /\ LoadTypeOK' /\ load # NoCommand /\ load.pc = from
         /\ load'.root = load.root /\ load'.environment = load.environment
         /\ load'.cwd = load.cwd /\ load'.given = load.given /\ load'.clean = load.clean
         /\ UNCHANGED <<pyproject, lab, git, sources>>
         /\ ok => load'.pc = to /\ load'.config = config
         /\ ~ok => load'.pc = "error"
<1>1. load.pc = from /\ UNCHANGED <<pyproject, lab, git, sources>>
  BY DEF Step, Keep
<1>2. load # NoCommand
  BY <1>1 DEF NoCommand, Stages
<1>3. load \in [pc : Stages, cwd : Dirs, given : {0, 1}, environment : Environments, root : Dirs,
               config : {load.config}, clean : BOOLEAN]
  BY <1>2 DEF LoadTypeOK
<1>4. CASE ok
  <2>1. load' = [load EXCEPT !.pc = to, !.config = config]
    BY <1>4 DEF Step, Continue
  <2>2. /\ load' \in [pc : Stages, cwd : Dirs, given : {0, 1}, environment : Environments,
                     root : Dirs, config : {load'.config}, clean : BOOLEAN]
        /\ load'.pc = to /\ load'.config = config /\ load'.clean = load.clean
        /\ load'.root = load.root /\ load'.environment = load.environment
        /\ load'.cwd = load.cwd /\ load'.given = load.given
    BY <1>3, <2>1
  <2> QED BY <1>1, <1>2, <1>4, <2>2 DEF LoadTypeOK
<1>5. CASE ~ok
  <2>1. load' = [load EXCEPT !.pc = "error"]
    BY <1>5 DEF Step
  <2>2. /\ load' \in [pc : Stages, cwd : Dirs, given : {0, 1}, environment : Environments,
                     root : Dirs, config : {load'.config}, clean : BOOLEAN]
        /\ load'.pc = "error" /\ load'.clean = load.clean
        /\ load'.root = load.root /\ load'.environment = load.environment
        /\ load'.cwd = load.cwd /\ load'.given = load.given
    BY <1>3, <2>1 DEF Stages
  <2> QED BY <1>1, <1>2, <1>5, <2>2 DEF LoadTypeOK
<1> QED BY <1>4, <1>5

\* A step is sound if it takes one stage to the next.
LEMMA StepSound ==
  ASSUME LoadInv, NEW from \in Stages, NEW to \in Stages, NEW STATE ok, NEW STATE config,
         Step(from, to, ok, config), load.pc = from,
         Passed(from, load.config) /\ ok => Passed(to, config),
         Passed(from, load.config) /\ ~ok => Passed("error", load.config)
  PROVE  LoadInv'
<1>1. /\ LoadTypeOK' /\ load'.clean = load.clean
      /\ load'.root = load.root /\ load'.environment = load.environment
      /\ load'.cwd = load.cwd /\ load'.given = load.given
      /\ UNCHANGED <<pyproject, lab, git, sources>>
      /\ ok => load'.pc = to /\ load'.config = config
      /\ ~ok => load'.pc = "error"
  BY StepKeeps DEF LoadInv
<1>2. /\ Made0' = Made0 /\ Made1' = Made1 /\ Made2' = Made2 /\ Made3' = Made3 /\ Made' = Made
      /\ BadEnvironment' = BadEnvironment /\ RootFound' = RootFound
      /\ BlankText' = BlankText /\ OutsideRoot' = OutsideRoot
  BY <1>1, SameLayers
<1>3. load.clean => RootFound /\ Passed(from, load.config)
  BY DEF LoadInv, Settled, Stages
<1>4. CASE ok
  <2>1. load'.clean => RootFound' /\ Passed(to, config)
    BY <1>1, <1>2, <1>3, <1>4
  <2> QED BY <1>1, <1>2, <1>4, <2>1 DEF LoadInv, Settled, Passed
<1>5. CASE ~ok
  <2>1. load'.clean => RootFound' /\ Passed("error", load.config)
    BY <1>1, <1>2, <1>3, <1>5
  <2> QED BY <1>1, <1>2, <1>5, <2>1 DEF LoadInv, Settled, Passed
<1> QED BY <1>4, <1>5

LEMMA ConfigStep == ASSUME LoadInv, ConfigNext PROVE LoadInv'
<1>1. ASSUME NEW cwd \in Dirs, NEW start \in {0, 1}, NEW environment \in Environments,
             Begin(cwd, start, environment)
      PROVE  LoadInv'
  <2>1. /\ UNCHANGED <<pyproject, lab, git, sources>>
        /\ load'.pc = "name" /\ load'.cwd = cwd /\ load'.given = start
        /\ load'.environment = environment /\ load'.clean = TRUE
        /\ load'.root = IF start # 0 THEN start ELSE FindRoot(cwd)
    BY <1>1 DEF Begin, Keep
  <2>2. 1 \in Dirs /\ FindRoot(cwd) \in Dirs
    BY FoundRoot, DirectoryAssumption DEF Dirs
  <2>3. LoadTypeOK'
    BY <1>1, <2>2 DEF LoadInv, LoadTypeOK, Begin, Keep, Stages
  <2>4. RootFound'
    BY <2>1, FoundRoot DEF RootFound, IsRoot, Marked
  <2>5. Passed(load.pc, load.config)'
    BY <2>1 DEF Passed
  <2> QED BY <2>3, <2>4, <2>5 DEF LoadInv, Settled
<1>2. CASE InferProjectName
  <2> DEFINE ok == pyproject[load.root] # Broken
             config == Defaults(InferName(pyproject[load.root], load.root))
  <2>1. Step("name", "pyproject", ok, config)
    BY <1>2 DEF InferProjectName
  <2>2. load.pc = "name"
    BY <2>1 DEF Step
  <2>3. ok => Passed("pyproject", config)
    BY DEF Passed, Made0
  <2>4. ~ok => Passed("error", load.config)
    BY DEF Passed
  <2> HIDE DEF ok, config
  <2> QED BY <2>1, <2>2, <2>3, <2>4, StepSound DEF Stages
<1>3. CASE ApplyPyproject
  <2> DEFINE ok == pyproject[load.root] # Broken
             config == OfPyproject(load.config, LayerOf(pyproject[load.root]))
  <2>1. Step("pyproject", "lab", ok, config)
    BY <1>3 DEF ApplyPyproject
  <2>2. load.pc = "pyproject"
    BY <2>1 DEF Step
  <2>3. Passed("pyproject", load.config) /\ ok => Passed("lab", config)
    BY DEF Passed, Made1
  <2>4. ~ok => Passed("error", load.config)
    BY DEF Passed
  <2> HIDE DEF ok, config
  <2> QED BY <2>1, <2>2, <2>3, <2>4, StepSound DEF Stages
<1>4. CASE ApplyLabToml
  <2> DEFINE ok == lab[load.root] # Broken
             config == OfLab(load.config, LayerOf(lab[load.root]))
  <2>1. Step("lab", "environment", ok, config)
    BY <1>4 DEF ApplyLabToml
  <2>2. load.pc = "lab"
    BY <2>1 DEF Step
  <2>3. Passed("lab", load.config) /\ ok => Passed("environment", config)
    BY DEF Passed, Made2
  <2>4. ~ok => Passed("error", load.config)
    BY DEF Passed
  <2> HIDE DEF ok, config
  <2> QED BY <2>1, <2>2, <2>3, <2>4, StepSound DEF Stages
<1>5. CASE ApplyEnvironment
  <2> DEFINE config == OfEnvironment(load.config, load.environment)
  <2>1. Step("environment", "modules", ~BadEnvironment, config)
    BY <1>5 DEF ApplyEnvironment, BadEnvironment
  <2>2. load.pc = "environment"
    BY <2>1 DEF Step
  <2>3. Passed("environment", load.config) /\ ~BadEnvironment => Passed("modules", config)
    BY DEF Passed, Made3
  <2>4. BadEnvironment => Passed("error", load.config)
    BY DEF Passed
  <2> HIDE DEF config
  <2> QED BY <2>1, <2>2, <2>3, <2>4, StepSound DEF Stages
<1>6. CASE ApplyInferredModules
  <2> DEFINE config == IF load.config.modules # {} THEN load.config
                       ELSE [load.config EXCEPT !.modules =
                               InferModules(load.root, load.config.name)]
  <2>1. Step("modules", "validate", TRUE, config)
    BY <1>6 DEF ApplyInferredModules
  <2>2. load.pc = "modules"
    BY <2>1 DEF Step
  <2>3. Passed("modules", load.config) => Passed("validate", config)
    BY DEF Passed, Made
  <2> HIDE DEF config
  <2> QED BY <2>1, <2>2, <2>3, StepSound DEF Stages
<1>7. CASE ValidateConfig
  <2> DEFINE ok == load.config.name # Blank /\ load.config.executable # Blank
  <2>1. Step("validate", "loaded", ok, load.config)
    BY <1>7 DEF ValidateConfig
  <2>2. load.pc = "validate"
    BY <2>1 DEF Step
  <2>3. Passed("validate", load.config) /\ ok => Passed("loaded", load.config)
    BY DEF Passed, BlankText
  <2>4. Passed("validate", load.config) /\ ~ok => Passed("error", load.config)
    BY DEF Passed, BlankText
  <2> HIDE DEF ok
  <2> QED BY <2>1, <2>2, <2>3, <2>4, StepSound DEF Stages
<1>8. CASE ResolvePaths
  <2> DEFINE ok == /\ load.config.runs # Outside /\ load.config.cache # Outside
                   /\ load.config.registry_cache[1] # Outside
  <2>1. Step("loaded", "resolved", ok, load.config)
    BY <1>8 DEF ResolvePaths
  <2>2. load.pc = "loaded"
    BY <2>1 DEF Step
  <2>3. Passed("loaded", load.config) /\ ok => Passed("resolved", load.config)
    BY DEF Passed, OutsideRoot
  <2>4. Passed("loaded", load.config) /\ ~ok => Passed("error", load.config)
    BY DEF Passed, OutsideRoot
  <2> HIDE DEF ok
  <2> QED BY <2>1, <2>2, <2>3, <2>4, StepSound DEF Stages
<1>9. CASE End
  <2>1. load' = NoCommand /\ UNCHANGED <<pyproject, lab>>
    BY <1>9 DEF End, Keep
  <2> QED BY <2>1 DEF LoadInv, LoadTypeOK, Settled, NoCommand
<1>10. CASE EditConfig
  <2>1. /\ load.pc # "idle" /\ load' = [load EXCEPT !.clean = FALSE]
        /\ \/ \E x \in Files(PyprojectFiles) :
                pyproject' = [pyproject EXCEPT ![load.root] = x] /\ lab' = lab
           \/ \E x \in Files(LabFiles) :
                lab' = [lab EXCEPT ![load.root] = x] /\ pyproject' = pyproject
           \/ UNCHANGED <<pyproject, lab>>
    BY <1>10 DEF EditConfig
  <2>2. load \in [pc : Stages, cwd : Dirs, given : {0, 1}, environment : Environments,
                  root : Dirs, config : {load.config}, clean : BOOLEAN]
    BY <2>1 DEF LoadInv, LoadTypeOK, NoCommand
  <2>3. /\ load' \in [pc : Stages, cwd : Dirs, given : {0, 1}, environment : Environments,
                      root : Dirs, config : {load'.config}, clean : BOOLEAN]
        /\ ~load'.clean
    BY <2>1, <2>2
  <2>4. pyproject' \in [Dirs -> Files(PyprojectFiles)] /\ lab' \in [Dirs -> Files(LabFiles)]
    BY <2>1 DEF LoadInv, LoadTypeOK
  <2> QED BY <2>3, <2>4 DEF LoadInv, LoadTypeOK, Settled
<1> QED BY <1>1, <1>2, <1>3, <1>4, <1>5, <1>6, <1>7, <1>8, <1>9, <1>10 DEF ConfigNext

(* A command that no edit disturbed works in the nearest root, with the value of the   *)
(* last layer that names each setting, and fails exactly when a layer it reads is      *)
(* broken, a text it needs is blank, or a path it resolves lies outside: for any       *)
(* directories, files, environments and edits.                                         *)
THEOREM SettingsAlwaysNearest == ConfigSpec => []SettingsAreNearest
<1>1. LoadInv /\ [ConfigNext]_configVars => LoadInv'
  <2>1. ASSUME LoadInv, UNCHANGED configVars PROVE LoadInv'
    <3>1. /\ LoadTypeOK' /\ load' = load /\ UNCHANGED <<pyproject, lab, git, sources>>
      BY <2>1 DEF LoadInv, LoadTypeOK, configVars
    <3>2. /\ Made0' = Made0 /\ Made1' = Made1 /\ Made2' = Made2 /\ Made3' = Made3 /\ Made' = Made
          /\ BadEnvironment' = BadEnvironment /\ RootFound' = RootFound
          /\ BlankText' = BlankText /\ OutsideRoot' = OutsideRoot
      BY <3>1, SameLayers
    <3>3. Settled'
      BY <2>1, <3>1, <3>2 DEF LoadInv, Settled, Passed
    <3> QED BY <3>1, <3>3 DEF LoadInv
  <2> QED BY <2>1, ConfigStep
<1>2. LoadInv => SettingsAreNearest
  <2> SUFFICES ASSUME LoadInv, load.pc \in {"loaded", "resolved", "error"}, load.clean
               PROVE  /\ load.root = load.given \/ IsRoot(load.root)
                      /\ load.pc = "error" <=> (Unusable \/ (load.pc # "loaded" /\ Escapes))
                      /\ load.pc # "error" => load.config = EffectiveConfig
    BY DEF SettingsAreNearest
  <2>1. load # NoCommand
    BY DEF NoCommand
  <2>2. Made = EffectiveConfig
    BY <2>1, MadeIsEffective DEF LoadInv
  <2>3. RootFound /\ Passed(load.pc, load.config)
    BY DEF LoadInv, Settled
  <2>4. EffectiveConfig.registry_cache = RegistryCachePath
    BY DEF EffectiveConfig
  <2>5. Escapes <=> OutsideRoot
    BY <2>2, <2>4 DEF Escapes, OutsideRoot
  <2>6. Unusable <=> \/ pyproject[load.root] = Broken \/ lab[load.root] = Broken
                     \/ BadEnvironment \/ BlankText
    BY <2>2 DEF Unusable, BadEnvironment, BlankText
  <2> QED BY <2>2, <2>3, <2>5, <2>6 DEF RootFound, Passed
<1> QED BY <1>1, <1>2, ConfigStarts, PTL DEF ConfigSpec
=============================================================================
