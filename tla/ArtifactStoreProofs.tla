------------------------ MODULE ArtifactStoreProofs ------------------------
(***************************************************************************)
(* Proofs about ArtifactStore, for any number of writers, sweeps, blobs    *)
(* and artifacts, whichever run together and wherever they die.            *)
(*                                                                         *)
(* NamesInv keeps the names.  HoldInv: what a writer that no sweep has met *)
(* has stored is there.  SafeInv: so is what such writers have made roots. *)
(* MarkInv: no sweep means to remove that.  CopyInv follows the blob files *)
(* that are open for writing, SeenInv what a sweep leaves.                 *)
(***************************************************************************)
EXTENDS ArtifactStore, SequenceTheorems, TLAPS

WriterOK(w) ==
  /\ wpc[w] # "idle" => job[w] \in Jobs
  /\ wpc[w] \in {"missing", "clone", "retry", "copy"} => cur[w] \in Blobs
  /\ wpc[w] # "idle" /\ pass[w] = "promote" => job[w].ver \in Versions
  /\ wpc[w] \in {"manifest", "index", "alias"} => job[w].ver \in Versions
  /\ wpc[w] = "idle" \/ w \notin Runs => new[w] = {}
  /\ wpc[w] \in {"index", "alias"} => manifest[job[w].ver] # {}

NamesInv == ProcessTypes /\ (\A w \in Writers : WriterOK(w)) /\ NamesHold

-----------------------------------------------------------------------------

LEMMA InitNames == Init => NamesInv
BY StoreAssumption, JobAssumption
   DEF Init, NamesInv, ProcessTypes, WriterOK, NamesHold, Writers

\* The rows of the index.
LEMMA RowType ==
  ASSUME ProcessTypes, NEW i \in 1..Len(index)
  PROVE index[i].ver \in Versions /\ index[i].obj \in Objects
<1>1. index \in Seq([ver : Versions, obj : Objects])
  BY DEF ProcessTypes
<1>2. index[i] \in [ver : Versions, obj : Objects]
  BY <1>1, ElementOfSeq
<1> QED BY <1>2

\* Every action keeps the types and the names.
LEMMA BeginNames ==
  ASSUME NamesInv, NEW w \in Writers, NEW j \in Events, Begin(w, j) PROVE NamesInv'
<1>1. ProcessTypes'
  <2>1. j \in Jobs /\ j.obj.blobs \subseteq Blobs
    BY StoreAssumption, JobAssumption DEF Jobs
  <2> QED BY <2>1 DEF NamesInv, ProcessTypes, Begin, store, sweepers
<1>2. ASSUME NEW v \in Writers PROVE WriterOK(v)'
  BY StoreAssumption, JobAssumption DEF NamesInv, ProcessTypes, WriterOK, Begin, store, sweepers, Jobs, Writers
<1>3. NamesHold'
  BY DEF NamesInv, NamesHold, Begin, store
<1> QED BY <1>1, <1>2, <1>3 DEF NamesInv

LEMMA RestageNames ==
  ASSUME NamesInv, NEW r \in Runs, NEW line \in refs[r], NEW o \in Objects,
         Restage(r, line, o)
  PROVE NamesInv'
<1>1. line \in Jobs /\ [line EXCEPT !.obj = o] \in Jobs /\ r \in Writers
  <2>1. line \in Jobs
    BY DEF NamesInv, ProcessTypes
  <2>2. [line EXCEPT !.obj = o] \in Jobs
    BY <2>1 DEF Jobs
  <2>3. r \in Writers
    BY DEF Writers
  <2> QED BY <2>1, <2>2, <2>3
<1>2. o.blobs \subseteq Blobs
  BY StoreAssumption
<1>3. ProcessTypes'
  <2>1. /\ old[r] \in SUBSET Jobs /\ new[r] \in SUBSET Jobs
        /\ wpc[r] = "line" => job[r] \in Jobs
    BY <1>1 DEF NamesInv, ProcessTypes, WriterOK
  <2>2. old' \in [Writers -> SUBSET Jobs] /\ new' \in [Writers -> SUBSET Jobs]
    BY <1>1, <2>1 DEF NamesInv, ProcessTypes, Restage
  <2> QED BY <1>1, <1>2, <2>2 DEF NamesInv, ProcessTypes, Restage, store, sweepers
<1>4. ASSUME NEW v \in Writers PROVE WriterOK(v)'
  BY <1>1 DEF NamesInv, ProcessTypes, WriterOK, Restage, store, sweepers
<1>5. NamesHold'
  BY DEF NamesInv, NamesHold, Restage, store
<1> QED BY <1>3, <1>4, <1>5 DEF NamesInv

LEMMA WriterNames ==
  ASSUME NamesInv, NEW w \in Writers, WriterStep(w) \/ StopWriter(w) PROVE NamesInv'
<1> USE DEF NamesInv
<1>1. CASE \E b \in Blobs : FindBlob(w, b)
  <2>1. ProcessTypes' BY <1>1 DEF ProcessTypes, FindBlob, store, sweepers
  <2>2. \A v \in Writers : WriterOK(v)'
    BY <1>1 DEF ProcessTypes, WriterOK, FindBlob, store, sweepers
  <2>3. NamesHold' BY <1>1 DEF NamesHold, FindBlob, store
  <2> QED BY <2>1, <2>2, <2>3
<1>2. CASE \E b \in Blobs : MissBlob(w, b)
  <2>1. ProcessTypes' BY <1>2 DEF ProcessTypes, MissBlob, store, sweepers
  <2>2. \A v \in Writers : WriterOK(v)'
    BY <1>2 DEF ProcessTypes, WriterOK, MissBlob, store, sweepers
  <2>3. NamesHold' BY <1>2 DEF NamesHold, MissBlob, store
  <2> QED BY <2>1, <2>2, <2>3
<1>3. CASE OpenClone(w) \/ StartCopy(w) \/ CloneFails(w)
  <2>0. /\ UNCHANGED <<trees, manifest, index, alias, refs, status, job, old, new, pass, todo,
                       cur, sweepers, begun, stops>>
        /\ \E to \in {"clone", "retry", "copy"} : wpc' = [wpc EXCEPT ![w] = to]
        /\ \E c \in {"absent", "partial"} : blob' = [blob EXCEPT ![cur[w]] = c]
        /\ \E o \in Writers \cup {NoOne} : owner' = [owner EXCEPT ![cur[w]] = o]
    <3>1. CASE OpenClone(w)
      BY <3>1 DEF OpenClone, Open
    <3>2. CASE StartCopy(w)
      BY <3>2 DEF StartCopy, Open
    <3>3. CASE CloneFails(w)
      BY <3>3 DEF CloneFails
    <3> QED BY <1>3, <3>1, <3>2, <3>3
  <2>1. ProcessTypes'
    <3>1. /\ wpc' \in [Writers -> {"idle", "ingest", "missing", "clone", "retry", "copy",
                                    "manifest", "index", "alias", "line"}]
          /\ blob' \in [Blobs -> {"absent", "partial", "full"}]
          /\ owner' \in [Blobs -> Writers \cup {NoOne}]
      <4>1. PICK to \in {"clone", "retry", "copy"} : wpc' = [wpc EXCEPT ![w] = to]
        BY <2>0
      <4>2. PICK c \in {"absent", "partial"} : blob' = [blob EXCEPT ![cur[w]] = c]
        BY <2>0
      <4>3. PICK o \in Writers \cup {NoOne} : owner' = [owner EXCEPT ![cur[w]] = o]
        BY <2>0
      <4> QED BY <4>1, <4>2, <4>3 DEF ProcessTypes
    <3> QED BY <2>0, <3>1 DEF ProcessTypes, sweepers
  <2>2. \A v \in Writers : WriterOK(v)'
    BY <1>3 DEF ProcessTypes, WriterOK, OpenClone, StartCopy, CloneFails, Open, sweepers
  <2>3. NamesHold' BY <1>3 DEF NamesHold, OpenClone, StartCopy, CloneFails, Open
  <2> QED BY <2>1, <2>2, <2>3
<1>4. CASE EndCopy(w)
  <2>1. ProcessTypes' BY <1>4 DEF ProcessTypes, EndCopy, sweepers
  <2>2. \A v \in Writers : WriterOK(v)'
    BY <1>4 DEF ProcessTypes, WriterOK, EndCopy, sweepers
  <2>3. NamesHold' BY <1>4 DEF NamesHold, EndCopy
  <2> QED BY <2>1, <2>2, <2>3
<1>5. CASE EndIngest(w)
  <2>0. job[w] \in Jobs /\ job[w].obj \in Objects /\ job[w].obj.blobs \subseteq Blobs
        /\ (job[w].ver # NoVersion => job[w].ver \in Versions)
    BY <1>5, StoreAssumption DEF WriterOK, EndIngest, Jobs
  <2>1. ProcessTypes' BY <1>5, <2>0 DEF ProcessTypes, EndIngest, sweepers
  <2>2. \A v \in Writers : WriterOK(v)'
    BY <1>5, <2>0 DEF ProcessTypes, WriterOK, EndIngest, sweepers
  <2>3. NamesHold' BY <1>5 DEF NamesHold, EndIngest
  <2> QED BY <2>1, <2>2, <2>3
<1>6. CASE WriteManifest(w)
  <2>0. job[w].obj \in Objects /\ job[w].ver \in Versions
    BY <1>6 DEF WriterOK, WriteManifest, Jobs
  <2>1. ProcessTypes' BY <1>6, <2>0 DEF ProcessTypes, WriteManifest, sweepers
  <2>2. \A v \in Versions : manifest[v] # {} => manifest'[v] # {}
    BY <1>6, <2>0 DEF ProcessTypes, WriteManifest
  <2>3. ASSUME NEW v \in Writers PROVE WriterOK(v)'
    <3>1. /\ UNCHANGED <<job, new, pass, cur>>
          /\ wpc' = [wpc EXCEPT ![w] = "index"] /\ wpc[w] = "manifest"
          /\ manifest' = [manifest EXCEPT ![job[w].ver] = {job[w].obj}]
      BY <1>6 DEF WriteManifest
    <3>2. WriterOK(v)
      OBVIOUS
    <3>3. wpc'[v] = IF v = w THEN "index" ELSE wpc[v]
      BY <3>1 DEF ProcessTypes
    <3>4. v = w => manifest'[job[v].ver] # {}
      BY <2>0, <3>1 DEF ProcessTypes
    <3> QED BY <2>0, <2>2, <3>1, <3>2, <3>3, <3>4 DEF WriterOK
  <2>4. NamesHold' BY <1>6, <2>2, RowType DEF ProcessTypes, NamesHold, WriteManifest
  <2> QED BY <2>1, <2>3, <2>4
<1>7. CASE AppendIndex(w)
  <2>0. /\ job[w].obj \in Objects /\ job[w].ver \in Versions
        /\ manifest[job[w].ver] # {}
    BY <1>7 DEF WriterOK, AppendIndex, Jobs
  <2>1. ProcessTypes' BY <1>7, <2>0 DEF ProcessTypes, AppendIndex, sweepers
  <2>2. \A v \in Writers : WriterOK(v)'
    BY <1>7 DEF ProcessTypes, WriterOK, AppendIndex, sweepers
  <2>3. ASSUME NEW i \in 1..Len(index') PROVE manifest'[index'[i].ver] # {}
    <3>1. (i \in 1..Len(index) /\ index'[i] = index[i]) \/ index'[i].ver = job[w].ver
      BY <1>7, <2>0 DEF ProcessTypes, AppendIndex
    <3> QED BY <1>7, <2>0, <3>1 DEF NamesHold, AppendIndex
  <2>4. NamesHold' BY <1>7, <2>3 DEF NamesHold, AppendIndex
  <2> QED BY <2>1, <2>2, <2>4
<1>8. CASE WriteAlias(w)
  <2>0. /\ job[w].alias # NoAlias => job[w].alias \in Aliases
        /\ job[w].ver \in Versions /\ manifest[job[w].ver] # {}
    BY <1>8 DEF WriterOK, WriteAlias, Jobs
  <2>1. ProcessTypes' BY <1>8, <2>0 DEF ProcessTypes, WriteAlias, sweepers
  <2>2. \A v \in Writers : WriterOK(v)'
    BY <1>8 DEF ProcessTypes, WriterOK, WriteAlias, sweepers
  <2>3. NamesHold' BY <1>8, <2>0 DEF ProcessTypes, NamesHold, WriteAlias
  <2> QED BY <2>1, <2>2, <2>3
<1>9. CASE StopWriter(w)
  <2>1. ProcessTypes' BY <1>9, StoreAssumption DEF ProcessTypes, StopWriter, sweepers, Writers
  <2>2. \A v \in Writers : WriterOK(v)'
    BY <1>9 DEF ProcessTypes, WriterOK, StopWriter, sweepers
  <2>3. NamesHold' BY <1>9 DEF NamesHold, StopWriter
  <2> QED BY <2>1, <2>2, <2>3
<1> QED BY <1>1, <1>2, <1>3, <1>4, <1>5, <1>6, <1>7, <1>8, <1>9 DEF WriterStep

LEMMA RunNames ==
  ASSUME NamesInv, NEW r \in Runs, RunStep(r) PROVE NamesInv'
<1> USE DEF NamesInv
<1>0. r \in Writers
  BY DEF Writers
<1>1. CASE WriteLine(r)
  <2>1. job[r] \in Jobs BY <1>0, <1>1 DEF WriterOK, WriteLine
  <2>2. refs' \in [Runs -> SUBSET Jobs] /\ job' \in [Writers -> Jobs \cup {NoJob}]
        /\ old' \in [Writers -> SUBSET Jobs] /\ new' \in [Writers -> SUBSET Jobs]
        /\ wpc' = [wpc EXCEPT ![r] = "idle"]
        /\ UNCHANGED <<blob, owner, trees, manifest, index, alias, status, pass, todo, cur,
                       sweepers, begun, stops>>
    <3>1. new[r] \subseteq Jobs /\ old[r] \subseteq Jobs /\ refs[r] \subseteq Jobs
      BY <1>0 DEF ProcessTypes
    <3>2. refs' \in [Runs -> SUBSET Jobs]
      BY <1>1, <2>1, <3>1 DEF ProcessTypes, WriteLine
    <3> QED BY <1>1, <3>2 DEF ProcessTypes, WriteLine
  <2>5. ProcessTypes'
    BY <2>2 DEF ProcessTypes, sweepers
  <2>3. \A v \in Writers : WriterOK(v)'
    BY <1>1 DEF ProcessTypes, WriterOK, WriteLine, sweepers
  <2>4. NamesHold' BY <1>1 DEF NamesHold, WriteLine
  <2> QED BY <2>3, <2>4, <2>5
<1>2. CASE CompleteRun(r) \/ LoseRun(r)
  <2>1. ProcessTypes' BY <1>2 DEF ProcessTypes, CompleteRun, LoseRun, writers, sweepers
  <2>2. \A v \in Writers : WriterOK(v)'
    BY <1>2 DEF WriterOK, CompleteRun, LoseRun, writers
  <2>3. NamesHold' BY <1>2 DEF NamesHold, CompleteRun, LoseRun
  <2> QED BY <2>1, <2>2, <2>3
<1> QED BY <1>1, <1>2, RestageNames DEF RunStep

\* A sweep reads and removes: it changes no name and no writer.
LEMMA SweepFrame ==
  ASSUME NEW s \in Sweepers, BeginSweep(s) \/ SweepStep(s) \/ StopSweeper(s)
  PROVE UNCHANGED <<manifest, index, alias, refs, status, wpc, job, old, new, pass, todo, cur>>
<1>1. CASE \E f \in Blobs \cup Objects : Remove(s, f)
  BY <1>1 DEF Remove, writers
<1>2. CASE BeginSweep(s) \/ ReadIndex(s) \/ (\E r \in Runs : ReadRun(s, r)) \/ Walk(s)
  BY <1>2 DEF BeginSweep, ReadIndex, ReadRun, Walk, store, writers
<1>3. CASE EndSweep(s) \/ SweepError(s) \/ StopSweeper(s)
  <2>1. Leave(s)
    BY <1>3 DEF EndSweep, SweepError, StopSweeper
  <2> QED BY <2>1 DEF Leave, store, writers
<1> QED BY <1>1, <1>2, <1>3 DEF SweepStep

LEMMA IndexedType ==
  ASSUME ProcessTypes
  PROVE Indexed \subseteq Objects /\ \A r \in Runs : Referenced(r) \subseteq Objects
<1>1. ASSUME NEW i \in 1..Len(index) PROVE index[i].obj \in Objects
  BY RowType
<1>2. ASSUME NEW r \in Runs, NEW line \in refs[r] PROVE line.obj \in Objects
  BY DEF ProcessTypes, Jobs
<1> QED BY <1>1, <1>2 DEF Indexed, Referenced

LEMMA SweepNames ==
  ASSUME NamesInv, NEW s \in Sweepers, BeginSweep(s) \/ SweepStep(s) \/ StopSweeper(s)
  PROVE NamesInv'
<1> USE DEF NamesInv
<1>1. UNCHANGED <<manifest, index, alias, refs, status, wpc, job, old, new, pass, todo, cur>>
  BY SweepFrame
<1>2. (\A v \in Writers : WriterOK(v)') /\ NamesHold'
  BY <1>1 DEF WriterOK, NamesHold
<1>3. CASE BeginSweep(s)
  BY <1>2, <1>3 DEF ProcessTypes, BeginSweep, Goto, store, writers
<1>4. CASE ReadIndex(s)
  BY <1>2, <1>4, IndexedType DEF ProcessTypes, ReadIndex, Goto, store, writers
<1>5. CASE \E r \in Runs : ReadRun(s, r)
  BY <1>2, <1>5, IndexedType DEF ProcessTypes, ReadRun, store, writers
<1>6. CASE Walk(s)
  BY <1>2, <1>6, IndexedType DEF ProcessTypes, Walk, Goto, store, writers, InStore, FilesOf
<1>7. CASE \E f \in Blobs \cup Objects : Remove(s, f)
  BY <1>2, <1>7 DEF ProcessTypes, Remove, writers
<1>8. CASE EndSweep(s) \/ SweepError(s) \/ StopSweeper(s)
  <2>1. Leave(s) /\ stops' \in Nat
    BY <1>8 DEF ProcessTypes, EndSweep, SweepError, StopSweeper
  <2> QED BY <1>2, <2>1 DEF ProcessTypes, Leave, store, writers
<1> QED BY <1>3, <1>4, <1>5, <1>6, <1>7, <1>8 DEF SweepStep

LEMMA NextNames == ASSUME NamesInv, [Next]_vars PROVE NamesInv'
<1>1. CASE UNCHANGED vars
  BY <1>1 DEF NamesInv, ProcessTypes, WriterOK, NamesHold, vars, store, writers, sweepers
<1> QED BY <1>1, BeginNames, WriterNames, RunNames, SweepNames DEF Next

\* Whatever writers run together and wherever they die, every alias and every row of
\* the index names a version that has a manifest (store.rs, promote).
THEOREM NamesInvariance == Spec => []NamesInv
BY InitNames, NextNames, PTL DEF Spec

\* What holds of aliases and rows is enough for describe to find an object.
LEMMA HeldNamesResolve == ASSUME ProcessTypes, NamesHold PROVE NamesResolve
<1>1. ASSUME NEW a \in Aliases, alias[a] # {} PROVE Describe(a) # {}
  <2>1. CASE a \in Versions /\ manifest[a] # {}
    BY <2>1 DEF Describe, ResolveVersion
  <2>2. CASE ~(a \in Versions /\ manifest[a] # {})
    <3>1. PICK v \in alias[a] : TRUE
      BY <1>1
    <3>2. v \in ResolveVersion(a) /\ manifest[v] # {}
      BY <2>2, <3>1 DEF ResolveVersion, NamesHold
    <3> QED BY <3>2 DEF Describe
  <2> QED BY <2>1, <2>2
<1>2. ASSUME NEW i \in 1..Len(index) PROVE Describe(index[i].ver) # {}
  <2>1. index[i].ver \in Versions /\ manifest[index[i].ver] # {}
    BY RowType DEF NamesHold
  <2> QED BY <2>1 DEF Describe, ResolveVersion
<1> QED BY <1>1, <1>2 DEF NamesResolve

\* describe finds an object for every alias and every row of the index, whatever
\* processes run together and die.
THEOREM NamesAlwaysResolve == Spec => []NamesResolve
BY NamesInvariance, HeldNamesResolve, PTL DEF NamesInv

-----------------------------------------------------------------------------
(* What is observed.                                                       *)

\* Every step is observed.
LEMMA NextObserves == ASSUME Next PROVE Observe
<1>1. ASSUME NEW w \in Writers, WriterStep(w) PROVE Observe
  BY <1>1 DEF WriterStep, FindBlob, MissBlob, OpenClone, CloneFails, StartCopy, Open, EndCopy,
              EndIngest, WriteManifest, AppendIndex, WriteAlias
<1>2. ASSUME NEW r \in Runs, RunStep(r) PROVE Observe
  BY <1>2 DEF RunStep, WriteLine, CompleteRun, LoseRun, Restage
<1>3. ASSUME NEW s \in Sweepers, BeginSweep(s) \/ SweepStep(s) \/ StopSweeper(s) PROVE Observe
  BY <1>3 DEF BeginSweep, SweepStep, StopSweeper, ReadIndex, ReadRun, Walk, Remove, EndSweep,
              SweepError
<1>4. ASSUME NEW w \in Writers, (\E j \in Events : Begin(w, j)) \/ StopWriter(w) PROVE Observe
  BY <1>4 DEF Begin, StopWriter
<1> QED BY <1>1, <1>2, <1>3, <1>4 DEF Next

\* A root is a latest row or a line of a completed run.
LEMMA RootForm ==
  ASSUME ProcessTypes, NEW p \in Roots
  PROVE \/ \E v \in Versions, o \in Objects : p = <<"row", v, o>> /\ o \in Indexed
        \/ \E r \in Runs, o \in Objects :
             p = <<"run", r, o>> /\ status[r] = "completed" /\ o \in Referenced(r)
<1>1. CASE p \in Rows
  <2>1. PICK i \in 1..Len(index) : LastRow(i) /\ p = <<"row", index[i].ver, index[i].obj>>
    BY <1>1 DEF Rows
  <2>2. index[i].ver \in Versions /\ index[i].obj \in Objects /\ index[i].obj \in Indexed
    BY <2>1, RowType DEF Indexed
  <2> QED BY <2>1, <2>2
<1>2. CASE p \in Lines
  <2>1. PICK r \in Runs : status[r] = "completed" /\ p \in {<<"run", r, o>> : o \in Referenced(r)}
    BY <1>2 DEF Lines
  <2>2. PICK o \in Referenced(r) : p = <<"run", r, o>>
    BY <2>1
  <2>3. o \in Objects
    BY <2>2, IndexedType
  <2> QED BY <2>1, <2>2, <2>3
<1> QED BY <1>1, <1>2 DEF Roots

LEMMA RootObject ==
  ASSUME ProcessTypes, NEW p \in Roots
  PROVE p[3] \in Objects /\ p[3].blobs \subseteq Blobs /\ Files(p[3]) \subseteq Blobs \cup Objects
<1>1. p[3] \in Objects
  BY RootForm
<1>2. p[3].blobs \subseteq Blobs
  BY <1>1, StoreAssumption
<1> QED BY <1>1, <1>2 DEF Files

KeptTyped == FilesOf(Kept) \subseteq Blobs \cup Objects

LEMMA KeptType == ProcessTypes => KeptTyped
<1> SUFFICES ASSUME ProcessTypes, NEW p \in Roots PROVE Files(p[3]) \subseteq Blobs \cup Objects
  BY DEF KeptTyped, FilesOf, Kept
<1> QED BY RootObject

LEMMA KeptTypeNext == ProcessTypes' => KeptTyped'
BY KeptType, PTL

LEMMA NextTypes == ASSUME NamesInv', TypeOK, Observe PROVE TypeOK'
<1>1. ProcessTypes'
  BY DEF NamesInv
<1>2. calm' \in [Writers -> BOOLEAN]
  BY DEF Observe, Busy
<1>3. safe' \subseteq Roots' /\ torn' \subseteq Blobs
  BY DEF Observe
<1>4. FilesOf(Kept') \subseteq Blobs \cup Objects
  <2>1. FilesOf(Kept)' \subseteq Blobs \cup Objects
    BY <1>1, KeptTypeNext DEF KeptTyped
  <2> QED BY <2>1 DEF FilesOf, Files
<1>5. InStore' \subseteq Blobs \cup Objects
  BY <1>1 DEF InStore, ProcessTypes
<1>6. seen' \in [Sweepers -> SUBSET (Blobs \cup Objects)]
  <2>1. ASSUME NEW s \in Sweepers
        PROVE (IF spc'[s] = "idle" THEN {} ELSE seen[s] \cup FilesOf(Kept') \cup (InStore' \ InStore))
                \in SUBSET (Blobs \cup Objects)
    BY <1>4, <1>5 DEF TypeOK
  <2> QED BY <2>1 DEF Observe
<1> QED BY <1>1, <1>2, <1>3, <1>6 DEF TypeOK

TypesInv == NamesInv /\ TypeOK

LEMMA InitTypes == Init => TypesInv
<1> SUFFICES ASSUME Init PROVE TypesInv
  OBVIOUS
<1>1. NamesInv
  BY InitNames
<1>2. calm \in [Writers -> BOOLEAN] /\ safe \subseteq Roots /\ torn \subseteq Blobs
      /\ seen \in [Sweepers -> SUBSET (Blobs \cup Objects)]
  BY DEF Init
<1> QED BY <1>1, <1>2 DEF TypesInv, TypeOK, NamesInv

LEMMA RootsSame ==
  ASSUME ProcessTypes, index' = index, refs' = refs,
         \A r \in Runs : status'[r] = "completed" => status[r] = "completed"
  PROVE Roots' \subseteq Roots
<1>1. Rows' = Rows
  BY DEF Rows, LastRow
<1>2. Lines' \subseteq Lines
  BY DEF Lines, Referenced
<1> QED BY <1>1, <1>2 DEF Roots

LEMMA NextTypesInv == ASSUME TypesInv, [Next]_vars PROVE TypesInv'
<1>1. NamesInv'
  BY NextNames DEF TypesInv
<1>2. CASE Next
  BY <1>1, <1>2, NextObserves, NextTypes DEF TypesInv
<1>3. CASE UNCHANGED vars
  <2>1. UNCHANGED <<index, refs, status, calm, safe, torn, seen>>
    BY <1>3 DEF vars, store, observed
  <2>2. Roots' = Roots
    BY <2>1 DEF Roots, Rows, LastRow, Lines, Referenced
  <2> QED BY <1>1, <2>1, <2>2 DEF TypesInv, TypeOK, NamesInv
<1> QED BY <1>2, <1>3

\* The types of the store, whatever processes work on it.
THEOREM TypeCorrect == Spec => []TypeOK
BY InitTypes, NextTypesInv, PTL DEF Spec, TypesInv

-----------------------------------------------------------------------------
(* What is stored stays.                                                   *)

There(f) == f \in InStore \/ Retried(f)

\* Nothing leaves the store, but what a writer has removed to copy it again.
Grows ==
  /\ trees \subseteq trees'
  /\ \A b \in Blobs : blob[b] # "absent" =>
       blob'[b] # "absent" \/ \E w \in Writers : wpc'[w] = "retry" /\ cur'[w] = b
  /\ \A w \in Writers : wpc[w] = "retry" =>
       \/ wpc'[w] = "retry" /\ cur'[w] = cur[w]
       \/ wpc'[w] = "idle"
       \/ blob'[cur[w]] # "absent"

\* What a writer holds: what it has ingested or is copying for its job, for the jobs of
\* which it has not written the lines, and for the lines of a run at work.
Holds(w, f) ==
  \/ wpc[w] \in {"ingest", "missing", "clone", "retry", "copy"} /\ f \in job[w].obj.blobs \ todo[w]
  \/ wpc[w] \in {"clone", "copy"} /\ f = cur[w]
  \/ wpc[w] \in {"manifest", "index", "alias", "line"} /\ f \in Files(job[w].obj)
  \/ \E j \in new[w] : f \in Files(j.obj)
  \/ w \in Runs /\ status[w] = "open" /\ \E line \in refs[w] : f \in Files(line.obj)

HoldInv == \A w \in Writers : Busy(w) /\ calm[w] =>
             ~Sweeping /\ \A f \in Blobs \cup Objects : Holds(w, f) => There(f)

SafeInv == \A p \in safe : \A f \in Files(p[3]) : There(f)

\* What a sweep keeps, and what it will remove.
Marking(s) ==
  /\ spc[s] \in {"runs", "remove"} =>
       /\ \A v \in Versions, o \in Objects : <<"row", v, o>> \in safe => o \in live[s]
       /\ \A r \in Runs, o \in Objects : <<"run", r, o>> \in safe => r \in unread[s] \/ o \in live[s]
  /\ spc[s] = "remove" => unread[s] = {} /\ \A o \in live[s] : doomed[s] \cap Files(o) = {}

MarkInv == \A s \in Sweepers : Marking(s)

WriterAct(w) == \/ \E j \in Events : Begin(w, j)
                \/ WriterStep(w)
                \/ StopWriter(w)
                \/ w \in Runs /\ RunStep(w)

SweepAct(s) == BeginSweep(s) \/ SweepStep(s) \/ StopSweeper(s)

LEMMA NextActs == ASSUME Next PROVE (\E w \in Writers : WriterAct(w)) \/ (\E s \in Sweepers : SweepAct(s))
BY DEF Next, WriterAct, SweepAct, Writers

\* A writer changes nothing of the others.
LEMMA WriterFrame ==
  ASSUME NamesInv, NEW w \in Writers, WriterAct(w)
  PROVE /\ UNCHANGED <<spc, live, unread, doomed>>
        /\ \A v \in Writers : v # w => UNCHANGED <<wpc[v], job[v], todo[v], cur[v], new[v]>>
        /\ \A r \in Runs : r # w => UNCHANGED <<status[r], refs[r]>>
<1> USE DEF NamesInv, ProcessTypes
<1>1. CASE \E j \in Events : Begin(w, j)
  BY <1>1 DEF Begin, store, sweepers
<1>2. CASE \E b \in Blobs : FindBlob(w, b) \/ MissBlob(w, b)
  BY <1>2 DEF FindBlob, MissBlob, store, sweepers
<1>3. CASE OpenClone(w) \/ StartCopy(w) \/ CloneFails(w)
  BY <1>3 DEF OpenClone, StartCopy, Open, CloneFails, sweepers
<1>4. CASE EndCopy(w)
  BY <1>4 DEF EndCopy, sweepers
<1>5. CASE EndIngest(w)
  BY <1>5 DEF EndIngest, sweepers
<1>6. CASE WriteManifest(w) \/ AppendIndex(w) \/ WriteAlias(w)
  BY <1>6 DEF WriteManifest, AppendIndex, WriteAlias, sweepers
<1>7. CASE StopWriter(w)
  BY <1>7 DEF StopWriter, sweepers
<1>8. CASE w \in Runs /\ WriteLine(w)
  BY <1>8 DEF WriteLine, sweepers
<1>9. CASE w \in Runs /\ (CompleteRun(w) \/ LoseRun(w))
  BY <1>9 DEF CompleteRun, LoseRun, writers, sweepers
<1>10. CASE w \in Runs /\ \E line \in refs[w], o \in Objects : Restage(w, line, o)
  BY <1>10 DEF Restage, store, sweepers
<1> QED BY <1>1, <1>2, <1>3, <1>4, <1>5, <1>6, <1>7, <1>8, <1>9, <1>10 DEF WriterAct, WriterStep, RunStep

\* And of the store it removes only a blob that it will copy again.
LEMMA WriterGrows ==
  ASSUME NamesInv, NEW w \in Writers, WriterAct(w) PROVE Grows
<1> USE DEF Grows
<1>0. /\ blob \in [Blobs -> {"absent", "partial", "full"}] /\ wpc = [v \in Writers |-> wpc[v]]
      /\ cur \in [Writers -> Blobs \cup {NoBlob}]
      /\ wpc[w] \in {"missing", "clone", "retry", "copy"} => cur[w] \in Blobs
  BY DEF NamesInv, ProcessTypes, WriterOK
<1>1. CASE \E j \in Events : Begin(w, j)
  BY <1>0, <1>1 DEF Begin, store
<1>2. ASSUME NEW b \in Blobs, FindBlob(w, b) \/ MissBlob(w, b) PROVE Grows
  <2>1. UNCHANGED <<blob, trees>>
    BY <1>2 DEF FindBlob, MissBlob, store
  <2>2. \A v \in Writers : wpc[v] = "retry" => wpc'[v] = "retry" /\ cur'[v] = cur[v]
    BY <1>0, <1>2 DEF FindBlob, MissBlob
  <2> QED BY <2>1, <2>2
<1>3. ASSUME NEW from, NEW to, Open(w, from, to), from \in {"missing", "retry"} PROVE Grows
  <2>1. /\ blob' = [blob EXCEPT ![cur[w]] = "partial"] /\ UNCHANGED <<trees, cur>>
        /\ wpc' = [wpc EXCEPT ![w] = to] /\ cur[w] \in Blobs
    BY <1>0, <1>3 DEF Open
  <2>2. \A b \in Blobs : blob[b] # "absent" => blob'[b] # "absent"
    BY <1>0, <2>1
  <2>3. \A v \in Writers : wpc[v] = "retry" =>
          (wpc'[v] = "retry" /\ cur'[v] = cur[v]) \/ blob'[cur[v]] # "absent"
    BY <1>0, <2>1
  <2> QED BY <2>1, <2>2, <2>3
<1>4. CASE CloneFails(w)
  BY <1>0, <1>4 DEF CloneFails
<1>5. CASE EndCopy(w)
  BY <1>0, <1>5 DEF EndCopy
<1>6. CASE EndIngest(w)
  BY <1>0, <1>6 DEF EndIngest
<1>7. CASE WriteManifest(w) \/ AppendIndex(w) \/ WriteAlias(w)
  BY <1>0, <1>7 DEF WriteManifest, AppendIndex, WriteAlias
<1>8. CASE StopWriter(w)
  BY <1>0, <1>8 DEF StopWriter
<1>9. CASE w \in Runs /\ WriteLine(w)
  BY <1>0, <1>9 DEF WriteLine
<1>10. CASE w \in Runs /\ (CompleteRun(w) \/ LoseRun(w))
  BY <1>0, <1>10 DEF CompleteRun, LoseRun, writers
<1>11. CASE w \in Runs /\ \E line \in refs[w], o \in Objects : Restage(w, line, o)
  BY <1>0, <1>11 DEF Restage, store
<1> QED BY <1>1, <1>2, <1>3, <1>4, <1>5, <1>6, <1>7, <1>8, <1>9, <1>10, <1>11
           DEF WriterAct, WriterStep, RunStep, OpenClone, StartCopy

LEMMA SweepGrows ==
  ASSUME NamesInv, NEW s \in Sweepers, SweepAct(s), \A f \in Blobs \cup Objects : ~Remove(s, f)
  PROVE UNCHANGED <<blob, trees>> /\ Grows
<1>1. UNCHANGED <<wpc, cur>>
  BY SweepFrame DEF SweepAct
<1>2. CASE BeginSweep(s) \/ ReadIndex(s) \/ (\E r \in Runs : ReadRun(s, r)) \/ Walk(s)
  BY <1>1, <1>2 DEF Grows, BeginSweep, ReadIndex, ReadRun, Walk, store
<1>3. CASE EndSweep(s) \/ SweepError(s) \/ StopSweeper(s)
  <2>1. Leave(s)
    BY <1>3 DEF EndSweep, SweepError, StopSweeper
  <2> QED BY <1>1, <2>1 DEF Grows, Leave, store
<1> QED BY <1>2, <1>3 DEF SweepAct, SweepStep

\* What is there stays there, or has been removed to be copied again.
LEMMA ThereGrows ==
  ASSUME TypesInv, Observe, Grows, NEW f \in Blobs \cup Objects, There(f) PROVE There(f)'
<1>1. CASE f \in trees
  BY <1>1 DEF There, InStore, Grows
<1>2. CASE f \in Blobs /\ blob[f] # "absent"
  BY <1>2 DEF There, InStore, Grows, Retried
<1>3. CASE f \in torn
  <2>1. f \in Blobs
    BY <1>3 DEF TypesInv, TypeOK
  <2> QED BY <1>3, <2>1 DEF There, Retried, Observe
<1>4. ASSUME NEW w \in Writers, wpc[w] = "retry", cur[w] = f PROVE There(f)'
  <2>1. f \in Blobs
    BY <1>4 DEF TypesInv, NamesInv, WriterOK
  <2>2. CASE wpc'[w] = "retry" /\ cur'[w] = f
    BY <2>2 DEF There, Retried
  <2>3. CASE blob'[f] # "absent"
    BY <2>1, <2>3 DEF There, InStore
  <2>4. CASE wpc'[w] = "idle"
    BY <1>4, <2>1, <2>4 DEF There, Retried, Observe
  <2> QED BY <1>4, <2>2, <2>3, <2>4 DEF Grows
<1> QED BY <1>1, <1>2, <1>3, <1>4 DEF There, InStore, Retried

\* A sweep that removes a file leaves the others.
LEMMA RemoveLeaves ==
  ASSUME TypesInv, Observe, NEW s \in Sweepers, NEW g, Remove(s, g),
         NEW f \in Blobs \cup Objects, f # g, There(f)
  PROVE There(f)'
<1>1. UNCHANGED <<wpc, cur>>
  BY DEF Remove, writers
<1>2. f \in InStore => f \in InStore'
  BY DEF Remove, InStore
<1>3. f \in torn => f \in torn' \/ f \in InStore'
  BY DEF Observe, TypesInv, TypeOK
<1> QED BY <1>1, <1>2, <1>3 DEF There, Retried

\* What a writer holds after its step it held before, or has just put in the store.
LEMMA HeldFresh ==
  ASSUME TypesInv, NEW w \in Writers, WriterAct(w), Busy(w)',
         NEW f \in Blobs \cup Objects, Holds(w, f)'
  PROVE (Busy(w) /\ Holds(w, f)) \/ There(f)'
<1>0. /\ blob \in [Blobs -> {"absent", "partial", "full"}] /\ wpc = [v \in Writers |-> wpc[v]]
      /\ cur \in [Writers -> Blobs \cup {NoBlob}] /\ todo \in [Writers -> SUBSET Blobs]
      /\ job \in [Writers -> Jobs \cup {NoJob}] /\ new \in [Writers -> SUBSET Jobs]
      /\ status = [r \in Runs |-> status[r]] /\ refs \in [Runs -> SUBSET Jobs]
      /\ pass = [v \in Writers |-> pass[v]]
      /\ wpc[w] = "idle" => new[w] = {}
      /\ wpc[w] \in {"clone", "missing", "copy", "retry"} => cur[w] \in Blobs
  BY DEF TypesInv, NamesInv, ProcessTypes, WriterOK
<1>1. CASE \E j \in Events : Begin(w, j)
  BY <1>0, <1>1 DEF Begin, store, Holds, Busy
<1>2. ASSUME NEW b \in Blobs, FindBlob(w, b) PROVE (Busy(w) /\ Holds(w, f)) \/ There(f)'
  <2>1. f = b => f \in InStore'
    BY <1>0, <1>2 DEF FindBlob, store, InStore
  <2> QED BY <1>0, <1>2, <2>1 DEF FindBlob, store, Holds, Busy, There
<1>3. ASSUME NEW b \in Blobs, MissBlob(w, b) PROVE (Busy(w) /\ Holds(w, f)) \/ There(f)'
  BY <1>0, <1>3 DEF MissBlob, store, Holds, Busy
<1>4. ASSUME NEW from \in {"missing", "retry"}, NEW to \in {"clone", "copy"}, Open(w, from, to)
      PROVE (Busy(w) /\ Holds(w, f)) \/ There(f)'
  <2>1. f = cur[w] => f \in InStore'
    BY <1>0, <1>4 DEF Open, InStore
  <2> QED BY <1>0, <1>4, <2>1 DEF Open, Holds, Busy, There
<1>5. CASE CloneFails(w)
  BY <1>0, <1>5 DEF CloneFails, Holds, Busy
<1>6. CASE EndCopy(w)
  BY <1>0, <1>6 DEF EndCopy, Holds, Busy
<1>7. CASE EndIngest(w)
  <2>1. job[w].obj.kind = "directory" => job[w].obj \in InStore'
    BY <1>7 DEF EndIngest, InStore
  <2>2. f \in Files(job[w].obj) => f \in job[w].obj.blobs \/ f \in InStore'
    BY <2>1 DEF Files
  <2> QED BY <1>0, <1>7, <2>2 DEF EndIngest, Holds, Busy, There
<1>8. CASE WriteManifest(w) \/ AppendIndex(w)
  BY <1>0, <1>8 DEF WriteManifest, AppendIndex, Holds, Busy
<1>9. CASE WriteAlias(w)
  BY <1>0, <1>9 DEF WriteAlias, Holds, Busy
<1>10. CASE StopWriter(w)
  BY <1>0, <1>10 DEF StopWriter, Holds, Busy
<1>11. CASE w \in Runs /\ WriteLine(w)
  <2>1. wpc'[w] = "idle" /\ wpc[w] = "line" /\ new'[w] = {}
        /\ refs'[w] \subseteq refs[w] \cup new[w] \cup {job[w]} /\ status' = status
    BY <1>0, <1>11 DEF WriteLine
  <2>2. status[w] = "open" /\ \E line \in refs'[w] : f \in Files(line.obj)
    BY <2>1 DEF Holds
  <2> QED BY <1>11, <2>1, <2>2 DEF Holds, Busy
<1>12. CASE w \in Runs /\ (CompleteRun(w) \/ LoseRun(w))
  BY <1>0, <1>12 DEF CompleteRun, LoseRun, writers, Holds, Busy
<1>13. ASSUME w \in Runs, NEW line \in refs[w], NEW o \in Objects, Restage(w, line, o)
       PROVE (Busy(w) /\ Holds(w, f)) \/ There(f)'
  <2>1. /\ wpc'[w] = "ingest" /\ job'[w].obj = o /\ todo'[w] = o.blobs
        /\ UNCHANGED <<status, refs>> /\ status[w] = "completed"
        /\ new'[w] = IF wpc[w] = "line" THEN new[w] \cup {job[w]} ELSE new[w]
        /\ wpc[w] \in {"idle", "line"}
    <3>1. line \in Jobs
      BY <1>0, <1>13
    <3> QED BY <1>0, <1>13, <3>1 DEF Restage, store, Jobs
  <2> QED BY <1>0, <2>1 DEF Holds, Busy
<1> QED BY <1>1, <1>2, <1>3, <1>4, <1>5, <1>6, <1>7, <1>8, <1>9, <1>10, <1>11, <1>12, <1>13
           DEF WriterAct, WriterStep, RunStep, OpenClone, StartCopy

LEMMA RowsAppend ==
  ASSUME NEW row, ProcessTypes, index' = Append(index, row)
  PROVE Rows' \subseteq Rows \cup {<<"row", row.ver, row.obj>>}
<1> SUFFICES ASSUME NEW p \in Rows', p # <<"row", row.ver, row.obj>> PROVE p \in Rows
  OBVIOUS
<1>1. index \in Seq([ver : Versions, obj : Objects])
  BY DEF ProcessTypes
<1>2. /\ Len(index') = Len(index) + 1 /\ Len(index) \in Nat
      /\ \A k \in 1..Len(index) : index'[k] = index[k]
      /\ index'[Len(index) + 1] = row
  BY <1>1
<1>3. PICK i \in 1..Len(index') : /\ p = <<"row", index'[i].ver, index'[i].obj>>
                                  /\ \A k \in i+1..Len(index') : index'[k].ver # index'[i].ver
  BY DEF Rows, LastRow
<1>4. i \in 1..Len(index) /\ p = <<"row", index[i].ver, index[i].obj>>
  BY <1>2, <1>3
<1>5. LastRow(i)
  BY <1>2, <1>3, <1>4 DEF LastRow
<1> QED BY <1>4, <1>5 DEF Rows

\* A new root is what the writer that makes it held.
LEMMA NewRoot ==
  ASSUME TypesInv, NEW w \in Writers, WriterAct(w), NEW p \in Roots', p \notin Roots
  PROVE /\ Moves(w) /\ Busy(w)
        /\ \E o \in Objects : p[3] = o /\ \A f \in Files(o) : Holds(w, f)
<1> DEFINE Same == /\ UNCHANGED <<index, refs>>
                   /\ \A r \in Runs : status'[r] = "completed" => status[r] = "completed"
<1>0. /\ ProcessTypes /\ wpc = [v \in Writers |-> wpc[v]]
      /\ status = [r \in Runs |-> status[r]] /\ refs \in [Runs -> SUBSET Jobs]
      /\ new \in [Writers -> SUBSET Jobs]
      /\ wpc[w] # "idle" => job[w] \in Jobs
  BY DEF TypesInv, NamesInv, ProcessTypes, WriterOK
<1>1. ~Same
  BY <1>0, RootsSame
<1>2. CASE \E j \in Events : Begin(w, j)
  BY <1>1, <1>2 DEF Begin, store
<1>3. CASE \E b \in Blobs : FindBlob(w, b) \/ MissBlob(w, b)
  BY <1>1, <1>3 DEF FindBlob, MissBlob, store
<1>4. CASE OpenClone(w) \/ StartCopy(w) \/ CloneFails(w)
  BY <1>1, <1>4 DEF OpenClone, StartCopy, Open, CloneFails
<1>5. CASE EndCopy(w) \/ EndIngest(w) \/ WriteManifest(w) \/ WriteAlias(w)
  BY <1>1, <1>5 DEF EndCopy, EndIngest, WriteManifest, WriteAlias
<1>6. CASE StopWriter(w)
  BY <1>0, <1>1, <1>6 DEF StopWriter
<1>7. CASE w \in Runs /\ LoseRun(w)
  BY <1>0, <1>1, <1>7 DEF LoseRun
<1>8. CASE w \in Runs /\ \E line \in refs[w], o \in Objects : Restage(w, line, o)
  BY <1>1, <1>8 DEF Restage, store
<1>9. CASE AppendIndex(w)
  <2>1. /\ wpc[w] = "index" /\ wpc'[w] = "alias" /\ UNCHANGED <<refs, status>>
        /\ index' = Append(index, [ver |-> job[w].ver, obj |-> job[w].obj])
    BY <1>0, <1>9 DEF AppendIndex
  <2>2. Lines' = Lines
    BY <2>1 DEF Lines, Referenced
  <2>3. p = <<"row", job[w].ver, job[w].obj>>
    BY <1>0, <2>1, <2>2, RowsAppend DEF Roots
  <2>4. job[w].obj \in Objects
    BY <1>0, <2>1 DEF Jobs
  <2> QED BY <2>1, <2>3, <2>4 DEF Moves, Busy, Holds
<1>10. CASE w \in Runs /\ WriteLine(w)
  <2>1. /\ wpc[w] = "line" /\ wpc'[w] = "idle" /\ UNCHANGED <<index, status>>
        /\ refs'[w] \subseteq refs[w] \cup new[w] \cup {job[w]}
        /\ \A r \in Runs : r # w => refs'[r] = refs[r]
    BY <1>0, <1>10 DEF WriteLine
  <2>2. Rows' = Rows
    BY <2>1 DEF Rows, LastRow
  <2>3. PICK r \in Runs : status[r] = "completed" /\ p \in {<<"run", r, o>> : o \in Referenced(r)'}
    BY <2>1, <2>2 DEF Roots, Lines
  <2>4. PICK line \in refs'[r] : p = <<"run", r, line.obj>>
    BY <2>3 DEF Referenced
  <2>5. line \notin refs[r]
    <3>1. SUFFICES ASSUME line \in refs[r] PROVE p \in Lines
      BY DEF Roots
    <3>2. line.obj \in Referenced(r)
      BY <3>1 DEF Referenced
    <3> QED BY <2>3, <2>4, <3>2 DEF Lines
  <2>6. r = w /\ line \in new[w] \cup {job[w]}
    BY <2>1, <2>4, <2>5
  <2>7. line \in Jobs /\ line.obj \in Objects
    <3>1. line \in Jobs
      BY <1>0, <2>1, <2>6
    <3> QED BY <3>1 DEF Jobs
  <2>8. \A f \in Files(line.obj) : Holds(w, f)
    BY <2>1, <2>6 DEF Holds
  <2> QED BY <2>1, <2>4, <2>7, <2>8 DEF Moves, Busy
<1>11. CASE w \in Runs /\ CompleteRun(w)
  <2>1. /\ status[w] = "open" /\ status'[w] = "completed" /\ UNCHANGED <<index, refs>>
        /\ \A r \in Runs : r # w => status'[r] = status[r]
    BY <1>0, <1>11 DEF CompleteRun
  <2>2. Rows' = Rows
    BY <2>1 DEF Rows, LastRow
  <2>3. PICK r \in Runs : status'[r] = "completed" /\ p \in {<<"run", r, o>> : o \in Referenced(r)'}
    BY <2>2 DEF Roots, Lines
  <2>4. PICK line \in refs[r] : p = <<"run", r, line.obj>>
    BY <2>1, <2>3 DEF Referenced
  <2>5. status[r] # "completed"
    <3>1. SUFFICES ASSUME status[r] = "completed" PROVE p \in Lines
      BY DEF Roots
    <3>2. line.obj \in Referenced(r)
      BY <2>4 DEF Referenced
    <3> QED BY <2>4, <3>1, <3>2 DEF Lines
  <2>6. r = w
    BY <2>1, <2>3, <2>5
  <2>7. line.obj \in Objects
    BY <1>0, <2>4 DEF Jobs
  <2>8. \A f \in Files(line.obj) : Holds(w, f)
    BY <1>11, <2>1, <2>4, <2>6 DEF Holds
  <2>9. Moves(w) /\ Busy(w)
    BY <1>11, <2>1, <2>4, <2>6 DEF Moves, Busy
  <2> QED BY <2>4, <2>7, <2>8, <2>9
<1> QED BY <1>2, <1>3, <1>4, <1>5, <1>6, <1>7, <1>8, <1>9, <1>10, <1>11
           DEF WriterAct, WriterStep, RunStep

\* A sweep changes no root.
LEMMA SweepRoots ==
  ASSUME NEW s \in Sweepers, SweepAct(s)
  PROVE Roots' = Roots /\ Kept' = Kept /\ Indexed' = Indexed
        /\ \A r \in Runs : Referenced(r)' = Referenced(r)
<1>1. UNCHANGED <<index, refs, status>>
  BY SweepFrame DEF SweepAct
<1> QED BY <1>1 DEF Kept, Roots, Rows, Lines, LastRow, Indexed, Referenced

KeepInv == HoldInv /\ SafeInv /\ MarkInv

LEMMA InitKeep == Init => KeepInv
BY DEF Init, KeepInv, HoldInv, SafeInv, MarkInv, Marking, Busy, Writers

\* A writer that no sweep has met holds what is there, after its own step and after
\* that of another.
LEMMA WriterHold ==
  ASSUME TypesInv, HoldInv, Observe, NEW w \in Writers, WriterAct(w) PROVE HoldInv'
<1> SUFFICES ASSUME NEW v \in Writers, Busy(v)', calm'[v]
             PROVE ~Sweeping' /\ \A f \in Blobs \cup Objects : Holds(v, f)' => There(f)'
  BY DEF HoldInv
<1>1. Grows
  BY WriterGrows DEF TypesInv
<1>2. ~Sweeping' /\ (Busy(v) => calm[v])
  BY DEF Observe
<1>3. ASSUME NEW f \in Blobs \cup Objects, Holds(v, f)' PROVE There(f)'
  <2>1. (Busy(v) /\ Holds(v, f)) \/ There(f)'
    <3>1. CASE v = w
      BY <1>3, <3>1, HeldFresh
    <3>2. CASE v # w
      <4>1. /\ UNCHANGED <<wpc[v], job[v], todo[v], cur[v], new[v]>>
            /\ v \in Runs => UNCHANGED <<status[v], refs[v]>>
        BY <3>2, WriterFrame DEF TypesInv
      <4> QED BY <1>3, <4>1 DEF Holds, Busy
    <3> QED BY <3>1, <3>2
  <2>2. Busy(v) /\ Holds(v, f) => There(f)
    BY <1>2 DEF HoldInv
  <2> QED BY <1>1, <2>1, <2>2, ThereGrows
<1> QED BY <1>2, <1>3

\* With a sweep at work there is no such writer.
LEMMA SweepHold ==
  ASSUME HoldInv, Observe, NEW s \in Sweepers, SweepAct(s), TypesInv PROVE HoldInv'
<1> SUFFICES ASSUME NEW v \in Writers, Busy(v)', calm'[v] PROVE FALSE
  BY DEF HoldInv
<1>1. Busy(v) /\ ~Sweeping' /\ calm[v]
  <2>1. UNCHANGED <<refs, status, wpc>>
    BY SweepFrame DEF SweepAct
  <2> QED BY <2>1 DEF Observe, Busy
<1>2. ~Sweeping
  BY <1>1 DEF HoldInv
<1>3. spc[s] = "idle" /\ spc'[s] = "idle"
  BY <1>1, <1>2 DEF Sweeping
<1>4. BeginSweep(s)
  BY <1>3 DEF SweepAct, SweepStep, ReadIndex, ReadRun, Walk, Remove, EndSweep, SweepError,
              StopSweeper, Goto
<1> QED BY <1>3, <1>4 DEF BeginSweep, Goto, TypesInv, NamesInv, ProcessTypes

LEMMA WriterKeep ==
  ASSUME TypesInv, KeepInv, Observe, NEW w \in Writers, WriterAct(w) PROVE KeepInv'
<1>1. HoldInv'
  BY WriterHold DEF KeepInv
<1>2. Grows
  BY WriterGrows DEF TypesInv
<1>3. ASSUME NEW p \in safe', p \notin safe
      PROVE ~Sweeping /\ \E o \in Objects : p[3] = o /\ \A f \in Files(o) : There(f)
  <2>1. p \in Roots' /\ p \notin Roots /\ (Moves(w) => calm[w])
    BY <1>3 DEF Observe
  <2>2. Moves(w) /\ Busy(w)
        /\ \E o \in Objects : p[3] = o /\ \A f \in Files(o) : Holds(w, f)
    BY <2>1, NewRoot
  <2>3. ~Sweeping /\ \A f \in Blobs \cup Objects : Holds(w, f) => There(f)
    BY <2>1, <2>2 DEF KeepInv, HoldInv
  <2>4. \A o \in Objects : Files(o) \subseteq Blobs \cup Objects
    BY StoreAssumption DEF Files
  <2> QED BY <2>2, <2>3, <2>4
<1>4. SafeInv'
  <2> SUFFICES ASSUME NEW p \in safe', NEW f \in Files(p[3]) PROVE There(f)'
    BY DEF SafeInv, Files
  <2>1. There(f)
    BY <1>3 DEF KeepInv, SafeInv
  <2>2. f \in Blobs \cup Objects
    <3>1. CASE p \in safe
      BY <3>1, RootObject DEF TypesInv, TypeOK
    <3>2. CASE p \notin safe
      BY <1>3, <3>2, StoreAssumption DEF Files
    <3> QED BY <3>1, <3>2
  <2> QED BY <1>2, <2>1, <2>2, ThereGrows
<1>5. ASSUME NEW s \in Sweepers PROVE Marking(s)'
  <2>1. UNCHANGED <<spc, live, unread, doomed>>
    BY WriterFrame DEF TypesInv
  <2>2. CASE spc[s] = "idle"
    BY <2>1, <2>2 DEF Marking
  <2>3. CASE spc[s] # "idle"
    <3>1. safe' \subseteq safe
      BY <1>3, <2>3 DEF Sweeping
    <3> QED BY <2>1, <3>1 DEF KeepInv, MarkInv, Marking, Files
  <2> QED BY <2>2, <2>3
<1> QED BY <1>1, <1>4, <1>5 DEF KeepInv, MarkInv

\* What a sweep removes is no file of a root that is to be kept.
LEMMA RemoveSpares ==
  ASSUME TypesInv, MarkInv, NEW s \in Sweepers, NEW g, Remove(s, g), NEW p \in safe
  PROVE g \notin Files(p[3])
<1>1. /\ spc[s] = "remove" /\ g \in doomed[s]
  BY DEF Remove
<1>2. p[3] \in live[s]
  <2>1. p \in Roots
    BY DEF TypesInv, TypeOK
  <2>2. CASE \E v \in Versions, o \in Objects : p = <<"row", v, o>>
    BY <1>1, <2>2 DEF MarkInv, Marking
  <2>3. CASE \E r \in Runs, o \in Objects : p = <<"run", r, o>>
    BY <1>1, <2>3 DEF MarkInv, Marking
  <2> QED BY <2>1, <2>2, <2>3, RootForm DEF TypesInv, NamesInv
<1> QED BY <1>1, <1>2 DEF MarkInv, Marking

LEMMA SweepSafe ==
  ASSUME TypesInv, KeepInv, Observe, NEW s \in Sweepers, SweepAct(s)
  PROVE safe' \subseteq safe /\ SafeInv'
<1>1. safe' \subseteq safe
  BY SweepRoots DEF Observe
<1>2. ASSUME NEW p \in safe', NEW f \in Files(p[3]) PROVE There(f)'
  <2>1. p \in safe /\ There(f) /\ f \in Blobs \cup Objects
    BY <1>1, <1>2, RootObject DEF KeepInv, SafeInv, TypesInv, TypeOK
  <2>2. CASE \E g \in Blobs \cup Objects : Remove(s, g)
    <3>1. PICK g \in Blobs \cup Objects : Remove(s, g)
      BY <2>2
    <3>2. f # g
      BY <2>1, <3>1, RemoveSpares DEF KeepInv
    <3> QED BY <2>1, <3>1, <3>2, RemoveLeaves
  <2>3. CASE \A g \in Blobs \cup Objects : ~Remove(s, g)
    BY <2>1, <2>3, SweepGrows, ThereGrows DEF TypesInv
  <2> QED BY <2>2, <2>3
<1> QED BY <1>1, <1>2 DEF SafeInv, Files

LEMMA SweepMark ==
  ASSUME TypesInv, KeepInv, Observe, NEW s \in Sweepers, SweepAct(s) PROVE MarkInv'
<1>0. /\ safe' \subseteq safe /\ safe \subseteq Roots
      /\ spc = [q \in Sweepers |-> spc[q]] /\ live = [q \in Sweepers |-> live[q]]
      /\ unread = [q \in Sweepers |-> unread[q]] /\ doomed = [q \in Sweepers |-> doomed[q]]
  BY SweepSafe DEF TypesInv, TypeOK, ProcessTypes
<1> DEFINE Others == \A q \in Sweepers : q # s => UNCHANGED <<spc[q], live[q], unread[q], doomed[q]>>
<1> SUFFICES Others /\ Marking(s)'
  <2>1. ASSUME NEW q \in Sweepers, q # s, Others PROVE Marking(q)'
    <3>1. Marking(q) /\ UNCHANGED <<spc[q], live[q], unread[q], doomed[q]>>
      BY <2>1 DEF KeepInv, MarkInv
    <3> QED BY <1>0, <3>1 DEF Marking, Files
  <2> QED BY <2>1 DEF MarkInv
<1>1. CASE BeginSweep(s)
  BY <1>0, <1>1 DEF BeginSweep, Goto, Marking
<1>2. CASE ReadIndex(s)
  <2>1. /\ Others /\ spc'[s] = "runs" /\ live'[s] = Indexed /\ unread'[s] = Runs
    BY <1>0, <1>2 DEF ReadIndex, Goto
  <2>2. \A v \in Versions, o \in Objects : <<"row", v, o>> \in safe' => o \in Indexed
    BY <1>0, RootForm DEF TypesInv, NamesInv
  <2> QED BY <2>1, <2>2 DEF Marking
<1>3. ASSUME NEW r \in Runs, ReadRun(s, r) PROVE Others /\ Marking(s)'
  <2>1. /\ Others /\ spc[s] = "runs" /\ spc'[s] = "runs" /\ unread'[s] = unread[s] \ {r}
        /\ live'[s] = IF status[r] = "completed" THEN live[s] \cup Referenced(r) ELSE live[s]
    BY <1>0, <1>3 DEF ReadRun
  <2>2. \A o \in Objects : <<"run", r, o>> \in safe' => status[r] = "completed" /\ o \in Referenced(r)
    BY <1>0, RootForm DEF TypesInv, NamesInv
  <2> QED BY <1>0, <2>1, <2>2 DEF KeepInv, MarkInv, Marking
<1>4. CASE Walk(s)
  <2>1. /\ Others /\ spc[s] = "runs" /\ spc'[s] = "remove" /\ unread[s] = {}
        /\ UNCHANGED <<live, unread>> /\ doomed'[s] = InStore \ FilesOf(live[s])
    BY <1>0, <1>4 DEF Walk, Goto
  <2>2. \A o \in live[s] : doomed'[s] \cap Files(o) = {}
    BY <2>1 DEF FilesOf
  <2> QED BY <1>0, <2>1, <2>2 DEF KeepInv, MarkInv, Marking, Files
<1>5. ASSUME NEW f \in Blobs \cup Objects, Remove(s, f) PROVE Others /\ Marking(s)'
  <2>1. /\ Others /\ spc[s] = "remove" /\ UNCHANGED <<spc, live, unread>>
        /\ doomed'[s] = doomed[s] \ {f}
    BY <1>0, <1>5 DEF Remove
  <2> QED BY <1>0, <2>1 DEF KeepInv, MarkInv, Marking, Files
<1>6. CASE EndSweep(s) \/ SweepError(s) \/ StopSweeper(s)
  <2>1. Leave(s)
    BY <1>6 DEF EndSweep, SweepError, StopSweeper
  <2> QED BY <1>0, <2>1 DEF Leave, Marking
<1> QED BY <1>1, <1>2, <1>3, <1>4, <1>5, <1>6 DEF SweepAct, SweepStep

LEMMA NextKeep == ASSUME TypesInv, KeepInv, [Next]_vars PROVE KeepInv'
<1>1. CASE UNCHANGED vars
  <2>1. /\ UNCHANGED <<blob, trees, refs, status, wpc, job, new, todo, cur, spc, live, unread>>
        /\ UNCHANGED <<doomed, calm, safe, torn>>
    BY <1>1 DEF vars, store, writers, sweepers, observed
  <2>2. ASSUME NEW f PROVE There(f)' <=> There(f)
    BY <2>1 DEF There, InStore, Retried
  <2>3. HoldInv'
    <3>1. ASSUME NEW v \in Writers, NEW f PROVE (Holds(v, f)' <=> Holds(v, f)) /\ (Busy(v)' <=> Busy(v))
      BY <2>1 DEF Holds, Busy, Files
    <3>2. Sweeping' <=> Sweeping
      BY <2>1 DEF Sweeping
    <3> QED BY <2>1, <2>2, <3>1, <3>2 DEF KeepInv, HoldInv
  <2>4. SafeInv'
    BY <2>1, <2>2 DEF KeepInv, SafeInv, Files
  <2>5. MarkInv'
    BY <2>1 DEF KeepInv, MarkInv, Marking, Files
  <2> QED BY <2>3, <2>4, <2>5 DEF KeepInv
<1>2. ASSUME Next, NEW w \in Writers, WriterAct(w) PROVE KeepInv'
  BY <1>2, NextObserves, WriterKeep
<1>3. ASSUME Next, NEW s \in Sweepers, SweepAct(s) PROVE KeepInv'
  <2>1. Observe
    BY <1>3, NextObserves
  <2> QED BY <1>3, <2>1, SweepHold, SweepSafe, SweepMark DEF KeepInv
<1> QED BY <1>1, <1>2, <1>3, NextActs

\* What was stored while no sweep was at work stays for as long as a root names it,
\* whatever sweeps, writers and deaths come afterwards (gc.rs, reachable_objects).
THEOREM RootsAlwaysPresent == Spec => []RootsPresent
<1>1. Init => TypesInv /\ KeepInv
  BY InitTypes, InitKeep
<1>2. TypesInv /\ KeepInv /\ [Next]_vars => (TypesInv /\ KeepInv)'
  BY NextTypesInv, NextKeep
<1>3. KeepInv => RootsPresent
  BY DEF KeepInv, SafeInv, RootsPresent, There
<1> QED BY <1>1, <1>2, <1>3, PTL DEF Spec

-----------------------------------------------------------------------------
(* What a sweep leaves.                                                    *)

Seeing(s) ==
  /\ spc[s] # "idle" => FilesOf(Kept) \subseteq seen[s]
  /\ spc[s] \in {"runs", "remove"} => FilesOf(live[s]) \subseteq seen[s]
  /\ spc[s] = "remove" => InStore \subseteq doomed[s] \cup seen[s]

SeenInv == \A s \in Sweepers : Seeing(s)

\* A root's object is kept.
LEMMA ReadKept ==
  ASSUME ProcessTypes
  PROVE Indexed \subseteq Kept /\ \A r \in Runs : status[r] = "completed" => Referenced(r) \subseteq Kept
<1>1. ASSUME NEW i \in 1..Len(index), LastRow(i) PROVE index[i].obj \in Kept
  <2>1. <<"row", index[i].ver, index[i].obj>> \in Roots
    BY <1>1 DEF Roots, Rows
  <2> QED BY <2>1 DEF Kept
<1>2. ASSUME NEW r \in Runs, status[r] = "completed", NEW o \in Referenced(r) PROVE o \in Kept
  <2>1. <<"run", r, o>> \in Roots
    BY <1>2 DEF Roots, Lines
  <2> QED BY <2>1 DEF Kept
<1> QED BY <1>1, <1>2 DEF Indexed

\* What a step does to what is observed of a sweep.
LEMMA SeenGrows ==
  ASSUME TypesInv, Observe, NEW s \in Sweepers, spc'[s] # "idle"
  PROVE seen[s] \cup FilesOf(Kept)' \cup (InStore' \ InStore) \subseteq seen'[s]
BY DEF Observe, FilesOf, Files

LEMMA SeenOther ==
  ASSUME TypesInv, SeenInv, Observe, NEW s \in Sweepers,
         UNCHANGED <<spc[s], live[s], unread[s], doomed[s]>>
  PROVE Seeing(s)'
<1>1. CASE spc[s] = "idle"
  BY <1>1 DEF Seeing
<1>2. CASE spc[s] # "idle"
  <2>1. seen[s] \cup FilesOf(Kept)' \cup (InStore' \ InStore) \subseteq seen'[s]
    BY <1>2, SeenGrows
  <2>2. FilesOf(live[s])' = FilesOf(live[s])
    BY DEF FilesOf, Files
  <2> QED BY <1>2, <2>1, <2>2 DEF SeenInv, Seeing
<1> QED BY <1>1, <1>2

LEMMA SweepSeen ==
  ASSUME TypesInv, SeenInv, Observe, NEW s \in Sweepers, SweepAct(s) PROVE SeenInv'
<1>0. /\ spc = [q \in Sweepers |-> spc[q]] /\ live = [q \in Sweepers |-> live[q]]
      /\ unread = [q \in Sweepers |-> unread[q]] /\ doomed = [q \in Sweepers |-> doomed[q]]
      /\ ProcessTypes
  BY DEF TypesInv, TypeOK, ProcessTypes
<1> DEFINE Others == \A q \in Sweepers : q # s => UNCHANGED <<spc[q], live[q], unread[q], doomed[q]>>
<1> SUFFICES Others /\ Seeing(s)'
  BY SeenOther DEF SeenInv, Seeing
<1>a. Kept' = Kept
  BY SweepRoots
<1>b. FilesOf(Kept)' = FilesOf(Kept)
  BY <1>a DEF FilesOf, Files
<1>c. spc'[s] # "idle" => seen[s] \cup FilesOf(Kept) \cup (InStore' \ InStore) \subseteq seen'[s]
  BY <1>b, SeenGrows
<1>1. CASE BeginSweep(s)
  <2>1. Others /\ spc'[s] = "index"
    BY <1>0, <1>1 DEF BeginSweep, Goto
  <2> QED BY <1>b, <1>c, <2>1 DEF Seeing
<1>2. CASE ReadIndex(s)
  <2>1. Others /\ spc'[s] = "runs" /\ live'[s] = Indexed
    BY <1>0, <1>2 DEF ReadIndex, Goto
  <2>2. FilesOf(live[s])' \subseteq FilesOf(Kept)
    BY <1>0, <2>1, ReadKept DEF FilesOf, Files
  <2> QED BY <1>b, <1>c, <2>1, <2>2 DEF Seeing
<1>3. ASSUME NEW r \in Runs, ReadRun(s, r) PROVE Others /\ Seeing(s)'
  <2>1. /\ Others /\ spc[s] = "runs" /\ spc'[s] = "runs"
        /\ live'[s] = IF status[r] = "completed" THEN live[s] \cup Referenced(r) ELSE live[s]
    BY <1>0, <1>3 DEF ReadRun
  <2>2. live'[s] \subseteq live[s] \cup Kept
    BY <1>0, <2>1, ReadKept
  <2>3. FilesOf(live[s])' \subseteq FilesOf(live[s]) \cup FilesOf(Kept)
    BY <2>2 DEF FilesOf, Files
  <2> QED BY <1>b, <1>c, <2>1, <2>3 DEF SeenInv, Seeing
<1>4. CASE Walk(s)
  <2>1. /\ Others /\ spc[s] = "runs" /\ spc'[s] = "remove" /\ UNCHANGED <<live, blob, trees>>
        /\ doomed'[s] = InStore \ FilesOf(live[s])
    BY <1>0, <1>4 DEF Walk, Goto, store
  <2>2. FilesOf(live[s])' = FilesOf(live[s]) /\ InStore' = InStore
    BY <2>1 DEF FilesOf, Files, InStore
  <2> QED BY <1>b, <1>c, <2>1, <2>2 DEF SeenInv, Seeing
<1>5. ASSUME NEW f \in Blobs \cup Objects, Remove(s, f) PROVE Others /\ Seeing(s)'
  <2>1. /\ Others /\ spc[s] = "remove" /\ UNCHANGED <<spc, live>>
        /\ doomed'[s] = doomed[s] \ {f}
    BY <1>0, <1>5 DEF Remove
  <2>2. InStore' \subseteq InStore \ {f}
    BY <1>5, StoreAssumption DEF Remove, InStore
  <2>3. FilesOf(live[s])' = FilesOf(live[s])
    BY <2>1 DEF FilesOf, Files
  <2> QED BY <1>b, <1>c, <2>1, <2>2, <2>3 DEF SeenInv, Seeing
<1>6. CASE EndSweep(s) \/ SweepError(s) \/ StopSweeper(s)
  <2>1. Leave(s)
    BY <1>6 DEF EndSweep, SweepError, StopSweeper
  <2> QED BY <1>0, <2>1 DEF Leave, Seeing
<1> QED BY <1>1, <1>2, <1>3, <1>4, <1>5, <1>6 DEF SweepAct, SweepStep

LEMMA NextSeen == ASSUME TypesInv, SeenInv, [Next]_vars PROVE SeenInv'
<1>1. CASE UNCHANGED vars
  <2>1. UNCHANGED <<blob, trees, index, refs, status, spc, live, doomed, seen>>
    BY <1>1 DEF vars, store, sweepers, observed
  <2>2. InStore' = InStore /\ Roots' = Roots
    BY <2>1 DEF InStore, Roots, Rows, LastRow, Lines, Referenced
  <2>3. FilesOf(Kept)' = FilesOf(Kept)
    BY <2>2 DEF FilesOf, Kept, Files
  <2>4. \A s \in Sweepers : FilesOf(live[s])' = FilesOf(live[s])
    BY <2>1 DEF FilesOf, Files
  <2> QED BY <2>1, <2>2, <2>3, <2>4 DEF SeenInv, Seeing
<1>2. ASSUME Next, NEW w \in Writers, WriterAct(w) PROVE SeenInv'
  <2>1. Observe /\ UNCHANGED <<spc, live, unread, doomed>>
    BY <1>2, NextObserves, WriterFrame DEF TypesInv
  <2> QED BY <2>1, SeenOther DEF SeenInv, Seeing
<1>3. ASSUME Next, NEW s \in Sweepers, SweepAct(s) PROVE SeenInv'
  BY <1>3, NextObserves, SweepSeen
<1> QED BY <1>1, <1>2, <1>3, NextActs

\* A sweep that ends without an error has removed everything that no root needed and
\* no process put in the store while it ran, whatever ran beside it.
THEOREM SweepsAreComplete == Spec => SweepIsComplete
<1>1. Init => TypesInv /\ SeenInv
  <2>1. Init => SeenInv
    BY DEF Init, SeenInv, Seeing
  <2> QED BY <2>1, InitTypes
<1>2. TypesInv /\ SeenInv /\ [Next]_vars => (TypesInv /\ SeenInv)'
  BY NextTypesInv, NextSeen
<1>3. SeenInv /\ [Next]_vars => [\A s \in Sweepers : EndSweep(s) => InStore \subseteq seen[s]]_vars
  BY DEF SeenInv, Seeing, EndSweep
<1> QED BY <1>1, <1>2, <1>3, PTL DEF Spec, SweepIsComplete

-----------------------------------------------------------------------------
(* Copies.                                                                 *)

CopyInv ==
  /\ \A b \in Blobs :
       /\ owner[b] \in Writers => wpc[owner[b]] \in {"clone", "copy"} /\ cur[owner[b]] = b
       /\ blob[b] = "partial" /\ stops = 0 => owner[b] \in Writers
  /\ stops = 0 => torn = {}

LEMMA CopyFrame ==
  ASSUME TypesInv, CopyInv, UNCHANGED <<blob, owner, wpc, cur>>, stops' = 0 => stops = 0,
         Observe
  PROVE CopyInv'
<1>1. stops' = 0 => torn' = {}
  BY DEF CopyInv, Observe
<1> QED BY <1>1 DEF CopyInv

\* The files that are open for writing, whoever copies to them.
LEMMA NextCopy == ASSUME TypesInv, CopyInv, [Next]_vars PROVE CopyInv'
<1>0. /\ blob \in [Blobs -> {"absent", "partial", "full"}] /\ owner \in [Blobs -> Writers \cup {NoOne}]
      /\ wpc = [v \in Writers |-> wpc[v]] /\ cur \in [Writers -> Blobs \cup {NoBlob}]
      /\ stops \in Nat /\ NoOne \notin Writers /\ NoBlob \notin Blobs
      /\ \A w \in Writers : wpc[w] \in {"missing", "clone", "retry", "copy"} => cur[w] \in Blobs
  BY StoreAssumption DEF TypesInv, NamesInv, ProcessTypes, WriterOK, Writers
<1> DEFINE Owned == \A b \in Blobs :
      /\ owner[b] \in Writers => wpc[owner[b]] \in {"clone", "copy"} /\ cur[owner[b]] = b
      /\ blob[b] = "partial" /\ stops = 0 => owner[b] \in Writers
<1>1. Owned
  BY DEF CopyInv
<1>2. ASSUME Observe, Owned', stops' = stops, \A w \in Writers : wpc[w] = "retry" => wpc'[w] # "idle"
      PROVE CopyInv'
  <2>1. stops' = 0 => torn' = {}
    BY <1>2 DEF CopyInv, Observe
  <2> QED BY <1>2, <2>1 DEF CopyInv
<1>3. ASSUME NEW w \in Writers, NEW from \in {"missing", "retry"}, NEW to \in {"clone", "copy"},
             Open(w, from, to)
      PROVE CopyInv'
  <2>1. Owned' /\ stops' = stops /\ \A v \in Writers : wpc[v] = "retry" => wpc'[v] # "idle"
    BY <1>0, <1>1, <1>3 DEF Open
  <2> QED BY <1>2, <1>3, <2>1 DEF Open
<1>4. ASSUME NEW w \in Writers, CloneFails(w) PROVE CopyInv'
  <2>1. Owned' /\ stops' = stops /\ \A v \in Writers : wpc[v] = "retry" => wpc'[v] # "idle"
    BY <1>0, <1>1, <1>4 DEF CloneFails
  <2> QED BY <1>2, <1>4, <2>1 DEF CloneFails
<1>5. ASSUME NEW w \in Writers, EndCopy(w) PROVE CopyInv'
  <2>1. Owned' /\ stops' = stops /\ \A v \in Writers : wpc[v] = "retry" => wpc'[v] # "idle"
    BY <1>0, <1>1, <1>5 DEF EndCopy
  <2> QED BY <1>2, <1>5, <2>1 DEF EndCopy
<1>6. ASSUME NEW w \in Writers, StopWriter(w) PROVE CopyInv'
  <2>1. Owned' /\ stops' # 0
    BY <1>0, <1>1, <1>6 DEF StopWriter
  <2> QED BY <2>1 DEF CopyInv
<1>7. ASSUME NEW s \in Sweepers, NEW f \in Blobs \cup Objects, Remove(s, f) PROVE CopyInv'
  <2>1. Owned' /\ stops' = stops /\ UNCHANGED wpc
    BY <1>0, <1>1, <1>7 DEF Remove, writers
  <2> QED BY <1>2, <1>7, <2>1 DEF Remove
<1>8. ASSUME NEW w \in Writers,
             \/ \E j \in Events : Begin(w, j)
             \/ \E b \in Blobs : FindBlob(w, b) \/ MissBlob(w, b)
             \/ EndIngest(w) \/ WriteManifest(w) \/ AppendIndex(w) \/ WriteAlias(w)
             \/ WriteLine(w) \/ CompleteRun(w) \/ LoseRun(w)
             \/ \E line \in refs[w], o \in Objects : Restage(w, line, o)
      PROVE CopyInv'
  <2>1. UNCHANGED <<blob, owner, stops>> /\ Observe
    BY <1>8 DEF Begin, FindBlob, MissBlob, EndIngest, WriteManifest, AppendIndex, WriteAlias,
                WriteLine, CompleteRun, LoseRun, Restage, store
  <2>2. \A v \in Writers : wpc[v] \in {"clone", "copy"} => wpc'[v] = wpc[v] /\ cur'[v] = cur[v]
    BY <1>0, <1>8 DEF Begin, FindBlob, MissBlob, EndIngest, WriteManifest, AppendIndex, WriteAlias,
                WriteLine, CompleteRun, LoseRun, Restage, store, writers
  <2>3. \A v \in Writers : wpc[v] = "retry" => wpc'[v] # "idle"
    BY <1>0, <1>8 DEF Begin, FindBlob, MissBlob, EndIngest, WriteManifest, AppendIndex, WriteAlias,
                WriteLine, CompleteRun, LoseRun, Restage, store, writers
  <2>4. Owned'
    BY <1>0, <1>1, <2>1, <2>2
  <2> QED BY <1>2, <2>1, <2>3, <2>4
<1>9. ASSUME Next, NEW s \in Sweepers, SweepAct(s), \A f \in Blobs \cup Objects : ~Remove(s, f)
      PROVE CopyInv'
  <2>1. UNCHANGED <<blob, owner>> /\ (stops' = 0 => stops = 0)
    <3>1. CASE BeginSweep(s) \/ ReadIndex(s) \/ (\E r \in Runs : ReadRun(s, r)) \/ Walk(s)
      BY <3>1 DEF BeginSweep, ReadIndex, ReadRun, Walk, store
    <3>2. CASE EndSweep(s) \/ SweepError(s) \/ StopSweeper(s)
      <4>1. Leave(s) /\ (stops' = 0 => stops = 0)
        BY <1>0, <3>2 DEF EndSweep, SweepError, StopSweeper
      <4> QED BY <4>1 DEF Leave, store
    <3> QED BY <1>9, <3>1, <3>2 DEF SweepAct, SweepStep
  <2>2. UNCHANGED <<wpc, cur>>
    BY <1>9, SweepFrame DEF SweepAct
  <2> QED BY <1>9, <2>1, <2>2, NextObserves, CopyFrame
<1>10. CASE UNCHANGED vars
  BY <1>1, <1>10 DEF CopyInv, vars, store, writers, observed
<1>11. ASSUME NEW w \in Writers, WriterAct(w) PROVE CopyInv'
  BY <1>3, <1>4, <1>5, <1>6, <1>8, <1>11 DEF WriterAct, WriterStep, RunStep, OpenClone, StartCopy
<1> QED
  BY <1>7, <1>9, <1>10, <1>11, NextActs

\* What was stored while no sweep was at work is whole, unless a process died, but for
\* what a writer is copying again, however many copy the same blobs (store.rs,
\* copy_file_fast).
THEOREM RootsAlwaysIntact == Spec => []RootsIntact
<1>1. Init => TypesInv /\ KeepInv /\ CopyInv
  <2>1. Init => CopyInv
    BY StoreAssumption DEF Init, CopyInv
  <2> QED BY <2>1, InitTypes, InitKeep
<1>2. TypesInv /\ KeepInv /\ CopyInv /\ [Next]_vars => (TypesInv /\ KeepInv /\ CopyInv)'
  BY NextTypesInv, NextKeep, NextCopy
<1>3. ASSUME TypesInv, KeepInv, CopyInv PROVE RootsIntact
  <2> SUFFICES ASSUME stops = 0, NEW p \in safe, NEW b \in p[3].blobs
               PROVE \/ blob[b] = "full"
                     \/ \E w \in Writers : wpc[w] \in {"clone", "retry", "copy"} /\ cur[w] = b
    BY DEF RootsIntact
  <2>1. b \in Blobs /\ There(b)
    <3>1. b \in Blobs
      BY <1>3, RootObject DEF TypesInv, TypeOK
    <3>2. b \in Files(p[3])
      BY DEF Files
    <3> QED BY <1>3, <3>1, <3>2 DEF KeepInv, SafeInv
  <2>2. torn = {} /\ b \notin trees /\ blob[b] \in {"absent", "partial", "full"}
    BY <1>3, <2>1, StoreAssumption DEF CopyInv, TypesInv, NamesInv, ProcessTypes
  <2>3. CASE blob[b] = "absent"
    BY <2>1, <2>2, <2>3 DEF There, InStore, Retried
  <2>4. CASE blob[b] = "partial"
    <3>1. owner[b] \in Writers
      BY <1>3, <2>1, <2>4 DEF CopyInv
    <3> QED BY <1>3, <2>1, <3>1 DEF CopyInv
  <2> QED BY <2>2, <2>3, <2>4
<1> QED BY <1>1, <1>2, <1>3, PTL DEF Spec

=============================================================================
