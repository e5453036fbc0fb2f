---------------------------- MODULE ReaderProofs ----------------------------
(***************************************************************************)
(* Commands that read what others change meanwhile, any number of them.    *)
(*                                                                         *)
(* RegistryCache: a cache that nothing has spoilt stands for what a        *)
(* discovery of the hashed sources returns, and a command that nothing has *)
(* disturbed returns what a discovery of the present sources returns.      *)
(*                                                                         *)
(* RunScans: a reader that succeeds has reported, of the runs that stayed  *)
(* as they were, those it is about; what a remover removed is what it was  *)
(* asked to remove; a wildcard matches exactly what it stands for.         *)
(***************************************************************************)
EXTENDS RegistryCache, RunScans, WellFoundedInduction, TLAPS

-----------------------------------------------------------------------------
(* RegistryCache: the inductive invariant.                                 *)

\* Nothing discovered, or every file that was there.
Whole(records, there) == records = Nothing \/ \A f \in there : records[f] # Absent

\* What the content of a file adds to the registry.
Declared(v) == IF NotFound(v) THEN Absent ELSE v

\* The cache is what a discovery of the sources it has hashed would return today, and
\* a file that is not there today was not there then.
Backed(k) ==
  /\ k.records = Discovered(k.hashes)
  /\ \A f \in Files : source[f] = Absent => k.hashes[f] = Absent
  /\ k.strict => Whole(k.records, {f \in Files : k.hashes[f] # Absent})

\* What an undisturbed command knows of its work so far.
Checked(c) == /\ loaded[c].strict = strict[c]
              /\ loaded[c].clean => Backed(loaded[c])
              /\ \A f \in Present \ left[c] : loaded[c].hashes[f] = source[f]

Imported(c) == /\ \A f \in left[c] : seen[c][f] = Absent
               /\ \A f \in Files \ left[c] :
                    /\ source[f] \notin Failing \cup Exiting
                    /\ seen[c][f] = Declared(source[f])
                    /\ strict[c] /\ f \in Present => seen[c][f] # Absent

Hashed(c) == /\ seen[c] = Discovered(source)
             /\ strict[c] => Whole(seen[c], Present)
             /\ \A f \in Files \ left[c] : hashes[c][f] = source[f]

OnCourse(c) == /\ listed[c] = Present
               /\ left[c] \subseteq Present
               /\ pc[c] = "check" => Checked(c)
               /\ pc[c] = "import" => Imported(c)
               /\ pc[c] = "hash" => Hashed(c)

CommandInv(c) == /\ pc[c] # "hash" => hashes[c] = Nothing
                 /\ pc[c] \notin {"check", "import", "hash"} => left[c] = {}
                 /\ pc[c] \in Working /\ ~disturbed[c] => OnCourse(c)

CacheInv == cache # NoCache /\ cache.clean => Backed(cache)

RInv == TypeOK /\ CacheInv /\ \A c \in Commands : CommandInv(c)

-----------------------------------------------------------------------------
(* The file to import next is one of those left.                           *)

LEMMA MinIsIn == ASSUME NEW S \in SUBSET Nat, S # {} PROVE Min(S) \in S
<1>1. \E x \in S : \A y \in S : ~(y < x)
  <2> DEFINE Less == {p \in Nat \X Nat : p[1] < p[2]}
  <2>1. IsWellFoundedOn(Less, Nat)
    BY NatLessThanWellFounded DEF OpToRel
  <2>2. PICK x \in S : \A y \in S : ~(<<y, x>> \in Less)
    BY <2>1, WFMin, Zenon
  <2> QED  BY <2>2
<1>2. \E x \in S : \A y \in S : x =< y
  BY <1>1
<1> QED  BY <1>2 DEF Min

-----------------------------------------------------------------------------
(* Types.                                                                  *)

LEMMA InitTypes == Init => TypeOK
  BY RegistryAssumption DEF Init, TypeOK, Sources, Nothing, Contents

LEMMA CommandTypes ==
  ASSUME TypeOK, NEW c \in Commands, CommandStep(c)
  PROVE  TypeOK'
<1> USE DEF TypeOK, Go, Working
<1>n. Nothing \in Sources  BY DEF Nothing, Sources
<1>1. CASE Load(c)  BY <1>1 DEF Load, Matches
<1>2. CASE \E f \in Files : Check(c, f)  BY <1>2 DEF Check
<1>3. CASE \E f \in Files : Hash(c, f)  BY <1>3 DEF Hash, Sources
<1>4. CASE Serve(c)  BY <1>4, <1>n DEF Serve, End
<1>5. CASE Spawn(c)  BY <1>5, <1>n DEF Spawn, Present
<1>6. CASE ImportFile(c)
  <2> DEFINE f == Min(left[c])
             v == source[f]
  <2>1. f \in left[c] /\ f \in Files
    BY <1>6, MinIsIn, RegistryAssumption DEF ImportFile
  <2>2. v \in Contents \cup {Absent}
    BY <2>1 DEF Sources
  <2>3. Import(c, f, v) /\ pc[c] = "import" /\ UNCHANGED <<source, installed, cache, edits>>
    BY <1>6 DEF ImportFile
  <2> HIDE DEF f, v
  <2>4. CASE End(c, "idle")  BY <1>n, <2>3, <2>4 DEF End
  <2>5. CASE Collect(c, Nothing)  BY <1>n, <2>3, <2>5 DEF Collect
  <2>6. CASE seen' = [seen EXCEPT ![c][f] = v] /\ left' = [left EXCEPT ![c] = @ \ {f}]
             /\ UNCHANGED <<pc, strict, listed, loaded, hashes, disturbed>>
    BY <2>1, <2>2, <2>3, <2>6 DEF Sources
  <2>7. CASE left' = [left EXCEPT ![c] = @ \ {f}]
             /\ UNCHANGED <<pc, strict, listed, loaded, seen, hashes, disturbed>>
    BY <2>1, <2>3, <2>7
  <2> QED  BY <2>3, <2>4, <2>5, <2>6, <2>7 DEF Import
<1>7. CASE EndImport(c)
  <2>1. CASE End(c, "idle")  BY <1>7, <1>n, <2>1 DEF EndImport, End
  <2>2. CASE Collect(c, seen[c])  BY <1>7, <2>2 DEF EndImport, Collect
  <2> QED  BY <1>7, <2>1, <2>2 DEF EndImport
<1>8. CASE Save(c)
  BY <1>8, <1>n DEF Save, End, Caches
<1> QED  BY <1>1, <1>2, <1>3, <1>4, <1>5, <1>6, <1>7, <1>8 DEF CommandStep

LEMMA NextTypes == TypeOK /\ [Next]_vars => TypeOK'
<1> SUFFICES ASSUME TypeOK, [Next]_vars PROVE TypeOK'
  OBVIOUS
<1> USE DEF TypeOK, Go, Working
<1>n. Nothing \in Sources  BY DEF Nothing, Sources
<1>1. ASSUME NEW c \in Commands, NEW s \in BOOLEAN, NEW refresh \in BOOLEAN, Begin(c, s, refresh)
      PROVE  TypeOK'
  BY <1>1 DEF Begin, CacheKeyFor, Present
<1>2. ASSUME NEW c \in Commands, CommandStep(c) PROVE TypeOK'
  BY <1>2, CommandTypes
<1>3. ASSUME NEW c \in Commands, Fail(c) PROVE TypeOK'
  BY <1>3, <1>n DEF Fail, End
<1>4. ASSUME NEW gone \in BOOLEAN, Spoil(gone) PROVE cache' \in Caches \cup {NoCache}
  BY <1>4 DEF Spoil, Caches
<1>5. ASSUME Change PROVE edits' \in 0..MaxEdits /\ disturbed' \in [Commands -> BOOLEAN]
  BY <1>5, RegistryAssumption DEF Change
<1>6. ASSUME NEW f \in Files, NEW v \in Contents \cup {Absent}, Edit(f, v) PROVE TypeOK'
  <2>1. Spoil(v = Absent) /\ Change /\ source' = [source EXCEPT ![f] = v] /\ UNCHANGED <<installed, command>>
    BY <1>6 DEF Edit
  <2> QED  BY <1>4, <1>5, <2>1 DEF Sources, command
<1>7. CASE Install
  <2>1. Spoil(TRUE) /\ Change /\ installed' = ~installed /\ UNCHANGED <<source, command>>
    BY <1>7 DEF Install
  <2> QED  BY <1>4, <1>5, <2>1 DEF command
<1>8. CASE CleanCache  BY <1>8 DEF CleanCache, command
<1>9. CASE UNCHANGED vars  BY <1>9 DEF vars, command
<1> QED  BY <1>1, <1>2, <1>3, <1>6, <1>7, <1>8, <1>9 DEF Next

\* The cache file, what each command holds and what it has seen are always of their kind.
THEOREM TypeCorrect == Spec => []TypeOK
  BY InitTypes, NextTypes, PTL DEF Spec

-----------------------------------------------------------------------------
(* One command at work.                                                    *)

\* A step of one command leaves the others alone.
LEMMA OthersKept ==
  ASSUME TypeOK, NEW c \in Commands, NEW d \in Commands, c # d, CommandInv(d),
         UNCHANGED <<source, installed, pc[d], strict[d], listed[d], loaded[d], left[d],
                     seen[d], hashes[d], disturbed[d]>>
  PROVE  CommandInv(d)'
  BY DEF CommandInv, OnCourse, Checked, Imported, Hashed, Backed, Present, Discovered,
         NotFound, Declared, Whole

\* A command that has ended knows nothing.
LEMMA EndedKnows ==
  ASSUME TypeOK, NEW c \in Commands, NEW how \in {"idle", "served", "discovered"}, End(c, how)
  PROVE  CommandInv(c)'
  BY DEF TypeOK, End, Go, CommandInv, Working

\* Of the sources as they are, a discovery returns what each file declares.
LEMMA WhatIsDiscovered ==
  ASSUME NEW s \in Sources, \A f \in Files : s[f] \notin Exiting
  PROVE  Discovered(s) = [f \in Files |-> Declared(s[f])]
  BY DEF Discovered, Declared

LEMMA BeginKeeps ==
  ASSUME RInv, NEW c \in Commands, NEW s \in BOOLEAN, NEW refresh \in BOOLEAN, Begin(c, s, refresh)
  PROVE  CommandInv(c)'
<1>1. left'[c] = {} /\ listed'[c] = Present /\ Present' = Present /\ pc'[c] \in {"load", "spawn"} /\ UNCHANGED hashes
  BY DEF RInv, TypeOK, CommandInv, Begin, CacheKeyFor, Go, Present, Working
<1> QED  BY <1>1 DEF RInv, CommandInv, OnCourse, Begin, CacheKeyFor, Working

LEMMA LoadKeeps ==
  ASSUME RInv, NEW c \in Commands, Load(c)
  PROVE  CommandInv(c)'
<1> USE DEF RInv, TypeOK, CommandInv, Working, Go
<1>1. UNCHANGED <<source, installed, listed, strict, hashes, disturbed>> /\ pc[c] = "load"
  BY DEF Load
<1>2. CASE /\ Matches(c) /\ loaded' = [loaded EXCEPT ![c] = cache]
           /\ left' = [left EXCEPT ![c] = listed[c]] /\ Go(c, "check")
  <2>1. loaded'[c] = cache /\ cache.strict = strict[c] /\ left'[c] = listed[c] /\ pc'[c] = "check"
    BY <1>2 DEF Matches
  <2>2. cache.clean => Backed(cache)
    BY <1>2 DEF CacheInv, Matches
  <2>3. cache' = cache
    BY DEF Load
  <2>4. cache.clean => Backed(cache)'
    <3> HIDE DEF RInv, TypeOK, CommandInv
    <3> QED  BY <1>1, <2>2, <2>3 DEF Backed, Whole, Discovered, NotFound
  <2>5. ~disturbed[c] => Checked(c)'
    <3>1. ~disturbed[c] => Present' \ left'[c] = {}
      BY <1>1, <2>1 DEF OnCourse, Present
    <3>2. (loaded[c].clean => Backed(loaded[c]))'
      BY <2>1, <2>3, <2>4 DEF Backed
    <3> QED  BY <1>1, <2>1, <3>1, <3>2 DEF Checked
  <2> QED  BY <1>1, <2>1, <2>5 DEF OnCourse, Present
<1>3. CASE Go(c, "spawn") /\ UNCHANGED <<loaded, left>>
  BY <1>1, <1>3 DEF OnCourse, Present
<1> QED  BY <1>2, <1>3 DEF Load

LEMMA CheckKeeps ==
  ASSUME RInv, NEW c \in Commands, NEW f \in Files, Check(c, f)
  PROVE  CommandInv(c)'
<1> USE DEF RInv, TypeOK, CommandInv, Working, Go
<1>1. UNCHANGED <<source, installed, listed, strict, hashes, disturbed>> /\ pc[c] = "check"
  BY DEF Check
<1>2. CASE /\ source[f] \in {Absent, loaded[c].hashes[f]}
           /\ left' = [left EXCEPT ![c] = @ \ {f}] /\ UNCHANGED <<pc, loaded>>
  <2>1. left'[c] = left[c] \ {f} /\ pc'[c] = "check"
    BY <1>1, <1>2
  <2>2. ~disturbed[c] => Checked(c)'
    BY <1>1, <1>2, <2>1 DEF Checked, OnCourse, Backed, Present, Whole, Discovered, NotFound
  <2> QED  BY <1>1, <2>1, <2>2 DEF OnCourse, Present
<1>3. CASE Go(c, "spawn") /\ left' = [left EXCEPT ![c] = {}]
  BY <1>1, <1>3 DEF OnCourse, Present
<1> QED  BY <1>2, <1>3 DEF Check

LEMMA SpawnKeeps ==
  ASSUME RInv, NEW c \in Commands, Spawn(c)
  PROVE  CommandInv(c)'
<1> USE DEF RInv, TypeOK, CommandInv, Working, Go
<1>1. /\ UNCHANGED <<source, installed, listed, strict, hashes, disturbed>> /\ pc[c] = "spawn"
      /\ left'[c] = Present /\ seen'[c] = Nothing /\ pc'[c] = "import"
  BY DEF Spawn
<1>2. Imported(c)'
  BY <1>1, RegistryAssumption DEF Imported, Present, Nothing, Declared, NotFound, Contents
<1> QED  BY <1>1, <1>2 DEF OnCourse, Present

\* What is collected is what the sources declare.
LEMMA CollectKeeps ==
  ASSUME RInv, NEW c \in Commands, NEW records \in Sources, pc[c] = "import",
         Collect(c, records), UNCHANGED <<source, installed>>,
         ~disturbed[c] => records = Discovered(source) /\ (strict[c] => Whole(records, Present))
  PROVE  CommandInv(c)'
<1> USE DEF RInv, TypeOK, CommandInv, Working, Go
<1>1. /\ UNCHANGED <<listed, strict, hashes, disturbed>>
      /\ left'[c] = listed[c] /\ seen'[c] = records /\ pc'[c] = "hash"
  BY DEF Collect
<1>2. hashes[c] = Nothing
  OBVIOUS
<1>3. ~disturbed[c] => Hashed(c)'
  <2> SUFFICES ASSUME ~disturbed[c] PROVE Hashed(c)'
    OBVIOUS
  <2>1. listed[c] = Present
    BY DEF OnCourse
  <2>2. \A f \in Files \ left'[c] : hashes'[c][f] = source'[f]
    BY <1>1, <1>2, <2>1 DEF Present, Nothing
  <2>3. seen'[c] = Discovered(source)' /\ (strict'[c] => Whole(seen'[c], Present'))
    BY <1>1 DEF Discovered, NotFound, Present, Whole
  <2> QED  BY <2>2, <2>3 DEF Hashed, Whole
<1> QED  BY <1>1, <1>3 DEF OnCourse, Present

LEMMA ImportKeeps ==
  ASSUME RInv, NEW c \in Commands, ImportFile(c)
  PROVE  CommandInv(c)'
<1> DEFINE f == Min(left[c])
           v == source[f]
<1>1. f \in left[c] /\ f \in Files
  BY MinIsIn, RegistryAssumption DEF ImportFile, RInv, TypeOK
<1>2. Import(c, f, v) /\ pc[c] = "import" /\ UNCHANGED <<source, installed, cache, edits>>
  BY DEF ImportFile
<1> HIDE DEF f
<1>3. CASE End(c, "idle")
  BY <1>3, EndedKnows DEF RInv
<1> USE DEF RInv, TypeOK, CommandInv, Working, Go
<1>4. CASE Collect(c, Nothing) /\ v \in Exiting
  <2>1. Nothing = Discovered(source) /\ Whole(Nothing, Present)
    BY <1>1, <1>4 DEF Discovered, Whole
  <2>2. Nothing \in Sources
    BY DEF Nothing, Sources
  <2> QED  BY <1>2, <1>4, <2>1, <2>2, CollectKeeps
<1>5. CASE /\ seen' = [seen EXCEPT ![c][f] = v] /\ left' = [left EXCEPT ![c] = @ \ {f}]
           /\ UNCHANGED <<pc, strict, listed, loaded, hashes, disturbed>>
           /\ ~NotFound(v) /\ v \in Plain \cup Needing
  <2>1. v \notin Failing \cup Exiting /\ v # Absent
    BY <1>5, RegistryAssumption DEF NotFound
  <2>2. ~disturbed[c] => Imported(c)'
    BY <1>1, <1>2, <1>5, <2>1 DEF Imported, OnCourse, Declared, NotFound, Present, Sources
  <2> QED  BY <1>2, <1>5, <2>2 DEF OnCourse, Present
<1>6. CASE /\ left' = [left EXCEPT ![c] = @ \ {f}]
           /\ UNCHANGED <<pc, strict, listed, loaded, seen, hashes, disturbed>>
           /\ NotFound(v) /\ ~strict[c]
  <2>1. v \notin Failing \cup Exiting /\ Declared(v) = Absent
    BY <1>6, RegistryAssumption DEF NotFound, Declared, Contents
  <2>2. ~disturbed[c] => Imported(c)'
    BY <1>1, <1>2, <1>6, <2>1 DEF Imported, OnCourse, Declared, NotFound, Present, Sources
  <2> QED  BY <1>2, <1>6, <2>2 DEF OnCourse, Present
<1> QED  BY <1>2, <1>3, <1>4, <1>5, <1>6 DEF Import

LEMMA EndImportKeeps ==
  ASSUME RInv, NEW c \in Commands, EndImport(c)
  PROVE  CommandInv(c)'
<1>1. CASE End(c, "idle")
  BY <1>1, EndedKnows DEF RInv
<1>2. CASE Collect(c, seen[c]) /\ ~(strict[c] /\ seen[c] = Nothing)
  <2>1. seen[c] \in Sources /\ pc[c] = "import" /\ left[c] = {} /\ UNCHANGED <<source, installed>>
        /\ source \in Sources
    BY DEF RInv, TypeOK, EndImport
  <2>2. ASSUME ~disturbed[c]
        PROVE  seen[c] = Discovered(source) /\ (strict[c] => Whole(seen[c], Present))
    <3>1. Imported(c)
      BY <2>1, <2>2 DEF RInv, CommandInv, OnCourse, Working
    <3>2. Discovered(source) = [f \in Files |-> Declared(source[f])]
      BY <2>1, <3>1, WhatIsDiscovered DEF Imported
    <3>3. seen[c] = [f \in Files |-> Declared(source[f])]
      BY <2>1, <3>1 DEF Imported, Sources
    <3>4. strict[c] => Whole(seen[c], Present)
      BY <2>1, <3>1 DEF Imported, Whole, Present
    <3> QED  BY <3>2, <3>3, <3>4
  <2> QED  BY <1>2, <2>1, <2>2, CollectKeeps
<1> QED  BY <1>1, <1>2 DEF EndImport

LEMMA HashKeeps ==
  ASSUME RInv, NEW c \in Commands, NEW f \in Files, Hash(c, f)
  PROVE  CommandInv(c)'
<1> USE DEF RInv, TypeOK, CommandInv, Working, Go
<1>1. /\ UNCHANGED <<source, installed, listed, strict, seen, disturbed, pc>> /\ pc[c] = "hash"
      /\ left'[c] = left[c] \ {f}
  BY DEF Hash
<1>2. hashes'[c] = [hashes[c] EXCEPT ![f] = source[f]]
  BY DEF Hash
<1>3. ASSUME ~disturbed[c] PROVE Hashed(c)'
  <2>1. Hashed(c)
    BY <1>1, <1>3 DEF OnCourse
  <2>2. \A g \in Files \ left'[c] : hashes'[c][g] = source'[g]
    BY <1>1, <1>2, <2>1 DEF Hashed, Sources
  <2> QED  BY <1>1, <2>1, <2>2 DEF Hashed, Discovered, NotFound, Whole, Present
<1> QED  BY <1>1, <1>3 DEF OnCourse, Present

-----------------------------------------------------------------------------
(* The cache.                                                              *)

\* What an undisturbed command writes is backed.
LEMMA SaveBacks ==
  ASSUME RInv, NEW c \in Commands, Save(c)
  PROVE  CacheInv'
<1> SUFFICES ASSUME cache'.clean PROVE Backed(cache)'
  BY DEF CacheInv
<1>1. /\ cache' = [strict |-> strict[c], hashes |-> hashes[c], records |-> seen[c],
                   clean |-> ~disturbed[c]]
      /\ left[c] = {} /\ pc[c] = "hash" /\ UNCHANGED <<source, installed>>
  BY DEF Save
<1>2. ~disturbed[c]
  BY <1>1
<1>3. Hashed(c)
  BY <1>1, <1>2 DEF RInv, CommandInv, OnCourse, Working
<1>4. hashes[c] = source
  BY <1>1, <1>3 DEF Hashed, RInv, TypeOK, Sources
<1>5. Present = {f \in Files : hashes[c][f] # Absent}
  BY <1>4 DEF Present
<1>6. Backed(cache')
  BY <1>1, <1>3, <1>4, <1>5 DEF Backed, Hashed
<1> QED  BY <1>1, <1>6 DEF Backed, Discovered, NotFound, Whole

\* A change of a file that is still there, or of nothing, keeps the cache backed.
LEMMA CacheKept ==
  ASSUME CacheInv, cache' = cache, UNCHANGED installed,
         \A f \in Files : source'[f] = Absent => source[f] = Absent
  PROVE  CacheInv'
  BY DEF CacheInv, Backed, Discovered, NotFound, Whole

-----------------------------------------------------------------------------
(* Every step.                                                             *)

LEMMA InitInv == Init => RInv
  BY InitTypes DEF Init, RInv, CacheInv, CommandInv, Working

\* A command at work changes the cache only when it saves.
LEMMA StepKeepsCache ==
  ASSUME RInv, NEW c \in Commands, CommandStep(c)
  PROVE  CacheInv'
<1>1. CASE Save(c)  BY <1>1, SaveBacks
<1>2. CASE ~Save(c)
  <2>1. UNCHANGED <<source, installed, cache>>
    BY <1>2 DEF CommandStep, Load, Check, Hash, Serve, Spawn, ImportFile, EndImport
  <2> QED  BY <2>1, CacheKept DEF RInv
<1> QED  BY <1>1, <1>2

LEMMA StepKeepsCommand ==
  ASSUME RInv, NEW c \in Commands, CommandStep(c)
  PROVE  CommandInv(c)'
<1>1. CASE Serve(c) \/ Save(c)
  <2>1. PICK how \in {"served", "discovered"} : End(c, how)
    BY <1>1 DEF Serve, Save
  <2> QED  BY <2>1, EndedKnows DEF RInv
<1> QED  BY <1>1, LoadKeeps, CheckKeeps, HashKeeps, SpawnKeeps, ImportKeeps, EndImportKeeps
         DEF CommandStep

\* What a step of c does not touch.
Aside(c) == /\ UNCHANGED <<source, installed>>
            /\ \A d \in Commands \ {c} :
                 UNCHANGED <<pc[d], strict[d], listed[d], loaded[d], left[d], seen[d], hashes[d],
                             disturbed[d]>>

LEMMA StepAside ==
  ASSUME TypeOK, NEW c \in Commands, CommandStep(c)
  PROVE  Aside(c)
<1> USE DEF TypeOK, Aside, Go
<1>1. CASE Load(c)  BY <1>1 DEF Load
<1>2. CASE \E f \in Files : Check(c, f)  BY <1>2 DEF Check
<1>3. CASE \E f \in Files : Hash(c, f)  BY <1>3 DEF Hash
<1>4. CASE Serve(c) \/ Save(c)  BY <1>4 DEF Serve, Save, End
<1>5. CASE Spawn(c)  BY <1>5 DEF Spawn
<1>6. CASE ImportFile(c)  BY <1>6 DEF ImportFile, Import, Collect, End
<1>7. CASE EndImport(c)  BY <1>7 DEF EndImport, Collect, End
<1> QED  BY <1>1, <1>2, <1>3, <1>4, <1>5, <1>6, <1>7 DEF CommandStep

\* A change disturbs every command at work.
LEMMA ChangeDisturbs ==
  ASSUME RInv, Change, UNCHANGED command
  PROVE  \A c \in Commands : CommandInv(c)'
  BY DEF RInv, TypeOK, Change, CommandInv, command

LEMMA NextInv == RInv /\ [Next]_vars => RInv'
<1> SUFFICES ASSUME RInv, [Next]_vars PROVE CacheInv' /\ \A d \in Commands : CommandInv(d)'
  BY NextTypes DEF RInv
<1>1. ASSUME NEW c \in Commands, Aside(c), CommandInv(c)' PROVE \A d \in Commands : CommandInv(d)'
  BY <1>1, OthersKept DEF Aside, RInv
<1>2. ASSUME NEW c \in Commands, NEW s \in BOOLEAN, NEW refresh \in BOOLEAN, Begin(c, s, refresh)
      PROVE  CacheInv' /\ \A d \in Commands : CommandInv(d)'
  <2>1. Aside(c)  BY <1>2 DEF Begin, CacheKeyFor, Go, Aside, RInv, TypeOK
  <2>2. UNCHANGED <<source, installed, cache>>  BY <1>2 DEF Begin, CacheKeyFor
  <2> QED  BY <1>1, <1>2, <2>1, <2>2, BeginKeeps, CacheKept DEF RInv
<1>3. ASSUME NEW c \in Commands, CommandStep(c)
      PROVE  CacheInv' /\ \A d \in Commands : CommandInv(d)'
  BY <1>1, <1>3, StepAside, StepKeepsCache, StepKeepsCommand DEF RInv
<1>4. ASSUME NEW c \in Commands, Fail(c)
      PROVE  CacheInv' /\ \A d \in Commands : CommandInv(d)'
  <2>1. Aside(c)  BY <1>4 DEF Fail, End, Go, Aside, RInv, TypeOK
  <2>2. UNCHANGED <<source, installed, cache>> /\ End(c, "idle")  BY <1>4 DEF Fail
  <2> QED  BY <1>1, <2>1, <2>2, EndedKnows, CacheKept DEF RInv
<1>5. ASSUME NEW f \in Files, NEW v \in Contents \cup {Absent}, Edit(f, v)
      PROVE  CacheInv' /\ \A d \in Commands : CommandInv(d)'
  <2>1. Change /\ UNCHANGED command /\ UNCHANGED installed /\ Spoil(v = Absent)
        /\ source' = [source EXCEPT ![f] = v]
    BY <1>5 DEF Edit
  <2>2. CASE v = Absent
    <3>1. ~(cache' # NoCache /\ cache'.clean)
      BY <2>1, <2>2 DEF Spoil, RInv, TypeOK, Caches
    <3> QED  BY <2>1, <3>1, ChangeDisturbs DEF CacheInv
  <2>3. CASE v # Absent
    <3>1. cache' = cache  BY <2>1, <2>3 DEF Spoil
    <3>2. \A g \in Files : source'[g] = Absent => source[g] = Absent
      BY <2>1, <2>3 DEF RInv, TypeOK, Sources
    <3> QED  BY <2>1, <3>1, <3>2, CacheKept, ChangeDisturbs DEF RInv
  <2> QED  BY <2>1, <2>2, <2>3, ChangeDisturbs
<1>6. ASSUME Install PROVE CacheInv' /\ \A d \in Commands : CommandInv(d)'
  <2>1. Change /\ UNCHANGED command /\ Spoil(TRUE)  BY <1>6 DEF Install
  <2>2. CacheInv'  BY <2>1 DEF Spoil, CacheInv, RInv, TypeOK, Caches
  <2> QED  BY <2>1, <2>2, ChangeDisturbs
<1>7. ASSUME UNCHANGED <<source, installed, command, disturbed>>
      PROVE  \A d \in Commands : CommandInv(d)'
  BY <1>7 DEF command, RInv, CommandInv, OnCourse, Checked, Imported, Hashed, Backed, Present,
              Discovered, NotFound, Declared, Whole
<1>8. CASE CleanCache  BY <1>7, <1>8 DEF CleanCache, CacheInv
<1>9. CASE UNCHANGED vars  BY <1>7, <1>9, CacheKept DEF vars, RInv
<1> QED  BY <1>2, <1>3, <1>4, <1>5, <1>6, <1>8, <1>9 DEF Next

LEMMA Invariant == Spec => []RInv
  BY InitInv, NextInv, PTL DEF Spec

-----------------------------------------------------------------------------
(* The properties.                                                         *)

\* Files that a backed cache has the hashes of are all the files there are.
LEMMA ValidIsWhole ==
  ASSUME TypeOK, NEW k \in Caches, Backed(k), \A f \in Present : k.hashes[f] = source[f]
  PROVE  k.hashes = source
  BY DEF Backed, Present, TypeOK, Caches, Sources

\* A cache that nothing has spoilt and that compares equal is what a fresh discovery
\* returns, for any number of terminals and sources.
THEOREM CacheAlwaysFresh == Spec => []CacheIsFresh
<1>1. RInv => CacheIsFresh
  BY ValidIsWhole DEF RInv, CacheInv, CacheIsFresh, TypeOK, Backed
<1> QED  BY <1>1, Invariant, PTL

\* A command that ends has compared, or hashed, every source.
LEMMA Ending ==
  ASSUME RInv, [Next]_vars, NEW c \in Commands, Ends(c)
  PROVE  /\ left[c] = {} /\ UNCHANGED source
         /\ \/ pc[c] = "check" /\ pc'[c] = "served"
            \/ pc[c] = "hash" /\ pc'[c] = "discovered"
<1> USE DEF RInv, TypeOK, Ends, Working, Go
<1>1. ASSUME NEW d \in Commands, d # c, Aside(d) PROVE FALSE
  BY <1>1 DEF Aside
<1>2. CASE CommandStep(c)
  <2>1. CASE Load(c)  BY <2>1 DEF Load
  <2>2. CASE \E f \in Files : Check(c, f)  BY <2>2 DEF Check
  <2>3. CASE \E f \in Files : Hash(c, f)  BY <2>3 DEF Hash
  <2>4. CASE Serve(c)  BY <2>4 DEF Serve, End
  <2>5. CASE Spawn(c)  BY <2>5 DEF Spawn
  <2>6. CASE ImportFile(c)  BY <2>6 DEF ImportFile, Import, Collect, End
  <2>7. CASE EndImport(c)  BY <2>7 DEF EndImport, Collect, End
  <2>8. CASE Save(c)  BY <2>8 DEF Save, End
  <2> QED  BY <1>2, <2>1, <2>2, <2>3, <2>4, <2>5, <2>6, <2>7, <2>8 DEF CommandStep
<1>3. ASSUME NEW d \in Commands, CommandStep(d), d # c PROVE FALSE
  BY <1>1, <1>3, StepAside
<1>4. ASSUME NEW d \in Commands, NEW s \in BOOLEAN, NEW refresh \in BOOLEAN, Begin(d, s, refresh)
      PROVE  FALSE
  BY <1>4 DEF Begin, CacheKeyFor
<1>5. ASSUME NEW d \in Commands, Fail(d) PROVE FALSE
  BY <1>5 DEF Fail, End
<1>6. CASE UNCHANGED pc  BY <1>6
<1> QED  BY <1>2, <1>3, <1>4, <1>5, <1>6 DEF Next, Edit, Install, CleanCache, vars, command

LEMMA ReturnedIsFresh ==
  ASSUME RInv, [Next]_vars, NEW c \in Commands, Ends(c), Trusted(c)
  PROVE  /\ Returned(c) = Discovered(source)
         /\ strict[c] => Whole(Returned(c), Present)
<1>1. left[c] = {} /\ OnCourse(c)
  BY Ending DEF RInv, CommandInv, Trusted, Ends
<1>2. CASE pc[c] = "check" /\ pc'[c] = "served"
  <2> DEFINE k == loaded[c]
  <2>1. k \in Caches /\ k.strict = strict[c] /\ Backed(k)
    BY <1>1, <1>2 DEF OnCourse, Checked, Trusted, RInv, TypeOK
  <2>2. k.hashes = source
    BY <1>1, <1>2, <2>1, ValidIsWhole DEF OnCourse, Checked, RInv
  <2>3. Returned(c) = k.records
    BY <1>2 DEF Returned
  <2> QED  BY <2>1, <2>2, <2>3 DEF Backed, Present
<1>3. CASE pc[c] = "hash" /\ pc'[c] = "discovered"
  BY <1>1, <1>3 DEF OnCourse, Hashed, Returned
<1> QED  BY <1>2, <1>3, Ending

\* Whatever other commands do, one that no change has disturbed returns what a fresh
\* discovery returns, unless the cache it read was spoilt.
THEOREM ReturnsAlwaysFresh == Spec => ReturnsFresh
<1>1. RInv /\ [Next]_vars =>
        [\A c \in Commands : Ends(c) /\ Trusted(c) => Returned(c) = Discovered(source)]_vars
  BY ReturnedIsFresh
<1> QED  BY <1>1, Invariant, PTL DEF Spec, ReturnsFresh

\* What a relaxed discovery skipped is never missing from what a strict command returns.
THEOREM StrictNeverSkips == Spec => StrictSkipsNothing
<1>1. RInv /\ [Next]_vars =>
        [\A c \in Commands : Ends(c) /\ Trusted(c) /\ strict[c] /\ Returned(c) # Nothing
           => \A f \in Present : Returned(c)[f] # Absent]_vars
  BY ReturnedIsFresh DEF Whole
<1> QED  BY <1>1, Invariant, PTL DEF Spec, StrictSkipsNothing

-----------------------------------------------------------------------------
(* WildcardMatch.  What a recursive function is, is a table that satisfies *)
(* its equation; the table of what prefixes stand for satisfies it, and no *)
(* other does, since the least place where another differed would follow   *)
(* from smaller ones.                                                      *)

\* An entry of the table, from those before it.
Entry(m, p, v, row, col) ==
  CASE row = 0 -> col = 0
    [] row # 0 /\ col = 0 -> p[row] = "*" /\ m[<<row - 1, 0>>]
    [] row # 0 /\ col # 0 /\ p[row] = "*" -> m[<<row - 1, col>>] \/ m[<<row, col - 1>>]
    [] row # 0 /\ col # 0 /\ p[row] = "?" -> m[<<row - 1, col - 1>>]
    [] OTHER -> p[row] = v[col] /\ m[<<row - 1, col - 1>>]

Cells(p, v) == (0..Len(p)) \X (0..Len(v))
IsTable(m, p, v) == m = [at \in Cells(p, v) |-> Entry(m, p, v, at[1], at[2])]

\* The result is an entry of a table, the last.
LEMMA MatchIsTable == ASSUME NEW p, NEW v
  PROVE WildcardMatch(p, v) = (CHOOSE m : IsTable(m, p, v))[<<Len(p), Len(v)>>]
BY DEF WildcardMatch, IsTable, Entry, Cells

\* A piece of the value, for a character of the pattern.
Piece(p, v, cut, k) ==
         \/ p[k] = "*" /\ cut[k - 1] <= cut[k]
         \/ p[k] = "?" /\ cut[k] = cut[k - 1] + 1
         \/ p[k] \notin {"*", "?"} /\ cut[k] = cut[k - 1] + 1 /\ v[cut[k]] = p[k]

\* A prefix of a pattern stands for a prefix of a value.
StandsTo(p, v, i, j) ==
  \E cut \in [0..i -> 0..Len(v)] :
    /\ cut[0] = 0 /\ cut[i] = j
    /\ \A k \in 1..i : Piece(p, v, cut, k)

LEMMA StandsIsWhole == ASSUME NEW p, NEW v PROVE Stands(p, v) <=> StandsTo(p, v, Len(p), Len(v))
BY DEF Stands, StandsTo, Piece

LEMMA TableAt == ASSUME NEW p, NEW v, NEW m, IsTable(m, p, v), 
    NEW i \in 0..Len(p), NEW j \in 0..Len(v)
  PROVE m[<<i, j>>] = Entry(m, p, v, i, j)
<1>1. <<i, j>> \in Cells(p, v) /\ <<i, j>>[1] = i /\ <<i, j>>[2] = j
  BY DEF Cells
<1> DEFINE e(at) == Entry(m, p, v, at[1], at[2])
<1>2. m = [at \in Cells(p, v) |-> e(at)]
  BY DEF IsTable
<1> HIDE DEF e
<1>3. m[<<i, j>>] = e(<<i, j>>)
  BY <1>1, <1>2
<1> QED BY <1>1, <1>3 DEF e

LEMMA StandsToNone == ASSUME NEW p, NEW v, Len(v) \in Nat, NEW j \in 0..Len(v)
  PROVE StandsTo(p, v, 0, j) <=> j = 0
<1>1. ASSUME j = 0 PROVE StandsTo(p, v, 0, j)
  <2> DEFINE cut == [k \in 0..0 |-> 0]
  <2>1. cut \in [0..0 -> 0..Len(v)] /\ cut[0] = 0
    OBVIOUS
  <2>2. \A k \in 1..0 : Piece(p, v, cut, k)
    OBVIOUS
  <2> QED BY <1>1, <2>1, <2>2 DEF StandsTo
<1> QED BY <1>1 DEF StandsTo

\* The pieces before the last.
LEMMA StandsToLast ==
  ASSUME NEW p, NEW v, Len(v) \in Nat, NEW i \in Nat \ {0}, NEW j \in 0..Len(v)
  PROVE  StandsTo(p, v, i, j) <=>
           \E h \in 0..Len(v) :
             /\ StandsTo(p, v, i - 1, h)
             /\ \/ p[i] = "*" /\ h <= j
                \/ p[i] = "?" /\ j = h + 1
                \/ p[i] \notin {"*", "?"} /\ j = h + 1 /\ v[j] = p[i]
<1>1. ASSUME StandsTo(p, v, i, j)
      PROVE  \E h \in 0..Len(v) :
             /\ StandsTo(p, v, i - 1, h)
             /\ \/ p[i] = "*" /\ h <= j
                \/ p[i] = "?" /\ j = h + 1
                \/ p[i] \notin {"*", "?"} /\ j = h + 1 /\ v[j] = p[i]
  <2>1. PICK cut \in [0..i -> 0..Len(v)] :
          /\ cut[0] = 0 /\ cut[i] = j /\ \A k \in 1..i : Piece(p, v, cut, k)
    BY <1>1 DEF StandsTo
  <2> DEFINE short == [k \in 0..(i - 1) |-> cut[k]]
             h == cut[i - 1]
  <2>2. short \in [0..(i - 1) -> 0..Len(v)] /\ short[0] = 0 /\ short[i - 1] = h /\ h \in 0..Len(v)
    BY <2>1
  <2>3. \A k \in 1..(i - 1) : Piece(p, v, short, k)
    BY <2>1 DEF Piece
  <2>4. StandsTo(p, v, i - 1, h)
    BY <2>2, <2>3 DEF StandsTo
  <2>5. Piece(p, v, cut, i)
    BY <2>1
  <2> QED BY <2>1, <2>2, <2>4, <2>5 DEF Piece
<1>2. ASSUME NEW h \in 0..Len(v), StandsTo(p, v, i - 1, h),
             \/ p[i] = "*" /\ h <= j
             \/ p[i] = "?" /\ j = h + 1
             \/ p[i] \notin {"*", "?"} /\ j = h + 1 /\ v[j] = p[i]
      PROVE  StandsTo(p, v, i, j)
  <2>1. PICK cut \in [0..(i - 1) -> 0..Len(v)] :
          /\ cut[0] = 0 /\ cut[i - 1] = h /\ \A k \in 1..(i - 1) : Piece(p, v, cut, k)
    BY <1>2 DEF StandsTo
  <2> DEFINE long == [k \in 0..i |-> IF k = i THEN j ELSE cut[k]]
  <2>2. long \in [0..i -> 0..Len(v)] /\ long[0] = 0 /\ long[i] = j /\ long[i - 1] = h
        /\ \A k \in 0..(i - 1) : long[k] = cut[k]
    BY <2>1
  <2> HIDE DEF long
  <2>3. \A k \in 1..(i - 1) : Piece(p, v, long, k)
    BY <2>1, <2>2 DEF Piece
  <2>4. Piece(p, v, long, i)
    BY <1>2, <2>2 DEF Piece
  <2>5. \A k \in 1..i : Piece(p, v, long, k)
    BY <2>3, <2>4
  <2> QED BY <2>2, <2>5 DEF StandsTo
<1> QED BY <1>1, <1>2

\* The pieces of a prefix follow the table.
LEMMA StandsToEntry ==
  ASSUME NEW p, NEW v, Len(p) \in Nat, Len(v) \in Nat, NEW i \in 0..Len(p), NEW j \in 0..Len(v), NEW m,
         i # 0 => (m[<<i - 1, j>>] <=> StandsTo(p, v, i - 1, j)),
         j # 0 => (m[<<i, j - 1>>] <=> StandsTo(p, v, i, j - 1)),
         i # 0 /\ j # 0 => (m[<<i - 1, j - 1>>] <=> StandsTo(p, v, i - 1, j - 1))
  PROVE  Entry(m, p, v, i, j) <=> StandsTo(p, v, i, j)
<1>1. CASE i = 0
  BY <1>1, StandsToNone DEF Entry
<1>2. CASE i # 0
  <2> DEFINE Fits(h, k) == \/ p[i] = "*" /\ h <= k
                           \/ p[i] = "?" /\ k = h + 1
                           \/ p[i] \notin {"*", "?"} /\ k = h + 1 /\ v[k] = p[i]
  <2>1. \A k \in 0..Len(v) : StandsTo(p, v, i, k) <=>
          \E h \in 0..Len(v) : StandsTo(p, v, i - 1, h) /\ Fits(h, k)
    BY <1>2, StandsToLast
  <2>2. CASE p[i] = "*"
    <3>1. \A k \in 0..Len(v) : StandsTo(p, v, i, k) <=>
            \E h \in 0..k : StandsTo(p, v, i - 1, h)
      BY <2>1, <2>2
    <3>2. CASE j = 0
      <4>1. StandsTo(p, v, i, j) <=> StandsTo(p, v, i - 1, 0)
        BY <3>1, <3>2
      <4>2. Entry(m, p, v, i, j) <=> m[<<i - 1, 0>>]
        BY <1>2, <2>2, <3>2 DEF Entry
      <4> QED BY <1>2, <3>2, <4>1, <4>2
    <3>3. CASE j # 0
      <4>1. StandsTo(p, v, i, j) <=> StandsTo(p, v, i - 1, j) \/ StandsTo(p, v, i, j - 1)
        <5>1. j - 1 \in 0..Len(v) /\ 0..j = (0..(j - 1)) \cup {j}
          BY <3>3
        <5> QED BY <3>1, <5>1
      <4>2. Entry(m, p, v, i, j) <=> m[<<i - 1, j>>] \/ m[<<i, j - 1>>]
        BY <1>2, <2>2, <3>3 DEF Entry
      <4> QED BY <1>2, <3>3, <4>1, <4>2
    <3> QED BY <3>2, <3>3
  <2>3. CASE p[i] # "*" /\ j = 0
    <3>1. ~StandsTo(p, v, i, j)
      BY <2>1, <2>3
    <3>2. ~Entry(m, p, v, i, j)
      BY <1>2, <2>3 DEF Entry
    <3> QED BY <3>1, <3>2
  <2>4. CASE p[i] = "?" /\ j # 0
    <3>1. StandsTo(p, v, i, j) <=> StandsTo(p, v, i - 1, j - 1)
      BY <2>1, <2>4
    <3>2. Entry(m, p, v, i, j) <=> m[<<i - 1, j - 1>>]
      BY <1>2, <2>4 DEF Entry
    <3> QED BY <1>2, <2>4, <3>1, <3>2
  <2>5. CASE p[i] \notin {"*", "?"} /\ j # 0
    <3>1. StandsTo(p, v, i, j) <=> v[j] = p[i] /\ StandsTo(p, v, i - 1, j - 1)
      BY <2>1, <2>5
    <3>2. Entry(m, p, v, i, j) <=> p[i] = v[j] /\ m[<<i - 1, j - 1>>]
      BY <1>2, <2>5 DEF Entry
    <3> QED BY <1>2, <2>5, <3>1, <3>2
  <2> QED BY <2>2, <2>3, <2>4, <2>5
<1> QED BY <1>1, <1>2

\* So there is a table.
LEMMA TableExists == ASSUME NEW p, NEW v, Len(p) \in Nat, Len(v) \in Nat
                     PROVE  \E m : IsTable(m, p, v)
<1> DEFINE m == [at \in Cells(p, v) |-> StandsTo(p, v, at[1], at[2])]
<1>1. ASSUME NEW i \in 0..Len(p), NEW j \in 0..Len(v)
      PROVE  m[<<i, j>>] \in BOOLEAN /\ (m[<<i, j>>] <=> StandsTo(p, v, i, j))
  <2>1. <<i, j>> \in Cells(p, v) /\ <<i, j>>[1] = i /\ <<i, j>>[2] = j
    BY DEF Cells
  <2>2. m[<<i, j>>] = StandsTo(p, v, i, j)
    BY <2>1
  <2>3. StandsTo(p, v, i, j) \in BOOLEAN
    BY DEF StandsTo
  <2> QED BY <2>2, <2>3
<1>2. ASSUME NEW at \in Cells(p, v)
      PROVE  StandsTo(p, v, at[1], at[2]) = Entry(m, p, v, at[1], at[2])
  <2>1. PICK i \in 0..Len(p), j \in 0..Len(v) : at = <<i, j>>
    BY DEF Cells
  <2>2. at[1] = i /\ at[2] = j
    BY <2>1
  <2> HIDE DEF m
  <2>3. Entry(m, p, v, i, j) <=> StandsTo(p, v, i, j)
    <3>1. i # 0 => (m[<<i - 1, j>>] <=> StandsTo(p, v, i - 1, j))
      BY <1>1
    <3>2. j # 0 => (m[<<i, j - 1>>] <=> StandsTo(p, v, i, j - 1))
      BY <1>1
    <3>3. i # 0 /\ j # 0 => (m[<<i - 1, j - 1>>] <=> StandsTo(p, v, i - 1, j - 1))
      BY <1>1
    <3> QED BY <3>1, <3>2, <3>3, StandsToEntry
  <2>4. StandsTo(p, v, i, j) \in BOOLEAN /\ Entry(m, p, v, i, j) \in BOOLEAN
    <3>1. StandsTo(p, v, i, j) \in BOOLEAN
      BY DEF StandsTo
    <3>2. CASE i = 0
      BY <3>1, <3>2 DEF Entry
    <3>3. CASE i # 0 /\ j = 0
      <4>1. m[<<i - 1, 0>>] \in BOOLEAN
        BY <1>1, <3>3
      <4> QED BY <3>1, <3>3, <4>1 DEF Entry
    <3>4. CASE i # 0 /\ j # 0
      <4>1. /\ m[<<i - 1, j>>] \in BOOLEAN /\ m[<<i, j - 1>>] \in BOOLEAN
            /\ m[<<i - 1, j - 1>>] \in BOOLEAN
        BY <1>1, <3>4
      <4> QED BY <3>1, <3>4, <4>1 DEF Entry
    <3> QED BY <3>2, <3>3, <3>4
  <2> QED BY <2>2, <2>3, <2>4
<1>3. m = [at \in Cells(p, v) |-> Entry(m, p, v, at[1], at[2])]
  BY <1>2
<1> HIDE DEF m
<1>4. IsTable(m, p, v)
  BY <1>3 DEF IsTable
<1> QED BY <1>4

\* And no other.
LEMMA TableIsUnique ==
  ASSUME NEW p, NEW v, Len(p) \in Nat, Len(v) \in Nat, NEW m, IsTable(m, p, v),
         NEW i \in 0..Len(p), NEW j \in 0..Len(v)
  PROVE  m[<<i, j>>] <=> StandsTo(p, v, i, j)
<1> DEFINE Good(at) == m[at] <=> StandsTo(p, v, at[1], at[2])
           R == OpToRel(<, Nat)
           Bad == {at[1] + at[2] : at \in {c \in Cells(p, v) : ~Good(c)}}
<1>1. SUFFICES ASSUME Bad # {} PROVE FALSE
  <2>1. <<i, j>> \in Cells(p, v) /\ <<i, j>>[1] = i /\ <<i, j>>[2] = j
    BY DEF Cells
  <2> QED BY <2>1
<1>2. Bad \subseteq Nat
  BY DEF Cells
<1>3. PICK x \in Bad : \A y \in Bad : ~ (<<y, x>> \in R)
  <2> HIDE DEF R, Bad
  <2>1. IsWellFoundedOn(R, Nat)
    BY NatLessThanWellFounded DEF R
  <2> QED BY <1>1, <1>2, <2>1, WFMin
<1>4. PICK a \in 0..Len(p), b \in 0..Len(v) : x = a + b /\ ~Good(<<a, b>>)
  <2>1. PICK at \in Cells(p, v) : x = at[1] + at[2] /\ ~Good(at)
    OBVIOUS
  <2>2. PICK c \in 0..Len(p), d \in 0..Len(v) : at = <<c, d>>
    BY DEF Cells
  <2>3. x = c + d /\ ~Good(<<c, d>>)
    BY <2>1, <2>2
  <2> QED BY <2>3
<1>5. ASSUME NEW c \in 0..Len(p), NEW d \in 0..Len(v), c + d < a + b
      PROVE  m[<<c, d>>] <=> StandsTo(p, v, c, d)
  <2>1. <<c, d>> \in Cells(p, v) /\ <<c, d>>[1] = c /\ <<c, d>>[2] = d
    BY DEF Cells
  <2>2. ~Good(<<c, d>>) => c + d \in Bad
    BY <2>1
  <2>3. c + d \notin Bad
    <3>1. <<c + d, x>> \in R
      BY <1>4, <1>5 DEF OpToRel
    <3> HIDE DEF R, Bad
    <3> QED BY <1>3, <3>1
  <2>4. Good(<<c, d>>)
    BY <2>2, <2>3
  <2> QED BY <2>1, <2>4
<1>6. Entry(m, p, v, a, b) <=> StandsTo(p, v, a, b)
  <2> HIDE DEF Good, R, Bad
  <2>0. /\ a # 0 => a - 1 \in 0..Len(p) /\ (a - 1) + b < a + b
        /\ b # 0 => b - 1 \in 0..Len(v) /\ a + (b - 1) < a + b
        /\ a # 0 /\ b # 0 => (a - 1) + (b - 1) < a + b
    OBVIOUS
  <2>1. a # 0 => (m[<<a - 1, b>>] <=> StandsTo(p, v, a - 1, b))
    BY <1>5, <2>0, Zenon
  <2>2. b # 0 => (m[<<a, b - 1>>] <=> StandsTo(p, v, a, b - 1))
    BY <1>5, <2>0, Zenon
  <2>3. a # 0 /\ b # 0 => (m[<<a - 1, b - 1>>] <=> StandsTo(p, v, a - 1, b - 1))
    BY <1>5, <2>0, Zenon
  <2> QED BY <2>1, <2>2, <2>3, StandsToEntry
<1>7. m[<<a, b>>] = Entry(m, p, v, a, b)
  BY TableAt
<1>8. <<a, b>>[1] = a /\ <<a, b>>[2] = b
  OBVIOUS
<1> QED BY <1>4, <1>6, <1>7, <1>8

\* A pattern matches exactly the values it stands for.
THEOREM WildcardsAreExact ==
  ASSUME NEW p, NEW v, Len(p) \in Nat, Len(v) \in Nat
  PROVE  WildcardMatch(p, v) <=> Stands(p, v)
<1> DEFINE m == CHOOSE t : IsTable(t, p, v)
<1>1. IsTable(m, p, v)
  BY TableExists
<1> HIDE DEF m
<1>2. m[<<Len(p), Len(v)>>] <=> StandsTo(p, v, Len(p), Len(v))
  BY <1>1, TableIsUnique
<1> QED BY <1>2, MatchIsTable, StandsIsWhole DEF m

-----------------------------------------------------------------------------
(* RunScans: the inductive invariant.  Of the runs that stayed as they     *)
(* were, a reader has reported those it is done with and is about          *)
(* (Following); what a remover takes was as old as asked for when it began *)
(* (Judged); one that nothing disturbed has the directories it began with, *)
(* less what it removed (Alone).                                           *)

FileNames == {"run.json", "params.json", "env.json", "metrics_summary.json"}
Reading == {"scan", "read", "second", "measure"}
Removing == {"scan", "remove", "unlink"}
Ended == {"done", "failed", "passed"}

RunRows == [run : Runs, found : SUBSET FileNames]
CacheRows == [run : {0}, found : SUBSET {"registry.json"}]
Beginnings == [at : Nat, dir : SUBSET Runs, files : [Runs -> SUBSET FileNames],
               touched : [Runs -> Nat], still : SUBSET Runs]

ScanTypeOK ==
  /\ lab \in Labs /\ registry \in {lab.registry, "none"} /\ now \in Nat
  /\ step \in [Runs -> Nat] /\ dir \in SUBSET Runs
  /\ files \in [Runs -> SUBSET FileNames] /\ touched \in [Runs -> Nat]
  /\ phase \in [Scanners -> {"off"} \cup Reading \cup Removing \cup Ended]
  /\ DOMAIN request = Scanners
  /\ todo \in [Scanners -> SUBSET Runs] /\ removed \in [Scanners -> SUBSET Runs]
  /\ doing \in [Scanners -> RunRows \cup {Ghost}] /\ rows \in [Scanners -> SUBSET (RunRows \cup CacheRows)]
  /\ cutoff \in [Scanners -> Int] /\ began \in [Scanners -> Beginnings]

\* What a command is asked, and what it is at.
PhaseOK(c) ==
  /\ phase[c] = "off" => rows[c] = {} /\ removed[c] = {}
  /\ phase[c] # "off" => request[c] \in lab.asked[c]
  /\ phase[c] \notin {"off", "failed"} => ~Refuses(request[c])
  /\ phase[c] \notin Ended => rows[c] \subseteq RunRows
  /\ phase[c] = "read" => Is(c, {"query", "migrate"})
  /\ phase[c] = "second" => Is(c, {"compare", "reproducibility"})
  /\ phase[c] = "measure" => Is(c, {"compare"})
  /\ phase[c] \in {"remove", "unlink"} => Is(c, {"prune", "clean"})
  /\ phase[c] \in {"read", "measure", "remove", "unlink"} => doing[c].run \in Runs

\* Time does not go back.
TimeOf(c) ==
  /\ began[c].at <= now
  /\ \A r \in Runs : /\ began[c].touched[r] <= touched[r]
                     /\ r \in dir \ began[c].dir => began[c].at <= touched[r]

TimeOK == /\ \A r \in Runs : touched[r] <= now
          /\ \A c \in Scanners : phase[c] # "off" => TimeOf(c)

-----------------------------------------------------------------------------

\* The run that a command is at.
Taken(c, phases) == IF phase[c] \in phases THEN {doing[c].run} ELSE {}

\* The runs that are due after the first pass, and of those after the second.
First(c, r) ==
  \/ Is(c, Listing) /\ Listed(r, Found(c, r))
  \/ Is(c, {"query"}) /\ "run.json" \in Found(c, r)
  \/ Is(c, {"migrate"}) /\ "run.json" \in Found(c, r) /\ lab.version[r] # "current"

Again(c, r) == IF Is(c, {"compare"}) THEN "metrics_summary.json" \in Found(c, r)
               ELSE "env.json" \notin Found(c, r)

Left(c) == todo[c] \cup Taken(c, {"read", "measure"})

\* A reader at work, of a run that stayed as it was.
Following(c, r) ==
  /\ r \in dir /\ files[r] = Found(c, r)
  /\ phase[c] \in {"scan", "read"} => (r \in Reported(c) <=> r \notin Left(c) /\ First(c, r))
  /\ phase[c] \in {"second", "measure"} =>
       /\ r \in Reported(c) <=> r \notin Left(c) /\ First(c, r) /\ Again(c, r)
       /\ r \in Left(c) => First(c, r)
  /\ r \in Taken(c, {"read"}) => "run.json" \in Found(c, r)
  /\ r \in Taken(c, {"measure"}) => "metrics_summary.json" \in Found(c, r)
  /\ r \in Taken(c, {"read", "measure"}) => r \notin todo[c]

\* What ScansAreSound says of a command.
SoundScan(c) ==
    /\ phase[c] \in {"done", "passed"} => Reported(c) \cap Steady(c) = Due(c, request[c])
    /\ phase[c] = "failed" /\ Undisturbed(c) =>
         \/ Is(c, {"query", "migrate"}) /\ "torn" \in Range(lab.version) \cup {lab.registry}
         \/ Is(c, {"migrate"}) /\ request[c].apply /\ "unversioned" \in Range(lab.version) \cup {lab.registry}
         \/ Is(c, {"compare"}) /\ Cardinality(Due(c, request[c])) < 2
    /\ Is(c, {"compare"}) /\ phase[c] \in {"done", "passed"} /\ Undisturbed(c) /\ request[c].threshold # Unset =>
         (phase[c] = "passed" <=> Drift(c) <= request[c].threshold)

\* The rows of runs that stayed as they were.
Exact(c) == \A row \in rows[c] : row.run \in Steady(c) => row.found = Found(c, row.run)

ReaderInv(c) ==
  phase[c] # "off" /\ Is(c, Readers) =>
    /\ phase[c] \in Reading => \A r \in Steady(c) : Following(c, r)
    /\ Exact(c)
    /\ phase[c] \in Reading /\ Undisturbed(c) => Left(c) \cup Reported(c) \subseteq began[c].dir
    /\ SoundScan(c)

-----------------------------------------------------------------------------

\* A gc that was given a duration that does not overflow.
Timed(c) == Is(c, {"prune"}) /\ request[c].older # Unset /\ ~Overflows(request[c].older)

\* Old when the command began, or made at that moment and asked for whatever its age.
Judged(c, r) == r \in Old(c) \/ (Product(request[c].older) = 0 /\ r \notin began[c].dir)

\* A remover at work that nothing disturbed.
Alone(c) ==
  LET taken == Taken(c, {"remove", "unlink"})
  IN /\ dir = began[c].dir \ (removed[c] \ Taken(c, {"unlink"}))
     /\ touched = began[c].touched
     /\ todo[c] \cup taken \cup removed[c] \subseteq began[c].dir
     /\ todo[c] \cap (removed[c] \cup taken) = {}
     /\ Taken(c, {"remove"}) \cap removed[c] = {} /\ Taken(c, {"unlink"}) \subseteq removed[c]
     /\ Timed(c) => /\ taken \subseteq Old(c)
                    /\ Reported(c) = (Old(c) \ todo[c]) \ taken
                    /\ ~request[c].dry => removed[c] = (Old(c) \ todo[c]) \ Taken(c, {"remove"})
     /\ Is(c, {"clean"}) /\ request[c].force =>
          removed[c] = (began[c].dir \ todo[c]) \ Taken(c, {"remove"})

\* What RemovedAsAsked says of a command that ended well.
AloneDone(c) ==
  /\ Timed(c) => Reported(c) = Old(c) /\ (~request[c].dry => removed[c] = Old(c))
  /\ Is(c, {"clean"}) /\ request[c].force => removed[c] = began[c].dir

RemoverInv(c) ==
  phase[c] # "off" =>
    /\ Taken(c, {"remove", "unlink"}) \cup removed[c] # {} =>
         Is(c, {"prune", "clean"}) /\ request[c].force /\ (Is(c, {"prune"}) => ~request[c].dry)
    /\ Timed(c) /\ phase[c] \in Removing => cutoff[c] = began[c].at - Product(request[c].older)
    /\ Timed(c) => \A r \in removed[c] \cup Taken(c, {"remove", "unlink"}) : Judged(c, r)
    /\ Is(c, {"prune", "clean"}) /\ Undisturbed(c) =>
         /\ phase[c] \in Removing => Alone(c)
         /\ phase[c] = "done" => AloneDone(c)

ScanInv ==
  /\ ScanTypeOK /\ TimeOK
  /\ \A c \in Scanners : PhaseOK(c) /\ ReaderInv(c) /\ RemoverInv(c)

-----------------------------------------------------------------------------
(* RunScans: types.                                                        *)

LEMMA Verdicts == \A c \in Scanners : Verdict(c) \in Ended
  BY DEF Verdict, CompareVerdict, ReproducibilityVerdict, MigrateVerdict, CleanVerdict, Ended

LEMMA Written == \A i \in DOMAIN WriteOrder : WriteOrder[i] \in FileNames
  BY DEF WriteOrder, FileNames

LEMMA RowTypes ==
  ASSUME ScanTypeOK
  PROVE  /\ \A r \in Runs : Row(r) \in RunRows /\ [run |-> r, found |-> {}] \in RunRows
         /\ [run |-> 0, found |-> {"registry.json"}] \in CacheRows
  BY DEF ScanTypeOK, Row, RunRows, CacheRows

\* Adding a row, or taking one up, keeps the types.
LEMMA RowSteps ==
  ASSUME ScanTypeOK, NEW c \in Scanners, NEW row \in RunRows
  PROVE  /\ [rows EXCEPT ![c] = @ \cup {row}] \in [Scanners -> SUBSET (RunRows \cup CacheRows)]
         /\ [doing EXCEPT ![c] = row] \in [Scanners -> RunRows \cup {Ghost}]
         /\ [doing EXCEPT ![c] = Ghost] \in [Scanners -> RunRows \cup {Ghost}]
  BY DEF ScanTypeOK

\* A duration is a number of seconds, the product of its amount and its unit if that does
\* not go round.
LEMMA Durations ==
  ASSUME NEW older, older.amount \in Nat, older.unit \in DOMAIN UnitSeconds
  PROVE  /\ Product(older) \in Nat /\ Seconds(older) \in Nat
         /\ ~Overflows(older) => Seconds(older) = Product(older)
  <1>1. \A m, n \in Nat : m * n \in Nat
    OBVIOUS
  <1>2. \A m \in Nat, n \in Nat \ {0} : m % n \in Nat /\ (m < n => m % n = m)
    OBVIOUS
  <1>3. Product(older) \in Nat
    BY <1>1, ScanAssumption DEF Product
  <1> QED  BY <1>2, <1>3, ScanAssumption DEF Seconds, Overflows

LEMMA DisturbType ==
  ASSUME ScanTypeOK, NEW r \in Runs, NEW others, Disturb(r, others)
  PROVE  began' \in [Scanners -> Beginnings]
  <1> SUFFICES ASSUME NEW c \in Scanners
               PROVE  (IF c \in others \cap UnderWay THEN [began[c] EXCEPT !.still = @ \ {r}] ELSE began[c])
                         \in Beginnings
    BY DEF Disturb
  <1>1. began[c] \in Beginnings
    BY DEF ScanTypeOK
  <1>2. [began[c] EXCEPT !.still = @ \ {r}] \in Beginnings
    BY <1>1 DEF Beginnings
  <1> QED  BY <1>1, <1>2

LEMMA ScanTypeStart == ScanInit => ScanTypeOK
  <1> SUFFICES ASSUME ScanInit  PROVE ScanTypeOK
    OBVIOUS
  <1>1. lab \in Labs /\ registry = lab.registry /\ now \in Nat /\ step \in [Runs -> 0..5]
    BY LabAssumption DEF ScanInit
  <1>2. files \in [Runs -> SUBSET FileNames]
    <2> SUFFICES ASSUME NEW r \in Runs  PROVE {WriteOrder[i] : i \in 1..(step[r] - 1)} \subseteq FileNames
      BY DEF ScanInit
    <2>1. \A i \in 1..(step[r] - 1) : i \in 1..4
      BY <1>1
    <2> QED  BY <2>1 DEF WriteOrder, FileNames
  <1>3. touched \in [Runs -> Nat] /\ dir \in SUBSET Runs
    BY DEF ScanInit
  <1>4. \A c \in Scanners : [at |-> 0, dir |-> {}, files |-> files, touched |-> touched, still |-> {}]
                              \in Beginnings
    BY <1>2, <1>3 DEF Beginnings
  <1>5. began \in [Scanners -> Beginnings]
    BY <1>4 DEF ScanInit
  <1>6. /\ todo \in [Scanners -> SUBSET Runs] /\ removed \in [Scanners -> SUBSET Runs]
        /\ rows \in [Scanners -> SUBSET (RunRows \cup CacheRows)]
        /\ doing \in [Scanners -> RunRows \cup {Ghost}]
    BY DEF ScanInit
  <1>7. /\ phase \in [Scanners -> {"off"} \cup Reading \cup Removing \cup Ended]
        /\ DOMAIN request = Scanners /\ cutoff \in [Scanners -> Int]
    BY DEF ScanInit
  <1>8. step \in [Runs -> Nat]
    BY ONLY <1>1
  <1> QED  BY <1>1, <1>2, <1>3, <1>5, <1>6, <1>7, <1>8 DEF ScanTypeOK

LEMMA ScanTypeStep ==
  ASSUME ScanTypeOK, \A c \in Scanners : PhaseOK(c), [ScanNext]_scanVars
  PROVE  ScanTypeOK'
  <1> USE DEF ScanTypeOK
  <1>1. CASE UNCHANGED scanVars
    BY <1>1 DEF scanVars
  <1>2. CASE Tick
    BY <1>2 DEF Tick, treeVars, commandVars
  <1>3. ASSUME NEW r \in Runs, Create(r)  PROVE ScanTypeOK'
    BY <1>3, DisturbType DEF Create
  <1>4. ASSUME NEW r \in Runs, WriteFile(r)  PROVE ScanTypeOK'
    BY <1>4, DisturbType, Written DEF WriteFile, commandVars
  <1>5. ASSUME NEW c \in Scanners, NEW q \in lab.asked[c], Ask(c, q)  PROVE ScanTypeOK'
    <2>1. [at |-> now, dir |-> dir, files |-> files, touched |-> touched, still |-> Runs] \in Beginnings
      BY DEF Beginnings
    <2>2. ~Refuses(q) /\ q.kind = "prune" => Seconds(q.older) \in Nat
      BY RequestAssumption, Durations DEF Refuses, GcRefuses
    <2>3. ~Refuses(q) => CutoffOf(q) \in Int
      BY <2>2 DEF CutoffOf
    <2> QED  BY <1>5, <2>1, <2>3 DEF Ask, treeVars, Reading, Ended
  <1>6. ASSUME NEW c \in Scanners, NEW r \in Runs, Visit(c, r)  PROVE ScanTypeOK'
    <2>1. CASE Pass(c, r)
      BY <1>6, <2>1 DEF Visit, Pass, treeVars
    <2>2. CASE Keep(c, r)
      BY <1>6, <2>2, RowTypes, RowSteps DEF Visit, Keep, treeVars
    <2>3. CASE GiveUp(c)
      BY <1>6, <2>3 DEF Visit, GiveUp, treeVars, Ended
    <2>4. ASSUME NEW next \in {"read", "remove"}, TakeUp(c, r, next)  PROVE ScanTypeOK'
      <3>1. doing' \in [Scanners -> RunRows \cup {Ghost}]
        BY <2>4, RowTypes, RowSteps DEF TakeUp
      <3> QED  BY <1>6, <2>4, <3>1 DEF Visit, TakeUp, treeVars, Reading, Removing
    <2> QED  BY <1>6, <2>1, <2>2, <2>3, <2>4 DEF Visit, Summarise, Look, Judge, Sweep
  <1>7. ASSUME NEW c \in Scanners, NEW r \in Runs, Measure(c, r)  PROVE ScanTypeOK'
    <2>1. CASE Pass(c, r)
      BY <1>7, <2>1 DEF Measure, Pass, treeVars
    <2>2. CASE Keep(c, r)
      BY <1>7, <2>2, RowTypes, RowSteps DEF Measure, Keep, treeVars
    <2>3. CASE TakeUp(c, r, "measure")
      BY <1>7, <2>3, RowTypes, RowSteps DEF Measure, TakeUp, treeVars, Reading
    <2> QED  BY <1>7, <2>1, <2>2, <2>3 DEF Measure
  <1>8. ASSUME NEW c \in Scanners, Read(c)  PROVE ScanTypeOK'
    <2>1. doing[c].run \in Runs
      BY <1>8 DEF Read, PhaseOK
    <2>2. doing' \in [Scanners -> RunRows \cup {Ghost}]
      BY <1>8, <2>1, RowTypes, RowSteps DEF Read
    <2>3. rows' = rows \/ rows' = [rows EXCEPT ![c] = @ \cup {Row(doing[c].run)}]
      BY <1>8 DEF Read
    <2>4. rows' \in [Scanners -> SUBSET (RunRows \cup CacheRows)]
      <3>1. Row(doing[c].run) \in RunRows
        BY <2>1, RowTypes
      <3>2. [rows EXCEPT ![c] = @ \cup {Row(doing[c].run)}] \in [Scanners -> SUBSET (RunRows \cup CacheRows)]
        BY <3>1, RowSteps
      <3> QED  BY <2>3, <3>2
    <2> QED  BY <1>8, <2>1, <2>2, <2>4 DEF Read, treeVars, Reading, Ended
  <1>9. ASSUME NEW c \in Scanners, RemoveFiles(c)  PROVE ScanTypeOK'
    <2>1. doing[c].run \in Runs
      BY <1>9 DEF RemoveFiles, PhaseOK
    <2>2. CASE doing[c].run \notin dir
      BY <1>9, <2>2 DEF RemoveFiles, Ended
    <2>3. CASE doing[c].run \in dir
      <3>1. files' \in [Runs -> SUBSET FileNames]
        BY <1>9, <2>1, <2>3 DEF RemoveFiles
      <3>2. [doing[c] EXCEPT !.found = files'[doing[c].run]] \in RunRows
        BY <1>9, <2>1, <3>1, ScanAssumption DEF RunRows, Ghost
      <3>3. doing' \in [Scanners -> RunRows \cup {Ghost}]
        BY <1>9, <2>3, <3>2 DEF RemoveFiles
      <3>4. began' \in [Scanners -> Beginnings]
        BY <1>9, <2>1, <2>3, DisturbType DEF RemoveFiles
      <3> QED  BY <1>9, <2>1, <2>3, <3>1, <3>3, <3>4 DEF RemoveFiles, Removing
    <2> QED  BY <2>2, <2>3
  <1>10. ASSUME NEW c \in Scanners, RemoveDirectory(c)  PROVE ScanTypeOK'
    <2>1. doing[c].run \in Runs
      BY <1>10 DEF RemoveDirectory, PhaseOK
    <2>2. began' \in [Scanners -> Beginnings]
      BY <1>10, <2>1, DisturbType DEF RemoveDirectory
    <2>3. doing' \in [Scanners -> RunRows \cup {Ghost}] /\ rows' \in [Scanners -> SUBSET (RunRows \cup CacheRows)]
      BY <1>10, <2>1, RowTypes, RowSteps DEF RemoveDirectory
    <2> QED  BY <1>10, <2>1, <2>2, <2>3 DEF RemoveDirectory, Removing, Ended
  <1>11. ASSUME NEW c \in Scanners, Second(c)  PROVE ScanTypeOK'
    <2>1. \A row \in rows[c] : row.run \in Runs
      BY <1>11 DEF Second, PhaseOK, RunRows, Ended
    <2>2. {row.run : row \in rows[c]} \subseteq Runs
      BY <2>1
    <2> QED  BY <1>11, <2>2 DEF Second, treeVars, Reading
  <1>12. ASSUME NEW c \in Scanners, ReadMeasure(c)  PROVE ScanTypeOK'
    <2>1. doing[c].run \in Runs
      BY <1>12 DEF ReadMeasure, PhaseOK
    <2>2. doing' \in [Scanners -> RunRows \cup {Ghost}]
      BY <1>12, <2>1, RowTypes, RowSteps DEF ReadMeasure
    <2>3. rows' = rows \/ rows' = [rows EXCEPT ![c] = @ \cup {Row(doing[c].run)}]
      BY <1>12 DEF ReadMeasure
    <2>4. rows' \in [Scanners -> SUBSET (RunRows \cup CacheRows)]
      <3>1. Row(doing[c].run) \in RunRows
        BY <2>1, RowTypes
      <3>2. [rows EXCEPT ![c] = @ \cup {Row(doing[c].run)}] \in [Scanners -> SUBSET (RunRows \cup CacheRows)]
        BY <3>1, RowSteps
      <3> QED  BY <2>3, <3>2
    <2> QED  BY <1>12, <2>1, <2>2, <2>4 DEF ReadMeasure, treeVars, Reading, Ended
  <1>13. ASSUME NEW c \in Scanners, Finish(c)  PROVE ScanTypeOK'
    <2>1. Selected(c) \subseteq RunRows \cup CacheRows /\ Plan(c) \subseteq RunRows \cup CacheRows
      BY RowTypes DEF Selected, Plan
    <2> QED  BY <1>13, <2>1, Verdicts DEF Finish, treeVars
  <1>14. ASSUME NEW c \in Scanners, Die(c)  PROVE ScanTypeOK'
    BY <1>14 DEF Die, treeVars, Ended
  <1> QED
    BY <1>1, <1>2, <1>3, <1>4, <1>5, <1>6, <1>7, <1>8, <1>9, <1>10, <1>11, <1>12, <1>13, <1>14 DEF ScanNext, Scan, Over

-----------------------------------------------------------------------------
(* What the others do to a command, and what goes on without it.           *)

\* The start of a command, but for what has stayed.
SameStart(c) == began'[c] = [began[c] EXCEPT !.still = began'[c].still] /\ began'[c].still \subseteq began[c].still

\* A step of another: it leaves a command as it is, and so what the command counts on.
Outside(c) ==
  /\ lab' = lab /\ phase'[c] = phase[c] /\ request'[c] = request[c] /\ doing'[c] = doing[c]
  /\ rows'[c] = rows[c] /\ cutoff'[c] = cutoff[c] /\ removed'[c] = removed[c]
  /\ SameStart(c)
  /\ c \notin UnderWay => began'[c] = began[c]
  /\ c \in UnderWay => \A r \in began'[c].still : /\ r \in dir' <=> r \in dir
                                                  /\ files'[r] = files[r] /\ touched'[r] = touched[r]
                                                  /\ r \in todo'[c] <=> r \in todo[c]

\* A step of the command itself.
Own(c) == Scan(c) \/ \E q \in lab.asked[c] : Ask(c, q)

LEMMA Disturbance ==
  ASSUME ScanTypeOK, NEW r, NEW others, Disturb(r, others), NEW c \in Scanners
  PROVE  /\ SameStart(c)
         /\ c \notin others \cap UnderWay => began'[c] = began[c]
         /\ c \in others \cap UnderWay => began'[c].still = began[c].still \ {r}
  <1>1. began[c] \in Beginnings
    BY DEF ScanTypeOK
  <1>2. began[c] = [began[c] EXCEPT !.still = began[c].still]
    BY <1>1 DEF Beginnings
  <1>3. CASE c \in others \cap UnderWay
    <2>1. began'[c] = [began[c] EXCEPT !.still = @ \ {r}]
      BY <1>3 DEF Disturb
    <2> QED  BY <2>1, <1>1, <1>3 DEF SameStart, Beginnings
  <1>4. CASE c \notin others \cap UnderWay
    BY <1>2, <1>4 DEF Disturb, SameStart
  <1> QED  BY <1>3, <1>4

LEMMA NoDisturbance ==
  ASSUME ScanTypeOK, NEW c \in Scanners, UNCHANGED began
  PROVE  SameStart(c) /\ began'[c] = began[c]
  BY DEF ScanTypeOK, SameStart, Beginnings

\* Every step is of the command or leaves it as it is.
LEMMA Bystander ==
  ASSUME ScanTypeOK, \A d \in Scanners : PhaseOK(d), [ScanNext]_scanVars, NEW c \in Scanners
  PROVE  Outside(c) \/ Own(c)
  <1>0. /\ DOMAIN phase = Scanners /\ DOMAIN request = Scanners /\ DOMAIN doing = Scanners
        /\ DOMAIN rows = Scanners /\ DOMAIN cutoff = Scanners /\ DOMAIN removed = Scanners
        /\ DOMAIN todo = Scanners /\ DOMAIN began = Scanners /\ DOMAIN files = Runs /\ DOMAIN touched = Runs
        /\ began[c].still \subseteq Runs
    BY DEF ScanTypeOK, Beginnings
  <1>1. CASE UNCHANGED scanVars \/ Tick
    BY <1>1, NoDisturbance DEF scanVars, Tick, treeVars, commandVars, Outside
  <1>3. ASSUME NEW r \in Runs, Create(r)  PROVE Outside(c)
    <2>1. \A s \in Runs \ {r} : (s \in dir' <=> s \in dir) /\ files'[s] = files[s] /\ touched'[s] = touched[s]
      BY <1>3, <1>0 DEF Create
    <2>2. \A s \in Runs \ {r} : s \in todo'[c] <=> s \in todo[c]
      BY <1>3, <1>0 DEF Create
    <2>3. SameStart(c) /\ (c \notin UnderWay => began'[c] = began[c]) /\ (c \in UnderWay => began'[c].still = began[c].still \ {r})
      BY <1>3, Disturbance DEF Create
    <2> QED  BY <1>3, <1>0, <2>1, <2>2, <2>3 DEF Create, Outside
  <1>4. ASSUME NEW r \in Runs, WriteFile(r)  PROVE Outside(c)
    <2>1. \A s \in Runs \ {r} : (s \in dir' <=> s \in dir) /\ files'[s] = files[s] /\ touched'[s] = touched[s]
      BY <1>4, <1>0 DEF WriteFile
    <2>3. SameStart(c) /\ (c \notin UnderWay => began'[c] = began[c]) /\ (c \in UnderWay => began'[c].still = began[c].still \ {r})
      BY <1>4, Disturbance DEF WriteFile
    <2> QED  BY <1>4, <1>0, <2>1, <2>3 DEF WriteFile, Outside, commandVars
  <1>5. ASSUME NEW d \in Scanners \ {c}, NEW q, Ask(d, q)  PROVE Outside(c)
    <2>1. began'[c] = began[c] /\ SameStart(c)
      BY <1>5, <1>0 DEF Ask, SameStart, ScanTypeOK, Beginnings
    <2> QED  BY <1>5, <1>0, <2>1 DEF Ask, Outside, treeVars
  <1>6. ASSUME NEW d \in Scanners \ {c}, NEW r \in Runs, Visit(d, r) \/ Measure(d, r)  PROVE Outside(c)
    <2>1. /\ lab' = lab /\ dir' = dir /\ files' = files /\ touched' = touched /\ UNCHANGED began
      BY <1>6 DEF Visit, Measure, treeVars
    <2>2. \/ Pass(d, r) \/ Keep(d, r) \/ GiveUp(d) \/ TakeUp(d, r, "read") \/ TakeUp(d, r, "remove") \/ TakeUp(d, r, "measure")
      BY <1>6 DEF Visit, Measure, Summarise, Look, Judge, Sweep
    <2>3. /\ phase'[c] = phase[c] /\ request'[c] = request[c] /\ doing'[c] = doing[c] /\ todo'[c] = todo[c]
          /\ rows'[c] = rows[c] /\ cutoff'[c] = cutoff[c] /\ removed'[c] = removed[c]
      BY <2>2, <1>0 DEF Pass, Keep, GiveUp, TakeUp
    <2> QED  BY <2>1, <2>3, NoDisturbance DEF Outside
  <1>7. ASSUME NEW d \in Scanners \ {c}, Read(d) \/ Second(d) \/ ReadMeasure(d) \/ Finish(d) \/ Die(d)  PROVE Outside(c)
    <2>1. /\ lab' = lab /\ dir' = dir /\ files' = files /\ touched' = touched /\ UNCHANGED began
      BY <1>7 DEF Read, Second, ReadMeasure, Finish, Die, treeVars
    <2>2. /\ phase'[c] = phase[c] /\ request'[c] = request[c] /\ doing'[c] = doing[c] /\ todo'[c] = todo[c]
          /\ cutoff'[c] = cutoff[c] /\ removed'[c] = removed[c]
      BY <1>7, <1>0 DEF Read, Second, ReadMeasure, Finish, Die
    <2>3. rows'[c] = rows[c]
      BY <1>7, <1>0 DEF Read, Second, ReadMeasure, Finish, Die
    <2> QED  BY <2>1, <2>2, <2>3, NoDisturbance DEF Outside
  <1>8. ASSUME NEW d \in Scanners \ {c}, RemoveFiles(d)  PROVE Outside(c)
    <2>1. CASE doing[d].run \notin dir
      BY <1>8, <1>0, <2>1, NoDisturbance DEF RemoveFiles, Outside
    <2>2. CASE doing[d].run \in dir
      <3>1. Disturb(doing[d].run, Scanners \ {d})
        BY <1>8, <2>2 DEF RemoveFiles
      <3>2. SameStart(c) /\ (c \notin UnderWay => began'[c] = began[c]) /\ (c \in UnderWay => began'[c].still = began[c].still \ {doing[d].run})
        BY <3>1, Disturbance
      <3>3. \A s \in Runs \ {doing[d].run} : files'[s] = files[s]
        BY <1>8, <1>0, <2>2 DEF RemoveFiles
      <3> QED  BY <1>8, <1>0, <2>2, <3>2, <3>3 DEF RemoveFiles, Outside
    <2> QED  BY <2>1, <2>2
  <1>9. ASSUME NEW d \in Scanners \ {c}, RemoveDirectory(d)  PROVE Outside(c)
    <2>1. Disturb(doing[d].run, Scanners \ {d})
      BY <1>9 DEF RemoveDirectory
    <2>2. SameStart(c) /\ (c \notin UnderWay => began'[c] = began[c]) /\ (c \in UnderWay => began'[c].still = began[c].still \ {doing[d].run})
      BY <2>1, Disturbance
    <2>3. \A s \in Runs \ {doing[d].run} : files'[s] = files[s] /\ (s \in dir' <=> s \in dir)
      BY <1>9, <1>0 DEF RemoveDirectory
    <2>4. rows'[c] = rows[c]
      BY <1>9, <1>0 DEF RemoveDirectory
    <2> QED  BY <1>9, <1>0, <2>2, <2>3, <2>4 DEF RemoveDirectory, Outside
  <1> QED
    BY <1>1, <1>3, <1>4, <1>5, <1>6, <1>7, <1>8, <1>9 DEF ScanNext, Scan, Over, Own

-----------------------------------------------------------------------------
(* What a command is at, and the time.                                     *)

\* A step of a command that is under way leaves what it was asked, and how it began.
LEMMA OwnStart ==
  ASSUME ScanTypeOK, \A d \in Scanners : PhaseOK(d), NEW c \in Scanners, Scan(c)
  PROVE  /\ lab' = lab /\ now' = now /\ touched' = touched /\ dir' \subseteq dir
         /\ request'[c] = request[c] /\ began'[c] = began[c] /\ cutoff'[c] = cutoff[c]
         /\ phase[c] \in Reading \cup Removing
  <1>1. CASE \E r \in Runs : Visit(c, r) \/ Measure(c, r)
    BY <1>1 DEF Visit, Measure, Summarise, Look, Judge, Sweep, Pass, Keep, GiveUp, TakeUp, treeVars, Reading, Removing
  <1>2. CASE Read(c) \/ Second(c) \/ ReadMeasure(c) \/ Die(c)
    BY <1>2 DEF Read, Second, ReadMeasure, Die, treeVars, Reading, Removing
  <1>3. CASE Finish(c)
    <2>1. phase[c] \in {"second", "scan"}
      BY <1>3 DEF Finish
    <2> QED  BY <1>3, <2>1 DEF Finish, treeVars, Reading
  <1>4. CASE RemoveFiles(c)
    <2>1. UNCHANGED began \/ Disturb(doing[c].run, Scanners \ {c})
      BY <1>4 DEF RemoveFiles
    <2>2. began'[c] = began[c]
      BY <2>1, Disturbance
    <2> QED  BY <1>4, <2>2 DEF RemoveFiles, Removing
  <1>5. CASE RemoveDirectory(c)
    <2>1. Disturb(doing[c].run, Scanners \ {c})
      BY <1>5 DEF RemoveDirectory
    <2>2. began'[c] = began[c]
      BY <2>1, Disturbance
    <2>3. dir' \subseteq dir
      BY <1>5 DEF RemoveDirectory
    <2> QED  BY <1>5, <2>2, <2>3 DEF RemoveDirectory, Removing
  <1> QED  BY <1>1, <1>2, <1>3, <1>4, <1>5 DEF Scan

LEMMA TimeStart == ScanInit => TimeOK
  <1> SUFFICES ASSUME ScanInit  PROVE TimeOK
    OBVIOUS
  <1>1. ScanTypeOK
    BY ScanTypeStart
  <1> QED  BY <1>1 DEF ScanInit, ScanTypeOK, TimeOK

LEMMA TimeStep ==
  ASSUME ScanTypeOK, TimeOK, \A d \in Scanners : PhaseOK(d), [ScanNext]_scanVars
  PROVE  TimeOK'
  <1>1. /\ now' \in Nat /\ now <= now'
        /\ \A r \in Runs : /\ touched[r] <= touched'[r] /\ touched'[r] <= now'
                           /\ r \in dir' \ dir => touched'[r] = now
    <2> USE DEF ScanTypeOK, TimeOK
    <2>1. CASE UNCHANGED scanVars \/ Tick
      BY <2>1 DEF scanVars, Tick, treeVars
    <2>2. ASSUME NEW r \in Runs, Create(r) \/ WriteFile(r)  PROVE <1>1
      <3>1. now' = now /\ dir' = dir \cup {r} /\ (touched' = [touched EXCEPT ![r] = now] \/ (touched' = touched /\ r \in dir))
        <4>1. CASE Create(r)
          BY <4>1 DEF Create
        <4>2. CASE WriteFile(r)
          <5>1. [touched EXCEPT ![r] = touched[r]] = touched
            OBVIOUS
          <5>2. /\ now' = now /\ dir' = dir \cup {r}
                /\ touched' = [touched EXCEPT ![r] = IF WriteOrder[step[r]] = "env.json" /\ r \in dir THEN @ ELSE now]
            BY <4>2 DEF WriteFile
          <5> QED  BY <5>1, <5>2
        <4> QED  BY <2>2, <4>1, <4>2
      <3> QED  BY <3>1
    <2>3. ASSUME NEW c \in Scanners, Scan(c)  PROVE <1>1
      BY <2>3, OwnStart
    <2>4. ASSUME NEW c \in Scanners, NEW q, Ask(c, q)  PROVE <1>1
      BY <2>4 DEF Ask, treeVars
    <2> QED  BY <2>1, <2>2, <2>3, <2>4 DEF ScanNext, Over
  <1>2. ASSUME NEW c \in Scanners, phase'[c] # "off"
        PROVE  TimeOf(c)'
    <2>0. began[c] \in Beginnings /\ DOMAIN began = Scanners /\ touched \in [Runs -> Nat] /\ now \in Nat
      BY DEF ScanTypeOK
    <2>1. ASSUME NEW q, Ask(c, q)  PROVE TimeOf(c)'
      BY <2>0, <2>1 DEF Ask, treeVars, TimeOf
    <2>2. CASE ~\E q : Ask(c, q)
      <3>1. phase[c] # "off" /\ began'[c].at = began[c].at /\ began'[c].touched = began[c].touched /\ began'[c].dir = began[c].dir
        <4>1. CASE Outside(c)
          <5>1. began'[c].at = [began[c] EXCEPT !.still = began'[c].still].at
                /\ began'[c].touched = [began[c] EXCEPT !.still = began'[c].still].touched
                /\ began'[c].dir = [began[c] EXCEPT !.still = began'[c].still].dir
            BY <4>1 DEF Outside, SameStart
          <5> QED  BY <1>2, <2>0, <4>1, <5>1 DEF Outside, Beginnings
        <4>2. CASE Scan(c)
          BY <4>2, OwnStart DEF Reading, Removing
        <4> QED  BY <2>2, <4>1, <4>2, Bystander DEF Own
      <3>2. \A r \in Runs : touched'[r] \in Nat
        BY ScanTypeStep DEF ScanTypeOK
      <3>3. /\ began[c].at \in Nat /\ began[c].at <= now
            /\ \A r \in Runs : /\ began[c].touched[r] \in Nat /\ began[c].touched[r] <= touched[r]
                               /\ r \in dir \ began[c].dir => began[c].at <= touched[r]
        BY <2>0, <3>1 DEF TimeOK, TimeOf, Beginnings
      <3> QED  BY <1>1, <2>0, <3>1, <3>2, <3>3 DEF TimeOf
    <2> QED  BY <2>1, <2>2
  <1> QED  BY <1>1, <1>2 DEF TimeOK

LEMMA PhaseStart ==
  ASSUME ScanInit, NEW c \in Scanners
  PROVE  PhaseOK(c)
  <1>1. phase[c] = "off" /\ rows[c] = {} /\ removed[c] = {}
    BY DEF ScanInit
  <1> QED  BY <1>1 DEF PhaseOK, Ended

LEMMA PhaseStep ==
  ASSUME ScanTypeOK, \A d \in Scanners : PhaseOK(d), [ScanNext]_scanVars, NEW c \in Scanners
  PROVE  PhaseOK(c)'
  <1> USE DEF Is, Refuses, GcRefuses, CleanRefuses
  <1>0. /\ PhaseOK(c) /\ DOMAIN phase = Scanners /\ DOMAIN request = Scanners /\ DOMAIN doing = Scanners
        /\ DOMAIN rows = Scanners /\ rows[c] \in SUBSET (RunRows \cup CacheRows)
        /\ \A r \in Runs : Row(r) \in RunRows /\ Row(r).run = r
        /\ \A r \in Runs : [run |-> r, found |-> {}] \in RunRows
    BY RowTypes DEF ScanTypeOK, Row
  <1>1. CASE Outside(c)
    BY <1>0, <1>1 DEF Outside, PhaseOK
  <1>2. ASSUME NEW q \in lab.asked[c], Ask(c, q)  PROVE PhaseOK(c)'
    BY <1>0, <1>2 DEF Ask, PhaseOK, Ended
  <1>3. ASSUME Scan(c)  PROVE PhaseOK(c)'
    <2>0. lab' = lab /\ request'[c] = request[c] /\ phase[c] # "off"
      BY <1>3, OwnStart DEF Reading, Removing
    <2>1. ASSUME NEW r \in Runs, Visit(c, r) \/ Measure(c, r)  PROVE PhaseOK(c)'
      <3>1. CASE Pass(c, r) \/ GiveUp(c) \/ Keep(c, r)
        BY <1>0, <2>0, <3>1, <2>1 DEF Pass, GiveUp, Keep, PhaseOK, Ended, Visit, Measure
      <3>2. CASE TakeUp(c, r, "read") /\ Is(c, {"query", "migrate"})
        BY <1>0, <2>0, <3>2, <2>1 DEF TakeUp, PhaseOK, Ended, Visit, Measure
      <3>3. CASE TakeUp(c, r, "remove") /\ Is(c, {"prune", "clean"})
        BY <1>0, <2>0, <3>3, <2>1 DEF TakeUp, PhaseOK, Ended, Visit, Measure
      <3>4. CASE TakeUp(c, r, "measure") /\ Is(c, {"compare"})
        BY <1>0, <2>0, <3>4, <2>1 DEF TakeUp, PhaseOK, Ended, Visit, Measure
      <3> QED  BY <2>1, <3>1, <3>2, <3>3, <3>4 DEF Visit, Measure, Summarise, Look, Judge, Sweep
    <2>2. CASE Read(c)
      <3>1. doing[c].run \in Runs /\ phase[c] = "read" /\ rows[c] \subseteq RunRows
        BY <1>0, <2>2 DEF Read, PhaseOK, Ended
      <3>2. rows'[c] \subseteq RunRows /\ phase'[c] \in {"failed", "scan"}
        BY <1>0, <2>2, <3>1 DEF Read
      <3> QED  BY <1>0, <2>0, <3>1, <3>2 DEF PhaseOK, Ended
    <2>3. CASE ReadMeasure(c)
      <3>1. doing[c].run \in Runs /\ phase[c] = "measure" /\ rows[c] \subseteq RunRows
        BY <1>0, <2>3 DEF ReadMeasure, PhaseOK, Ended
      <3>2. rows'[c] \subseteq RunRows /\ phase'[c] \in {"failed", "second"}
        BY <1>0, <2>3, <3>1 DEF ReadMeasure
      <3> QED  BY <1>0, <2>0, <3>1, <3>2 DEF PhaseOK, Ended
    <2>4. CASE RemoveFiles(c)
      <3>1. doing[c].run \in Runs /\ phase[c] = "remove" /\ rows[c] \subseteq RunRows /\ rows'[c] = rows[c]
        BY <1>0, <2>4 DEF RemoveFiles, PhaseOK, Ended
      <3>2. phase'[c] = "failed" \/ (phase'[c] = "unlink" /\ doing'[c].run = doing[c].run)
        <4>1. doing[c] \in RunRows
          BY <3>1, ScanAssumption DEF ScanTypeOK, Ghost
        <4>2. \A f : [doing[c] EXCEPT !.found = f].run = doing[c].run
          BY <4>1 DEF RunRows
        <4>3. CASE doing[c].run \in dir
          <5>1. doing' = [doing EXCEPT ![c].found = files'[doing[c].run]] /\ phase'[c] = "unlink"
            BY <1>0, <2>4, <4>3 DEF RemoveFiles
          <5>2. doing'[c] = [doing[c] EXCEPT !.found = files'[doing[c].run]]
            BY <1>0, <5>1
          <5> QED  BY <4>2, <5>1, <5>2
        <4> QED  BY <1>0, <2>4, <4>3 DEF RemoveFiles
      <3> QED  BY <1>0, <2>0, <3>1, <3>2 DEF PhaseOK, Ended
    <2>5. CASE RemoveDirectory(c)
      <3>1. doing[c].run \in Runs /\ phase[c] = "unlink" /\ rows[c] \subseteq RunRows
        BY <1>0, <2>5 DEF RemoveDirectory, PhaseOK, Ended
      <3>2. rows'[c] \subseteq RunRows /\ phase'[c] \in {"failed", "scan"}
        BY <1>0, <2>5, <3>1 DEF RemoveDirectory
      <3> QED  BY <1>0, <2>0, <3>1, <3>2 DEF PhaseOK, Ended
    <2>6. CASE Second(c)
      BY <1>0, <2>0, <2>6 DEF Second, PhaseOK, Ended
    <2>7. CASE Finish(c)
      <3>1. phase'[c] \in Ended /\ phase[c] \notin Ended
        BY <1>0, <2>7, Verdicts DEF Finish, Ended
      <3> QED  BY <1>0, <2>0, <3>1 DEF PhaseOK, Ended
    <2>8. CASE Die(c)
      BY <1>0, <2>0, <2>8 DEF Die, PhaseOK, Ended
    <2> QED  BY <1>3, <2>1, <2>2, <2>3, <2>4, <2>5, <2>6, <2>7, <2>8 DEF Scan
  <1> QED  BY <1>1, <1>2, <1>3, Bystander DEF Own

-----------------------------------------------------------------------------
(* The readers.                                                            *)

\* What a command is about depends on what it was asked and found, and no more.
LEMMA SameAim ==
  ASSUME NEW c, lab' = lab, request'[c] = request[c], began'[c] = began[c]
  PROVE  /\ Steady(c)' = Steady(c) /\ (Undisturbed(c)' <=> Undisturbed(c))
         /\ \A kinds : Is(c, kinds)' <=> Is(c, kinds)
         /\ \A r : Found(c, r)' = Found(c, r)
         /\ \A r, found : Listed(r, found)' <=> Listed(r, found)
         /\ \A r : (First(c, r)' <=> First(c, r)) /\ (Again(c, r)' <=> Again(c, r))
  BY DEF Steady, Undisturbed, Found, Listed, First, Again, Is

\* The runs that are due, of each kind of command.
LEMMA DueIs ==
  ASSUME NEW c, NEW r
  PROVE  /\ Is(c, {"list"}) => (r \in Due(c, request[c]) <=> r \in Steady(c) /\ First(c, r))
         /\ Is(c, {"query"}) =>
              (r \in Due(c, request[c]) <=>
                 /\ r \in Steady(c) /\ First(c, r)
                 /\ request[c].target = Unset \/ Stands(request[c].target, lab.target[r])
                 /\ request[c].seed = Unset \/ ("params.json" \in Found(c, r) /\ lab.seed[r] = request[c].seed))
         /\ Is(c, {"compare", "reproducibility"}) =>
              (r \in Due(c, request[c]) <=> r \in Steady(c) /\ First(c, r) /\ Again(c, r))
         /\ Is(c, {"migrate"}) => (r \in Due(c, request[c]) <=> r \in Steady(c) /\ First(c, r))
  BY DEF Due, Is, First, Again, Listing

LEMMA DueSame ==
  ASSUME NEW c, Is(c, Readers), lab' = lab, request'[c] = request[c], began'[c] = began[c]
  PROVE  Due(c, request[c])' = Due(c, request[c]) /\ Drift(c)' = Drift(c)
  <1>1. Due(c, request[c])' = Due(c, request[c])
    BY DEF Due, Is, Readers, Steady, Found, Listed
  <1> QED  BY <1>1 DEF Drift, Delta

LEMMA ReportedSame ==
  ASSUME NEW c, rows'[c] = rows[c]
  PROVE  Reported(c)' = Reported(c)
  BY DEF Reported

LEMMA ReportedMore ==
  ASSUME NEW c, NEW row, rows'[c] = rows[c] \cup {row}
  PROVE  Reported(c)' = Reported(c) \cup {row.run}
  BY DEF Reported

LEMMA ReaderOutside ==
  ASSUME ScanTypeOK, ScanTypeOK', NEW c \in Scanners, ReaderInv(c), Outside(c)
  PROVE  ReaderInv(c)'
  <1> SUFFICES ASSUME phase'[c] # "off", Is(c, Readers)'  PROVE ReaderInv(c)'
    BY DEF ReaderInv
  <1>1. phase[c] # "off" /\ Is(c, Readers) /\ ReaderInv(c)!2
    BY DEF Outside, Is, ReaderInv
  <1>2. Reported(c)' = Reported(c)
    BY ReportedSame DEF Outside
  <1>3. CASE c \notin UnderWay
    <2>1. phase'[c] = phase[c] /\ phase[c] \notin Reading
      BY <1>1, <1>3 DEF Outside, UnderWay, Reading
    <2>2. lab' = lab /\ request'[c] = request[c] /\ began'[c] = began[c] /\ rows'[c] = rows[c]
      BY <1>3 DEF Outside
    <2>3. Exact(c)'
      BY <1>1, <2>2, SameAim DEF Exact
    <2>4. SoundScan(c)'
      <3>1. Due(c, request[c])' = Due(c, request[c]) /\ Drift(c)' = Drift(c)
        BY <1>1, <2>2, DueSame
      <3>2. SoundScan(c) /\ Steady(c)' = Steady(c) /\ (Undisturbed(c)' <=> Undisturbed(c))
            /\ \A kinds : Is(c, kinds)' <=> Is(c, kinds)
        BY <1>1, <2>2, SameAim
      <3> QED  BY <3>1, <3>2, <1>2, <2>1, <2>2 DEF SoundScan
    <2> QED  BY <2>1, <2>3, <2>4 DEF ReaderInv
  <1>4. CASE c \in UnderWay
    <2>1. phase'[c] = phase[c] /\ phase[c] \notin {"off", "done", "failed", "passed"}
      BY <1>4 DEF Outside, UnderWay
    <2>2. SoundScan(c)'
      BY <2>1 DEF SoundScan
    <2>3. /\ Steady(c)' \subseteq Steady(c) /\ (Undisturbed(c)' => Undisturbed(c))
          /\ began'[c].dir = began[c].dir /\ began'[c].files = began[c].files
          /\ began'[c].still \subseteq began[c].still /\ began'[c].still \subseteq Runs /\ began[c].still \subseteq Runs
      <3>1. began[c] \in Beginnings
        BY DEF ScanTypeOK
      <3>2. began'[c] = [began[c] EXCEPT !.still = began'[c].still] /\ began'[c].still \subseteq began[c].still
        BY DEF Outside, SameStart
      <3>3. began'[c].dir = began[c].dir /\ began'[c].files = began[c].files
        BY <3>1, <3>2 DEF Beginnings
      <3>4. began[c].still \subseteq Runs
        BY <3>1 DEF Beginnings
      <3> QED  BY <3>2, <3>3, <3>4 DEF Steady, Undisturbed
    <2>4. /\ \A r : Found(c, r)' = Found(c, r)
          /\ \A r, found : Listed(r, found)' <=> Listed(r, found)
          /\ \A kinds : Is(c, kinds)' <=> Is(c, kinds)
      BY <2>3 DEF Found, Listed, Is, Outside
    <2>5. \A r : (First(c, r)' <=> First(c, r)) /\ (Again(c, r)' <=> Again(c, r))
      BY <2>4 DEF First, Again, Outside
    <2>6. Exact(c)'
      BY <1>1, <2>3, <2>4 DEF Exact, Outside
    <2>7. \A phases : Taken(c, phases)' = Taken(c, phases)
      BY DEF Taken, Outside
    <2>8. ASSUME phase'[c] \in Reading, NEW r \in Steady(c)'  PROVE Following(c, r)'
      <3>1. Following(c, r)
        BY <1>1, <2>1, <2>3, <2>8
      <3>2. r \in began'[c].still
        BY <2>8 DEF Steady
      <3>3. (r \in dir' <=> r \in dir) /\ files'[r] = files[r] /\ (r \in todo'[c] <=> r \in todo[c])
        BY <1>4, <3>2 DEF Outside
      <3>4. r \in Left(c)' <=> r \in Left(c)
        BY <2>7, <3>3 DEF Left
      <3> QED  BY <1>2, <2>1, <2>4, <2>5, <2>7, <3>1, <3>3, <3>4 DEF Following
    <2>9. ASSUME phase'[c] \in Reading, Undisturbed(c)'  PROVE Left(c)' \cup Reported(c)' \subseteq began'[c].dir
      <3>1. Left(c) \cup Reported(c) \subseteq began[c].dir
        BY <1>1, <2>1, <2>3, <2>9
      <3>2. \A r \in Runs : r \in todo'[c] <=> r \in todo[c]
        BY <1>4, <2>9 DEF Outside, Undisturbed
      <3>3. todo'[c] \subseteq Runs
        BY DEF ScanTypeOK
      <3> QED  BY <1>2, <2>3, <2>7, <3>1, <3>2, <3>3 DEF Left
    <2> QED  BY <2>2, <2>6, <2>8, <2>9 DEF ReaderInv
  <1> QED  BY <1>3, <1>4

\* A step of a reader: it changes no directory, and what it is about stays.
LEMMA ReaderStays ==
  ASSUME ScanTypeOK, \A d \in Scanners : PhaseOK(d), NEW c \in Scanners, Scan(c), Is(c, Readers)
  PROVE  /\ dir' = dir /\ files' = files /\ lab' = lab /\ registry' = registry
         /\ request'[c] = request[c] /\ began'[c] = began[c]
         /\ phase[c] \in Reading
         /\ phase[c] \in {"scan", "second"} => Taken(c, {"read", "measure"}) = {}
  <1>1. PhaseOK(c) /\ request[c].kind \in Readers
    BY DEF Is
  <1>2. phase[c] \notin {"remove", "unlink"}
    BY <1>1 DEF PhaseOK, Is, Readers
  <1>3. ~RemoveFiles(c) /\ ~RemoveDirectory(c) /\ ~Die(c)
    BY <1>2 DEF RemoveFiles, RemoveDirectory, Die
  <1>4. dir' = dir /\ files' = files
    BY <1>3 DEF Scan, Visit, Measure, Read, Second, ReadMeasure, Finish, treeVars
  <1>5. registry' = registry
    BY <1>1, <1>3 DEF Scan, Visit, Measure, Read, Second, ReadMeasure, Finish, Is, Readers
  <1> QED  BY <1>2, <1>4, <1>5, OwnStart DEF Taken, Reading, Removing

LEMMA Adding ==
  ASSUME ScanTypeOK, \A d \in Scanners : PhaseOK(d), NEW c \in Scanners, Scan(c), Is(c, Readers), ReaderInv(c),
         NEW r, rows'[c] = rows[c] \/ (rows'[c] = rows[c] \cup {Row(r)} /\ (r \in Steady(c) => Following(c, r)))
  PROVE  Exact(c)'
  <1>1. Exact(c) /\ files' = files /\ Steady(c)' = Steady(c) /\ \A s : Found(c, s)' = Found(c, s)
    BY ReaderStays, SameAim DEF ReaderInv, Reading
  <1> QED  BY <1>1 DEF Exact, Row, Following

\* Another run of the first pass, or of the second.
LEMMA ReaderVisit ==
  ASSUME ScanTypeOK, \A d \in Scanners : PhaseOK(d), NEW c \in Scanners, ReaderInv(c), Is(c, Readers),
         NEW v \in Runs, Scan(c), Visit(c, v) \/ Measure(c, v)
  PROVE  ReaderInv(c)'
  <1>1. /\ dir' = dir /\ files' = files /\ lab' = lab /\ request'[c] = request[c] /\ began'[c] = began[c]
        /\ phase[c] \in {"scan", "second"} /\ Taken(c, {"read", "measure"}) = {} /\ v \in todo[c]
    BY ReaderStays DEF Visit, Measure
  <1>2. /\ Steady(c)' = Steady(c) /\ (Undisturbed(c)' <=> Undisturbed(c))
        /\ \A kinds : Is(c, kinds)' <=> Is(c, kinds)
        /\ \A r : Found(c, r)' = Found(c, r)
        /\ \A r : (First(c, r)' <=> First(c, r)) /\ (Again(c, r)' <=> Again(c, r))
    BY <1>1, SameAim
  <1>3. phase[c] \in Reading /\ (\A r \in Steady(c) : Following(c, r)) /\ Left(c) = todo[c] /\ Steady(c) \subseteq dir
    BY <1>1 DEF ReaderInv, Reading, Left, Following
  <1>4. DOMAIN phase = Scanners /\ DOMAIN todo = Scanners /\ DOMAIN doing = Scanners /\ DOMAIN rows = Scanners
    BY DEF ScanTypeOK
  <1>5. todo'[c] = todo[c] \ {v} /\ PhaseOK(c)
    BY <1>4, <1>1 DEF Visit, Measure, Summarise, Look, Judge, Sweep, Pass, Keep, TakeUp, Is, Readers
  <1>6. CASE /\ rows'[c] = rows[c] /\ phase'[c] = phase[c] /\ doing'[c] = doing[c]
             /\ v \in Steady(c) => (phase[c] = "scan" => ~First(c, v)) /\ (phase[c] = "second" => ~Again(c, v))
    <2>1. Reported(c)' = Reported(c) /\ Taken(c, {"read", "measure"})' = {}
      BY <1>1, <1>6, ReportedSame DEF Taken
    <2>2. Left(c)' = Left(c) \ {v} /\ Taken(c, {"read"})' = {} /\ Taken(c, {"measure"})' = {}
      BY <1>1, <1>3, <1>5, <1>6, <2>1 DEF Left, Taken
    <2>3. ASSUME NEW r \in Steady(c)  PROVE Following(c, r)'
      BY <1>1, <1>2, <1>3, <1>6, <2>1, <2>2, <2>3 DEF Following
    <2>4. Exact(c)' /\ SoundScan(c)'
      BY <1>1, <1>6, Adding DEF SoundScan
    <2> QED  BY <1>1, <1>2, <1>3, <2>1, <2>2, <2>3, <2>4 DEF ReaderInv
  <1>7. CASE /\ rows'[c] = rows[c] \cup {Row(v)} /\ phase'[c] = phase[c] /\ doing'[c] = doing[c]
             /\ v \in Steady(c) => (phase[c] = "scan" => First(c, v)) /\ (phase[c] = "second" => Again(c, v))
    <2>0. Row(v).run = v
      BY DEF Row
    <2>1. Reported(c)' = Reported(c) \cup {v} /\ Taken(c, {"read", "measure"})' = {}
      BY <1>1, <1>7, <2>0, ReportedMore DEF Taken
    <2>2. Left(c)' = Left(c) \ {v} /\ Taken(c, {"read"})' = {} /\ Taken(c, {"measure"})' = {}
      BY <1>1, <1>3, <1>5, <1>7, <2>1 DEF Left, Taken
    <2>3. ASSUME NEW r \in Steady(c)  PROVE Following(c, r)'
      BY <1>1, <1>2, <1>3, <1>7, <2>1, <2>2, <2>3 DEF Following
    <2>4. Exact(c)' /\ SoundScan(c)'
      BY <1>1, <1>3, <1>7, Adding DEF SoundScan
    <2>5. Undisturbed(c) => v \in began[c].dir
      BY <1>1, <1>3 DEF ReaderInv
    <2> QED  BY <1>1, <1>2, <1>3, <2>1, <2>2, <2>3, <2>4, <2>5 DEF ReaderInv
  <1>8. CASE /\ rows'[c] = rows[c] /\ doing'[c] = Row(v)
             /\ \/ phase[c] = "scan" /\ phase'[c] = "read" /\ "run.json" \in files[v]
                \/ phase[c] = "second" /\ phase'[c] = "measure" /\ "metrics_summary.json" \in files[v]
    <2>1. Reported(c)' = Reported(c) /\ Taken(c, {"read", "measure"})' = {v}
      BY <1>1, <1>8, ReportedSame DEF Taken, Row
    <2>2. /\ Left(c)' = Left(c) /\ Taken(c, {"read"})' \subseteq {v} /\ Taken(c, {"measure"})' \subseteq {v}
          /\ phase[c] = "scan" => Taken(c, {"measure"})' = {}
          /\ phase[c] = "second" => Taken(c, {"read"})' = {}
      BY <1>1, <1>3, <1>5, <1>8, <2>1 DEF Left, Taken, Row
    <2>3. ASSUME NEW r \in Steady(c)  PROVE Following(c, r)'
      <3>1. Following(c, r) /\ files[r] = Found(c, r)
        BY <1>3 DEF Following
      <3>2. r \in todo'[c] <=> r \in todo[c] \ {v}
        BY <1>5
      <3> QED  BY <1>1, <1>2, <1>8, <2>1, <2>2, <3>1, <3>2 DEF Following
    <2>4. Exact(c)' /\ SoundScan(c)'
      BY <1>1, <1>8, Adding DEF SoundScan
    <2> QED  BY <1>1, <1>2, <1>3, <2>1, <2>2, <2>3, <2>4 DEF ReaderInv
  <1>9. v \in Steady(c) => files[v] = Found(c, v) /\ v \in dir
    BY <1>3 DEF Following
  <1>10. CASE Visit(c, v)
    <2>0. phase[c] = "scan"
      BY <1>10 DEF Visit
    <2>1. CASE Summarise(c, v)
      <3>1. Is(c, Listing) /\ (First(c, v) <=> Listed(v, Found(c, v)))
        BY <2>1 DEF Summarise, First, Is, Listing
      <3>2. CASE v \in dir /\ Listed(v, files[v]) /\ Keep(c, v)
        BY <1>4, <1>7, <1>9, <2>0, <3>1, <3>2 DEF Keep
      <3>3. CASE ~(v \in dir /\ Listed(v, files[v])) /\ Pass(c, v)
        BY <1>4, <1>6, <1>9, <2>0, <3>1, <3>3 DEF Pass
      <3> QED  BY <2>1, <3>2, <3>3 DEF Summarise
    <2>2. CASE Look(c, v)
      <3>1. Is(c, {"query", "migrate"}) /\ (First(c, v) => "run.json" \in Found(c, v))
        BY <2>2 DEF Look, First, Is, Listing
      <3>2. CASE v \in dir /\ "run.json" \in files[v] /\ TakeUp(c, v, "read")
        BY <1>4, <1>8, <2>0, <3>2 DEF TakeUp
      <3>3. CASE ~(v \in dir /\ "run.json" \in files[v]) /\ Pass(c, v)
        BY <1>4, <1>6, <1>9, <2>0, <3>1, <3>3 DEF Pass
      <3> QED  BY <2>2, <3>2, <3>3 DEF Look
    <2>3. ~Judge(c, v) /\ ~Sweep(c, v)
      BY DEF Judge, Sweep, Is, Readers
    <2> QED  BY <1>10, <2>1, <2>2, <2>3 DEF Visit
  <1>11. CASE Measure(c, v)
    <2>0. phase[c] = "second" /\ Is(c, {"compare", "reproducibility"})
      BY <1>5, <1>11 DEF Measure, PhaseOK
    <2>1. Again(c, v) <=> IF Is(c, {"compare"}) THEN Wanted(c) \in Found(c, v) ELSE Wanted(c) \notin Found(c, v)
      BY DEF Again, Wanted
    <2>2. CASE Wanted(c) \in files[v] /\ Is(c, {"compare"})
      BY <1>4, <1>8, <1>11, <2>0, <2>2 DEF Measure, TakeUp, Wanted
    <2>3. CASE Wanted(c) \notin files[v] /\ Is(c, {"compare"})
      BY <1>4, <1>6, <1>9, <1>11, <2>0, <2>1, <2>3 DEF Measure, Pass
    <2>4. CASE Wanted(c) \in files[v] /\ ~Is(c, {"compare"})
      BY <1>4, <1>6, <1>9, <1>11, <2>0, <2>1, <2>4 DEF Measure, Pass
    <2>5. CASE Wanted(c) \notin files[v] /\ ~Is(c, {"compare"})
      BY <1>4, <1>7, <1>9, <1>11, <2>0, <2>1, <2>5 DEF Measure, Keep
    <2> QED  BY <2>2, <2>3, <2>4, <2>5
  <1> QED  BY <1>10, <1>11

\* What a command took up is read, or it is an error.
LEMMA ReaderReads ==
  ASSUME ScanTypeOK, \A d \in Scanners : PhaseOK(d), NEW c \in Scanners, ReaderInv(c), Is(c, Readers),
         Scan(c), Read(c) \/ ReadMeasure(c)
  PROVE  ReaderInv(c)'
  <1> DEFINE v == doing[c].run
  <1>1. /\ dir' = dir /\ files' = files /\ lab' = lab /\ request'[c] = request[c] /\ began'[c] = began[c]
        /\ phase[c] \in {"read", "measure"}
    BY ReaderStays DEF Read, ReadMeasure
  <1>2. /\ Steady(c)' = Steady(c) /\ (Undisturbed(c)' <=> Undisturbed(c))
        /\ \A kinds : Is(c, kinds)' <=> Is(c, kinds)
        /\ \A r : Found(c, r)' = Found(c, r)
        /\ \A r : (First(c, r)' <=> First(c, r)) /\ (Again(c, r)' <=> Again(c, r))
    BY <1>1, SameAim
  <1>3. /\ \A r \in Steady(c) : Following(c, r) /\ files[r] = Found(c, r)
        /\ Taken(c, {"read", "measure"}) = {v} /\ Left(c) = todo[c] \cup {v}
        /\ Undisturbed(c) => Left(c) \cup Reported(c) \subseteq began[c].dir
    BY <1>1 DEF ReaderInv, Reading, Left, Following, Taken
  <1>4. DOMAIN phase = Scanners /\ DOMAIN doing = Scanners /\ DOMAIN rows = Scanners /\ v \in Runs /\ PhaseOK(c)
    BY <1>1 DEF ScanTypeOK, PhaseOK
  <1>5. todo'[c] = todo[c]
    BY <1>1 DEF Read, ReadMeasure
  <1>6. CASE phase'[c] = "failed"
    <2>1. rows'[c] = rows[c]
      BY <1>4, <1>6 DEF Read, ReadMeasure
    <2>2. Exact(c)'
      BY <2>1, Adding
    <2>3. ASSUME Undisturbed(c)
          PROVE  Is(c, {"query", "migrate"}) /\ "torn" \in Range(lab.version)
      <3>1. v \in Steady(c) /\ Following(c, v) /\ files[v] = Found(c, v)
        BY <1>3, <1>4, <2>3 DEF Steady, Undisturbed
      <3>2. Read(c)
        BY <1>3, <1>4, <1>6, <3>1 DEF ReadMeasure, Following, Taken, Wanted, PhaseOK
      <3>3. phase[c] = "read" /\ Undecodable(v) /\ Is(c, {"query", "migrate"})
        BY <1>3, <1>4, <1>6, <3>1, <3>2 DEF Read, Following, Taken, PhaseOK
      <3> QED  BY <1>4, <3>3, LabAssumption DEF Undecodable, Range, ScanTypeOK
    <2>4. SoundScan(c)'
      BY <1>1, <1>2, <1>6, <2>3 DEF SoundScan
    <2> QED  BY <1>2, <1>6, <2>2, <2>4 DEF ReaderInv, Reading
  <1>7. ASSUME phase'[c] \in {"scan", "second"}, phase[c] = "read" <=> phase'[c] = "scan",
               rows'[c] = rows[c], v \in Steady(c) => phase[c] = "read" /\ ~First(c, v)
        PROVE  ReaderInv(c)'
    <2>1. Reported(c)' = Reported(c) /\ \A phases \in {{"read", "measure"}, {"read"}, {"measure"}} : Taken(c, phases)' = {}
      BY <1>7, ReportedSame DEF Taken
    <2>2. Left(c)' = todo[c]
      BY <1>5, <2>1 DEF Left
    <2>3. ASSUME NEW r \in Steady(c)  PROVE Following(c, r)'
      <3>1. Following(c, r) /\ (r = v => r \notin todo[c])
        BY <1>3 DEF Following
      <3> QED  BY <1>1, <1>2, <1>3, <1>7, <2>1, <2>2, <3>1 DEF Following
    <2>4. Exact(c)' /\ SoundScan(c)'
      BY <1>7, Adding DEF SoundScan
    <2> QED  BY <1>1, <1>2, <1>3, <2>1, <2>2, <2>3, <2>4 DEF ReaderInv
  <1>8. ASSUME phase'[c] \in {"scan", "second"}, phase[c] = "read" <=> phase'[c] = "scan",
               rows'[c] = rows[c] \cup {Row(v)},
               v \in Steady(c) => First(c, v) /\ (phase[c] = "measure" => Again(c, v))
        PROVE  ReaderInv(c)'
    <2>0. Row(v).run = v
      BY DEF Row
    <2>1. Reported(c)' = Reported(c) \cup {v} /\ \A phases \in {{"read", "measure"}, {"read"}, {"measure"}} : Taken(c, phases)' = {}
      BY <1>8, <2>0, ReportedMore DEF Taken
    <2>2. Left(c)' = todo[c]
      BY <1>5, <2>1 DEF Left
    <2>3. ASSUME NEW r \in Steady(c)  PROVE Following(c, r)'
      <3>1. Following(c, r) /\ (r = v => r \notin todo[c])
        BY <1>3 DEF Following
      <3> QED  BY <1>1, <1>2, <1>3, <1>8, <2>1, <2>2, <3>1 DEF Following
    <2>4. Exact(c)' /\ SoundScan(c)'
      BY <1>3, <1>8, Adding DEF SoundScan
    <2> QED  BY <1>1, <1>2, <1>3, <2>1, <2>2, <2>3, <2>4 DEF ReaderInv
  <1>9. CASE Read(c) /\ phase'[c] # "failed"
    <2>1. phase[c] = "read" /\ phase'[c] = "scan" /\ Is(c, {"query", "migrate"})
      BY <1>4, <1>9 DEF Read, PhaseOK
    <2>2. v \in Steady(c) => "run.json" \in Found(c, v)
      BY <1>3, <2>1 DEF Following, Taken
    <2>3. CASE Is(c, {"migrate"}) /\ lab.version[v] = "current"
      BY <1>4, <1>7, <1>9, <2>1, <2>3 DEF Read, First, Is, Listing
    <2>4. CASE ~(Is(c, {"migrate"}) /\ lab.version[v] = "current")
      <3>1. rows'[c] = rows[c] \cup {Row(v)}
        BY <1>4, <1>9, <2>4 DEF Read
      <3> QED  BY <1>8, <2>1, <2>2, <2>4, <3>1 DEF First, Is
    <2> QED  BY <2>3, <2>4
  <1>10. CASE ReadMeasure(c) /\ phase'[c] # "failed"
    <2>1. phase[c] = "measure" /\ phase'[c] = "second" /\ Is(c, {"compare"}) /\ rows'[c] = rows[c] \cup {Row(v)}
      BY <1>4, <1>10 DEF ReadMeasure, PhaseOK
    <2>2. v \in Steady(c) => First(c, v) /\ "metrics_summary.json" \in Found(c, v)
      BY <1>3, <2>1 DEF Following, Taken
    <2> QED  BY <1>8, <2>1, <2>2 DEF Again
  <1> QED  BY <1>6, <1>9, <1>10

LEMMA ReaderTurns ==
  ASSUME ScanTypeOK, \A d \in Scanners : PhaseOK(d), NEW c \in Scanners, ReaderInv(c), Is(c, Readers),
         Scan(c), Second(c)
  PROVE  ReaderInv(c)'
  <1>1. /\ dir' = dir /\ files' = files /\ lab' = lab /\ request'[c] = request[c] /\ began'[c] = began[c]
        /\ phase[c] = "scan" /\ Taken(c, {"read", "measure"}) = {} /\ todo[c] = {}
    BY ReaderStays DEF Second
  <1>2. /\ Steady(c)' = Steady(c) /\ (Undisturbed(c)' <=> Undisturbed(c))
        /\ \A kinds : Is(c, kinds)' <=> Is(c, kinds)
        /\ \A r : Found(c, r)' = Found(c, r)
        /\ \A r : (First(c, r)' <=> First(c, r)) /\ (Again(c, r)' <=> Again(c, r))
    BY <1>1, SameAim
  <1>3. /\ \A r \in Steady(c) : Following(c, r) /\ (r \in Reported(c) <=> First(c, r))
        /\ Undisturbed(c) => Reported(c) \subseteq began[c].dir
    BY <1>1 DEF ReaderInv, Reading, Left, Following
  <1>4. phase'[c] = "second" /\ todo'[c] = Reported(c) /\ rows'[c] = {}
    BY DEF Second, ScanTypeOK, Reported
  <1>5. Reported(c)' = {} /\ \A phases \in {{"read", "measure"}, {"read"}, {"measure"}} : Taken(c, phases)' = {}
    BY <1>4 DEF Reported, Taken
  <1>6. Left(c)' = Reported(c)
    BY <1>4, <1>5 DEF Left
  <1>7. ASSUME NEW r \in Steady(c)  PROVE Following(c, r)'
    BY <1>1, <1>2, <1>3, <1>4, <1>5, <1>6 DEF Following
  <1>8. Exact(c)' /\ SoundScan(c)'
    BY <1>4 DEF Exact, SoundScan
  <1> QED  BY <1>1, <1>2, <1>3, <1>5, <1>6, <1>7, <1>8 DEF ReaderInv

LEMMA ReaderAsks ==
  ASSUME ScanTypeOK, \A d \in Scanners : PhaseOK(d), NEW c \in Scanners, NEW q \in lab.asked[c], Ask(c, q)
  PROVE  ReaderInv(c)'
  <1> SUFFICES ASSUME Is(c, Readers)'  PROVE ReaderInv(c)'
    BY DEF ReaderInv
  <1>1. /\ phase[c] = "off" /\ rows[c] = {} /\ rows' = rows /\ request'[c] = q /\ q.kind \in Readers
        /\ files' = files /\ dir' = dir
    BY DEF Ask, PhaseOK, ScanTypeOK, Is, treeVars
  <1>2. ~Refuses(q) /\ q.kind # "prune"
    BY <1>1 DEF Refuses, GcRefuses, CleanRefuses, Readers
  <1>3. phase'[c] = "scan" /\ todo'[c] = dir
    BY <1>2 DEF Ask, ScanTypeOK
  <1>4. began'[c] = [at |-> now, dir |-> dir, files |-> files, touched |-> touched, still |-> Runs]
    BY DEF Ask, ScanTypeOK
  <1>5. began'[c].dir = dir /\ began'[c].files = files /\ began'[c].still = Runs
    BY <1>4
  <1>6. Reported(c)' = {} /\ \A phases \in {{"read", "measure"}, {"read"}, {"measure"}} : Taken(c, phases)' = {}
    BY <1>1, <1>3 DEF Reported, Taken
  <1>7. Left(c)' = dir /\ Steady(c)' \subseteq dir
    BY <1>3, <1>5, <1>6 DEF Left, Steady
  <1>8. ASSUME NEW r \in Steady(c)'  PROVE Following(c, r)'
    BY <1>1, <1>3, <1>5, <1>6, <1>7, <1>8 DEF Following, Found
  <1>9. Exact(c)' /\ SoundScan(c)'
    BY <1>1, <1>3 DEF Exact, SoundScan
  <1> QED  BY <1>5, <1>6, <1>7, <1>8, <1>9 DEF ReaderInv

\* A pattern that was asked for selects the runs it stands for.
LEMMA Selects ==
  ASSUME ScanTypeOK, NEW c \in Scanners, PhaseOK(c), phase[c] # "off", Is(c, {"query"}),
         request[c].target # Unset, NEW r \in Runs
  PROVE  WildcardMatch(request[c].target, lab.target[r]) <=> Stands(request[c].target, lab.target[r])
  <1>1. lab \in Labs /\ request[c] \in lab.asked[c] /\ request[c].kind = "query"
    BY DEF ScanTypeOK, PhaseOK, Is
  <1>2. Len(request[c].target) \in Nat /\ Len(lab.target[r]) \in Nat
    BY <1>1, RequestAssumption, LabAssumption
  <1> QED  BY <1>2, WildcardsAreExact

\* The end of a reader.
LEMMA ReaderFinishes ==
  ASSUME ScanTypeOK, \A d \in Scanners : PhaseOK(d), NEW c \in Scanners, ReaderInv(c), Is(c, Readers),
         Scan(c), Finish(c)
  PROVE  ReaderInv(c)'
  <1>1. /\ lab' = lab /\ request'[c] = request[c] /\ began'[c] = began[c]
        /\ phase[c] \in {"scan", "second"} /\ Taken(c, {"read", "measure"}) = {} /\ todo[c] = {}
        /\ PhaseOK(c) /\ phase[c] # "off"
        /\ phase[c] = IF Is(c, {"compare", "reproducibility"}) THEN "second" ELSE "scan"
    BY ReaderStays DEF Finish
  <1>2. /\ Steady(c)' = Steady(c) /\ (Undisturbed(c)' <=> Undisturbed(c))
        /\ \A kinds : Is(c, kinds)' <=> Is(c, kinds)
        /\ \A r : Found(c, r)' = Found(c, r)
    BY <1>1, SameAim
  <1>3. Due(c, request[c])' = Due(c, request[c]) /\ Drift(c)' = Drift(c)
    BY <1>1, DueSame
  <1>4. /\ \A r \in Steady(c) : r \in Reported(c) <=> First(c, r) /\ (phase[c] = "second" => Again(c, r))
        /\ Undisturbed(c) => Reported(c) \subseteq began[c].dir
        /\ Exact(c)
    BY <1>1 DEF ReaderInv, Reading, Left, Following
  <1>5. rows[c] \subseteq RunRows /\ Steady(c) \subseteq Runs /\ \A row \in rows[c] : row.run \in Runs
    BY <1>1 DEF PhaseOK, Ended, Steady, ScanTypeOK, Beginnings, RunRows
  <1>6. phase'[c] = Verdict(c) /\ Verdict(c) \in Ended
    BY Verdicts DEF Finish, ScanTypeOK
  <1>7. Is(c, {"list", "compare", "reproducibility"}) => rows'[c] = rows[c]
    BY DEF Finish, ScanTypeOK, Is
  <1>8. CASE Is(c, {"list"})
    <2>1. Due(c, request[c]) = Reported(c) \cap Steady(c)
      BY <1>1, <1>4, <1>8, DueIs DEF Is
    <2>2. Reported(c)' = Reported(c) /\ Exact(c)'
      BY <1>1, <1>2, <1>4, <1>7, <1>8, ReportedSame DEF Exact, Is
    <2>3. Verdict(c) = "done" /\ ~Is(c, {"compare"})
      BY <1>8 DEF Verdict, Is
    <2> QED  BY <1>2, <1>3, <1>6, <2>1, <2>2, <2>3 DEF ReaderInv, SoundScan, Reading
  <1>9. CASE Is(c, {"query"})
    <2>1. rows'[c] = Selected(c)
      BY <1>9 DEF Finish, ScanTypeOK, Is
    <2>2. Exact(c)'
      BY <1>2, <1>4, <2>1 DEF Exact, Selected
    <2>3. ASSUME NEW r \in Steady(c)  PROVE r \in Reported(c)' <=> r \in Due(c, request[c])
      <3>1. r \in Reported(c) <=> "run.json" \in Found(c, r)
        BY <1>1, <1>4, <1>9 DEF First, Is, Listing
      <3>2. \A row \in rows[c] : row.run = r => row.found = Found(c, r)
        BY <1>4 DEF Exact
      <3>3. r \in Reported(c)' <=> \E row \in rows[c] : row.run = r /\ row \in Selected(c)
        BY <2>1 DEF Reported, Selected
      <3>4. ASSUME NEW row \in rows[c], row.run = r
            PROVE  row \in Selected(c) <=>
                     /\ request[c].target = Unset \/ Stands(request[c].target, lab.target[r])
                     /\ request[c].seed = Unset \/ ("params.json" \in Found(c, r) /\ lab.seed[r] = request[c].seed)
        <4>1. "run.json" \in row.found /\ row.found = Found(c, r)
          BY <3>1, <3>2, <3>4 DEF Reported
        <4>2. TargetName(row) = lab.target[r]
          BY <3>4, <4>1 DEF TargetName
        <4>3. request[c].target # Unset =>
                (WildcardMatch(request[c].target, lab.target[r]) <=> Stands(request[c].target, lab.target[r]))
          BY <1>1, <1>5, <1>9, Selects
        <4> QED  BY <3>4, <4>1, <4>2, <4>3 DEF Selected, SeedMatches
      <3>5. r \in Reported(c) <=> \E row \in rows[c] : row.run = r
        BY DEF Reported
      <3>6. First(c, r) <=> "run.json" \in Found(c, r)
        BY <1>9 DEF First, Is, Listing
      <3>7. r \in Due(c, request[c]) <=>
              /\ "run.json" \in Found(c, r)
              /\ request[c].target = Unset \/ Stands(request[c].target, lab.target[r])
              /\ request[c].seed = Unset \/ ("params.json" \in Found(c, r) /\ lab.seed[r] = request[c].seed)
        BY <1>9, <3>6, DueIs
      <3> QED  BY <3>1, <3>3, <3>4, <3>5, <3>7
    <2>4. Due(c, request[c]) \subseteq Steady(c)
      BY <1>9, DueIs
    <2>5. Verdict(c) = "done" /\ ~Is(c, {"compare"})
      BY <1>9 DEF Verdict, Is
    <2> QED  BY <1>2, <1>3, <1>6, <2>2, <2>3, <2>4, <2>5 DEF ReaderInv, SoundScan, Reading
  <1>10. CASE Is(c, {"migrate"})
    <2>1. rows'[c] = Plan(c)
      BY <1>10 DEF Finish, ScanTypeOK, Is
    <2>2. \A row \in Plan(c) : row \in rows[c] \/ (row.run = 0 /\ registry \notin {"none", "current"})
      BY DEF Plan
    <2>3. 0 \notin Runs
      BY ScanAssumption
    <2>4. Exact(c)'
      BY <1>2, <1>4, <1>5, <2>1, <2>2, <2>3 DEF Exact
    <2>5. Reported(c)' \cap Steady(c) = Reported(c) \cap Steady(c)
      BY <1>5, <2>1, <2>2, <2>3 DEF Reported, Plan
    <2>6. Due(c, request[c]) = Reported(c) \cap Steady(c)
      BY <1>1, <1>4, <1>10, DueIs DEF Is
    <2>7. Verdict(c) = MigrateVerdict(c) /\ ~Is(c, {"compare"})
      BY <1>10 DEF Verdict, Is
    <2>8. lab \in Labs /\ registry \in {lab.registry, "none"} /\ DOMAIN lab.version = Runs
      BY LabAssumption DEF ScanTypeOK
    <2>9. ASSUME ~Supported(c)
          PROVE  "unversioned" \in Range(lab.version) \cup {lab.registry}
      <3>1. PICK row \in Plan(c) : VersionOf(row) = "unversioned"
        BY <2>9 DEF Supported
      <3> QED  BY <1>5, <2>2, <2>8, <3>1 DEF VersionOf, Range
    <2>10. MigrateVerdict(c) = "failed" =>
             \/ "torn" \in Range(lab.version) \cup {lab.registry}
             \/ request[c].apply /\ "unversioned" \in Range(lab.version) \cup {lab.registry}
      BY <2>8, <2>9 DEF MigrateVerdict
    <2> QED  BY <1>1, <1>2, <1>3, <1>6, <1>10, <2>4, <2>5, <2>6, <2>7, <2>10 DEF ReaderInv, SoundScan, Reading, Is, Ended
  <1>11. CASE Is(c, {"reproducibility"})
    <2>1. Due(c, request[c]) = Reported(c) \cap Steady(c)
      BY <1>1, <1>4, <1>11, DueIs DEF Is
    <2>2. Reported(c)' = Reported(c) /\ Exact(c)'
      BY <1>1, <1>2, <1>4, <1>7, <1>11, ReportedSame DEF Exact, Is
    <2>3. Verdict(c) \in {"done", "passed"} /\ ~Is(c, {"compare"})
      BY <1>11 DEF Verdict, ReproducibilityVerdict, Is
    <2> QED  BY <1>2, <1>3, <1>6, <2>1, <2>2, <2>3 DEF ReaderInv, SoundScan, Reading
  <1>12. CASE Is(c, {"compare"})
    <2>1. Due(c, request[c]) = Reported(c) \cap Steady(c)
      BY <1>1, <1>4, <1>12, DueIs DEF Is
    <2>2. Reported(c)' = Reported(c) /\ Exact(c)'
      BY <1>1, <1>2, <1>4, <1>7, <1>12, ReportedSame DEF Exact, Is
    <2>3. Verdict(c) = CompareVerdict(c)
      BY <1>12 DEF Verdict, Is
    <2>4. ASSUME Undisturbed(c)  PROVE Measured(c) = Due(c, request[c])
      <3>1. Reported(c) \subseteq Steady(c)
        BY <1>4, <1>5, <2>4 DEF Steady, Undisturbed, Reported
      <3>2. \A row \in rows[c] : "metrics_summary.json" \in row.found
        BY <1>1, <1>4, <1>12, <3>1 DEF Exact, Reported, Again, Is
      <3>3. Measured(c) = Reported(c)
        BY <3>2 DEF Measured, Reported
      <3> QED  BY <2>1, <3>1, <3>3
    <2>5. ASSUME Undisturbed(c)
          PROVE  /\ CompareVerdict(c) = "failed" => Cardinality(Due(c, request[c])) < 2
                 /\ request[c].threshold # Unset /\ CompareVerdict(c) \in {"done", "passed"} =>
                      (CompareVerdict(c) = "passed" <=> Drift(c) <= request[c].threshold)
      BY <2>4, <2>5 DEF CompareVerdict, Drift
    <2> QED  BY <1>1, <1>2, <1>3, <1>6, <1>12, <2>1, <2>2, <2>3, <2>5 DEF ReaderInv, SoundScan, Reading, Ended, Is
  <1> QED  BY <1>8, <1>9, <1>10, <1>11, <1>12 DEF Is, Readers

LEMMA ReaderStep ==
  ASSUME ScanTypeOK, ScanTypeOK', \A d \in Scanners : PhaseOK(d), NEW c \in Scanners, ReaderInv(c), [ScanNext]_scanVars
  PROVE  ReaderInv(c)'
  <1>1. CASE Outside(c)
    BY <1>1, ReaderOutside
  <1>2. ASSUME NEW q \in lab.asked[c], Ask(c, q)  PROVE ReaderInv(c)'
    BY <1>2, ReaderAsks
  <1>3. CASE Scan(c) /\ Is(c, Readers)
    <2>1. PhaseOK(c) /\ request[c].kind \in Readers
      BY <1>3 DEF Is
    <2>2. phase[c] \notin {"remove", "unlink"}
      BY <2>1 DEF PhaseOK, Is, Readers
    <2>3. ~RemoveFiles(c) /\ ~RemoveDirectory(c) /\ ~Die(c)
      BY <2>2 DEF RemoveFiles, RemoveDirectory, Die
    <2> QED  BY <1>3, <2>3, ReaderVisit, ReaderReads, ReaderTurns, ReaderFinishes DEF Scan
  <1>4. CASE Scan(c) /\ ~Is(c, Readers)
    <2>1. request'[c] = request[c]
      BY <1>4, OwnStart
    <2> QED  BY <1>4, <2>1 DEF ReaderInv, Is
  <1> QED  BY <1>1, <1>2, <1>3, <1>4, Bystander DEF Own

-----------------------------------------------------------------------------
(* The removers.                                                           *)

\* What is old depends on what was asked, and on how it began.
LEMMA SameAge ==
  ASSUME NEW c, request'[c] = request[c], began'[c].at = began[c].at,
         began'[c].dir = began[c].dir, began'[c].touched = began[c].touched
  PROVE  /\ Old(c)' = Old(c) /\ (Timed(c)' <=> Timed(c))
         /\ \A r : Judged(c, r)' <=> Judged(c, r)
         /\ \A kinds : Is(c, kinds)' <=> Is(c, kinds)
  <1>1. Old(c)' = Old(c)
    BY DEF Old
  <1>2. Timed(c)' <=> Timed(c)
    BY DEF Timed, Is
  <1>3. \A r : Judged(c, r)' <=> Judged(c, r)
    BY <1>1 DEF Judged
  <1> QED  BY <1>1, <1>2, <1>3 DEF Is

LEMMA RemoverOutside ==
  ASSUME ScanTypeOK, ScanTypeOK', NEW c \in Scanners, RemoverInv(c), Outside(c)
  PROVE  RemoverInv(c)'
  <1> SUFFICES ASSUME phase'[c] # "off"  PROVE RemoverInv(c)'
    BY DEF RemoverInv
  <1>1. /\ phase'[c] = phase[c] /\ request'[c] = request[c] /\ cutoff'[c] = cutoff[c] /\ removed'[c] = removed[c]
        /\ Reported(c)' = Reported(c) /\ \A phases : Taken(c, phases)' = Taken(c, phases)
    BY ReportedSame DEF Outside, Taken
  <1>2. /\ began'[c].at = began[c].at /\ began'[c].dir = began[c].dir /\ began'[c].touched = began[c].touched
        /\ Undisturbed(c)' => Undisturbed(c)
    <2>1. began[c] \in Beginnings
      BY DEF ScanTypeOK
    <2>2. began'[c] = [began[c] EXCEPT !.still = began'[c].still] /\ began'[c].still \subseteq began[c].still
      BY DEF Outside, SameStart
    <2>3. began'[c].at = began[c].at /\ began'[c].dir = began[c].dir /\ began'[c].touched = began[c].touched
      BY <2>1, <2>2 DEF Beginnings
    <2>4. began[c].still \subseteq Runs
      BY <2>1 DEF Beginnings
    <2> QED  BY <2>2, <2>3, <2>4 DEF Undisturbed
  <1>3. /\ Old(c)' = Old(c) /\ (Timed(c)' <=> Timed(c)) /\ \A r : Judged(c, r)' <=> Judged(c, r)
        /\ \A kinds : Is(c, kinds)' <=> Is(c, kinds)
    BY <1>1, <1>2, SameAge
  <1>4. ASSUME Is(c, {"prune", "clean"}), Undisturbed(c)', phase'[c] \in Removing  PROVE Alone(c)'
    <2>1. Alone(c) /\ c \in UnderWay
      BY <1>1, <1>2, <1>4 DEF RemoverInv, UnderWay, Removing
    <2>2. \A r \in Runs : (r \in dir' <=> r \in dir) /\ touched'[r] = touched[r] /\ (r \in todo'[c] <=> r \in todo[c])
      BY <1>4, <2>1 DEF Outside, Undisturbed
    <2>3. dir' = dir /\ touched' = touched /\ todo'[c] = todo[c]
      BY <2>2 DEF ScanTypeOK
    <2> QED  BY <1>1, <1>2, <1>3, <2>1, <2>3 DEF Alone
  <1>5. ASSUME Is(c, {"prune", "clean"}), Undisturbed(c)', phase'[c] = "done"  PROVE AloneDone(c)'
    <2>1. AloneDone(c)
      BY <1>1, <1>2, <1>5 DEF RemoverInv
    <2> QED  BY <1>1, <1>2, <1>3, <2>1 DEF AloneDone
  <1> QED  BY <1>1, <1>2, <1>3, <1>4, <1>5 DEF RemoverInv

LEMMA RemoverAsks ==
  ASSUME ScanTypeOK, \A d \in Scanners : PhaseOK(d), NEW c \in Scanners, NEW q \in lab.asked[c], Ask(c, q)
  PROVE  RemoverInv(c)'
  <1>1. /\ phase[c] = "off" /\ rows[c] = {} /\ rows' = rows /\ removed[c] = {} /\ removed' = removed
        /\ request'[c] = q /\ dir' = dir /\ touched' = touched
    BY DEF Ask, PhaseOK, ScanTypeOK, treeVars
  <1>2. began'[c] = [at |-> now, dir |-> dir, files |-> files, touched |-> touched, still |-> Runs]
    BY DEF Ask, ScanTypeOK
  <1>3. began'[c].dir = dir /\ began'[c].at = now /\ began'[c].touched = touched
    BY <1>2
  <1>4. \/ phase'[c] = "failed"
        \/ phase'[c] = "scan" /\ todo'[c] = dir /\ cutoff'[c] = CutoffOf(q) /\ ~Refuses(q)
    BY DEF Ask, ScanTypeOK
  <1>5. Reported(c)' = {} /\ \A phases \in {{"remove", "unlink"}, {"remove"}, {"unlink"}} : Taken(c, phases)' = {}
    BY <1>1, <1>4 DEF Reported, Taken
  <1>6. ASSUME Timed(c)', phase'[c] = "scan"  PROVE cutoff'[c] = began'[c].at - Product(request'[c].older)
    <2>1. q.kind = "prune" /\ q.older # Unset /\ ~Overflows(q.older)
      BY <1>1, <1>6 DEF Timed, Is
    <2>2. q.older.amount \in Nat /\ q.older.unit \in DOMAIN UnitSeconds
      BY <2>1, RequestAssumption DEF ScanTypeOK
    <2>3. Seconds(q.older) = Product(q.older)
      BY <2>1, <2>2, Durations
    <2> QED  BY <1>1, <1>3, <1>4, <1>6, <2>1, <2>3 DEF CutoffOf
  <1>7. ASSUME phase'[c] = "scan"  PROVE Alone(c)'
    <2>1. Old(c)' \subseteq dir
      BY <1>3 DEF Old
    <2> QED  BY <1>1, <1>3, <1>4, <1>5, <1>7, <2>1 DEF Alone
  <1> QED  BY <1>1, <1>4, <1>5, <1>6, <1>7 DEF RemoverInv, Removing

\* A command that is no remover takes nothing.
LEMMA NoRemover ==
  ASSUME ScanTypeOK, \A d \in Scanners : PhaseOK(d), NEW c \in Scanners, PhaseOK(c)', RemoverInv(c), Scan(c),
         ~Is(c, {"prune", "clean"})
  PROVE  RemoverInv(c)'
  <1>1. request'[c] = request[c] /\ phase[c] # "off"
    BY OwnStart DEF Reading, Removing
  <1>2. ~Is(c, {"prune", "clean"})' /\ ~Timed(c)'
    BY <1>1 DEF Is, Timed
  <1>3. removed[c] = {} /\ phase[c] # "remove"
    BY <1>1 DEF RemoverInv, PhaseOK
  <1>4. removed'[c] = {}
    BY <1>3 DEF Scan, Visit, Measure, Summarise, Look, Judge, Sweep, Pass, Keep, TakeUp, GiveUp,
                Read, RemoveFiles, RemoveDirectory, Second, ReadMeasure, Finish, Die
  <1>5. Taken(c, {"remove", "unlink"})' = {}
    BY <1>2 DEF PhaseOK, Taken
  <1> QED  BY <1>2, <1>4, <1>5 DEF RemoverInv

\* What a step of a remover keeps: its start, and so what is old.
LEMMA RemoverStays ==
  ASSUME ScanTypeOK, \A d \in Scanners : PhaseOK(d), NEW c \in Scanners, RemoverInv(c), Scan(c),
         Is(c, {"prune", "clean"})
  PROVE  /\ request'[c] = request[c] /\ began'[c] = began[c] /\ touched' = touched /\ cutoff'[c] = cutoff[c]
         /\ phase[c] \in Removing /\ Undisturbed(c) => Alone(c)
         /\ phase[c] \in Removing /\ phase[c] # "off"
         /\ Undisturbed(c)' <=> Undisturbed(c)
         /\ Old(c)' = Old(c) /\ (Timed(c)' <=> Timed(c)) /\ \A r : Judged(c, r)' <=> Judged(c, r)
         /\ \A kinds : Is(c, kinds)' <=> Is(c, kinds)
  <1>1. request'[c] = request[c] /\ began'[c] = began[c] /\ touched' = touched /\ cutoff'[c] = cutoff[c]
        /\ phase[c] \in Reading \cup Removing
    BY OwnStart
  <1>2. phase[c] \in Removing
    BY <1>1 DEF Reading, Removing, PhaseOK, Is
  <1> QED  BY <1>1, <1>2, SameAge DEF RemoverInv, Undisturbed, Removing

\* The next directory is judged, or swept.
LEMMA RemoverVisit ==
  ASSUME ScanTypeOK, TimeOK, \A d \in Scanners : PhaseOK(d), NEW c \in Scanners, RemoverInv(c), Scan(c),
         Is(c, {"prune", "clean"}), NEW v \in Runs, Visit(c, v)
  PROVE  RemoverInv(c)'
  <1>1. /\ request'[c] = request[c] /\ began'[c] = began[c] /\ touched' = touched /\ cutoff'[c] = cutoff[c]
        /\ Undisturbed(c) => Alone(c)
        /\ Undisturbed(c)' <=> Undisturbed(c)
        /\ Old(c)' = Old(c) /\ (Timed(c)' <=> Timed(c)) /\ \A r : Judged(c, r)' <=> Judged(c, r)
        /\ \A kinds : Is(c, kinds)' <=> Is(c, kinds)
    BY RemoverStays
  <1>2. /\ phase[c] = "scan" /\ v \in todo[c] /\ dir' = dir
        /\ \A phases \in {{"remove", "unlink"}, {"remove"}, {"unlink"}} : Taken(c, phases) = {}
    BY DEF Visit, treeVars, Taken
  <1>3. /\ DOMAIN phase = Scanners /\ DOMAIN todo = Scanners /\ DOMAIN doing = Scanners /\ DOMAIN rows = Scanners
        /\ lab \in Labs /\ request[c] \in lab.asked[c] /\ PhaseOK(c)
    BY <1>2 DEF ScanTypeOK, PhaseOK
  <1>4. Undisturbed(c) => v \in dir /\ v \in began[c].dir /\ v \notin removed[c]
    BY <1>1, <1>2 DEF Alone
  <1>5. removed'[c] = removed[c]
    BY <1>2 DEF Visit, Summarise, Look, Judge, Sweep, Pass, Keep, TakeUp, GiveUp
  <1>6. Timed(c) => cutoff[c] = began[c].at - Product(request[c].older) /\ Product(request[c].older) \in Nat
    <2>1. Timed(c) => request[c].older.amount \in Nat /\ request[c].older.unit \in DOMAIN UnitSeconds
      BY <1>3, RequestAssumption DEF Timed, Is
    <2> QED  BY <1>2, <2>1, Durations DEF RemoverInv, Removing
  <1>7. \A r \in Runs : /\ touched[r] \in Nat /\ began[c].touched[r] \in Nat /\ began[c].touched[r] <= touched[r]
                        /\ r \in dir \ began[c].dir => began[c].at <= touched[r]
                        /\ began[c].at \in Nat
    <2>1. began[c] \in Beginnings /\ touched \in [Runs -> Nat] /\ TimeOf(c)
      BY <1>2 DEF TimeOK, ScanTypeOK
    <2> QED  BY <2>1 DEF TimeOf, Beginnings
  <1>8. ASSUME GiveUp(c)  PROVE RemoverInv(c)'
    <2>1. phase'[c] = "failed" /\ Taken(c, {"remove", "unlink"})' = {}
      BY <1>3, <1>8 DEF GiveUp, Taken
    <2> QED  BY <1>1, <1>2, <1>5, <2>1 DEF RemoverInv, Removing
  <1>9. ASSUME Pass(c, v), Undisturbed(c) /\ Timed(c) => v \notin Old(c) \/ v \notin dir,
               Is(c, {"clean"}) /\ request[c].force => v \notin dir
        PROVE  RemoverInv(c)'
    <2>1. phase'[c] = "scan" /\ todo'[c] = todo[c] \ {v} /\ rows'[c] = rows[c]
      BY <1>2, <1>3, <1>9 DEF Pass
    <2>2. \A phases \in {{"remove", "unlink"}, {"remove"}, {"unlink"}} : Taken(c, phases)' = {}
      BY <2>1 DEF Taken
    <2>3. Reported(c)' = Reported(c)
      BY <2>1, ReportedSame
    <2>4. ASSUME Undisturbed(c)  PROVE Alone(c)'
      BY <1>1, <1>2, <1>4, <1>5, <1>9, <2>1, <2>2, <2>3, <2>4 DEF Alone
    <2> QED  BY <1>1, <1>2, <1>5, <2>1, <2>2, <2>4 DEF RemoverInv, Removing
  <1>10. ASSUME Keep(c, v), Is(c, {"prune"}), request[c].dry, Undisturbed(c) /\ Timed(c) => v \in Old(c)
         PROVE  RemoverInv(c)'
    <2>0. Row(v).run = v
      BY DEF Row
    <2>1. phase'[c] = "scan" /\ todo'[c] = todo[c] \ {v} /\ rows'[c] = rows[c] \cup {Row(v)}
      BY <1>2, <1>3, <1>10 DEF Keep
    <2>2. \A phases \in {{"remove", "unlink"}, {"remove"}, {"unlink"}} : Taken(c, phases)' = {}
      BY <2>1 DEF Taken
    <2>3. Reported(c)' = Reported(c) \cup {v}
      BY <2>0, <2>1, ReportedMore
    <2>4. ~Is(c, {"clean"})
      BY <1>10 DEF Is
    <2>5. ASSUME Undisturbed(c)  PROVE Alone(c)'
      BY <1>1, <1>2, <1>4, <1>5, <1>10, <2>1, <2>2, <2>3, <2>4, <2>5 DEF Alone
    <2> QED  BY <1>1, <1>2, <1>5, <2>1, <2>2, <2>5 DEF RemoverInv, Removing
  <1>11. ASSUME TakeUp(c, v, "remove"), request[c].force, Is(c, {"prune"}) => ~request[c].dry,
                Timed(c) => Judged(c, v), Undisturbed(c) /\ Timed(c) => v \in Old(c)
         PROVE  RemoverInv(c)'
    <2>0. Row(v).run = v
      BY DEF Row
    <2>1. phase'[c] = "remove" /\ todo'[c] = todo[c] \ {v} /\ rows'[c] = rows[c] /\ doing'[c].run = v
      BY <1>2, <1>3, <1>11, <2>0 DEF TakeUp
    <2>2. Taken(c, {"remove", "unlink"})' = {v} /\ Taken(c, {"remove"})' = {v} /\ Taken(c, {"unlink"})' = {}
      BY <2>1 DEF Taken
    <2>3. Reported(c)' = Reported(c)
      BY <2>1, ReportedSame
    <2>4. ASSUME Undisturbed(c)  PROVE Alone(c)'
      BY <1>1, <1>2, <1>4, <1>5, <1>11, <2>1, <2>2, <2>3, <2>4 DEF Alone
    <2> QED  BY <1>1, <1>2, <1>5, <1>11, <2>1, <2>2, <2>4 DEF RemoverInv, Removing
  <1>12. CASE Judge(c, v)
    <2>1. Is(c, {"prune"}) /\ ~Is(c, {"clean"})
      BY <1>12 DEF Judge, Is
    <2>2. ~Refuses(request[c]) /\ request[c].dry \in BOOLEAN /\ request[c].force \in BOOLEAN
      BY <1>2, <1>3, <2>1, RequestAssumption DEF PhaseOK, Is
    <2>3. request[c].dry \/ request[c].force
      BY <2>1, <2>2 DEF Refuses, GcRefuses, Is
    <2>4. CASE v \notin dir
      BY <1>8, <1>9, <1>12, <2>1, <2>4 DEF Judge
    <2>5. CASE v \in dir /\ touched[v] > cutoff[c]
      <3>1. Undisturbed(c) /\ Timed(c) => v \notin Old(c)
        BY <1>1, <1>6, <1>7, <2>5 DEF Alone, Old
      <3> QED  BY <1>9, <1>12, <2>1, <2>5, <3>1 DEF Judge
    <2>6. CASE v \in dir /\ ~(touched[v] > cutoff[c])
      <3>1. Timed(c) => Judged(c, v)
        BY <1>6, <1>7, <2>6 DEF Judged, Old
      <3>2. Undisturbed(c) /\ Timed(c) => v \in Old(c)
        BY <1>4, <1>6, <1>7, <2>6 DEF Old
      <3>3. CASE request[c].dry
        BY <1>10, <1>12, <2>1, <2>6, <3>2, <3>3 DEF Judge
      <3>4. CASE ~request[c].dry
        BY <1>11, <1>12, <2>3, <2>6, <3>1, <3>2, <3>4 DEF Judge
      <3> QED  BY <3>3, <3>4
    <2> QED  BY <2>4, <2>5, <2>6
  <1>13. CASE Sweep(c, v)
    <2>1. Is(c, {"clean"}) /\ ~Is(c, {"prune"}) /\ ~Timed(c)
      BY <1>13 DEF Sweep, Is, Timed
    <2> QED  BY <1>9, <1>11, <1>13, <2>1 DEF Sweep
  <1> QED  BY <1>12, <1>13 DEF Visit, Summarise, Look, Is, Listing

\* Its files go, then the directory.
LEMMA RemoverRemoves ==
  ASSUME ScanTypeOK, \A d \in Scanners : PhaseOK(d), NEW c \in Scanners, RemoverInv(c), Scan(c),
         Is(c, {"prune", "clean"}), RemoveFiles(c) \/ RemoveDirectory(c) \/ Die(c)
  PROVE  RemoverInv(c)'
  <1> DEFINE v == doing[c].run
  <1>1. /\ request'[c] = request[c] /\ began'[c] = began[c] /\ touched' = touched /\ cutoff'[c] = cutoff[c]
        /\ Undisturbed(c) => Alone(c)
        /\ Undisturbed(c)' <=> Undisturbed(c)
        /\ Old(c)' = Old(c) /\ (Timed(c)' <=> Timed(c)) /\ \A r : Judged(c, r)' <=> Judged(c, r)
        /\ \A kinds : Is(c, kinds)' <=> Is(c, kinds)
    BY RemoverStays
  <1>2. phase[c] \in {"remove", "unlink"} /\ todo' = todo
    BY DEF RemoveFiles, RemoveDirectory, Die
  <1>3. /\ DOMAIN phase = Scanners /\ DOMAIN removed = Scanners /\ DOMAIN doing = Scanners /\ DOMAIN rows = Scanners
        /\ v \in Runs
    BY <1>2 DEF ScanTypeOK, PhaseOK
  <1>4. Taken(c, {"remove", "unlink"}) = {v}
    BY <1>2 DEF Taken
  <1>5. /\ request[c].force /\ (Is(c, {"prune"}) => ~request[c].dry)
        /\ Timed(c) => Judged(c, v) /\ \A r \in removed[c] : Judged(c, r)
        /\ Timed(c) => cutoff[c] = began[c].at - Product(request[c].older)
    BY <1>2, <1>4 DEF RemoverInv, Removing
  <1>6. ASSUME phase'[c] = "failed"  PROVE RemoverInv(c)'
    <2>1. removed'[c] = removed[c] /\ Taken(c, {"remove", "unlink"})' = {}
      BY <1>3, <1>6 DEF RemoveFiles, RemoveDirectory, Die, Taken
    <2> QED  BY <1>1, <1>5, <1>6, <2>1 DEF RemoverInv, Removing
  <1>7. CASE RemoveFiles(c) /\ phase'[c] # "failed"
    <2>1. v \in dir /\ phase[c] = "remove" /\ phase'[c] = "unlink" /\ removed'[c] = removed[c] \cup {v} /\ dir' = dir
          /\ rows'[c] = rows[c] /\ doing' = [doing EXCEPT ![c].found = files'[v]]
      BY <1>3, <1>7 DEF RemoveFiles
    <2>2. doing'[c].run = v
      <3>1. doing[c] \in RunRows
        BY <1>3, ScanAssumption DEF ScanTypeOK, Ghost
      <3>2. \A f : [doing[c] EXCEPT !.found = f].run = v
        BY <3>1 DEF RunRows
      <3>3. doing'[c] = [doing[c] EXCEPT !.found = files'[v]]
        BY <1>3, <2>1
      <3> QED  BY <3>2, <3>3
    <2>3. /\ Taken(c, {"remove", "unlink"})' = {v} /\ Taken(c, {"remove"})' = {} /\ Taken(c, {"unlink"})' = {v}
          /\ Taken(c, {"remove"}) = {v} /\ Taken(c, {"unlink"}) = {}
      BY <2>1, <2>2 DEF Taken
    <2>4. Reported(c)' = Reported(c)
      BY <2>1, ReportedSame
    <2>5. ASSUME Undisturbed(c)  PROVE Alone(c)'
      BY <1>1, <1>2, <1>4, <1>5, <2>1, <2>3, <2>4, <2>5 DEF Alone
    <2> QED  BY <1>1, <1>5, <2>1, <2>3, <2>5 DEF RemoverInv, Removing
  <1>8. CASE RemoveDirectory(c) /\ phase'[c] # "failed"
    <2>1. /\ phase[c] = "unlink" /\ phase'[c] = "scan" /\ removed'[c] = removed[c] /\ dir' = dir \ {v}
          /\ rows'[c] = rows[c] \cup {[run |-> v, found |-> {}]}
      BY <1>3, <1>8 DEF RemoveDirectory
    <2>2. /\ \A phases \in {{"remove", "unlink"}, {"remove"}, {"unlink"}} : Taken(c, phases)' = {}
          /\ Taken(c, {"remove"}) = {} /\ Taken(c, {"unlink"}) = {v}
      BY <2>1 DEF Taken
    <2>3. Reported(c)' = Reported(c) \cup {v}
      <3>1. [run |-> v, found |-> {}].run = v
        OBVIOUS
      <3> QED  BY <2>1, <3>1, ReportedMore
    <2>4. ASSUME Undisturbed(c)  PROVE Alone(c)'
      BY <1>1, <1>2, <1>4, <1>5, <2>1, <2>2, <2>3, <2>4 DEF Alone
    <2> QED  BY <1>1, <1>5, <2>1, <2>2, <2>4 DEF RemoverInv, Removing
  <1>9. Die(c) => phase'[c] = "failed"
    BY <1>3 DEF Die
  <1> QED  BY <1>6, <1>7, <1>8, <1>9

LEMMA RemoverFinishes ==
  ASSUME ScanTypeOK, \A d \in Scanners : PhaseOK(d), NEW c \in Scanners, RemoverInv(c), Scan(c),
         Is(c, {"prune", "clean"}), Finish(c)
  PROVE  RemoverInv(c)'
  <1>1. /\ request'[c] = request[c] /\ began'[c] = began[c]
        /\ Undisturbed(c) => Alone(c)
        /\ Undisturbed(c)' <=> Undisturbed(c)
        /\ Old(c)' = Old(c) /\ (Timed(c)' <=> Timed(c)) /\ \A r : Judged(c, r)' <=> Judged(c, r)
        /\ \A kinds : Is(c, kinds)' <=> Is(c, kinds)
    BY RemoverStays
  <1>2. todo[c] = {} /\ phase[c] = "scan" /\ removed' = removed
    BY DEF Finish, Is
  <1>3. rows'[c] = rows[c] /\ phase'[c] = Verdict(c) /\ Verdict(c) \in Ended
    BY Verdicts DEF Finish, ScanTypeOK, Is
  <1>4. \A phases \in {{"remove", "unlink"}, {"remove"}, {"unlink"}} : Taken(c, phases)' = {} /\ Taken(c, phases) = {}
    BY <1>2, <1>3 DEF Taken, Ended
  <1>5. Reported(c)' = Reported(c)
    BY <1>3, ReportedSame
  <1>6. ASSUME Undisturbed(c)  PROVE AloneDone(c)'
    <2>1. /\ Timed(c) => Reported(c) = Old(c) /\ (~request[c].dry => removed[c] = Old(c))
          /\ Is(c, {"clean"}) /\ request[c].force => removed[c] = began[c].dir
      BY <1>1, <1>2, <1>4, <1>6 DEF Alone
    <2> QED  BY <1>1, <1>2, <1>5, <2>1 DEF AloneDone
  <1> QED  BY <1>1, <1>2, <1>3, <1>4, <1>6 DEF RemoverInv, Removing, Ended

LEMMA RemoverStep ==
  ASSUME ScanTypeOK, ScanTypeOK', TimeOK, \A d \in Scanners : PhaseOK(d), NEW c \in Scanners, PhaseOK(c)',
         RemoverInv(c), [ScanNext]_scanVars
  PROVE  RemoverInv(c)'
  <1>1. CASE Outside(c)
    BY <1>1, RemoverOutside
  <1>2. ASSUME NEW q \in lab.asked[c], Ask(c, q)  PROVE RemoverInv(c)'
    BY <1>2, RemoverAsks
  <1>3. CASE Scan(c) /\ ~Is(c, {"prune", "clean"})
    BY <1>3, NoRemover
  <1>4. CASE Scan(c) /\ Is(c, {"prune", "clean"})
    <2>1. PhaseOK(c) /\ request[c].kind \in {"prune", "clean"}
      BY <1>4 DEF Is
    <2>2. phase[c] \notin {"read", "second", "measure"} /\ ~Is(c, {"compare", "reproducibility"})
      BY <2>1 DEF PhaseOK, Is
    <2>3. ~Read(c) /\ ~Second(c) /\ ~ReadMeasure(c) /\ \A r \in Runs : ~Measure(c, r)
      BY <2>2 DEF Read, Second, ReadMeasure, Measure
    <2> QED  BY <1>4, <2>3, RemoverVisit, RemoverRemoves, RemoverFinishes DEF Scan
  <1> QED  BY <1>1, <1>2, <1>3, <1>4, Bystander DEF Own

-----------------------------------------------------------------------------
(* The theorems.                                                           *)

LEMMA ScanStarts == ScanInit => ScanInv
  <1> SUFFICES ASSUME ScanInit  PROVE ScanInv
    OBVIOUS
  <1>1. ScanTypeOK /\ TimeOK
    BY ScanTypeStart, TimeStart
  <1>2. ASSUME NEW c \in Scanners  PROVE PhaseOK(c) /\ ReaderInv(c) /\ RemoverInv(c)
    <2>1. phase[c] = "off"
      BY DEF ScanInit
    <2> QED  BY <2>1, PhaseStart DEF ReaderInv, RemoverInv
  <1> QED  BY <1>1, <1>2 DEF ScanInv

LEMMA ScanStep == ScanInv /\ [ScanNext]_scanVars => ScanInv'
  <1> SUFFICES ASSUME ScanInv, [ScanNext]_scanVars  PROVE ScanInv'
    OBVIOUS
  <1>1. ScanTypeOK /\ TimeOK /\ \A d \in Scanners : PhaseOK(d) /\ ReaderInv(d) /\ RemoverInv(d)
    BY DEF ScanInv
  <1>2. ScanTypeOK'
    BY <1>1, ScanTypeStep
  <1>3. TimeOK'
    BY <1>1, TimeStep
  <1>4. ASSUME NEW c \in Scanners  PROVE PhaseOK(c)' /\ ReaderInv(c)' /\ RemoverInv(c)'
    <2>1. PhaseOK(c)'
      BY <1>1, PhaseStep
    <2>2. ReaderInv(c)'
      BY <1>1, <1>2, ReaderStep
    <2>3. RemoverInv(c)'
      BY <1>1, <1>2, <2>1, RemoverStep
    <2> QED  BY <2>1, <2>2, <2>3
  <1> QED  BY <1>2, <1>3, <1>4 DEF ScanInv

LEMMA ScanInvariant == ScanSpec => []ScanInv
  BY ScanStarts, ScanStep, PTL DEF ScanSpec

\* Whatever runs are written and removed meanwhile, a command that goes through all runs
\* and succeeds has reported, of those that stayed as they were, exactly those it is
\* about; it fails, with none changed, for the reasons it should, and ci compare passes
\* exactly if it should.
THEOREM ScansAlwaysSound == ScanSpec => []ScansAreSound
  <1>1. ScanInv => ScansAreSound
    BY DEF ScanInv, ReaderInv, SoundScan, ScansAreSound
  <1> QED  BY <1>1, ScanInvariant, PTL

\* Only a forced gc or clean removes a run; gc none younger than asked for, in a dry run
\* none, and undisturbed exactly those that are old enough, which a dry run reports.
THEOREM RemovedAlwaysAsAsked == ScanSpec => []RemovedAsAsked
  <1>1. ASSUME ScanInv  PROVE RemovedAsAsked
    <2> SUFFICES ASSUME NEW c \in Scanners, phase[c] # "off"
                 PROVE  /\ removed[c] # {} => Is(c, {"prune", "clean"}) /\ request[c].force
                        /\ Is(c, {"prune"}) /\ request[c].dry => removed[c] = {}
                        /\ Timed(c) =>
                             /\ \A r \in removed[c] \ Old(c) : Product(request[c].older) = 0 /\ r \notin began[c].dir
                             /\ phase[c] = "done" /\ Undisturbed(c) =>
                                  Reported(c) = Old(c) /\ (~request[c].dry => removed[c] = Old(c))
                        /\ Is(c, {"clean"}) /\ phase[c] = "done" /\ Undisturbed(c) /\ request[c].force =>
                             removed[c] = began[c].dir
      BY DEF RemovedAsAsked, Timed
    <2>1. RemoverInv(c)!2
      BY <1>1 DEF ScanInv, RemoverInv
    <2>2. Timed(c) => Is(c, {"prune", "clean"})
      BY DEF Timed, Is
    <2>3. Is(c, {"clean"}) => Is(c, {"prune", "clean"})
      BY DEF Is
    <2> QED  BY <2>1, <2>2, <2>3 DEF Judged, AloneDone
  <1> QED  BY <1>1, ScanInvariant, PTL

=============================================================================
