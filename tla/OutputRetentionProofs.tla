------------------------ MODULE OutputRetentionProofs ------------------------
(***************************************************************************)
(* Proofs about OutputRetention, for any directories, files and passes.    *)
(* While the pointed directory is whole, a pass that found it keeps it, so *)
(* no pass, however late, has it among those to strip.                     *)
(*                                                                         *)
(* Without a pointer the choice is made on modification times, which every *)
(* pass changes.  It holds because a pass that ended leaves one directory  *)
(* at most (Applied), so the next one has no choice, and because while a   *)
(* single pass is at work what it found is what is there (Whole).          *)
(***************************************************************************)
EXTENDS OutputRetention, FiniteSetTheorems, WellFoundedInduction, TLAPS

\* The pass knows what to strip, and does not strip the pointed directory.
Spared(p) == pc[p] \in {"strip", "restage", "stage", "link"} /\ pointer \in found[p] => keeps[p] = pointer

PInv == /\ TypeOK
        /\ keep = "last" /\ pointer # NoDir =>
             /\ \A p \in Passes : Spared(p)
             /\ state[pointer] = had[pointer]

LEMMA InitInv == Init => PInv
<1> SUFFICES ASSUME Init PROVE PInv
  OBVIOUS
<1>1. Cardinality(Dirs) \in Nat /\ mtime \in [Dirs -> Nat]
  BY OutputAssumption, FS_CardinalityType DEF Init
<1> QED BY <1>1, OutputAssumption DEF Init, PInv, TypeOK, Spared

LEMMA TypeStep == TypeOK /\ [Next]_vars => TypeOK'
<1> SUFFICES ASSUME TypeOK, [Next]_vars PROVE TypeOK'
  OBVIOUS
<1> USE OutputAssumption DEF TypeOK, files, passes, given, Goto, Touch
<1>1. CASE UNCHANGED vars
  BY <1>1 DEF vars
<1>2. ASSUME NEW p \in Passes, Find(p) PROVE TypeOK'
  BY <1>2 DEF Find
<1>3. ASSUME NEW p \in Passes, Resolve(p) PROVE TypeOK'
  <2>1. \A d \in ResumeDir(found[p]) : d \in Dirs
    BY <1>3 DEF ResumeDir, Newest
  <2> QED BY <1>3, <2>1 DEF Resolve
<1>4. ASSUME NEW p \in Passes, NEW d \in Dirs, NEW f \in Files, StripFile(p, d, f)
      PROVE  TypeOK'
  BY <1>4 DEF StripFile
<1>5. ASSUME NEW p \in Passes, EndStrip(p) PROVE TypeOK'
  BY <1>5 DEF EndStrip
<1>6. ASSUME NEW p \in Passes, ReadLines(p) \/ WriteLines(p) PROVE TypeOK'
  <2>1. CASE ReadLines(p)
    BY <2>1 DEF ReadLines
  <2>2. CASE WriteLines(p)
    <3>1. lines[p] \in [Dirs -> SUBSET Files] /\ lines' \in [Passes -> [Dirs -> SUBSET Files]]
      BY <2>2 DEF WriteLines
    <3> QED BY <2>2, <3>1 DEF WriteLines
  <2> QED BY <1>6, <2>1, <2>2
<1>10. ASSUME NEW p \in Passes, NEW d \in Dirs, StageDir(p, d) PROVE TypeOK'
  <2>1. lines' \in [Passes -> [Dirs -> SUBSET Files]]
    BY <1>10 DEF StageDir
  <2> QED BY <1>10, <2>1 DEF StageDir
<1>7. ASSUME NEW p \in Passes, NEW d \in Dirs, Relink(p, d) PROVE TypeOK'
  BY <1>7 DEF Relink
<1>8. ASSUME NEW p \in Passes, EndPass(p) \/ RelinkFails(p) \/ Stop(p) PROVE TypeOK'
  <2>1. Leave(p) /\ events' \subseteq {"overlap", "rewrite", "stop"}
    BY <1>8 DEF EndPass, RelinkFails, Stop
  <2>2. /\ had' \in [Dirs -> SUBSET Files] /\ UNCHANGED <<pointer, keep>>
        /\ state' \in [Dirs -> SUBSET Files]
        /\ mtime' \in [Dirs -> Nat] /\ clock' \in Nat
        /\ staged' \in [Dirs -> SUBSET Files] /\ linked' \subseteq Dirs
    BY <2>1 DEF Leave
  <2>3. /\ pc' \in [Passes -> {"idle", "resolve", "strip", "restage", "stage", "link"}]
        /\ found' \in [Passes -> SUBSET Dirs]
        /\ keeps' \in [Passes -> Dirs \cup {NoDir}]
        /\ changed' \in [Passes -> SUBSET Dirs]
        /\ lines' \in [Passes -> [Dirs -> SUBSET Files]]
    BY <2>1 DEF Leave
  <2> QED BY <2>1, <2>2, <2>3
<1> HIDE DEF TypeOK, files, passes, given, Goto, Touch
<1>9. ASSUME NEW p \in Passes, Step(p) PROVE TypeOK'
  BY <1>3, <1>4, <1>5, <1>6, <1>7, <1>8, <1>9, <1>10 DEF Step
<1> QED BY <1>1, <1>2, <1>8, <1>9 DEF Next

LEMMA NextInv == PInv /\ [Next]_vars => PInv'
<1>0. ASSUME [Next]_vars PROVE UNCHANGED given
  BY <1>0 DEF vars, given, Next, Find, Step, Resolve, StripFile, EndStrip, ReadLines, StageDir,
              WriteLines, Relink, RelinkFails, EndPass, Stop, Leave, passes
<1> SUFFICES ASSUME PInv, [Next]_vars, keep = "last", pointer # NoDir
             PROVE  /\ \A q \in Passes : Spared(q)'
                    /\ state'[pointer] = had'[pointer]
  BY <1>0, TypeStep DEF PInv, given
<1> USE DEF PInv, TypeOK, files, passes, given, Goto, Spared
<1>1. CASE UNCHANGED vars
  BY <1>1 DEF vars
<1>2. ASSUME NEW p \in Passes, Find(p)
      PROVE  /\ \A q \in Passes : Spared(q)'
             /\ state'[pointer] = had'[pointer]
  BY <1>2 DEF Find
<1>3. ASSUME NEW p \in Passes, Resolve(p)
      PROVE  /\ \A q \in Passes : Spared(q)'
             /\ state'[pointer] = had'[pointer]
  <2>1. pointer \in found[p] => ResumeDir(found[p]) = {pointer}
    BY <1>3 DEF ResumeDir
  <2>2. pointer \in found[p] => keeps'[p] = pointer
    BY <1>3, <2>1 DEF Resolve
  <2>3. \A q \in Passes : q # p => keeps'[q] = keeps[q] /\ pc'[q] = pc[q]
    BY <1>3 DEF Resolve
  <2> QED BY <1>3, <2>2, <2>3 DEF Resolve
<1>4. ASSUME NEW p \in Passes, NEW d \in Dirs, NEW f \in Files, StripFile(p, d, f)
      PROVE  /\ \A q \in Passes : Spared(q)'
             /\ state'[pointer] = had'[pointer]
  <2>1. d # pointer
    BY <1>4 DEF StripFile, ToStrip
  <2> QED BY <1>4, <2>1, OutputAssumption DEF StripFile
<1>5. ASSUME NEW p \in Passes, EndStrip(p)
      PROVE  /\ \A q \in Passes : Spared(q)'
             /\ state'[pointer] = had'[pointer]
  BY <1>5 DEF EndStrip
<1>6. ASSUME NEW p \in Passes, \/ ReadLines(p) \/ WriteLines(p)
                              \/ \E d \in Dirs : StageDir(p, d)
      PROVE  /\ \A q \in Passes : Spared(q)'
             /\ state'[pointer] = had'[pointer]
  BY <1>6 DEF ReadLines, StageDir, WriteLines
<1>7. ASSUME NEW p \in Passes, NEW d \in Dirs, Relink(p, d)
      PROVE  /\ \A q \in Passes : Spared(q)'
             /\ state'[pointer] = had'[pointer]
  BY <1>7 DEF Relink
<1>8. ASSUME NEW p \in Passes, EndPass(p) \/ RelinkFails(p) \/ Stop(p)
      PROVE  /\ \A q \in Passes : Spared(q)'
             /\ state'[pointer] = had'[pointer]
  <2>1. Leave(p)
    BY <1>8 DEF EndPass, RelinkFails, Stop
  <2> QED BY <2>1 DEF Leave
<1> QED BY <1>1, <1>2, <1>3, <1>4, <1>5, <1>6, <1>7, <1>8 DEF Next, Step

\* Type correctness.
THEOREM TypeCorrect == Spec => []TypeOK
BY InitInv, TypeStep, PTL DEF Spec, PInv

\* The directory the resume pointer names keeps its resume-only files, with any
\* number of passes that overlap and stop anywhere.
THEOREM PointerAlwaysKept == Spec => []PointerKept
<1>1. PInv => PointerKept
  BY DEF PInv, PointerKept
<1> QED BY <1>1, InitInv, NextInv, PTL DEF Spec

-----------------------------------------------------------------------------
(* The policy: what is left when a pass has ended.                         *)

\* Files are only removed; a directory in which a pass found nothing has nothing, and
\* one it was to strip has nothing when it has stripped.
Applied(p) ==
  /\ pc[p] # "idle" => \A d \in Dirs \ found[p] : state[d] = {}
  /\ pc[p] \in {"restage", "stage", "link"} => \A d \in ToStrip(p) : state[d] = {}
  /\ keeps[p] # NoDir => keep = "last"

AllApplied == \A p \in Passes : Applied(p)

\* The state of the directories at most shrinks.
LEMMA Shrinks == TypeOK /\ [Next]_vars => \A d \in Dirs : state'[d] \subseteq state[d]
<1> SUFFICES ASSUME TypeOK, [Next]_vars PROVE \A d \in Dirs : state'[d] \subseteq state[d]
  OBVIOUS
<1>1. ASSUME NEW p \in Passes, NEW d \in Dirs, NEW f \in Files, StripFile(p, d, f)
      PROVE  \A e \in Dirs : state'[e] \subseteq state[e]
  BY <1>1 DEF StripFile, TypeOK
<1>2. ASSUME ~\E p \in Passes, d \in Dirs, f \in Files : StripFile(p, d, f)
      PROVE  UNCHANGED state
  BY <1>2 DEF vars, files, Next, Find, Step, Resolve, EndStrip, ReadLines, StageDir, WriteLines,
              Relink, RelinkFails, EndPass, Stop, Leave, passes
<1> QED BY <1>1, <1>2

\* A step of one pass leaves every other where it is.
LEMMA PassFrame == ASSUME TypeOK, NEW p \in Passes, Find(p) \/ Step(p) \/ Stop(p),
                          NEW q \in Passes, q # p
                   PROVE  /\ pc'[q] = pc[q] /\ found'[q] = found[q]
                          /\ keeps'[q] = keeps[q] /\ changed'[q] = changed[q]
BY DEF TypeOK, files, Find, Step, Resolve, StripFile, EndStrip, ReadLines, StageDir, WriteLines,
       Relink, RelinkFails, EndPass, Stop, Leave, Goto, passes

LEMMA GivenStays == [Next]_vars => UNCHANGED given
BY DEF vars, given, Next, Find, Step, Resolve, StripFile, EndStrip, ReadLines, StageDir, WriteLines,
       Relink, RelinkFails, EndPass, Stop, Leave, passes

LEMMA AppliedStep == TypeOK /\ AllApplied /\ [Next]_vars => AllApplied'
<1> SUFFICES ASSUME TypeOK, [Next]_vars, \A p \in Passes : Applied(p), NEW q \in Passes
             PROVE  Applied(q)'
  BY DEF AllApplied
<1>1. /\ \A d \in Dirs : state'[d] \subseteq state[d]
      /\ keep' = keep
  BY Shrinks, GivenStays DEF given
<1>2. ASSUME UNCHANGED <<pc, found, keeps>> PROVE Applied(q)'
  BY <1>1, <1>2 DEF Applied, ToStrip, TypeOK
<1>3. ASSUME NEW p \in Passes, p # q, Find(p) \/ Step(p) \/ Stop(p) PROVE Applied(q)'
  <2>1. pc'[q] = pc[q] /\ found'[q] = found[q] /\ keeps'[q] = keeps[q]
    BY <1>3, PassFrame
  <2> QED BY <1>1, <2>1 DEF Applied, ToStrip, TypeOK
<1> USE DEF Applied, ToStrip, TypeOK, Goto, passes
<1>4. CASE Find(q)
  BY <1>1, <1>4 DEF Find, files, given
<1>5. CASE Resolve(q)
  <2>1. keep = "none" => ResumeDir(found[q]) = {}
    BY DEF ResumeDir
  <2> QED BY <1>1, <1>5, <2>1 DEF Resolve, files, given
<1>6. ASSUME NEW d \in Dirs, NEW f \in Files, StripFile(q, d, f) PROVE Applied(q)'
  BY <1>2, <1>6 DEF StripFile
<1>7. CASE EndStrip(q)
  BY <1>1, <1>7 DEF EndStrip, files
<1>8. CASE ReadLines(q) \/ WriteLines(q) \/ \E d \in Dirs : StageDir(q, d)
  BY <1>1, <1>8 DEF ReadLines, StageDir, WriteLines
<1>9. ASSUME NEW d \in Dirs, Relink(q, d) PROVE Applied(q)'
  BY <1>2, <1>9 DEF Relink
<1>10. CASE EndPass(q) \/ RelinkFails(q) \/ Stop(q)
  BY <1>10 DEF EndPass, RelinkFails, Stop, Leave
<1>11. CASE UNCHANGED vars
  BY <1>2, <1>11 DEF vars
<1> QED BY <1>3, <1>4, <1>5, <1>6, <1>7, <1>8, <1>9, <1>10, <1>11 DEF Next, Step

LEMMA AppliedInv == Spec => [](TypeOK /\ AllApplied)
<1>1. Init => AllApplied
  BY DEF Init, AllApplied, Applied
<1> QED BY <1>1, AppliedStep, TypeCorrect, PTL DEF Spec

\* Whatever others did meanwhile, a pass that ends leaves what the policy allows.
THEOREM PolicyAlwaysApplied == Spec => PolicyApplied
<1>1. ASSUME TypeOK, AllApplied,
             NEW p \in Passes, EndPass(p), NEW d \in Dirs, state[d] # {}
      PROVE  d = keeps[p] /\ keep = "last"
  BY <1>1, OutputAssumption DEF EndPass, AllApplied, Applied, ToStrip, TypeOK
<1>2. TypeOK /\ AllApplied =>
        [\A p \in Passes : EndPass(p) =>
           \A d, e \in Dirs : state[d] # {} /\ state[e] # {} => d = e /\ keep = "last"]_vars
  BY <1>1
<1> QED BY <1>2, AppliedInv, PTL DEF Spec, PolicyApplied

-----------------------------------------------------------------------------
(* The store: the objects that the run names.                              *)

\* A pass has removed files from the directory, and has not staged it again yet.
Pending(d) == \E p \in Passes : d \in changed[p] /\ pc[p] \in {"strip", "restage", "stage"}

\* A line that differs from its directory, in the file or as the pass that is to write
\* the file has read it, is that of one to be staged again.  The last conjunct holds
\* of all passes, at any time.
Restaged ==
  /\ events \subseteq {"overlap"} =>
       /\ \A p, q \in Passes : pc[p] = "stage" /\ pc[q] = "stage" => p = q
       /\ \A d \in Saved :
            /\ (\A p \in Passes : pc[p] # "stage") => staged[d] = state[d] \/ Pending(d)
            /\ \A p \in Passes : pc[p] = "stage" => lines[p][d] = state[d] \/ Pending(d)
  /\ \A d \in Saved : /\ state[d] \subseteq staged[d]
                      /\ \A p \in Passes : pc[p] = "stage" => state[d] \subseteq lines[p][d]

\* A step that changes no directory, no line and none of the changed ones, and takes no
\* pass into or out of a rewrite unless it is stopped there.
LEMMA RestagedFrame ==
  ASSUME Restaged, UNCHANGED <<state, staged>>, events \subseteq events',
         \A d \in Saved : events' \subseteq {"overlap"} /\ Pending(d) => Pending(d)',
         \A q \in Passes : pc'[q] = "stage" => pc[q] = "stage" /\ lines'[q] = lines[q],
         \A q \in Passes : events' \subseteq {"overlap"} /\ pc[q] = "stage" => pc'[q] = "stage"
  PROVE  Restaged'
<1>1. events' \subseteq {"overlap"} => events \subseteq {"overlap"}
  OBVIOUS
<1> QED BY <1>1 DEF Restaged

LEMMA RestagedStep == ASSUME TypeOK, Restaged, [Next]_vars PROVE Restaged'
<1> USE OutputAssumption DEF Restaged, Pending, TypeOK, Goto, files, passes
<1>1. CASE UNCHANGED vars
  BY <1>1 DEF vars
<1>2. ASSUME NEW p \in Passes, Find(p) \/ Resolve(p) PROVE Restaged'
  <2>1. /\ pc[p] \in {"idle", "resolve"} /\ pc'[p] \in {"resolve", "strip"}
        /\ \A q \in Passes : q # p => pc'[q] = pc[q]
        /\ UNCHANGED <<files, changed, lines>> /\ events \subseteq events'
    BY <1>2 DEF Find, Resolve
  <2>2. \A d \in Saved : Pending(d) => Pending(d)'
    BY <2>1
  <2>3. \A q \in Passes : /\ pc'[q] = "stage" => pc[q] = "stage" /\ lines'[q] = lines[q]
                          /\ pc[q] = "stage" => pc'[q] = "stage"
    BY <2>1
  <2>4. UNCHANGED <<state, staged>>
    BY <2>1
  <2> HIDE DEF Restaged, Pending
  <2> QED BY <2>1, <2>2, <2>3, <2>4, RestagedFrame
<1>3. ASSUME NEW p \in Passes, NEW d \in Dirs, NEW f \in Files, StripFile(p, d, f)
      PROVE  Restaged'
  BY <1>3 DEF StripFile
<1>4. ASSUME NEW p \in Passes, EndStrip(p) PROVE Restaged'
  BY <1>4 DEF EndStrip
<1>5. ASSUME NEW p \in Passes, ReadLines(p) PROVE Restaged'
  BY <1>5 DEF ReadLines
<1>6. ASSUME NEW p \in Passes, NEW d \in Dirs, StageDir(p, d) PROVE Restaged'
  BY <1>6 DEF StageDir
<1>7. ASSUME NEW p \in Passes, WriteLines(p) PROVE Restaged'
  BY <1>7 DEF WriteLines
<1>8. ASSUME NEW p \in Passes, NEW d \in Dirs, Relink(p, d) PROVE Restaged'
  BY <1>8 DEF Relink
<1>9. ASSUME NEW p \in Passes, EndPass(p) \/ RelinkFails(p) \/ Stop(p) PROVE Restaged'
  <2>1. /\ Leave(p) /\ events \subseteq events'
        /\ events' \subseteq {"overlap"} => pc[p] = "link"
    BY <1>9 DEF EndPass, RelinkFails, Stop
  <2>2. /\ UNCHANGED files /\ pc'[p] = "idle"
        /\ \A q \in Passes : q # p => /\ pc'[q] = pc[q] /\ changed'[q] = changed[q]
                                      /\ lines'[q] = lines[q]
    BY <2>1 DEF Leave
  <2>3. \A d \in Saved : pc[p] = "link" /\ Pending(d) => Pending(d)'
    BY <2>2
  <2>4. /\ \A q \in Passes : pc'[q] = "stage" => pc[q] = "stage" /\ lines'[q] = lines[q]
        /\ \A q \in Passes : pc[p] = "link" /\ pc[q] = "stage" => pc'[q] = "stage"
    BY <2>2
  <2>5. UNCHANGED <<state, staged>>
    BY <2>2
  <2> HIDE DEF Restaged, Pending
  <2> QED BY <2>1, <2>3, <2>4, <2>5, RestagedFrame
<1> QED BY <1>1, <1>2, <1>3, <1>4, <1>5, <1>6, <1>7, <1>8, <1>9 DEF Next, Step

\* What artifacts.jsonl records of a saved directory never lacks a file it has, and is
\* what it has when no pass is at work, unless one was stopped or two rewrote the file
\* at the same time.
THEOREM StagedAlwaysFresh == Spec => []StagedFresh
<1>1. Init => Restaged
  BY OutputAssumption DEF Init, Restaged
<1>2. TypeOK /\ Restaged /\ [Next]_vars => Restaged'
  BY RestagedStep
<1>3. Restaged => StagedFresh
  BY DEF Restaged, Pending, StagedFresh
<1> QED BY <1>1, <1>2, <1>3, TypeCorrect, PTL DEF Spec

-----------------------------------------------------------------------------
(* What can be resumed from.                                               *)

Left == {d \in Dirs : state[d] # {}}

\* Between passes every directory is whole or empty, and one is whole if any ever was.
Sound == /\ \A d \in Left : state[d] = had[d]
         /\ Left = {} => \A d \in Dirs : had[d] = {}

\* A pass that stripped or is stripping keeps a whole directory, if it found any.
Keeping(p) == /\ found[p] # {} => /\ keeps[p] \in found[p]
                                  /\ had[keeps[p]] # {} /\ state[keeps[p]] = had[keeps[p]]
              /\ found[p] = {} => \A d \in Dirs : had[d] = {}

Alone == \A p, q \in Passes : pc[p] # "idle" /\ pc[q] # "idle" => p = q

Whole == /\ Alone
         /\ (\A p \in Passes : pc[p] # "strip") => Sound
         /\ \A p \in Passes : pc[p] = "resolve" => found[p] = Left
         /\ \A p \in Passes : pc[p] \in {"strip", "restage", "stage", "link"} => Keeping(p)

\* The modification times are all in the past.
Past == \A d \in Dirs : mtime[d] <= clock

WholeInv == Past /\ (keep = "last" /\ events = {} => Whole)

\* Among directories that are there one is the newest.
LEMMA NewestExists ==
  ASSUME TypeOK, Past, NEW S \in SUBSET Dirs, S # {}
  PROVE  Newest(S) # {}
<1> DEFINE R == OpToRel(<, Nat)
           Ages == {clock - mtime[d] : d \in S}
<1>1. Ages \subseteq Nat /\ Ages # {}
  BY DEF TypeOK, Past
<1>2. PICK x \in Ages : \A y \in Ages : ~ (<<y, x>> \in R)
  <2> HIDE DEF R, Ages
  <2>1. IsWellFoundedOn(R, Nat)
    BY NatLessThanWellFounded DEF R
  <2> QED BY <1>1, <2>1, WFMin
<1>3. PICK d \in S : x = clock - mtime[d]
  BY <1>2
<1>4. ASSUME NEW e \in S PROVE mtime[e] <= mtime[d]
  <2>1. clock - mtime[e] \in Ages
    OBVIOUS
  <2>2. clock - mtime[e] \in Nat /\ x \in Nat
    BY <1>1, <1>2, <2>1
  <2>3. ~(clock - mtime[e] < x)
    BY <1>2, <2>1, <2>2 DEF OpToRel
  <2> QED BY <1>3, <2>3 DEF TypeOK
<1> QED BY <1>4 DEF Newest

LEMMA PastStep == TypeOK /\ Past /\ [Next]_vars => Past'
<1> SUFFICES ASSUME TypeOK, Past, [Next]_vars PROVE Past'
  OBVIOUS
<1>1. ASSUME NEW d \in Dirs, Touch(d) PROVE Past'
  BY <1>1 DEF Touch, Past, TypeOK
<1>2. ASSUME UNCHANGED <<mtime, clock>> PROVE Past'
  BY <1>2 DEF Past
<1>3. (\E d \in Dirs : Touch(d)) \/ UNCHANGED <<mtime, clock>>
  BY DEF vars, files, Next, Find, Step, Resolve, StripFile, EndStrip, ReadLines, StageDir,
         WriteLines, Relink, RelinkFails, EndPass, Stop, Leave, passes
<1> QED BY <1>1, <1>2, <1>3

LEMMA WholeStep ==
  ASSUME TypeOK, AllApplied, Past, Whole, keep = "last", events = {}, events' = {}, [Next]_vars
  PROVE  Whole'
<1>1. ASSUME UNCHANGED <<pc, found, keeps, state, had>> PROVE Whole'
  BY <1>1 DEF Whole, Alone, Sound, Left, Keeping
<1>2. UNCHANGED had /\ \A d \in Dirs : state'[d] \subseteq state[d]
  BY GivenStays, Shrinks DEF given
<1>3. CASE UNCHANGED vars
  BY <1>1, <1>3 DEF vars, given, files, passes
<1>4. ASSUME NEW p \in Passes, Find(p) PROVE Whole'
  <2>1. \A q \in Passes : pc[q] = "idle"
    BY <1>4 DEF Find
  <2>2. /\ pc' = [pc EXCEPT ![p] = "resolve"]
        /\ found' = [found EXCEPT ![p] = Left]
        /\ UNCHANGED <<state, keeps, had>>
    BY <1>4 DEF Find, Goto, files, given, Left
  <2>3. Sound
    BY <2>1 DEF Whole
  <2> QED BY <2>1, <2>2, <2>3 DEF Whole, Alone, Sound, Left, Keeping, TypeOK
<1>5. ASSUME NEW p \in Passes, Resolve(p) PROVE Whole'
  <2>1. /\ pc[p] = "resolve" /\ pc' = [pc EXCEPT ![p] = "strip"]
        /\ UNCHANGED <<state, found, had>>
        /\ keeps' = keeps \/ \E d \in ResumeDir(found[p]) : keeps' = [keeps EXCEPT ![p] = d]
        /\ ResumeDir(found[p]) # {} => \E d \in ResumeDir(found[p]) : keeps'[p] = d
    BY <1>5 DEF Resolve, Goto, files, given, TypeOK
  <2>2. \A q \in Passes : q # p => pc[q] = "idle"
    BY <2>1 DEF Whole, Alone
  <2>3. Sound /\ found[p] = Left
    BY <2>1, <2>2 DEF Whole
  <2>4. found[p] # {} => /\ ResumeDir(found[p]) # {}
                         /\ ResumeDir(found[p]) \subseteq found[p]
    <3>1. found[p] # {} => Newest(found[p]) # {}
      BY NewestExists DEF TypeOK
    <3> QED BY <3>1 DEF ResumeDir, Newest
  <2>5. found[p] # {} => keeps'[p] \in Left
    BY <2>1, <2>3, <2>4
  <2>6. Keeping(p)'
    BY <2>1, <2>3, <2>5 DEF Keeping, Sound, Left
  <2> QED BY <2>1, <2>2, <2>6 DEF Whole, Alone, TypeOK
<1>6. ASSUME NEW p \in Passes, NEW d \in Dirs, NEW f \in Files, StripFile(p, d, f) PROVE Whole'
  <2>1. /\ pc[p] = "strip" /\ d \in found[p] /\ d # keeps[p]
        /\ UNCHANGED <<pc, found, keeps>>
        /\ \A e \in Dirs : e # d => state'[e] = state[e]
    BY <1>6 DEF StripFile, ToStrip, TypeOK
  <2>2. \A q \in Passes : q # p => pc[q] = "idle"
    BY <2>1 DEF Whole, Alone
  <2>3. Keeping(p)'
    BY <1>2, <2>1 DEF Whole, Keeping, TypeOK
  <2> QED BY <2>1, <2>2, <2>3 DEF Whole, Alone
<1>7. ASSUME NEW p \in Passes, EndStrip(p) PROVE Whole'
  <2>1. /\ pc[p] = "strip" /\ UNCHANGED <<state, found, keeps, had>>
        /\ pc' \in {[pc EXCEPT ![p] = "link"], [pc EXCEPT ![p] = "restage"]}
        /\ \A d \in ToStrip(p) : state[d] = {}
    BY <1>7 DEF EndStrip, Goto, files, given
  <2>2. \A q \in Passes : q # p => pc[q] = "idle"
    BY <2>1 DEF Whole, Alone
  <2>3. Keeping(p) /\ Keeping(p)'
    BY <2>1 DEF Whole, Keeping
  <2>4. \A d \in Left : d \in found[p] /\ d = keeps[p]
    BY <2>1 DEF AllApplied, Applied, Left, ToStrip
  <2>5. Sound
    BY <2>3, <2>4 DEF Sound, Keeping, Left, TypeOK
  <2>6. Sound'
    BY <2>1, <2>5 DEF Sound, Left
  <2> QED BY <2>1, <2>2, <2>3, <2>6 DEF Whole, Alone, TypeOK
<1>8. ASSUME NEW p \in Passes, ReadLines(p) \/ WriteLines(p) PROVE Whole'
  <2>1. /\ UNCHANGED <<state, found, keeps, had>>
        /\ pc[p] \in {"restage", "stage"} /\ pc'[p] \in {"stage", "link"}
        /\ \A q \in Passes : q # p => pc'[q] = pc[q]
    BY <1>8 DEF ReadLines, WriteLines, Goto, files, given, TypeOK
  <2>2. Keeping(p) /\ Sound /\ \A q \in Passes : q # p => pc[q] = "idle"
    BY <2>1 DEF Whole, Alone
  <2>3. Keeping(p)' /\ Sound'
    BY <2>1, <2>2 DEF Keeping, Sound, Left
  <2> QED BY <2>1, <2>2, <2>3 DEF Whole, Alone
<1>12. ASSUME NEW p \in Passes, NEW d \in Dirs, StageDir(p, d) PROVE Whole'
  BY <1>1, <1>12 DEF StageDir, files, given
<1>9. ASSUME NEW p \in Passes, NEW d \in Dirs, Relink(p, d) PROVE Whole'
  BY <1>1, <1>9 DEF Relink, given, passes
<1>10. ASSUME NEW p \in Passes, EndPass(p) \/ RelinkFails(p) PROVE Whole'
  <2>1. \A q \in Passes : q # p => pc[q] = "idle"
    BY <1>10 DEF EndPass, RelinkFails, Whole, Alone
  <2>2. Sound
    BY <1>10, <2>1 DEF EndPass, RelinkFails, Whole
  <2>3. \A q \in Passes : pc'[q] = "idle"
    BY <1>10, <2>1 DEF EndPass, RelinkFails, Leave, TypeOK
  <2>4. Sound'
    BY <1>10, <2>2 DEF EndPass, RelinkFails, Leave, files, given, Sound, Left
  <2> QED BY <2>3, <2>4 DEF Whole, Alone
<1>11. ASSUME NEW p \in Passes, Stop(p) PROVE FALSE
  BY <1>11 DEF Stop
<1> QED BY <1>3, <1>4, <1>5, <1>6, <1>7, <1>8, <1>9, <1>10, <1>11, <1>12 DEF Next, Step

LEMMA WholeNext == TypeOK /\ AllApplied /\ WholeInv /\ [Next]_vars => WholeInv'
<1>1. [Next]_vars => UNCHANGED keep /\ events \subseteq events'
  BY DEF vars, given, Next, Find, Step, Resolve, StripFile, EndStrip, ReadLines, StageDir,
         WriteLines, Relink, RelinkFails, EndPass, Stop, Leave, passes
<1> QED BY <1>1, PastStep, WholeStep DEF WholeInv

LEMMA WholeInit == Init => WholeInv
<1> SUFFICES ASSUME Init PROVE WholeInv
  OBVIOUS
<1>1. Past
  BY OutputAssumption, FS_CardinalityType DEF Init, Past
<1>2. Whole
  BY DEF Init, Whole, Alone, Sound, Left, Keeping
<1> QED BY <1>1, <1>2 DEF WholeInv

\* However many passes follow one another, as long as each ends before the next begins
\* one directory of those the program left stays whole.
THEOREM AlwaysStillResumable == Spec => []StillResumable
<1>1. ASSUME WholeInv, TypeOK, keep = "last", events = {}, \E d \in Dirs : had[d] # {}
      PROVE  \E d \in Dirs : had[d] # {} /\ state[d] = had[d]
  <2>1. Whole
    BY <1>1 DEF WholeInv
  <2>2. CASE \A p \in Passes : pc[p] # "strip"
    <3>1. Sound
      BY <2>1, <2>2 DEF Whole
    <3>2. PICK d \in Dirs : state[d] # {}
      BY <1>1, <3>1 DEF Sound, Left
    <3> QED BY <3>1, <3>2 DEF Sound, Left
  <2>3. ASSUME NEW p \in Passes, pc[p] = "strip"
        PROVE  \E d \in Dirs : had[d] # {} /\ state[d] = had[d]
    <3>1. Keeping(p)
      BY <2>1, <2>3 DEF Whole
    <3>2. found[p] # {} /\ found[p] \subseteq Dirs
      BY <1>1, <3>1 DEF Keeping, TypeOK
    <3> QED BY <3>1, <3>2 DEF Keeping
  <2> QED BY <2>2, <2>3
<1>2. TypeOK /\ WholeInv => StillResumable
  BY <1>1 DEF StillResumable, Resumable
<1> QED BY <1>2, WholeInit, WholeNext, AppliedInv, PTL DEF Spec

=============================================================================
