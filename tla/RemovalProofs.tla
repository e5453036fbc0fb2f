--------------------------- MODULE RemovalProofs ----------------------------
(***************************************************************************)
(* Proofs about what removes whole directories while others use them, for  *)
(* any number of runs, experiments and commands and any limit              *)
(* (RunRetention), and any calls, files and evictions (Materialized).      *)
(***************************************************************************)
EXTENDS RunRetention, Materialized, FiniteSetTheorems, TLAPS

-----------------------------------------------------------------------------
(* Run directories.  A run is doomed by a pass only when Keep newer runs   *)
(* of its experiment have promoted an artifact (Doomed).  What a session   *)
(* has saved and when it was created never change again, so this stays     *)
(* true while other passes run and other runs are created; hence the       *)
(* newest Keep runs are never removed.                                     *)

Fresh == \A r \in Runs : session[r] = "new" => saved[r] = {}
Read == \A r \in Runs : lines[r] \subseteq saved[r]
Eligible == \A p \in Passes : eligible[p] \subseteq Promoters
Doomed == \A p \in Passes : \A r \in doomed[p] :
            r \in Promoters /\ Cardinality(Newer(r, Promoters)) >= Keep

IInv == TypeOK /\ Fresh /\ Read /\ Eligible /\ Doomed /\ RecentKept

\* More promoters never make fewer newer runs.
LEMMA NewerGrows ==
  ASSUME NEW A \in SUBSET Runs, NEW B \in SUBSET Runs, A \subseteq B, NEW r \in Runs
  PROVE  /\ Cardinality(Newer(r, A)) \in Nat
         /\ Cardinality(Newer(r, B)) \in Nat
         /\ Cardinality(Newer(r, A)) <= Cardinality(Newer(r, B))
<1>1. Newer(r, A) \subseteq Newer(r, B) /\ Newer(r, B) \subseteq Runs
  BY DEF Newer
<1>2. IsFiniteSet(Newer(r, B))
  BY <1>1, FS_Subset, RetentionAssumption
<1> QED BY <1>1, <1>2, FS_Subset, FS_CardinalityType

LEMMA InitInv == Init => IInv
BY RetentionAssumption DEF Init, IInv, TypeOK, Fresh, Read, Eligible, Doomed, RecentKept, Promoters

-----------------------------------------------------------------------------
(* Steps that leave what the passes know alone.                            *)

LEMMA TypeStep == TypeOK /\ [Next]_vars => TypeOK'
<1> SUFFICES ASSUME TypeOK, [Next]_vars PROVE TypeOK'
  OBVIOUS
<1> USE RetentionAssumption DEF TypeOK, Passes, sessions, dirs, passes
<1>1. CASE UNCHANGED vars
  BY <1>1 DEF vars
<1>2. ASSUME NEW r \in Runs, SessionStep(r) PROVE TypeOK'
  <2>1. CASE Create(r)         BY <2>1 DEF Create
  <2>2. CASE WriteManifest(r)  BY <2>2 DEF WriteManifest
  <2>3. ASSUME NEW kind \in Kinds, SaveLine(r, kind) PROVE TypeOK'
    BY <2>3 DEF SaveLine
  <2>4. CASE Complete(r)
    <3>1. /\ present' = present \cup {r} /\ manifest' = manifest \cup {r}
          /\ UNCHANGED <<clock, created, lines, saved, eligible, doomed>>
      BY <2>4 DEF Complete
    <3>2. session' \in [Runs -> {"new", "starting", "open", "pruning", "ended", "dead"}]
      BY <2>4 DEF Complete
    <3>3. pass' \in [Passes -> {"idle", "list", "remove"}] /\ unread' \in [Passes -> SUBSET Runs]
      BY <2>4, <3>1 DEF Complete
    <3> QED BY <3>1, <3>2, <3>3
  <2>5. CASE Fail(r)           BY <2>5 DEF Fail
  <2>6. CASE Abandon(r)        BY <2>6 DEF Abandon
  <2>7. CASE Die(r)            BY <2>7 DEF Die
  <2> QED BY <1>2, <2>1, <2>2, <2>3, <2>4, <2>5, <2>6, <2>7 DEF SessionStep
<1>3. ASSUME NEW c \in Commands, Optimize(c) PROVE TypeOK'
  BY <1>3 DEF Optimize
<1>4. ASSUME NEW p \in Passes, PassStep(p) PROVE TypeOK'
  <2>1. ASSUME NEW r \in Runs, Look(p, r) PROVE TypeOK'
    BY <2>1 DEF Look
  <2>2. ASSUME NEW r \in Runs, Remove(p, r) PROVE TypeOK'
    BY <2>2 DEF Remove, Turn
  <2>3. CASE Choose(p)         BY <2>3 DEF Choose
  <2>4. CASE EndPass(p)        BY <2>4 DEF EndPass, Leave
  <2>5. CASE PassError(p)      BY <2>5 DEF PassError, Leave
  <2> QED BY <1>4, <2>1, <2>2, <2>3, <2>4, <2>5 DEF PassStep
<1> QED BY <1>1, <1>2, <1>3, <1>4 DEF Next

\* A step that changes neither created nor saved, dooms no run, and removes no
\* directory keeps what is known of the runs.
LEMMA Quiet ==
  ASSUME IInv, TypeOK', UNCHANGED <<created, saved>>,
         \A r \in Runs : session'[r] = "new" => session[r] = "new",
         \A r \in Runs : lines'[r] \subseteq lines[r],
         \A p \in Passes : eligible'[p] \subseteq Promoters,
         \A p \in Passes : doomed'[p] \subseteq doomed[p],
         present \subseteq present'
  PROVE  IInv'
<1>1. Promoters' = Promoters
  BY DEF Promoters
<1>2. \A r \in Runs : Newer(r, Promoters)' = Newer(r, Promoters)
  BY <1>1 DEF Newer
<1>3. Fresh' /\ Read'
  BY DEF IInv, Fresh, Read
<1>4. Eligible'
  BY <1>1 DEF IInv, Eligible
<1>5. Doomed'
  BY <1>1, <1>2 DEF IInv, Doomed, Promoters
<1>6. RecentKept'
  BY <1>1, <1>2 DEF IInv, RecentKept, Promoters
<1> QED BY <1>3, <1>4, <1>5, <1>6 DEF IInv

-----------------------------------------------------------------------------
(* The other steps.                                                        *)

LEMMA CreateInv == ASSUME IInv, TypeOK', NEW x \in Runs, Create(x) PROVE IInv'
<1>1. x \notin Promoters /\ Promoters' = Promoters /\ Promoters \subseteq Runs
  BY DEF IInv, Create, Fresh, Promoters
<1>2. \A r \in Runs \ {x} : created'[r] = created[r]
  BY DEF IInv, TypeOK, Create
<1>3. \A r \in Promoters : Newer(r, Promoters)' = Newer(r, Promoters)
  BY <1>1, <1>2 DEF Newer
<1>4. Fresh' /\ Read' /\ Eligible'
  BY <1>1 DEF IInv, TypeOK, Fresh, Read, Eligible, Create, passes
<1>5. Doomed'
  BY <1>1, <1>3 DEF IInv, Doomed, Create, passes
<1>6. RecentKept'
  BY <1>1, <1>3 DEF IInv, RecentKept, Create
<1> QED BY <1>4, <1>5, <1>6 DEF IInv

LEMMA SaveInv ==
  ASSUME IInv, TypeOK', NEW x \in Runs, NEW kind \in Kinds, SaveLine(x, kind) PROVE IInv'
<1>1. Promoters \subseteq Promoters' /\ Promoters' \subseteq Runs /\ Promoters' \subseteq Promoters \cup {x}
  BY DEF IInv, TypeOK, SaveLine, Promoters
<1>2. \A r \in Runs : /\ Cardinality(Newer(r, Promoters)) \in Nat
                      /\ Cardinality(Newer(r, Promoters')) \in Nat
                      /\ Cardinality(Newer(r, Promoters)) <= Cardinality(Newer(r, Promoters'))
  <2> SUFFICES ASSUME NEW r \in Runs
               PROVE  /\ Cardinality(Newer(r, Promoters)) \in Nat
                      /\ Cardinality(Newer(r, Promoters')) \in Nat
                      /\ Cardinality(Newer(r, Promoters)) <= Cardinality(Newer(r, Promoters'))
    OBVIOUS
  <2>1. Promoters \in SUBSET Runs /\ Promoters' \in SUBSET Runs
    BY <1>1
  <2> QED BY <1>1, <2>1, NewerGrows
<1>3. \A r \in Runs : Newer(r, Promoters)' = Newer(r, Promoters')
  BY DEF Newer, SaveLine
<1>4. Fresh' /\ Read'
  BY DEF IInv, TypeOK, Fresh, Read, SaveLine
<1>5. Eligible'
  BY <1>1 DEF IInv, Eligible, SaveLine, passes
<1>6. Doomed'
  BY <1>1, <1>2, <1>3, RetentionAssumption DEF IInv, Doomed, SaveLine, passes
<1>7. RecentKept'
  <2> SUFFICES ASSUME NEW r \in Promoters', (Cardinality(Newer(r, Promoters)) < Keep)'
               PROVE  r \in present'
    BY DEF RecentKept
  <2>1. CASE r = x
    BY <2>1 DEF SaveLine
  <2>2. CASE r # x
    BY <1>1, <1>2, <1>3, <2>2, RetentionAssumption DEF IInv, RecentKept, SaveLine
  <2> QED BY <2>1, <2>2
<1> QED BY <1>4, <1>5, <1>6, <1>7 DEF IInv

LEMMA ChooseInv == ASSUME IInv, TypeOK', NEW p \in Passes, Choose(p) PROVE IInv'
<1>1. Promoters' = Promoters /\ Promoters \in SUBSET Runs
  BY DEF Choose, sessions, Promoters
<1>2. \A r \in Runs : Newer(r, Promoters)' = Newer(r, Promoters)
  BY <1>1 DEF Newer, Choose, sessions
<1>3. ASSUME NEW r \in eligible[p], Cardinality(Newer(r, eligible[p])) >= Keep
      PROVE  Cardinality(Newer(r, Promoters)) >= Keep
  <2>1. eligible[p] \in SUBSET Runs /\ eligible[p] \subseteq Promoters /\ r \in Runs
    BY DEF IInv, TypeOK, Eligible
  <2> QED BY <1>1, <1>3, <2>1, NewerGrows, RetentionAssumption
<1>4. Fresh' /\ Read'
  BY DEF IInv, Fresh, Read, Choose, sessions, dirs
<1>5. Eligible'
  BY <1>1 DEF IInv, Eligible, Choose
<1>6. Doomed'
  <2> SUFFICES ASSUME NEW q \in Passes, NEW r \in doomed'[q]
               PROVE  r \in Promoters /\ Cardinality(Newer(r, Promoters)) >= Keep
    BY <1>1, <1>2 DEF Doomed
  <2>1. CASE q # p
    BY <2>1 DEF IInv, TypeOK, Doomed, Choose
  <2>2. CASE q = p
    <3>1. r \in eligible[p] /\ Cardinality(Newer(r, eligible[p])) >= Keep
      BY <2>2 DEF IInv, TypeOK, Choose
    <3> QED BY <1>3, <3>1 DEF IInv, Eligible
  <2> QED BY <2>1, <2>2
<1>7. RecentKept'
  BY <1>1, <1>2 DEF IInv, RecentKept, Choose, dirs
<1> QED BY <1>4, <1>5, <1>6, <1>7 DEF IInv

LEMMA RemoveInv ==
  ASSUME IInv, TypeOK', NEW p \in Passes, NEW x \in Runs, Remove(p, x) PROVE IInv'
<1>1. Promoters' = Promoters /\ Promoters \in SUBSET Runs
  BY DEF Remove, Turn, sessions, Promoters
<1>2. \A r \in Runs : Newer(r, Promoters)' = Newer(r, Promoters)
  BY <1>1 DEF Newer, Remove, sessions
<1>3. \A q \in Passes : doomed'[q] \subseteq doomed[q]
  BY DEF IInv, TypeOK, Remove
<1>4. Fresh' /\ Read'
  BY DEF IInv, TypeOK, Fresh, Read, Remove, sessions
<1>5. Eligible'
  BY <1>1 DEF IInv, Eligible, Remove
<1>6. Doomed'
  BY <1>1, <1>2, <1>3 DEF IInv, Doomed
<1>7. RecentKept'
  <2>1. Cardinality(Newer(x, Promoters)) >= Keep
    BY DEF IInv, Doomed, Remove, Turn
  <2>2. Cardinality(Newer(x, Promoters)) \in Nat
    BY <1>1, NewerGrows
  <2>3. \A r \in Promoters : r # x /\ r \in present => r \in present'
    BY DEF Remove, Turn
  <2>4. ~(Cardinality(Newer(x, Promoters)) < Keep)
    BY <2>1, <2>2, RetentionAssumption
  <2> QED BY <1>1, <1>2, <2>3, <2>4 DEF IInv, RecentKept
<1> QED BY <1>4, <1>5, <1>6, <1>7 DEF IInv

-----------------------------------------------------------------------------

LEMMA NextInv == IInv /\ [Next]_vars => IInv'
<1> SUFFICES ASSUME IInv, [Next]_vars PROVE IInv'
  OBVIOUS
<1>0. TypeOK /\ TypeOK' /\ Eligible /\ Read
  BY TypeStep DEF IInv
<1>1. CASE UNCHANGED vars
  BY <1>0, <1>1, Quiet DEF vars, sessions, dirs, passes, Eligible
<1>2. ASSUME NEW r \in Runs, SessionStep(r) PROVE IInv'
  <2>1. CASE Create(r)
    BY <1>0, <2>1, CreateInv
  <2>2. CASE WriteManifest(r)
    BY <1>0, <2>2, Quiet DEF WriteManifest, passes, Eligible, TypeOK
  <2>3. ASSUME NEW kind \in Kinds, SaveLine(r, kind) PROVE IInv'
    BY <1>0, <2>3, SaveInv
  <2>4. CASE Complete(r)
    BY <1>0, <2>4, Quiet DEF Complete, Eligible, TypeOK
  <2>5. CASE Fail(r)
    BY <1>0, <2>5, Quiet DEF Fail, passes, Eligible, TypeOK
  <2>6. CASE Abandon(r)
    BY <1>0, <2>6, Quiet DEF Abandon, dirs, passes, Eligible, TypeOK
  <2>7. CASE Die(r)
    BY <1>0, <2>7, Quiet DEF Die, dirs, Eligible, TypeOK
  <2> QED BY <1>2, <2>1, <2>2, <2>3, <2>4, <2>5, <2>6, <2>7 DEF SessionStep
<1>3. ASSUME NEW c \in Commands, Optimize(c) PROVE IInv'
  BY <1>0, <1>3, Quiet DEF Optimize, sessions, dirs, Eligible
<1>4. ASSUME NEW p \in Passes, PassStep(p) PROVE IInv'
  <2>1. ASSUME NEW r \in Runs, Look(p, r) PROVE IInv'
    <3>1. \A q \in Passes : eligible'[q] \subseteq Promoters
      BY <1>0, <2>1 DEF Look, TypeOK, Eligible, Read, Promoters
    <3> QED BY <1>0, <2>1, <3>1, Quiet DEF Look, sessions, dirs
  <2>2. ASSUME NEW r \in Runs, Remove(p, r) PROVE IInv'
    BY <1>0, <2>2, RemoveInv
  <2>3. CASE Choose(p)
    BY <1>0, <2>3, ChooseInv
  <2>4. ASSUME Leave(p) PROVE IInv'
    <3>1. /\ \A r \in Runs : session'[r] = "new" => session[r] = "new"
          /\ \A q \in Passes : eligible'[q] \subseteq Promoters /\ doomed'[q] \subseteq doomed[q]
      BY <1>0, <2>4 DEF Leave, TypeOK, Eligible
    <3> QED BY <1>0, <2>4, <3>1, Quiet DEF Leave, dirs
  <2> QED BY <1>4, <2>1, <2>2, <2>3, <2>4 DEF PassStep, EndPass, PassError
<1> QED BY <1>1, <1>2, <1>3, <1>4 DEF Next

\* The invariant of the passes, and with it the types of every variable.
THEOREM Invariance == Spec => []IInv
BY InitInv, NextInv, PTL DEF Spec

\* Type correctness.
THEOREM TypeCorrect == Spec => []TypeOK
<1>1. IInv => TypeOK
  BY DEF IInv
<1> QED BY <1>1, Invariance, PTL

\* Passes that run together, and with new runs, never remove one of the newest
\* Keep runs of an experiment that promoted an artifact.
THEOREM RecentAlwaysKept == Spec => []RecentKept
<1>1. IInv => RecentKept
  BY DEF IInv
<1> QED BY <1>1, Invariance, PTL

\* A run that promoted nothing is never removed.
THEOREM LightweightAlwaysKept == Spec => LightweightKept
<1>1. ASSUME IInv, [Next]_vars PROVE [\A r \in present \ present' : r \in Promoters]_vars
  <2>1. CASE UNCHANGED vars
    BY <2>1
  <2>2. ASSUME NEW r \in Runs, SessionStep(r) PROVE present \subseteq present'
    BY <2>2 DEF SessionStep, Create, WriteManifest, SaveLine, Complete, Fail, Abandon, Die, dirs
  <2>3. ASSUME NEW c \in Commands, Optimize(c) PROVE present \subseteq present'
    BY <2>3 DEF Optimize, dirs
  <2>4. ASSUME NEW p \in Passes, PassStep(p) PROVE \A r \in present \ present' : r \in Promoters
    <3>1. ASSUME NEW r \in Runs, Remove(p, r) PROVE \A q \in present \ present' : q \in Promoters
      BY <1>1, <3>1 DEF Remove, Turn, IInv, Doomed
    <3>2. CASE ~ \E r \in Runs : Remove(p, r)
      BY <2>4, <3>2 DEF PassStep, Look, Choose, EndPass, PassError, Leave, dirs
    <3> QED BY <3>1, <3>2
  <2> QED BY <1>1, <2>1, <2>2, <2>3, <2>4 DEF Next
<1> QED BY <1>1, Invariance, PTL DEF Spec, LightweightKept

-----------------------------------------------------------------------------
(* The materialized cache.  As long as no eviction has overlapped a call   *)
(* or stopped midway, every path that is returned is whole.  The invariant *)
(* says that only one side is at work (Apart), what the directory of a     *)
(* call at work holds (Holds), and that a directory at the final path is   *)
(* whole unless an eviction is removing it (Kept).                         *)

All == Files \cup {Marker}

Apart == AtWork => ~Evicting

Holds == \A c \in Calls :
  /\ pc[c] = "idle" => place[c] = "none" /\ copied[c] = {}
  /\ pc[c] = "copy" => place[c] = "temporary" /\ entries[c] = copied[c]
  /\ pc[c] \in {"look", "discard", "rename"} => place[c] = "temporary" /\ entries[c] = All
  /\ pc[c] = "discard" => Final # {}

Kept == \A d \in Final : entries[d] = All \/ \E e \in Evictors : victim[e] = d

Fixed == \A e \in Evictors : victim[e] # NoCall => place[victim[e]] \in {from[e], "none"}

\* Once an eviction has disturbed the cache, nothing but the types is known.
Calm == CacheTypeOK /\ Apart /\ Holds /\ Kept /\ Fixed
MInv == CacheTypeOK /\ (events = {} => Calm)

LEMMA CacheTypeInit == CacheInit => CacheTypeOK
BY MaterializedAssumption DEF CacheInit, CacheTypeOK, Working

LEMMA CacheTypeStep == CacheTypeOK /\ [CacheNext]_cacheVars => CacheTypeOK'
<1> SUFFICES ASSUME CacheTypeOK, [CacheNext]_cacheVars PROVE CacheTypeOK'
  OBVIOUS
<1> USE MaterializedAssumption DEF CacheTypeOK, Working
<1>1. CASE UNCHANGED cacheVars
  BY <1>1 DEF cacheVars
<1>2. ASSUME NEW c \in Calls, Begin(c) PROVE CacheTypeOK'
  BY <1>2 DEF Begin
<1>3. ASSUME NEW c \in Calls, NEW f \in Files, CopyFile(c, f) PROVE CacheTypeOK'
  BY <1>3 DEF CopyFile, Put
<1>4. ASSUME NEW c \in Calls, WriteMarker(c) PROVE CacheTypeOK'
  BY <1>4 DEF WriteMarker, Put
<1>5. ASSUME NEW c \in Calls, LookForTarget(c) PROVE CacheTypeOK'
  BY <1>5 DEF LookForTarget
<1>6. ASSUME NEW c \in Calls, Discard(c) PROVE CacheTypeOK'
  BY <1>6 DEF Discard
<1>7. ASSUME NEW c \in Calls, Rename(c) PROVE CacheTypeOK'
  BY <1>7 DEF Rename, Final
<1>8. ASSUME NEW c \in Calls, CallFails(c) PROVE CacheTypeOK'
  BY <1>8 DEF CallFails
<1>9. ASSUME NEW e \in Evictors, NEW d \in Calls, Evict(e, d) PROVE CacheTypeOK'
  BY <1>9 DEF Evict
<1>10. ASSUME NEW e \in Evictors, NEW x \in Files \cup {Marker}, RemoveEntry(e, x) PROVE CacheTypeOK'
  BY <1>10 DEF RemoveEntry
<1>11. ASSUME NEW e \in Evictors, EndEvict(e) PROVE CacheTypeOK'
  BY <1>11 DEF EndEvict, LeaveEviction
<1>12. ASSUME NEW e \in Evictors, StopEvict(e) PROVE CacheTypeOK'
  BY <1>12 DEF StopEvict, LeaveEviction
<1> HIDE DEF CacheTypeOK, Working
<1>13. ASSUME NEW c \in Calls, CallStep(c) PROVE CacheTypeOK'
  BY <1>3, <1>4, <1>5, <1>6, <1>7, <1>13 DEF CallStep
<1> QED BY <1>1, <1>2, <1>8, <1>9, <1>10, <1>11, <1>12, <1>13 DEF CacheNext

\* Type correctness.
THEOREM CacheTypeCorrect == CacheSpec => []CacheTypeOK
BY CacheTypeInit, CacheTypeStep, PTL DEF CacheSpec

-----------------------------------------------------------------------------

\* While a call is at work, no directory is being evicted, and what is at the
\* final path is whole.
LEMMA CallAlone ==
  ASSUME Calm, NEW c \in Calls, pc[c] \in Working
  PROVE  /\ \A e \in Evictors : victim[e] = NoCall
         /\ \A d \in Final : entries[d] = All
BY MaterializedAssumption DEF Calm, Apart, Kept, Final, AtWork, Evicting

LEMMA CallInv ==
  ASSUME Calm, CacheTypeOK', NEW c \in Calls, CallStep(c) \/ CallFails(c)
  PROVE  Calm'
<1> USE DEF CacheTypeOK, Final
<1>0. pc[c] \in Working /\ UNCHANGED <<victim, from>>
  BY DEF CallStep, CopyFile, WriteMarker, LookForTarget, Discard, Rename, CallFails, Working
<1>1. (\A e \in Evictors : victim[e] = NoCall) /\ (\A d \in Final : entries[d] = All)
  BY <1>0, CallAlone
<1>2. Apart' /\ Fixed'
  BY <1>0, <1>1 DEF Calm, Apart, Fixed, AtWork, Evicting
<1>3. ASSUME NEW f \in Files, CopyFile(c, f) PROVE Holds' /\ Kept'
  <2>1. pc[c] = "copy" /\ place[c] = "temporary" /\ entries[c] = copied[c]
    BY <1>3 DEF CopyFile, Calm, Holds
  <2>2. place' = place /\ pc' = pc
    BY <1>3, <2>1 DEF CopyFile, Put, Calm
  <2>3. entries'[c] = entries[c] \cup {f} /\ copied'[c] = copied[c] \cup {f}
    BY <1>3 DEF CopyFile, Put, Calm
  <2>4. \A d \in Calls : d # c => entries'[d] = entries[d] /\ copied'[d] = copied[d]
    BY <1>3 DEF CopyFile, Put, Calm
  <2>5. Final' = Final /\ c \notin Final
    BY <2>1, <2>2
  <2>6. Holds'
    BY <2>1, <2>2, <2>3, <2>4, <2>5, ZenonT(60) DEF Calm, Holds
  <2>7. Kept'
    BY <1>1, <2>4, <2>5 DEF Kept
  <2> QED BY <2>6, <2>7
<1>4. CASE WriteMarker(c)
  <2>1. pc[c] = "copy" /\ place[c] = "temporary" /\ entries[c] = Files
    BY <1>4 DEF WriteMarker, Calm, Holds
  <2>2. place' = place /\ copied' = copied
    BY <1>4, <2>1 DEF WriteMarker, Put, Calm
  <2>3. entries'[c] = All /\ pc'[c] = "look"
    BY <1>4, <2>1 DEF WriteMarker, Put, Calm, All
  <2>4. \A d \in Calls : d # c => entries'[d] = entries[d] /\ pc'[d] = pc[d]
    BY <1>4 DEF WriteMarker, Put, Calm
  <2>5. Final' = Final /\ c \notin Final
    BY <2>1, <2>2
  <2>6. Holds'
    BY <2>1, <2>2, <2>3, <2>4, <2>5 DEF Calm, Holds
  <2>7. Kept'
    BY <1>1, <2>4, <2>5 DEF Kept
  <2> QED BY <1>2, <2>6, <2>7 DEF Calm
<1>5. CASE LookForTarget(c)
  <2>1. place[c] = "temporary" /\ entries[c] = All /\ UNCHANGED <<place, entries, copied>>
    BY <1>5 DEF LookForTarget, Calm, Holds
  <2>2. pc'[c] = (IF Final = {} THEN "rename" ELSE "discard")
    BY <1>5 DEF LookForTarget, Calm
  <2>3. \A d \in Calls : d # c => pc'[d] = pc[d]
    BY <1>5 DEF LookForTarget, Calm
  <2>4. Final' = Final
    BY <2>1
  <2>5. Holds'
    BY <2>1, <2>2, <2>3, <2>4 DEF Calm, Holds
  <2>6. Kept'
    BY <1>1, <2>1, <2>4 DEF Kept
  <2> QED BY <1>2, <2>5, <2>6 DEF Calm
<1>6. CASE Discard(c)
  <2>1. place[c] = "temporary"
    BY <1>6 DEF Discard, Calm, Holds
  <2>2. Final' = Final
    BY <1>6, <2>1 DEF Discard, Calm
  <2>3. \A d \in Calls : d # c => /\ pc'[d] = pc[d] /\ place'[d] = place[d]
                                  /\ entries'[d] = entries[d] /\ copied'[d] = copied[d]
    BY <1>6 DEF Discard, Calm
  <2>4. pc'[c] \in {"returned", "failed"}
    BY <1>6 DEF Discard, Calm
  <2>5. Holds'
    BY <2>2, <2>3, <2>4 DEF Calm, Holds
  <2>6. Kept'
    BY <1>1, <2>1, <2>2, <2>3 DEF Kept
  <2> QED BY <1>2, <2>5, <2>6 DEF Calm
<1>7. CASE Rename(c)
  <2>1. pc'[c] \in {"returned", "failed"} /\ \A d \in Calls : d # c => pc'[d] = pc[d]
    BY <1>7 DEF Rename, Calm
  <2>2. UNCHANGED <<copied, entries>> /\ place[c] = "temporary" /\ entries[c] = All
    BY <1>7 DEF Rename, Calm, Holds
  <2>3. CASE \A d \in Final : entries[d] = {}
    <3>1. Final = {}
      BY <1>1, <2>3 DEF All
    <3>2. place' = [place EXCEPT ![c] = "final"] /\ Final' = {c}
      BY <1>7, <2>2, <2>3, <3>1 DEF Rename, Calm
    <3>3. Holds'
      BY <2>1, <2>2, <3>2 DEF Calm, Holds
    <3>4. Kept'
      BY <2>2, <3>2 DEF Kept
    <3> QED BY <1>2, <3>3, <3>4 DEF Calm
  <2>4. CASE \E d \in Final : entries[d] # {}
    <3>1. UNCHANGED place
      BY <1>7, <2>2, <2>4 DEF Rename
    <3>2. Holds' /\ Kept'
      BY <1>1, <2>1, <2>2, <3>1 DEF Calm, Holds, Kept
    <3> QED BY <1>2, <3>2 DEF Calm
  <2> QED BY <2>3, <2>4
<1>8. CASE CallFails(c)
  <2>1. UNCHANGED <<place, entries, copied>> /\ Final' = Final
    BY <1>8 DEF CallFails
  <2>2. pc'[c] = "failed" /\ \A d \in Calls : d # c => pc'[d] = pc[d]
    BY <1>8 DEF CallFails, Calm
  <2>3. Holds'
    BY <2>1, <2>2 DEF Calm, Holds
  <2>4. Kept'
    BY <1>1, <2>1 DEF Kept
  <2> QED BY <1>2, <2>3, <2>4 DEF Calm
<1>9. Holds' /\ Kept'
  BY <1>3, <1>4, <1>5, <1>6, <1>7, <1>8 DEF CallStep, Calm
<1> QED BY <1>2, <1>9 DEF Calm

LEMMA BeginInv ==
  ASSUME Calm, CacheTypeOK', events' = {}, NEW c \in Calls, Begin(c)
  PROVE  Calm'
<1> USE DEF CacheTypeOK, Final
<1>1. \A e \in Evictors : victim[e] = NoCall
  BY DEF Begin, Evicting
<1>2. Apart' /\ Fixed'
  BY <1>1 DEF Begin, Calm, Apart, Fixed, AtWork, Evicting
<1>3. Holds' /\ Kept'
  <2>1. place[c] = "none" /\ copied[c] = {} /\ entries[c] = {}
    BY DEF Begin, Calm, Holds
  <2>2. UNCHANGED <<copied, entries, victim>>
    BY DEF Begin
  <2>3. \A d \in Calls : d # c => pc'[d] = pc[d] /\ place'[d] = place[d]
    BY DEF Begin, Calm
  <2>4. \/ pc'[c] = "returned"
        \/ pc'[c] = "copy" /\ place'[c] = "temporary"
    BY DEF Begin, Calm
  <2>5. place'[c] \in {"none", "temporary"}
    BY <2>1 DEF Begin, Calm
  <2>6. Final' = Final
    BY <2>1, <2>3, <2>5
  <2>7. Holds'
    BY <2>1, <2>2, <2>3, <2>4, <2>6, ZenonT(60) DEF Calm, Holds
  <2>8. Kept'
    BY <2>2, <2>6 DEF Calm, Kept
  <2> QED BY <2>7, <2>8
<1> QED BY <1>2, <1>3 DEF Calm

LEMMA EvictorInv ==
  ASSUME Calm, CacheTypeOK', events' = {}, NEW e \in Evictors,
         \/ \E d \in Calls : Evict(e, d)
         \/ \E x \in Files \cup {Marker} : RemoveEntry(e, x)
         \/ EndEvict(e)
  PROVE  Calm'
<1> USE DEF CacheTypeOK, Final
<1>1. \A c \in Calls : pc[c] \notin Working
  BY MaterializedAssumption DEF Evict, RemoveEntry, EndEvict, Calm, Apart, AtWork, Evicting
<1>2. UNCHANGED <<pc, copied>>
  BY DEF Evict, RemoveEntry, EndEvict, LeaveEviction
<1>3. Apart'
  BY <1>1, <1>2 DEF Calm, Apart, AtWork, Evicting
<1>4. ASSUME NEW d \in Calls, Evict(e, d) PROVE Holds' /\ Kept' /\ Fixed'
  <2>1. victim' = [victim EXCEPT ![e] = d] /\ from' = [from EXCEPT ![e] = place[d]]
    BY <1>4 DEF Evict
  <2>2. UNCHANGED <<pc, copied, place, entries>> /\ victim[e] = NoCall /\ Final' = Final
    BY <1>4 DEF Evict
  <2>3. Holds'
    BY <2>2 DEF Calm, Holds
  <2>4. Kept'
    BY <2>1, <2>2, MaterializedAssumption DEF Calm, Kept
  <2>5. Fixed'
    BY <2>1, <2>2 DEF Calm, Fixed
  <2> QED BY <2>3, <2>4, <2>5
<1>5. ASSUME NEW x \in Files \cup {Marker}, RemoveEntry(e, x) PROVE Holds' /\ Kept' /\ Fixed'
  <2>1. UNCHANGED <<pc, copied, place, victim, from>> /\ victim[e] \in Calls /\ Final' = Final
    BY <1>5 DEF RemoveEntry, Calm
  <2>2. \A g \in Calls : g # victim[e] => entries'[g] = entries[g]
    BY <1>5 DEF RemoveEntry, Calm
  <2>3. entries[victim[e]] # {} /\ entries'[victim[e]] \subseteq entries[victim[e]]
    BY <1>5, <2>1 DEF RemoveEntry, Calm
  <2>4. Holds'
    BY <1>1, <2>1, <2>2, <2>3 DEF Calm, Holds, Working
  <2>5. Kept'
    BY <2>1, <2>2 DEF Calm, Kept
  <2>6. Fixed'
    BY <2>1 DEF Calm, Fixed
  <2> QED BY <2>4, <2>5, <2>6
<1>6. ASSUME EndEvict(e) PROVE Holds' /\ Kept' /\ Fixed'
  <2> DEFINE d == victim[e]
  <2>1. d \in Calls /\ entries[d] = {} /\ place[d] \in {from[e], "none"}
    BY <1>6 DEF EndEvict, Calm, Fixed
  <2>2. place' = [place EXCEPT ![d] = "none"] /\ UNCHANGED entries
    BY <1>6, <2>1 DEF EndEvict, LeaveEviction, Calm
  <2>3. /\ \A g \in Evictors \ {e} : victim'[g] = victim[g] /\ from'[g] = from[g]
        /\ victim'[e] = NoCall
    BY <1>6 DEF EndEvict, LeaveEviction, Calm
  <2>4. Holds'
    BY <1>1, <1>2, <2>1, <2>2 DEF Calm, Holds, Working
  <2>5. Kept'
    BY <2>1, <2>2, <2>3 DEF Calm, Kept
  <2>6. Fixed'
    BY <2>1, <2>2, <2>3 DEF Calm, Fixed
  <2> QED BY <2>4, <2>5, <2>6
<1> QED BY <1>3, <1>4, <1>5, <1>6 DEF Calm

LEMMA CacheNextInv == MInv /\ [CacheNext]_cacheVars => MInv'
<1> SUFFICES ASSUME MInv, [CacheNext]_cacheVars, events' = {} PROVE Calm'
  BY CacheTypeStep DEF MInv
<1>0. CacheTypeOK'
  BY CacheTypeStep DEF MInv
<1>1. events = {}
  BY DEF CacheNext, cacheVars, Begin, CallStep, CopyFile, WriteMarker, LookForTarget, Discard, Rename, CallFails, Evict,
         RemoveEntry, EndEvict, StopEvict
<1>2. Calm
  BY <1>1 DEF MInv
<1>3. CASE UNCHANGED cacheVars
  BY <1>0, <1>2, <1>3 DEF cacheVars, Calm, Apart, Holds, Kept, Fixed, Final, AtWork, Evicting
<1>4. ASSUME NEW c \in Calls, Begin(c) \/ CallStep(c) \/ CallFails(c) PROVE Calm'
  BY <1>0, <1>2, <1>4, BeginInv, CallInv
<1>5. ASSUME NEW e \in Evictors, StopEvict(e) PROVE FALSE
  BY <1>5 DEF StopEvict
<1>6. ASSUME NEW e \in Evictors,
             \/ \E d \in Calls : Evict(e, d)
             \/ \E x \in Files \cup {Marker} : RemoveEntry(e, x)
             \/ EndEvict(e)
      PROVE  Calm'
  BY <1>0, <1>2, <1>6, EvictorInv
<1> QED BY <1>3, <1>4, <1>5, <1>6 DEF CacheNext

\* What is returned while the cache is calm is whole, for any number of calls,
\* files and evictions.
THEOREM ReturnsAreComplete == CacheSpec => ReturnsComplete
<1>1. CacheInit => MInv
  BY CacheTypeInit DEF CacheInit, MInv, Calm, Apart, Holds, Kept, Fixed, Final, Working, AtWork, Evicting
<1>2. MInv /\ [CacheNext]_cacheVars => MInv'
  BY CacheNextInv
<1>3. ASSUME MInv, MInv', [CacheNext]_cacheVars
      PROVE  [\A c \in Calls : Returned(c) /\ events' = {} => Whole']_cacheVars
  <2> SUFFICES ASSUME NEW c \in Calls, Returned(c), CacheNext, events' = {} PROVE Whole'
    BY <1>3 DEF cacheVars
  <2>1. Calm
    BY <1>3 DEF MInv, CacheNext, Begin, CallStep, CopyFile, WriteMarker, LookForTarget, Discard, Rename, CallFails,
                Evict, RemoveEntry, EndEvict, StopEvict
  <2>2. \/ Begin(c) \/ Discard(c) \/ Rename(c)
    BY <2>1 DEF CacheNext, CallStep, Begin, CopyFile, WriteMarker, LookForTarget, Discard, Rename, CallFails,
                Evict, RemoveEntry, EndEvict, StopEvict, LeaveEviction, Calm, CacheTypeOK, Returned
  <2>3. CASE Begin(c)
    <3>1. PICK d \in Final : Marker \in entries[d]
      BY <2>1, <2>3 DEF Begin, Calm, CacheTypeOK, Returned
    <3>2. entries[d] = All
      BY <2>1, <2>3, <3>1, MaterializedAssumption DEF Begin, Calm, Kept, Final, Evicting
    <3> QED BY <2>1, <2>3, <3>1, <3>2 DEF Begin, Returned, Calm, CacheTypeOK, Whole, Final, All
  <2>4. CASE Discard(c)
    <3>1. PICK d \in Final : TRUE
      BY <2>1, <2>4 DEF Discard, Calm, Holds
    <3>2. entries[d] = All /\ d # c
      BY <2>1, <2>4, <3>1, CallAlone DEF Discard, Calm, Holds, Final, Working
    <3> QED BY <2>1, <2>4, <3>1, <3>2 DEF Discard, Calm, CacheTypeOK, Whole, Final, All
  <2>5. CASE Rename(c)
    BY <2>1, <2>5 DEF Rename, Returned, Calm, CacheTypeOK, Holds, Whole, Final, All
  <2> QED BY <2>2, <2>3, <2>4, <2>5
<1> QED BY <1>1, <1>2, <1>3, PTL DEF CacheSpec, ReturnsComplete, OnlyWholeReturned

=============================================================================
