----------------------------- MODULE RunProofs ------------------------------
(***************************************************************************)
(* Proofs about RunSession, RunRecords and HostExecution, for any set of   *)
(* runs, of jobs and any bound.                                            *)
(*                                                                         *)
(* The properties of RunSession speak of the files only.  They are not     *)
(* inductive: that a completed run has its summary follows from the order  *)
(* of the writes, which the program counter carries.  Phase says what the  *)
(* files, the status in memory and the verdict are at each step of a live  *)
(* session; with it, every step preserves the properties of its own run,   *)
(* and leaves every other run alone (Frame).                               *)
(*                                                                         *)
(* What is done beside the sessions in RunRecords leaves them alone, so    *)
(* the invariant carries over.  That a reader which started with run.json  *)
(* sees an ended run whole rests on EndedIsFrozen: RecInv says what each   *)
(* reader has seen so far.                                                 *)
(*                                                                         *)
(* The specification of HostExecution implies that of RunSession           *)
(* (HostIsSession), so the theorems hold of executed runs too.  That a     *)
(* failed event always wins over completed needs an invariant of the       *)
(* replay: the failed event of a callable that raised is the last line of  *)
(* the stream, and the session is closed only when the replay has reached  *)
(* the end (Replayed).                                                     *)
(***************************************************************************)
EXTENDS HostExecution, RunRecords, SequenceTheorems, FiniteSetTheorems, TLAPS

\* The three status files of r and its status in memory.
Shows(r, j, y, t, m) == json[r] = j /\ yaml[r] = y /\ text[r] = t /\ mem[r] = m

\* What the closing call of r has written before its summary.
Explained(r) ==
  \/ verdict[r] = "complete" /\ results[r] /\ ~error[r]
  \/ verdict[r] \in {"fail", "fail_with_result"} /\ error[r]

Unwritten(r) == /\ verdict[r] = "none" /\ ~results[r] /\ ~error[r]
                /\ summary[r] = {} /\ report[r] = "none"

Ready(r) == /\ Explained(r) /\ captured[r]
            /\ summary[r] = {metrics[r]}

\* What holds at each step of a session.
Phase(r) ==
  CASE pc[r] \in {"new", "manifest"} ->
         Shows(r, "none", "none", "none", "created") /\ Unwritten(r)
    [] pc[r] = "yaml" ->
         Shows(r, "created", "none", "none", "created") /\ Unwritten(r)
    [] pc[r] = "status" ->
         Shows(r, "created", "created", "none", "created") /\ Unwritten(r)
    [] pc[r] = "capture" ->
         Shows(r, "created", "created", "created", "created") /\ Unwritten(r)
    [] pc[r] = "advance" ->
         \/ /\ Shows(r, "created", "created", "created", "created")
            /\ Unwritten(r) /\ captured[r]
         \/ /\ Shows(r, "running", "running", "running", "running")
            /\ Ready(r) /\ report[r] = "none"
    [] pc[r] = "advanceYaml" ->
         \/ /\ Shows(r, "running", "created", "created", "running")
            /\ Unwritten(r) /\ captured[r]
         \/ /\ Shows(r, Target(r), "running", "running", Target(r))
            /\ Ready(r) /\ report[r] = "none"
    [] pc[r] = "advanceStatus" ->
         \/ /\ Shows(r, "running", "running", "created", "running")
            /\ Unwritten(r) /\ captured[r]
         \/ /\ Shows(r, Target(r), Target(r), "running", Target(r))
            /\ Ready(r) /\ report[r] = "none"
    [] pc[r] = "open" ->
         Shows(r, "running", "running", "running", "running") /\ Unwritten(r) /\ captured[r]
    [] pc[r] = "error" ->
         /\ Shows(r, "running", "running", "running", "running")
         /\ verdict[r] = "fail_with_result" /\ captured[r]
         /\ summary[r] = {} /\ report[r] = "none"
    [] pc[r] = "summary" ->
         /\ Shows(r, "running", "running", "running", "running")
         /\ Explained(r) /\ captured[r]
         /\ summary[r] = {} /\ report[r] = "none"
    [] pc[r] = "report" ->
         /\ Shows(r, Target(r), Target(r), Target(r), Target(r))
         /\ Ready(r) /\ report[r] = "none"
    [] pc[r] = "storage" ->
         /\ Shows(r, "completed", "completed", "completed", "completed")
         /\ Ready(r) /\ verdict[r] = "complete" /\ report[r] = "completed"
    [] OTHER -> TRUE

\* The properties of RunSession, for one run.
InOrder(r) == /\ yaml[r] \in {json[r], text[r]}
              /\ json[r] \in Successors(text[r])
              /\ report[r] # "none" => report[r] = text[r]
Backed(r) ==
  /\ "completed" \in {json[r], yaml[r], text[r], report[r]} =>
        captured[r] /\ results[r] /\ ~error[r] /\ summary[r] = {metrics[r]}
  /\ "failed" \in {json[r], yaml[r], text[r], report[r]} =>
        captured[r] /\ error[r] /\ summary[r] = {metrics[r]}
OnDisk(r) == outcome[r] \in Terminal =>
               /\ pc[r] = "closed"
               /\ {json[r], yaml[r], text[r], report[r]} = {outcome[r]}
Locked(r) == pc[r] \in Live <=> lock[r] = "held"

RunInv(r) == Phase(r) /\ InOrder(r) /\ Backed(r) /\ OnDisk(r) /\ Locked(r)

\* The inductive invariant.
IInv == TypeOK /\ \A r \in Runs : RunInv(r)

Step(r) == Proceed(r) \/ Call(r) \/ Abandon(r) \/ Crash(r)

\* The state of q does not change.
Same(q) == /\ pc'[q] = pc[q] /\ mem'[q] = mem[q] /\ lock'[q] = lock[q]
           /\ json'[q] = json[q] /\ yaml'[q] = yaml[q] /\ text'[q] = text[q]
           /\ captured'[q] = captured[q] /\ metrics'[q] = metrics[q]
           /\ artifacts'[q] = artifacts[q] /\ summary'[q] = summary[q]
           /\ results'[q] = results[q] /\ error'[q] = error[q]
           /\ report'[q] = report[q] /\ verdict'[q] = verdict[q]
           /\ outcome'[q] = outcome[q]

-----------------------------------------------------------------------------

\* Every step preserves the type invariant.
LEMMA TypeStep == ASSUME TypeOK, NEW r \in Runs, Step(r) PROVE TypeOK'
<1> USE DEF TypeOK, Steps, Live, Creating, Moving, Closing, Ended, Statuses,
            Recorded, Verdicts, files, Goto
<1>1. CASE Create(r)
  <2>1. CASE WriteInitialManifest(r)
    BY <2>1 DEF WriteInitialManifest
  <2>2. CASE WriteInitialYaml(r)
    BY <2>2 DEF WriteInitialYaml
  <2>3. CASE WriteInitialStatus(r)
    BY <2>3 DEF WriteInitialStatus
  <2>4. CASE CaptureReproducibility(r)
    BY <2>4 DEF CaptureReproducibility
  <2> QED BY <1>1, <2>1, <2>2, <2>3, <2>4 DEF Create
<1>2. CASE Transition(r)
  <2>1. CASE TransitionManifest(r)
    BY <2>1 DEF TransitionManifest, Target
  <2>2. CASE TransitionYaml(r)
    BY <2>2 DEF TransitionYaml
  <2>3. CASE TransitionStatus(r)
    BY <2>3 DEF TransitionStatus
  <2> QED BY <1>2, <2>1, <2>2, <2>3 DEF Transition
<1>3. CASE Close(r)
  <2>1. CASE WriteError(r)
    BY <2>1 DEF WriteError
  <2>2. CASE WriteMetricSummary(r)
    BY <2>2 DEF WriteMetricSummary
  <2>3. CASE WriteReport(r)
    BY <2>3 DEF WriteReport
  <2>4. CASE FinalizeStorage(r)
    BY <2>4 DEF FinalizeStorage
  <2> QED BY <1>3, <2>1, <2>2, <2>3, <2>4 DEF Close
<1>4. CASE Call(r)
  <2>1. CASE StartRun(r)
    BY <2>1 DEF StartRun
  <2>2. ASSUME NEW m \in Metrics, AppendMetric(r, m) PROVE TypeOK'
    BY <2>2 DEF AppendMetric
  <2>3. CASE SaveArtifactReference(r)
    BY <2>3 DEF SaveArtifactReference
  <2>4. CASE Complete(r)
    BY <2>4 DEF Complete
  <2>5. CASE Fail(r)
    BY <2>5 DEF Fail
  <2>6. CASE FailWithResult(r)
    BY <2>6 DEF FailWithResult
  <2> QED BY <1>4, <2>1, <2>2, <2>3, <2>4, <2>5, <2>6 DEF Call
<1>5. CASE Abandon(r)
  BY <1>5 DEF Abandon
<1>6. CASE Crash(r)
  BY <1>6 DEF Crash
<1> QED BY <1>1, <1>2, <1>3, <1>4, <1>5, <1>6 DEF Step, Proceed

\* A step of one session touches no other run.
LEMMA Frame == ASSUME TypeOK, NEW r \in Runs, Step(r), NEW q \in Runs, q # r
               PROVE  Same(q)
<1> USE DEF TypeOK, files, Goto, Same
<1>1. CASE Proceed(r)
  BY <1>1 DEF Proceed, Create, Transition, Close, WriteInitialManifest, WriteInitialYaml,
              WriteInitialStatus, CaptureReproducibility, TransitionManifest, TransitionYaml,
              TransitionStatus, WriteError, WriteMetricSummary, WriteReport, FinalizeStorage
<1>2. CASE Call(r)
  BY <1>2 DEF Call, StartRun, AppendMetric, SaveArtifactReference, Complete, Fail,
              FailWithResult
<1>3. CASE Abandon(r) \/ Crash(r)
  BY <1>3 DEF Abandon, Crash
<1> QED BY <1>1, <1>2, <1>3 DEF Step


\* The invariant of a run is a formula over the state of that run.
LEMMA SameInv == ASSUME NEW q \in Runs, Same(q), RunInv(q) PROVE RunInv(q)'
<1> USE DEF Same
<1>1. Phase(q)'
  BY DEF RunInv, Phase, Shows, Unwritten, Ready, Explained, Target
<1>2. InOrder(q)' /\ Backed(q)' /\ OnDisk(q)' /\ Locked(q)'
  <2>1. InOrder(q)'
    BY DEF RunInv, InOrder, Backed, OnDisk, Locked
  <2>2. Backed(q)'
    BY DEF RunInv, InOrder, Backed, OnDisk, Locked
  <2>3. OnDisk(q)'
    BY SMTT(60) DEF RunInv, InOrder, Backed, OnDisk, Locked
  <2>4. Locked(q)'
    BY DEF RunInv, InOrder, Backed, OnDisk, Locked
  <2> QED BY <2>1, <2>2, <2>3, <2>4
<1> QED BY <1>1, <1>2 DEF RunInv

\* A step of a session preserves the invariant of its own run: each write
\* finds on disk what the steps before it left there.
LEMMA RunStep == ASSUME TypeOK, NEW r \in Runs, RunInv(r), Step(r) PROVE RunInv(r)'
<1> USE DEF TypeOK, RunInv, Phase, InOrder, Backed, OnDisk, Locked, Shows, Unwritten, Ready,
            Explained, Steps, Live, Creating, Moving, Closing, Ended, Terminal, Successors,
            CanTransitionTo, Transitions, Recorded, Statuses, Verdicts, Target, files, Goto
<1>1. CASE Create(r)
  <2>1. CASE WriteInitialManifest(r)
    BY <2>1 DEF WriteInitialManifest
  <2>2. CASE WriteInitialYaml(r)
    BY <2>2 DEF WriteInitialYaml
  <2>3. CASE WriteInitialStatus(r)
    BY <2>3 DEF WriteInitialStatus
  <2>4. CASE CaptureReproducibility(r)
    BY <2>4, SMTT(60) DEF CaptureReproducibility
  <2> QED BY <1>1, <2>1, <2>2, <2>3, <2>4 DEF Create
<1>2. CASE Transition(r)
  <2>1. CASE TransitionManifest(r)
    BY <2>1 DEF TransitionManifest
  <2>2. CASE TransitionYaml(r)
    BY <2>2 DEF TransitionYaml
  <2>3. CASE TransitionStatus(r)
    BY <2>3, SMTT(60) DEF TransitionStatus
  <2> QED BY <1>2, <2>1, <2>2, <2>3 DEF Transition
<1>3. CASE Close(r)
  <2>1. CASE WriteError(r)
    BY <2>1 DEF WriteError
  <2>2. CASE WriteMetricSummary(r)
    BY <2>2 DEF WriteMetricSummary
  <2>3. CASE WriteReport(r)
    BY <2>3 DEF WriteReport
  <2>4. CASE FinalizeStorage(r)
    BY <2>4, SMTT(60) DEF FinalizeStorage
  <2> QED BY <1>3, <2>1, <2>2, <2>3, <2>4 DEF Close
<1>4. CASE Call(r)
  <2>1. CASE StartRun(r)
    BY <2>1 DEF StartRun
  <2>2. ASSUME NEW m \in Metrics, AppendMetric(r, m) PROVE RunInv(r)'
    BY <2>2 DEF AppendMetric
  <2>3. CASE SaveArtifactReference(r)
    BY <2>3 DEF SaveArtifactReference
  <2>4. CASE Complete(r)
    BY <2>4 DEF Complete
  <2>5. CASE Fail(r)
    BY <2>5 DEF Fail
  <2>6. CASE FailWithResult(r)
    BY <2>6 DEF FailWithResult
  <2> QED BY <1>4, <2>1, <2>2, <2>3, <2>4, <2>5, <2>6 DEF Call
<1>5. CASE Abandon(r)
  BY <1>5 DEF Abandon
<1>6. CASE Crash(r)
  BY <1>6 DEF Crash
<1> QED BY <1>1, <1>2, <1>3, <1>4, <1>5, <1>6 DEF Step, Proceed

-----------------------------------------------------------------------------

LEMMA InitInv == Init => IInv
<1> SUFFICES ASSUME Init PROVE IInv
  OBVIOUS
<1>1. TypeOK
  BY DEF Init, TypeOK, Steps, Statuses, Recorded, Verdicts
<1>2. ASSUME NEW r \in Runs PROVE RunInv(r)
  BY <1>2 DEF Init, RunInv, Phase, Shows, Unwritten, InOrder, Backed, OnDisk, Locked,
              Successors, CanTransitionTo, Transitions, Recorded, Statuses, Terminal,
              Live, Creating, Moving, Closing
<1> QED BY <1>1, <1>2 DEF IInv

LEMMA NextIsStep == ASSUME Next PROVE (\E r \in Runs : Step(r)) \/ UNCHANGED vars
BY DEF Next, Step, Done

LEMMA StutterSame == ASSUME UNCHANGED vars, NEW q \in Runs PROVE Same(q)
BY DEF vars, files, Same

LEMMA NextInv == IInv /\ [Next]_vars => IInv'
<1> SUFFICES ASSUME IInv, [Next]_vars PROVE IInv'
  OBVIOUS
<1>1. ASSUME NEW r \in Runs, Step(r) PROVE IInv'
  <2>1. TypeOK'
    BY <1>1, TypeStep DEF IInv
  <2>2. ASSUME NEW q \in Runs PROVE RunInv(q)'
    <3>1. CASE q = r
      BY <1>1, <3>1, RunStep DEF IInv
    <3>2. CASE q # r
      BY <1>1, <3>2, Frame, SameInv DEF IInv
    <3> QED BY <3>1, <3>2
  <2> QED BY <2>1, <2>2 DEF IInv
<1>2. CASE UNCHANGED vars
  <2>1. TypeOK'
    BY <1>2 DEF IInv, TypeOK, vars, files
  <2>2. ASSUME NEW q \in Runs PROVE RunInv(q)'
    BY <1>2, StutterSame, SameInv DEF IInv
  <2> QED BY <2>1, <2>2 DEF IInv
<1> QED BY <1>1, <1>2, NextIsStep

\* The inductive invariant holds of every session.
THEOREM Invariance == Spec => []IInv
BY InitInv, NextInv, PTL DEF Spec

\* Type correctness.
THEOREM TypeCorrect == Spec => []TypeOK
<1>1. IInv => TypeOK
  BY DEF IInv
<1> QED BY <1>1, Invariance, PTL

\* The three status files are written in order, whatever interrupts them.
THEOREM InOrderAlways == Spec => []StatusFilesInOrder
<1>1. IInv => StatusFilesInOrder
  BY DEF IInv, RunInv, InOrder, StatusFilesInOrder
<1> QED BY <1>1, Invariance, PTL

\* No file of a run says completed before what it stands for is on disk.
THEOREM CompletedBacked == Spec => []CompletedIsBacked
<1>1. IInv => CompletedIsBacked
  BY DEF IInv, RunInv, Backed, CompletedIsBacked
<1> QED BY <1>1, Invariance, PTL

\* No file of a run says failed before the reason is on disk.
THEOREM FailedBacked == Spec => []FailedIsBacked
<1>1. IInv => FailedIsBacked
  BY DEF IInv, RunInv, Backed, FailedIsBacked
<1> QED BY <1>1, Invariance, PTL

\* What a closing call returns is what the run directory says, from then on.
THEOREM OutcomeOnDisk == Spec => []OutcomeIsOnDisk
<1>1. IInv => OutcomeIsOnDisk
  BY DEF IInv, RunInv, OnDisk, OutcomeIsOnDisk
<1> QED BY <1>1, Invariance, PTL

\* The files of a run tell one story.
THEOREM StatusAlwaysTold == Spec => []StatusIsTold
BY InOrderAlways, OutcomeOnDisk, PTL DEF StatusIsTold

\* Whichever file shows a run as ended, what backs it is on disk.
THEOREM EndedBacked == Spec => []EndedIsBacked
BY CompletedBacked, FailedBacked, PTL DEF EndedIsBacked

\* A session writes under its lock.
THEOREM Locking == Spec => []LockedWhileLive
<1>1. IInv => LockedWhileLive
  BY DEF IInv, RunInv, Locked, LockedWhileLive
<1> QED BY <1>1, Invariance, PTL

-----------------------------------------------------------------------------

LEMMA FrozenStep == ASSUME TypeOK, NEW r \in Runs, RunInv(r), Step(r), json[r] \in Terminal
                    PROVE  Unchanging(r)
<1> USE DEF TypeOK, RunInv, Phase, Shows, Unwritten, Ready, Terminal, Unchanging, files, Goto
<1>1. CASE Create(r)
  BY <1>1 DEF Create, WriteInitialManifest, WriteInitialYaml, WriteInitialStatus,
              CaptureReproducibility
<1>2. CASE Transition(r)
  BY <1>2 DEF Transition, TransitionManifest, TransitionYaml, TransitionStatus
<1>3. CASE Close(r)
  BY <1>3 DEF Close, WriteError, WriteMetricSummary, WriteReport, FinalizeStorage
<1>4. CASE Call(r)
  BY <1>4 DEF Call, StartRun, AppendMetric, SaveArtifactReference, Complete, Fail,
              FailWithResult
<1>5. CASE Abandon(r) \/ Crash(r)
  BY <1>5 DEF Abandon, Crash
<1> QED BY <1>1, <1>2, <1>3, <1>4, <1>5 DEF Step, Proceed

\* An ended run and its evidence never change.
THEOREM FrozenOnceEnded == Spec => EndedIsFrozen
<1>1. ASSUME IInv, [Next]_vars, NEW q \in Runs, json[q] \in Terminal
      PROVE  Unchanging(q)
  <2>1. CASE UNCHANGED vars
    BY <2>1 DEF vars, files, Unchanging
  <2>2. ASSUME NEW r \in Runs, Step(r) PROVE Unchanging(q)
    <3>1. CASE q = r
      BY <1>1, <2>2, <3>1, FrozenStep DEF IInv
    <3>2. CASE q # r
      BY <1>1, <2>2, <3>2, Frame DEF IInv, Same, Unchanging
    <3> QED BY <3>1, <3>2
  <2> QED BY <1>1, <2>1, <2>2, NextIsStep
<1>2. IInv /\ [Next]_vars => [\A r \in Runs : json[r] \in Terminal => Unchanging(r)]_vars
  BY <1>1
<1> QED BY <1>2, Invariance, PTL DEF Spec, EndedIsFrozen

-----------------------------------------------------------------------------
(* The session implements the run ledger.                                  *)

\* What a step of the session does to the evidence of its run.
LEMMA EvidenceOf == ASSUME TypeOK, NEW r \in Runs, Step(r),
                           NEW e, Backing(r)' = Backing(r) \cup e
                    PROVE  [q \in Runs |-> Backing(q)]' =
                             [[q \in Runs |-> Backing(q)] EXCEPT ![r] = @ \cup e]
<1>1. ASSUME NEW q \in Runs, q # r PROVE Backing(q)' = Backing(q)
  BY <1>1, Frame DEF Same, Backing
<1> QED BY <1>1

\* The steps of the ledger, and its stuttering.
LEMMA LedgerStep == ASSUME NEW r \in Runs,
                           \/ Ledger!Open(r)
                           \/ \E e \in Ledger!Evidence : Ledger!Gather(r, e)
                           \/ \E m \in Metrics : Ledger!Measure(r, m)
                           \/ \E s \in {"running", "completed", "failed"} : Ledger!Advance(r, s)
                    PROVE  [Ledger!Next]_(Ledger!vars)
BY DEF Ledger!Next

LEMMA LedgerStutter == ASSUME TypeOK, NEW r \in Runs, Step(r), Backing(r)' = Backing(r),
                              UNCHANGED <<json, metrics>>
                       PROVE  [Ledger!Next]_(Ledger!vars)
<1>1. Backing(r)' = Backing(r) \cup {}
  OBVIOUS
<1>2. [q \in Runs |-> Backing(q)]' = [q \in Runs |-> Backing(q)]
  BY <1>1, EvidenceOf
<1> QED BY <1>2 DEF Ledger!vars

\* Adding one file to the evidence.
LEMMA LedgerGather == ASSUME TypeOK, NEW r \in Runs, Step(r), NEW e \in Ledger!Evidence,
                             json[r] \in {"created", "running"},
                             Backing(r)' = Backing(r) \cup {e},
                             UNCHANGED <<json, metrics>>
                      PROVE  [Ledger!Next]_(Ledger!vars)
<1>1. [q \in Runs |-> Backing(q)]' = [[q \in Runs |-> Backing(q)] EXCEPT ![r] = @ \cup {e}]
  BY EvidenceOf
<1>2. Ledger!Gather(r, e)
  BY <1>1 DEF Ledger!Gather
<1> QED BY <1>2, LedgerStep

LEMMA CreateRefines == ASSUME TypeOK, NEW r \in Runs, RunInv(r), Create(r)
                       PROVE  [Ledger!Next]_(Ledger!vars)
<1> USE DEF RunInv, Phase, Shows, Goto
<1> Step(r)
  BY DEF Step, Proceed
<1>1. CASE WriteInitialManifest(r)
  <2>1. Backing(r)' = Backing(r) \cup {}
    BY <1>1 DEF WriteInitialManifest, Backing
  <2>2. [q \in Runs |-> Backing(q)]' = [q \in Runs |-> Backing(q)]
    BY <2>1, EvidenceOf
  <2>3. Ledger!Open(r)
    BY <1>1, <2>2 DEF WriteInitialManifest, Ledger!Open
  <2> QED BY <2>3, LedgerStep
<1>2. CASE WriteInitialYaml(r) \/ WriteInitialStatus(r)
  BY <1>2, LedgerStutter DEF WriteInitialYaml, WriteInitialStatus, Backing
<1>3. CASE CaptureReproducibility(r)
  <2>1. Backing(r)' = Backing(r) \cup {"reproducibility"}
    BY <1>3 DEF CaptureReproducibility, Backing, TypeOK
  <2> QED BY <1>3, <2>1, LedgerGather DEF CaptureReproducibility, Ledger!Evidence
<1> QED BY <1>1, <1>2, <1>3 DEF Create

\* run.json moves only when what its new status requires is there.
LEMMA TransitionRefines == ASSUME TypeOK, NEW r \in Runs, RunInv(r), Transition(r)
                           PROVE  [Ledger!Next]_(Ledger!vars)
<1> Step(r)
  BY DEF Step, Proceed
<1>1. CASE TransitionManifest(r)
  <2>1. Backing(r)' = Backing(r) \cup {}
    BY <1>1 DEF TransitionManifest, Backing
  <2>2. [q \in Runs |-> Backing(q)]' = [q \in Runs |-> Backing(q)]
    BY <2>1, EvidenceOf
  <2>3. /\ json' = [json EXCEPT ![r] = Target(r)]
        /\ UNCHANGED metrics
        /\ CanTransitionTo(json[r], Target(r))
    BY <1>1 DEF TransitionManifest, RunInv, Phase, Shows, Goto
  <2>4. Target(r) \in {"running", "completed", "failed"}
    BY DEF Target
  <2>5. /\ Ledger!Required(Target(r)) \subseteq Backing(r)
        /\ Ledger!Excluded(Target(r)) \cap Backing(r) = {}
    BY <1>1 DEF TransitionManifest, RunInv, Phase, Shows, Goto, Target, Backing, Unwritten,
                Ready, Explained, Ledger!Required, Ledger!Excluded, CanTransitionTo,
                Transitions
  <2>6. Ledger!Advance(r, Target(r))
    BY <2>2, <2>3, <2>5 DEF Ledger!Advance, Ledger!CanTransitionTo, Ledger!Transitions,
                            CanTransitionTo, Transitions
  <2> QED BY <2>4, <2>6, LedgerStep
<1>2. CASE TransitionYaml(r) \/ TransitionStatus(r)
  BY <1>2, LedgerStutter DEF TransitionYaml, TransitionStatus, Backing
<1> QED BY <1>1, <1>2 DEF Transition

LEMMA CloseRefines == ASSUME TypeOK, NEW r \in Runs, RunInv(r), Close(r)
                      PROVE  [Ledger!Next]_(Ledger!vars)
<1> Step(r)
  BY DEF Step, Proceed
<1>1. CASE WriteError(r)
  <2>1. Backing(r)' = Backing(r) \cup {"error"}
    BY <1>1 DEF WriteError, Backing, TypeOK
  <2>2. json[r] = "running"
    BY <1>1 DEF WriteError, Goto, RunInv, Phase, Shows
  <2> QED BY <1>1, <2>1, <2>2, LedgerGather DEF WriteError, Ledger!Evidence
<1>2. CASE WriteMetricSummary(r)
  <2>1. Backing(r)' = Backing(r) \cup {"summary"}
    BY <1>2 DEF WriteMetricSummary, Backing, TypeOK
  <2>2. json[r] = "running"
    BY <1>2 DEF WriteMetricSummary, Goto, RunInv, Phase, Shows
  <2> QED BY <1>2, <2>1, <2>2, LedgerGather DEF WriteMetricSummary, Ledger!Evidence
<1>3. CASE WriteReport(r) \/ FinalizeStorage(r)
  BY <1>3, LedgerStutter DEF WriteReport, FinalizeStorage, Backing, files
<1> QED BY <1>1, <1>2, <1>3 DEF Close

LEMMA CallRefines == ASSUME TypeOK, NEW r \in Runs, RunInv(r), Call(r)
                     PROVE  [Ledger!Next]_(Ledger!vars)
<1> Step(r)
  BY DEF Step
<1>1. CASE StartRun(r) \/ SaveArtifactReference(r)
  BY <1>1, LedgerStutter DEF StartRun, SaveArtifactReference, Backing, files
<1>2. ASSUME NEW m \in Metrics, AppendMetric(r, m) PROVE [Ledger!Next]_(Ledger!vars)
  <2>1. Backing(r)' = Backing(r) \cup {}
    BY <1>2 DEF AppendMetric, Backing
  <2>2. [q \in Runs |-> Backing(q)]' = [q \in Runs |-> Backing(q)]
    BY <2>1, EvidenceOf
  <2>3. /\ json[r] = "running"
        /\ "summary" \notin Backing(r)
    BY <1>2 DEF AppendMetric, RunInv, Phase, Shows, Unwritten, Backing
  <2>4. Ledger!Measure(r, m)
    BY <1>2, <2>2, <2>3 DEF AppendMetric, Ledger!Measure
  <2> QED BY <2>4, LedgerStep
<1>3. ASSUME Complete(r) \/ FailWithResult(r) PROVE [Ledger!Next]_(Ledger!vars)
  <2>1. Backing(r)' = Backing(r) \cup {"results"}
    BY <1>3 DEF Complete, FailWithResult, Backing, TypeOK
  <2>2. json[r] = "running"
    BY <1>3 DEF Complete, FailWithResult, Goto, RunInv, Phase, Shows
  <2> QED BY <1>3, <2>1, <2>2, LedgerGather DEF Complete, FailWithResult, Ledger!Evidence
<1>4. ASSUME Fail(r) PROVE [Ledger!Next]_(Ledger!vars)
  <2>1. Backing(r)' = Backing(r) \cup {"error"}
    BY <1>4 DEF Fail, Backing, TypeOK
  <2>2. json[r] = "running"
    BY <1>4 DEF Fail, Goto, RunInv, Phase, Shows
  <2> QED BY <1>4, <2>1, <2>2, LedgerGather DEF Fail, Ledger!Evidence
<1> QED BY <1>1, <1>2, <1>3, <1>4 DEF Call

\* A session, with its crashes and its errors, behaves as the ledger promises.
THEOREM Implements == Spec => LedgerSpec
<1>1. Init => Ledger!Init
  BY DEF Init, Ledger!Init, Backing
<1>2. ASSUME IInv, [Next]_vars PROVE [Ledger!Next]_(Ledger!vars)
  <2>1. ASSUME NEW r \in Runs, Step(r) PROVE [Ledger!Next]_(Ledger!vars)
    <3>1. TypeOK /\ RunInv(r)
      BY <1>2 DEF IInv
    <3>2. CASE Proceed(r)
      BY <3>1, <3>2, CreateRefines, TransitionRefines, CloseRefines DEF Proceed
    <3>3. CASE Call(r)
      BY <3>1, <3>3, CallRefines
    <3>4. CASE Abandon(r) \/ Crash(r)
      BY <2>1, <3>1, <3>4, LedgerStutter DEF Abandon, Crash, Backing, files
    <3> QED BY <2>1, <3>2, <3>3, <3>4 DEF Step
  <2>2. CASE UNCHANGED vars
    BY <2>2 DEF vars, files, Ledger!vars, Backing
  <2> QED BY <1>2, <2>1, <2>2, NextIsStep
<1> QED BY <1>1, <1>2, Invariance, PTL DEF Spec, LedgerSpec, Ledger!Spec

-----------------------------------------------------------------------------
(* RunRecords: what is read, copied and recorded beside the sessions.      *)

\* The session of a run moves its status to a terminal one only when its user closed it.
Closed(r) == json[r] \in Terminal => verdict[r] # "none"

\* A file of the run under inspection that was read is as it will stay, once
\* run.json, the first of them, was read as that of an ended run.
Inspected ==
  /\ look = <<>> => shown.json \notin Terminal
  /\ look # <<>> =>
       /\ look \in Runs \X (0..4)
       /\ shown.json \in Terminal =>
            /\ json[look[1]] \in Terminal
            /\ \A i \in 1..look[2] :
                 shown[ReadOrder[i]] = Content(look[1])[ReadOrder[i]]

\* A freeze that began when the run had ended copies files that no longer change.
Frosted ==
  /\ frost = <<>> => copied = {}
  /\ frost # <<>> =>
       /\ frost \in Runs \X {"copying", "frozen", "stopped"}
       /\ frost[2] = "frozen" => copied = Files
       /\ settled => /\ pc[frost[1]] \in Ended
                     /\ \A f \in copied : copy[f] = Content(frost[1])[f]

\* What is known of the log and of the row of a job at each step of start_job.
JobRecorded(j) ==
  /\ job[j] \in {"logged", "recorded"} => j \in joblog \cup wiped
  /\ job[j] = "recorded" => j \in rows \cup wiped

JobsRecorded == rows \ wiped \subseteq joblog /\ \A j \in Jobs : JobRecorded(j)

\* A session of rlab exec is closed only when its job is recorded.
ExecRecorded(r) == verdict[r] # "none" => job[r] = "recorded"

Contents == [json : Recorded, metrics : Seq(Metrics), summary : SUBSET Seq(Metrics),
             results : BOOLEAN, error : BOOLEAN]

RecTypeOK == /\ exec \subseteq Runs \cap Jobs
             /\ job \in [Jobs -> {"none", "running", "ran", "logged", "recorded", "error"}]
             /\ copied \subseteq Files
             /\ shown \in Contents /\ copy \in Contents

\* The inductive invariant, beside IInv.
RecInv == /\ RecTypeOK
          /\ \A r \in Runs : Closed(r)
          /\ Inspected
          /\ Frosted
          /\ JobsRecorded
          /\ \A r \in exec : ExecRecorded(r)

\* What others do to a run is a step of its session, or nothing.
LEMMA RecordsStepIsSessionStep ==
  ASSUME RecTypeOK, RNext PROVE (\E r \in Runs : Step(r)) \/ UNCHANGED vars
<1>1. ASSUME NEW r \in Runs, OwnStep(r) PROVE Step(r)
  BY <1>1 DEF OwnStep, ExecCompletes, Call, Step
<1>2. ASSUME NEW j \in Jobs, JobStep(j)
      PROVE  (\E r \in Runs : Step(r)) \/ UNCHANGED vars
  BY <1>2 DEF JobStep, StartJob, JobEnds, WriteJobLog, RecordJob, JobError, Step, RecTypeOK
<1>3. CASE CleanCache \/ Observe \/ ROver
  BY <1>3 DEF CleanCache, Observe, ROver, Inspect, Freeze, ReadFile, CopyFile, MarkFrozen,
              FreezeError, FreezeEnds, rvars
<1> QED BY <1>1, <1>2, <1>3 DEF RNext

LEMMA RecTypeStep == ASSUME TypeOK, RecTypeOK, Inspected, Frosted, RNext PROVE RecTypeOK'
<1> USE DEF RecTypeOK, jobVars, lookVars, frostVars, recVars
<1>1. ASSUME NEW r \in Runs, Content(r) \notin Contents PROVE FALSE
  BY <1>1 DEF Content, Contents, TypeOK
<1>2. ASSUME NEW r \in Runs, OwnStep(r) PROVE RecTypeOK'
  BY <1>2 DEF OwnStep
<1>3. ASSUME NEW j \in Jobs, JobStep(j) PROVE RecTypeOK'
  BY <1>3 DEF JobStep, MyJob, StartJob, JobEnds, WriteJobLog, RecordJob, JobError
<1>4. CASE CleanCache \/ ROver \/ MarkFrozen \/ FreezeError
  BY <1>4 DEF CleanCache, ROver, rvars, MarkFrozen, FreezeError, FreezeEnds
<1>5. ASSUME NEW r \in Runs, Inspect(r) \/ Freeze(r) PROVE RecTypeOK'
  BY <1>5 DEF Inspect, Freeze
<1>6. ASSUME ReadFile PROVE RecTypeOK'
  <2>1. /\ look[1] \in Runs /\ look[2] \in 0..3
        /\ look' = [look EXCEPT ![2] = @ + 1]
    BY <1>6 DEF Inspected, ReadFile, ReadOrder
  <2> DEFINE f == ReadOrder[look[2] + 1]
  <2>2. f \in {"json", "summary", "results", "error"}
    BY <2>1 DEF ReadOrder
  <2>3. shown' = [shown EXCEPT ![f] = Content(look[1])[f]]
    BY <1>6, <2>1 DEF ReadFile, Inspected
  <2>4. shown' \in Contents
    BY <1>1, <2>1, <2>2, <2>3 DEF Contents
  <2> QED BY <1>6, <2>4 DEF ReadFile
<1>7. ASSUME NEW f \in Files, CopyFile(f) PROVE RecTypeOK'
  <2>1. frost[1] \in Runs
    BY <1>7 DEF Frosted, CopyFile, Copying
  <2>2. copy' \in Contents
    BY <1>1, <1>7, <2>1 DEF CopyFile, Contents, Files
  <2> QED BY <1>7, <2>2 DEF CopyFile
<1> QED BY <1>2, <1>3, <1>4, <1>5, <1>6, <1>7 DEF RNext, Observe

LEMMA ClosedStep == ASSUME TypeOK, NEW r \in Runs, RunInv(r), Closed(r), Step(r)
                    PROVE  Closed(r)'
<1> USE DEF TypeOK, RunInv, Phase, Shows, Closed, Terminal, files, Goto
<1>1. CASE Create(r)
  BY <1>1 DEF Create, WriteInitialManifest, WriteInitialYaml, WriteInitialStatus,
              CaptureReproducibility
<1>2. CASE Transition(r)
  BY <1>2 DEF Transition, TransitionManifest, TransitionYaml, TransitionStatus, Target
<1>3. CASE Close(r)
  BY <1>3 DEF Close, WriteError, WriteMetricSummary, WriteReport, FinalizeStorage
<1>4. CASE Call(r)
  BY <1>4 DEF Call, StartRun, AppendMetric, SaveArtifactReference, Complete, Fail,
              FailWithResult
<1>5. CASE Abandon(r) \/ Crash(r)
  BY <1>5 DEF Abandon, Crash
<1> QED BY <1>1, <1>2, <1>3, <1>4, <1>5 DEF Step, Proceed

\* A session that ended takes no step.
LEMMA EndedStays == ASSUME NEW r \in Runs, Step(r) PROVE pc[r] \notin Ended
<1> USE DEF Ended, Live, Creating, Moving, Closing, Goto
<1>1. CASE Proceed(r)
  BY <1>1 DEF Proceed, Create, Transition, Close, WriteInitialManifest, WriteInitialYaml,
              WriteInitialStatus, CaptureReproducibility, TransitionManifest, TransitionYaml,
              TransitionStatus, WriteError, WriteMetricSummary, WriteReport, FinalizeStorage
<1>2. CASE Call(r)
  BY <1>2 DEF Call, StartRun, AppendMetric, SaveArtifactReference, Complete, Fail,
              FailWithResult
<1>3. CASE Abandon(r) \/ Crash(r)
  BY <1>3 DEF Abandon, Crash
<1> QED BY <1>1, <1>2, <1>3 DEF Step

\* What a step of any session, or none, leaves of the files of a run.
LEMMA ContentStays == ASSUME IInv, (\E q \in Runs : Step(q)) \/ UNCHANGED vars,
                             NEW r \in Runs, json[r] \in Terminal \/ pc[r] \in Ended
                      PROVE  /\ Content(r)' = Content(r)
                             /\ json'[r] = json[r]
                             /\ pc[r] \in Ended => pc'[r] = pc[r]
<1>1. CASE UNCHANGED vars
  BY <1>1 DEF vars, files, Content
<1>2. ASSUME NEW q \in Runs, Step(q), q # r PROVE Same(r)
  BY <1>2, Frame DEF IInv
<1>3. ASSUME Step(r) PROVE Unchanging(r) /\ pc[r] \notin Ended
  BY <1>3, FrozenStep, EndedStays DEF IInv
<1> QED BY <1>1, <1>2, <1>3 DEF Same, Unchanging, Content

LEMMA InspectedStep == ASSUME IInv, RecTypeOK, Inspected, RNext PROVE Inspected'
<1> USE DEF Inspected, jobVars, lookVars, frostVars, recVars
<1>1. (\E q \in Runs : Step(q)) \/ UNCHANGED vars
  BY RecordsStepIsSessionStep
<1>2. ASSUME UNCHANGED lookVars PROVE Inspected'
  <2>1. ASSUME NEW r \in Runs, json[r] \in Terminal
        PROVE  Content(r)' = Content(r) /\ json'[r] = json[r]
    BY <1>1, <2>1, ContentStays
  <2>2. ASSUME look # <<>>, shown.json \in Terminal
        PROVE  /\ json'[look[1]] \in Terminal
               /\ \A i \in 1..look[2] :
                    shown[ReadOrder[i]] = Content(look[1])'[ReadOrder[i]]
    <3>1. PICK r \in Runs : r = look[1]
      BY <2>2
    <3>2. json[r] \in Terminal
      BY <2>2, <3>1
    <3> QED BY <1>2, <2>1, <2>2, <3>1, <3>2 DEF Content
  <2> QED BY <1>2, <2>2
<1>3. ASSUME NEW r \in Runs, Inspect(r) PROVE Inspected'
  BY <1>3 DEF Inspect, ReadOrder
<1>4. CASE ReadFile
  <2> DEFINE r == look[1]
             k == look[2]
             f == ReadOrder[k + 1]
  <2>1. /\ r \in Runs /\ k \in 0..3 /\ look = <<r, k>>
        /\ look' = <<r, k + 1>>
    BY <1>4 DEF ReadFile, ReadOrder
  <2>2. f \in {"json", "summary", "results", "error"} /\ (f = "json" <=> k = 0)
    BY <2>1 DEF ReadOrder
  <2>3. shown' = [shown EXCEPT ![f] = Content(r)[f]] /\ UNCHANGED vars
    BY <1>4, <2>1 DEF ReadFile
  <2>4. /\ \A q \in Runs : Content(q)' = Content(q)
        /\ json' = json
    BY <2>3 DEF vars, files, Content
  <2>5. shown'[f] = Content(r)[f] /\ \A g \in Files \ {f} : shown'[g] = shown[g]
    BY <2>2, <2>3 DEF RecTypeOK, Contents, Files
  <2>6. ASSUME shown'.json \in Terminal PROVE json[r] \in Terminal
    BY <2>1, <2>2, <2>5, <2>6 DEF Content, Files
  <2>7. ASSUME shown'.json \in Terminal, NEW i \in 1..(k + 1)
        PROVE  shown'[ReadOrder[i]] = Content(r)[ReadOrder[i]]
    <3>1. CASE i = k + 1
      BY <2>5, <3>1
    <3>2. CASE i # k + 1
      <4>1. k # 0 /\ i \in 1..k
        BY <2>1, <3>2
      <4>2. shown.json = shown'.json
        BY <2>2, <2>5, <4>1 DEF Files
      <4>3. ReadOrder[i] \in Files \ {f}
        BY <2>1, <4>1 DEF ReadOrder, Files
      <4> QED BY <2>1, <2>5, <2>7, <4>1, <4>2, <4>3
    <3> QED BY <3>1, <3>2
  <2> QED BY <2>1, <2>4, <2>6, <2>7
<1>5. CASE ROver
  BY <1>2, <1>5 DEF ROver, rvars
<1>6. ASSUME NEW r \in Runs, OwnStep(r) PROVE Inspected'
  BY <1>2, <1>6 DEF OwnStep
<1>7. ASSUME NEW j \in Jobs, JobStep(j) PROVE Inspected'
  BY <1>2, <1>7 DEF JobStep, StartJob, JobEnds, WriteJobLog, RecordJob, JobError
<1> QED BY <1>2, <1>3, <1>4, <1>5, <1>6, <1>7 DEF RNext, Observe, CleanCache, Freeze,
           CopyFile, MarkFrozen, FreezeError, FreezeEnds

LEMMA FrostedStep == ASSUME IInv, RecTypeOK, Frosted, RNext PROVE Frosted'
<1> USE DEF Frosted, jobVars, lookVars, frostVars, recVars
<1>1. (\E q \in Runs : Step(q)) \/ UNCHANGED vars
  BY RecordsStepIsSessionStep
<1>2. ASSUME UNCHANGED frostVars PROVE Frosted'
  <2>1. ASSUME NEW r \in Runs, pc[r] \in Ended
        PROVE  Content(r)' = Content(r) /\ pc'[r] = pc[r]
    BY <1>1, <2>1, ContentStays
  <2>2. ASSUME frost # <<>>, settled
        PROVE  /\ pc'[frost[1]] \in Ended
               /\ \A f \in copied : copy[f] = Content(frost[1])'[f]
    <3>1. PICK r \in Runs : r = frost[1]
      BY <2>2
    <3>2. pc[r] \in Ended
      BY <2>2, <3>1
    <3> QED BY <1>2, <2>1, <2>2, <3>1, <3>2 DEF Content
  <2> QED BY <1>2, <2>2
<1>3. ASSUME NEW r \in Runs, Freeze(r) PROVE Frosted'
  BY <1>3 DEF Freeze, vars
<1>4. ASSUME NEW f \in Files, CopyFile(f) PROVE Frosted'
  <2> DEFINE r == frost[1]
  <2>1. /\ frost \in Runs \X {"copying"} /\ frost # <<>>
        /\ UNCHANGED <<vars, frost, settled>>
        /\ copied' = copied \cup {f} /\ f \notin copied
        /\ copy' = [copy EXCEPT ![f] = Content(r)[f]]
    BY <1>4 DEF CopyFile, Copying
  <2>2. (\A q \in Runs : Content(q)' = Content(q)) /\ pc' = pc
    BY <2>1 DEF vars, files, Content
  <2>3. copy'[f] = Content(r)[f] /\ \A g \in Files \ {f} : copy'[g] = copy[g]
    BY <2>1 DEF RecTypeOK, Contents, Files
  <2>4. \A g \in copied : g \in Files \ {f}
    BY <2>1 DEF RecTypeOK
  <2> QED BY <2>1, <2>2, <2>3, <2>4
<1>5. CASE MarkFrozen \/ FreezeError
  <2>1. UNCHANGED vars
    BY <1>5 DEF MarkFrozen, FreezeError, FreezeEnds
  <2>2. \A r \in Runs : Content(r)' = Content(r)
    BY <2>1 DEF vars, files, Content
  <2> QED BY <1>5, <2>1, <2>2 DEF MarkFrozen, FreezeError, FreezeEnds, Copying, vars
<1>6. CASE ROver
  BY <1>2, <1>6 DEF ROver, rvars
<1>7. ASSUME NEW r \in Runs, OwnStep(r) PROVE Frosted'
  BY <1>2, <1>7 DEF OwnStep
<1>8. ASSUME NEW j \in Jobs, JobStep(j) PROVE Frosted'
  BY <1>2, <1>8 DEF JobStep, StartJob, JobEnds, WriteJobLog, RecordJob, JobError
<1>9. ASSUME NEW r \in Runs, Inspect(r) PROVE Frosted'
  BY <1>2, <1>9 DEF Inspect
<1> QED BY <1>2, <1>3, <1>4, <1>5, <1>6, <1>7, <1>8, <1>9 DEF RNext, Observe, CleanCache,
           ReadFile

\* What a session does leaves the jobs alone, and the log comes before the row.
LEMMA JobsStep == ASSUME RecTypeOK, JobsRecorded, RNext PROVE JobsRecorded'
<1> USE DEF JobsRecorded, JobRecorded, RecTypeOK, jobVars, lookVars, frostVars, recVars
<1>1. ASSUME UNCHANGED jobVars PROVE JobsRecorded'
  BY <1>1
<1>2. ASSUME NEW r \in Runs, OwnStep(r) PROVE JobsRecorded'
  BY <1>1, <1>2 DEF OwnStep
<1>3. ASSUME NEW j \in Jobs, JobStep(j) PROVE JobsRecorded'
  <2>1. CASE StartJob(j) \/ \E how \in {"completed", "failed"} : JobEnds(j, how)
    BY <2>1 DEF StartJob, JobEnds, MyJob
  <2>2. CASE WriteJobLog(j)
    BY <2>2 DEF WriteJobLog, MyJob
  <2>3. CASE RecordJob(j)
    BY <2>3 DEF RecordJob, MyJob
  <2>4. CASE JobError(j)
    BY <2>4 DEF JobError, MyJob
  <2> QED BY <1>3, <2>1, <2>2, <2>3, <2>4 DEF JobStep
<1>4. CASE CleanCache
  BY <1>4 DEF CleanCache
<1>5. CASE Observe \/ ROver
  BY <1>1, <1>5 DEF Observe, ROver, rvars, Inspect, Freeze, ReadFile, CopyFile, MarkFrozen,
                    FreezeError, FreezeEnds
<1> QED BY <1>2, <1>3, <1>4, <1>5 DEF RNext

\* A session of rlab exec is closed by the step that follows the row of its job.
LEMMA ExecStep == ASSUME IInv, RecTypeOK, \A r \in exec : ExecRecorded(r), RNext
                  PROVE  \A r \in exec' : ExecRecorded(r)'
<1> SUFFICES ASSUME NEW r \in exec' PROVE ExecRecorded(r)'
  OBVIOUS
<1> USE DEF ExecRecorded, jobVars, lookVars, frostVars, recVars
<1>1. UNCHANGED exec
  BY DEF RNext, OwnStep, JobStep, StartJob, JobEnds, WriteJobLog, RecordJob, JobError,
         CleanCache, Observe, ROver, rvars, Inspect, Freeze, ReadFile, CopyFile, MarkFrozen,
         FreezeError, FreezeEnds
<1>2. r \in exec /\ r \in Runs /\ r \in Jobs
  BY <1>1 DEF RecTypeOK
<1>3. job[r] = "recorded" => job'[r] = "recorded"
  <2>1. ASSUME NEW j \in Jobs, JobStep(j), job[r] = "recorded" PROVE job'[r] = "recorded"
    BY <1>2, <2>1 DEF JobStep, StartJob, JobEnds, WriteJobLog, RecordJob, JobError, MyJob,
                      RecTypeOK
  <2>2. ASSUME ~\E j \in Jobs : JobStep(j) PROVE UNCHANGED job
    BY <2>2 DEF RNext, OwnStep, CleanCache, Observe, ROver, rvars, Inspect, Freeze, ReadFile,
                CopyFile, MarkFrozen, FreezeError, FreezeEnds
  <2> QED BY <2>1, <2>2
<1>4. verdict'[r] = verdict[r] \/ job[r] = "recorded"
  <2>1. ASSUME NEW q \in Runs, Step(q), q # r PROVE verdict'[r] = verdict[r]
    BY <1>2, <2>1, Frame DEF IInv, Same
  <2>2. CASE OwnStep(r)
    <3>1. CASE Proceed(r)
      BY <3>1 DEF Proceed, Create, Transition, Close, WriteInitialManifest, WriteInitialYaml,
              WriteInitialStatus, CaptureReproducibility, TransitionManifest, TransitionYaml,
              TransitionStatus, WriteError, WriteMetricSummary, WriteReport, FinalizeStorage,
              files
    <3>2. CASE StartRun(r) \/ Crash(r) \/ Abandon(r)
      BY <3>2 DEF StartRun, Crash, Abandon
    <3> QED BY <1>2, <2>2, <3>1, <3>2 DEF OwnStep, ExecCompletes
  <2>3. ASSUME NEW q \in Runs, OwnStep(q), q # r PROVE verdict'[r] = verdict[r]
    BY <2>1, <2>3 DEF OwnStep, ExecCompletes, Call, Step
  <2>4. ASSUME NEW j \in Jobs, JobStep(j) PROVE UNCHANGED verdict
    BY <2>4 DEF JobStep, StartJob, JobEnds, WriteJobLog, RecordJob, JobError, Abandon, vars
  <2>5. CASE CleanCache \/ Observe \/ ROver
    BY <2>5 DEF CleanCache, Observe, ROver, rvars, Inspect, Freeze, ReadFile, CopyFile,
                MarkFrozen, FreezeError, FreezeEnds, vars
  <2> QED BY <2>2, <2>3, <2>4, <2>5 DEF RNext
<1> QED BY <1>2, <1>3, <1>4

-----------------------------------------------------------------------------

LEMMA RecInitInv == RInit => IInv /\ RecInv
<1> SUFFICES ASSUME RInit PROVE IInv /\ RecInv
  OBVIOUS
<1>1. IInv
  BY InitInv DEF RInit
<1>2. RecTypeOK
  <2>1. NoContent \in Contents
    BY DEF NoContent, Contents, Recorded
  <2> QED BY <2>1 DEF RInit, RecTypeOK
<1>3. Inspected /\ Frosted
  BY DEF RInit, Inspected, Frosted, NoContent, Terminal
<1>4. \A r \in Runs : Closed(r)
  BY DEF RInit, Init, Closed, Terminal
<1>5. JobsRecorded
  BY DEF RInit, JobRecorded, JobsRecorded
<1>6. \A r \in exec : ExecRecorded(r)
  BY DEF RInit, Init, ExecRecorded
<1> QED BY <1>1, <1>2, <1>3, <1>4, <1>5, <1>6 DEF RInit, RecInv

LEMMA RecNextInv == IInv /\ RecInv /\ [RNext]_rvars => IInv' /\ RecInv'
<1> SUFFICES ASSUME IInv, RecInv, [RNext]_rvars PROVE IInv' /\ RecInv'
  OBVIOUS
<1>1. CASE RNext
  <2>1. (\E r \in Runs : Step(r)) \/ UNCHANGED vars
    BY <1>1, RecordsStepIsSessionStep DEF RecInv
  <2>2. IInv'
    BY <2>1, NextInv DEF Next, Step
  <2>3. RecTypeOK' /\ Inspected' /\ Frosted'
    BY <1>1, RecTypeStep, InspectedStep, FrostedStep DEF RecInv, IInv
  <2>4. ASSUME NEW q \in Runs PROVE Closed(q)'
    <3>1. CASE UNCHANGED vars
      BY <3>1 DEF RecInv, Closed, vars, files
    <3>2. ASSUME NEW r \in Runs, Step(r), r = q PROVE Closed(q)'
      BY <3>2, ClosedStep DEF RecInv, IInv
    <3>3. ASSUME NEW r \in Runs, Step(r), r # q PROVE Closed(q)'
      BY <3>3, Frame DEF RecInv, IInv, Same, Closed
    <3> QED BY <2>1, <3>1, <3>2, <3>3
  <2>5. JobsRecorded'
    BY <1>1, JobsStep DEF RecInv
  <2>6. \A r \in exec' : ExecRecorded(r)'
    BY <1>1, ExecStep DEF RecInv
  <2> QED BY <2>2, <2>3, <2>4, <2>5, <2>6 DEF RecInv
<1>2. CASE UNCHANGED rvars
  <2>1. IInv'
    BY <1>2, NextInv DEF rvars
  <2> QED BY <1>2, <2>1 DEF RecInv, rvars, recVars, vars, files, RecTypeOK, Closed, Inspected,
                            Frosted, JobsRecorded, JobRecorded, ExecRecorded,
                            Content
<1> QED BY <1>1, <1>2

\* Beside rlab exec, rlab jobs, an inspection, a freeze and rlab cache clean, a session
\* is still a session: what is proved of RunSession holds of its runs.
THEOREM RecordsAreSessions == RSpec => Spec
<1>1. RInit => Init
  BY DEF RInit
<1>2. RecInv /\ [RNext]_rvars => [Next]_vars
  BY RecordsStepIsSessionStep DEF rvars, Next, Step, RecInv
<1> QED BY <1>1, <1>2, RecInitInv, RecNextInv, PTL DEF RSpec, Spec

\* An inspection that read run.json of an ended run first shows the run as it stays,
\* though it reads the other files later.
THEOREM InspectionBacked == RSpec => []InspectionIsBacked
<1>1. ASSUME RecInv PROVE InspectionIsBacked
  <2> SUFFICES ASSUME look # <<>>, look[2] = Len(ReadOrder), shown.json \in Terminal,
                      NEW f \in Files \ {"metrics"}
               PROVE  shown[f] = Content(look[1])[f]
    BY DEF InspectionIsBacked
  <2>1. \A i \in 1..4 : shown[ReadOrder[i]] = Content(look[1])[ReadOrder[i]]
    BY <1>1 DEF RecInv, Inspected, ReadOrder
  <2>2. \E i \in 1..4 : f = ReadOrder[i]
    BY DEF Files, ReadOrder
  <2> QED BY <2>1, <2>2
<1> QED BY <1>1, RecInitInv, RecNextInv, PTL DEF RSpec

\* A frozen copy of an ended run is the run; a job that is listed has its log, and a
\* completed run of rlab exec has its job, unless they were wiped.
THEOREM RecordsWhole == RSpec => []RecordsAreWhole
<1>1. ASSUME RecInv, IInv PROVE FrozenIsWhole
  <2> SUFFICES ASSUME frost # <<>>, frost[2] = "frozen", settled
               PROVE  copy = Content(frost[1])
    BY DEF FrozenIsWhole
  <2>1. \A f \in Files : copy[f] = Content(frost[1])[f]
    BY <1>1 DEF RecInv, Frosted
  <2>2. copy \in Contents
    BY <1>1 DEF RecInv, RecTypeOK
  <2> QED BY <2>1, <2>2 DEF Contents, Content, Files
<1>2. ASSUME RecInv PROVE JobsResolve
  BY <1>2 DEF RecInv, RecTypeOK, JobsResolve, JobLogs, JobsRecorded, JobRecorded,
              ExecRecorded, Closed, Terminal
<1>3. IInv /\ RecInv => RecordsAreWhole
  BY <1>1, <1>2 DEF RecordsAreWhole
<1> QED BY <1>3, RecInitInv, RecNextInv, PTL DEF RSpec

-----------------------------------------------------------------------------
(* HostExecution: the replay of what the runner wrote.                     *)

\* What the replay of r has established so far.
Replayed(r) ==
  /\ runner[r] = "raised" =>
       /\ Len(stream[r]) > 0
       /\ stream[r][Len(stream[r])].kind = "failed"
       /\ cursor[r] = Len(stream[r]) => "failed" \in seen[r]
  /\ runner[r] \in {"off", "calling"} => cursor[r] = 0
  /\ verdict[r] = "complete" => runner[r] \in {"returned", "exited"} /\ ~Garbled(r)
  /\ "completed" \in {mem[r], json[r], text[r]} => verdict[r] = "complete"

HInv == HTypeOK /\ \A r \in Runs : Replayed(r)

-----------------------------------------------------------------------------

\* A step of the host is a step of the session of the same run, or none.
LEMMA HostStepOf ==
  ASSUME NEW r \in Runs,
         SessionStep(r) \/ RunnerStep(r) \/ HostStep(r) \/ HostFault(r) \/ \E k : Emit(r, k)
  PROVE  Step(r) \/ UNCHANGED vars
<1>1. ASSUME SessionStep(r) \/ HostFault(r) PROVE Step(r)
  BY <1>1 DEF SessionStep, HostFault, Step, Call
<1>2. ASSUME RunnerStep(r) PROVE UNCHANGED vars
  BY <1>2 DEF RunnerStep, Return, Raise, SystemExit, Die, Exit
<1>3. ASSUME HostStep(r) PROVE Step(r) \/ UNCHANGED vars
  <2>1. CASE Spawn(r)
    BY <2>1 DEF Spawn
  <2>2. CASE HostError(r) \/ ReplayError(r)
    BY <2>2 DEF HostError, ReplayError, Step
  <2>3. CASE Finalize(r)
    BY <2>3 DEF Finalize, Step, Call
  <2>4. CASE Replay(r)
    BY <2>4 DEF Replay, Step, Call
  <2> QED BY <1>3, <2>1, <2>2, <2>3, <2>4 DEF HostStep
<1>4. ASSUME NEW k, Emit(r, k) PROVE UNCHANGED vars
  BY <1>4 DEF Emit
<1> QED BY <1>1, <1>2, <1>3, <1>4

LEMMA HostStepIsSessionStep ==
  ASSUME HNext PROVE (\E r \in Runs : Step(r)) \/ UNCHANGED vars
<1>1. CASE HDone
  BY <1>1 DEF HDone, hvars
<1> QED BY <1>1, HostStepOf DEF HNext

\* An executed run is a session: what is proved of RunSession holds of it.
THEOREM HostIsSession == HSpec => Spec
<1>1. HInit => Init
  BY DEF HInit
<1>2. [HNext]_hvars => [Next]_vars
  BY HostStepIsSessionStep DEF hvars, Next, Step
<1> QED BY <1>1, <1>2, PTL DEF HSpec, Spec

\* In particular no executed run reads as ended without what backs it.
THEOREM HostEndedBacked == HSpec => []EndedIsBacked
BY HostIsSession, EndedBacked, PTL

-----------------------------------------------------------------------------

LEMMA LineTypes == /\ \A k \in {"log", "print", "artifact", "nan", "lost", "completed", "failed"} :
                        Line(k) \in Lines
                   /\ \A p \in Payloads : p \in Seq(Lines)
<1>1. \A k \in {"log", "print", "artifact", "nan", "lost", "completed", "failed"} :
        Line(k) \in Lines
  BY DEF Line, Lines
<1>2. \A m \in Metrics : MetricLine(m) \in Lines
  BY DEF MetricLine, Lines
<1>3. Records \subseteq Lines
  BY <1>1, <1>2 DEF Records
<1>4. ASSUME NEW p \in Payloads PROVE p \in Seq(Lines)
  <2>1. PICK n \in 0..MaxLines : p \in [1..n -> Records]
    BY DEF Payloads
  <2>2. n \in Nat /\ p \in [1..n -> Lines]
    BY <2>1, <1>3, BoundAssumption
  <2> QED BY <2>2, SeqDef
<1> QED BY <1>1, <1>4

\* Appending one line, possibly after a payload.
LEMMA Written == ASSUME NEW s \in Seq(Lines), NEW t \in Seq(Lines), NEW x \in Lines
                 PROVE  /\ s \o (t \o <<x>>) \in Seq(Lines)
                        /\ Len(s \o (t \o <<x>>)) = Len(s) + Len(t) + 1
                        /\ (s \o (t \o <<x>>))[Len(s) + Len(t) + 1] = x
<1>1. <<x>> \in Seq(Lines) /\ Len(<<x>>) = 1 /\ <<x>>[1] = x
  OBVIOUS
<1>2. /\ t \o <<x>> \in Seq(Lines)
      /\ Len(t \o <<x>>) = Len(t) + 1
      /\ (t \o <<x>>)[Len(t) + 1] = x
  BY <1>1, ConcatProperties, LenProperties
<1> QED BY <1>2, ConcatProperties, LenProperties

\* What Replayed(q) speaks of does not change.
HSame(q) == /\ runner'[q] = runner[q] /\ stream'[q] = stream[q]
            /\ cursor'[q] = cursor[q] /\ seen'[q] = seen[q]
            /\ verdict'[q] = verdict[q] /\ mem'[q] = mem[q]
            /\ json'[q] = json[q] /\ text'[q] = text[q]

LEMMA SessionReplayed == ASSUME TypeOK, NEW r \in Runs, StartRun(r) \/ Proceed(r) \/ Abandon(r)
                                                         \/ Crash(r),
                                UNCHANGED hostVars, Replayed(r)
                         PROVE  Replayed(r)'
<1> USE DEF TypeOK, Replayed, Garbled, hostVars, files, Goto
<1>1. CASE StartRun(r) \/ Abandon(r) \/ Crash(r)
  BY <1>1 DEF StartRun, Abandon, Crash
<1>2. CASE Create(r)
  BY <1>2 DEF Create, WriteInitialManifest, WriteInitialYaml, WriteInitialStatus,
              CaptureReproducibility
<1>3. CASE Transition(r)
  BY <1>3 DEF Transition, TransitionManifest, TransitionYaml, TransitionStatus, Target
<1>4. CASE Close(r)
  BY <1>4 DEF Close, WriteError, WriteMetricSummary, WriteReport, FinalizeStorage
<1> QED BY <1>1, <1>2, <1>3, <1>4 DEF Proceed

LEMMA RunnerReplayed == ASSUME HTypeOK, NEW r \in Runs, Replayed(r),
                               RunnerStep(r) \/ \E k \in {"log", "print"} : Emit(r, k)
                        PROVE  Replayed(r)'
<1> USE DEF HTypeOK, TypeOK, Replayed, Exit, Exited, Write, vars, files
<1>1. ASSUME NEW p \in Payloads, Return(r, p) PROVE Replayed(r)'
  BY <1>1 DEF Return
<1>2. CASE Raise(r)
  <2> DEFINE s == stream[r]
             x == Line("failed")
  <2>1. s \in Seq(Lines) /\ x \in Lines /\ <<x>> \in Seq(Lines)
    BY LineTypes
  <2>2. Len(s \o <<x>>) = Len(s) + 1 /\ (s \o <<x>>)[Len(s) + 1] = x /\ Len(s) \in Nat
    BY <2>1, ConcatProperties, LenProperties
  <2>3. stream'[r] = s \o <<x>> /\ runner'[r] = "raised" /\ runner[r] = "calling"
    BY <1>2 DEF Raise
  <2>4. Len(stream'[r]) > 0 /\ stream'[r][Len(stream'[r])].kind = "failed"
    BY <2>2, <2>3 DEF Line
  <2>5. cursor'[r] = 0 /\ cursor'[r] # Len(stream'[r])
    BY <1>2, <2>2, <2>3 DEF Raise
  <2> QED BY <1>2, <2>3, <2>4, <2>5 DEF Raise
<1>3. CASE SystemExit(r) \/ Die(r)
  BY <1>3 DEF SystemExit, Die
<1>4. ASSUME NEW k, Emit(r, k) PROVE Replayed(r)'
  BY <1>4 DEF Emit
<1> QED BY <1>1, <1>2, <1>3, <1>4 DEF RunnerStep

\* Closing: the replay is at the end of the stream, so a failed event was seen.
LEMMA HostReplayed == ASSUME HTypeOK, NEW r \in Runs, RunInv(r), Replayed(r), HostStep(r)
                      PROVE  Replayed(r)'
<1> USE DEF HTypeOK, TypeOK, Replayed, Exited, hostVars, Goto
<1>1. CASE Spawn(r)
  BY <1>1 DEF Spawn, vars, files
<1>2. CASE HostError(r) \/ ReplayError(r)
  BY <1>2, SessionReplayed DEF HostError, ReplayError
<1>3. CASE Finalize(r)
  <2>1. CASE Fail(r)
    BY <1>3, <2>1 DEF Finalize, Fail, RunInv, Phase, Shows, Garbled
  <2>2. CASE Complete(r) /\ "failed" \notin seen[r]
    BY <1>3, <2>2 DEF Finalize, Complete, Replayable, Garbled
  <2> QED BY <1>3, <2>1, <2>2 DEF Finalize
<1>4. CASE Replay(r)
  <2> DEFINE e == NextLine(r)
  <2>1. runner[r] \in Exited /\ cursor[r] < Len(stream[r])
    BY <1>4 DEF Replay, Replayable
  <2>2. /\ cursor'[r] = cursor[r] + 1
        /\ UNCHANGED <<runner, stream>>
        /\ seen[r] \subseteq seen'[r]
    BY <1>4 DEF Replay
  <2>3. UNCHANGED <<mem, json, text, verdict>>
    BY <1>4 DEF Replay, AppendMetric, SaveArtifactReference, vars, files
  <2>4. ASSUME runner[r] = "raised", cursor'[r] = Len(stream[r]) PROVE "failed" \in seen'[r]
    <3>1. cursor[r] + 1 = Len(stream[r])
      BY <2>2, <2>4
    <3>2. e.kind = "failed"
      BY <2>4, <3>1 DEF NextLine
    <3> QED BY <1>4, <3>2 DEF Replay, MetricLine
  <2> QED BY <2>1, <2>2, <2>3, <2>4 DEF Exited, Garbled
<1> QED BY <1>1, <1>2, <1>3, <1>4 DEF HostStep

-----------------------------------------------------------------------------

LEMMA HostTypeStep == ASSUME HTypeOK, HNext PROVE HTypeOK'
<1>1. TypeOK'
  <2>1. CASE UNCHANGED vars
    BY <2>1 DEF HTypeOK, TypeOK, vars, files
  <2> QED BY <2>1, HostStepIsSessionStep, TypeStep DEF HTypeOK
<1>2. ASSUME NEW r \in Runs, SessionStep(r) \/ HostFault(r) \/ HostStep(r) PROVE HTypeOK'
  <2>1. CASE UNCHANGED hostVars
    BY <1>1, <2>1 DEF HTypeOK, hostVars
  <2>2. CASE Spawn(r)
    BY <1>1, <2>2 DEF HTypeOK, Spawn
  <2>3. CASE Replay(r)
    <3>1. seen' = seen \/ \E k \in {"completed", "failed"} : seen' = [seen EXCEPT ![r] = @ \cup {k}]
      BY <2>3 DEF Replay
    <3>2. seen' \in [Runs -> SUBSET {"completed", "failed"}]
      BY <3>1, ZenonT(60) DEF HTypeOK
    <3>3. cursor' \in [Runs -> Nat] /\ UNCHANGED <<runner, stream>>
      BY <2>3 DEF Replay, HTypeOK
    <3> QED BY <1>1, <3>2, <3>3 DEF HTypeOK
  <2> QED BY <1>2, <2>1, <2>2, <2>3 DEF SessionStep, HostFault, HostStep, HostError, ReplayError,
                                        Finalize
<1>3. ASSUME NEW r \in Runs, NEW t \in Seq(Lines), Write(r, t), UNCHANGED <<cursor, seen>>,
             UNCHANGED runner \/ \E how \in Exited : Exit(r, how)
      PROVE  HTypeOK'
  <2>1. stream[r] \o t \in Seq(Lines)
    BY ConcatProperties DEF HTypeOK
  <2> QED BY <1>1, <1>3, <2>1 DEF HTypeOK, Write, Exit, Exited
<1>4. ASSUME NEW r \in Runs, RunnerStep(r) PROVE HTypeOK'
  <2>1. ASSUME NEW p \in Payloads, Return(r, p) PROVE HTypeOK'
    <3>1. p \o <<Line("completed")>> \in Seq(Lines)
      BY LineTypes, ConcatProperties
    <3> QED BY <1>3, <2>1, <3>1 DEF Return, Exit, Exited
  <2>2. CASE Raise(r)
    <3>1. <<Line("failed")>> \in Seq(Lines)
      BY LineTypes
    <3> QED BY <1>3, <2>2, <3>1 DEF Raise, Exit, Exited
  <2>3. CASE SystemExit(r) \/ Die(r)
    BY <1>1, <2>3 DEF HTypeOK, SystemExit, Die, Exit, Exited
  <2> QED BY <1>4, <2>1, <2>2, <2>3 DEF RunnerStep
<1>5. ASSUME NEW r \in Runs, NEW k \in {"log", "print"}, Emit(r, k) PROVE HTypeOK'
  <2>1. <<Line(k)>> \in Seq(Lines)
    BY LineTypes
  <2> QED BY <1>3, <1>5, <2>1 DEF Emit
<1>6. CASE HDone
  BY <1>1, <1>6 DEF HDone, hvars, hostVars, HTypeOK
<1> QED BY <1>2, <1>4, <1>5, <1>6 DEF HNext

\* A step of one run leaves the replay of every other run alone.
LEMMA HostFrame == ASSUME HTypeOK, NEW r \in Runs, NEW q \in Runs, q # r,
                          \/ SessionStep(r) \/ RunnerStep(r) \/ HostStep(r) \/ HostFault(r)
                          \/ \E k \in {"log", "print"} : Emit(r, k)
                   PROVE  HSame(q)
<1>1. ASSUME Step(r) PROVE /\ verdict'[q] = verdict[q] /\ mem'[q] = mem[q]
                           /\ json'[q] = json[q] /\ text'[q] = text[q]
  BY <1>1, Frame DEF HTypeOK, Same
<1>2. CASE SessionStep(r) \/ HostFault(r)
  BY <1>1, <1>2 DEF SessionStep, HostFault, Step, Call, hostVars, HSame
<1>3. CASE RunnerStep(r)
  BY <1>3 DEF RunnerStep, Return, Raise, SystemExit, Die, Exit, Write, vars, files, HTypeOK, HSame
<1>4. ASSUME NEW k, Emit(r, k) PROVE HSame(q)
  BY <1>4 DEF Emit, Write, vars, files, HTypeOK, HSame
<1>5. CASE HostStep(r)
  <2>1. CASE Spawn(r)
    BY <2>1 DEF Spawn, vars, files, HTypeOK, HSame
  <2>2. CASE HostError(r) \/ ReplayError(r) \/ Finalize(r)
    BY <1>1, <2>2 DEF HostError, ReplayError, Finalize, Step, Call, hostVars, HSame
  <2>3. CASE Replay(r)
    <3>1. Step(r) \/ UNCHANGED vars
      BY <2>3 DEF Replay, Step, Call
    <3>2. UNCHANGED <<runner, stream>> /\ cursor'[q] = cursor[q] /\ seen'[q] = seen[q]
      BY <2>3 DEF Replay, HTypeOK
    <3> QED BY <1>1, <3>1, <3>2 DEF vars, files, HSame
  <2> QED BY <1>5, <2>1, <2>2, <2>3 DEF HostStep
<1> QED BY <1>2, <1>3, <1>4, <1>5

LEMMA HSameReplayed == ASSUME NEW q \in Runs, HSame(q), Replayed(q) PROVE Replayed(q)'
BY DEF HSame, Replayed, Garbled

LEMMA HNextInv == IInv /\ HInv /\ [HNext]_hvars => HInv'
<1> SUFFICES ASSUME IInv, HInv, [HNext]_hvars PROVE HInv'
  OBVIOUS
<1>1. CASE UNCHANGED hvars
  <2>1. HTypeOK'
    BY <1>1 DEF HInv, HTypeOK, TypeOK, hvars, hostVars, vars, files
  <2>2. ASSUME NEW q \in Runs PROVE HSame(q)
    BY <1>1 DEF HSame, hvars, hostVars, vars, files
  <2> QED BY <2>1, <2>2, HSameReplayed DEF HInv
<1>2. ASSUME HNext, ~UNCHANGED hvars PROVE HInv'
  <2>1. HTypeOK'
    BY <1>2, HostTypeStep DEF HInv
  <2>2. PICK r \in Runs : \/ SessionStep(r) \/ RunnerStep(r) \/ HostStep(r) \/ HostFault(r)
                          \/ \E k \in {"log", "print"} : Emit(r, k)
    BY <1>2 DEF HNext, HDone
  <2>3. Replayed(r)'
    <3>1. HTypeOK /\ TypeOK /\ RunInv(r) /\ Replayed(r)
      BY DEF HInv, IInv
    <3>2. CASE SessionStep(r) \/ HostFault(r)
      BY <3>1, <3>2, SessionReplayed DEF SessionStep, HostFault
    <3> QED BY <2>2, <3>1, <3>2, RunnerReplayed, HostReplayed
  <2>4. ASSUME NEW q \in Runs, q # r PROVE Replayed(q)'
    BY <2>2, <2>4, HostFrame, HSameReplayed DEF HInv
  <2> QED BY <2>1, <2>3, <2>4 DEF HInv
<1> QED BY <1>1, <1>2

LEMMA HInitInv == HInit => HInv
<1>1. ASSUME HInit PROVE HTypeOK
  <2>1. TypeOK
    BY <1>1, InitInv DEF HInit, IInv
  <2> QED BY <1>1, <2>1 DEF HInit, HTypeOK
<1> QED BY <1>1 DEF HInit, Init, HInv, Replayed

\* A callable that raised never leaves a completed run, whatever it wrote before,
\* and whatever fails or dies afterwards.
THEOREM RaisedNever == HSpec => []RaisedNeverCompletes
<1>1. HInit => HInv
  BY HInitInv
<1>2. HSpec => []IInv
  BY HostIsSession, Invariance, PTL
<1>3. HInv => RaisedNeverCompletes
  BY DEF HInv, Replayed, RaisedNeverCompletes
<1> QED BY <1>1, <1>2, <1>3, HNextInv, PTL DEF HSpec

\* Nor does a runner that was killed or exited with an error code, or whose
\* output cannot be parsed: what completes a run is a callable that returned, or
\* one that left through sys.exit(0).
THEOREM CompletedClean == HSpec => []CompletedIsClean
<1>1. HInit => HInv
  BY HInitInv
<1>2. HSpec => []IInv
  BY HostIsSession, Invariance, PTL
<1>3. HInv => CompletedIsClean
  BY DEF HInv, Replayed, CompletedIsClean
<1> QED BY <1>1, <1>2, <1>3, HNextInv, PTL DEF HSpec

\* A completed run was earned by a runner that went well.
THEOREM CompletedEarned == HSpec => []CompletedIsEarned
BY RaisedNever, CompletedClean, PTL DEF CompletedIsEarned

-----------------------------------------------------------------------------
(* HostExecution: what the session has of the lines that were replayed.    *)

\* The lines replayed so far have left their records, and a completed run has replayed all.
Copied(r) == /\ cursor[r] <= Len(stream[r])
             /\ verdict[r] = "complete" => cursor[r] = Len(stream[r])
             /\ HasRecords(r, cursor[r])

CopiedInv == \A r \in Runs : Copied(r)

\* One line more.
LEMMA LinesOfNext ==
  ASSUME HTypeOK, NEW r \in Runs, NEW kind, NEW n \in Nat
  PROVE  /\ LinesOf(r, kind, n) \in SUBSET (1..n)
         /\ IsFiniteSet(LinesOf(r, kind, n))
         /\ Cardinality(LinesOf(r, kind, n)) \in Nat
         /\ stream[r][n + 1].kind # kind => LinesOf(r, kind, n + 1) = LinesOf(r, kind, n)
         /\ stream[r][n + 1].kind = kind =>
              /\ LinesOf(r, kind, n + 1) = LinesOf(r, kind, n) \cup {n + 1}
              /\ Cardinality(LinesOf(r, kind, n + 1)) = Cardinality(LinesOf(r, kind, n)) + 1
<1>1. LinesOf(r, kind, n) \in SUBSET (1..n) /\ n + 1 \notin LinesOf(r, kind, n)
  BY DEF LinesOf
<1>2. IsFiniteSet(1..n)
  BY FS_Interval
<1>3. IsFiniteSet(LinesOf(r, kind, n)) /\ Cardinality(LinesOf(r, kind, n)) \in Nat
  BY <1>1, <1>2, FS_Subset, FS_CardinalityType
<1>4. 1..(n + 1) = (1..n) \cup {n + 1}
  OBVIOUS
<1>5. /\ stream[r][n + 1].kind = kind =>
           LinesOf(r, kind, n + 1) = LinesOf(r, kind, n) \cup {n + 1}
      /\ stream[r][n + 1].kind # kind => LinesOf(r, kind, n + 1) = LinesOf(r, kind, n)
  BY <1>4 DEF LinesOf
<1>6. Cardinality(LinesOf(r, kind, n) \cup {n + 1}) = Cardinality(LinesOf(r, kind, n)) + 1
  BY <1>1, <1>3, FS_AddElement
<1> QED BY <1>1, <1>3, <1>5, <1>6

\* The number of a line among those of its kind.
LEMMA LineNumbers ==
  ASSUME HTypeOK, NEW r \in Runs, NEW kind, NEW n \in Nat, NEW i \in LinesOf(r, kind, n)
  PROVE  Cardinality(LinesOf(r, kind, i)) \in 1..Cardinality(LinesOf(r, kind, n))
<1>1. i \in 1..n /\ i \in Nat
  BY DEF LinesOf
<1>2. /\ IsFiniteSet(LinesOf(r, kind, n)) /\ Cardinality(LinesOf(r, kind, n)) \in Nat
      /\ IsFiniteSet(LinesOf(r, kind, i)) /\ Cardinality(LinesOf(r, kind, i)) \in Nat
  BY <1>1, LinesOfNext
<1>3. LinesOf(r, kind, i) \in SUBSET LinesOf(r, kind, n) /\ i \in LinesOf(r, kind, i)
  BY <1>1 DEF LinesOf
<1>4. Cardinality(LinesOf(r, kind, i)) <= Cardinality(LinesOf(r, kind, n))
  BY <1>2, <1>3, FS_Subset
<1>5. Cardinality(LinesOf(r, kind, i)) # 0
  BY <1>2, <1>3, FS_EmptySet
<1> QED BY <1>2, <1>4, <1>5

\* Nothing is replayed of an empty stream.
LEMMA NoRecords == ASSUME NEW r \in Runs, metrics[r] = <<>>, artifacts[r] = 0
                   PROVE  HasRecords(r, 0)
<1>1. \A kind : LinesOf(r, kind, 0) = {}
  BY DEF LinesOf
<1>2. Cardinality({}) = 0
  BY FS_EmptySet
<1> QED BY <1>1, <1>2 DEF HasRecords

\* While no line was replayed the session has no records, whatever the runner writes.
LEMMA NoRecordsYet == ASSUME HTypeOK, NEW r \in Runs, HasRecords(r, 0)
                      PROVE  metrics[r] = <<>> /\ artifacts[r] = 0
<1>1. LinesOf(r, "metric", 0) = {} /\ LinesOf(r, "artifact", 0) = {}
  BY DEF LinesOf
<1>2. Cardinality({}) = 0
  BY FS_EmptySet
<1>3. Len(metrics[r]) = 0 /\ artifacts[r] = 0
  BY <1>1, <1>2 DEF HasRecords
<1> QED BY <1>3, EmptySeq DEF HTypeOK, TypeOK

\* What Copied(q) speaks of does not change.
LEMMA SameCopied ==
  ASSUME NEW q \in Runs, Copied(q),
         stream'[q] = stream[q], cursor'[q] = cursor[q],
         verdict'[q] = verdict[q] \/ cursor[q] = Len(stream[q]),
         metrics'[q] = metrics[q], artifacts'[q] = artifacts[q]
  PROVE  Copied(q)'
<1>1. PICK n : n = cursor[q]
  OBVIOUS
<1>2. \A kind, i : LinesOf(q, kind, i)' = LinesOf(q, kind, i)
  BY DEF LinesOf
<1>3. HasRecords(q, n)'
  BY <1>1, <1>2 DEF Copied, HasRecords
<1> QED BY <1>1, <1>3 DEF Copied

\* The runner writes while nothing has been replayed.
LEMMA RunnerCopied == ASSUME HTypeOK, HTypeOK', NEW r \in Runs, Copied(r), Replayed(r),
                             RunnerStep(r) \/ \E k \in {"log", "print"} : Emit(r, k)
                      PROVE  Copied(r)'
<1>1. runner[r] = "calling" /\ UNCHANGED <<vars, cursor>>
  BY DEF RunnerStep, Return, Raise, SystemExit, Die, Exit, Emit
<1>2. cursor[r] = 0 /\ cursor'[r] = 0 /\ verdict[r] # "complete" /\ verdict'[r] # "complete"
  BY <1>1 DEF Replayed, vars
<1>3. metrics'[r] = <<>> /\ artifacts'[r] = 0
  BY <1>1, <1>2, NoRecordsYet DEF Copied, vars, files
<1>4. HasRecords(r, 0)'
  <2>1. \A kind : LinesOf(r, kind, 0)' = {}
    BY DEF LinesOf
  <2>2. Cardinality({}) = 0
    BY FS_EmptySet
  <2> QED BY <1>3, <2>1, <2>2 DEF HasRecords
<1>5. 0 <= Len(stream'[r])
  BY DEF HTypeOK
<1> QED BY <1>2, <1>4, <1>5 DEF Copied

\* One line is replayed.
LEMMA ReplayCopied == ASSUME HTypeOK, NEW r \in Runs, Copied(r), Replayed(r), Replay(r)
                      PROVE  Copied(r)'
<1> PICK c \in Nat : c = cursor[r]
  BY DEF HTypeOK
<1> DEFINE e == NextLine(r)
<1>1. /\ c \in Nat /\ c < Len(stream[r]) /\ cursor'[r] = c + 1 /\ stream' = stream
      /\ Len(stream[r]) \in Nat
  BY DEF Replay, HTypeOK
<1>2. verdict[r] # "complete" /\ verdict' = verdict
  BY <1>1 DEF Replay, Copied, vars, AppendMetric, SaveArtifactReference
<1>3. e = stream[r][c + 1]
  BY DEF NextLine
<1>4. LinesOf(r, "metric", c + 1)' = LinesOf(r, "metric", c + 1)
      /\ LinesOf(r, "artifact", c + 1)' = LinesOf(r, "artifact", c + 1)
      /\ \A i : LinesOf(r, "metric", i)' = LinesOf(r, "metric", i)
  BY <1>1 DEF LinesOf
<1> DEFINE M == LinesOf(r, "metric", c)
           A == LinesOf(r, "artifact", c)
<1>10. ASSUME NEW kind
       PROVE  /\ e.kind # kind => LinesOf(r, kind, c + 1) = LinesOf(r, kind, c)
              /\ e.kind = kind =>
                   /\ LinesOf(r, kind, c + 1) = LinesOf(r, kind, c) \cup {c + 1}
                   /\ Cardinality(LinesOf(r, kind, c + 1)) = Cardinality(LinesOf(r, kind, c)) + 1
  <2> HIDE DEF e, M, A
  <2>1. stream[r][c + 1].kind # kind => LinesOf(r, kind, c + 1) = LinesOf(r, kind, c)
    BY ONLY HTypeOK, r \in Runs, c \in Nat, LinesOfNext
  <2>2. stream[r][c + 1].kind = kind =>
          /\ LinesOf(r, kind, c + 1) = LinesOf(r, kind, c) \cup {c + 1}
          /\ Cardinality(LinesOf(r, kind, c + 1)) = Cardinality(LinesOf(r, kind, c)) + 1
    BY ONLY HTypeOK, r \in Runs, c \in Nat, LinesOfNext
  <2> QED BY <1>3, <2>1, <2>2
<1>5. /\ Len(metrics[r]) = Cardinality(M) /\ artifacts[r] = Cardinality(A)
      /\ \A i \in M : stream[r][i].metric = {metrics[r][Cardinality(LinesOf(r, "metric", i))]}
  BY DEF Copied, HasRecords
<1>6. ASSUME NEW m \in Metrics, e = MetricLine(m), AppendMetric(r, m) PROVE HasRecords(r, c + 1)'
  <2>1. e.kind = "metric" /\ e.metric = {m}
    BY <1>6 DEF MetricLine
  <2>2. metrics[r] \in Seq(Metrics) /\ metrics'[r] = Append(metrics[r], m) /\ artifacts'[r] = artifacts[r]
    BY <1>6 DEF AppendMetric, HTypeOK, TypeOK
  <2>3. /\ LinesOf(r, "metric", c + 1) = M \cup {c + 1}
        /\ Cardinality(LinesOf(r, "metric", c + 1)) = Cardinality(M) + 1
        /\ LinesOf(r, "artifact", c + 1) = A
    BY <1>10, <2>1
  <2>4. /\ Len(metrics'[r]) = Len(metrics[r]) + 1
        /\ \A k \in 1..Len(metrics[r]) : metrics'[r][k] = metrics[r][k]
        /\ metrics'[r][Len(metrics[r]) + 1] = m
    BY <2>2
  <2>5. \A i \in M : Cardinality(LinesOf(r, "metric", i)) \in 1..Len(metrics[r])
    BY <1>1, <1>5, LineNumbers
  <2>6. \A i \in M : stream[r][i].metric = {metrics'[r][Cardinality(LinesOf(r, "metric", i))]}
    BY <1>5, <2>4, <2>5
  <2>7. stream[r][c + 1].metric = {metrics'[r][Cardinality(LinesOf(r, "metric", c + 1))]}
    <3>1. Cardinality(LinesOf(r, "metric", c + 1)) = Len(metrics[r]) + 1
      BY <1>5, <2>3
    <3>2. metrics'[r][Cardinality(LinesOf(r, "metric", c + 1))] = m
      BY <2>4, <3>1
    <3>3. stream[r][c + 1].metric = {m}
      BY <1>3, <2>1
    <3> QED BY <3>2, <3>3
  <2> HIDE DEF M, A, e
  <2>8. \A i \in M \cup {c + 1} :
          stream'[r][i].metric = {metrics'[r][Cardinality(LinesOf(r, "metric", i)')]}
    BY <1>1, <1>4, <2>6, <2>7
  <2>9. /\ Len(metrics'[r]) = Cardinality(LinesOf(r, "metric", c + 1))
        /\ artifacts'[r] = Cardinality(LinesOf(r, "artifact", c + 1))
    BY <1>5, <2>2, <2>3, <2>4
  <2> QED BY <1>4, <2>3, <2>8, <2>9 DEF HasRecords
<1>7. ASSUME e.kind = "artifact", SaveArtifactReference(r) PROVE HasRecords(r, c + 1)'
  <2>1. metrics'[r] = metrics[r] /\ artifacts'[r] = artifacts[r] + 1
    BY <1>7 DEF SaveArtifactReference, HTypeOK, TypeOK
  <2>2. LinesOf(r, "metric", c + 1) = M
        /\ Cardinality(LinesOf(r, "artifact", c + 1)) = Cardinality(A) + 1
    BY <1>10, <1>7
  <2> QED BY <1>1, <1>4, <1>5, <2>1, <2>2 DEF HasRecords
<1>8. ASSUME e.kind \in {"log", "completed", "failed"}, UNCHANGED vars PROVE HasRecords(r, c + 1)'
  <2>1. metrics'[r] = metrics[r] /\ artifacts'[r] = artifacts[r]
    BY <1>8 DEF vars, files
  <2>2. LinesOf(r, "metric", c + 1) = M /\ LinesOf(r, "artifact", c + 1) = A
    BY <1>10, <1>8
  <2> QED BY <1>1, <1>4, <1>5, <2>1, <2>2 DEF HasRecords
<1>9. HasRecords(r, c + 1)'
  BY <1>6, <1>7, <1>8 DEF Replay
<1> QED BY <1>1, <1>2, <1>9 DEF Copied

LEMMA CopiedStep == ASSUME IInv, HInv, HNext, CopiedInv PROVE CopiedInv'
<1> USE DEF CopiedInv
<1>1. HTypeOK /\ TypeOK /\ HTypeOK'
  BY HostTypeStep DEF HInv, IInv
<1>2. CASE HDone
  BY <1>2, SameCopied DEF HDone, hvars, hostVars, vars, files
<1>3. ASSUME NEW r \in Runs, SessionStep(r) \/ RunnerStep(r) \/ HostStep(r) \/ HostFault(r)
                             \/ \E k \in {"log", "print"} : Emit(r, k)
      PROVE  \A q \in Runs : Copied(q)'
  <2>1. Copied(r)'
    <3>1. CASE RunnerStep(r) \/ \E k \in {"log", "print"} : Emit(r, k)
      BY <1>1, <3>1, RunnerCopied DEF HInv
    <3>2. CASE Replay(r)
      BY <1>1, <3>2, ReplayCopied DEF HInv
    <3>3. CASE Finalize(r)
      <4>1. /\ cursor[r] = Len(stream[r]) /\ UNCHANGED hostVars
            /\ metrics' = metrics /\ artifacts' = artifacts
        BY <3>3 DEF Finalize, Complete, Fail
      <4> QED BY <4>1, SameCopied DEF hostVars
    <3>4. CASE SessionStep(r) \/ HostFault(r) \/ HostError(r) \/ ReplayError(r)
      <4>1. UNCHANGED <<stream, cursor, verdict, metrics, artifacts>>
        <5>1. StartRun(r) \/ Proceed(r) \/ Abandon(r) \/ Crash(r)
          BY <3>4 DEF SessionStep, HostFault, HostError, ReplayError
        <5>2. UNCHANGED hostVars
          BY <3>4 DEF SessionStep, HostFault, HostError, ReplayError
        <5>3. UNCHANGED <<verdict, metrics, artifacts>>
          BY <5>1 DEF StartRun, Abandon, Crash, Proceed, Create, Transition, Close, files,
                      WriteInitialManifest, WriteInitialYaml, WriteInitialStatus,
                      CaptureReproducibility, TransitionManifest, TransitionYaml,
                      TransitionStatus, WriteError, WriteMetricSummary, WriteReport,
                      FinalizeStorage
        <5> QED BY <5>2, <5>3 DEF hostVars
      <4> QED BY <4>1, SameCopied
    <3>5. CASE Spawn(r)
      BY <3>5, SameCopied DEF Spawn, vars, files
    <3> QED BY <1>3, <3>1, <3>2, <3>3, <3>4, <3>5 DEF HostStep
  <2>2. ASSUME NEW q \in Runs, q # r PROVE Copied(q)'
    <3>1. HSame(q)
      BY <1>1, <1>3, <2>2, HostFrame
    <3>2. Step(r) \/ UNCHANGED vars
      BY <1>3, HostStepOf
    <3>3. metrics'[q] = metrics[q] /\ artifacts'[q] = artifacts[q]
      BY <1>1, <2>2, <3>2, Frame DEF Same, vars, files
    <3> QED BY <3>1, <3>3, SameCopied DEF HSame
  <2> QED BY <2>1, <2>2
<1> QED BY <1>2, <1>3 DEF HNext

\* A run recorded as completed holds every metric and every artifact that its callable
\* recorded, each once and in order, whatever its runner wrote between them.
THEOREM CompletedAlwaysHasAll == HSpec => []CompletedHasAllRecords
<1>1. HInit => HInv /\ CopiedInv
  <2>1. ASSUME HInit, NEW r \in Runs PROVE Copied(r)
    <3>1. HTypeOK
      BY <2>1, HInitInv DEF HInv
    <3> QED BY <2>1, <3>1, NoRecords DEF HInit, Init, Copied, HTypeOK
  <2> QED BY <2>1, HInitInv DEF CopiedInv
<1>2. HSpec => []IInv
  BY HostIsSession, Invariance, PTL
<1>3. IInv /\ HInv /\ CopiedInv /\ [HNext]_hvars
        => CopiedInv'
  <2> SUFFICES ASSUME IInv, HInv, CopiedInv, UNCHANGED hvars
               PROVE  CopiedInv'
    BY CopiedStep
  <2>1. ASSUME NEW q \in Runs PROVE Copied(q)'
    <3>1. /\ stream'[q] = stream[q] /\ cursor'[q] = cursor[q] /\ verdict'[q] = verdict[q]
          /\ metrics'[q] = metrics[q] /\ artifacts'[q] = artifacts[q]
      BY DEF hvars, hostVars, vars, files
    <3>2. Copied(q)
      BY <2>1 DEF CopiedInv
    <3> QED BY <3>1, <3>2, SameCopied
  <2> QED BY <2>1 DEF CopiedInv
<1>4. HInv /\ CopiedInv => CompletedHasAllRecords
  <2> SUFFICES ASSUME HInv, CopiedInv, NEW r \in Runs, json[r] = "completed"
               PROVE  HasRecords(r, Len(stream[r]))
    BY DEF CompletedHasAllRecords
  <2>1. verdict[r] = "complete"
    BY DEF HInv, Replayed
  <2> QED BY <2>1 DEF CopiedInv, Copied
<1> QED BY <1>1, <1>2, <1>3, <1>4, HNextInv, PTL DEF HSpec

=============================================================================
