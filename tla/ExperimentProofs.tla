-------------------------- MODULE ExperimentProofs --------------------------
(***************************************************************************)
(* Proofs about StudyRun, for any requests, any plans, any number of       *)
(* children and any limit of retention.  What is executed is a prefix of   *)
(* the plan (Matched): every child listed so far is the job of its number, *)
(* executed by the run of its number.  Retention never changes what a run  *)
(* is, and what made it remove a run never stops being true (Losses).      *)
(* Nothing of this rests on what Plan is: a value with a length.           *)
(*                                                                         *)
(* Then about RunCommand, for any commands, command lines, projects and    *)
(* calls of ctx.run: every run is one that its command made (Makers), the  *)
(* command that a callable waits for made none of the runs that were there *)
(* before (Awaits), and the runs of a command that exits with 0 are those  *)
(* of its jobs and completed (Makes).  A step of one command leaves what   *)
(* the others made and wait for (Aside), and the rest is about that one.   *)
(*                                                                         *)
(* Last, what reaches the runs: the jobs a command is committed to are     *)
(* those of its command line over the project it loaded (Committed), and   *)
(* their values are settled: written somewhere, or a run that completed.   *)
(* Parsing, registering and planning are folds of the library, which are   *)
(* recursive functions: each is given as a table with one entry per step   *)
(* (Parses, Registers, Selects, Grows), and shown to be one by FoldTable.  *)
(*                                                                         *)
(* At the end, the plan of a study itself.  A path holds a value after     *)
(* each layer that does not overlap it (HoldsStays), so a cell has what    *)
(* its rows say of a free axis (CellChooses) and what the command line     *)
(* says of a settled path (CellExplicit).  The rows of a grid are every    *)
(* choice (GridRows, GridCovers), the cells their products (CellsAre), and *)
(* the plan has the jobs of each case in one place of its own (PlanIs).    *)
(***************************************************************************)
EXTENDS StudyRun, RunCommand, FiniteSetTheorems, WellFoundedInduction, TLAPS

RunOf == [experiment : {plan[i].experiment : i \in Nat}, params : {Received(plan[i]) : i \in Nat},
          status : Statuses, promoted : BOOLEAN, kept : BOOLEAN]
ChildOf == [experiment : {plan[i].experiment : i \in Nat}, condition : {plan[i].condition : i \in Nat},
            variant : {plan[i].variant : i \in Nat}, job_id : Nat, run_id : Nat,
            status : {"completed", "failed"}]

Typed == /\ runs \in Seq(RunOf)
         /\ children \in Seq(ChildOf)
         /\ failures \in Nat
         /\ parent = [status |-> parent.status, results |-> parent.results]

Unstarted == pc \in {"plan", "create"} => runs = <<>> /\ children = <<>> /\ failures = 0

Entry(i) == /\ children[i].job_id = i /\ children[i].run_id = i
            /\ children[i].experiment = plan[i].experiment
            /\ children[i].condition = plan[i].condition
            /\ children[i].variant = plan[i].variant
            /\ runs[i].experiment = children[i].experiment
            /\ runs[i].status = children[i].status

FailedRuns(rs) == {i \in DOMAIN rs : rs[i].status = "failed"}

Matched == pc \in Live =>
  /\ Len(runs) = IF pc = "child" THEN Len(children) + 1 ELSE Len(children)
  /\ pc = "child" => LET run == runs[Len(runs)]
                     IN run.status = "running" /\ ~run.promoted /\ run.experiment = Current.experiment
  /\ \A i \in DOMAIN children : Entry(i)
  /\ failures = Cardinality(FailedRuns(runs))
  /\ parent.status \notin {"completed", "failed"}

Saved == pc = "close" => /\ Len(children) = Len(plan)
                         /\ parent.results = [runs |-> children, failures |-> failures]

IInv == Typed /\ Unstarted /\ Matched /\ Saved /\ LosesOnlySurplus /\ ParentAccounts

-----------------------------------------------------------------------------
(* Sequences of runs.                                                      *)

\* A run appended or changed at the end leaves the earlier ones alone.
LEMMA Appended ==
  ASSUME NEW S, NEW rs \in Seq(S), NEW e \in S
  PROVE  /\ Append(rs, e) \in Seq(S)
         /\ Len(Append(rs, e)) = Len(rs) + 1
         /\ DOMAIN Append(rs, e) = DOMAIN rs \cup {Len(rs) + 1}
         /\ \A i \in DOMAIN rs : Append(rs, e)[i] = rs[i]
         /\ Append(rs, e)[Len(rs) + 1] = e
OBVIOUS

\* The runs that failed are finitely many.
LEMMA FailedFinite ==
  ASSUME NEW S, NEW rs \in Seq(S)
  PROVE  IsFiniteSet(FailedRuns(rs)) /\ Cardinality(FailedRuns(rs)) \in Nat
<1>1. IsFiniteSet(1..Len(rs))
  BY FS_Interval
<1>2. FailedRuns(rs) \subseteq 1..Len(rs)
  BY DEF FailedRuns
<1> QED BY <1>1, <1>2, FS_Subset, FS_CardinalityType

\* More runs never make fewer later ones.
LEMMA LaterGrows ==
  ASSUME NEW S, NEW T, NEW rs \in Seq(S), NEW qs \in Seq(T), NEW i, Later(rs, i) \subseteq Later(qs, i),
         Cardinality(Later(rs, i)) >= Keep
  PROVE  Cardinality(Later(qs, i)) >= Keep
<1>1. IsFiniteSet(1..Len(qs))
  BY FS_Interval
<1>2. IsFiniteSet(Later(qs, i))
  BY <1>1, FS_Subset DEF Later
<1> QED BY <1>2, FS_Subset, FS_CardinalityType, StudyAssumption

\* Retention changes nothing of a run but whether it is kept.
LEMMA Kept ==
  ASSUME NEW rs \in Seq(RunOf), NEW gone
  PROVE  /\ Without(rs, gone) \in Seq(RunOf)
         /\ Len(Without(rs, gone)) = Len(rs)
         /\ DOMAIN Without(rs, gone) = DOMAIN rs
         /\ \A i \in DOMAIN rs : /\ Without(rs, gone)[i].experiment = rs[i].experiment
                                 /\ Without(rs, gone)[i].status = rs[i].status
                                 /\ Without(rs, gone)[i].promoted = rs[i].promoted
                                 /\ Without(rs, gone)[i].kept <=> (rs[i].kept /\ i \notin gone)
<1>1. \A i \in DOMAIN rs : rs[i] \in RunOf
  OBVIOUS
<1>2. \A i \in DOMAIN rs : [rs[i] EXCEPT !.kept = @ /\ i \notin gone] \in RunOf
  BY <1>1 DEF RunOf
<1>3. DOMAIN rs = 1..Len(rs) /\ Len(rs) \in Nat
  OBVIOUS
<1>4. Without(rs, gone) \in [1..Len(rs) -> RunOf]
  BY <1>2, <1>3 DEF Without
<1>5. Without(rs, gone) \in Seq(RunOf)
  BY <1>3, <1>4
<1>6. \A i \in DOMAIN rs : Without(rs, gone)[i] = [rs[i] EXCEPT !.kept = @ /\ i \notin gone]
  BY DEF Without
<1>7. \A i \in DOMAIN rs : DOMAIN rs[i] = {"experiment", "params", "status", "promoted", "kept"}
  BY <1>1 DEF RunOf
<1>8. \A i \in DOMAIN rs : /\ Without(rs, gone)[i].experiment = rs[i].experiment
                           /\ Without(rs, gone)[i].status = rs[i].status
                           /\ Without(rs, gone)[i].promoted = rs[i].promoted
                           /\ Without(rs, gone)[i].kept <=> (rs[i].kept /\ i \notin gone)
  <2> SUFFICES ASSUME NEW i \in DOMAIN rs
               PROVE  /\ Without(rs, gone)[i].experiment = rs[i].experiment
                      /\ Without(rs, gone)[i].status = rs[i].status
                      /\ Without(rs, gone)[i].promoted = rs[i].promoted
                      /\ Without(rs, gone)[i].kept <=> (rs[i].kept /\ i \notin gone)
    OBVIOUS
  <2>1. Without(rs, gone)[i] = [rs[i] EXCEPT !.kept = @ /\ i \notin gone]
    BY <1>6
  <2> QED BY <1>7, <2>1
<1>9. Len(Without(rs, gone)) = Len(rs) /\ DOMAIN Without(rs, gone) = DOMAIN rs
  BY <1>3, <1>4, <1>5
<1> QED BY <1>5, <1>8, <1>9

Losses(rs) == \A i \in DOMAIN rs : ~rs[i].kept => Cardinality(Later(rs, i)) >= Keep

\* A pass of retention removes surplus only.
LEMMA FinalizeLosses ==
  ASSUME NEW rs \in Seq(RunOf), NEW gone \in SUBSET Surplus(rs), Losses(rs)
  PROVE  Losses(Without(rs, gone))
<1> DEFINE qs == Without(rs, gone)
<1>1. qs \in Seq(RunOf) /\ DOMAIN qs = DOMAIN rs /\ DOMAIN rs = 1..Len(rs)
  BY Kept
<1>2. \A i \in DOMAIN rs : Later(rs, i) \subseteq Later(qs, i)
  BY Kept DEF Later
<1> SUFFICES ASSUME NEW i \in DOMAIN rs, ~qs[i].kept
             PROVE  Cardinality(Later(qs, i)) >= Keep
  BY <1>1 DEF Losses
<1>3. ~rs[i].kept \/ i \in gone
  BY Kept
<1>4. CASE ~rs[i].kept
  <2>1. Cardinality(Later(rs, i)) >= Keep
    BY <1>4 DEF Losses
  <2> QED BY <1>1, <1>2, <2>1, LaterGrows
<1>5. CASE i \in gone
  <2> DEFINE newer == {j \in Counted(rs, rs[i].experiment) : j > i}
  <2>1. Cardinality(newer) >= Keep
    BY <1>5 DEF Surplus
  <2>2. newer \subseteq Later(qs, i)
    BY <1>2 DEF Counted, Later
  <2>3. IsFiniteSet(1..Len(rs))
    <3>1. Len(rs) \in Int /\ 1 \in Int
      OBVIOUS
    <3> HIDE DEF newer
    <3> QED BY <3>1, FS_Interval
  <2>4. IsFiniteSet(Later(qs, i))
    BY <1>1, <2>3, FS_Subset DEF Later
  <2> HIDE DEF newer
  <2>5. Cardinality(newer) <= Cardinality(Later(qs, i))
    BY <2>2, <2>4, FS_Subset
  <2>6. Cardinality(newer) \in Nat /\ Cardinality(Later(qs, i)) \in Nat /\ Keep \in Nat
    BY <2>2, <2>4, FS_Subset, FS_CardinalityType, StudyAssumption
  <2> QED BY <2>1, <2>5, <2>6
<1> QED BY <1>3, <1>4, <1>5

\* Nor does another run, or another status, make one that is gone needed.
LEMMA OtherLosses ==
  ASSUME NEW rs \in Seq(RunOf), NEW qs \in Seq(RunOf), Losses(rs), DOMAIN rs \subseteq DOMAIN qs,
         \A i \in DOMAIN rs : /\ qs[i].experiment = rs[i].experiment
                              /\ qs[i].kept <=> rs[i].kept
                              /\ rs[i].promoted => qs[i].promoted,
         \A i \in DOMAIN qs \ DOMAIN rs : qs[i].kept
  PROVE  Losses(qs)
<1> SUFFICES ASSUME NEW i \in DOMAIN qs, ~qs[i].kept PROVE Cardinality(Later(qs, i)) >= Keep
  BY DEF Losses
<1>1. i \in DOMAIN rs /\ Cardinality(Later(rs, i)) >= Keep
  BY DEF Losses
<1>2. Later(rs, i) \subseteq Later(qs, i)
  BY <1>1 DEF Later
<1> QED BY <1>1, <1>2, LaterGrows

-----------------------------------------------------------------------------
(* The steps.                                                              *)

\* As long as no child was started there is little to show.
Early == /\ runs = <<>> /\ children = <<>> /\ failures = 0
         /\ pc \notin {"child", "close"}
         /\ parent = [status |-> parent.status, results |-> parent.results]
         /\ parent.status \notin {"completed", "failed"}

\* Before a parent exists there is nothing to relate (Early).
LEMMA EarlyHolds == Early => IInv
<1> SUFFICES ASSUME Early PROVE IInv
  OBVIOUS
<1> USE DEF Early
<1>1. \A S : <<>> \in Seq(S)
  OBVIOUS
<1>2. Typed
  BY <1>1 DEF Typed
<1>3. FailedRuns(runs) = {} /\ DOMAIN children = {} /\ Len(runs) = 0 /\ Len(children) = 0
  BY DEF FailedRuns
<1>4. Matched
  BY <1>3, FS_EmptySet DEF Matched
<1>5. LosesOnlySurplus /\ Unstarted /\ Saved /\ ParentAccounts
  BY DEF LosesOnlySurplus, Unstarted, Saved, ParentAccounts
<1> QED BY <1>2, <1>4, <1>5 DEF IInv

\* Nothing is planned or run at first (Init).
LEMMA InitInv == Init => IInv
BY EarlyHolds DEF Init, Early

\* A plan changes no run (PlanStudy, PlanError).
LEMMA PlanInv == ASSUME IInv, PlanStudy \/ PlanError PROVE IInv'
<1>1. runs' = <<>> /\ children' = <<>> /\ failures' = 0 /\ parent' = parent
  BY DEF IInv, Unstarted, PlanStudy, PlanError
<1>2. parent.status \notin {"completed", "failed"} /\ pc' \notin {"child", "close"}
  BY DEF IInv, Matched, Live, PlanStudy, PlanError, Return
<1>3. parent = [status |-> parent.status, results |-> parent.results]
  BY DEF IInv, Typed
<1>4. Early'
  BY <1>1, <1>2, <1>3 DEF Early
<1> QED BY <1>4, EarlyHolds, PTL

\* The parent is created with nothing listed (CreateParent, CreateParentError).
LEMMA CreateInv == ASSUME IInv, CreateParent \/ CreateParentError PROVE IInv'
<1>1. runs' = <<>> /\ children' = <<>> /\ failures' = 0
  BY DEF IInv, Unstarted, CreateParent, CreateParentError
<1>2. PICK s \in {"none", "created", "running"} : parent' = [parent EXCEPT !.status = s]
  BY DEF CreateParent, CreateParentError
<1>3. parent' = [status |-> s, results |-> parent.results]
  BY <1>2 DEF IInv, Typed
<1>4. pc' \notin {"child", "close"}
  BY DEF CreateParent, CreateParentError, Return
<1>5. Early'
  BY <1>1, <1>3, <1>4 DEF Early
<1> QED BY <1>5, EarlyHolds, PTL

\* A run appended, or changed at the end, and nothing else.
LEMMA StartInv == ASSUME IInv, StartChild PROVE IInv'
<1> USE DEF StartChild
<1> DEFINE e == NewRun("running")
<1>1. runs \in Seq(RunOf) /\ runs' = Append(runs, e) /\ pc \in Live /\ Len(runs) = Len(children)
  BY DEF IInv, Typed, Matched, Live
<1>2. Len(children) + 1 \in Nat
  BY DEF IInv, Typed
<1>3. e \in RunOf
  BY <1>2 DEF NewRun, RunOf, Current, Statuses
<1>4. RunOf' = RunOf /\ ChildOf' = ChildOf
  BY DEF RunOf, ChildOf, Received
<1>5. e.status = "running" /\ ~e.promoted /\ e.kept /\ e.experiment = Current.experiment
  BY DEF NewRun
<1> HIDE DEF e
<1>6. /\ runs' \in Seq(RunOf) /\ Len(runs') = Len(runs) + 1
      /\ DOMAIN runs' = DOMAIN runs \cup {Len(runs) + 1}
      /\ \A i \in DOMAIN runs : runs'[i] = runs[i]
      /\ runs'[Len(runs) + 1] = e
  BY <1>1, <1>3, Appended
<1>7. Typed'
  BY <1>4, <1>6 DEF IInv, Typed
<1>8. LosesOnlySurplus'
  <2>1. Losses(runs)
    BY DEF IInv, LosesOnlySurplus, Losses
  <2>2. Losses(runs')
    BY <1>1, <1>5, <1>6, <2>1, OtherLosses
  <2> QED BY <2>2 DEF Losses, LosesOnlySurplus, Later
<1>9. Matched'
  <2>1. \A i \in DOMAIN children : i \in DOMAIN runs /\ Entry(i)
    BY <1>1 DEF IInv, Typed, Matched
  <2>2. \A i \in DOMAIN children : Entry(i)'
    BY <1>6, <2>1 DEF Entry
  <2>3. FailedRuns(runs') = FailedRuns(runs)
    BY <1>5, <1>6 DEF FailedRuns
  <2> QED BY <1>1, <1>5, <1>6, <2>2, <2>3 DEF IInv, Matched, Current, Live, FailedRuns
<1>10. Unstarted' /\ Saved' /\ ParentAccounts'
  BY <1>1 DEF IInv, Unstarted, Saved, Matched, ParentAccounts
<1> QED BY <1>7, <1>8, <1>9, <1>10 DEF IInv

\* The run of a child takes its last status.
LEMMA EndingRuns ==
  ASSUME IInv, pc = "child", NEW s \in {"running", "completed", "failed"}, NEW promoted \in BOOLEAN
  PROVE  LET qs == Ending(s, promoted)
         IN /\ qs \in Seq(RunOf) /\ DOMAIN qs = DOMAIN runs /\ Len(runs) \in DOMAIN runs
            /\ \A i \in DOMAIN runs : qs[i].experiment = runs[i].experiment
            /\ \A i \in DOMAIN runs : i # Len(runs) => qs[i] = runs[i]
            /\ qs[Len(runs)].status = s
            /\ Losses(qs)
<1> DEFINE qs == Ending(s, promoted)
<1>1. runs \in Seq(RunOf) /\ Len(runs) = Len(children) + 1 /\ Len(children) \in Nat /\ DOMAIN runs = 1..Len(runs)
  BY DEF IInv, Typed, Matched, Live
<1>2. Len(runs) \in DOMAIN runs
  BY <1>1
<1>3. runs[Len(runs)] \in RunOf
  BY <1>1, <1>2
<1>4. [runs[Len(runs)] EXCEPT !.status = s, !.promoted = promoted] \in RunOf
  BY <1>3 DEF RunOf, Statuses
<1>5. qs = [runs EXCEPT ![Len(runs)] = [runs[Len(runs)] EXCEPT !.status = s, !.promoted = promoted]]
  BY DEF Ending
<1>6. qs \in Seq(RunOf) /\ DOMAIN qs = DOMAIN runs
  BY <1>1, <1>2, <1>4, <1>5
<1>7. \A i \in DOMAIN runs : i # Len(runs) => qs[i] = runs[i]
  BY <1>5
<1>8. qs[Len(runs)] = [runs[Len(runs)] EXCEPT !.status = s, !.promoted = promoted]
  BY <1>2, <1>5
<1>9. /\ qs[Len(runs)].status = s
      /\ qs[Len(runs)].experiment = runs[Len(runs)].experiment
      /\ qs[Len(runs)].kept = runs[Len(runs)].kept
      /\ ~runs[Len(runs)].promoted
  BY <1>3, <1>8 DEF RunOf, IInv, Matched, Live
<1>10. Losses(runs)
  BY DEF IInv, LosesOnlySurplus, Losses
<1> HIDE DEF qs
<1>11. Losses(qs)
  BY <1>1, <1>6, <1>7, <1>9, <1>10, OtherLosses
<1> QED BY <1>2, <1>6, <1>7, <1>9, <1>11 DEF qs

\* The child is listed with the status of its run.
LEMMA ListedInv ==
  ASSUME IInv, pc = "child", pc' = "next", NEW s \in {"completed", "failed"},
         UNCHANGED <<request, plan, parent>>,
         runs' \in Seq(RunOf), DOMAIN runs' = DOMAIN runs,
         \A i \in DOMAIN runs : runs'[i].experiment = runs[i].experiment,
         \A i \in DOMAIN runs : i # Len(runs) => runs'[i].status = runs[i].status,
         runs'[Len(runs)].status = s,
         Losses(runs'),
         children' = Append(children, Child(s)),
         failures' = IF s = "failed" THEN failures + 1 ELSE failures
  PROVE  IInv'
<1> DEFINE n == Len(runs)
<1>1. /\ runs \in Seq(RunOf) /\ children \in Seq(ChildOf) /\ n = Len(children) + 1 /\ n \in Nat
      /\ DOMAIN runs = 1..n /\ DOMAIN children = 1..Len(children) /\ Len(children) \in Nat
  BY DEF IInv, Typed, Matched, Live
<1>2. Len(runs') = n
  BY <1>1
<1>3. Child(s) \in ChildOf
  BY <1>1 DEF Child, ChildOf, Current
<1>4. RunOf' = RunOf /\ ChildOf' = ChildOf
  BY DEF RunOf, ChildOf, Received
<1>5. /\ children' \in Seq(ChildOf) /\ Len(children') = n /\ DOMAIN children' = DOMAIN children \cup {n}
      /\ \A i \in DOMAIN children : children'[i] = children[i]
      /\ children'[n] = Child(s)
  BY <1>1, <1>3, Appended
<1>6. Typed'
  BY <1>4, <1>5 DEF IInv, Typed
<1>7. LosesOnlySurplus'
  BY DEF Losses, LosesOnlySurplus, Later
<1>8. \A i \in DOMAIN children' : Entry(i)'
  <2>1. ASSUME NEW i \in DOMAIN children PROVE Entry(i)'
    <3>1. Entry(i) /\ i \in DOMAIN runs /\ i # n
      BY <1>1 DEF IInv, Matched, Live
    <3> QED BY <1>5, <3>1 DEF Entry
  <2>2. Entry(n)'
    <3>1. runs[n].experiment = Current.experiment
      BY DEF IInv, Matched, Live
    <3>2. /\ Child(s).job_id = n /\ Child(s).run_id = n /\ Child(s).experiment = plan[n].experiment
          /\ Child(s).condition = plan[n].condition /\ Child(s).variant = plan[n].variant /\ Child(s).status = s
      BY <1>1 DEF Child, Current
    <3>3. plan[n].experiment = Current.experiment /\ n \in DOMAIN runs
      BY <1>1 DEF Current
    <3> QED BY <1>5, <3>1, <3>2, <3>3 DEF Entry
  <2> QED BY <1>5, <2>1, <2>2
<1>9. failures' = Cardinality(FailedRuns(runs'))
  <2>1. n \in DOMAIN runs /\ n \notin FailedRuns(runs) /\ failures = Cardinality(FailedRuns(runs))
    BY <1>1 DEF IInv, Matched, Live, FailedRuns
  <2>2. FailedRuns(runs') = IF s = "failed" THEN FailedRuns(runs) \cup {n} ELSE FailedRuns(runs)
    BY <2>1 DEF FailedRuns
  <2>3. IsFiniteSet(FailedRuns(runs))
    BY <1>1, FailedFinite
  <2> QED BY <2>1, <2>2, <2>3, FS_AddElement
<1>10. Matched'
  <2>1. parent.status \notin {"completed", "failed"}
    BY DEF IInv, Matched, Live
  <2> QED BY <1>2, <1>5, <1>8, <1>9, <2>1 DEF Matched, FailedRuns
<1>11. Unstarted' /\ Saved' /\ ParentAccounts'
  BY <1>10 DEF Unstarted, Saved, Matched, Live, ParentAccounts
<1> QED BY <1>6, <1>7, <1>10, <1>11 DEF IInv

\* A child that completes is listed as one (ChildCompletes).
LEMMA CompletesInv == ASSUME IInv, ChildCompletes PROVE IInv'
<1>1. PICK promoted \in BOOLEAN : Finalize(Ending("completed", promoted))
  BY DEF ChildCompletes
<1> DEFINE qs == Ending("completed", promoted)
<1>2. PICK gone \in SUBSET Surplus(qs) : runs' = Without(qs, gone)
  BY <1>1 DEF Finalize
<1>3. pc = "child"
  BY DEF ChildCompletes
<1>4. /\ qs \in Seq(RunOf) /\ DOMAIN qs = DOMAIN runs /\ Len(runs) \in DOMAIN runs
      /\ \A i \in DOMAIN runs : qs[i].experiment = runs[i].experiment
      /\ \A i \in DOMAIN runs : i # Len(runs) => qs[i] = runs[i]
      /\ qs[Len(runs)].status = "completed"
      /\ Losses(qs)
  BY <1>3, EndingRuns
<1> HIDE DEF qs
<1>5. Losses(runs')
  BY <1>2, <1>4, FinalizeLosses
<1>6. /\ runs' \in Seq(RunOf) /\ DOMAIN runs' = DOMAIN runs
      /\ \A i \in DOMAIN runs : runs'[i].experiment = qs[i].experiment /\ runs'[i].status = qs[i].status
  BY <1>2, <1>4, Kept
<1> QED BY <1>3, <1>4, <1>5, <1>6, ListedInv DEF ChildCompletes

\* A child that fails is listed as one and counted, once it is a run of the study (ChildFails).
LEMMA FailsInv == ASSUME IInv, ChildFails PROVE IInv'
<1>1. PICK promoted \in BOOLEAN : runs' = Ending("failed", promoted)
  BY DEF ChildFails
<1>2. pc = "child"
  BY DEF ChildFails
<1> QED BY <1>1, <1>2, EndingRuns, ListedInv DEF ChildFails

\* An error of a child ends the study (ChildError).
LEMMA ErrorInv == ASSUME IInv, ChildError PROVE IInv'
<1> USE DEF ChildError, Return
<1>1. /\ runs \in Seq(RunOf) /\ children \in Seq(ChildOf) /\ Losses(runs)
      /\ parent.status \notin {"completed", "failed"}
  BY DEF IInv, Typed, Matched, Live, LosesOnlySurplus, Losses
<1>2. RunOf' = RunOf /\ ChildOf' = ChildOf
  BY DEF RunOf, ChildOf, Received
<1>3. runs' \in Seq(RunOf) /\ Losses(runs')
  <2>1. CASE UNCHANGED runs
    BY <1>1, <2>1
  <2>2. CASE runs' = Append(runs, NewRun("created"))
    <3> DEFINE e == NewRun("created")
    <3>1. Len(children) + 1 \in Nat
      BY <1>1
    <3>2. e \in RunOf /\ e.kept
      BY <3>1 DEF NewRun, RunOf, Current, Statuses
    <3> HIDE DEF e
    <3>3. /\ runs' \in Seq(RunOf) /\ DOMAIN runs' = DOMAIN runs \cup {Len(runs) + 1}
          /\ \A i \in DOMAIN runs : runs'[i] = runs[i]
          /\ runs'[Len(runs) + 1] = e
      BY <1>1, <2>2, <3>2, Appended DEF e
    <3> QED BY <1>1, <3>2, <3>3, OtherLosses
  <2>3. ASSUME pc = "child", NEW s \in {"running", "completed", "failed"}, NEW promoted \in BOOLEAN,
               runs' = Ending(s, promoted)
        PROVE  runs' \in Seq(RunOf) /\ Losses(runs')
    BY <2>3, EndingRuns
  <2> QED BY <2>1, <2>2, <2>3
<1>4. Typed'
  BY <1>2, <1>3 DEF IInv, Typed
<1>5. LosesOnlySurplus'
  BY <1>3 DEF Losses, LosesOnlySurplus, Later
<1>6. Matched' /\ Unstarted' /\ Saved' /\ ParentAccounts'
  BY <1>1 DEF Matched, Unstarted, Saved, ParentAccounts, Live
<1> QED BY <1>4, <1>5, <1>6 DEF IInv

\* What is saved is what was listed and counted (SaveResults).
LEMMA SaveInv == ASSUME IInv, SaveResults PROVE IInv'
<1> USE DEF SaveResults
<1>1. parent' = [status |-> parent.status, results |-> [runs |-> children, failures |-> failures]]
  BY DEF IInv, Typed
<1>2. RunOf' = RunOf /\ ChildOf' = ChildOf
  BY DEF RunOf, ChildOf, Received
<1>3. Typed'
  BY <1>1, <1>2 DEF IInv, Typed
<1>4. Matched'
  BY <1>1 DEF IInv, Matched, Entry, Live, FailedRuns
<1>5. Unstarted' /\ Saved' /\ LosesOnlySurplus'
  BY <1>1 DEF IInv, Unstarted, Saved, LosesOnlySurplus, Later
<1>6. ParentAccounts'
  BY <1>1, <1>4 DEF Matched, Live, ParentAccounts
<1> QED BY <1>3, <1>4, <1>5, <1>6 DEF IInv

\* Closing the parent, with or without an error at the end.
LEMMA ClosingInv ==
  ASSUME IInv, pc = "close", pc' = "returned", UNCHANGED <<request, plan, children, failures>>,
         NEW s \in {"running", Verdict}, parent' = [parent EXCEPT !.status = s],
         runs' \in Seq(RunOf), DOMAIN runs' = DOMAIN runs, Losses(runs'),
         \A i \in DOMAIN runs : runs'[i].experiment = runs[i].experiment /\ runs'[i].status = runs[i].status
  PROVE  IInv'
<1>1. parent' = [status |-> s, results |-> parent.results]
  BY DEF IInv, Typed
<1>2. RunOf' = RunOf /\ ChildOf' = ChildOf
  BY DEF RunOf, ChildOf, Received
<1>3. Typed'
  BY <1>1, <1>2 DEF IInv, Typed
<1>4. LosesOnlySurplus'
  BY DEF Losses, LosesOnlySurplus, Later
<1>5. Matched' /\ Unstarted' /\ Saved'
  BY DEF Matched, Unstarted, Saved, Live
<1>6. ASSUME s = Verdict PROVE ParentAccounts'
  <2>1. /\ parent'.results = [runs |-> children, failures |-> failures]
        /\ Len(children) = Len(plan) /\ Len(runs) = Len(children)
        /\ \A i \in DOMAIN children : Entry(i)
        /\ failures = Cardinality(FailedRuns(runs))
        /\ runs \in Seq(RunOf) /\ children \in Seq(ChildOf)
    BY <1>1 DEF IInv, Saved, Matched, Live, Typed
  <2>2. Len(runs') = Len(runs) /\ DOMAIN runs = 1..Len(runs) /\ DOMAIN children = DOMAIN runs
    BY <2>1
  <2>3. ListsEveryJob'
    BY <2>1, <2>2 DEF ListsEveryJob, Entry
  <2>4. FailedRuns(runs') = FailedRuns(runs)
    BY DEF FailedRuns
  <2>5. failures = 0 <=> FailedRuns(runs) = {}
    BY <2>1, FailedFinite, FS_EmptySet
  <2>6. parent'.status = "completed" <=> failures = 0
    BY <1>1, <1>6 DEF Verdict
  <2>7. parent'.results.failures = Cardinality(FailedRuns(runs'))
    BY <2>1, <2>4
  <2>8. CountsFailures'
    BY <2>4, <2>5, <2>6, <2>7 DEF CountsFailures, FailedRuns
  <2> QED BY <1>4, <2>3, <2>8 DEF ParentAccounts
<1>7. ASSUME s = "running" PROVE ParentAccounts'
  BY <1>1, <1>7 DEF ParentAccounts
<1> QED BY <1>3, <1>4, <1>5, <1>6, <1>7 DEF IInv

\* The verdict is about the failures counted (CloseParent, CloseParentError).
LEMMA CloseInv == ASSUME IInv, CloseParent \/ CloseParentError PROVE IInv'
<1>1. runs \in Seq(RunOf) /\ Losses(runs)
  BY DEF IInv, Typed, LosesOnlySurplus, Losses
<1>2. CASE CloseParent /\ failures = 0
  <2>1. PICK gone \in SUBSET Surplus(runs) : runs' = Without(runs, gone)
    BY <1>2 DEF CloseParent, Finalize
  <2>2. Losses(runs')
    BY <1>1, <2>1, FinalizeLosses
  <2>3. /\ runs' \in Seq(RunOf) /\ DOMAIN runs' = DOMAIN runs
        /\ \A i \in DOMAIN runs : runs'[i].experiment = runs[i].experiment /\ runs'[i].status = runs[i].status
    BY <1>1, <2>1, Kept
  <2>4. /\ pc = "close" /\ pc' = "returned" /\ UNCHANGED <<request, plan, children, failures>>
        /\ parent' = [parent EXCEPT !.status = Verdict]
    BY <1>2 DEF CloseParent, Return
  <2> QED BY <2>2, <2>3, <2>4, ClosingInv
<1>3. CASE CloseParent /\ failures # 0
  <2>1. /\ pc = "close" /\ pc' = "returned" /\ UNCHANGED <<request, plan, runs, children, failures>>
        /\ parent' = [parent EXCEPT !.status = Verdict]
    BY <1>3 DEF CloseParent, Return
  <2> QED BY <1>1, <2>1, ClosingInv
<1>4. CASE CloseParentError
  <2>1. /\ pc = "close" /\ pc' = "returned" /\ UNCHANGED <<request, plan, runs, children, failures>>
    BY <1>4 DEF CloseParentError, Return
  <2>2. PICK s \in {"running", Verdict} : parent' = [parent EXCEPT !.status = s]
    BY <1>4 DEF CloseParentError
  <2> QED BY <1>1, <2>1, <2>2, ClosingInv
<1> QED BY <1>2, <1>3, <1>4

\* rlab is killed, or has ended.
LEMMA RestInv == ASSUME IInv, Die \/ UNCHANGED vars PROVE IInv'
<1>1. UNCHANGED <<request, plan, runs, children, failures, parent>> /\ (pc' = pc \/ pc' = "dead")
  BY DEF Die, vars
<1>2. RunOf' = RunOf /\ ChildOf' = ChildOf
  BY <1>1 DEF RunOf, ChildOf, Received
<1>3. Typed'
  BY <1>1, <1>2 DEF IInv, Typed
<1>4. LosesOnlySurplus' = LosesOnlySurplus
  BY <1>1 DEF LosesOnlySurplus, Later
<1>5. ListsEveryJob' = ListsEveryJob /\ CountsFailures' = CountsFailures
  BY <1>1 DEF ListsEveryJob, CountsFailures
<1>6. ParentAccounts' /\ LosesOnlySurplus'
  BY <1>1, <1>4, <1>5 DEF IInv, ParentAccounts
<1>7. Unstarted' /\ Saved'
  BY <1>1 DEF IInv, Unstarted, Saved
<1>8. \A i \in DOMAIN children : Entry(i)' = Entry(i)
  BY <1>1 DEF Entry
<1>9. ASSUME pc' = pc PROVE Matched'
  BY <1>1, <1>8, <1>9 DEF IInv, Matched, Current, FailedRuns
<1>10. ASSUME pc' = "dead" PROVE Matched'
  BY <1>10 DEF Matched, Live
<1>11. Matched'
  BY <1>1, <1>9, <1>10
<1> QED BY <1>3, <1>6, <1>7, <1>11 DEF IInv

\* Every step of a study keeps the invariant.
LEMMA NextInv == IInv /\ [Next]_vars => IInv'
<1> SUFFICES ASSUME IInv, [Next]_vars PROVE IInv'
  OBVIOUS
<1>1. CASE PlanStudy \/ PlanError           BY <1>1, PlanInv
<1>2. CASE CreateParent \/ CreateParentError BY <1>2, CreateInv
<1>3. CASE StartChild                       BY <1>3, StartInv
<1>4. CASE ChildCompletes                   BY <1>4, CompletesInv
<1>5. CASE ChildFails                       BY <1>5, FailsInv
<1>6. CASE ChildError                       BY <1>6, ErrorInv
<1>7. CASE SaveResults                      BY <1>7, SaveInv
<1>8. CASE CloseParent \/ CloseParentError   BY <1>8, CloseInv
<1>9. CASE Die \/ UNCHANGED vars            BY <1>9, RestInv
<1>10. CASE Done                            BY <1>10, RestInv DEF Done
<1> QED BY <1>1, <1>2, <1>3, <1>4, <1>5, <1>6, <1>7, <1>8, <1>9, <1>10 DEF Next

-----------------------------------------------------------------------------

\* A study that reads as ended accounts for its children: every job of the plan
\* in order with the status of its run, the number that failed, and no run
\* removed but those retention has newer ones for.
THEOREM ParentAlwaysAccounts == Spec => []ParentAccounts
<1>1. IInv => ParentAccounts
  BY DEF IInv
<1> QED BY <1>1, InitInv, NextInv, PTL DEF Spec

\* What a study lists while it runs is a prefix of its plan, each job executed
\* by a run of its own: no job is executed twice, or skipped.
THEOREM ChildrenAlwaysMatch == Spec => []Matched
<1>1. IInv => Matched
  BY DEF IInv
<1> QED BY <1>1, InitInv, NextInv, PTL DEF Spec

-----------------------------------------------------------------------------
(* Commands and the runs their callables make.                             *)

Ended == {"completed", "failed"}

RunRow(r) == /\ DOMAIN r = {"by", "parent", "kind", "name", "params", "status"}
             /\ r.by \in Commands
             /\ r.status \in {"running"} \cup Ended

ChildRowType == [run : 1..MaxRuns, status : {"running"} \cup Ended, cmd : Commands,
                 tolerant : BOOLEAN, returned : BOOLEAN]

Total(f) == f = [c \in Commands |-> f[c]]

CommandTypeOK ==
  /\ phase \in [Commands -> Alive \cup Ends \cup {"off"}]
  /\ Total(call) /\ Total(loaded) /\ Total(jobs) /\ Total(nested)
  /\ cmdRuns \in Seq(ToSet(cmdRuns)) /\ Len(cmdRuns) <= MaxRuns
  /\ \A r \in 1..Len(cmdRuns) : RunRow(cmdRuns[r])
  /\ made \in [Commands -> Seq(1..MaxRuns)]
  /\ dir \subseteq 1..Len(cmdRuns)
  /\ childRuns \in [1..MaxRuns -> Seq(ChildRowType)]

\* What the command has made so far: runs of its own, that ended but for the last.
Made(c, i) == /\ made[c][i] \in 1..Len(cmdRuns)
              /\ cmdRuns[made[c][i]].by = c
              /\ cmdRuns[made[c][i]].params = Executed(jobs[c][i], loaded[c])
              /\ cmdRuns[made[c][i]].kind = jobs[c][i].kind
              /\ cmdRuns[made[c][i]].name = jobs[c][i].name
              /\ phase[c] \in {"ready", "exit0", "exit1"} \/ (phase[c] \in Alive /\ i < Len(made[c]))
                   => cmdRuns[made[c][i]].status \in Ended
              /\ phase[c] = "exit0" => cmdRuns[made[c][i]].status = "completed"

Makes(c) == /\ \A i \in 1..Len(made[c]) : Made(c, i)
            /\ phase[c] \in {"off", "started"} => made[c] = <<>>
            /\ phase[c] \in {"calling", "waiting"} => made[c] # <<>>
            /\ phase[c] = "exit0" => Len(made[c]) = Len(jobs[c])

\* Every run is one that its command made.
Makers == \A r \in 1..Len(cmdRuns) : \E i \in 1..Len(made[cmdRuns[r].by]) : made[cmdRuns[r].by][i] = r

\* The command that a callable waits for makes no run that was there before.
Awaits(c) == phase[c] = "waiting" =>
  /\ nested[c].cmd \in Commands /\ phase[nested[c].cmd] # "off"
  /\ nested[c].before \subseteq 1..Len(cmdRuns)
  /\ nested[c].tolerant \in BOOLEAN
  /\ \A i \in 1..Len(made[nested[c].cmd]) : made[nested[c].cmd][i] \notin nested[c].before

\* A child that is listed is the one run that its command left.
ListedChild(e) ==
  /\ phase[e.cmd] \in Ends
  /\ e.run \in 1..Len(cmdRuns)
  /\ Own(e) \/ ToSet(made[e.cmd]) \cap dir = {}
  /\ e.returned /\ ~e.tolerant /\ Own(e) => cmdRuns[e.run].status = "completed"

CommandInv == /\ CommandTypeOK
              /\ Makers
              /\ \A c \in Commands : Makes(c) /\ Awaits(c)
              /\ \A e \in ChildRows : ListedChild(e)

-----------------------------------------------------------------------------

\* A sequence is one of its elements.
LEMMA SeqOfElements == ASSUME NEW S, NEW s \in Seq(S) PROVE s \in Seq(ToSet(s))
BY DEF ToSet

\* A sequence with one element more.
LEMMA RunAppended ==
  ASSUME NEW S, NEW s \in Seq(S), NEW x
  PROVE  /\ Append(s, x) \in Seq(ToSet(Append(s, x)))
         /\ Len(Append(s, x)) = Len(s) + 1
         /\ \A k \in 1..Len(s) : Append(s, x)[k] = s[k]
         /\ Append(s, x)[Len(s) + 1] = x
         /\ ToSet(Append(s, x)) = ToSet(s) \cup {x}
<1>1. s \in Seq(S \cup {x})
  OBVIOUS
<1>2. /\ Append(s, x) \in Seq(S \cup {x})
      /\ Len(Append(s, x)) = Len(s) + 1
      /\ \A k \in 1..Len(s) : Append(s, x)[k] = s[k]
      /\ Append(s, x)[Len(s) + 1] = x
  BY <1>1
<1>3. Append(s, x) \in Seq(ToSet(Append(s, x)))
  BY <1>2, SeqOfElements
<1>4. DOMAIN s = 1..Len(s) /\ DOMAIN Append(s, x) = 1..(Len(s) + 1) /\ Len(s) \in Nat
  BY <1>1, <1>2
<1>5. ToSet(Append(s, x)) = ToSet(s) \cup {x}
  BY <1>2, <1>4 DEF ToSet
<1> QED BY <1>2, <1>3, <1>5

\* Nothing is made, awaited or listed at first (CmdInit).
LEMMA CommandStarts == CmdInit => CommandInv
<1> SUFFICES ASSUME CmdInit PROVE CommandInv
  OBVIOUS
<1>1. cmdRuns \in Seq(ToSet(cmdRuns)) /\ Len(cmdRuns) = 0
  BY SeqOfElements, <<>> \in Seq({}) DEF CmdInit
<1>2. ChildRows = {}
  BY DEF CmdInit, ChildRows, ToSet
<1>3. CommandTypeOK
  BY <1>1, CommandAssumption DEF CmdInit, CommandTypeOK, Total
<1> QED BY <1>1, <1>2, <1>3 DEF CmdInit, CommandInv, Makers, Makes, Awaits

\* The rows of all runs are of one type.
LEMMA ChildRowsTyped == ASSUME CommandTypeOK PROVE ChildRows \subseteq ChildRowType
BY DEF CommandTypeOK, ChildRows, ToSet

\* What a step of command c leaves of the runs, and of what the others made and await.
Aside(c) ==
  /\ phase[c] \notin Ends /\ phase'[c] # "off"
  /\ \A d \in Commands \ {c} : /\ phase'[d] = phase[d] /\ made'[d] = made[d]
                               /\ jobs'[d] = jobs[d] /\ loaded'[d] = loaded[d]
                               /\ nested'[d] = nested[d]
  /\ Len(cmdRuns) <= Len(cmdRuns')
  /\ \A r \in 1..Len(cmdRuns) : /\ cmdRuns'[r].by = cmdRuns[r].by
                                /\ cmdRuns[r].by # c => cmdRuns'[r] = cmdRuns[r]
  /\ dir' \cap (1..Len(cmdRuns)) \subseteq dir
  /\ \A i \in 1..Len(made'[c]) : \/ i \in 1..Len(made[c]) /\ made'[c][i] = made[c][i]
                                 \/ made'[c][i] \notin 1..Len(cmdRuns)

\* What another command made stays its own, and stays ended (Makes).
LEMMA OthersMake ==
  ASSUME CommandInv, CommandTypeOK', NEW c \in Commands, Aside(c), NEW d \in Commands \ {c}
  PROVE  Makes(d)'
<1>1. ASSUME NEW i \in 1..Len(made[d]) PROVE Made(d, i)'
  <2>1. made[d][i] \in 1..Len(cmdRuns) /\ cmdRuns'[made[d][i]] = cmdRuns[made[d][i]]
    BY DEF Aside, CommandInv, Makes, Made
  <2>2. made[d][i] \in 1..Len(cmdRuns')
    BY <2>1 DEF Aside, CommandInv, CommandTypeOK
  <2>3. Made(d, i)
    BY DEF CommandInv, Makes
  <2>4. /\ phase'[d] = phase[d] /\ made'[d] = made[d] /\ jobs'[d] = jobs[d]
        /\ loaded'[d] = loaded[d]
    BY DEF Aside
  <2> QED BY <2>1, <2>2, <2>3, <2>4 DEF Made
<1> QED BY <1>1 DEF Aside, CommandInv, Makes

\* What a callable of another command waits for made none of its older runs (Awaits).
LEMMA OthersAwait ==
  ASSUME CommandInv, CommandTypeOK', NEW c \in Commands, Aside(c), NEW d \in Commands \ {c}
  PROVE  Awaits(d)'
<1> SUFFICES ASSUME phase[d] = "waiting" PROVE Awaits(d)'
  BY DEF Aside, Awaits
<1> DEFINE s == nested[d].cmd
<1>1. /\ s \in Commands /\ phase[s] # "off"
      /\ nested[d].before \subseteq 1..Len(cmdRuns)
      /\ nested[d].tolerant \in BOOLEAN
      /\ \A i \in 1..Len(made[s]) : made[s][i] \notin nested[d].before
  BY DEF CommandInv, Awaits
<1>2. nested'[d] = nested[d]
  BY DEF Aside
<1>3. phase'[s] # "off"
  BY <1>1 DEF Aside
<1>4. nested[d].before \subseteq 1..Len(cmdRuns')
  <2>1. Len(cmdRuns) \in Nat /\ Len(cmdRuns') \in Nat /\ Len(cmdRuns) <= Len(cmdRuns')
    BY DEF Aside, CommandInv, CommandTypeOK
  <2>2. 1..Len(cmdRuns) \subseteq 1..Len(cmdRuns')
    BY <2>1
  <2> QED BY <1>1, <2>2
<1>5. \A i \in 1..Len(made'[s]) : made'[s][i] \notin nested[d].before
  BY <1>1 DEF Aside
<1> QED BY <1>1, <1>2, <1>3, <1>4, <1>5 DEF Awaits

\* What a parent has listed stays as it is.
LEMMA ListedStays ==
  ASSUME CommandInv, CommandTypeOK', NEW c \in Commands, Aside(c), NEW e \in ChildRows
  PROVE  ListedChild(e)'
<1>1. e.cmd \in Commands /\ ListedChild(e)
  BY ChildRowsTyped DEF CommandInv, ChildRowType
<1>2. e.cmd # c /\ phase'[e.cmd] = phase[e.cmd] /\ made'[e.cmd] = made[e.cmd]
  BY <1>1 DEF ListedChild, Aside
<1>3. e.run \in 1..Len(cmdRuns) /\ e.run \in 1..Len(cmdRuns')
  BY <1>1 DEF ListedChild, Aside, CommandInv, CommandTypeOK
<1>4. Own(e)' <=> Own(e)
  BY <1>3 DEF Own, Aside
<1>5. Own(e) => cmdRuns'[e.run] = cmdRuns[e.run]
  BY <1>2, <1>3 DEF Own, Aside
<1>6. ToSet(made[e.cmd]) \subseteq 1..Len(cmdRuns)
  <2>1. made[e.cmd] \in Seq(1..MaxRuns) /\ Makes(e.cmd)
    BY <1>1 DEF CommandInv, CommandTypeOK
  <2>2. DOMAIN made[e.cmd] = 1..Len(made[e.cmd])
    BY <2>1
  <2> QED BY <2>1, <2>2 DEF Makes, Made, ToSet
<1>7. ToSet(made[e.cmd]) \cap dir = {} => ToSet(made'[e.cmd]) \cap dir' = {}
  BY <1>2, <1>6 DEF Aside
<1> QED BY <1>1, <1>2, <1>3, <1>4, <1>5, <1>7 DEF ListedChild

\* So a step of one command is about what that command makes and awaits.
LEMMA StepOfOne ==
  ASSUME CommandInv, CommandTypeOK', NEW c \in Commands, Aside(c), Makers',
         childRuns' = childRuns, Makes(c)', Awaits(c)'
  PROVE  CommandInv'
<1>1. \A d \in Commands : Makes(d)' /\ Awaits(d)'
  BY OthersMake, OthersAwait
<1>2. ChildRows' = ChildRows
  BY DEF ChildRows
<1>3. \A e \in ChildRows : ListedChild(e)'
  BY ListedStays
<1> QED BY <1>1, <1>2, <1>3 DEF CommandInv

\* A step that changes no run leaves the makers.
LEMMA MakersStay == ASSUME CommandInv, UNCHANGED <<made, cmdRuns>> PROVE Makers'
BY DEF CommandInv, Makers

\* A command that only changes its phase, to end or to start its next job.
LEMMA PhaseInv ==
  ASSUME CommandInv, NEW c \in Commands, NEW p \in Alive \cup Ends, phase' = [phase EXCEPT ![c] = p],
         phase[c] \notin Ends, p \notin {"calling", "waiting", "started"},
         p = "ready" => phase[c] = "started",
         p \in {"exit0", "exit1"} => phase[c] = "ready",
         p = "exit0" => /\ Len(made[c]) = Len(jobs'[c])
                        /\ \A i \in 1..Len(made[c]) : cmdRuns[made[c][i]].status = "completed",
         phase[c] # "started" => UNCHANGED <<loaded, jobs>>,
         \A d \in Commands \ {c} : jobs'[d] = jobs[d] /\ loaded'[d] = loaded[d],
         Total(jobs)', Total(loaded)', Total(call)',
         UNCHANGED <<made, cmdRuns, dir, nested, childRuns>>
  PROVE  CommandInv'
<1>1. CommandTypeOK'
  BY DEF CommandInv, CommandTypeOK, Total
<1>2. Aside(c)
  BY DEF CommandInv, CommandTypeOK, Aside, Alive, Ends
<1>3. Makes(c)'
  BY DEF CommandInv, CommandTypeOK, Makes, Made, Alive, Ends
<1>4. Awaits(c)'
  BY DEF CommandInv, CommandTypeOK, Awaits
<1> QED BY <1>1, <1>2, <1>3, <1>4, StepOfOne, MakersStay

\* A command loads the project and plans its jobs, or is refused (Load).
LEMMA LoadInv == ASSUME CommandInv, NEW c \in Commands, Load(c) PROVE CommandInv'
<1>1. phase' = [phase EXCEPT ![c] = IF jobs'[c] = Rejected THEN "error" ELSE "ready"]
  BY DEF Load
<1>2. Total(jobs)' /\ Total(loaded)' /\ Total(call)'
  BY DEF Load, CommandInv, CommandTypeOK, Total
<1>3. \A d \in Commands \ {c} : jobs'[d] = jobs[d] /\ loaded'[d] = loaded[d]
  BY DEF Load, CommandInv, CommandTypeOK, Total
<1>4. CASE jobs'[c] = Rejected
  BY <1>1, <1>2, <1>3, <1>4, PhaseInv DEF Load, Alive, Ends
<1>5. CASE jobs'[c] # Rejected
  BY <1>1, <1>2, <1>3, <1>5, PhaseInv DEF Load, Alive, Ends
<1> QED BY <1>4, <1>5

\* A command dies, wherever it is (Abort).
LEMMA AbortInv == ASSUME CommandInv, NEW c \in Commands, Abort(c) PROVE CommandInv'
<1>1. Total(jobs)' /\ Total(loaded)' /\ Total(call)'
  BY DEF Abort, CommandInv, CommandTypeOK, Total
<1> QED BY <1>1, PhaseInv DEF Abort, Alive, Ends

\* A command ends after its last job; with 0 only if no run failed (Exit).
LEMMA ExitInv == ASSUME CommandInv, NEW c \in Commands, Exit(c) PROVE CommandInv'
<1> DEFINE p == IF \E r \in ToSet(made[c]) : cmdRuns[r].status = "failed" THEN "exit1" ELSE "exit0"
<1>1. Total(jobs)' /\ Total(loaded)' /\ Total(call)'
  BY DEF Exit, CommandInv, CommandTypeOK, Total
<1>2. made[c] \in Seq(1..MaxRuns)
  BY DEF CommandInv, CommandTypeOK
<1>3. \A k \in 1..Len(made[c]) : cmdRuns[made[c][k]].status \in {"completed", "failed"}
  BY DEF Exit, CommandInv, Makes, Made, Ended
<1>4. p = "exit0" => \A k \in 1..Len(made[c]) : cmdRuns[made[c][k]].status = "completed"
  BY <1>2, <1>3 DEF ToSet
<1>5. phase' = [phase EXCEPT ![c] = p] /\ p \in {"exit0", "exit1"}
  BY DEF Exit
<1> HIDE DEF p
<1> QED BY <1>1, <1>4, <1>5, PhaseInv DEF Exit, Alive, Ends

\* A command line is typed (Type).
LEMMA TypeInv == ASSUME CommandInv, NEW c \in Commands, NEW line, Type(c, line) PROVE CommandInv'
<1>1. CommandTypeOK'
  BY DEF Type, CommandInv, CommandTypeOK, Total, Alive
<1>2. Aside(c)
  BY DEF Type, CommandInv, CommandTypeOK, Aside, Ends
<1>3. Makes(c)' /\ Awaits(c)'
  BY DEF Type, CommandInv, CommandTypeOK, Makes, Made, Awaits
<1> QED BY <1>1, <1>2, <1>3, StepOfOne, MakersStay DEF Type

\* An edit of the project changes nothing that a command has loaded (Edit).
LEMMA EditInv == ASSUME CommandInv, Edit \/ UNCHANGED cmdVars PROVE CommandInv'
<1>1. UNCHANGED <<phase, call, loaded, jobs, made, cmdRuns, dir, nested, childRuns>>
  BY DEF Edit, cmdVars
<1>2. CommandTypeOK' /\ Makers' /\ ChildRows' = ChildRows
  BY <1>1 DEF CommandInv, CommandTypeOK, Total, Makers, ChildRows
<1>3. \A d \in Commands : Makes(d)' /\ Awaits(d)'
  BY <1>1 DEF CommandInv, Makes, Made, Awaits
<1>4. \A e \in ChildRows : ListedChild(e)'
  BY <1>1 DEF CommandInv, ListedChild, Own
<1> QED BY <1>2, <1>3, <1>4 DEF CommandInv

-----------------------------------------------------------------------------
(* A run begins and ends.                                                  *)

\* The new run is one that was not there, and the only one that has not ended (Execute).
LEMMA ExecuteInv == ASSUME CommandInv, NEW c \in Commands, Execute(c) PROVE CommandInv'
<1> DEFINE run == CmdRun(c, jobs[c][Len(made[c]) + 1])
           new == Len(cmdRuns) + 1
<1>1. /\ cmdRuns' \in Seq(ToSet(cmdRuns')) /\ Len(cmdRuns') = new
      /\ \A r \in 1..Len(cmdRuns) : cmdRuns'[r] = cmdRuns[r]
      /\ cmdRuns'[new] = run
  BY RunAppended DEF Execute, CommandInv, CommandTypeOK
<1>2. /\ RunRow(run) /\ run.by = c /\ run.params = Executed(jobs[c][Len(made[c]) + 1], loaded[c])
      /\ run.kind = jobs[c][Len(made[c]) + 1].kind /\ run.name = jobs[c][Len(made[c]) + 1].name
  BY DEF CmdRun, RunRow
<1> HIDE DEF run
<1>3. Len(cmdRuns) \in Nat /\ new \in 1..MaxRuns
  BY CommandAssumption DEF Execute, CommandInv, CommandTypeOK
<1>4. made[c] \in Seq(1..MaxRuns) /\ made' = [made EXCEPT ![c] = Append(made[c], new)]
  BY <1>1 DEF Execute, CommandInv, CommandTypeOK
<1>5. /\ made'[c] = Append(made[c], new) /\ Len(made'[c]) = Len(made[c]) + 1
      /\ \A i \in 1..Len(made[c]) : made'[c][i] = made[c][i]
      /\ made'[c][Len(made[c]) + 1] = new
      /\ Len(made[c]) \in Nat
      /\ made' \in [Commands -> Seq(1..MaxRuns)]
      /\ \A d \in Commands \ {c} : made'[d] = made[d]
  BY <1>3, <1>4 DEF CommandInv, CommandTypeOK
<1>6. CommandTypeOK'
  <2>1. ASSUME NEW r \in 1..Len(cmdRuns') PROVE RunRow(cmdRuns'[r])
    <3>1. r \in 1..Len(cmdRuns) \/ r = new
      BY <1>1, <1>3
    <3>2. CASE r \in 1..Len(cmdRuns)
      BY <1>1, <3>2 DEF CommandInv, CommandTypeOK
    <3> QED BY <1>1, <1>2, <3>1, <3>2
  <2>2. phase' \in [Commands -> Alive \cup Ends \cup {"off"}]
    BY DEF Execute, CommandInv, CommandTypeOK, Alive
  <2>3. dir' \subseteq 1..Len(cmdRuns')
    <3>1. dir' = dir \cup {new} /\ dir \subseteq 1..Len(cmdRuns)
      BY <1>1 DEF Execute, CommandInv, CommandTypeOK
    <3>2. 1..Len(cmdRuns') = 1..new /\ Len(cmdRuns) \in Nat
      BY <1>1, <1>3
    <3>3. 1..Len(cmdRuns) \subseteq 1..new /\ new \in 1..new
      BY <3>2
    <3> QED BY <3>1, <3>2, <3>3
  <2> QED BY <1>1, <1>3, <1>5, <2>1, <2>2, <2>3 DEF Execute, CommandInv, CommandTypeOK, Total, RunRow
<1>7. Aside(c)
  <2>1. dir' \cap (1..Len(cmdRuns)) \subseteq dir
    BY <1>1, <1>3 DEF Execute
  <2>2. \A d \in Commands \ {c} : phase'[d] = phase[d] /\ phase'[c] = "calling"
    BY DEF Execute, CommandInv, CommandTypeOK
  <2>3. phase[c] = "ready" /\ phase'[c] = "calling"
    BY DEF Execute, CommandInv, CommandTypeOK
  <2>4. \A i \in 1..Len(made'[c]) : \/ i \in 1..Len(made[c]) /\ made'[c][i] = made[c][i]
                                    \/ made'[c][i] \notin 1..Len(cmdRuns)
    BY <1>3, <1>5
  <2> QED BY <1>1, <1>3, <1>5, <2>1, <2>2, <2>3, <2>4 DEF Execute, Aside, Ends
<1>8. Makes(c)'
  <2>1. phase[c] = "ready" /\ phase'[c] = "calling"
    BY DEF Execute, CommandInv, CommandTypeOK
  <2>2. ASSUME NEW i \in 1..Len(made[c]) PROVE Made(c, i)'
    <3>1. Made(c, i) /\ cmdRuns[made[c][i]].status \in Ended
      BY <2>1 DEF CommandInv, Makes, Made
    <3>2. made'[c][i] = made[c][i] /\ cmdRuns'[made[c][i]] = cmdRuns[made[c][i]]
      BY <1>1, <1>5, <3>1 DEF Made
    <3>3. made[c][i] \in 1..Len(cmdRuns')
      BY <1>1, <1>3, <3>1 DEF Made
    <3> QED BY <2>1, <3>1, <3>2, <3>3 DEF Made, Execute
  <2>3. PICK n \in Nat : n = Len(made[c]) + 1
    BY <1>5
  <2>4. Made(c, n)'
    <3>1. ~(n < Len(made'[c])) /\ jobs' = jobs /\ loaded' = loaded
      BY <1>5, <2>3 DEF Execute
    <3>2. new \in 1..Len(cmdRuns')
      BY <1>1, <1>3
    <3>3. /\ made'[c][n] = new /\ cmdRuns'[new].by = c
          /\ cmdRuns'[new].params = Executed(jobs[c][n], loaded[c])
          /\ cmdRuns'[new].kind = jobs[c][n].kind /\ cmdRuns'[new].name = jobs[c][n].name
      BY <1>1, <1>2, <1>5, <2>3
    <3> HIDE DEF new
    <3> QED BY <2>1, <3>1, <3>2, <3>3 DEF Made
  <2>5. \A i \in 1..Len(made'[c]) : Made(c, i)'
    <3>1. \A i \in 1..Len(made'[c]) : i \in 1..Len(made[c]) \/ i = n
      BY <1>5, <2>3
    <3> QED BY <2>2, <2>4, <3>1
  <2>6. made'[c] # <<>>
    BY <1>5
  <2> QED BY <2>1, <2>5, <2>6 DEF Makes
<1>9. Makers'
  <2>1. ASSUME NEW r \in 1..Len(cmdRuns)
        PROVE  \E i \in 1..Len(made'[cmdRuns'[r].by]) : made'[cmdRuns'[r].by][i] = r
    <3>1. cmdRuns'[r].by = cmdRuns[r].by /\ cmdRuns[r].by \in Commands
      BY <1>1 DEF CommandInv, CommandTypeOK, RunRow
    <3>2. PICK i \in 1..Len(made[cmdRuns[r].by]) : made[cmdRuns[r].by][i] = r
      BY DEF CommandInv, Makers
    <3>3. CASE cmdRuns[r].by = c
      <4>1. i \in 1..Len(made'[c]) /\ made'[c][i] = r
        BY <1>5, <3>2, <3>3
      <4> QED BY <3>1, <3>3, <4>1
    <3>4. CASE cmdRuns[r].by # c
      BY <1>5, <3>1, <3>2, <3>4
    <3> QED BY <3>3, <3>4
  <2>2. \E i \in 1..Len(made'[run.by]) : made'[run.by][i] = new
    <3>1. Len(made[c]) + 1 \in 1..Len(made'[c])
      BY <1>5
    <3> QED BY <1>2, <1>5, <3>1
  <2>3. ASSUME NEW r \in 1..Len(cmdRuns')
        PROVE  \E i \in 1..Len(made'[cmdRuns'[r].by]) : made'[cmdRuns'[r].by][i] = r
    <3>1. r \in 1..Len(cmdRuns) \/ r = new
      BY <1>1, <1>3
    <3> QED BY <1>1, <2>1, <2>2, <3>1
  <2> QED BY <2>3 DEF Makers
<1>10. Awaits(c)'
  BY DEF Execute, CommandInv, CommandTypeOK, Awaits
<1> QED BY <1>6, <1>7, <1>8, <1>9, <1>10, StepOfOne DEF Execute

\* The run that ends is the last one that the command made (Returns, Raises).
LEMMA EndInv ==
  ASSUME CommandInv, NEW c \in Commands, NEW status \in Ended, NEW gone, End(c, status, gone)
  PROVE  CommandInv'
<1> DEFINE last == Last(made[c])
<1>1. /\ made[c] \in Seq(1..MaxRuns) /\ made[c] # <<>> /\ phase[c] = "calling"
      /\ phase'[c] = "ready"
  BY DEF End, CommandInv, CommandTypeOK, Makes
<1>2. Len(made[c]) \in 1..Len(made[c]) /\ last = made[c][Len(made[c])]
  BY <1>1 DEF Last
<1>3. last \in 1..Len(cmdRuns) /\ cmdRuns[last].by = c /\ RunRow(cmdRuns[last])
  BY <1>2 DEF CommandInv, Makes, Made, CommandTypeOK
<1> HIDE DEF last
<1>4. cmdRuns' = [cmdRuns EXCEPT ![last].status = status]
  BY DEF End, last
<1>5. /\ cmdRuns' \in Seq(ToSet(cmdRuns')) /\ Len(cmdRuns') = Len(cmdRuns)
      /\ \A r \in 1..Len(cmdRuns) : r # last => cmdRuns'[r] = cmdRuns[r]
      /\ DOMAIN cmdRuns'[last] = DOMAIN cmdRuns[last] /\ cmdRuns'[last].status = status
      /\ cmdRuns'[last].by = cmdRuns[last].by /\ cmdRuns'[last].params = cmdRuns[last].params
      /\ cmdRuns'[last].kind = cmdRuns[last].kind /\ cmdRuns'[last].name = cmdRuns[last].name
  <2>1. cmdRuns \in Seq(ToSet(cmdRuns)) /\ "status" \in DOMAIN cmdRuns[last]
        /\ "by" \in DOMAIN cmdRuns[last] /\ "params" \in DOMAIN cmdRuns[last]
        /\ "kind" \in DOMAIN cmdRuns[last] /\ "name" \in DOMAIN cmdRuns[last]
    BY <1>3 DEF CommandInv, CommandTypeOK, RunRow
  <2> DEFINE r == [cmdRuns[last] EXCEPT !.status = status]
             S == ToSet(cmdRuns) \cup {r}
  <2>2. cmdRuns' = [cmdRuns EXCEPT ![last] = r]
    BY <1>4
  <2>3. /\ DOMAIN r = DOMAIN cmdRuns[last] /\ r.status = status
        /\ r.by = cmdRuns[last].by /\ r.params = cmdRuns[last].params
        /\ r.kind = cmdRuns[last].kind /\ r.name = cmdRuns[last].name
    BY <2>1
  <2> HIDE DEF r
  <2>4. cmdRuns \in Seq(S)
    BY <2>1
  <2> HIDE DEF S
  <2>5. /\ cmdRuns' \in Seq(S) /\ Len(cmdRuns') = Len(cmdRuns) /\ cmdRuns'[last] = r
        /\ \A i \in 1..Len(cmdRuns) : i # last => cmdRuns'[i] = cmdRuns[i]
    BY <1>3, <2>2, <2>4 DEF S
  <2> QED BY <2>3, <2>5, SeqOfElements
<1>6. \A r \in 1..Len(cmdRuns) : RunRow(cmdRuns'[r]) /\ cmdRuns'[r].by = cmdRuns[r].by
                                 /\ cmdRuns'[r].params = cmdRuns[r].params
                                 /\ cmdRuns'[r].kind = cmdRuns[r].kind /\ cmdRuns'[r].name = cmdRuns[r].name
  BY <1>3, <1>5 DEF CommandInv, CommandTypeOK, RunRow
<1>7. CommandTypeOK'
  BY <1>5, <1>6 DEF End, CommandInv, CommandTypeOK, Total, Alive, RunRow
<1>8. Aside(c)
  <2>1. \A d \in Commands \ {c} : phase'[d] = phase[d]
    BY DEF End, CommandInv, CommandTypeOK
  <2>2. Len(cmdRuns) \in Nat
    BY DEF CommandInv, CommandTypeOK
  <2> QED BY <1>1, <1>3, <1>5, <1>6, <2>1, <2>2 DEF End, Aside, Ends
<1>9. Makes(c)'
  <2>1. ASSUME NEW i \in 1..Len(made[c]) PROVE Made(c, i)'
    <3>1. Made(c, i)
      BY DEF CommandInv, Makes
    <3>2. cmdRuns'[made[c][i]].status \in Ended
      <4>1. CASE made[c][i] = last
        BY <1>5, <4>1
      <4>2. CASE made[c][i] # last
        <5>1. i < Len(made[c])
          BY <1>1, <1>2, <4>2
        <5> QED BY <1>1, <1>5, <3>1, <4>2, <5>1 DEF Made, Alive
      <4> QED BY <4>1, <4>2
    <3> QED BY <1>1, <1>5, <1>6, <3>1, <3>2 DEF Made, End
  <2> QED BY <1>1, <2>1 DEF Makes, End
<1>10. Makers'
  BY <1>5, <1>6 DEF End, CommandInv, Makers
<1>11. Awaits(c)'
  BY <1>1 DEF Awaits
<1> QED BY <1>7, <1>8, <1>9, <1>10, <1>11, StepOfOne DEF End

-----------------------------------------------------------------------------
(* A callable starts a command, and recognises its run.                    *)

\* The command that is started has made no run yet (Spawn).
LEMMA SpawnInv ==
  ASSUME CommandInv, NEW c \in Commands, NEW k \in UNION Range(Calls), NEW s \in Commands,
         Spawn(c, k, s)
  PROVE  CommandInv'
<1>1. phase[c] = "calling" /\ phase[s] = "off" /\ c # s /\ made[s] = <<>> /\ k.tolerant \in BOOLEAN
  BY CommandAssumption DEF Spawn, CommandInv, Makes
<1>2. /\ phase'[c] = "waiting" /\ phase'[s] = "started"
      /\ \A d \in Commands \ {c, s} : phase'[d] = phase[d]
      /\ phase' \in [Commands -> Alive \cup Ends \cup {"off"}]
  BY <1>1 DEF Spawn, CommandInv, CommandTypeOK, Alive
<1>3. /\ nested'[c] = [cmd |-> s, before |-> dir, tolerant |-> k.tolerant]
      /\ \A d \in Commands \ {c} : nested'[d] = nested[d]
      /\ Total(nested)'
  BY DEF Spawn, CommandInv, CommandTypeOK, Total
<1>4. UNCHANGED <<loaded, jobs, made, cmdRuns, dir, childRuns>>
  BY DEF Spawn
<1>5. CommandTypeOK'
  <2>1. Total(call)'
    BY DEF Spawn, CommandInv, CommandTypeOK, Total
  <2>2. CommandTypeOK
    BY DEF CommandInv
  <2> QED BY <1>2, <1>3, <1>4, <2>1, <2>2 DEF CommandTypeOK
<1>6. Makers' /\ ChildRows' = ChildRows
  BY <1>4, MakersStay DEF ChildRows
<1>7. ASSUME NEW d \in Commands PROVE Makes(d)'
  <2>1. CASE d = s
    BY <1>1, <1>2, <1>4, <2>1 DEF Makes
  <2>2. CASE d = c
    BY <1>1, <1>2, <1>4, <2>2 DEF CommandInv, Makes, Made, Alive
  <2>3. CASE d \notin {c, s}
    BY <1>2, <1>4, <2>3 DEF CommandInv, Makes, Made
  <2> QED BY <2>1, <2>2, <2>3
<1>8. ASSUME NEW d \in Commands PROVE Awaits(d)'
  <2>1. \A e \in Commands : phase[e] # "off" => phase'[e] # "off"
    BY <1>1, <1>2
  <2>2. CASE d = c
    BY <1>1, <1>2, <1>3, <1>4, <2>2 DEF CommandInv, CommandTypeOK, Awaits
  <2>3. CASE d # c
    <3>1. phase'[d] = "waiting" => phase[d] = "waiting"
      BY <1>2, <2>3
    <3> QED BY <1>3, <1>4, <2>1, <2>3, <3>1 DEF CommandInv, Awaits
  <2> QED BY <2>2, <2>3
<1>9. ASSUME NEW e \in ChildRows PROVE ListedChild(e)'
  <2>1. ListedChild(e) /\ e.cmd \in Commands
    BY ChildRowsTyped DEF CommandInv, ChildRowType
  <2>2. phase'[e.cmd] = phase[e.cmd]
    BY <1>1, <1>2, <2>1 DEF ListedChild, Ends
  <2> QED BY <1>4, <2>1, <2>2 DEF ListedChild, Own
<1> QED BY <1>5, <1>6, <1>7, <1>8, <1>9 DEF CommandInv

\* The only directory that appeared since the call is the child's.
LEMMA FoundIsOwn ==
  ASSUME CommandInv, NEW c \in Commands, phase[c] = "waiting", phase[nested[c].cmd] \in Ends,
         NEW r, Created(c) = {r}
  PROVE  ListedChild(ChildRow(c, r)) /\ ChildRow(c, r) \in ChildRowType
<1> DEFINE s == nested[c].cmd
           e == ChildRow(c, r)
<1>1. /\ s \in Commands /\ nested[c].tolerant \in BOOLEAN /\ Makes(s)
      /\ \A i \in 1..Len(made[s]) : made[s][i] \notin nested[c].before
  BY DEF CommandInv, Awaits
<1>2. r \in dir /\ r \in 1..Len(cmdRuns) /\ RunRow(cmdRuns[r])
  BY DEF Created, CommandInv, CommandTypeOK
<1>3. e = [run |-> r, status |-> cmdRuns[r].status, cmd |-> s,
           tolerant |-> nested[c].tolerant, returned |-> Succeeded(c, r)]
  BY DEF ChildRow
<1>4. e \in ChildRowType
  <2>1. Succeeded(c, r) \in BOOLEAN
    BY <1>1 DEF Succeeded
  <2>2. r \in 1..MaxRuns
    BY <1>2, CommandAssumption DEF CommandInv, CommandTypeOK
  <2> QED BY <1>1, <1>2, <1>3, <2>1, <2>2 DEF ChildRowType, RunRow
<1>5. Own(e) \/ ToSet(made[s]) \cap dir = {}
  <2> SUFFICES ASSUME NEW x \in ToSet(made[s]) \cap dir PROVE Own(e)
    OBVIOUS
  <2>1. PICK i \in 1..Len(made[s]) : made[s][i] = x
    <3>1. made[s] \in Seq(1..MaxRuns)
      BY <1>1 DEF CommandInv, CommandTypeOK
    <3>2. DOMAIN made[s] = 1..Len(made[s])
      BY <3>1
    <3>3. x \in ToSet(made[s])
      OBVIOUS
    <3> HIDE DEF s
    <3> QED BY <3>2, <3>3 DEF ToSet
  <2>2. x = r
    BY <1>1, <2>1 DEF Created
  <2> QED BY <1>1, <1>3, <2>1, <2>2 DEF Makes, Made, Own
<1>6. ASSUME e.returned, ~e.tolerant, Own(e) PROVE cmdRuns[r].status = "completed"
  <2>1. phase[s] = "exit0" /\ cmdRuns[r].by = s
    BY <1>3, <1>6 DEF Succeeded, Own
  <2>2. PICK i \in 1..Len(made[s]) : made[s][i] = r
    BY <1>2, <2>1 DEF CommandInv, Makers
  <2> QED BY <1>1, <2>1, <2>2 DEF Makes, Made
<1>7. e.cmd = s /\ e.run = r
  BY <1>3
<1>8. ListedChild(e)
  <2> HIDE DEF e
  <2> QED BY <1>2, <1>5, <1>6, <1>7 DEF ListedChild
<1> QED BY <1>4, <1>8

\* What is listed is the directory that was found, if that is only one (Collect).
LEMMA CollectInv == ASSUME CommandInv, NEW c \in Commands, Collect(c) PROVE CommandInv'
<1> DEFINE last == Last(made[c])
<1>1. /\ phase[c] = "waiting" /\ phase[nested[c].cmd] \in Ends
      /\ UNCHANGED <<call, loaded, jobs, made, cmdRuns, dir>>
      /\ nested' = [nested EXCEPT ![c] = NoCall]
      /\ phase' = [phase EXCEPT ![c] = "calling"]
  BY DEF Collect
<1>2. last \in 1..MaxRuns /\ made[c] # <<>>
  <2>1. made[c] \in Seq(1..MaxRuns) /\ made[c] # <<>>
    BY <1>1 DEF CommandInv, CommandTypeOK, Makes
  <2>2. last = made[c][Len(made[c])]
    BY DEF Last
  <2>3. Len(made[c]) \in 1..Len(made[c])
    BY <2>1
  <2>4. \A S : \A s \in Seq(S) : \A i \in 1..Len(s) : s[i] \in S
    OBVIOUS
  <2> QED BY <2>1, <2>2, <2>3, <2>4
<1> HIDE DEF last
<1>3. \/ childRuns' = childRuns
      \/ \E r : /\ Created(c) = {r}
                /\ childRuns' = [childRuns EXCEPT ![last] = Append(@, ChildRow(c, r))]
  <2>1. CASE Cardinality(Created(c)) # 1
    BY <2>1 DEF Collect
  <2>2. CASE Cardinality(Created(c)) = 1
    <3>1. IsFiniteSet(Created(c))
      <4>1. Len(cmdRuns) \in Nat /\ dir \subseteq 1..Len(cmdRuns)
        BY DEF CommandInv, CommandTypeOK
      <4>2. IsFiniteSet(1..Len(cmdRuns))
        BY <4>1, FS_Interval
      <4> QED BY <4>1, <4>2, FS_Subset DEF Created
    <3>2. PICK r : Created(c) = {r}
      BY <2>2, <3>1, FS_Singleton
    <3>3. \E x \in Created(c) : Record(c, x)
      BY <2>2 DEF Collect
    <3> QED BY <3>2, <3>3 DEF Record, last
  <2> QED BY <2>1, <2>2
<1>4. /\ childRuns' \in [1..MaxRuns -> Seq(ChildRowType)]
      /\ \A e \in ChildRows' : e \in ChildRows \/ (ListedChild(e) /\ e \in ChildRowType)
  <2>1. CASE childRuns' = childRuns
    BY <2>1 DEF CommandInv, CommandTypeOK, ChildRows
  <2>2. ASSUME NEW r, Created(c) = {r},
               childRuns' = [childRuns EXCEPT ![last] = Append(@, ChildRow(c, r))]
        PROVE  /\ childRuns' \in [1..MaxRuns -> Seq(ChildRowType)]
               /\ \A e \in ChildRows' : e \in ChildRows \/ (ListedChild(e) /\ e \in ChildRowType)
    <3> DEFINE new == ChildRow(c, r)
    <3>1. ListedChild(new) /\ new \in ChildRowType
      BY <1>1, <2>2, FoundIsOwn
    <3> HIDE DEF new
    <3>2. childRuns \in [1..MaxRuns -> Seq(ChildRowType)]
      BY DEF CommandInv, CommandTypeOK
    <3>3. childRuns' = [childRuns EXCEPT ![last] = Append(childRuns[last], new)]
      BY <1>2, <2>2, <3>2 DEF new
    <3>4. childRuns[last] \in Seq(ChildRowType) /\ childRuns'[last] = Append(childRuns[last], new)
      BY <1>2, <3>2, <3>3
    <3>5. ToSet(childRuns'[last]) = ToSet(childRuns[last]) \cup {new}
      BY <3>4, RunAppended
    <3>6. childRuns' \in [1..MaxRuns -> Seq(ChildRowType)]
      BY <1>2, <3>1, <3>2, <3>3
    <3>7. \A q \in 1..MaxRuns : ToSet(childRuns'[q]) \subseteq ToSet(childRuns[q]) \cup {new}
      BY <3>2, <3>3, <3>5
    <3>8. ChildRows' \subseteq ChildRows \cup {new}
      BY <3>2, <3>6, <3>7 DEF ChildRows
    <3> QED BY <3>1, <3>6, <3>8
  <2> QED BY <1>3, <2>1, <2>2
<1>5. CommandTypeOK'
  BY <1>1, <1>4 DEF CommandInv, CommandTypeOK, Total, Alive
<1>6. Aside(c)
  BY <1>1 DEF CommandInv, CommandTypeOK, Aside, Ends
<1>7. Makes(c)' /\ Awaits(c)'
  <2>1. phase'[c] = "calling" /\ Makes(c)
    BY <1>1 DEF CommandInv, CommandTypeOK
  <2>2. ASSUME NEW i \in 1..Len(made[c]) PROVE Made(c, i)'
    <3>1. Made(c, i)
      BY <2>1 DEF Makes
    <3> QED BY <1>1, <2>1, <3>1 DEF Made, Alive
  <2>3. Makes(c)'
    BY <1>1, <1>2, <2>1, <2>2 DEF Makes
  <2>4. Awaits(c)'
    BY <2>1 DEF Awaits
  <2> QED BY <2>3, <2>4
<1>8. Makers' /\ \A d \in Commands : Makes(d)' /\ Awaits(d)'
  BY <1>1, <1>5, <1>6, <1>7, MakersStay, OthersMake, OthersAwait
<1>9. ASSUME NEW e \in ChildRows' PROVE ListedChild(e)'
  <2>1. CASE e \in ChildRows
    BY <1>5, <1>6, <2>1, ListedStays
  <2>2. CASE ListedChild(e) /\ e \in ChildRowType
    <3>1. e.cmd \in Commands /\ phase'[e.cmd] = phase[e.cmd]
      BY <1>1, <2>2 DEF ListedChild, ChildRowType, Ends, CommandInv, CommandTypeOK
    <3> QED BY <1>1, <2>2, <3>1 DEF ListedChild, Own
  <2> QED BY <1>4, <2>1, <2>2
<1> QED BY <1>5, <1>8, <1>9 DEF CommandInv

\* Every step of every command keeps the invariant.
LEMMA CommandStep == CommandInv /\ [CmdNext]_cmdVars => CommandInv'
<1> SUFFICES ASSUME CommandInv, [CmdNext]_cmdVars PROVE CommandInv'
  OBVIOUS
<1>1. CASE Edit \/ UNCHANGED cmdVars
  BY <1>1, EditInv
<1>2. ASSUME NEW c \in Commands, Step(c) PROVE CommandInv'
  <2>1. CASE Returns(c)
    BY <2>1, EndInv DEF Returns, Ended
  <2>2. CASE Raises(c)
    BY <2>2, EndInv DEF Raises, Ended
  <2>3. CASE \E line \in Lines[c] : Type(c, line)
    BY <2>3, TypeInv
  <2>4. CASE \E k \in UNION Range(Calls), s \in Commands : Spawn(c, k, s)
    BY <2>4, SpawnInv
  <2> QED BY <1>2, <2>1, <2>2, <2>3, <2>4, LoadInv, ExecuteInv, ExitInv, AbortInv, CollectInv
          DEF Step
<1> QED BY <1>1, <1>2 DEF CmdNext, Over

\* The invariant that shows whose run a listed child is.
LEMMA CommandAlways == CmdSpec => []CommandInv
BY CommandStarts, CommandStep, PTL DEF CmdSpec

\* However commands, callables, edits and the retention interleave, the run that a
\* parent lists is the one its command made, if that left one, and one that had to
\* succeed completed (Collect).
THEOREM ChildAlwaysOwn == CmdSpec => []ChildIsOwn
<1>1. CommandInv => ChildIsOwn
  BY ChildRowsTyped DEF CommandInv, ListedChild, ChildIsOwn, RecordedIsOwn, ReturnedIsCompleted
<1> QED BY <1>1, CommandAlways, PTL

\* A command that exits with 0 executed all of its jobs, in order, and each of these
\* runs completed (Execute, Exit).
THEOREM ExitZeroExecuted == CmdSpec => []JobsExecuted
<1>1. CommandInv => JobsExecuted
  <2> SUFFICES ASSUME CommandInv, NEW c \in Commands, phase[c] = "exit0"
               PROVE  /\ Len(made[c]) = Len(jobs[c])
                      /\ \A i \in DOMAIN made[c] :
                           /\ cmdRuns[made[c][i]].status = "completed"
                           /\ cmdRuns[made[c][i]].params = Executed(jobs[c][i], loaded[c])
    BY DEF JobsExecuted
  <2>1. DOMAIN made[c] = 1..Len(made[c]) /\ Makes(c)
    BY DEF CommandInv, CommandTypeOK
  <2> QED BY <2>1 DEF Makes, Made
<1> QED BY <1>1, CommandAlways, PTL

\* What holds of 0, and of each number after one it holds of, holds up to n.
LEMMA UpTo ==
  ASSUME NEW n \in Nat, NEW T, 0 \in T, \A i \in 1..n : i - 1 \in T => i \in T
  PROVE  \A i \in 0..n : i \in T
<1> SUFFICES ASSUME NEW j \in 0..n, j \notin T PROVE FALSE
  OBVIOUS
<1> DEFINE R == OpToRel(<, Nat)
           S == {i \in 0..n : i \notin T}
<1>1. PICK i \in S : \A k \in S : ~(<<k, i>> \in R)
  <2>1. IsWellFoundedOn(R, Nat)
    BY NatLessThanWellFounded
  <2>2. S \subseteq Nat /\ S # {}
    OBVIOUS
  <2> HIDE DEF R, S
  <2> QED BY <2>1, <2>2, WFMin, Zenon
<1>2. i \in 1..n /\ i - 1 \in 0..n /\ i - 1 \in Nat /\ i \in Nat /\ i - 1 < i
  OBVIOUS
<1>3. <<i - 1, i>> \in R
  BY <1>2 DEF OpToRel
<1>4. i - 1 \notin S
  BY <1>1, <1>3
<1> QED BY <1>1, <1>2, <1>4

\* The greatest of a set of places.
LEMMA Greatest ==
  ASSUME NEW n \in Nat, NEW s \in SUBSET (1..n), s # {}
  PROVE  /\ Max(s) \in s /\ \A x \in s : x <= Max(s)
<1> DEFINE T == {i \in 0..n : s \cap (1..i) # {} => \E x \in s \cap (1..i) : \A y \in s \cap (1..i) : x >= y}
<1>1. 0 \in T
  OBVIOUS
<1>2. ASSUME NEW i \in 1..n, i - 1 \in T PROVE i \in T
  <2>1. CASE i \in s
    BY <2>1
  <2>2. CASE i \notin s
    <3>1. s \cap (1..i) = s \cap (1..(i - 1))
      BY <2>2
    <3> QED BY <1>2, <3>1
  <2> QED BY <2>1, <2>2
<1>3. n \in T
  <2> HIDE DEF T
  <2> QED BY <1>1, <1>2, UpTo
<1>4. s \cap (1..n) = s
  OBVIOUS
<1> QED BY <1>3, <1>4 DEF Max

\* A fold: from a base, one place after the other.
Folded(g, n, b, st) ==
  g = [s \in SUBSET (1..n) |-> IF s = {} THEN b ELSE st[<<g[s \ {Max(s)}], Max(s)>>]]

\* There is such a table.
LEMMA FoldTable ==
  ASSUME NEW n \in Nat, NEW V, NEW b \in V, NEW st,
         \A v \in V : \A i \in 1..n : st[<<v, i>>] \in V
  PROVE  \E g : Folded(g, n, b, st) /\ \A s \in SUBSET (1..n) : g[s] \in V
<1> DEFINE Table(g, k) == Folded(g, k, b, st) /\ \A s \in SUBSET (1..k) : g[s] \in V
           T == {k \in 0..n : \E g : Table(g, k)}
<1>1. 0 \in T
  <2> DEFINE g == [s \in {{}} |-> b]
  <2>1. SUBSET (1..0) = {{}}
    OBVIOUS
  <2>2. Folded(g, 0, b, st) /\ \A s \in SUBSET (1..0) : g[s] \in V
    BY <2>1 DEF Folded
  <2> HIDE DEF g
  <2> QED BY <2>2
<1>2. ASSUME NEW k \in 1..n, k - 1 \in T PROVE k \in T
  <2>1. PICK g : Table(g, k - 1)
    BY <1>2
  <2> DEFINE h == [s \in SUBSET (1..k) |-> IF s = {} THEN b ELSE st[<<g[s \ {Max(s)}], Max(s)>>]]
  <2>2. \A s \in SUBSET (1..(k - 1)) : h[s] = g[s]
    <3>1. g = [s \in SUBSET (1..(k - 1)) |-> IF s = {} THEN b ELSE st[<<g[s \ {Max(s)}], Max(s)>>]]
      BY <2>1 DEF Folded
    <3>2. SUBSET (1..(k - 1)) \subseteq SUBSET (1..k)
      OBVIOUS
    <3> QED BY <3>1, <3>2
  <2>3. ASSUME NEW s \in SUBSET (1..k), s # {}
        PROVE  /\ Max(s) \in 1..n /\ s \ {Max(s)} \in SUBSET (1..(k - 1))
    <3>1. Max(s) \in s /\ \A x \in s : x <= Max(s)
      BY <2>3, Greatest
    <3>2. Max(s) \in 1..k /\ Max(s) \in 1..n
      <4>1. Max(s) \in 1..k
        BY <3>1
      <4>2. \A x \in 1..k : x \in 1..n
        OBVIOUS
      <4> QED BY <4>1, <4>2
    <3>3. ASSUME NEW x \in s \ {Max(s)} PROVE x \in 1..(k - 1)
      <4>1. x \in 1..k /\ x <= Max(s) /\ x # Max(s)
        BY <3>1
      <4> HIDE DEF Max
      <4> QED BY <3>2, <4>1
    <3> QED BY <3>2, <3>3
  <2>4. \A s \in SUBSET (1..k) : s # {} => h[s \ {Max(s)}] = g[s \ {Max(s)}]
    BY <2>2, <2>3
  <2>5. h = [s \in SUBSET (1..k) |-> IF s = {} THEN b ELSE st[<<h[s \ {Max(s)}], Max(s)>>]]
    BY <2>4
  <2>6. ASSUME NEW s \in SUBSET (1..k) PROVE h[s] \in V
    <3>1. CASE s = {}
      BY <3>1
    <3>2. CASE s # {}
      <4>1. g[s \ {Max(s)}] \in V /\ Max(s) \in 1..n
        BY <2>1, <2>3, <3>2
      <4> QED BY <3>2, <4>1
    <3> QED BY <3>1, <3>2
  <2> HIDE DEF h
  <2>7. Table(h, k)
    BY <2>5, <2>6 DEF Folded
  <2> QED BY <2>7
<1>3. n \in T
  <2> HIDE DEF T
  <2> QED BY <1>1, <1>2, UpTo
<1> QED BY <1>3

\* What a fold comes by, from left to right.
LEMMA Prefix ==
  ASSUME NEW n \in Nat
  PROVE  /\ 1..0 = {}
         /\ \A i \in 1..n : /\ 1..i \in SUBSET (1..n) /\ 1..i # {}
                            /\ Max(1..i) = i /\ (1..i) \ {Max(1..i)} = 1..(i - 1)
<1>1. 1..0 = {}
  OBVIOUS
<1>2. ASSUME NEW i \in 1..n
      PROVE  /\ 1..i \in SUBSET (1..n) /\ 1..i # {}
             /\ Max(1..i) = i /\ (1..i) \ {Max(1..i)} = 1..(i - 1)
  <2>1. 1..i \in SUBSET (1..n) /\ 1..i # {}
    OBVIOUS
  <2>2. Max(1..i) \in 1..i /\ \A x \in 1..i : x <= Max(1..i)
    BY <2>1, Greatest
  <2>3. Max(1..i) = i
    BY <2>2
  <2> QED BY <2>1, <2>3
<1> QED BY <1>1, <1>2

-----------------------------------------------------------------------------
(* Parameter objects.                                                      *)

\* The objects whose names are among these.
Objects(K) == UNION {[D -> Values] : D \in SUBSET K}

\* What an object laid over another sets.
LEMMA OntoIs ==
  ASSUME NEW p, NEW q
  PROVE  /\ DOMAIN Onto(p, q) = DOMAIN p \cup DOMAIN q
         /\ \A k \in DOMAIN p : Onto(p, q)[k] = p[k]
         /\ \A k \in DOMAIN q \ DOMAIN p : Onto(p, q)[k] = q[k]
BY DEF Onto

\* What an object with one more name sets.
LEMMA WithIs ==
  ASSUME NEW p, NEW k, NEW v
  PROVE  /\ DOMAIN With(p, k, v) = DOMAIN p \cup {k}
         /\ With(p, k, v)[k] = v
         /\ \A j \in DOMAIN p \ {k} : With(p, k, v)[j] = p[j]
BY DEF Onto, With

\* An object laid over another is one of the same names.
LEMMA OntoObjects ==
  ASSUME NEW K, NEW p \in Objects(K), NEW q \in Objects(K)
  PROVE  Onto(p, q) \in Objects(K)
<1>1. PICK D \in SUBSET K, E \in SUBSET K : p \in [D -> Values] /\ q \in [E -> Values]
  BY DEF Objects
<1>2. Onto(p, q) \in [D \cup E -> Values]
  BY <1>1 DEF Onto
<1> QED BY <1>2 DEF Objects

\* So is an object with one more of the names.
LEMMA WithObjects ==
  ASSUME NEW K, NEW p \in Objects(K), NEW k \in K, NEW v \in Values
  PROVE  With(p, k, v) \in Objects(K)
<1>1. [x \in {k} |-> v] \in [{k} -> Values] /\ {k} \in SUBSET K
  OBVIOUS
<1>2. [x \in {k} |-> v] \in Objects(K)
  BY <1>1 DEF Objects
<1> QED BY <1>2, OntoObjects DEF With

\* The empty object is one of any names.
LEMMA EmptyObject == ASSUME NEW K PROVE Empty \in Objects(K)
BY DEF Objects, Empty

\* An object that is written is one of its names.
LEMMA WrittenObject == ASSUME NEW K, NEW p, Written(p), DOMAIN p \subseteq K PROVE p \in Objects(K)
BY DEF Objects, Written

\* And the other way round.
LEMMA ObjectWritten == ASSUME NEW K, NEW p \in Objects(K) PROVE Written(p) /\ DOMAIN p \subseteq K
BY DEF Objects, Written

\* The arguments are parsed one after the other.
Parses(f, args) ==
  /\ f[0] = Empty
  /\ \A i \in 1..Len(args) : /\ f[i - 1] = Rejected => f[i] = Rejected
                             /\ f[i - 1] # Rejected => f[i] = ParseArgument(f[i - 1], args[i])
  /\ ParseParams(args) = f[Len(args)]

\* ParseParams is the last entry of such a table.
LEMMA ParseSteps ==
  ASSUME NEW S, NEW args \in Seq(S), NEW V, Empty \in V, Rejected \in V,
         \A p \in V : \A i \in 1..Len(args) : p # Rejected => ParseArgument(p, args[i]) \in V
  PROVE  \E f : Parses(f, args)
<1> DEFINE n == Len(args)
           st == [x \in V \X (1..n) |-> IF x[1] = Rejected
                                        THEN Rejected
                                        ELSE ParseArgument(x[1], args[x[2]])]
           Table(f) == f = [s \in SUBSET DOMAIN args |->
             IF s = {} THEN Empty
             ELSE IF f[s \ {Max(s)}] = Rejected
                  THEN Rejected
                  ELSE ParseArgument(f[s \ {Max(s)}], args[Max(s)])]
           g == CHOOSE f : Table(f)
<1>1. n \in Nat /\ DOMAIN args = 1..n
  OBVIOUS
<1>2. \A v \in V : \A i \in 1..n : st[<<v, i>>] \in V
  OBVIOUS
<1>3. PICK h : Folded(h, n, Empty, st) /\ \A s \in SUBSET (1..n) : h[s] \in V
  <2> HIDE DEF st, n
  <2> QED BY <1>1, <1>2, FoldTable
<1>4. Table(h)
  <2>1. ASSUME NEW s \in SUBSET (1..n), s # {}
        PROVE  /\ h[s \ {Max(s)}] \in V /\ Max(s) \in 1..n
    BY <1>1, <1>3, <2>1, Greatest
  <2>2. ASSUME NEW s \in SUBSET (1..n), s # {}
        PROVE  st[<<h[s \ {Max(s)}], Max(s)>>]
                 = IF h[s \ {Max(s)}] = Rejected THEN Rejected
                   ELSE ParseArgument(h[s \ {Max(s)}], args[Max(s)])
    BY <2>1, <2>2
  <2> HIDE DEF st
  <2> QED BY <1>1, <1>3, <2>2 DEF Folded
<1>5. Table(g)
  BY <1>4
<1>6. ParseParams(args) = g[1..n]
  <2>1. ParseParams(args) = g[DOMAIN args]
    BY DEF ParseParams, FoldLeft, MapThenFoldSet
  <2> QED BY <1>1, <2>1
<1> HIDE DEF g
<1>7. g[1..0] = Empty
  <2>1. 1..0 = {} /\ {} \in SUBSET (1..n)
    OBVIOUS
  <2> QED BY <1>1, <1>5, <2>1
<1>8. \A i \in 1..n : /\ g[1..(i - 1)] = Rejected => g[1..i] = Rejected
                      /\ g[1..(i - 1)] # Rejected => g[1..i] = ParseArgument(g[1..(i - 1)], args[i])
  <2> SUFFICES ASSUME NEW i \in 1..n
               PROVE  /\ g[1..(i - 1)] = Rejected => g[1..i] = Rejected
                      /\ g[1..(i - 1)] # Rejected => g[1..i] = ParseArgument(g[1..(i - 1)], args[i])
    OBVIOUS
  <2>1. /\ 1..i \in SUBSET (DOMAIN args) /\ 1..i # {}
        /\ Max(1..i) = i /\ (1..i) \ {Max(1..i)} = 1..(i - 1)
    BY <1>1, Prefix
  <2>2. g[1..i] = IF g[1..(i - 1)] = Rejected THEN Rejected ELSE ParseArgument(g[1..(i - 1)], args[i])
    BY <1>5, <2>1
  <2> QED BY <2>2
<1> DEFINE f == [i \in 0..n |-> g[1..i]]
<1>9. /\ f[0] = Empty /\ ParseParams(args) = f[n]
      /\ \A i \in 1..n : f[i] = g[1..i] /\ f[i - 1] = g[1..(i - 1)]
  BY <1>1, <1>6, <1>7
<1> HIDE DEF f
<1>10. Parses(f, args)
  BY <1>8, <1>9 DEF Parses
<1> QED BY <1>10

\* What was parsed is an object of what was written, if nothing was refused.
LEMMA ParsedWritten ==
  ASSUME NEW line, WrittenLine(line), ParseParams(line.args) # Rejected
  PROVE  Written(ParseParams(line.args))
<1> DEFINE args == line.args
           n == Len(args)
           K == {Split} \cup UNION {DOMAIN args[i].params : i \in 1..n}
           V == {Rejected} \cup Objects(K)
<1>1. args \in Seq(Range(args)) /\ DOMAIN args = 1..n /\ n \in Nat
  BY DEF WrittenLine
<1>2. ASSUME NEW p \in V, NEW i \in 1..n, p # Rejected
      PROVE  ParseArgument(p, args[i]) \in V
  <2>1. p \in Objects(K)
    BY <1>2
  <2>2. CASE args[i].form = "bad"
    BY <2>2 DEF ParseArgument
  <2>3. CASE args[i].form # "bad"
    <3>1. Written(args[i].params) /\ DOMAIN args[i].params \subseteq K
      BY <1>1, <2>3 DEF WrittenLine
    <3>2. args[i].params \in Objects(K)
      BY <3>1, WrittenObject
    <3>3. Onto(args[i].params, p) \in Objects(K)
      BY <2>1, <3>2, OntoObjects
    <3>4. With(p, Split, SplitText) \in Objects(K)
      <4>1. Split \in K /\ SplitText \in Values
        <5>1. SplitText \in Values
          BY ValueAssumption
        <5> QED BY <5>1
      <4> HIDE DEF K
      <4> QED BY <2>1, <4>1, WithObjects
    <3>5. \/ ParseArgument(p, args[i]) = With(p, Split, SplitText)
          \/ ParseArgument(p, args[i]) = Onto(args[i].params, p)
      BY <2>3 DEF ParseArgument
    <3> QED BY <3>3, <3>4, <3>5
  <2> QED BY <2>2, <2>3
<1>3. Empty \in V /\ Rejected \in V
  BY EmptyObject
<1> HIDE DEF V, K
<1>4. PICK f : Parses(f, args)
  <2>1. \A p \in V : \A i \in 1..Len(args) : p # Rejected => ParseArgument(p, args[i]) \in V
    BY <1>2
  <2> HIDE DEF args, n
  <2> QED BY ONLY <1>1, <1>3, <2>1, ParseSteps DEF n
<1> DEFINE T == {i \in 0..n : f[i] \in V}
<1>5. 0 \in T
  BY <1>1, <1>3, <1>4 DEF Parses
<1>6. \A i \in 1..n : i - 1 \in T => i \in T
  BY <1>2, <1>3, <1>4 DEF Parses
<1>7. n \in T
  <2>1. n \in Nat
    BY <1>1
  <2> HIDE DEF T, n
  <2>2. \A i \in 0..n : i \in T
    BY ONLY <1>5, <1>6, <2>1, UpTo
  <2> QED BY <2>1, <2>2
<1>8. ParseParams(args) \in Objects(K)
  BY <1>4, <1>7 DEF V, Parses
<1> QED BY <1>8, ObjectWritten

\* A call of ctx.run comes to its child as it is, if no text of it holds an equals sign.
LEMMA ParsedCall ==
  ASSUME NEW p, Written(p), Range(p) \cap EqualsTexts = {}
  PROVE  LET parsed == ParseParams(<<[form |-> "json", params |-> p]>>)
         IN parsed # Rejected => DOMAIN parsed = DOMAIN p /\ \A k \in DOMAIN p : parsed[k] = p[k]
<1> DEFINE arg == [form |-> "json", params |-> p]
           args == <<arg>>
           V == {Rejected} \cup Objects(DOMAIN p)
<1>1. args \in Seq({arg}) /\ Len(args) = 1 /\ args[1] = arg
  OBVIOUS
<1>2. \A q : ParseArgument(q, arg) = Onto(p, q)
  BY DEF ParseArgument
<1>3. ASSUME NEW q \in V, NEW i \in 1..1, q # Rejected PROVE ParseArgument(q, args[i]) \in V
  <2>1. p \in Objects(DOMAIN p)
    BY WrittenObject
  <2>2. Onto(p, q) \in Objects(DOMAIN p)
    BY <1>3, <2>1, OntoObjects
  <2> QED BY <1>2, <2>2
<1>4. Empty \in V /\ Rejected \in V
  BY EmptyObject
<1> HIDE DEF V, arg, args
<1>5. PICK f : Parses(f, args)
  BY <1>1, <1>3, <1>4, ParseSteps
<1>6. ParseParams(args) # Rejected => ParseParams(args) = Onto(p, Empty)
  BY <1>1, <1>2, <1>5 DEF Parses
<1>7. DOMAIN Onto(p, Empty) = DOMAIN p /\ \A k \in DOMAIN p : Onto(p, Empty)[k] = p[k]
  <2>1. DOMAIN Empty = {}
    BY DEF Empty
  <2>2. /\ DOMAIN Onto(p, Empty) = DOMAIN p \cup DOMAIN Empty
        /\ \A k \in DOMAIN p : Onto(p, Empty)[k] = p[k]
    BY ONLY OntoIs
  <2> QED BY <2>1, <2>2
<1> QED BY <1>6, <1>7 DEF args, arg

-----------------------------------------------------------------------------
(* The registry.                                                           *)

\* The records are registered one after the other.
Registers(f, lab) ==
  /\ f[0] = <<>>
  /\ \A i \in 1..Len(lab) : /\ f[i - 1] = Rejected => f[i] = Rejected
                            /\ f[i - 1] # Rejected => f[i] = Insert(f[i - 1], lab[i])
  /\ Registry(lab) = f[Len(lab)]

\* Registry is the last entry of such a table.
LEMMA RegistrySteps ==
  ASSUME NEW S, NEW lab \in Seq(S), NEW V, <<>> \in V, Rejected \in V,
         \A rs \in V : \A i \in 1..Len(lab) : rs # Rejected => Insert(rs, lab[i]) \in V
  PROVE  \E f : Registers(f, lab)
<1> DEFINE n == Len(lab)
           st == [x \in V \X (1..n) |-> IF x[1] = Rejected THEN Rejected ELSE Insert(x[1], lab[x[2]])]
           Table(f) == f = [s \in SUBSET DOMAIN lab |->
             IF s = {} THEN <<>>
             ELSE IF f[s \ {Max(s)}] = Rejected THEN Rejected ELSE Insert(f[s \ {Max(s)}], lab[Max(s)])]
           g == CHOOSE f : Table(f)
<1>1. n \in Nat /\ DOMAIN lab = 1..n
  OBVIOUS
<1>2. \A v \in V : \A i \in 1..n : st[<<v, i>>] \in V
  OBVIOUS
<1>3. PICK h : Folded(h, n, <<>>, st) /\ \A s \in SUBSET (1..n) : h[s] \in V
  <2> HIDE DEF st, n
  <2> QED BY <1>1, <1>2, FoldTable
<1>4. Table(h)
  <2>1. ASSUME NEW s \in SUBSET (1..n), s # {}
        PROVE  /\ h[s \ {Max(s)}] \in V /\ Max(s) \in 1..n
    BY <1>1, <1>3, <2>1, Greatest
  <2>2. ASSUME NEW s \in SUBSET (1..n), s # {}
        PROVE  st[<<h[s \ {Max(s)}], Max(s)>>]
                 = IF h[s \ {Max(s)}] = Rejected THEN Rejected ELSE Insert(h[s \ {Max(s)}], lab[Max(s)])
    BY <2>1, <2>2
  <2> HIDE DEF st
  <2> QED BY <1>1, <1>3, <2>2 DEF Folded
<1>5. Table(g)
  BY <1>4
<1>6. Registry(lab) = g[1..n]
  <2>1. Registry(lab) = g[DOMAIN lab]
    BY DEF Registry, FoldLeft, MapThenFoldSet
  <2> QED BY <1>1, <2>1
<1> HIDE DEF g
<1>7. g[1..0] = <<>>
  <2>1. 1..0 = {} /\ {} \in SUBSET (1..n)
    OBVIOUS
  <2> QED BY <1>1, <1>5, <2>1
<1>8. ASSUME NEW i \in 1..n
      PROVE  g[1..i] = IF g[1..(i - 1)] = Rejected THEN Rejected ELSE Insert(g[1..(i - 1)], lab[i])
  <2>1. /\ 1..i \in SUBSET (DOMAIN lab) /\ 1..i # {}
        /\ Max(1..i) = i /\ (1..i) \ {Max(1..i)} = 1..(i - 1)
    BY <1>1, Prefix
  <2> QED BY <1>5, <2>1
<1> DEFINE f == [i \in 0..n |-> g[1..i]]
<1>9. /\ f[0] = <<>> /\ Registry(lab) = f[n]
      /\ \A i \in 1..n : f[i] = g[1..i] /\ f[i - 1] = g[1..(i - 1)]
  BY <1>1, <1>6, <1>7
<1> HIDE DEF f
<1>10. Registers(f, lab)
  BY <1>8, <1>9 DEF Registers
<1> QED BY <1>10

\* A registry that is not refused has the records that were declared, and no others.
LEMMA RegistryHas ==
  ASSUME NEW S, NEW lab \in Seq(S), Registry(lab) # Rejected
  PROVE  Registry(lab) \in Seq(S) /\ ToSet(Registry(lab)) = ToSet(lab)
<1> DEFINE n == Len(lab)
           V == {Rejected} \cup Seq(S)
<1>1. n \in Nat /\ DOMAIN lab = 1..n /\ \A i \in 1..n : lab[i] \in S
  OBVIOUS
<1>2. ASSUME NEW rs \in V, NEW i \in 1..n, rs # Rejected PROVE Insert(rs, lab[i]) \in V
  BY <1>1, <1>2 DEF Insert
<1>3. <<>> \in V /\ Rejected \in V
  OBVIOUS
<1>4. PICK f : Registers(f, lab)
  <2> HIDE DEF V
  <2> QED BY <1>2, <1>3, RegistrySteps
<1> DEFINE T == {i \in 0..n : f[i] # Rejected => f[i] \in Seq(S) /\ ToSet(f[i]) = {lab[j] : j \in 1..i}}
<1>5. 0 \in T
  <2>1. ToSet(<<>>) = {} /\ 1..0 = {}
    BY DEF ToSet
  <2>2. {lab[j] : j \in 1..0} = {} /\ f[0] = <<>>
    BY <1>4, <2>1 DEF Registers
  <2>3. f[0] \in Seq(S) /\ ToSet(f[0]) = {lab[j] : j \in 1..0} /\ 0 \in 0..n
    BY <1>1, <2>1, <2>2
  <2> QED BY <2>3
<1>6. ASSUME NEW i \in 1..n, i - 1 \in T PROVE i \in T
  <2> SUFFICES ASSUME f[i] # Rejected PROVE f[i] \in Seq(S) /\ ToSet(f[i]) = {lab[j] : j \in 1..i}
    OBVIOUS
  <2>1. f[i - 1] # Rejected /\ f[i] = Insert(f[i - 1], lab[i])
    BY <1>4 DEF Registers
  <2>2. f[i - 1] \in Seq(S) /\ ToSet(f[i - 1]) = {lab[j] : j \in 1..(i - 1)}
    BY <1>6, <2>1
  <2>3. {lab[j] : j \in 1..i} = {lab[j] : j \in 1..(i - 1)} \cup {lab[i]}
    <3>1. 1..i = (1..(i - 1)) \cup {i}
      OBVIOUS
    <3> QED BY <3>1
  <2>4. CASE lab[i] \in ToSet(f[i - 1])
    BY <2>1, <2>2, <2>3, <2>4 DEF Insert
  <2>5. CASE lab[i] \notin ToSet(f[i - 1])
    <3>1. f[i] = Append(f[i - 1], lab[i])
      BY <2>1, <2>5 DEF Insert
    <3>2. f[i] \in Seq(S) /\ ToSet(f[i]) = ToSet(f[i - 1]) \cup {lab[i]}
      BY <1>1, <2>2, <3>1, RunAppended
    <3> QED BY <2>2, <2>3, <3>2
  <2> QED BY <2>4, <2>5
<1>7. n \in T
  <2>1. n \in Nat
    BY <1>1
  <2> HIDE DEF T, n
  <2>2. \A i \in 0..n : i \in T
    BY ONLY <1>5, <1>6, <2>1, UpTo
  <2> QED BY <2>1, <2>2
<1>8. {lab[j] : j \in 1..n} = ToSet(lab) /\ Registry(lab) = f[n]
  BY <1>1, <1>4 DEF ToSet, Registers
<1> QED BY <1>7, <1>8

\* The benchmarks of a target are selected one after the other.
Selects(f, records, target) ==
  /\ f[0] = <<>>
  /\ \A i \in 1..Len(records) :
       /\ Targets(records[i], target) => f[i] = Append(f[i - 1], records[i])
       /\ ~Targets(records[i], target) => f[i] = f[i - 1]
  /\ Targeting(records, target) = f[Len(records)]

\* Targeting is the last entry of such a table.
LEMMA TargetingSteps ==
  ASSUME NEW S, NEW records \in Seq(S), NEW target, NEW V, <<>> \in V,
         \A found \in V : \A i \in 1..Len(records) : Append(found, records[i]) \in V
  PROVE  \E f : Selects(f, records, target)
<1> DEFINE n == Len(records)
           st == [x \in V \X (1..n) |-> IF Targets(records[x[2]], target)
                                        THEN Append(x[1], records[x[2]])
                                        ELSE x[1]]
           Table(f) == f = [s \in SUBSET DOMAIN records |->
             IF s = {} THEN <<>>
             ELSE IF Targets(records[Max(s)], target)
                  THEN Append(f[s \ {Max(s)}], records[Max(s)])
                  ELSE f[s \ {Max(s)}]]
           g == CHOOSE f : Table(f)
<1>1. n \in Nat /\ DOMAIN records = 1..n
  OBVIOUS
<1>2. \A v \in V : \A i \in 1..n : st[<<v, i>>] \in V
  OBVIOUS
<1>3. PICK h : Folded(h, n, <<>>, st) /\ \A s \in SUBSET (1..n) : h[s] \in V
  <2> HIDE DEF st, n
  <2> QED BY <1>1, <1>2, FoldTable
<1>4. Table(h)
  <2>1. ASSUME NEW s \in SUBSET (1..n), s # {}
        PROVE  /\ h[s \ {Max(s)}] \in V /\ Max(s) \in 1..n
    BY <1>1, <1>3, <2>1, Greatest
  <2>2. ASSUME NEW s \in SUBSET (1..n), s # {}
        PROVE  st[<<h[s \ {Max(s)}], Max(s)>>]
                 = IF Targets(records[Max(s)], target)
                   THEN Append(h[s \ {Max(s)}], records[Max(s)])
                   ELSE h[s \ {Max(s)}]
    BY <2>1, <2>2
  <2> HIDE DEF st
  <2> QED BY <1>1, <1>3, <2>2 DEF Folded
<1>5. Table(g)
  BY <1>4
<1>6. Targeting(records, target) = g[1..n]
  <2>1. Targeting(records, target) = g[DOMAIN records]
    BY DEF Targeting, FoldLeft, MapThenFoldSet
  <2> QED BY <1>1, <2>1
<1> HIDE DEF g
<1>7. g[1..0] = <<>>
  <2>1. 1..0 = {} /\ {} \in SUBSET (1..n)
    OBVIOUS
  <2> QED BY <1>1, <1>5, <2>1
<1>8. ASSUME NEW i \in 1..n
      PROVE  g[1..i] = IF Targets(records[i], target)
                       THEN Append(g[1..(i - 1)], records[i])
                       ELSE g[1..(i - 1)]
  <2>1. /\ 1..i \in SUBSET (DOMAIN records) /\ 1..i # {}
        /\ Max(1..i) = i /\ (1..i) \ {Max(1..i)} = 1..(i - 1)
    BY <1>1, Prefix
  <2> QED BY <1>5, <2>1
<1> DEFINE f == [i \in 0..n |-> g[1..i]]
<1>9. /\ f[0] = <<>> /\ Targeting(records, target) = f[n]
      /\ \A i \in 1..n : f[i] = g[1..i] /\ f[i - 1] = g[1..(i - 1)]
  BY <1>1, <1>6, <1>7
<1> HIDE DEF f
<1>10. Selects(f, records, target)
  BY <1>8, <1>9 DEF Selects
<1> QED BY <1>10

\* None of them is left out.
LEMMA TargetingHas ==
  ASSUME NEW S, NEW records \in Seq(S), NEW target
  PROVE  /\ Targeting(records, target) \in Seq(S)
         /\ ToSet(Targeting(records, target)) = {r \in ToSet(records) : Targets(r, target)}
<1> DEFINE n == Len(records)
<1>1. n \in Nat /\ DOMAIN records = 1..n /\ \A i \in 1..n : records[i] \in S
  OBVIOUS
<1>2. \A found \in Seq(S) : \A i \in 1..n : Append(found, records[i]) \in Seq(S)
  BY <1>1
<1>3. <<>> \in Seq(S)
  OBVIOUS
<1>4. PICK f : Selects(f, records, target)
  BY <1>2, <1>3, TargetingSteps
<1> DEFINE Of(i) == {r \in {records[j] : j \in 1..i} : Targets(r, target)}
           T == {i \in 0..n : f[i] \in Seq(S) /\ ToSet(f[i]) = Of(i)}
<1>5. 0 \in T
  <2>1. ToSet(<<>>) = {} /\ 1..0 = {}
    BY DEF ToSet
  <2>2. Of(0) = {} /\ f[0] = <<>>
    BY <1>4, <2>1 DEF Selects
  <2>3. f[0] \in Seq(S) /\ 0 \in 0..n
    BY <1>1, <1>3, <2>2
  <2>4. ToSet(f[0]) = Of(0)
    <3> HIDE DEF Of
    <3> QED BY <2>1, <2>2
  <2> HIDE DEF Of
  <2> QED BY <2>3, <2>4
<1>6. ASSUME NEW i \in 1..n, i - 1 \in T PROVE i \in T
  <2>1. f[i - 1] \in Seq(S) /\ ToSet(f[i - 1]) = Of(i - 1)
    BY <1>6
  <2>2. {records[j] : j \in 1..i} = {records[j] : j \in 1..(i - 1)} \cup {records[i]}
    <3>1. 1..i = (1..(i - 1)) \cup {i}
      OBVIOUS
    <3> QED BY <3>1
  <2>3. CASE Targets(records[i], target)
    <3>1. f[i] = Append(f[i - 1], records[i])
      BY <1>4, <2>3 DEF Selects
    <3>2. f[i] \in Seq(S) /\ ToSet(f[i]) = ToSet(f[i - 1]) \cup {records[i]}
      BY <1>1, <2>1, <3>1, RunAppended
    <3> QED BY <2>1, <2>2, <2>3, <3>2
  <2>4. CASE ~Targets(records[i], target)
    <3>1. f[i] = f[i - 1]
      BY <1>4, <2>4 DEF Selects
    <3> QED BY <2>1, <2>2, <2>4, <3>1
  <2> QED BY <2>3, <2>4
<1>7. n \in T
  <2>1. n \in Nat
    BY <1>1
  <2> HIDE DEF T, n
  <2>2. \A i \in 0..n : i \in T
    BY ONLY <1>5, <1>6, <2>1, UpTo
  <2> QED BY <2>1, <2>2
<1>8. {records[j] : j \in 1..n} = ToSet(records) /\ Targeting(records, target) = f[n]
  BY <1>1, <1>4 DEF ToSet, Selects
<1> QED BY <1>7, <1>8

-----------------------------------------------------------------------------
(* The plan of an experiment.                                              *)

\* Sequences one after the other are one sequence.
LEMMA Flattened ==
  ASSUME NEW S, NEW seqs \in Seq(Seq(S))
  PROVE  FlattenSeq(seqs) \in Seq(S)
<1> DEFINE n == Len(seqs)
           Table(g, k) == g = [i \in 1..k |-> IF i = 1 THEN seqs[i] ELSE g[i - 1] \o seqs[i]]
           Good(g, k) == Table(g, k) /\ \A i \in 1..k : g[i] \in Seq(S)
           T == {k \in 0..n : \E g : Good(g, k)}
           f == CHOOSE g : Table(g, n)
<1>1. n \in Nat
  OBVIOUS
<1> DEFINE Each == \A i \in 1..n : seqs[i] \in Seq(S)
<1>12. Each
  OBVIOUS
<1> HIDE DEF n, Each
<1>2. 0 \in T
  <2> DEFINE g == [i \in 1..0 |-> {}]
  <2>1. Good(g, 0) /\ 0 \in 0..n
    BY <1>1
  <2> HIDE DEF g, Good
  <2> QED BY <2>1
<1>3. ASSUME NEW k \in 1..n, k - 1 \in T PROVE k \in T
  <2>1. PICK g : Good(g, k - 1)
    <3> HIDE DEF Good
    <3> QED BY <1>3
  <2> DEFINE h == [i \in 1..k |-> IF i = 1 THEN seqs[i] ELSE g[i - 1] \o seqs[i]]
  <2>2. \A i \in 1..(k - 1) : h[i] = g[i]
    <3>1. g = [i \in 1..(k - 1) |-> IF i = 1 THEN seqs[i] ELSE g[i - 1] \o seqs[i]]
      BY <2>1
    <3>2. \A i \in 1..(k - 1) : i \in 1..k
      BY <1>1
    <3> QED BY <3>1, <3>2
  <2>3. \A i \in 1..k : i = 1 \/ i - 1 \in 1..(k - 1)
    OBVIOUS
  <2>4. \A i \in 1..k : i # 1 => h[i - 1] = g[i - 1]
    BY <2>2, <2>3
  <2>5. Table(h, k)
    BY <2>4
  <2>6. ASSUME NEW i \in 1..k PROVE h[i] \in Seq(S)
    <3>1. seqs[i] \in Seq(S)
      BY <1>1, <1>12 DEF Each
    <3>2. i # 1 => g[i - 1] \in Seq(S)
      BY <2>1, <2>3
    <3>3. i # 1 => g[i - 1] \o seqs[i] \in Seq(S)
      BY <3>1, <3>2
    <3> QED BY <3>1, <3>3
  <2>7. Good(h, k) /\ k \in 0..n
    <3>1. k \in 0..n
      BY <1>1
    <3>2. \A i \in 1..k : h[i] \in Seq(S)
      BY <2>6
    <3> HIDE DEF h, Table
    <3> QED BY <2>5, <3>1, <3>2
  <2> HIDE DEF h, Good
  <2> QED BY <2>7
<1>4. n \in T
  <2> HIDE DEF T
  <2>1. \A k \in 1..n : k - 1 \in T => k \in T
    BY <1>3
  <2>2. \A k \in 0..n : k \in T
    BY ONLY <1>1, <1>2, <2>1, UpTo
  <2> QED BY <1>1, <2>2
<1>5. Table(f, n)
  <2>1. \E g : Table(g, n)
    BY <1>4
  <2> QED BY <2>1
<1>6. n # 0 => FlattenSeq(seqs) = f[n]
  BY DEF FlattenSeq, n
<1> HIDE DEF f
<1> DEFINE U == {i \in 0..n : i = 0 \/ f[i] \in Seq(S)}
<1>7. 0 \in U
  BY <1>1
<1>8. ASSUME NEW i \in 1..n, i - 1 \in U PROVE i \in U
  <2>1. seqs[i] \in Seq(S)
    BY <1>12 DEF Each
  <2>2. CASE i = 1
    BY <1>5, <2>1, <2>2
  <2>3. CASE i # 1
    <3>1. f[i - 1] \in Seq(S)
      BY <1>8, <2>3
    <3>2. f[i] = f[i - 1] \o seqs[i]
      BY <1>5, <2>3
    <3>3. f[i] \in Seq(S)
      BY <2>1, <3>1, <3>2
    <3> QED BY <1>1, <3>3
  <2> QED BY <2>2, <2>3
<1>9. n \in U
  <2> HIDE DEF U
  <2>1. \A k \in 1..n : k - 1 \in U => k \in U
    BY <1>8
  <2>2. \A k \in 0..n : k \in U
    BY ONLY <1>1, <1>7, <2>1, UpTo
  <2> QED BY <1>1, <2>2
<1>10. CASE n = 0
  <2>1. FlattenSeq(seqs) = seqs /\ seqs = <<>>
    BY <1>10 DEF FlattenSeq, n
  <2> QED BY <2>1
<1>11. CASE n # 0
  BY <1>6, <1>9, <1>11
<1> QED BY <1>10, <1>11

\* The rows of a matrix grow axis by axis.
Grows(f, matrix) ==
  /\ f[0] = <<Empty>>
  /\ \A i \in 1..Len(Axes) :
       /\ Axes[i] \in DOMAIN matrix => f[i] = Expand(f[i - 1], Axes[i], matrix[Axes[i]])
       /\ Axes[i] \notin DOMAIN matrix => f[i] = f[i - 1]
  /\ MatrixRows(matrix) = f[Len(Axes)]

\* MatrixRows is the last entry of such a table.
LEMMA RowsSteps ==
  ASSUME NEW matrix, NEW V, <<Empty>> \in V,
         \A rows \in V : \A axis \in DOMAIN matrix : Expand(rows, axis, matrix[axis]) \in V
  PROVE  \E f : Grows(f, matrix)
<1> DEFINE n == Len(Axes)
           st == [x \in V \X (1..n) |-> IF Axes[x[2]] \in DOMAIN matrix
                                        THEN Expand(x[1], Axes[x[2]], matrix[Axes[x[2]]])
                                        ELSE x[1]]
           Table(f) == f = [s \in SUBSET DOMAIN Axes |->
             IF s = {} THEN <<Empty>>
             ELSE IF Axes[Max(s)] \in DOMAIN matrix
                  THEN Expand(f[s \ {Max(s)}], Axes[Max(s)], matrix[Axes[Max(s)]])
                  ELSE f[s \ {Max(s)}]]
           g == CHOOSE f : Table(f)
<1>1. n \in Nat /\ DOMAIN Axes = 1..n
  BY ValueAssumption
<1>2. \A v \in V : \A i \in 1..n : st[<<v, i>>] \in V
  OBVIOUS
<1>3. PICK h : Folded(h, n, <<Empty>>, st) /\ \A s \in SUBSET (1..n) : h[s] \in V
  <2> HIDE DEF st, n
  <2> QED BY <1>1, <1>2, FoldTable
<1>4. Table(h)
  <2>1. ASSUME NEW s \in SUBSET (1..n), s # {}
        PROVE  /\ h[s \ {Max(s)}] \in V /\ Max(s) \in 1..n
    BY <1>1, <1>3, <2>1, Greatest
  <2>2. ASSUME NEW s \in SUBSET (1..n), s # {}
        PROVE  st[<<h[s \ {Max(s)}], Max(s)>>]
                 = IF Axes[Max(s)] \in DOMAIN matrix
                   THEN Expand(h[s \ {Max(s)}], Axes[Max(s)], matrix[Axes[Max(s)]])
                   ELSE h[s \ {Max(s)}]
    BY <2>1, <2>2
  <2> HIDE DEF st
  <2> QED BY <1>1, <1>3, <2>2 DEF Folded
<1>5. Table(g)
  BY <1>4
<1>6. MatrixRows(matrix) = g[1..n]
  <2>1. MatrixRows(matrix) = g[DOMAIN Axes]
    BY DEF MatrixRows, FoldLeft, MapThenFoldSet
  <2> QED BY <1>1, <2>1
<1> HIDE DEF g
<1>7. g[1..0] = <<Empty>>
  <2>1. 1..0 = {} /\ {} \in SUBSET (1..n)
    OBVIOUS
  <2> QED BY <1>1, <1>5, <2>1
<1>8. ASSUME NEW i \in 1..n
      PROVE  g[1..i] = IF Axes[i] \in DOMAIN matrix
                       THEN Expand(g[1..(i - 1)], Axes[i], matrix[Axes[i]])
                       ELSE g[1..(i - 1)]
  <2>1. /\ 1..i \in SUBSET (DOMAIN Axes) /\ 1..i # {}
        /\ Max(1..i) = i /\ (1..i) \ {Max(1..i)} = 1..(i - 1)
    BY <1>1, Prefix
  <2> QED BY <1>5, <2>1
<1> DEFINE f == [i \in 0..n |-> g[1..i]]
<1>9. /\ f[0] = <<Empty>> /\ MatrixRows(matrix) = f[n]
      /\ \A i \in 1..n : f[i] = g[1..i] /\ f[i - 1] = g[1..(i - 1)]
  BY <1>1, <1>6, <1>7
<1> HIDE DEF f
<1>10. Grows(f, matrix)
  BY <1>8, <1>9 DEF Grows
<1> QED BY <1>10

\* A row of a matrix sets axes to values of theirs.
LEMMA RowsWritten ==
  ASSUME NEW matrix, matrix \in [DOMAIN matrix -> Seq(Values)]
  PROVE  MatrixRows(matrix) \in Seq(Objects(DOMAIN matrix))
<1> DEFINE K == DOMAIN matrix
           V == Seq(Objects(K))
<1>1. <<Empty>> \in V
  BY EmptyObject
<1>2. ASSUME NEW rows \in V, NEW axis \in K PROVE Expand(rows, axis, matrix[axis]) \in V
  <2> DEFINE values == matrix[axis]
             More(i) == [j \in DOMAIN values |-> With(rows[i], axis, values[j])]
             seqs == [i \in DOMAIN rows |-> More(i)]
  <2>1. values \in Seq(Values) /\ DOMAIN values = 1..Len(values) /\ Len(values) \in Nat
    OBVIOUS
  <2>2. DOMAIN rows = 1..Len(rows) /\ Len(rows) \in Nat
    OBVIOUS
  <2>3. ASSUME NEW i \in DOMAIN rows PROVE More(i) \in V
    <3>1. rows[i] \in Objects(K)
      BY <2>2
    <3>2. ASSUME NEW j \in DOMAIN values PROVE With(rows[i], axis, values[j]) \in Objects(K)
      <4>1. values[j] \in Values
        BY <2>1
      <4> HIDE DEF values, K
      <4> QED BY <3>1, <4>1, WithObjects
    <3> HIDE DEF K
    <3> QED BY <2>1, <3>2
  <2>4. seqs \in Seq(V)
    <3> HIDE DEF More, V
    <3> QED BY <2>2, <2>3
  <2>5. FlattenSeq(seqs) \in V
    <3> HIDE DEF seqs, K
    <3> QED BY <2>4, Flattened
  <2>6. Expand(rows, axis, matrix[axis]) = FlattenSeq(seqs)
    BY DEF Expand
  <2> QED BY <2>5, <2>6
<1> HIDE DEF V
<1>3. PICK f : Grows(f, matrix)
  BY <1>1, <1>2, RowsSteps
<1> DEFINE T == {i \in 0..Len(Axes) : f[i] \in V}
<1>4. Len(Axes) \in Nat /\ \A i \in 1..Len(Axes) : i \in 0..Len(Axes)
  BY ValueAssumption
<1>5. 0 \in T
  BY <1>1, <1>3, <1>4 DEF Grows
<1>6. \A i \in 1..Len(Axes) : i - 1 \in T => i \in T
  BY <1>2, <1>3, <1>4 DEF Grows
<1>7. Len(Axes) \in T
  <2> HIDE DEF T
  <2>1. \A i \in 0..Len(Axes) : i \in T
    BY ONLY <1>4, <1>5, <1>6, UpTo
  <2> QED BY <1>4, <2>1
<1> QED BY <1>3, <1>7 DEF Grows, V

\* An object whose values are of a set keeps them when it is laid over another of them.
LEMMA OntoValued ==
  ASSUME NEW S, NEW p, NEW q, p \in [DOMAIN p -> S], q \in [DOMAIN q -> S]
  PROVE  Onto(p, q) \in [DOMAIN Onto(p, q) -> S]
<1>1. \A k \in DOMAIN p \cup DOMAIN q : Onto(p, q)[k] \in S
  BY DEF Onto
<1> QED BY <1>1 DEF Onto

\* So does an object with one more value of the set.
LEMMA WithValued ==
  ASSUME NEW S, NEW p, NEW k, NEW v \in S, p \in [DOMAIN p -> S]
  PROVE  With(p, k, v) \in [DOMAIN With(p, k, v) -> S]
<1>1. \A j \in DOMAIN p \cup {k} : With(p, k, v)[j] \in S
  BY DEF Onto, With
<1> QED BY <1>1 DEF Onto, With

\* A plan sets parameters and seeds to what is written.
WrittenPlan(list) ==
  /\ list \in Seq(Range(list))
  /\ \A i \in 1..Len(list) : Written(list[i].params) /\ WrittenSeed(list[i].seed)

\* The rows of a record, with its seeds and over its parameters (PlanExperiment).
LEMMA PlanWritten ==
  ASSUME NEW r, WrittenRecord(r), PlanRecord(r) # Rejected
  PROVE  WrittenPlan(PlanRecord(r))
<1> DEFINE K == DOMAIN r.matrix \cup DOMAIN r.params
           S == Values \cup {Unseeded}
           J == [params : Objects(K), seed : S]
           rows == MatrixRows(r.matrix)
           seeds == IF r.seeds = <<>> THEN <<Unseeded>> ELSE r.seeds
           Row(i) == [j \in DOMAIN seeds |-> [params |-> Onto(rows[i], r.params), seed |-> seeds[j]]]
           seqs == [i \in DOMAIN rows |-> Row(i)]
<1>1. CASE PlanRecord(r) = <<>>
  BY <1>1 DEF WrittenPlan
<1>2. CASE PlanRecord(r) # <<>>
  <2>1. PlanRecord(r) = PlanExperiment(r)
    BY <1>2 DEF PlanRecord
  <2>2. PlanExperiment(r) = FlattenSeq(seqs)
    BY <2>1 DEF PlanExperiment
  <2>3. rows \in Seq(Objects(K))
    <3>1. rows \in Seq(Objects(DOMAIN r.matrix))
      BY RowsWritten DEF WrittenRecord
    <3>2. Objects(DOMAIN r.matrix) \subseteq Objects(K)
      BY DEF Objects
    <3> HIDE DEF rows, K
    <3> QED BY <3>1, <3>2
  <2>4. seeds \in Seq(S)
    <3>1. r.seeds \in Seq(S) /\ <<Unseeded>> \in Seq(S)
      BY DEF WrittenRecord
    <3> QED BY <3>1
  <2>5. r.params \in Objects(K)
    BY DEF WrittenRecord, Written, Objects
  <2> HIDE DEF rows, seeds, K
  <2>6. DOMAIN rows = 1..Len(rows) /\ Len(rows) \in Nat
    BY <2>3
  <2>7. DOMAIN seeds = 1..Len(seeds) /\ Len(seeds) \in Nat
    BY <2>4
  <2>8. ASSUME NEW i \in DOMAIN rows PROVE Row(i) \in Seq(J)
    <3>1. Onto(rows[i], r.params) \in Objects(K)
      BY <2>3, <2>5, <2>6, OntoObjects
    <3>2. \A j \in DOMAIN seeds : seeds[j] \in S
      BY <2>4, <2>7
    <3> QED BY <2>7, <3>1, <3>2
  <2>9. seqs \in Seq(Seq(J))
    <3> HIDE DEF Row, J
    <3> QED BY <2>6, <2>8
  <2>10. FlattenSeq(seqs) \in Seq(J)
    <3> HIDE DEF seqs, J
    <3> QED BY <2>9, Flattened
  <2>11. PlanRecord(r) \in Seq(J)
    BY <2>1, <2>2, <2>10
  <2>12. ASSUME NEW i \in 1..Len(PlanRecord(r))
         PROVE  Written(PlanRecord(r)[i].params) /\ WrittenSeed(PlanRecord(r)[i].seed)
    <3>1. PlanRecord(r)[i] \in J
      <4> HIDE DEF J
      <4> QED BY <2>11
    <3> QED BY <3>1, ObjectWritten DEF WrittenSeed
  <2>13. PlanRecord(r) \in Seq(Range(PlanRecord(r)))
    <3> HIDE DEF J
    <3> QED BY <2>11 DEF Range
  <2> QED BY <2>12, <2>13 DEF WrittenPlan
<1> QED BY <1>1, <1>2

\* The plan of a target of a project (TargetJobs).
LEMMA TargetWritten ==
  ASSUME NEW p \in Projects, NEW target, TargetJobs(p.lab, target) # Rejected
  PROVE  WrittenPlan(TargetJobs(p.lab, target))
<1> DEFINE found == Find(Registry(p.lab), target.kind, target.name)
           r == CHOOSE x \in found : TRUE
<1>1. CASE TargetJobs(p.lab, target) = <<>>
  BY <1>1 DEF WrittenPlan
<1>2. CASE TargetJobs(p.lab, target) # <<>>
  <2>1. target.kind = "experiment" /\ Registry(p.lab) # Rejected
    BY <1>2 DEF TargetJobs
  <2>2. found # {} /\ TargetJobs(p.lab, target) = PlanRecord(r)
    BY <1>2, <2>1 DEF TargetJobs
  <2>3. r \in ToSet(Registry(p.lab))
    <3>1. r \in found
      BY <2>2
    <3> QED BY <3>1 DEF Find
  <2>4. p.lab \in Seq(Range(p.lab)) /\ \A i \in DOMAIN p.lab : WrittenRecord(p.lab[i])
    BY ProjectAssumption
  <2>5. ToSet(Registry(p.lab)) = ToSet(p.lab)
    BY <2>1, <2>4, RegistryHas
  <2>6. WrittenRecord(r)
    <3> HIDE DEF r
    <3> QED BY <2>3, <2>4, <2>5 DEF ToSet
  <2> QED BY <2>2, <2>6, PlanWritten
<1> QED BY <1>1, <1>2

-----------------------------------------------------------------------------
(* What is resolved.                                                       *)

\* A value, or a run that has completed.
Settled(n) == Values \cup {v \in 1..n : cmdRuns[v].status = "completed"}
Settles(params, n) == params \in [DOMAIN params -> Settled(n)]

\* What is written is settled.
LEMMA WrittenSettles == ASSUME NEW p, Written(p), NEW n PROVE Settles(p, n)
BY DEF Written, Settles, Settled

\* A reference becomes a completed run; any other value stays (ResolveParamRefs).
LEMMA Resolves ==
  ASSUME NEW p, Written(p), ResolveParamRefs(p) # Rejected,
         Len(cmdRuns) \in Nat, dir \subseteq 1..Len(cmdRuns)
  PROVE  /\ DOMAIN ResolveParamRefs(p) = DOMAIN p
         /\ Settles(ResolveParamRefs(p), Len(cmdRuns))
         /\ \A k \in DOMAIN p : p[k] \notin DOMAIN RefOf => ResolveParamRefs(p)[k] = p[k]
<1> DEFINE resolved == [k \in DOMAIN p |-> ResolveValue(p[k])]
<1>1. ResolveParamRefs(p) = resolved /\ \A k \in DOMAIN p : resolved[k] # Rejected
  BY DEF ResolveParamRefs
<1>2. ASSUME NEW k \in DOMAIN p PROVE resolved[k] \in Settled(Len(cmdRuns))
  <2>1. CASE p[k] \notin DOMAIN RefOf
    BY <2>1 DEF ResolveValue, Written, Settled
  <2>2. CASE p[k] \in DOMAIN RefOf
    <3> DEFINE ref == RefOf[p[k]]
               there == Completed(ref.kind, ref.name)
    <3>1. resolved[k] = ResolveRunReference(ref)
      BY <2>2 DEF ResolveValue
    <3>2. there # {}
      BY <1>1, <3>1 DEF ResolveRunReference
    <3>3. there \in SUBSET (1..Len(cmdRuns))
      BY DEF Completed
    <3>4. \E x \in there : \A s \in there : s <= x
      <4> HIDE DEF there
      <4> QED BY <3>2, <3>3, Greatest
    <3>5. resolved[k] = CHOOSE x \in there : \A s \in there : s <= x
      BY <3>1, <3>2 DEF ResolveRunReference
    <3>6. resolved[k] \in there
      <4> HIDE DEF there, resolved
      <4> QED BY <3>4, <3>5
    <3> HIDE DEF resolved
    <3> QED BY <3>3, <3>6 DEF Completed, Settled
  <2> QED BY <2>1, <2>2
<1>3. \A k \in DOMAIN p : p[k] \notin DOMAIN RefOf => resolved[k] = p[k]
  BY DEF ResolveValue
<1>4. resolved \in [DOMAIN resolved -> Settled(Len(cmdRuns))] /\ DOMAIN resolved = DOMAIN p
  BY <1>2
<1> HIDE DEF resolved
<1> QED BY <1>1, <1>3, <1>4 DEF Settles

\* The call that a command line is the child of reaches a job's parameters.
Carries(line, params) ==
  \A k \in UNION Range(Calls) : line = ChildLine(k) /\ Range(k.params) \cap EqualsTexts = {} =>
    \A a \in DOMAIN k.params : k.params[a] \notin DOMAIN RefOf =>
      a \in DOMAIN params /\ params[a] = k.params[a]

\* Every benchmark of the target has a job, when they are all asked for.
Covers(lab, line, list) ==
  line.command = "benchmark" /\ line.suite = None =>
    \A r \in ToSet(lab) : Targets(r, line.target) =>
      \E i \in 1..Len(list) : list[i].kind = r.kind /\ list[i].name = r.name

\* The jobs of a command line.
Fits(lab, line, list) ==
  /\ list \in Seq(Range(list))
  /\ \A i \in 1..Len(list) : WrittenSeed(list[i].seed) /\ Carries(line, list[i].params)
  /\ Covers(lab, line, list)

SettledPlan(list) == \A i \in 1..Len(list) : Settles(list[i].params, Len(cmdRuns))

\* A sequence of one job.
LEMMA OneJob ==
  ASSUME NEW lab, NEW line, NEW job, NEW list, list = <<job>>, Covers(lab, line, list),
         WrittenSeed(job.seed), Carries(line, job.params), Settles(job.params, Len(cmdRuns))
  PROVE  Fits(lab, line, list) /\ SettledPlan(list)
<1>1. Len(list) = 1 /\ list[1] = job /\ list \in Seq(Range(list))
  BY DEF Range
<1>2. \A i \in 1..Len(list) : list[i] = job
  BY <1>1
<1> QED BY <1>1, <1>2 DEF Fits, SettledPlan

\* What is explicit reaches every job that is planned (PlanTarget).
LEMMA PlanTargetFits ==
  ASSUME NEW p \in Projects, NEW target, NEW line, WrittenLine(line), line.command = "run",
         NEW explicit, Settles(explicit, Len(cmdRuns)), Carries(line, explicit),
         PlanTarget(p.lab, target, line, explicit) # Rejected
  PROVE  /\ Fits(p.lab, line, PlanTarget(p.lab, target, line, explicit))
         /\ SettledPlan(PlanTarget(p.lab, target, line, explicit))
<1> DEFINE planned == TargetJobs(p.lab, target)
           Of(params, seed) == [kind |-> target.kind, name |-> target.name,
                                params |-> params, seed |-> seed]
           list == PlanTarget(p.lab, target, line, explicit)
<1>1. planned # Rejected
  <2>1. planned = Rejected => PlanTarget(p.lab, target, line, explicit) = Rejected
    BY CommandAssumption DEF PlanTarget
  <2> QED BY <2>1
<1>2. ASSUME planned = <<>> PROVE Fits(p.lab, line, list) /\ SettledPlan(list)
  <2>1. list = << Of(explicit, line.seed) >>
    BY <1>1, <1>2 DEF PlanTarget
  <2>2. WrittenSeed(line.seed)
    BY DEF WrittenLine
  <2> DEFINE job == Of(explicit, line.seed)
  <2>3. WrittenSeed(job.seed) /\ Carries(line, job.params) /\ Settles(job.params, Len(cmdRuns))
    BY <2>2
  <2>4. Covers(p.lab, line, list) /\ list = <<job>>
    BY <2>1 DEF Covers
  <2> HIDE DEF list, job
  <2> QED BY <2>1, <2>2, <2>3, <2>4, OneJob
<1>3. ASSUME planned # <<>> PROVE Fits(p.lab, line, list) /\ SettledPlan(list)
  <2> DEFINE Planned(i) == Of(MergeParams(explicit, planned[i].params),
                              OrSeed(line.seed, planned[i].seed))
  <2>1. list = [i \in DOMAIN planned |-> Planned(i)]
    BY <1>1, <1>3 DEF PlanTarget
  <2>2. WrittenPlan(planned)
    BY <1>1, TargetWritten
  <2> HIDE DEF planned
  <2>3. DOMAIN planned = 1..Len(planned) /\ Len(planned) \in Nat
    BY <2>2 DEF WrittenPlan
  <2>4. ASSUME NEW i \in 1..Len(planned)
        PROVE  /\ WrittenSeed(Planned(i).seed) /\ Carries(line, Planned(i).params)
               /\ Settles(Planned(i).params, Len(cmdRuns))
    <3>1. Written(planned[i].params) /\ WrittenSeed(planned[i].seed)
      BY <2>2 DEF WrittenPlan
    <3>2. /\ Planned(i).params = Onto(explicit, planned[i].params)
          /\ Planned(i).seed = OrSeed(line.seed, planned[i].seed)
      BY DEF MergeParams
    <3>3. Settles(planned[i].params, Len(cmdRuns))
      BY <3>1, WrittenSettles
    <3>4. Settles(Onto(explicit, planned[i].params), Len(cmdRuns))
      BY <3>3, OntoValued DEF Settles
    <3>5. WrittenSeed(OrSeed(line.seed, planned[i].seed))
      BY <3>1 DEF OrSeed, WrittenLine
    <3>6. Carries(line, Onto(explicit, planned[i].params))
      <4>1. /\ DOMAIN Onto(explicit, planned[i].params) = DOMAIN explicit \cup DOMAIN planned[i].params
            /\ \A k \in DOMAIN explicit : Onto(explicit, planned[i].params)[k] = explicit[k]
        BY ONLY OntoIs
      <4> QED BY <4>1 DEF Carries
    <3> QED BY <3>2, <3>4, <3>5, <3>6
  <2> HIDE DEF Of, list
  <2>5. /\ Len(list) = Len(planned) /\ list \in Seq(Range(list))
        /\ \A i \in 1..Len(planned) : list[i] = Planned(i)
    <3> HIDE DEF Planned
    <3> QED BY <2>1, <2>3 DEF Range
  <2>6. Covers(p.lab, line, list)
    BY DEF Covers
  <2> HIDE DEF Planned
  <2>7. \A i \in 1..Len(list) : /\ WrittenSeed(list[i].seed) /\ Carries(line, list[i].params)
                                /\ Settles(list[i].params, Len(cmdRuns))
    BY ONLY <2>4, <2>5
  <2> QED BY <2>5, <2>6, <2>7 DEF Fits, SettledPlan
<1>4. Fits(p.lab, line, list) /\ SettledPlan(list)
  BY <1>2, <1>3
<1> QED BY <1>4

\* The parameters of a call reach what is explicit in its child (RunJobs).
LEMMA RunJobsFit ==
  ASSUME NEW p \in Projects, NEW line, WrittenLine(line), line.command = "run",
         RunJobs(p.lab, line) # Rejected, Len(cmdRuns) \in Nat, dir \subseteq 1..Len(cmdRuns)
  PROVE  Fits(p.lab, line, RunJobs(p.lab, line)) /\ SettledPlan(RunJobs(p.lab, line))
<1> DEFINE target == ResolveTarget(p.lab, line.target)
           parsed == ParseParams(line.args)
           explicit == ResolveParamRefs(parsed)
<1>1. /\ parsed # Rejected /\ explicit # Rejected
      /\ RunJobs(p.lab, line) = PlanTarget(p.lab, target, line, explicit)
  BY DEF RunJobs
<1>2. Written(parsed)
  BY <1>1, ParsedWritten
<1>3. /\ DOMAIN explicit = DOMAIN parsed
      /\ Settles(explicit, Len(cmdRuns))
      /\ \A k \in DOMAIN parsed : parsed[k] \notin DOMAIN RefOf => explicit[k] = parsed[k]
  <2> HIDE DEF parsed
  <2> QED BY <1>1, <1>2, Resolves
<1>4. Carries(line, explicit)
  <2> SUFFICES ASSUME NEW k \in UNION Range(Calls), line = ChildLine(k),
                      Range(k.params) \cap EqualsTexts = {}
               PROVE  \A a \in DOMAIN k.params : k.params[a] \notin DOMAIN RefOf =>
                        a \in DOMAIN explicit /\ explicit[a] = k.params[a]
    BY DEF Carries
  <2>1. line.args = <<[form |-> "json", params |-> k.params]>>
    BY DEF ChildLine
  <2>2. Written(k.params)
    BY ValueAssumption
  <2>3. DOMAIN parsed = DOMAIN k.params /\ \A a \in DOMAIN k.params : parsed[a] = k.params[a]
    BY <1>1, <2>1, <2>2, ParsedCall
  <2> QED BY <1>3, <2>3
<1> HIDE DEF target, explicit
<1> QED BY <1>1, <1>3, <1>4, PlanTargetFits

\* The job of one benchmark or evaluation (TargetJob).
LEMMA TargetJobFits ==
  ASSUME NEW line, WrittenLine(line), line.command # "run", ParseParams(line.args) # Rejected,
         NEW kind, NEW name
  PROVE  LET job == TargetJob(kind, name, line)
         IN /\ job.kind = kind /\ job.name = name
            /\ WrittenSeed(job.seed) /\ Carries(line, job.params)
            /\ Settles(job.params, Len(cmdRuns))
<1> DEFINE parsed == ParseParams(line.args)
           job == TargetJob(kind, name, line)
<1>1. /\ job.kind = kind /\ job.name = name /\ job.seed = Unseeded
      /\ job.params = With(parsed, "target", line.target.name)
  BY DEF TargetJob
<1>2. Settles(job.params, Len(cmdRuns))
  <2>1. Settles(parsed, Len(cmdRuns))
    BY ParsedWritten, WrittenSettles
  <2>2. line.target.name \in Settled(Len(cmdRuns))
    BY DEF WrittenLine, Settled
  <2> HIDE DEF parsed, job
  <2> QED BY <1>1, <2>1, <2>2, WithValued DEF Settles
<1>3. Carries(line, job.params)
  BY DEF Carries, ChildLine
<1>4. WrittenSeed(job.seed)
  BY <1>1 DEF WrittenSeed
<1> QED BY <1>1, <1>2, <1>3, <1>4

\* The benchmarks of a target, or the one that is named (BenchmarkJobs).
LEMMA BenchmarkJobsFit ==
  ASSUME NEW p \in Projects, NEW line, WrittenLine(line), line.command = "benchmark",
         BenchmarkJobs(p.lab, line) # Rejected
  PROVE  Fits(p.lab, line, BenchmarkJobs(p.lab, line)) /\ SettledPlan(BenchmarkJobs(p.lab, line))
<1> DEFINE list == BenchmarkJobs(p.lab, line)
<1>1. ParseParams(line.args) # Rejected
  BY DEF BenchmarkJobs
<1>2. ASSUME line.suite # None PROVE Fits(p.lab, line, list) /\ SettledPlan(list)
  <2> DEFINE job == TargetJob("benchmark", line.suite, line)
  <2>1. list = <<job>>
    BY <1>1, <1>2 DEF BenchmarkJobs
  <2>2. Covers(p.lab, line, list)
    BY <1>2 DEF Covers
  <2>3. WrittenSeed(job.seed) /\ Carries(line, job.params) /\ Settles(job.params, Len(cmdRuns))
    BY <1>1, TargetJobFits
  <2> HIDE DEF list, job
  <2> QED BY <2>1, <2>2, <2>3, OneJob
<1>3. ASSUME line.suite = None PROVE Fits(p.lab, line, list) /\ SettledPlan(list)
  <2> DEFINE found == Targeting(Registry(p.lab), line.target)
             Planned(i) == TargetJob("benchmark", found[i].name, line)
  <2>1. Registry(p.lab) # Rejected /\ list = [i \in DOMAIN found |-> Planned(i)]
    BY <1>1, <1>3 DEF BenchmarkJobs
  <2>2. Registry(p.lab) \in Seq(Range(p.lab)) /\ ToSet(Registry(p.lab)) = ToSet(p.lab)
    BY <2>1, RegistryHas, ProjectAssumption
  <2>3. /\ found \in Seq(Range(p.lab))
        /\ ToSet(found) = {r \in ToSet(p.lab) : Targets(r, line.target)}
    BY <2>2, TargetingHas
  <2> HIDE DEF found
  <2>4. DOMAIN found = 1..Len(found) /\ Len(found) \in Nat
    BY <2>3
  <2>5. \A i \in 1..Len(found) : /\ Planned(i).kind = "benchmark" /\ Planned(i).name = found[i].name
                                 /\ WrittenSeed(Planned(i).seed) /\ Carries(line, Planned(i).params)
                                 /\ Settles(Planned(i).params, Len(cmdRuns))
    BY <1>1, TargetJobFits
  <2> HIDE DEF list, Planned
  <2>6. /\ Len(list) = Len(found) /\ list \in Seq(Range(list))
        /\ \A i \in 1..Len(found) : list[i] = Planned(i)
    BY <2>1, <2>4 DEF Range
  <2>7. Covers(p.lab, line, list)
    <3> SUFFICES ASSUME NEW r \in ToSet(p.lab), Targets(r, line.target)
                 PROVE  \E i \in 1..Len(list) : list[i].kind = r.kind /\ list[i].name = r.name
      BY DEF Covers
    <3>1. PICK i \in 1..Len(found) : found[i] = r
      BY <2>3, <2>4 DEF ToSet
    <3>2. r.kind = "benchmark"
      BY DEF Targets
    <3> QED BY <2>5, <2>6, <3>1, <3>2
  <2>8. \A i \in 1..Len(list) : /\ WrittenSeed(list[i].seed) /\ Carries(line, list[i].params)
                                /\ Settles(list[i].params, Len(cmdRuns))
    BY ONLY <2>5, <2>6
  <2> QED BY <2>6, <2>7, <2>8 DEF Fits, SettledPlan
<1>4. Fits(p.lab, line, list) /\ SettledPlan(list)
  BY <1>2, <1>3
<1> QED BY <1>4

\* The jobs of any command line (Jobs).
LEMMA JobsFit ==
  ASSUME NEW p \in Projects, NEW line, WrittenLine(line), Jobs(p.lab, line) # Rejected,
         Len(cmdRuns) \in Nat, dir \subseteq 1..Len(cmdRuns)
  PROVE  Fits(p.lab, line, Jobs(p.lab, line)) /\ SettledPlan(Jobs(p.lab, line))
<1>1. CASE line.command = "run"
  <2>1. Jobs(p.lab, line) = RunJobs(p.lab, line)
    BY <1>1 DEF Jobs
  <2> QED BY <1>1, <2>1, RunJobsFit
<1>2. CASE line.command = "benchmark"
  <2>1. Jobs(p.lab, line) = BenchmarkJobs(p.lab, line)
    BY <1>2 DEF Jobs
  <2> QED BY <1>2, <2>1, BenchmarkJobsFit
<1>3. CASE line.command = "evaluate"
  <2> DEFINE job == TargetJob("evaluation", line.suite, line)
  <2>1. Jobs(p.lab, line) = EvaluateJobs(line)
    BY <1>3 DEF Jobs
  <2>2. ParseParams(line.args) # Rejected /\ EvaluateJobs(line) = <<job>>
    BY <2>1 DEF EvaluateJobs
  <2>3. WrittenSeed(job.seed) /\ Carries(line, job.params) /\ Settles(job.params, Len(cmdRuns))
    BY <1>3, <2>2, TargetJobFits
  <2>4. Covers(p.lab, line, <<job>>)
    BY <1>3 DEF Covers
  <2> HIDE DEF job
  <2> QED BY <2>1, <2>2, <2>3, <2>4, OneJob
<1> QED BY <1>1, <1>2, <1>3 DEF WrittenLine

-----------------------------------------------------------------------------
(* What commands load, plan and execute.                                   *)

\* The command line of a command is one that is typed, or the call it is the child of.
Asks(c) == phase[c] # "off" =>
  /\ WrittenLine(call[c].line)
  /\ c \notin Shells => \E k \in UNION Range(Calls) : call[c].line = ChildLine(k)

\* The jobs are those of the command line over what was loaded, and no more runs are made.
Committed(c) ==
  /\ loaded[c] \in Projects
  /\ Fits(loaded[c].lab, call[c].line, jobs[c])
  /\ SettledPlan(jobs[c])
  /\ Len(made[c]) <= Len(jobs[c])

Plans(c) == phase[c] # "off" /\ ~(phase[c] \in {"started", "error"} /\ made[c] = <<>>) => Committed(c)

\* The run whose callable is under way has not ended.
Underway(c) == phase[c] \in {"calling", "waiting"} => cmdRuns[Last(made[c])].status = "running"

RunsSettle == \A r \in 1..Len(cmdRuns) : Settles(cmdRuns[r].params, r - 1)

DataInv == /\ project \in Projects
           /\ RunsSettle
           /\ \A c \in Commands : Asks(c) /\ Plans(c) /\ Underway(c)

\* No run that completed is another one later.
Stays == /\ Len(cmdRuns) \in Nat /\ Len(cmdRuns') \in Nat /\ Len(cmdRuns) <= Len(cmdRuns')
         /\ \A r \in 1..Len(cmdRuns) :
              /\ cmdRuns'[r].params = cmdRuns[r].params
              /\ cmdRuns[r].status = "completed" => cmdRuns'[r].status = "completed"

\* What is resolved stays so.
LEMMA SettledStays ==
  ASSUME Stays, NEW n \in 0..Len(cmdRuns), NEW m \in n..Len(cmdRuns')
  PROVE  Settled(n) \subseteq Settled(m)'
BY DEF Stays, Settled

\* So the values of jobs stay settled.
LEMMA PlanStays == ASSUME Stays, NEW list, SettledPlan(list) PROVE SettledPlan(list)'
<1>1. PICK n \in Nat : n = Len(cmdRuns)
  BY DEF Stays
<1>2. PICK m \in Nat : m = Len(cmdRuns')
  BY DEF Stays
<1>3. Settled(n) \subseteq Settled(m)'
  BY <1>1, <1>2, SettledStays DEF Stays
<1>4. \A i \in 1..Len(list) : list[i].params \in [DOMAIN list[i].params -> Settled(n)]
  BY <1>1 DEF SettledPlan, Settles
<1>5. \A i \in 1..Len(list) : list[i].params \in [DOMAIN list[i].params -> Settled(m)']
  BY <1>3, <1>4
<1> QED BY <1>2, <1>5 DEF SettledPlan, Settles, Settled

\* So do those of the runs there are.
LEMMA RunsStay ==
  ASSUME Stays, RunsSettle, NEW r \in 1..Len(cmdRuns)
  PROVE  Settles(cmdRuns[r].params, r - 1)'
<1>1. PICK p : p = cmdRuns[r].params
  OBVIOUS
<1>2. p = cmdRuns'[r].params
  BY <1>1 DEF Stays
<1>3. p \in [DOMAIN p -> Settled(r - 1)]
  BY <1>1 DEF RunsSettle, Settles
<1>4. Settled(r - 1) \subseteq Settled(r - 1)'
  <2>1. r - 1 \in 0..Len(cmdRuns) /\ r - 1 \in (r - 1)..Len(cmdRuns')
    BY DEF Stays
  <2> QED BY <2>1, SettledStays
<1>5. p \in [DOMAIN p -> Settled(r - 1)']
  BY <1>3, <1>4
<1> QED BY <1>2, <1>5 DEF Settles

\* Runs that do not change stay.
LEMMA SameRuns == ASSUME CommandInv, UNCHANGED cmdRuns PROVE Stays
BY DEF CommandInv, CommandTypeOK, Stays

\* What a command is committed to stays (Load is before it).
LEMMA CommitStays ==
  ASSUME Stays, NEW c \in Commands, Committed(c), UNCHANGED <<call[c], loaded[c], jobs[c]>>,
         Len(made'[c]) <= Len(jobs[c])
  PROVE  Committed(c)'
<1>1. SettledPlan(jobs[c])'
  <2>1. PICK list : list = jobs[c]
    OBVIOUS
  <2>2. SettledPlan(list)'
    BY <2>1, PlanStays DEF Committed
  <2> QED BY <2>1, <2>2 DEF SettledPlan
<1> QED BY <1>1 DEF Committed, Fits, Covers, Carries

\* A command that takes no step goes on as it was.
LEMMA OtherData ==
  ASSUME CommandInv, DataInv, Stays, NEW c \in Commands,
         UNCHANGED <<phase[c], call[c], loaded[c], jobs[c], made[c]>>,
         \A r \in 1..Len(cmdRuns) : cmdRuns[r].by = c => cmdRuns'[r] = cmdRuns[r]
  PROVE  Asks(c)' /\ Plans(c)' /\ Underway(c)'
<1>1. Asks(c)'
  BY DEF DataInv, Asks
<1>2. Plans(c)'
  <2>1. Committed(c) => Len(made'[c]) <= Len(jobs[c])
    BY DEF Committed
  <2> QED BY <2>1, CommitStays DEF DataInv, Plans
<1>3. Underway(c)'
  <2> SUFFICES ASSUME phase[c] \in {"calling", "waiting"} PROVE Underway(c)'
    BY DEF Underway
  <2>1. made[c] \in Seq(1..MaxRuns) /\ made[c] # <<>> /\ Makes(c)
    BY DEF CommandInv, CommandTypeOK, Makes
  <2>2. Len(made[c]) \in 1..Len(made[c])
    BY <2>1
  <2>3. Last(made[c]) \in 1..Len(cmdRuns) /\ cmdRuns[Last(made[c])].by = c
    BY <2>1, <2>2 DEF Makes, Made, Last
  <2> QED BY <2>3 DEF DataInv, Underway
<1> QED BY <1>1, <1>2, <1>3

\* A step that changes no run, and one or two commands.
LEMMA QuietData ==
  ASSUME CommandInv, DataInv, UNCHANGED <<cmdRuns, made>>, project' \in Projects,
         NEW D \in SUBSET Commands,
         \A d \in Commands \ D : UNCHANGED <<phase[d], call[d], loaded[d], jobs[d]>>,
         \A d \in D : Asks(d)' /\ Plans(d)' /\ Underway(d)'
  PROVE  DataInv'
<1>1. Stays
  BY SameRuns
<1>2. \A d \in Commands : Asks(d)' /\ Plans(d)' /\ Underway(d)'
  BY <1>1, OtherData
<1>3. RunsSettle'
  BY <1>1, RunsStay DEF RunsSettle, DataInv
<1> QED BY <1>2, <1>3 DEF DataInv

\* A job that is executed gets values that are settled.
LEMMA ExecutedSettles ==
  ASSUME NEW n, NEW job, NEW configured, Settles(job.params, n), WrittenSeed(job.seed),
         Written(configured.params), WrittenSeed(configured.seed)
  PROVE  Settles(Executed(job, configured), n)
<1> DEFINE params == Onto(job.params, configured.params)
           seed == OrSeed(job.seed, configured.seed)
<1>1. Settles(params, n)
  <2>1. Settles(configured.params, n)
    BY WrittenSettles
  <2> QED BY <2>1, OntoValued DEF Settles
<1>2. CASE seed = Unseeded
  BY <1>1, <1>2 DEF Executed
<1>3. CASE seed # Unseeded
  <2>1. seed \in Settled(n)
    BY <1>3 DEF OrSeed, WrittenSeed, Settled
  <2>2. Executed(job, configured) = With(params, "seed", seed)
    BY <1>3 DEF Executed
  <2> HIDE DEF params, seed
  <2> QED BY <1>1, <2>1, <2>2, WithValued DEF Settles
<1> QED BY <1>2, <1>3

\* What the job sets is so in its run, but for the seed.
LEMMA ExecutedCarries ==
  ASSUME NEW job, NEW configured, NEW k \in DOMAIN job.params \ {"seed"}
  PROVE  k \in DOMAIN Executed(job, configured) /\ Executed(job, configured)[k] = job.params[k]
<1> DEFINE params == Onto(job.params, configured.params)
           seed == OrSeed(job.seed, configured.seed)
<1>1. k \in DOMAIN params /\ params[k] = job.params[k]
  BY DEF Onto
<1>2. /\ DOMAIN With(params, "seed", seed) = DOMAIN params \cup {"seed"}
      /\ \A j \in DOMAIN params \ {"seed"} : With(params, "seed", seed)[j] = params[j]
  BY DEF Onto, With
<1>3. Executed(job, configured) = params \/ Executed(job, configured) = With(params, "seed", seed)
  BY DEF Executed
<1> HIDE DEF params, seed
<1> QED BY <1>1, <1>2, <1>3

\* The project is edited (Edit).
LEMMA EditData == ASSUME CommandInv, DataInv, Edit \/ UNCHANGED cmdVars PROVE DataInv'
<1>1. UNCHANGED <<phase, call, loaded, jobs, made, cmdRuns>> /\ project' \in Projects
  BY DEF Edit, cmdVars, DataInv
<1> DEFINE D == {}
<1>2. D \in SUBSET Commands /\ \A d \in D : Asks(d)' /\ Plans(d)' /\ Underway(d)'
  OBVIOUS
<1> HIDE DEF D
<1> QED BY <1>1, <1>2, QuietData

\* A step of one command that changes no run.
LEMMA OneQuiet ==
  ASSUME CommandInv, DataInv, UNCHANGED <<cmdRuns, made, project>>, NEW c \in Commands,
         \A d \in Commands \ {c} : UNCHANGED <<phase[d], call[d], loaded[d], jobs[d]>>,
         Asks(c)', Plans(c)', Underway(c)'
  PROVE  DataInv'
<1> DEFINE D == {c}
<1>1. D \in SUBSET Commands /\ \A d \in D : Asks(d)' /\ Plans(d)' /\ Underway(d)'
  OBVIOUS
<1>2. \A d \in Commands \ D : UNCHANGED <<phase[d], call[d], loaded[d], jobs[d]>>
  OBVIOUS
<1>3. project' \in Projects
  BY DEF DataInv
<1> HIDE DEF D
<1> QED BY <1>1, <1>2, <1>3, QuietData

\* What is typed is a command line of the shell (Type).
LEMMA TypeData ==
  ASSUME CommandInv, DataInv, NEW c \in Commands, c \in Shells, NEW line \in Lines[c], Type(c, line)
  PROVE  DataInv'
<1>1. /\ UNCHANGED <<cmdRuns, made, project>>
      /\ \A d \in Commands \ {c} : UNCHANGED <<phase[d], call[d], loaded[d], jobs[d]>>
      /\ phase[c] = "off" /\ phase'[c] = "started"
      /\ call'[c].line = line
  BY DEF Type, CommandInv, CommandTypeOK, Total
<1>2. made[c] = <<>>
  BY <1>1 DEF CommandInv, Makes
<1>3. Asks(c)'
  BY <1>1, LineAssumption DEF Asks
<1>4. Plans(c)' /\ Underway(c)'
  BY <1>1, <1>2 DEF Plans, Underway
<1> QED BY <1>1, <1>3, <1>4, OneQuiet

\* The jobs are planned over the project as it is loaded (Load).
LEMMA LoadData == ASSUME CommandInv, DataInv, NEW c \in Commands, Load(c) PROVE DataInv'
<1>1. /\ UNCHANGED <<cmdRuns, made, project, call>>
      /\ \A d \in Commands \ {c} : UNCHANGED <<phase[d], call[d], loaded[d], jobs[d]>>
      /\ phase[c] = "started" /\ loaded'[c] = project /\ jobs'[c] = Jobs(project.lab, call[c].line)
      /\ phase'[c] = IF jobs'[c] = Rejected THEN "error" ELSE "ready"
  BY DEF Load, CommandInv, CommandTypeOK, Total
<1>2. made[c] = <<>> /\ project \in Projects /\ WrittenLine(call[c].line)
  BY <1>1 DEF CommandInv, Makes, DataInv, Asks
<1>3. Asks(c)' /\ Underway(c)'
  BY <1>1 DEF DataInv, Asks, Underway
<1>4. Plans(c)'
  <2>1. CASE jobs'[c] = Rejected
    BY <1>1, <1>2, <2>1 DEF Plans
  <2>2. CASE jobs'[c] # Rejected
    <3>1. PICK list : list = Jobs(project.lab, call[c].line)
      OBVIOUS
    <3>2. Fits(project.lab, call[c].line, list) /\ SettledPlan(list)
      <4>1. Len(cmdRuns) \in Nat /\ dir \subseteq 1..Len(cmdRuns)
        BY DEF CommandInv, CommandTypeOK
      <4> QED BY <1>1, <1>2, <2>2, <3>1, <4>1, JobsFit
    <3>3. SettledPlan(list)'
      BY <1>1, <3>2, SameRuns, PlanStays
    <3>4. SettledPlan(jobs[c])'
      BY <1>1, <3>1, <3>3 DEF SettledPlan
    <3>5. Fits(loaded[c].lab, call[c].line, jobs[c])'
      BY <1>1, <3>1, <3>2 DEF Fits, Covers, Carries
    <3>6. Len(made'[c]) <= Len(jobs'[c])
      <4>1. list \in Seq(Range(list))
        BY <3>2 DEF Fits
      <4>2. Len(list) \in Nat /\ jobs'[c] = list
        BY <1>1, <3>1, <4>1
      <4>3. Len(made'[c]) = 0
        BY <1>1, <1>2
      <4> QED BY <4>2, <4>3
    <3> QED BY <1>1, <1>2, <3>4, <3>5, <3>6 DEF Plans, Committed
  <2> QED BY <2>1, <2>2
<1> QED BY <1>1, <1>3, <1>4, OneQuiet

\* A command ends, or is at its next job, without a change of runs.
LEMMA PhaseData ==
  ASSUME CommandInv, DataInv, NEW c \in Commands,
         UNCHANGED <<project, call, loaded, jobs, made, cmdRuns>>,
         NEW p, phase' = [phase EXCEPT ![c] = p],
         \/ p = "error"
         \/ p \in {"exit0", "exit1"} /\ phase[c] = "ready"
         \/ p = "calling" /\ phase[c] = "waiting",
         phase[c] \in Alive
  PROVE  DataInv'
<1>1. /\ \A d \in Commands \ {c} : UNCHANGED <<phase[d], call[d], loaded[d], jobs[d]>>
      /\ phase'[c] = p
  BY DEF CommandInv, CommandTypeOK
<1>2. Asks(c)'
  BY <1>1 DEF DataInv, Asks, Alive
<1>3. Underway(c)'
  BY <1>1 DEF DataInv, Underway
<1>4. Plans(c)'
  <2>1. CASE phase[c] = "started"
    BY <1>1, <2>1 DEF Plans, CommandInv, Makes
  <2>2. CASE phase[c] # "started"
    <3>1. Committed(c)
      BY <2>2 DEF DataInv, Plans, Alive
    <3>2. Committed(c)'
      <4>1. Len(made'[c]) <= Len(jobs[c])
        BY <3>1 DEF Committed
      <4> QED BY <3>1, <4>1, SameRuns, CommitStays
    <3> QED BY <3>2 DEF Plans
  <2> QED BY <2>1, <2>2
<1> QED BY <1>1, <1>2, <1>3, <1>4, OneQuiet

\* The child is started with the call as its command line (Spawn).
LEMMA SpawnData ==
  ASSUME CommandInv, DataInv, NEW c \in Commands, NEW k \in UNION Range(Calls), NEW s \in Commands,
         Spawn(c, k, s)
  PROVE  DataInv'
<1>1. /\ UNCHANGED <<cmdRuns, made, project, loaded, jobs>>
      /\ \A d \in Commands \ {c, s} : UNCHANGED <<phase[d], call[d], loaded[d], jobs[d]>>
      /\ phase[c] = "calling" /\ phase[s] = "off" /\ c # s
      /\ phase'[c] = "waiting" /\ phase'[s] = "started"
      /\ call'[c] = call[c] /\ call'[s].line = ChildLine(k)
  BY DEF Spawn, CommandInv, CommandTypeOK, Total
<1>2. made[s] = <<>>
  BY <1>1 DEF CommandInv, Makes
<1>3. WrittenLine(ChildLine(k))
  <2>1. Written(k.params) /\ WrittenSeed(k.seed)
    BY ValueAssumption
  <2>2. /\ ChildLine(k).command = "run" /\ ChildLine(k).seed = k.seed
        /\ ChildLine(k).args = <<[form |-> "json", params |-> k.params]>>
    BY DEF ChildLine
  <2>3. \A x : /\ <<x>> \in Seq(Range(<<x>>)) /\ DOMAIN <<x>> = 1..1 /\ <<x>>[1] = x
    BY DEF Range
  <2>4. ChildLine(k).args \in Seq(Range(ChildLine(k).args))
    BY <2>2, <2>3
  <2>5. \A i \in DOMAIN ChildLine(k).args : Written(ChildLine(k).args[i].params)
    BY <2>1, <2>2, <2>3
  <2> QED BY <2>1, <2>2, <2>4, <2>5 DEF WrittenLine
<1>4. Asks(s)' /\ Plans(s)' /\ Underway(s)'
  BY <1>1, <1>2, <1>3 DEF Asks, Plans, Underway
<1>5. Asks(c)' /\ Underway(c)'
  BY <1>1 DEF DataInv, Asks, Underway
<1>6. Plans(c)'
  <2>1. Committed(c)
    BY <1>1 DEF DataInv, Plans
  <2>2. Len(made'[c]) <= Len(jobs[c])
    BY <1>1, <2>1 DEF Committed
  <2> QED BY <1>1, <2>1, <2>2, SameRuns, CommitStays DEF Plans
<1> DEFINE D == {c, s}
<1>7. D \in SUBSET Commands /\ \A d \in D : Asks(d)' /\ Plans(d)' /\ Underway(d)'
  BY <1>4, <1>5, <1>6
<1>8. \A d \in Commands \ D : UNCHANGED <<phase[d], call[d], loaded[d], jobs[d]>>
  BY <1>1
<1>9. project' \in Projects
  BY <1>1 DEF DataInv
<1> HIDE DEF D
<1> QED BY <1>1, <1>7, <1>8, <1>9, QuietData

\* The run that begins has the values of its job, which were settled before (Execute).
LEMMA ExecuteData == ASSUME CommandInv, CommandInv', DataInv, NEW c \in Commands, Execute(c) PROVE DataInv'
<1> DEFINE new == Len(cmdRuns) + 1
           job == jobs[c][Len(made[c]) + 1]
<1>1. /\ phase[c] = "ready" /\ phase'[c] = "calling"
      /\ UNCHANGED <<project, call, loaded, jobs>>
      /\ \A d \in Commands \ {c} : UNCHANGED <<phase[d], made[d]>>
      /\ Len(made[c]) < Len(jobs[c])
  BY DEF Execute, CommandInv, CommandTypeOK
<1>2. /\ Len(cmdRuns) \in Nat /\ Len(cmdRuns') = new
      /\ \A r \in 1..Len(cmdRuns) : cmdRuns'[r] = cmdRuns[r]
      /\ cmdRuns'[new] = CmdRun(c, job)
  BY RunAppended DEF Execute, CommandInv, CommandTypeOK
<1>3. cmdRuns'[new].params = Executed(job, loaded[c]) /\ cmdRuns'[new].status = "running"
  BY <1>2 DEF CmdRun
<1>4. /\ made[c] \in Seq(1..MaxRuns) /\ Len(made[c]) \in Nat
      /\ Len(made'[c]) = Len(made[c]) + 1 /\ Last(made'[c]) = new
  <2>1. made[c] \in Seq(1..MaxRuns) /\ made'[c] = Append(made[c], new)
    BY <1>2 DEF Execute, CommandInv, CommandTypeOK
  <2>2. Len(Append(made[c], new)) = Len(made[c]) + 1 /\ Append(made[c], new)[Len(made[c]) + 1] = new
    BY <2>1, RunAppended
  <2> HIDE DEF new
  <2> QED BY <2>1, <2>2 DEF Last
<1>5. Stays
  BY <1>2 DEF Stays
<1>6. Committed(c)
  BY <1>1 DEF DataInv, Plans
<1>7. Settles(job.params, Len(cmdRuns)) /\ WrittenSeed(job.seed)
  <2>1. jobs[c] \in Seq(Range(jobs[c]))
    BY <1>6 DEF Committed, Fits
  <2>2. Len(jobs[c]) \in Nat
    BY <2>1
  <2>3. Len(made[c]) + 1 \in 1..Len(jobs[c])
    BY <1>1, <1>4, <2>2
  <2> QED BY <1>6, <2>3 DEF Committed, Fits, SettledPlan
<1>8. Settles(Executed(job, loaded[c]), Len(cmdRuns))
  <2>1. Written(loaded[c].params) /\ WrittenSeed(loaded[c].seed)
    BY <1>6, ProjectAssumption DEF Committed
  <2> HIDE DEF job
  <2> QED BY <1>7, <2>1, ExecutedSettles
<1> HIDE DEF job
<1>9. RunsSettle'
  <2>1. ASSUME NEW r \in 1..Len(cmdRuns) PROVE Settles(cmdRuns[r].params, r - 1)'
    BY <1>5, RunsStay DEF DataInv
  <2>2. ASSUME NEW r \in Nat, r = new PROVE Settles(cmdRuns[r].params, r - 1)'
    <3>1. r - 1 = Len(cmdRuns) /\ r - 1 \in Nat
      BY <1>2, <2>2
    <3>2. Settled(r - 1) \subseteq Settled(r - 1)'
      <4>1. r - 1 \in 0..Len(cmdRuns) /\ r - 1 \in (r - 1)..Len(cmdRuns')
        BY <1>2, <3>1
      <4> QED BY <1>5, <4>1, SettledStays
    <3>3. PICK p : p = cmdRuns'[r].params
      OBVIOUS
    <3>4. p \in [DOMAIN p -> Settled(r - 1)]
      BY <1>3, <1>8, <2>2, <3>1, <3>3 DEF Settles
    <3>5. p \in [DOMAIN p -> Settled(r - 1)']
      BY <3>2, <3>4
    <3> QED BY <3>3, <3>5 DEF Settles
  <2>3. \A r \in 1..Len(cmdRuns') : r \in 1..Len(cmdRuns) \/ (r \in Nat /\ r = new)
    BY <1>2
  <2> QED BY <2>1, <2>2, <2>3 DEF RunsSettle
<1>10. ASSUME NEW d \in Commands \ {c} PROVE Asks(d)' /\ Plans(d)' /\ Underway(d)'
  <2>1. UNCHANGED <<phase[d], call[d], loaded[d], jobs[d], made[d]>>
    BY <1>1
  <2> QED BY <1>2, <1>5, <2>1, OtherData
<1>11. Asks(c)' /\ Plans(c)' /\ Underway(c)'
  <2>1. Asks(c)'
    BY <1>1 DEF DataInv, Asks
  <2>2. Len(made'[c]) <= Len(jobs[c])
    <3>1. jobs[c] \in Seq(Range(jobs[c]))
      BY <1>6 DEF Committed, Fits
    <3>2. Len(jobs[c]) \in Nat
      BY <3>1
    <3> QED BY <1>1, <1>4, <3>2
  <2>3. Committed(c)'
    BY <1>1, <1>5, <1>6, <2>2, CommitStays
  <2>4. Underway(c)'
    BY <1>3, <1>4 DEF Underway
  <2> QED BY <2>1, <2>3, <2>4 DEF Plans
<1>12. project' \in Projects
  BY <1>1 DEF DataInv
<1> QED BY <1>9, <1>10, <1>11, <1>12 DEF DataInv

\* The run that ends was running: no run that completed changes (Returns, Raises).
LEMMA EndData ==
  ASSUME CommandInv, CommandInv', DataInv, NEW c \in Commands, NEW status \in Ended, NEW gone,
         End(c, status, gone)
  PROVE  DataInv'
<1> DEFINE last == Last(made[c])
<1>1. /\ phase[c] = "calling" /\ phase'[c] = "ready"
      /\ UNCHANGED <<project, call, loaded, jobs, made>>
      /\ \A d \in Commands \ {c} : UNCHANGED <<phase[d]>>
  BY DEF End, CommandInv, CommandTypeOK
<1>2. made[c] \in Seq(1..MaxRuns) /\ made[c] # <<>> /\ Makes(c)
  BY <1>1 DEF CommandInv, CommandTypeOK, Makes
<1>3. last \in 1..Len(cmdRuns) /\ cmdRuns[last].by = c
  <2>1. Len(made[c]) \in 1..Len(made[c])
    BY <1>2
  <2> QED BY <1>2, <2>1 DEF Makes, Made, Last
<1>4. cmdRuns[last].status = "running"
  BY <1>1 DEF DataInv, Underway
<1> HIDE DEF last
<1>5. cmdRuns' = [cmdRuns EXCEPT ![last].status = status]
  BY DEF End, last
<1>6. /\ Len(cmdRuns) \in Nat /\ Len(cmdRuns') = Len(cmdRuns)
      /\ \A r \in 1..Len(cmdRuns) : r # last => cmdRuns'[r] = cmdRuns[r]
      /\ cmdRuns'[last].params = cmdRuns[last].params
  <2>1. cmdRuns \in Seq(ToSet(cmdRuns)) /\ RunRow(cmdRuns[last])
    BY <1>3 DEF CommandInv, CommandTypeOK
  <2>2. DOMAIN cmdRuns = 1..Len(cmdRuns) /\ DOMAIN cmdRuns' = DOMAIN cmdRuns /\ Len(cmdRuns) \in Nat
    BY <1>5, <2>1
  <2>3. Len(cmdRuns') = Len(cmdRuns)
    <3>1. cmdRuns' \in Seq(ToSet(cmdRuns'))
      BY DEF CommandInv, CommandTypeOK
    <3>2. DOMAIN cmdRuns' = 1..Len(cmdRuns') /\ Len(cmdRuns') \in Nat
      BY <3>1
    <3> QED BY <2>2, <3>2
  <2> QED BY <1>3, <1>5, <2>1, <2>2, <2>3 DEF RunRow
<1>7. Stays
  BY <1>4, <1>6 DEF Stays
<1>8. RunsSettle'
  BY <1>6, <1>7, RunsStay DEF DataInv, RunsSettle
<1>9. ASSUME NEW d \in Commands \ {c} PROVE Asks(d)' /\ Plans(d)' /\ Underway(d)'
  <2>1. UNCHANGED <<phase[d], call[d], loaded[d], jobs[d], made[d]>>
    BY <1>1
  <2>2. \A r \in 1..Len(cmdRuns) : cmdRuns[r].by = d => cmdRuns'[r] = cmdRuns[r]
    BY <1>3, <1>6
  <2> QED BY <1>7, <2>1, <2>2, OtherData
<1>10. Asks(c)' /\ Plans(c)' /\ Underway(c)'
  <2>1. Committed(c)
    BY <1>1 DEF DataInv, Plans
  <2>2. Len(made'[c]) <= Len(jobs[c])
    BY <1>1, <2>1 DEF Committed
  <2>3. Committed(c)'
    BY <1>1, <1>7, <2>1, <2>2, CommitStays
  <2> QED BY <1>1, <2>3 DEF DataInv, Asks, Plans, Underway
<1>11. project' \in Projects
  BY <1>1 DEF DataInv
<1> QED BY <1>8, <1>9, <1>10, <1>11 DEF DataInv

\* A command dies, ends, or goes on after its child (Abort, Exit, Collect).
LEMMA RestData ==
  ASSUME CommandInv, DataInv, NEW c \in Commands, Abort(c) \/ Exit(c) \/ Collect(c)
  PROVE  DataInv'
<1>1. CASE Abort(c)
  BY <1>1, PhaseData DEF Abort
<1>2. CASE Exit(c)
  <2> DEFINE p == IF \E r \in ToSet(made[c]) : cmdRuns[r].status = "failed" THEN "exit1" ELSE "exit0"
  <2>1. /\ UNCHANGED <<project, call, loaded, jobs, made, cmdRuns>>
        /\ phase' = [phase EXCEPT ![c] = p] /\ p \in {"exit0", "exit1"} /\ phase[c] = "ready"
    BY <1>2 DEF Exit
  <2> HIDE DEF p
  <2> QED BY <2>1, PhaseData DEF Alive
<1>3. CASE Collect(c)
  <2>1. /\ UNCHANGED <<project, call, loaded, jobs, made, cmdRuns>>
        /\ phase' = [phase EXCEPT ![c] = "calling"] /\ phase[c] = "waiting"
    BY <1>3 DEF Collect
  <2> QED BY <2>1, PhaseData DEF Alive
<1> QED BY <1>1, <1>2, <1>3

\* Every step keeps what reaches the runs.
LEMMA DataStep == CommandInv /\ CommandInv' /\ DataInv /\ [CmdNext]_cmdVars => DataInv'
<1> SUFFICES ASSUME CommandInv, CommandInv', DataInv, [CmdNext]_cmdVars PROVE DataInv'
  OBVIOUS
<1>1. CASE Edit \/ UNCHANGED cmdVars
  BY <1>1, EditData
<1>2. ASSUME NEW c \in Commands, Step(c) PROVE DataInv'
  <2>1. CASE Returns(c)
    BY <2>1, EndData DEF Returns, Ended
  <2>2. CASE Raises(c)
    BY <2>2, EndData DEF Raises, Ended
  <2>3. CASE c \in Shells /\ \E line \in Lines[c] : Type(c, line)
    BY <2>3, TypeData
  <2>4. CASE \E k \in UNION Range(Calls), s \in Commands : Spawn(c, k, s)
    BY <2>4, SpawnData
  <2>5. CASE Abort(c) \/ Exit(c) \/ Collect(c)
    BY <2>5, RestData
  <2> QED BY <1>2, <2>1, <2>2, <2>3, <2>4, <2>5, LoadData, ExecuteData DEF Step
<1> QED BY <1>1, <1>2 DEF CmdNext, Over

\* The invariant that shows what reaches the runs of a command.
LEMMA DataAlways == CmdSpec => []DataInv
<1>1. CmdInit => DataInv
  BY DEF CmdInit, DataInv, RunsSettle, Asks, Plans, Underway
<1> QED BY <1>1, DataStep, CommandAlways, PTL DEF CmdSpec

\* A command that exits with 0 executed all of its jobs, and they completed; one that
\* was asked for the benchmarks of a target executed every one that was registered,
\* whatever became of the registry meanwhile (BenchmarkJobs, Execute, Exit).
THEOREM ExitZeroAlwaysAccounts == CmdSpec => []ExitZeroAccounts
<1>1. CommandInv /\ DataInv => NoneLeftOut
  <2> SUFFICES ASSUME CommandInv, DataInv, NEW c \in Commands, phase[c] = "exit0",
                      call[c].line.command = "benchmark", call[c].line.suite = None,
                      NEW r \in ToSet(loaded[c].lab), Targets(r, call[c].line.target)
               PROVE  \E run \in ToSet(made[c]) : cmdRuns[run].kind = r.kind /\ cmdRuns[run].name = r.name
    BY DEF NoneLeftOut
  <2>1. Committed(c)
    BY DEF DataInv, Plans
  <2>2. PICK i \in 1..Len(jobs[c]) : jobs[c][i].kind = r.kind /\ jobs[c][i].name = r.name
    BY <2>1 DEF Committed, Fits, Covers
  <2>3. made[c] \in Seq(1..MaxRuns) /\ Makes(c) /\ Len(made[c]) = Len(jobs[c])
    BY DEF CommandInv, CommandTypeOK, Makes
  <2>4. i \in 1..Len(made[c]) /\ i \in DOMAIN made[c]
    BY <2>2, <2>3
  <2>5. made[c][i] \in ToSet(made[c])
    BY <2>4 DEF ToSet
  <2> QED BY <2>2, <2>3, <2>4, <2>5 DEF Makes, Made
<1> QED BY <1>1, CommandAlways, DataAlways, ExitZeroExecuted, PTL DEF ExitZeroAccounts

\* Whatever a matrix, a declaration or the configuration says, the parameters of a call
\* reach every run of its child, and a reference is an earlier run that completed and
\* stays so (ParseArgument, ResolveParamRefs, MergeParams, Executed).
THEOREM ParamsAlwaysReach == CmdSpec => []ParamsReachChild
<1>1. CommandInv /\ DataInv => CallsReachChild
  <2> SUFFICES ASSUME CommandInv, DataInv, NEW c \in Commands \ Shells, NEW r \in ToSet(made[c]),
                      ~Garbled(c), NEW k \in DOMAIN Asked(c) \ {"seed"}, Asked(c)[k] \notin DOMAIN RefOf
               PROVE  k \in DOMAIN cmdRuns[r].params /\ cmdRuns[r].params[k] = Asked(c)[k]
    BY DEF CallsReachChild
  <2>1. made[c] \in Seq(1..MaxRuns) /\ Makes(c)
    BY DEF CommandInv, CommandTypeOK
  <2>2. PICK i \in 1..Len(made[c]) : made[c][i] = r
    BY <2>1 DEF ToSet
  <2>3. phase[c] # "off" /\ made[c] # <<>>
    BY <2>1, <2>2 DEF Makes
  <2>4. Committed(c)
    <3>1. phase[c] # "started"
      BY <2>1, <2>3 DEF Makes
    <3> QED BY <2>3, <3>1 DEF DataInv, Plans
  <2>5. PICK call_of \in UNION Range(Calls) : call[c].line = ChildLine(call_of)
    BY <2>3 DEF DataInv, Asks
  <2>6. Asked(c) = call_of.params
    BY <2>5 DEF Asked, ChildLine
  <2>7. Len(made[c]) \in Nat /\ Len(jobs[c]) \in Nat /\ Len(made[c]) <= Len(jobs[c])
    <3>1. jobs[c] \in Seq(Range(jobs[c]))
      BY <2>4 DEF Committed, Fits
    <3>2. Len(jobs[c]) \in Nat
      BY <3>1
    <3> QED BY <2>1, <2>4, <3>2 DEF Committed
  <2>8. i \in 1..Len(jobs[c])
    BY <2>7
  <2>9. k \in DOMAIN jobs[c][i].params /\ jobs[c][i].params[k] = Asked(c)[k]
    <3>1. Carries(call[c].line, jobs[c][i].params)
      BY <2>4, <2>8 DEF Committed, Fits
    <3>2. Range(call_of.params) \cap EqualsTexts = {}
      BY <2>6 DEF Garbled
    <3> QED BY <2>5, <2>6, <3>1, <3>2 DEF Carries
  <2>10. cmdRuns[r].params = Executed(jobs[c][i], loaded[c])
    BY <2>1, <2>2 DEF Makes, Made
  <2> QED BY <2>9, <2>10, ExecutedCarries
<1>2. CommandInv /\ DataInv => ReferencesAreCompleted
  <2> SUFFICES ASSUME CommandInv, DataInv, NEW r \in DOMAIN cmdRuns,
                      NEW v \in Range(cmdRuns[r].params) \cap (1..MaxRuns)
               PROVE  v < r /\ cmdRuns[v].status = "completed"
    BY DEF ReferencesAreCompleted
  <2>1. r \in 1..Len(cmdRuns) /\ Len(cmdRuns) \in Nat
    BY DEF CommandInv, CommandTypeOK
  <2>2. Settles(cmdRuns[r].params, r - 1)
    BY <2>1 DEF DataInv, RunsSettle
  <2>3. v \in Settled(r - 1)
    BY <2>2 DEF Settles, Range
  <2>4. v \notin Values
    BY ValueAssumption, CommandAssumption
  <2> QED BY <2>1, <2>3, <2>4 DEF Settled
<1> QED BY <1>1, <1>2, CommandAlways, DataAlways, PTL DEF ParamsReachChild

-----------------------------------------------------------------------------
(* The parameters of a study, and what a path of them holds.               *)

Ways == {"dotted", "extend", "declared dotted", "declared flat", "runtime"}

\* Parameters: a value for each of some paths.
Params == UNION {[paths -> Leaves \cup Mappings] : paths \in SUBSET Path}

\* The paths of parameters, and their values.
LEMMA ParamsAre ==
  ASSUME NEW params \in Params
  PROVE  DOMAIN params \subseteq Path /\ \A k \in DOMAIN params : params[k] \in Leaves \cup Mappings
BY DEF Params

\* What an object with one more key has.
LEMMA PutIs ==
  ASSUME NEW o, NEW key, NEW value
  PROVE  /\ key \in DOMAIN Put(o, key, value) /\ Put(o, key, value)[key] = value
         /\ \A k : k # key => (k \in DOMAIN Put(o, key, value) <=> k \in DOMAIN o)
         /\ \A k \in DOMAIN o : k # key => Put(o, key, value)[k] = o[k]
BY DEF Put

\* A path has one name or two.
LEMMA PathCases ==
  ASSUME NEW p \in Path
  PROVE  /\ Len(p) = 1 \/ Len(p) = 2
         /\ Len(p) = 1 => p = <<p[1]>>
         /\ Len(p) = 2 => p = <<p[1], p[2]>> /\ p[2] \in Fields
BY DEF Path

\* The first name of a path is a path.
LEMMA ParentPath ==
  ASSUME NEW p \in Path
  PROVE  <<p[1]>> \in Path /\ Len(<<p[1]>>) = 1 /\ <<p[1]>>[1] = p[1]
<1>1. p \in Seq(STRING) /\ (Len(p) = 1 \/ (Len(p) = 2 /\ p[2] \in Fields))
  BY DEF Path
<1>2. p[1] \in STRING
  BY <1>1
<1>3. <<p[1]>> \in Seq(STRING) /\ Len(<<p[1]>>) = 1
  BY <1>2
<1> QED BY <1>1, <1>3 DEF Path

\* A path of two names is not that of its parent.
LEMMA LongPath == ASSUME NEW p \in Path, Len(p) = 2 PROVE p # <<p[1]>>
<1>1. \A x : x = <<p[1]>> => Len(x) = 1
  BY ParentPath
<1> QED BY <1>1

\* A name of one step is that of its first name.
LEMMA SinglePath == ASSUME NEW p \in Path, NEW q \in Path, Len(p) = 1, Len(q) = 1, p[1] = q[1] PROVE p = q
<1>1. p = <<p[1]>>
  BY PathCases
<1>2. q = <<q[1]>>
  BY PathCases
<1> QED BY <1>1, <1>2

\* Parameters with one more path are parameters.
LEMMA ParamsPut ==
  ASSUME NEW params \in Params, NEW path \in Path, NEW value \in Leaves \cup Mappings
  PROVE  Put(params, path, value) \in Params
<1>1. PICK paths \in SUBSET Path : params \in [paths -> Leaves \cup Mappings]
  BY DEF Params
<1>2. Put(params, path, value) \in [paths \cup {path} -> Leaves \cup Mappings]
  BY <1>1 DEF Put
<1> QED BY <1>2 DEF Params

\* An object with one more field is an object.
LEMMA MappingPut ==
  ASSUME NEW m \in Mappings, NEW key \in Fields, NEW value \in Leaves
  PROVE  Put(m, key, value) \in Mappings
<1>1. PICK fields \in SUBSET Fields : m \in [fields -> Leaves]
  BY DEF Mappings
<1>2. Put(m, key, value) \in [fields \cup {key} -> Leaves]
  BY <1>1 DEF Put
<1> QED BY <1>2 DEF Mappings

\* An object that a path leads into is one, and stays one.
LEMMA WithinPut ==
  ASSUME NEW params \in Params, NEW path \in Path, Len(path) = 2, Leads(params, path), NEW value \in Leaves
  PROVE  /\ <<path[1]>> \in DOMAIN params /\ params[<<path[1]>>] \in Mappings
         /\ Put(params[<<path[1]>>], path[2], value) \in Mappings
         /\ Put(params, <<path[1]>>, Put(params[<<path[1]>>], path[2], value)) \in Params
<1>1. <<path[1]>> \in DOMAIN params /\ params[<<path[1]>>] \in Mappings
  BY ParamsAre DEF Leads
<1>2. path[2] \in Fields /\ <<path[1]>> \in Path
  BY PathCases, ParentPath
<1>3. Put(params[<<path[1]>>], path[2], value) \in Mappings
  BY <1>1, <1>2, MappingPut
<1> QED BY <1>1, <1>2, <1>3, ParamsPut

\* What one override comes to: nothing, a key, or a value within an object.
LEMMA Applies ==
  ASSUME NEW way \in Ways, NEW params \in Params, NEW o \in Override, Apply(way, params, o.path, o.value) # Refused
  PROVE  \/ Apply(way, params, o.path, o.value) = params /\ way \in {"declared dotted", "declared flat"}
         \/ /\ Apply(way, params, o.path, o.value) = Put(params, o.path, o.value)
            /\ Len(o.path) = 2 => ~Leads(params, o.path) \/ way = "extend"
         \/ /\ Len(o.path) = 2 /\ Leads(params, o.path) /\ way # "extend" /\ o.value \in Leaves
            /\ Apply(way, params, o.path, o.value) =
                 Put(params, <<o.path[1]>>, Put(params[<<o.path[1]>>], o.path[2], o.value))
<1>1. o.path \in Path /\ (Len(o.path) = 2 => o.value \in Leaves)
  BY DEF Override
<1>2. Len(o.path) = 1 \/ Len(o.path) = 2
  BY <1>1, PathCases
<1>3. CASE way = "dotted"
  BY <1>1, <1>2, <1>3 DEF Apply, SetPath
<1>4. CASE way = "extend"
  BY <1>1, <1>2, <1>4 DEF Apply
<1>5. CASE way = "declared dotted"
  BY <1>1, <1>2, <1>5 DEF Apply, SetPath
<1>6. CASE way = "declared flat"
  <2>1. Apply(way, params, o.path, o.value) = IF Len(o.path) = 1 THEN Put(params, o.path, o.value) ELSE params
    BY <1>6 DEF Apply
  <2>2. CASE Len(o.path) = 1
    BY <2>1, <2>2
  <2>3. CASE Len(o.path) = 2
    <3>1. Apply(way, params, o.path, o.value) = params
      BY <2>1, <2>3
    <3> QED BY <1>6, <3>1
  <2> QED BY <1>2, <2>2, <2>3
<1>7. CASE way = "runtime"
  BY <1>1, <1>2, <1>7 DEF Apply, SetOrPut, SetPath
<1> QED BY <1>3, <1>4, <1>5, <1>6, <1>7 DEF Ways

\* An override gives parameters, of all the paths there were.
LEMMA ApplyParams ==
  ASSUME NEW way \in Ways, NEW params \in Params, NEW o \in Override, Apply(way, params, o.path, o.value) # Refused
  PROVE  /\ Apply(way, params, o.path, o.value) \in Params
         /\ DOMAIN params \subseteq DOMAIN Apply(way, params, o.path, o.value)
<1>1. o.path \in Path /\ o.value \in Leaves \cup Mappings
  BY DEF Override
<1> DEFINE next == Apply(way, params, o.path, o.value)
<1>2. CASE next = params
  BY <1>2
<1>3. CASE next = Put(params, o.path, o.value)
  BY <1>1, <1>3, ParamsPut, PutIs
<1>4. CASE /\ Len(o.path) = 2 /\ Leads(params, o.path) /\ o.value \in Leaves
           /\ next = Put(params, <<o.path[1]>>, Put(params[<<o.path[1]>>], o.path[2], o.value))
  BY <1>1, <1>4, WithinPut, PutIs
<1> QED BY <1>2, <1>3, <1>4, Applies

\* A path has a value: within the object that it leads into, or else as a key.
Holds(params, p, v) ==
  IF Len(p) = 2 /\ Leads(params, p)
  THEN p[2] \in DOMAIN params[<<p[1]>>] /\ params[<<p[1]>>][p[2]] = v
  ELSE p \in DOMAIN params /\ params[p] = v

\* What holds of a path holds where the path and its parent say the same.
LEMMA HoldsSame ==
  ASSUME NEW params, NEW next, NEW p, NEW v, Holds(params, p, v),
         <<p[1]>> \in DOMAIN next <=> <<p[1]>> \in DOMAIN params,
         <<p[1]>> \in DOMAIN params => next[<<p[1]>>] = params[<<p[1]>>],
         p \in DOMAIN params => p \in DOMAIN next /\ next[p] = params[p]
  PROVE  Holds(next, p, v)
<1>1. Leads(next, p) <=> Leads(params, p)
  BY DEF Leads
<1>2. CASE Len(p) = 2 /\ Leads(params, p)
  <2>1. <<p[1]>> \in DOMAIN params
    BY <1>2 DEF Leads
  <2> QED BY <1>1, <1>2, <2>1 DEF Holds
<1>3. CASE ~(Len(p) = 2 /\ Leads(params, p))
  BY <1>1, <1>3 DEF Holds
<1> QED BY <1>2, <1>3

\* It is what is read there.
LEMMA HoldsAt ==
  ASSUME NEW params, NEW p \in Path, NEW v, Holds(params, p, v)
  PROVE  At(params, p) = v
<1>1. Len(p) = 1 \/ Len(p) = 2
  BY PathCases
<1>2. CASE Len(p) = 1
  BY <1>2 DEF Holds, At
<1>3. CASE Len(p) = 2 /\ Leads(params, p)
  BY <1>3 DEF Holds, At, Leads
<1>4. CASE Len(p) = 2 /\ ~Leads(params, p)
  BY <1>4 DEF Holds, At, Leads
<1> QED BY <1>1, <1>2, <1>3, <1>4

\* A path keeps its value when another is set that does not overlap.
LEMMA HoldsStays ==
  ASSUME NEW way \in Ways, NEW params \in Params, NEW o \in Override, Apply(way, params, o.path, o.value) # Refused,
         NEW p \in Path, NEW v, ~Overlap(p, o.path), Holds(params, p, v)
  PROVE  Holds(Apply(way, params, o.path, o.value), p, v)
<1> DEFINE next == Apply(way, params, o.path, o.value)
           q == o.path
           above == <<p[1]>>
<1>1. /\ q \in Path /\ p # q /\ (Len(p) = 1 \/ Len(p) = 2) /\ (Len(q) = 1 \/ Len(q) = 2)
      /\ <<q[1]>> \in Path /\ above \in Path /\ Len(<<q[1]>>) = 1 /\ Len(above) = 1
  BY PathCases, ParentPath DEF Override, Overlap
<1>2. Len(q) = 1 => q[1] # p[1]
  BY <1>1 DEF Overlap, Under
<1>3. Len(p) = 1 => q[1] # p[1]
  BY <1>1 DEF Overlap, Under
<1>4. CASE next = params
  BY <1>4
<1>5. CASE next = Put(params, q, o.value)
  <2>1. q # above
    BY <1>1, <1>2, PathCases
  <2>2. /\ above \in DOMAIN next <=> above \in DOMAIN params
        /\ above \in DOMAIN params => next[above] = params[above]
        /\ p \in DOMAIN next <=> p \in DOMAIN params
        /\ p \in DOMAIN params => next[p] = params[p]
    BY <1>1, <1>5, <2>1, PutIs
  <2> HIDE DEF next
  <2>3. Holds(next, p, v)
    BY <2>2, HoldsSame
  <2> QED BY <2>3 DEF next
<1>6. CASE /\ Len(q) = 2 /\ Leads(params, q) /\ o.value \in Leaves
           /\ next = Put(params, <<q[1]>>, Put(params[<<q[1]>>], q[2], o.value))
  <2>1. CASE q[1] # p[1]
    <3>1. <<q[1]>> # above /\ <<q[1]>> # p
      BY <1>1, <2>1, PathCases
    <3>2. /\ above \in DOMAIN next <=> above \in DOMAIN params
          /\ above \in DOMAIN params => next[above] = params[above]
          /\ p \in DOMAIN next <=> p \in DOMAIN params
          /\ p \in DOMAIN params => next[p] = params[p]
      BY <1>1, <1>6, <3>1, PutIs
    <3> HIDE DEF next
    <3>3. Holds(next, p, v)
      BY <3>2, HoldsSame
    <3> QED BY <3>3 DEF next
  <2>2. CASE q[1] = p[1]
    <3>1. Len(p) = 2 /\ p[2] # q[2] /\ Leads(params, p)
      BY <1>1, <1>3, <1>6, <2>2, PathCases DEF Leads
    <3>2. /\ p[2] \in DOMAIN params[above] /\ params[above][p[2]] = v
      BY <3>1 DEF Holds
    <3>3. above \in DOMAIN next /\ next[above] = Put(params[above], q[2], o.value)
      BY <1>6, <2>2, PutIs
    <3>4. next[above] \in Mappings
      BY <1>1, <1>6, <2>2, <3>3, WithinPut
    <3>5. Leads(next, p)
      BY <3>3, <3>4, LeafAssumption DEF Leads
    <3>6. p[2] \in DOMAIN next[above] /\ next[above][p[2]] = v
      BY <3>1, <3>2, <3>3, PutIs
    <3> HIDE DEF next
    <3>7. Holds(next, p, v)
      BY <3>1, <3>5, <3>6 DEF Holds
    <3> QED BY <3>7 DEF next
  <2> QED BY <2>1, <2>2
<1> QED BY <1>4, <1>5, <1>6, Applies

\* A path has the value that is set at it.
LEMMA HoldsSet ==
  ASSUME NEW way \in {"dotted", "runtime"}, NEW params \in Params, NEW o \in Override,
         Apply(way, params, o.path, o.value) # Refused
  PROVE  Holds(Apply(way, params, o.path, o.value), o.path, o.value)
<1> DEFINE next == Apply(way, params, o.path, o.value)
           q == o.path
           above == <<q[1]>>
<1>1. /\ q \in Path /\ (Len(q) = 1 \/ Len(q) = 2) /\ above \in Path /\ Len(above) = 1
      /\ way \in Ways /\ way # "extend" /\ way \notin {"declared dotted", "declared flat"}
  BY PathCases, ParentPath DEF Override, Ways
<1>2. CASE next = Put(params, q, o.value) /\ (Len(q) = 2 => ~Leads(params, q))
  <2>1. q \in DOMAIN next /\ next[q] = o.value
    BY <1>2, PutIs
  <2>2. Len(q) = 2 => ~Leads(next, q)
    <3>1. Len(q) = 2 => q # above
      BY <1>1, LongPath
    <3>2. Len(q) = 2 => /\ above \in DOMAIN next <=> above \in DOMAIN params
                        /\ above \in DOMAIN params => next[above] = params[above]
      BY <1>2, <3>1, PutIs
    <3> HIDE DEF next
    <3> QED BY <1>2, <3>2 DEF Leads
  <2> HIDE DEF next
  <2>3. Holds(next, q, o.value)
    BY <2>1, <2>2 DEF Holds
  <2> QED BY <2>3 DEF next
<1>3. CASE /\ Len(q) = 2 /\ Leads(params, q) /\ o.value \in Leaves
           /\ next = Put(params, above, Put(params[above], q[2], o.value))
  <2>1. above \in DOMAIN next /\ next[above] = Put(params[above], q[2], o.value)
    BY <1>3, PutIs
  <2>2. next[above] \in Mappings
    BY <1>1, <1>3, <2>1, WithinPut
  <2>3. Leads(next, q)
    BY <2>1, <2>2, LeafAssumption DEF Leads
  <2>4. q[2] \in DOMAIN next[above] /\ next[above][q[2]] = o.value
    BY <2>1, PutIs
  <2> HIDE DEF next
  <2>5. Holds(next, q, o.value)
    BY <1>3, <2>3, <2>4 DEF Holds
  <2> QED BY <2>5 DEF next
<1> QED BY <1>1, <1>2, <1>3, Applies

\* A key with dots has a certain value, if it is there.
KeyIs(params, p, v) == p \in DOMAIN params => params[p] = v

\* The layers that set no key with dots.
Dotless == {"dotted", "declared dotted", "declared flat"}

\* An override leaves such a key, or gives it that value.
LEMMA ApplyKey ==
  ASSUME NEW way \in Ways, NEW params \in Params, NEW o \in Override, Apply(way, params, o.path, o.value) # Refused,
         NEW p \in Path, Len(p) = 2, NEW v, KeyIs(params, p, v),
         way \in Dotless \/ (o.path = p => o.value = v)
  PROVE  KeyIs(Apply(way, params, o.path, o.value), p, v)
<1> DEFINE q == o.path
           above == <<q[1]>>
           next == Apply(way, params, q, o.value)
<1>1. q \in Path /\ (Len(q) = 1 \/ Len(q) = 2) /\ above \in Path /\ Len(above) = 1 /\ p # above
  BY PathCases, ParentPath DEF Override
<1>2. CASE next = params
  BY <1>2
<1>3. CASE next = Put(params, q, o.value) /\ q # p
  BY <1>3, PutIs DEF KeyIs
<1>4. CASE next = Put(params, q, o.value) /\ q = p /\ o.value = v
  BY <1>4, PutIs DEF KeyIs
<1>5. CASE next = Put(params, above, Put(params[above], q[2], o.value))
  BY <1>1, <1>5, PutIs DEF KeyIs
<1>6. way \in Dotless /\ q = p => next = params \/ next = Put(params, above, Put(params[above], q[2], o.value))
  <2> SUFFICES ASSUME way \in Dotless, q = p
               PROVE  next = params \/ next = Put(params, above, Put(params[above], q[2], o.value))
    OBVIOUS
  <2>1. CASE way = "declared flat"
    <3>1. next = IF Len(q) = 1 THEN Put(params, q, o.value) ELSE params
      BY <2>1 DEF Apply
    <3>2. Len(q) # 1
      OBVIOUS
    <3> QED BY <3>1, <3>2
  <2>2. CASE way = "dotted"
    BY <2>2 DEF Apply, SetPath
  <2>3. CASE way = "declared dotted"
    BY <2>3 DEF Apply, SetPath
  <2> QED BY <2>1, <2>2, <2>3 DEF Dotless
<1>7. \/ next = params \/ next = Put(params, q, o.value)
      \/ next = Put(params, above, Put(params[above], q[2], o.value))
  BY Applies
<1>8. KeyIs(next, p, v)
  <2>1. CASE q # p
    BY <1>2, <1>3, <1>5, <1>7, <2>1
  <2>2. CASE q = p /\ way \in Dotless
    BY <1>2, <1>5, <1>6, <2>2
  <2>3. CASE q = p /\ o.value = v
    BY <1>2, <1>4, <1>5, <1>7, <2>3
  <2> QED BY <2>1, <2>2, <2>3
<1> QED BY <1>8

-----------------------------------------------------------------------------
(* The overrides of a layer, one after the other.                          *)

\* The overrides of a layer are applied one after the other.
InTurn(f, way, params, overrides) ==
  /\ f[0] = params
  /\ \A i \in 1..Len(overrides) :
       /\ f[i - 1] = Refused => f[i] = Refused
       /\ f[i - 1] # Refused => f[i] = Apply(way, f[i - 1], overrides[i].path, overrides[i].value)
  /\ Layer(way, params, overrides) = f[Len(overrides)]

\* There is the table of such steps.
LEMMA LayerSteps ==
  ASSUME NEW way \in Ways, NEW params \in Params \cup {Refused}, NEW overrides \in Seq(Override)
  PROVE  \E f : InTurn(f, way, params, overrides)
<1> DEFINE n == Len(overrides)
           V == Params \cup {Refused}
           next(x) == Apply(way, x[1], overrides[x[2]].path, overrides[x[2]].value)
           st == [x \in V \X (1..n) |-> IF x[1] = Refused THEN Refused ELSE next(x)]
           Table(f) == f = [s \in SUBSET DOMAIN overrides |->
             IF s = {} THEN params
             ELSE IF f[s \ {Max(s)}] = Refused THEN Refused
                  ELSE Apply(way, f[s \ {Max(s)}], overrides[Max(s)].path, overrides[Max(s)].value)]
           g == CHOOSE f : Table(f)
<1>1. n \in Nat /\ DOMAIN overrides = 1..n /\ \A i \in 1..n : overrides[i] \in Override
  OBVIOUS
<1>2. \A v \in V : \A i \in 1..n : st[<<v, i>>] \in V
  <2> SUFFICES ASSUME NEW v \in V, NEW i \in 1..n, v # Refused, v \in Params,
                      Apply(way, v, overrides[i].path, overrides[i].value) # Refused
               PROVE  Apply(way, v, overrides[i].path, overrides[i].value) \in Params
    OBVIOUS
  <2> QED BY <1>1, ApplyParams
<1>3. PICK h : Folded(h, n, params, st) /\ \A s \in SUBSET (1..n) : h[s] \in V
  <2>1. params \in V
    OBVIOUS
  <2> HIDE DEF st, n, V
  <2> QED BY <1>1, <1>2, <2>1, FoldTable
<1>4. Table(h)
  <2>1. ASSUME NEW s \in SUBSET (1..n), s # {}
        PROVE  /\ h[s \ {Max(s)}] \in V /\ Max(s) \in 1..n
    BY <1>1, <1>3, <2>1, Greatest
  <2>2. ASSUME NEW s \in SUBSET (1..n), s # {}
        PROVE  st[<<h[s \ {Max(s)}], Max(s)>>]
                 = IF h[s \ {Max(s)}] = Refused THEN Refused
                   ELSE Apply(way, h[s \ {Max(s)}], overrides[Max(s)].path, overrides[Max(s)].value)
    BY <2>1, <2>2
  <2> HIDE DEF st
  <2> QED BY <1>1, <1>3, <2>2 DEF Folded
<1>5. Table(g)
  BY <1>4
<1>6. Layer(way, params, overrides) = g[1..n]
  <2>1. Layer(way, params, overrides) = g[DOMAIN overrides]
    BY DEF Layer, FoldLeft, MapThenFoldSet
  <2> QED BY <1>1, <2>1
<1> HIDE DEF g
<1>7. g[1..0] = params
  <2>1. 1..0 = {} /\ {} \in SUBSET (1..n)
    OBVIOUS
  <2> QED BY <1>1, <1>5, <2>1
<1>8. ASSUME NEW i \in 1..n
      PROVE  g[1..i] = IF g[1..(i - 1)] = Refused THEN Refused
                       ELSE Apply(way, g[1..(i - 1)], overrides[i].path, overrides[i].value)
  <2>1. /\ 1..i \in SUBSET (DOMAIN overrides) /\ 1..i # {}
        /\ Max(1..i) = i /\ (1..i) \ {Max(1..i)} = 1..(i - 1)
    BY <1>1, Prefix
  <2> QED BY <1>5, <2>1
<1> DEFINE f == [i \in 0..n |-> g[1..i]]
<1>9. /\ f[0] = params /\ Layer(way, params, overrides) = f[n]
      /\ \A i \in 1..n : f[i] = g[1..i] /\ f[i - 1] = g[1..(i - 1)]
  BY <1>1, <1>6, <1>7
<1> HIDE DEF f
<1>10. InTurn(f, way, params, overrides)
  BY <1>8, <1>9 DEF InTurn
<1> QED BY <1>10

\* A layer that is not refused has parameters after each of its overrides.
Layered(f, way, params, overrides) ==
  /\ f[0] = params /\ Layer(way, params, overrides) = f[Len(overrides)]
  /\ \A i \in 0..Len(overrides) : f[i] \in Params /\ f[i] # Refused
  /\ \A i \in 1..Len(overrides) : f[i] = Apply(way, f[i - 1], overrides[i].path, overrides[i].value)

\* Then every step of the layer was made.
LEMMA LayerTable ==
  ASSUME NEW way \in Ways, NEW params \in Params \cup {Refused}, NEW overrides \in Seq(Override),
         Layer(way, params, overrides) # Refused
  PROVE  params \in Params /\ params # Refused /\ \E f : Layered(f, way, params, overrides)
<1> DEFINE n == Len(overrides)
<1>1. n \in Nat /\ \A i \in 1..n : overrides[i] \in Override
  OBVIOUS
<1>2. PICK f : InTurn(f, way, params, overrides)
  BY LayerSteps
<1> HIDE DEF n
<1>3. \A i \in 0..n : f[i] # Refused
  <2> DEFINE T == {i \in 0..n : f[n - i] # Refused}
  <2>1. 0 \in T
    BY <1>1, <1>2 DEF InTurn, n
  <2>2. ASSUME NEW i \in 1..n, i - 1 \in T PROVE i \in T
    <3>1. n - i + 1 \in 1..n /\ n - (i - 1) = n - i + 1 /\ n - i = (n - i + 1) - 1 /\ i \in 0..n
      BY <1>1
    <3>2. f[n - i + 1] # Refused
      BY <2>2, <3>1
    <3>3. f[(n - i + 1) - 1] # Refused
      BY <1>2, <3>1, <3>2 DEF InTurn, n
    <3> QED BY <3>1, <3>3
  <2>3. \A i \in 0..n : i \in T
    <3> HIDE DEF T
    <3> QED BY <1>1, <2>1, <2>2, UpTo
  <2> SUFFICES ASSUME NEW i \in 0..n PROVE f[i] # Refused
    OBVIOUS
  <2>4. n - i \in 0..n /\ n - (n - i) = i
    BY <1>1
  <2> QED BY <2>3, <2>4
<1>4. params \in Params /\ params # Refused
  BY <1>1, <1>2, <1>3 DEF InTurn
<1>5. \A i \in 1..n : f[i] = Apply(way, f[i - 1], overrides[i].path, overrides[i].value)
  BY <1>1, <1>2, <1>3 DEF InTurn, n
<1>6. \A i \in 0..n : f[i] \in Params
  <2> DEFINE T == {i \in 0..n : f[i] \in Params}
  <2>1. 0 \in T
    BY <1>1, <1>2, <1>4 DEF InTurn
  <2>2. ASSUME NEW i \in 1..n, i - 1 \in T PROVE i \in T
    <3>1. f[i - 1] \in Params /\ overrides[i] \in Override /\ i \in 0..n
      BY <1>1, <2>2
    <3>2. Apply(way, f[i - 1], overrides[i].path, overrides[i].value) # Refused
      BY <1>3, <1>5, <3>1
    <3>3. Apply(way, f[i - 1], overrides[i].path, overrides[i].value) \in Params
      BY <3>1, <3>2, ApplyParams
    <3> QED BY <1>5, <3>1, <3>3
  <2>3. \A i \in 0..n : i \in T
    <3> HIDE DEF T
    <3> QED BY <1>1, <2>1, <2>2, UpTo
  <2> QED BY <2>3
<1>7. Layered(f, way, params, overrides)
  BY <1>2, <1>3, <1>5, <1>6 DEF Layered, InTurn, n
<1> QED BY <1>4, <1>7

\* What holds of the parameters before, and through each override, holds after a layer.
LEMMA LayerInduction ==
  ASSUME NEW way, NEW params, NEW overrides \in Seq(Override), NEW f, Layered(f, way, params, overrides),
         NEW T, params \in T,
         \A i \in 1..Len(overrides) : f[i - 1] \in T => f[i] \in T
  PROVE  Layer(way, params, overrides) \in T
<1> DEFINE n == Len(overrides)
           S == {i \in 0..n : f[i] \in T}
<1>1. n \in Nat
  OBVIOUS
<1>2. 0 \in S
  BY <1>1 DEF Layered
<1>3. \A i \in 1..n : i - 1 \in S => i \in S
  BY <1>1
<1>4. \A i \in 0..n : i \in S
  <2> HIDE DEF S, n
  <2> QED BY <1>1, <1>2, <1>3, UpTo
<1> QED BY <1>1, <1>4 DEF Layered

\* A layer gives parameters, of all the paths there were.
LEMMA LayerParams ==
  ASSUME NEW way \in Ways, NEW params \in Params \cup {Refused}, NEW overrides \in Seq(Override),
         Layer(way, params, overrides) # Refused
  PROVE  /\ params \in Params /\ Layer(way, params, overrides) \in Params
         /\ DOMAIN params \subseteq DOMAIN Layer(way, params, overrides)
<1>1. params \in Params
  BY LayerTable
<1>2. PICK f : Layered(f, way, params, overrides)
  BY LayerTable
<1> DEFINE T == {p \in Params : DOMAIN params \subseteq DOMAIN p}
<1>3. params \in T
  BY <1>1
<1>4. ASSUME NEW i \in 1..Len(overrides), f[i - 1] \in T PROVE f[i] \in T
  <2>1. /\ overrides[i] \in Override /\ i \in 0..Len(overrides)
        /\ f[i] = Apply(way, f[i - 1], overrides[i].path, overrides[i].value) /\ f[i] # Refused
    BY <1>2 DEF Layered
  <2>2. f[i] \in Params /\ DOMAIN f[i - 1] \subseteq DOMAIN f[i]
    BY <1>4, <2>1, ApplyParams
  <2> QED BY <1>4, <2>2
<1>5. Layer(way, params, overrides) \in T
  <2> HIDE DEF T
  <2> QED BY <1>2, <1>3, <1>4, LayerInduction
<1> QED BY <1>1, <1>5

\* A path keeps its value through a layer that sets none that overlaps it.
LEMMA LayerKeeps ==
  ASSUME NEW way \in Ways, NEW params \in Params, NEW overrides \in Seq(Override),
         Layer(way, params, overrides) # Refused,
         NEW p \in Path, NEW v, Holds(params, p, v),
         \A i \in 1..Len(overrides) : ~Overlap(p, overrides[i].path)
  PROVE  Holds(Layer(way, params, overrides), p, v)
<1>1. PICK f : Layered(f, way, params, overrides)
  BY LayerTable
<1> DEFINE T == {q \in Params : Holds(q, p, v)}
<1>2. params \in T
  OBVIOUS
<1>3. ASSUME NEW i \in 1..Len(overrides), f[i - 1] \in T PROVE f[i] \in T
  <2>1. /\ overrides[i] \in Override /\ i \in 0..Len(overrides) /\ f[i] \in Params
        /\ f[i] = Apply(way, f[i - 1], overrides[i].path, overrides[i].value) /\ f[i] # Refused
    BY <1>1 DEF Layered
  <2>2. Holds(f[i], p, v)
    BY <1>3, <2>1, HoldsStays
  <2> QED BY <2>1, <2>2
<1>4. Layer(way, params, overrides) \in T
  <2> HIDE DEF T
  <2> QED BY <1>1, <1>2, <1>3, LayerInduction
<1> QED BY <1>4

\* A layer leaves a key with dots, or gives it that value.
LEMMA LayerKey ==
  ASSUME NEW way \in Ways, NEW params \in Params, NEW overrides \in Seq(Override),
         Layer(way, params, overrides) # Refused,
         NEW p \in Path, Len(p) = 2, NEW v, KeyIs(params, p, v),
         way \in Dotless \/ \A i \in 1..Len(overrides) : overrides[i].path = p => overrides[i].value = v
  PROVE  KeyIs(Layer(way, params, overrides), p, v)
<1>1. PICK f : Layered(f, way, params, overrides)
  BY LayerTable
<1> DEFINE T == {q \in Params : KeyIs(q, p, v)}
<1>2. params \in T
  OBVIOUS
<1>3. ASSUME NEW i \in 1..Len(overrides), f[i - 1] \in T PROVE f[i] \in T
  <2>1. /\ overrides[i] \in Override /\ i \in 0..Len(overrides) /\ f[i] \in Params
        /\ f[i] = Apply(way, f[i - 1], overrides[i].path, overrides[i].value) /\ f[i] # Refused
    BY <1>1 DEF Layered
  <2>2. KeyIs(f[i], p, v)
    BY <1>3, <2>1, ApplyKey
  <2> QED BY <2>1, <2>2
<1>4. Layer(way, params, overrides) \in T
  <2> HIDE DEF T
  <2> QED BY <1>1, <1>2, <1>3, LayerInduction
<1> QED BY <1>4

\* A path that a row sets, and that nothing else in the row overlaps, has a value of the row
\* after it.
LEMMA RowSets ==
  ASSUME NEW params \in Params, NEW row \in Seq(Override), Layer("dotted", params, row) # Refused,
         NEW p \in Path, NEW V,
         \A i \in 1..Len(row) : Overlap(p, row[i].path) => row[i].path = p /\ row[i].value \in V,
         (\E i \in 1..Len(row) : row[i].path = p) \/ (\E v \in V : Holds(params, p, v))
  PROVE  \E v \in V : Holds(Layer("dotted", params, row), p, v)
<1> DEFINE n == Len(row)
           Has(q) == \E v \in V : Holds(q, p, v)
<1>1. n \in Nat /\ "dotted" \in Ways /\ \A i \in 1..n : row[i] \in Override
  BY DEF Ways
<1>2. PICK f : Layered(f, "dotted", params, row)
  BY <1>1, LayerTable
<1>3. \A i \in 1..n : /\ f[i - 1] \in Params /\ f[i] # Refused
                      /\ f[i] = Apply("dotted", f[i - 1], row[i].path, row[i].value)
  BY <1>1, <1>2 DEF Layered
<1>4. ASSUME NEW i \in 1..n, row[i].path = p PROVE Has(f[i])
  <2>1. Holds(f[i], row[i].path, row[i].value)
    BY <1>1, <1>3, HoldsSet
  <2>2. row[i].value \in V
    BY <1>4 DEF Overlap
  <2> QED BY <1>4, <2>1, <2>2
<1>5. ASSUME NEW i \in 1..n, Has(f[i - 1]) PROVE Has(f[i])
  <2>1. CASE row[i].path = p
    BY <1>4, <2>1
  <2>2. CASE row[i].path # p
    <3>1. ~Overlap(p, row[i].path)
      BY <2>2
    <3>2. PICK v \in V : Holds(f[i - 1], p, v)
      BY <1>5
    <3>3. Holds(f[i], p, v)
      BY <1>1, <1>3, <3>1, <3>2, HoldsStays
    <3> QED BY <3>3
  <2> QED BY <2>1, <2>2
<1> DEFINE S == {i \in 0..n : (\E j \in 1..i : row[j].path = p) \/ Has(params) => Has(f[i])}
<1>6. 0 \in S
  <2>1. f[0] = params /\ 1..0 = {}
    BY <1>2 DEF Layered
  <2> QED BY <1>1, <2>1
<1>7. ASSUME NEW i \in 1..n, i - 1 \in S PROVE i \in S
  <2>1. 1..i = (1..(i - 1)) \cup {i} /\ i \in 0..n
    BY <1>1
  <2> HIDE DEF Has
  <2> QED BY <1>4, <1>5, <1>7, <2>1
<1>8. n \in S
  <2>1. \A i \in 0..n : i \in S
    <3> HIDE DEF S, n
    <3> QED BY <1>1, <1>6, <1>7, UpTo
  <2> QED BY <1>1, <2>1
<1> QED BY <1>2, <1>8 DEF Layered

\* What the command line sets is there after it, unless a longer path of it sets a part of that.
LEMMA LastWins ==
  ASSUME NEW params \in Params, NEW explicit \in Seq(Override), Ordered(explicit),
         Layer("runtime", params, explicit) # Refused,
         NEW j \in 1..Len(explicit),
         \A i \in 1..Len(explicit) : ~Under(explicit[i].path, explicit[j].path)
  PROVE  Holds(Layer("runtime", params, explicit), explicit[j].path, explicit[j].value)
<1> DEFINE n == Len(explicit)
           p == explicit[j].path
           v == explicit[j].value
<1>1. n \in Nat /\ "runtime" \in Ways /\ DOMAIN explicit = 1..n /\ \A i \in 1..n : explicit[i] \in Override
  BY DEF Ways
<1>2. PICK f : Layered(f, "runtime", params, explicit)
  BY <1>1, LayerTable
<1>3. \A i \in 1..n : /\ f[i - 1] \in Params /\ f[i] # Refused
                      /\ f[i] = Apply("runtime", f[i - 1], explicit[i].path, explicit[i].value)
  BY <1>1, <1>2 DEF Layered
<1>4. Holds(f[j], p, v)
  BY <1>1, <1>3, HoldsSet
<1>5. ASSUME NEW i \in 1..n, i > j, Holds(f[i - 1], p, v) PROVE Holds(f[i], p, v)
  <2>1. ~Overlap(p, explicit[i].path)
    BY <1>1, <1>5 DEF Ordered, Overlap, Under
  <2>2. p \in Path
    BY <1>1 DEF Override
  <2> QED BY <1>1, <1>3, <1>5, <2>1, <2>2, HoldsStays
<1> DEFINE S == {i \in 0..n : i >= j => Holds(f[i], p, v)}
<1>6. 0 \in S
  BY <1>1
<1>7. ASSUME NEW i \in 1..n, i - 1 \in S PROVE i \in S
  <2>1. CASE i = j
    BY <1>4, <2>1
  <2>2. CASE i > j
    BY <1>5, <1>7, <2>2
  <2>3. CASE i < j
    BY <2>3
  <2> QED BY <2>1, <2>2, <2>3
<1>8. n \in S
  <2>1. \A i \in 0..n : i \in S
    <3> HIDE DEF S, n
    <3> QED BY <1>1, <1>6, <1>7, UpTo
  <2> QED BY <1>1, <2>1
<1> QED BY <1>1, <1>2, <1>8 DEF Layered

-----------------------------------------------------------------------------
(* The layers of a cell.                                                   *)

\* A layer gives parameters or is refused.
LEMMA LayerTotal ==
  ASSUME NEW way \in Ways, NEW params \in Params \cup {Refused}, NEW overrides \in Overrides
  PROVE  Layer(way, params, overrides) \in Params \cup {Refused}
BY LayerParams DEF Overrides

\* No parameters are parameters.
LEMMA EmptyParams == <<>> \in Params
<1>1. <<>> \in [{} -> Leaves \cup Mappings] /\ {} \in SUBSET Path
  OBVIOUS
<1> QED BY <1>1 DEF Params

\* The ways of the layers.
LEMMA AllWays == /\ "dotted" \in Ways /\ "extend" \in Ways /\ "declared dotted" \in Ways
                 /\ "declared flat" \in Ways /\ "runtime" \in Ways
BY DEF Ways

\* The overrides between a row and the command line.
Qualified(r) == IF Full(r) THEN <<>> ELSE Qualification(r).params

\* A study that was decoded.
Decodes(r) == WrittenStudy(r) /\ ParsedStudy(r)

\* What a study that was decoded has.
LEMMA DecodedParts ==
  ASSUME NEW r, Decodes(r)
  PROVE  /\ r.defaults \in Overrides /\ r.explicit \in Overrides /\ Ordered(r.explicit)
         /\ r.params \in Overrides /\ Qualified(r) \in Overrides
         /\ r.axes \in Seq(DesignAxis)
         /\ Listed(r.variants) /\ \A v \in ToSet(r.variants) : v.params \in Overrides
         /\ Listed(r.seeds) /\ Listed(r.lab)
         /\ Listed(r.conditions) /\ \A c \in ToSet(r.conditions) : c.params \in Overrides
<1>1. Malformed \notin {r.qualification, r.params, r.axes, r.variants, r.conditions, r.seeds}
  BY DEF Decodes, ParsedStudy
<1>2. WrittenStudy(r)
  BY DEF Decodes
<1>3. <<>> \in Overrides
  BY DEF Overrides
<1>4. Qualification(r).params \in Overrides
  <2>1. CASE r.qualification = NoQualification
    <3>1. Qualification(r).params = <<>>
      BY <2>1 DEF Qualification
    <3> QED BY <1>3, <3>1
  <2>2. CASE r.qualification # NoQualification
    BY <1>1, <1>2, <2>2 DEF Qualification, WrittenStudy
  <2> QED BY <2>1, <2>2
<1>5. Qualified(r) \in Overrides
  BY <1>3, <1>4 DEF Qualified
<1> QED BY <1>1, <1>2, <1>5 DEF WrittenStudy

\* The parameters of a cell, layer by layer.
OnMatrix(r, e, c, m) == ApplyDotted(BaseParams(r, e, c), m)
OnAxes(r, e, c, m, x) == ApplyDotted(OnMatrix(r, e, c, m), x)
Varied(r, e, c, m, x, v) == ApplyDeclared(OnAxes(r, e, c, m, x), v.params)
Tested(r, e, c, m, x, v) == ApplyRuntime(Varied(r, e, c, m, x, v), Qualified(r))

\* A layer of declared overrides is two.
LEMMA DeclaredTotal ==
  ASSUME NEW params \in Params \cup {Refused}, NEW overrides \in Overrides
  PROVE  /\ ApplyDeclared(params, overrides) \in Params \cup {Refused}
         /\ ApplyDeclared(params, overrides) # Refused =>
              /\ params \in Params
              /\ Layer("declared dotted", params, overrides) # Refused
              /\ Layer("declared dotted", params, overrides) \in Params
              /\ DOMAIN params \subseteq DOMAIN ApplyDeclared(params, overrides)
<1> DEFINE half == Layer("declared dotted", params, overrides)
           whole == Layer("declared flat", half, overrides)
<1>1. half \in Params \cup {Refused}
  BY LayerTotal, AllWays
<1>2. whole \in Params \cup {Refused} /\ whole = ApplyDeclared(params, overrides)
  <2>1. whole \in Params \cup {Refused}
    <3> HIDE DEF half
    <3> QED BY <1>1, LayerTotal, AllWays
  <2> QED BY <2>1 DEF ApplyDeclared
<1>3. ASSUME whole # Refused
      PROVE  half # Refused /\ half \in Params /\ DOMAIN half \subseteq DOMAIN whole
  <2>1. overrides \in Seq(Override)
    BY DEF Overrides
  <2> HIDE DEF half
  <2>2. half \in Params /\ half # Refused
    BY <1>1, <1>3, <2>1, LayerTable, AllWays
  <2>3. DOMAIN half \subseteq DOMAIN whole
    BY <1>1, <1>3, <2>1, LayerParams, AllWays
  <2> QED BY <2>2, <2>3
<1>4. ASSUME half # Refused
      PROVE  params \in Params /\ DOMAIN params \subseteq DOMAIN half
  <2>1. overrides \in Seq(Override)
    BY DEF Overrides
  <2> QED BY <1>4, <2>1, LayerParams, AllWays
<1> HIDE DEF half, whole
<1>5. whole # Refused => /\ params \in Params /\ half # Refused /\ half \in Params
                         /\ DOMAIN params \subseteq DOMAIN whole
  BY <1>3, <1>4
<1> QED BY <1>2, <1>5 DEF half

\* What keeps the value of a path through a layer of declared overrides.
LEMMA DeclaredKeeps ==
  ASSUME NEW params \in Params, NEW overrides \in Overrides, ApplyDeclared(params, overrides) # Refused,
         NEW p \in Path, NEW v, Holds(params, p, v),
         \A i \in 1..Len(overrides) : ~Overlap(p, overrides[i].path)
  PROVE  Holds(ApplyDeclared(params, overrides), p, v)
<1> DEFINE half == Layer("declared dotted", params, overrides)
<1>1. half # Refused /\ half \in Params /\ overrides \in Seq(Override)
  BY DeclaredTotal DEF Overrides
<1>2. Holds(half, p, v)
  BY <1>1, LayerKeeps, AllWays
<1>3. Layer("declared flat", half, overrides) # Refused
  BY DEF ApplyDeclared
<1>4. Holds(Layer("declared flat", half, overrides), p, v)
  <2> HIDE DEF half
  <2> QED BY <1>1, <1>2, <1>3, LayerKeeps, AllWays
<1> QED BY <1>4 DEF ApplyDeclared

\* What is declared gives parameters, with the paths of the defaults, or is refused.
LEMMA BaseTotal ==
  ASSUME NEW r, Decodes(r), NEW e, e.params \in Overrides, NEW c, c.params \in Overrides
  PROVE  /\ BaseParams(r, e, c) \in Params \cup {Refused}
         /\ BaseParams(r, e, c) # Refused =>
              /\ BaseParams(r, e, c) \in Params
              /\ DOMAIN ExtendParams(<<>>, r.defaults) \subseteq DOMAIN BaseParams(r, e, c)
<1> DEFINE p1 == Layer("extend", <<>>, r.defaults)
           p2 == Layer("extend", p1, e.params)
           p3 == Layer("extend", p2, r.params)
           p4 == ApplyDeclared(p3, c.params)
<1>1. /\ r.defaults \in Overrides /\ r.params \in Overrides
      /\ \A s : s \in Overrides => s \in Seq(Override)
  BY DecodedParts DEF Overrides
<1>2. p1 \in Params \cup {Refused}
  BY <1>1, EmptyParams, LayerTotal, AllWays
<1>3. p2 \in Params \cup {Refused}
  <2> HIDE DEF p1
  <2> QED BY <1>2, LayerTotal, AllWays
<1>4. p3 \in Params \cup {Refused}
  <2> HIDE DEF p2
  <2> QED BY <1>1, <1>3, LayerTotal, AllWays
<1>5. p4 \in Params \cup {Refused}
  <2> HIDE DEF p3
  <2> QED BY <1>4, DeclaredTotal
<1>6. p4 # Refused => p3 \in Params /\ p3 # Refused /\ DOMAIN p3 \subseteq DOMAIN p4
  <2> HIDE DEF p3
  <2>1. p4 # Refused => p3 \in Params /\ DOMAIN p3 \subseteq DOMAIN p4 /\ Layer("declared dotted", p3, c.params) # Refused
    BY <1>4, DeclaredTotal
  <2>2. Layer("declared dotted", p3, c.params) # Refused => p3 # Refused
    BY <1>1, <1>4, LayerTable, AllWays
  <2> QED BY <2>1, <2>2
<1>7. p3 # Refused => p2 # Refused /\ DOMAIN p2 \subseteq DOMAIN p3
  <2> HIDE DEF p2
  <2> QED BY <1>1, <1>3, LayerTable, LayerParams, AllWays
<1>8. p2 # Refused => p1 # Refused /\ DOMAIN p1 \subseteq DOMAIN p2
  <2> HIDE DEF p1
  <2> QED BY <1>1, <1>2, LayerTable, LayerParams, AllWays
<1>9. BaseParams(r, e, c) = p4 /\ ExtendParams(<<>>, r.defaults) = p1
  BY DEF BaseParams, ExtendParams
<1> HIDE DEF p1, p2, p3, p4
<1> QED BY <1>5, <1>6, <1>7, <1>8, <1>9

\* No layer of a cell that is planned was refused.
LEMMA CellLayers ==
  ASSUME NEW r, Decodes(r), NEW e, e.params \in Overrides, NEW c, c.params \in Overrides,
         NEW m \in Overrides, NEW x \in Overrides, NEW v, v.params \in Overrides,
         CellParams(r, e, c, <<<<m, x>>, v>>) # Refused
  PROVE  /\ CellParams(r, e, c, <<<<m, x>>, v>>) = Layer("runtime", Tested(r, e, c, m, x, v), r.explicit)
         /\ CellParams(r, e, c, <<<<m, x>>, v>>) \in Params
         /\ DOMAIN ExtendParams(<<>>, r.defaults) \subseteq DOMAIN CellParams(r, e, c, <<<<m, x>>, v>>)
         /\ Tested(r, e, c, m, x, v) \in Params /\ Tested(r, e, c, m, x, v) # Refused
         /\ Varied(r, e, c, m, x, v) \in Params /\ Varied(r, e, c, m, x, v) # Refused
         /\ OnAxes(r, e, c, m, x) \in Params /\ OnAxes(r, e, c, m, x) # Refused
         /\ OnMatrix(r, e, c, m) \in Params /\ OnMatrix(r, e, c, m) # Refused
         /\ BaseParams(r, e, c) \in Params
<1> DEFINE p0 == BaseParams(r, e, c)
           p1 == OnMatrix(r, e, c, m)
           p2 == OnAxes(r, e, c, m, x)
           p3 == Varied(r, e, c, m, x, v)
           p4 == Tested(r, e, c, m, x, v)
           p5 == CellParams(r, e, c, <<<<m, x>>, v>>)
           d == DOMAIN ExtendParams(<<>>, r.defaults)
<1>1. /\ r.explicit \in Overrides /\ Qualified(r) \in Overrides
      /\ \A s : s \in Overrides => s \in Seq(Override)
  BY DecodedParts DEF Overrides
<1>2. /\ p1 = Layer("dotted", p0, m) /\ p2 = Layer("dotted", p1, x) /\ p3 = ApplyDeclared(p2, v.params)
      /\ p4 = Layer("runtime", p3, Qualified(r)) /\ p5 = Layer("runtime", p4, r.explicit)
  BY DEF OnMatrix, OnAxes, Varied, Tested, CellParams, RuntimeParams, ApplyDotted, ApplyRuntime, Qualified
<1>3. p0 \in Params \cup {Refused} /\ (p0 # Refused => d \subseteq DOMAIN p0)
  BY BaseTotal
<1>4. p5 # Refused
  OBVIOUS
<1> HIDE DEF p0, p1, p2, p3, p4, p5, d
<1>5. /\ p1 \in Params \cup {Refused} /\ p2 \in Params \cup {Refused} /\ p3 \in Params \cup {Refused}
      /\ p4 \in Params \cup {Refused} /\ p5 \in Params \cup {Refused}
  <2>1. p1 \in Params \cup {Refused}
    BY <1>2, <1>3, LayerTotal, AllWays
  <2>2. p2 \in Params \cup {Refused}
    BY <1>2, <2>1, LayerTotal, AllWays
  <2>3. p3 \in Params \cup {Refused}
    BY <1>2, <2>2, DeclaredTotal
  <2>4. p4 \in Params \cup {Refused}
    BY <1>1, <1>2, <2>3, LayerTotal, AllWays
  <2>5. p5 \in Params \cup {Refused}
    BY <1>1, <1>2, <2>4, LayerTotal, AllWays
  <2> QED BY <2>1, <2>2, <2>3, <2>4, <2>5
<1>6. /\ p4 \in Params /\ p4 # Refused /\ p5 \in Params /\ DOMAIN p4 \subseteq DOMAIN p5
  <2>1. Layer("runtime", p4, r.explicit) # Refused
    BY <1>2, <1>4
  <2> QED BY <1>1, <1>2, <1>5, <2>1, LayerTable, LayerParams, AllWays
<1>7. /\ p3 \in Params /\ p3 # Refused /\ DOMAIN p3 \subseteq DOMAIN p4
  BY <1>1, <1>2, <1>5, <1>6, LayerTable, LayerParams, AllWays
<1>8. /\ p2 \in Params /\ p2 # Refused /\ DOMAIN p2 \subseteq DOMAIN p3
  <2>1. /\ p2 \in Params /\ DOMAIN p2 \subseteq DOMAIN p3
        /\ Layer("declared dotted", p2, v.params) # Refused
    BY <1>2, <1>5, <1>7, DeclaredTotal
  <2> QED BY <1>1, <1>5, <2>1, LayerTable, AllWays
<1>9. /\ p1 \in Params /\ p1 # Refused /\ DOMAIN p1 \subseteq DOMAIN p2
  BY <1>1, <1>2, <1>5, <1>8, LayerTable, LayerParams, AllWays
<1>10. /\ p0 \in Params /\ p0 # Refused /\ DOMAIN p0 \subseteq DOMAIN p1
  BY <1>1, <1>2, <1>3, <1>9, LayerTable, LayerParams, AllWays
<1>11. d \subseteq DOMAIN p5
  BY <1>3, <1>6, <1>7, <1>8, <1>9, <1>10
<1> QED BY <1>2, <1>6, <1>7, <1>8, <1>9, <1>10, <1>11 DEF p0, p1, p2, p3, p4, p5, d

\* What overlaps p in a row is p itself, with a value of V.
Chooses(row, p, V) == \A i \in 1..Len(row) : Overlap(p, row[i].path) => row[i].path = p /\ row[i].value \in V

SetsIn(row, p) == \E i \in 1..Len(row) : row[i].path = p

Spares(overrides, p) == \A i \in 1..Len(overrides) : ~Overlap(p, overrides[i].path)

\* A cell gives a path one of the values that its rows set there, if nothing else says anything
\* about that path.
LEMMA CellChooses ==
  ASSUME NEW r, Decodes(r), NEW e, e.params \in Overrides, NEW c, c.params \in Overrides,
         NEW m \in Overrides, NEW x \in Overrides, NEW v, v.params \in Overrides,
         CellParams(r, e, c, <<<<m, x>>, v>>) # Refused,
         NEW p \in Path, NEW V,
         Chooses(m, p, V), Chooses(x, p, V), SetsIn(m, p) \/ SetsIn(x, p),
         Spares(v.params, p), Spares(Qualified(r), p), Spares(r.explicit, p)
  PROVE  At(CellParams(r, e, c, <<<<m, x>>, v>>), p) \in V
<1> DEFINE p0 == BaseParams(r, e, c)
           p1 == OnMatrix(r, e, c, m)
           p2 == OnAxes(r, e, c, m, x)
           p3 == Varied(r, e, c, m, x, v)
           p4 == Tested(r, e, c, m, x, v)
           p5 == CellParams(r, e, c, <<<<m, x>>, v>>)
<1>1. /\ p0 \in Params /\ p1 \in Params /\ p2 \in Params /\ p3 \in Params /\ p4 \in Params
      /\ p1 # Refused /\ p2 # Refused /\ p3 # Refused /\ p4 # Refused /\ p5 # Refused
  BY CellLayers
<1>2. /\ p1 = Layer("dotted", p0, m) /\ p2 = Layer("dotted", p1, x) /\ p3 = ApplyDeclared(p2, v.params)
      /\ p4 = Layer("runtime", p3, Qualified(r)) /\ p5 = Layer("runtime", p4, r.explicit)
  BY DEF OnMatrix, OnAxes, Varied, Tested, CellParams, RuntimeParams, ApplyDotted, ApplyRuntime, Qualified
<1>3. /\ m \in Seq(Override) /\ x \in Seq(Override) /\ r.explicit \in Seq(Override) /\ Qualified(r) \in Seq(Override)
  BY DecodedParts DEF Overrides
<1> HIDE DEF p0, p1, p2, p3, p4, p5
<1>4. SetsIn(m, p) => \E w \in V : Holds(p1, p, w)
  BY <1>1, <1>2, <1>3, RowSets DEF Chooses, SetsIn
<1>5. \E w \in V : Holds(p2, p, w)
  BY <1>1, <1>2, <1>3, <1>4, RowSets DEF Chooses, SetsIn
<1>6. PICK w \in V : Holds(p2, p, w)
  BY <1>5
<1>7. Holds(p3, p, w)
  BY <1>1, <1>2, <1>6, DeclaredKeeps DEF Spares
<1>8. Holds(p4, p, w)
  BY <1>1, <1>2, <1>3, <1>7, LayerKeeps, AllWays DEF Spares
<1>9. Holds(p5, p, w)
  BY <1>1, <1>2, <1>3, <1>8, LayerKeeps, AllWays DEF Spares
<1>10. At(p5, p) = w
  BY <1>9, HoldsAt
<1> QED BY <1>10 DEF p5

\* A cell has what the command line sets.
LEMMA CellExplicit ==
  ASSUME NEW r, Decodes(r), NEW e, e.params \in Overrides, NEW c, c.params \in Overrides,
         NEW m \in Overrides, NEW x \in Overrides, NEW v, v.params \in Overrides,
         CellParams(r, e, c, <<<<m, x>>, v>>) # Refused,
         NEW o \in ToSet(r.explicit), \A longer \in ToSet(r.explicit) : ~Under(longer.path, o.path)
  PROVE  Holds(CellParams(r, e, c, <<<<m, x>>, v>>), o.path, o.value)
<1> DEFINE p4 == Tested(r, e, c, m, x, v)
           p5 == CellParams(r, e, c, <<<<m, x>>, v>>)
<1>1. p4 \in Params /\ p5 # Refused /\ p5 = Layer("runtime", p4, r.explicit)
  BY CellLayers
<1>2. r.explicit \in Seq(Override) /\ Ordered(r.explicit)
  BY DecodedParts DEF Overrides
<1>3. PICK j \in 1..Len(r.explicit) : o = r.explicit[j]
  BY <1>2 DEF ToSet
<1>4. \A i \in 1..Len(r.explicit) : ~Under(r.explicit[i].path, r.explicit[j].path)
  BY <1>2, <1>3 DEF ToSet
<1> HIDE DEF p4
<1>5. Holds(Layer("runtime", p4, r.explicit), r.explicit[j].path, r.explicit[j].value)
  BY <1>1, <1>2, <1>4, LastWins
<1> QED BY <1>1, <1>3, <1>5 DEF p4

\* Overrides that do not name a path.
Omits(overrides, p) == \A i \in 1..Len(overrides) : overrides[i].path # p

\* A layer of overrides that do not name a key, or that set no key with dots, leaves it.
LEMMA LeavesKey ==
  ASSUME NEW way \in Ways, NEW params \in Params, NEW overrides \in Overrides,
         Layer(way, params, overrides) # Refused,
         NEW p \in Path, Len(p) = 2, NEW v, KeyIs(params, p, v), way \in Dotless \/ Omits(overrides, p)
  PROVE  KeyIs(Layer(way, params, overrides), p, v)
BY LayerKey DEF Omits, Overrides

\* So do the declared overrides.
LEMMA DeclaredKey ==
  ASSUME NEW params \in Params, NEW overrides \in Overrides, ApplyDeclared(params, overrides) # Refused,
         NEW p \in Path, Len(p) = 2, NEW v, KeyIs(params, p, v)
  PROVE  KeyIs(ApplyDeclared(params, overrides), p, v)
<1> DEFINE half == Layer("declared dotted", params, overrides)
<1>1. half # Refused /\ half \in Params /\ "declared dotted" \in Dotless /\ "declared flat" \in Dotless
  BY DeclaredTotal DEF Dotless
<1>2. KeyIs(half, p, v)
  BY <1>1, LeavesKey, AllWays
<1>3. Layer("declared flat", half, overrides) # Refused
  BY DEF ApplyDeclared
<1>4. KeyIs(Layer("declared flat", half, overrides), p, v)
  <2> HIDE DEF half
  <2> QED BY <1>1, <1>2, <1>3, LeavesKey, AllWays
<1> QED BY <1>4 DEF ApplyDeclared

\* What is declared leaves out a key that the defaults, the experiment and the study do not name.
LEMMA BaseKey ==
  ASSUME NEW r, Decodes(r), NEW e, e.params \in Overrides, NEW c, c.params \in Overrides,
         BaseParams(r, e, c) # Refused, NEW p \in Path, Len(p) = 2, NEW v,
         Omits(r.defaults, p), Omits(e.params, p), Omits(r.params, p)
  PROVE  KeyIs(BaseParams(r, e, c), p, v)
<1> DEFINE p1 == Layer("extend", <<>>, r.defaults)
           p2 == Layer("extend", p1, e.params)
           p3 == Layer("extend", p2, r.params)
           p4 == ApplyDeclared(p3, c.params)
<1>1. /\ r.defaults \in Overrides /\ r.params \in Overrides
      /\ \A s : s \in Overrides => s \in Seq(Override)
  BY DecodedParts DEF Overrides
<1>2. p1 \in Params \cup {Refused}
  BY <1>1, EmptyParams, LayerTotal, AllWays
<1>3. p2 \in Params \cup {Refused}
  <2> HIDE DEF p1
  <2> QED BY <1>2, LayerTotal, AllWays
<1>4. p3 \in Params \cup {Refused}
  <2> HIDE DEF p2
  <2> QED BY <1>1, <1>3, LayerTotal, AllWays
<1>5. p4 # Refused /\ BaseParams(r, e, c) = p4
  BY DEF BaseParams, ExtendParams
<1>6. p3 \in Params /\ p3 # Refused
  <2> HIDE DEF p3
  <2>1. p3 \in Params /\ Layer("declared dotted", p3, c.params) # Refused
    BY <1>4, <1>5, DeclaredTotal
  <2> QED BY <1>1, <1>4, <2>1, LayerTable, AllWays
<1>7. p2 \in Params /\ p2 # Refused
  <2> HIDE DEF p2
  <2> QED BY <1>1, <1>3, <1>6, LayerTable, AllWays
<1>8. p1 \in Params /\ p1 # Refused
  <2> HIDE DEF p1
  <2> QED BY <1>1, <1>2, <1>7, LayerTable, AllWays
<1>9. KeyIs(p1, p, v)
  <2>1. KeyIs(<<>>, p, v)
    BY DEF KeyIs
  <2> QED BY <1>1, <1>8, <2>1, EmptyParams, LeavesKey, AllWays
<1>10. KeyIs(p2, p, v)
  <2> HIDE DEF p1
  <2> QED BY <1>7, <1>8, <1>9, LeavesKey, AllWays
<1>11. KeyIs(p3, p, v)
  <2> HIDE DEF p2
  <2> QED BY <1>1, <1>6, <1>7, <1>10, LeavesKey, AllWays
<1>12. KeyIs(p4, p, v)
  <2> HIDE DEF p3
  <2> QED BY <1>5, <1>6, <1>11, DeclaredKey
<1> QED BY <1>5, <1>12

\* A key with dots that the command line names has its value in a cell, if it is there at all and
\* no layer before the command line may have put it there.
LEMMA CellKey ==
  ASSUME NEW r, Decodes(r), NEW e, e.params \in Overrides, NEW c, c.params \in Overrides,
         NEW m \in Overrides, NEW x \in Overrides, NEW v, v.params \in Overrides,
         CellParams(r, e, c, <<<<m, x>>, v>>) # Refused,
         NEW o \in ToSet(r.explicit), Len(o.path) = 2,
         Omits(r.defaults, o.path), Omits(e.params, o.path), Omits(r.params, o.path), Omits(Qualified(r), o.path)
  PROVE  KeyIs(CellParams(r, e, c, <<<<m, x>>, v>>), o.path, o.value)
<1> DEFINE p0 == BaseParams(r, e, c)
           p1 == OnMatrix(r, e, c, m)
           p2 == OnAxes(r, e, c, m, x)
           p3 == Varied(r, e, c, m, x, v)
           p4 == Tested(r, e, c, m, x, v)
           p5 == CellParams(r, e, c, <<<<m, x>>, v>>)
           p == o.path
           w == o.value
<1>1. /\ p0 \in Params /\ p1 \in Params /\ p2 \in Params /\ p3 \in Params /\ p4 \in Params
      /\ p1 # Refused /\ p2 # Refused /\ p3 # Refused /\ p4 # Refused /\ p5 # Refused
  BY CellLayers
<1>2. /\ p1 = Layer("dotted", p0, m) /\ p2 = Layer("dotted", p1, x) /\ p3 = ApplyDeclared(p2, v.params)
      /\ p4 = Layer("runtime", p3, Qualified(r)) /\ p5 = Layer("runtime", p4, r.explicit)
  BY DEF OnMatrix, OnAxes, Varied, Tested, CellParams, RuntimeParams, ApplyDotted, ApplyRuntime, Qualified
<1>3. /\ r.explicit \in Seq(Override) /\ Ordered(r.explicit) /\ DOMAIN r.explicit = 1..Len(r.explicit)
      /\ Qualified(r) \in Overrides /\ Qualified(r) \in Seq(Override)
      /\ m \in Seq(Override) /\ x \in Seq(Override)
  BY DecodedParts DEF Overrides
<1>4. PICK j \in 1..Len(r.explicit) : o = r.explicit[j]
  BY <1>3 DEF ToSet
<1>5. p \in Path
  BY <1>3, <1>4 DEF Override
<1>6. \A i \in 1..Len(r.explicit) : r.explicit[i].path = p => r.explicit[i].value = w
  <2> SUFFICES ASSUME NEW i \in 1..Len(r.explicit), r.explicit[i].path = p PROVE i = j
    BY <1>4
  <2>1. r.explicit[j].path = p /\ i \in DOMAIN r.explicit /\ j \in DOMAIN r.explicit
    BY <1>3, <1>4
  <2>2. ~(i < j) /\ ~(j < i)
    BY <1>3, <2>1 DEF Ordered
  <2> QED BY <2>2
<1>7. p0 # Refused
  <2> HIDE DEF p0, p1
  <2> QED BY <1>1, <1>2, <1>3, LayerTable, AllWays
<1>8. KeyIs(p0, p, w)
  BY <1>5, <1>7, BaseKey
<1> HIDE DEF p0, p1, p2, p3, p4, p5, p, w
<1>9. "dotted" \in Dotless /\ Len(p) = 2 /\ Omits(Qualified(r), p)
  BY DEF Dotless, p
<1>10. KeyIs(p1, p, w)
  BY <1>1, <1>2, <1>5, <1>8, <1>9, LeavesKey, AllWays
<1>11. KeyIs(p2, p, w)
  BY <1>1, <1>2, <1>5, <1>9, <1>10, LeavesKey, AllWays
<1>12. KeyIs(p3, p, w)
  BY <1>1, <1>2, <1>5, <1>9, <1>11, DeclaredKey
<1>13. KeyIs(p4, p, w)
  BY <1>1, <1>2, <1>3, <1>5, <1>9, <1>12, LeavesKey, AllWays
<1>14. KeyIs(p5, p, w)
  BY <1>1, <1>2, <1>3, <1>5, <1>6, <1>9, <1>13, LayerKey, AllWays
<1> QED BY <1>14 DEF p5, p, w

-----------------------------------------------------------------------------
(* Pairs and their places.                                                 *)

\* The place of a pair, and the pair at a place.
LEMMA PairPlace ==
  ASSUME NEW n \in Nat, NEW m \in Nat, NEW i \in 1..n, NEW j \in 1..m
  PROVE  /\ (i - 1) * m + j \in 1..(n * m)
         /\ (((i - 1) * m + j) - 1) \div m = i - 1 /\ (((i - 1) * m + j) - 1) % m = j - 1
<1>1. m > 0 /\ i - 1 \in Nat /\ j - 1 \in 0..(m - 1)
  OBVIOUS
<1>2. (i - 1) * m \in Nat /\ (i - 1) * m + m <= n * m /\ n * m \in Nat
  <2>1. (i - 1) * m + m = i * m
    BY Z3
  <2>2. i * m <= n * m
    BY Z3
  <2> QED BY <1>1, <2>1, <2>2, Z3
<1> DEFINE q == (i - 1) * m
<1>3. q + j \in 1..(n * m)
  BY <1>2, Z3
<1>4. (q + j) - 1 = m * (i - 1) + (j - 1)
  BY Z3
<1>5. ((q + j) - 1) \div m = i - 1 /\ ((q + j) - 1) % m = j - 1
  BY <1>1, <1>4, Z3
<1> QED BY <1>3, <1>5

\* Every place is that of one pair.
LEMMA PlacePair ==
  ASSUME NEW n \in Nat, NEW m \in Nat, NEW k \in 1..(n * m)
  PROVE  /\ ((k - 1) \div m) + 1 \in 1..n /\ ((k - 1) % m) + 1 \in 1..m
         /\ k = ((k - 1) \div m) * m + ((k - 1) % m) + 1
<1>1. m > 0 /\ n > 0
  BY Z3
<1> DEFINE q == (k - 1) \div m
           r == (k - 1) % m
<1>2. q \in Int /\ r \in 0..(m - 1) /\ k - 1 = m * q + r /\ k - 1 \in Nat /\ k - 1 < n * m
  BY <1>1, Z3
<1> HIDE DEF q, r
<1>3. q >= 0
  <2>1. SUFFICES ASSUME q <= -1 PROVE FALSE
    BY <1>2
  <2>2. m * q <= -m
    BY <1>1, <1>2, <2>1, Z3
  <2> QED BY <1>2, <2>2, Z3
<1>4. q < n
  <2>1. SUFFICES ASSUME q >= n PROVE FALSE
    BY <1>2
  <2>2. m * q >= n * m
    BY <1>1, <1>2, <2>1, Z3
  <2> QED BY <1>2, <2>2, Z3
<1>5. q + 1 \in 1..n /\ r + 1 \in 1..m /\ k = q * m + r + 1
  BY <1>2, <1>3, <1>4, Z3
<1> QED BY <1>5 DEF q, r

\* There is a pair for each element of s and each of t.
Sized(s, t) == Len(Pairs(s, t)) = Len(s) * Len(t)

\* The place k is in the i-th group of m.
Group(k, m, i) == (k - 1) \div m = i - 1

\* The place k has the i-th of s and the j-th of t.
Paired(s, t, k, i, j) == Pairs(s, t)[k] = <<s[i], t[j]>> /\ Group(k, Len(t), i)

\* The pairs, each in its place.
LEMMA PairsAre ==
  ASSUME NEW S, NEW T, NEW s \in Seq(S), NEW t \in Seq(T)
  PROVE  Pairs(s, t) \in Seq(S \X T) /\ Sized(s, t)
<1> DEFINE n == Len(s)
           m == Len(t)
           w == n * m
           p(k) == <<s[((k - 1) \div m) + 1], t[((k - 1) % m) + 1]>>
<1>1. n \in Nat /\ m \in Nat /\ DOMAIN s = 1..n /\ DOMAIN t = 1..m
  OBVIOUS
<1>2. n * m \in Nat
  BY <1>1, Z3
<1>3. Pairs(s, t) = [k \in 1..w |-> p(k)]
  BY DEF Pairs
<1>4. ASSUME NEW k \in 1..w PROVE p(k) \in S \X T
  <2> DEFINE i == ((k - 1) \div m) + 1
             j == ((k - 1) % m) + 1
  <2>1. i \in 1..n /\ j \in 1..m
    BY <1>1, PlacePair
  <2> HIDE DEF i, j
  <2>2. <<s[i], t[j]>> \in S \X T
    BY <1>1, <2>1
  <2> QED BY <2>2 DEF i, j
<1>5. w \in Nat
  BY <1>2
<1> HIDE DEF p, w
<1>6. Pairs(s, t) \in Seq(S \X T) /\ Len(Pairs(s, t)) = w
  BY <1>3, <1>4, <1>5
<1> QED BY <1>6 DEF Sized, w

\* What is at a place of the pairs.
LEMMA PairOf ==
  ASSUME NEW S, NEW T, NEW s \in Seq(S), NEW t \in Seq(T), NEW k \in 1..Len(Pairs(s, t))
  PROVE  \E i \in 1..Len(s), j \in 1..Len(t) : Paired(s, t, k, i, j)
<1> DEFINE n == Len(s)
           m == Len(t)
           i == ((k - 1) \div m) + 1
           j == ((k - 1) % m) + 1
<1>1. n \in Nat /\ m \in Nat /\ k \in 1..(n * m)
  <2>1. Sized(s, t)
    BY PairsAre
  <2> QED BY <2>1 DEF Sized
<1>2. i \in 1..n /\ j \in 1..m
  BY <1>1, PlacePair
<1>3. Pairs(s, t)[k] = <<s[i], t[j]>>
  BY <1>1 DEF Pairs
<1>4. Group(k, Len(t), i)
  BY <1>1, <1>2, Z3 DEF Group
<1> HIDE DEF i, j
<1> QED BY <1>2, <1>3, <1>4 DEF Paired

\* Every pair has a place.
LEMMA PairAt ==
  ASSUME NEW S, NEW T, NEW s \in Seq(S), NEW t \in Seq(T), NEW i \in 1..Len(s), NEW j \in 1..Len(t)
  PROVE  \E k \in 1..Len(Pairs(s, t)) : Paired(s, t, k, i, j)
<1> DEFINE n == Len(s)
           m == Len(t)
           k == (i - 1) * m + j
<1>1. n \in Nat /\ m \in Nat /\ i \in 1..n /\ j \in 1..m
  OBVIOUS
<1>2. k \in 1..(n * m) /\ (k - 1) \div m = i - 1 /\ (k - 1) % m = j - 1
  BY <1>1, PairPlace
<1>3. (i - 1) + 1 = i /\ (j - 1) + 1 = j
  BY <1>1
<1> HIDE DEF k
<1>4. Pairs(s, t)[k] = <<s[(i - 1) + 1], t[(j - 1) + 1]>>
  BY <1>2 DEF Pairs
<1>5. k \in 1..Len(Pairs(s, t))
  <2>1. Sized(s, t)
    BY PairsAre
  <2> QED BY <1>2, <2>1 DEF Sized
<1>6. Pairs(s, t)[k] = <<s[i], t[j]>>
  BY <1>3, <1>4
<1> QED BY <1>2, <1>5, <1>6 DEF Group, Paired

\* A value of an axis, as a row has it.
AxisValue(axis, j) == [path |-> axis.path, value |-> axis.values[j]]

\* A row and one more value.
LEMMA AcrossIs ==
  ASSUME NEW rows \in Seq(Overrides), NEW axis \in DesignAxis
  PROVE  /\ Across(rows, axis) \in Seq(Overrides)
         /\ Len(Across(rows, axis)) = Len(Pairs(rows, axis.values))
         /\ \A k \in 1..Len(Across(rows, axis)) : \E i \in 1..Len(rows), j \in 1..Len(axis.values) :
              Across(rows, axis)[k] = Append(rows[i], AxisValue(axis, j))
         /\ \A i \in 1..Len(rows), j \in 1..Len(axis.values) : \E k \in 1..Len(Across(rows, axis)) :
              Across(rows, axis)[k] = Append(rows[i], AxisValue(axis, j))
<1> DEFINE V == Leaves \cup Mappings
           values == axis.values
           pairs == Pairs(rows, values)
           w == Len(pairs)
           entry(j) == AxisValue(axis, j)
           next(k) == Append(pairs[k][1], [path |-> axis.path, value |-> pairs[k][2]])
<1>1. values \in Seq(V)
  BY DEF DesignAxis
<1> HIDE DEF values, V
<1>2. pairs \in Seq(Overrides \X V) /\ w \in Nat
  BY <1>1, PairsAre
<1>3. Across(rows, axis) = [k \in 1..w |-> next(k)]
  BY <1>2 DEF Across, values
<1>4. ASSUME NEW k \in 1..w
      PROVE  \E i \in 1..Len(rows), j \in 1..Len(values) : next(k) = Append(rows[i], entry(j))
  <2>1. PICK i \in 1..Len(rows), j \in 1..Len(values) : Paired(rows, values, k, i, j)
    BY <1>1, PairOf
  <2>2. pairs[k] = <<rows[i], values[j]>>
    BY <2>1 DEF Paired
  <2> HIDE DEF pairs
  <2>3. next(k) = Append(rows[i], entry(j))
    BY <2>2 DEF AxisValue, values
  <2> HIDE DEF next, entry
  <2> QED BY <2>3
<1>5. ASSUME NEW i \in 1..Len(rows), NEW j \in 1..Len(values)
      PROVE  \E k \in 1..w : next(k) = Append(rows[i], entry(j))
  <2>1. PICK k \in 1..w : Paired(rows, values, k, i, j)
    BY <1>1, PairAt
  <2>2. pairs[k] = <<rows[i], values[j]>>
    BY <2>1 DEF Paired
  <2>3. next(k) = Append(rows[i], entry(j))
    BY <2>2 DEF AxisValue, values
  <2> HIDE DEF w, next, entry
  <2> QED BY <2>3
<1>6. ASSUME NEW k \in 1..w PROVE next(k) \in Overrides
  <2>1. PICK i \in 1..Len(rows), j \in 1..Len(values) : next(k) = Append(rows[i], entry(j))
    BY <1>4
  <2>2. rows[i] \in Seq(Override)
    BY DEF Overrides
  <2>3. entry(j) \in Override
    BY <1>1 DEF DesignAxis, values, V, AxisValue
  <2> HIDE DEF next, entry
  <2>4. Append(rows[i], entry(j)) \in Seq(Override)
    BY <2>2, <2>3
  <2> QED BY <2>1, <2>4 DEF Overrides
<1> HIDE DEF next, entry
<1>7. Across(rows, axis) \in Seq(Overrides) /\ Len(Across(rows, axis)) = w
  BY <1>2, <1>3, <1>6
<1>8. \A k \in 1..w : Across(rows, axis)[k] = next(k)
  BY <1>3
<1>9. \A k \in 1..w : \E i \in 1..Len(rows), j \in 1..Len(values) : Across(rows, axis)[k] = Append(rows[i], entry(j))
  BY <1>4, <1>8
<1>10. \A i \in 1..Len(rows), j \in 1..Len(values) : \E k \in 1..w : Across(rows, axis)[k] = Append(rows[i], entry(j))
  BY <1>5, <1>8
<1> QED BY <1>2, <1>7, <1>9, <1>10 DEF values, entry
\* A row of one more axis is a row and a value of that axis.
LEMMA AcrossOf ==
  ASSUME NEW rows \in Seq(Overrides), NEW axis \in DesignAxis, NEW k \in 1..Len(Across(rows, axis))
  PROVE  \E i \in 1..Len(rows), j \in 1..Len(axis.values) : Across(rows, axis)[k] = Append(rows[i], AxisValue(axis, j))
BY AcrossIs

\* Every row is there with every value of that axis.
LEMMA AcrossAt ==
  ASSUME NEW rows \in Seq(Overrides), NEW axis \in DesignAxis,
         NEW i \in 1..Len(rows), NEW j \in 1..Len(axis.values)
  PROVE  \E k \in 1..Len(Across(rows, axis)) : Across(rows, axis)[k] = Append(rows[i], AxisValue(axis, j))
BY AcrossIs

-----------------------------------------------------------------------------
(* The rows of a grid, axis after axis.                                    *)

\* The rows of a grid, axis after axis.
Widens(f, axes) ==
  /\ f[0] = << <<>> >>
  /\ \A i \in 0..Len(axes) : f[i] \in Seq(Overrides)
  /\ \A i \in 1..Len(axes) : f[i] = Across(f[i - 1], axes[i])
  /\ Rows(axes) = f[Len(axes)]

\* There is the table of such rows.
LEMMA GridSteps ==
  ASSUME NEW axes \in Seq(DesignAxis)
  PROVE  \E f : Widens(f, axes)
<1> DEFINE n == Len(axes)
           V == Seq(Overrides)
           st == [x \in V \X (1..n) |-> Across(x[1], axes[x[2]])]
           Table(f) == f = [s \in SUBSET DOMAIN axes |->
             IF s = {} THEN << <<>> >> ELSE Across(f[s \ {Max(s)}], axes[Max(s)])]
           g == CHOOSE f : Table(f)
<1>1. n \in Nat /\ DOMAIN axes = 1..n /\ \A i \in 1..n : axes[i] \in DesignAxis
  OBVIOUS
<1>2. \A v \in V : \A i \in 1..n : st[<<v, i>>] \in V
  BY <1>1, AcrossIs
<1>3. << <<>> >> \in V
  BY DEF Overrides
<1>4. PICK h : Folded(h, n, << <<>> >>, st) /\ \A s \in SUBSET (1..n) : h[s] \in V
  <2> HIDE DEF st, n, V
  <2> QED BY <1>1, <1>2, <1>3, FoldTable
<1>5. Table(h)
  <2>1. ASSUME NEW s \in SUBSET (1..n), s # {}
        PROVE  /\ h[s \ {Max(s)}] \in V /\ Max(s) \in 1..n
    BY <1>1, <1>4, <2>1, Greatest
  <2>2. ASSUME NEW s \in SUBSET (1..n), s # {}
        PROVE  st[<<h[s \ {Max(s)}], Max(s)>>] = Across(h[s \ {Max(s)}], axes[Max(s)])
    BY <2>1, <2>2
  <2> HIDE DEF st
  <2> QED BY <1>1, <1>4, <2>2 DEF Folded
<1>6. Table(g)
  BY <1>5
<1>7. Rows(axes) = g[1..n]
  <2>1. Rows(axes) = g[DOMAIN axes]
    BY DEF Rows, FoldLeft, MapThenFoldSet
  <2> QED BY <1>1, <2>1
<1> HIDE DEF g
<1>8. g[1..0] = << <<>> >>
  <2>1. 1..0 = {} /\ {} \in SUBSET (1..n)
    OBVIOUS
  <2> QED BY <1>1, <1>6, <2>1
<1>9. ASSUME NEW i \in 1..n
      PROVE  g[1..i] = Across(g[1..(i - 1)], axes[i])
  <2>1. /\ 1..i \in SUBSET (DOMAIN axes) /\ 1..i # {}
        /\ Max(1..i) = i /\ (1..i) \ {Max(1..i)} = 1..(i - 1)
    BY <1>1, Prefix
  <2> QED BY <1>6, <2>1
<1> DEFINE f == [i \in 0..n |-> g[1..i]]
<1>10. /\ f[0] = << <<>> >> /\ Rows(axes) = f[n]
       /\ \A i \in 1..n : f[i] = Across(f[i - 1], axes[i])
  BY <1>1, <1>7, <1>8, <1>9
<1>11. \A i \in 0..n : f[i] \in V
  <2> DEFINE T == {i \in 0..n : f[i] \in V}
  <2> HIDE DEF f, V
  <2>1. 0 \in T
    BY <1>1, <1>3, <1>10
  <2>2. ASSUME NEW i \in 1..n, i - 1 \in T PROVE i \in T
    <3>1. f[i - 1] \in V /\ axes[i] \in DesignAxis /\ i \in 0..n
      BY <1>1, <2>2
    <3>2. Across(f[i - 1], axes[i]) \in V
      BY <3>1, AcrossIs DEF V
    <3> QED BY <1>10, <3>1, <3>2
  <2>3. \A i \in 0..n : i \in T
    <3> HIDE DEF T
    <3> QED BY <1>1, <2>1, <2>2, UpTo
  <2> QED BY <2>3
<1> HIDE DEF f
<1>12. Widens(f, axes)
  BY <1>10, <1>11 DEF Widens
<1> QED BY <1>12

\* The product of the numbers of values.
Multiplies(f, axes) ==
  /\ f[0] = 1
  /\ \A i \in 1..Len(axes) : f[i] = f[i - 1] * Len(axes[i].values)
  /\ Product(axes) = f[Len(axes)]

\* There is the table of such products.
LEMMA ProductSteps ==
  ASSUME NEW axes \in Seq(DesignAxis)
  PROVE  \E f : Multiplies(f, axes)
<1> DEFINE n == Len(axes)
           m(i) == Len(axes[i].values)
           st == [x \in Nat \X (1..n) |-> x[1] * m(x[2])]
           Table(f) == f = [s \in SUBSET DOMAIN axes |->
             IF s = {} THEN 1 ELSE f[s \ {Max(s)}] * m(Max(s))]
           g == CHOOSE f : Table(f)
<1>1. n \in Nat /\ DOMAIN axes = 1..n /\ \A i \in 1..n : m(i) \in Nat
  BY DEF DesignAxis
<1>2. \A v \in Nat : \A i \in 1..n : st[<<v, i>>] \in Nat
  <2> SUFFICES ASSUME NEW v \in Nat, NEW i \in 1..n PROVE v * m(i) \in Nat
    OBVIOUS
  <2>1. m(i) \in Nat
    BY <1>1
  <2> HIDE DEF m
  <2> QED BY <2>1, Z3
<1>3. PICK h : Folded(h, n, 1, st) /\ \A s \in SUBSET (1..n) : h[s] \in Nat
  <2>1. 1 \in Nat
    OBVIOUS
  <2> HIDE DEF st, n
  <2> QED BY <1>1, <1>2, <2>1, FoldTable
<1>4. Table(h)
  <2> HIDE DEF m
  <2>1. ASSUME NEW s \in SUBSET (1..n), s # {}
        PROVE  /\ h[s \ {Max(s)}] \in Nat /\ Max(s) \in 1..n
    BY <1>1, <1>3, <2>1, Greatest
  <2>2. ASSUME NEW s \in SUBSET (1..n), s # {}
        PROVE  st[<<h[s \ {Max(s)}], Max(s)>>] = h[s \ {Max(s)}] * m(Max(s))
    BY <2>1, <2>2
  <2> HIDE DEF st
  <2> QED BY <1>1, <1>3, <2>2 DEF Folded
<1>5. Table(g)
  BY <1>4
<1>6. Product(axes) = g[1..n]
  <2>1. Product(axes) = g[DOMAIN axes]
    BY DEF Product, FoldLeft, MapThenFoldSet
  <2> QED BY <1>1, <2>1
<1> HIDE DEF g, m
<1>7. g[1..0] = 1
  <2>1. 1..0 = {} /\ {} \in SUBSET (1..n)
    OBVIOUS
  <2> QED BY <1>1, <1>5, <2>1
<1>8. ASSUME NEW i \in 1..n
      PROVE  g[1..i] = g[1..(i - 1)] * m(i)
  <2>1. /\ 1..i \in SUBSET (DOMAIN axes) /\ 1..i # {}
        /\ Max(1..i) = i /\ (1..i) \ {Max(1..i)} = 1..(i - 1)
    BY <1>1, Prefix
  <2> QED BY <1>5, <2>1
<1> DEFINE f == [i \in 0..n |-> g[1..i]]
<1>9. /\ f[0] = 1 /\ Product(axes) = f[n]
      /\ \A i \in 1..n : f[i] = f[i - 1] * m(i)
  BY <1>1, <1>6, <1>7, <1>8
<1> HIDE DEF f
<1>10. Multiplies(f, axes)
  BY <1>9 DEF Multiplies, m
<1> QED BY <1>10

\* A row has a value of each of the first n axes.
RowOf(row, axes, n) ==
  /\ row \in Overrides /\ Len(row) = n
  /\ \A i \in 1..n : row[i].path = axes[i].path /\ row[i].value \in ToSet(axes[i].values)

\* A row that was made longer by the j-th value of the n-th axis.
Lengthened(longer, row, axes, n, j) ==
  /\ RowOf(longer, axes, n)
  /\ \A i \in 1..(n - 1) : longer[i] = row[i]
  /\ longer[n].value = axes[n].values[j]

\* It is a row of one more axis.
LEMMA RowLonger ==
  ASSUME NEW axes \in Seq(DesignAxis), NEW n \in 1..Len(axes), NEW row, RowOf(row, axes, n - 1),
         NEW j \in 1..Len(axes[n].values)
  PROVE  Lengthened(Append(row, AxisValue(axes[n], j)), row, axes, n, j)
<1> DEFINE entry == AxisValue(axes[n], j)
           longer == Append(row, entry)
<1>1. /\ n \in Nat /\ n - 1 \in Nat /\ axes[n] \in DesignAxis /\ axes[n].values \in Seq(Leaves \cup Mappings)
      /\ axes[n].values[j] \in ToSet(axes[n].values)
  <2>1. axes[n] \in DesignAxis
    OBVIOUS
  <2>2. axes[n].values \in Seq(Leaves \cup Mappings)
    BY <2>1 DEF DesignAxis
  <2> QED BY <2>1, <2>2 DEF ToSet
<1>2. entry \in Override
  BY <1>1 DEF DesignAxis, AxisValue
<1>3. row \in Seq(Override) /\ Len(row) = n - 1
  BY DEF RowOf, Overrides
<1> HIDE DEF entry
<1>4. longer \in Seq(Override) /\ Len(longer) = n /\ (\A i \in 1..(n - 1) : longer[i] = row[i]) /\ longer[n] = entry
  BY <1>1, <1>2, <1>3
<1> HIDE DEF longer
<1>5. ASSUME NEW i \in 1..n PROVE longer[i].path = axes[i].path /\ longer[i].value \in ToSet(axes[i].values)
  <2>1. CASE i = n
    BY <1>1, <1>4, <2>1 DEF entry, AxisValue
  <2>2. CASE i \in 1..(n - 1)
    BY <1>4, <2>2 DEF RowOf
  <2> QED BY <1>1, <2>1, <2>2
<1>6. RowOf(longer, axes, n)
  BY <1>4, <1>5 DEF RowOf, Overrides
<1>7. longer[n].value = axes[n].values[j]
  BY <1>4 DEF entry, AxisValue
<1>8. Lengthened(longer, row, axes, n, j)
  BY <1>4, <1>6, <1>7 DEF Lengthened
<1> QED BY <1>8 DEF longer, entry

\* The rows of a grid, and how many there are.
LEMMA GridRows ==
  ASSUME NEW axes \in Seq(DesignAxis)
  PROVE  /\ Rows(axes) \in Seq(Overrides) /\ Len(Rows(axes)) = Product(axes)
         /\ \A k \in 1..Len(Rows(axes)) : RowOf(Rows(axes)[k], axes, Len(axes))
<1> DEFINE n == Len(axes)
<1>1. PICK f : Widens(f, axes)
  BY GridSteps
<1>2. PICK p : Multiplies(p, axes)
  BY ProductSteps
<1>3. n \in Nat /\ \A i \in 1..n : axes[i] \in DesignAxis
  OBVIOUS
<1> DEFINE Good(i) == Len(f[i]) = p[i] /\ \A k \in 1..Len(f[i]) : RowOf(f[i][k], axes, i)
           T == {i \in 0..n : Good(i)}
<1>4. 0 \in T
  <2>1. f[0] = << <<>> >> /\ p[0] = 1
    BY <1>1, <1>2 DEF Widens, Multiplies
  <2>2. RowOf(<<>>, axes, 0)
    BY DEF RowOf, Overrides
  <2>3. Len(f[0]) = 1 /\ f[0][1] = <<>>
    BY <2>1
  <2>4. \A k \in 1..Len(f[0]) : RowOf(f[0][k], axes, 0)
    BY <2>2, <2>3
  <2>5. Good(0)
    BY <2>1, <2>3, <2>4
  <2> HIDE DEF Good
  <2> QED BY <1>3, <2>5
<1>5. ASSUME NEW i \in 1..n, i - 1 \in T PROVE i \in T
  <2>1. /\ f[i - 1] \in Seq(Overrides) /\ axes[i] \in DesignAxis /\ f[i] = Across(f[i - 1], axes[i])
        /\ p[i] = p[i - 1] * Len(axes[i].values) /\ axes[i].values \in Seq(Leaves \cup Mappings)
    BY <1>1, <1>2, <1>3 DEF Widens, Multiplies, DesignAxis
  <2>2. Len(f[i]) = p[i]
    <3>1. Len(f[i]) = Len(Pairs(f[i - 1], axes[i].values))
      BY <2>1, AcrossIs
    <3>2. Sized(f[i - 1], axes[i].values)
      BY <2>1, PairsAre
    <3>3. Len(f[i - 1]) = p[i - 1]
      BY <1>5
    <3> QED BY <2>1, <3>1, <3>2, <3>3 DEF Sized
  <2>3. ASSUME NEW k \in 1..Len(f[i]) PROVE RowOf(f[i][k], axes, i)
    <3>1. PICK r \in 1..Len(f[i - 1]), j \in 1..Len(axes[i].values) :
            f[i][k] = Append(f[i - 1][r], AxisValue(axes[i], j))
      <4> DEFINE rows == f[i - 1]
                 axis == axes[i]
      <4>1. rows \in Seq(Overrides) /\ axis \in DesignAxis /\ k \in 1..Len(Across(rows, axis))
        BY <2>1
      <4> HIDE DEF rows, axis
      <4>2. \E r \in 1..Len(rows), j \in 1..Len(axis.values) : Across(rows, axis)[k] = Append(rows[r], AxisValue(axis, j))
        BY <4>1, AcrossOf
      <4> QED BY <2>1, <4>2 DEF rows, axis
    <3>2. RowOf(f[i - 1][r], axes, i - 1)
      BY <1>5
    <3>3. Lengthened(f[i][k], f[i - 1][r], axes, i, j)
      BY <3>1, <3>2, RowLonger
    <3> QED BY <3>3 DEF Lengthened
  <2> QED BY <2>2, <2>3
<1>6. n \in T
  <2>1. \A i \in 0..n : i \in T
    <3> HIDE DEF T, n
    <3> QED BY <1>3, <1>4, <1>5, UpTo
  <2> QED BY <1>3, <2>1
<1>7. Rows(axes) = f[n] /\ Product(axes) = p[n] /\ f[n] \in Seq(Overrides)
  BY <1>1, <1>2, <1>3 DEF Widens, Multiplies
<1> QED BY <1>6, <1>7

\* Every choice of a value for each axis is a row.
LEMMA GridCovers ==
  ASSUME NEW axes \in Seq(DesignAxis), NEW c, \A i \in 1..Len(axes) : c[i] \in ToSet(axes[i].values)
  PROVE  \E k \in 1..Len(Rows(axes)) : \A i \in 1..Len(axes) : Rows(axes)[k][i].value = c[i]
<1> DEFINE n == Len(axes)
           Chosen(row, i) == RowOf(row, axes, i) /\ \A j \in 1..i : row[j].value = c[j]
<1>1. PICK f : Widens(f, axes)
  BY GridSteps
<1>2. n \in Nat /\ \A i \in 1..n : axes[i] \in DesignAxis
  OBVIOUS
<1> DEFINE T == {i \in 0..n : \E k \in 1..Len(f[i]) : Chosen(f[i][k], i)}
<1>3. 0 \in T
  <2>1. f[0] = << <<>> >>
    BY <1>1 DEF Widens
  <2>2. Chosen(<<>>, 0)
    BY DEF RowOf, Overrides
  <2> HIDE DEF Chosen
  <2>3. 1 \in 1..Len(f[0]) /\ Chosen(f[0][1], 0)
    BY <2>1, <2>2
  <2> QED BY <1>2, <2>3
<1>4. ASSUME NEW i \in 1..n, i - 1 \in T PROVE i \in T
  <2>1. /\ f[i - 1] \in Seq(Overrides) /\ axes[i] \in DesignAxis /\ f[i] = Across(f[i - 1], axes[i])
        /\ axes[i].values \in Seq(Leaves \cup Mappings)
    BY <1>1, <1>2 DEF Widens, DesignAxis
  <2>2. PICK r \in 1..Len(f[i - 1]) : Chosen(f[i - 1][r], i - 1)
    BY <1>4
  <2>3. PICK j \in 1..Len(axes[i].values) : axes[i].values[j] = c[i]
    <3> DEFINE values == axes[i].values
    <3>1. values \in Seq(Leaves \cup Mappings) /\ c[i] \in ToSet(values)
      BY <2>1
    <3> HIDE DEF values
    <3>2. \E j \in 1..Len(values) : values[j] = c[i]
      BY <3>1 DEF ToSet
    <3> QED BY <3>2 DEF values
  <2>4. PICK k \in 1..Len(f[i]) : f[i][k] = Append(f[i - 1][r], AxisValue(axes[i], j))
    <3> DEFINE rows == f[i - 1]
               axis == axes[i]
    <3>1. rows \in Seq(Overrides) /\ axis \in DesignAxis /\ r \in 1..Len(rows) /\ j \in 1..Len(axis.values)
      BY <2>1
    <3> HIDE DEF rows, axis
    <3>2. \E k \in 1..Len(Across(rows, axis)) : Across(rows, axis)[k] = Append(rows[r], AxisValue(axis, j))
      BY <3>1, AcrossAt
    <3> QED BY <2>1, <3>2 DEF rows, axis
  <2>5. /\ RowOf(f[i][k], axes, i)
        /\ \A q \in 1..(i - 1) : f[i][k][q] = f[i - 1][r][q]
        /\ f[i][k][i].value = c[i]
    <3> DEFINE row == f[i - 1][r]
    <3>1. RowOf(row, axes, i - 1) /\ i \in 1..Len(axes) /\ f[i][k] = Append(row, AxisValue(axes[i], j))
      BY <2>2, <2>4
    <3> HIDE DEF row
    <3>2. Lengthened(f[i][k], row, axes, i, j)
      BY <3>1, RowLonger
    <3> QED BY <2>3, <3>2 DEF row, Lengthened
  <2>6. ASSUME NEW q \in 1..i PROVE f[i][k][q].value = c[q]
    <3>1. CASE q = i
      BY <2>3, <2>5, <3>1
    <3>2. CASE q \in 1..(i - 1)
      BY <2>2, <2>5, <3>2
    <3> QED BY <3>1, <3>2
  <2>7. Chosen(f[i][k], i) /\ i \in 0..n
    BY <1>2, <2>5, <2>6
  <2> HIDE DEF Chosen
  <2> QED BY <2>7
<1>5. n \in T
  <2>1. \A i \in 0..n : i \in T
    <3> HIDE DEF T, n
    <3> QED BY <1>2, <1>3, <1>4, UpTo
  <2> QED BY <1>2, <2>1
<1>6. Rows(axes) = f[n]
  BY <1>1 DEF Widens
<1> QED BY <1>5, <1>6

-----------------------------------------------------------------------------
(* The cells of a case, and its jobs.                                      *)

\* What a case that was planned names.
LEMMA CaseParts ==
  ASSUME Decodes(request), NEW case, CaseJobs(request, case) # Refused
  PROVE  LET e == Experiment(request, case.experiment)
         IN /\ e \in ToSet(request.lab) /\ e.name = case.experiment
            /\ e.params \in Overrides /\ e.matrix \in Seq(DesignAxis) /\ ValidAxes(e.matrix) /\ Listed(e.seeds)
            /\ CaseJobs(request, case) = StudyJobs(request, case)
<1> DEFINE e == Experiment(request, case.experiment)
<1>1. /\ Known(request, case.experiment) /\ Decoded(e) /\ ValidAxes(e.matrix)
      /\ CaseJobs(request, case) = StudyJobs(request, case)
  BY DEF CaseJobs
<1>2. e \in ToSet(request.lab) /\ e.name = case.experiment
  BY <1>1 DEF Known, Experiment, ToSet
<1>3. WrittenExperiment(e)
  BY <1>2 DEF Decodes, WrittenStudy
<1>4. e.params \in Overrides /\ e.matrix \in Seq(DesignAxis) /\ Listed(e.seeds)
  BY <1>1, <1>3 DEF Decoded, WrittenExperiment
<1> QED BY <1>1, <1>2, <1>4

\* There is a seed, if only the absence of one.
LEMMA SeedsAre ==
  ASSUME Decodes(request), NEW e, Listed(e.seeds)
  PROVE  Seeds(request, e) \in Seq(ToSet(Seeds(request, e))) /\ Len(Seeds(request, e)) >= 1
<1>1. ASSUME NEW x PROVE <<x>> \in Seq(ToSet(<<x>>)) /\ Len(<<x>>) >= 1
  BY DEF ToSet
<1>2. ASSUME NEW s, Listed(s), s # <<>> PROVE s \in Seq(ToSet(s)) /\ Len(s) >= 1
  BY <1>2 DEF Listed
<1>3. Listed(request.seeds)
  BY DecodedParts
<1>4. CASE ~Full(request)
  <2>1. Seeds(request, e) = <<Qualification(request).seed>>
    BY <1>4 DEF Seeds
  <2> QED BY <1>1, <2>1
<1>5. CASE Full(request) /\ request.seeds # <<>>
  <2>1. Seeds(request, e) = request.seeds
    BY <1>5 DEF Seeds
  <2> QED BY <1>2, <1>3, <1>5, <2>1
<1>6. CASE Full(request) /\ request.seeds = <<>> /\ e.seeds # <<>>
  <2>1. Seeds(request, e) = e.seeds
    BY <1>6 DEF Seeds
  <2> QED BY <1>2, <1>6, <2>1
<1>7. CASE Full(request) /\ request.seeds = <<>> /\ e.seeds = <<>>
  <2>1. Seeds(request, e) = <<NoSeed>>
    BY <1>7 DEF Seeds
  <2> QED BY <1>1, <2>1
<1> QED BY <1>4, <1>5, <1>6, <1>7

\* What a variant says is said by a variant of the study.
LEMMA VariantsAre ==
  ASSUME Decodes(request)
  PROVE  /\ VariantRows(request.variants) \in Seq(ToSet(VariantRows(request.variants)))
         /\ \A v \in ToSet(VariantRows(request.variants)) :
              /\ v.params \in Overrides
              /\ v.params = <<>> \/ \E i \in DOMAIN request.variants : v.params = request.variants[i].params
<1>1. Listed(request.variants) /\ \A v \in ToSet(request.variants) : v.params \in Overrides
  BY DecodedParts
<1> DEFINE none == [name |-> NoName, params |-> <<>>]
<1>2. CASE request.variants = <<>>
  <2>1. VariantRows(request.variants) = <<none>>
    BY <1>2 DEF VariantRows
  <2>2. ToSet(<<none>>) = {none}
    BY DEF ToSet
  <2>3. none.params = <<>> /\ <<>> \in Overrides
    BY DEF Overrides
  <2> HIDE DEF none
  <2> QED BY <2>1, <2>2, <2>3
<1>3. CASE request.variants # <<>>
  <2>1. VariantRows(request.variants) = request.variants
    BY <1>3 DEF VariantRows
  <2> QED BY <1>1, <2>1 DEF Listed, ToSet
<1> QED BY <1>2, <1>3

\* The cells of an experiment: a row of its matrix, a row of the axes, and a variant.
Cells(e) == Pairs(Pairs(Rows(e.matrix), Rows(request.axes)), VariantRows(request.variants))

CellOf(e, k, a, b, c) ==
  Cells(e)[k] = <<<<Rows(e.matrix)[a], Rows(request.axes)[b]>>, VariantRows(request.variants)[c]>>

\* There is a cell for each of those.
Gridded(e) ==
  Len(Cells(e)) = Product(e.matrix) * Product(request.axes) * Len(VariantRows(request.variants))

\* Every cell is one of those, and each of those is a cell.
LEMMA CellsAre ==
  ASSUME Decodes(request), NEW e, e.matrix \in Seq(DesignAxis)
  PROVE  /\ Cells(e) \in Seq(ToSet(Cells(e)))
         /\ Gridded(e)
         /\ \A k \in 1..Len(Cells(e)) :
              \E a \in 1..Len(Rows(e.matrix)), b \in 1..Len(Rows(request.axes)),
                 c \in 1..Len(VariantRows(request.variants)) : CellOf(e, k, a, b, c)
         /\ \A a \in 1..Len(Rows(e.matrix)), b \in 1..Len(Rows(request.axes)),
              c \in 1..Len(VariantRows(request.variants)) : \E k \in 1..Len(Cells(e)) : CellOf(e, k, a, b, c)
<1> DEFINE A == Rows(e.matrix)
           B == Rows(request.axes)
           C == VariantRows(request.variants)
           D == Pairs(A, B)
<1>1. request.axes \in Seq(DesignAxis)
  BY DecodedParts
<1>2. /\ A \in Seq(Overrides) /\ Len(A) = Product(e.matrix)
      /\ B \in Seq(Overrides) /\ Len(B) = Product(request.axes)
  BY <1>1, GridRows
<1>3. C \in Seq(ToSet(C))
  BY VariantsAre
<1> HIDE DEF A, B, C
<1>4. D \in Seq(Overrides \X Overrides) /\ Sized(A, B)
  BY <1>2, PairsAre
<1>5. Pairs(D, C) \in Seq((Overrides \X Overrides) \X ToSet(C)) /\ Sized(D, C)
  <2> HIDE DEF D
  <2> QED BY <1>3, <1>4, PairsAre
<1>6. Cells(e) = Pairs(D, C)
  BY DEF Cells, A, B, C
<1>7. Pairs(D, C) \in Seq(ToSet(Pairs(D, C)))
  BY <1>5, SeqOfElements
<1>8. Gridded(e)
  <2>1. Len(Pairs(D, C)) = Product(e.matrix) * Product(request.axes) * Len(C)
    BY <1>2, <1>4, <1>5 DEF Sized
  <2> QED BY <1>6, <2>1 DEF Gridded, C
<1>9. ASSUME NEW k \in 1..Len(Pairs(D, C))
      PROVE  \E a \in 1..Len(A), b \in 1..Len(B), c \in 1..Len(C) : CellOf(e, k, a, b, c)
  <2>1. PICK d \in 1..Len(D), c \in 1..Len(C) : Paired(D, C, k, d, c)
    <3> HIDE DEF D
    <3> QED BY <1>3, <1>4, PairOf
  <2>2. PICK a \in 1..Len(A), b \in 1..Len(B) : Paired(A, B, d, a, b)
    BY <1>2, PairOf
  <2>3. Pairs(D, C)[k] = <<<<A[a], B[b]>>, C[c]>>
    BY <2>1, <2>2 DEF Paired
  <2>4. CellOf(e, k, a, b, c)
    BY <1>6, <2>3 DEF CellOf, A, B, C
  <2> QED BY <2>4
<1>10. ASSUME NEW a \in 1..Len(A), NEW b \in 1..Len(B), NEW c \in 1..Len(C)
       PROVE  \E k \in 1..Len(Pairs(D, C)) : CellOf(e, k, a, b, c)
  <2>1. PICK d \in 1..Len(D) : Paired(A, B, d, a, b)
    BY <1>2, PairAt
  <2>2. PICK k \in 1..Len(Pairs(D, C)) : Paired(D, C, k, d, c)
    <3> HIDE DEF D
    <3> QED BY <1>3, <1>4, PairAt
  <2>3. Pairs(D, C)[k] = <<<<A[a], B[b]>>, C[c]>>
    BY <2>1, <2>2 DEF Paired
  <2>4. CellOf(e, k, a, b, c)
    BY <1>6, <2>3 DEF CellOf, A, B, C
  <2> QED BY <2>4
<1> HIDE DEF D
<1>11. \A k \in 1..Len(Cells(e)) :
         \E a \in 1..Len(A), b \in 1..Len(B), c \in 1..Len(C) : CellOf(e, k, a, b, c)
  BY <1>6, <1>9
<1>12. \A a \in 1..Len(A), b \in 1..Len(B), c \in 1..Len(C) : \E k \in 1..Len(Cells(e)) : CellOf(e, k, a, b, c)
  BY <1>6, <1>10
<1>13. Cells(e) \in Seq(ToSet(Cells(e)))
  BY <1>6, <1>7
<1> QED BY <1>8, <1>11, <1>12, <1>13 DEF A, B, C

\* The job of the i-th cell with the j-th seed.
CellJob(case, e, i, j) == Job(request, case, Cells(e)[i], i - 1, Seeds(request, e)[j])

\* A job for each cell and each seed.
Seeded(work, e) == Len(work) = Len(Cells(e)) * Len(Seeds(request, e))

\* The jobs of a case are those of its cells and seeds, and none was refused.
LEMMA JobsAre ==
  ASSUME Decodes(request), NEW case, CaseJobs(request, case) # Refused,
         NEW e, e = Experiment(request, case.experiment)
  PROVE  /\ CaseJobs(request, case) \in Seq(ToSet(CaseJobs(request, case)))
         /\ Seeded(CaseJobs(request, case), e)
         /\ \A k \in 1..Len(CaseJobs(request, case)) :
              /\ CaseJobs(request, case)[k].params # Refused
              /\ \E i \in 1..Len(Cells(e)), j \in 1..Len(Seeds(request, e)) :
                   CaseJobs(request, case)[k] = CellJob(case, e, i, j)
         /\ \A i \in 1..Len(Cells(e)), j \in 1..Len(Seeds(request, e)) :
              \E k \in 1..Len(CaseJobs(request, case)) : CaseJobs(request, case)[k] = CellJob(case, e, i, j)
<1> DEFINE J == CaseJobs(request, case)
           cells == Cells(e)
           seeds == Seeds(request, e)
           seeded == Pairs(cells, seeds)
           job(k) == Job(request, case, seeded[k][1], (k - 1) \div Len(seeds), seeded[k][2])
           work == [k \in DOMAIN seeded |-> job(k)]
           w == Len(seeded)
<1>1. e.matrix \in Seq(DesignAxis) /\ Listed(e.seeds) /\ J = StudyJobs(request, case)
  BY CaseParts
<1>2. cells \in Seq(ToSet(cells)) /\ seeds \in Seq(ToSet(seeds))
  BY <1>1, CellsAre, SeedsAre
<1>3. J = IF Len(seeded) > MaxCount \/ \E k \in DOMAIN work : work[k].params = Refused THEN Refused ELSE work
  BY <1>1 DEF StudyJobs, Cells
<1> HIDE DEF J, cells, seeds, job
<1>4. J = work /\ \A k \in DOMAIN work : work[k].params # Refused
  BY <1>3 DEF J
<1>5. seeded \in Seq(ToSet(cells) \X ToSet(seeds)) /\ Sized(cells, seeds)
  BY <1>2, PairsAre
<1> HIDE DEF seeded
<1>6. w \in Nat /\ DOMAIN seeded = 1..w /\ Len(seeded) = w
  BY <1>5
<1> HIDE DEF w
<1>7. J = [k \in 1..w |-> job(k)] /\ \A k \in 1..w : job(k).params # Refused
  BY <1>4, <1>6
<1> HIDE DEF work
<1>8. DOMAIN J = 1..w /\ Len(J) = w /\ J \in Seq({job(k) : k \in 1..w})
  BY <1>6, <1>7
<1>9. J \in Seq(ToSet(J))
  BY <1>8, SeqOfElements
<1>10. Seeded(J, e)
  BY <1>5, <1>6, <1>8 DEF Seeded, Sized, cells, seeds, seeded
<1>11. ASSUME NEW k \in 1..w, NEW i \in 1..Len(cells), NEW j, Paired(cells, seeds, k, i, j)
       PROVE  J[k] = CellJob(case, e, i, j)
  <2>1. seeded[k] = <<cells[i], seeds[j]>> /\ (k - 1) \div Len(seeds) = i - 1
    BY <1>11 DEF Paired, Group, seeded
  <2>2. J[k] = job(k)
    BY <1>7
  <2>3. job(k) = Job(request, case, cells[i], i - 1, seeds[j])
    BY <2>1 DEF job
  <2> QED BY <2>2, <2>3 DEF CellJob, cells, seeds
<1>12. ASSUME NEW k \in 1..w
       PROVE  J[k].params # Refused /\ \E i \in 1..Len(cells), j \in 1..Len(seeds) : J[k] = CellJob(case, e, i, j)
  <2>1. PICK i \in 1..Len(cells), j \in 1..Len(seeds) : Paired(cells, seeds, k, i, j)
    <3>1. k \in 1..Len(Pairs(cells, seeds))
      BY <1>6 DEF seeded
    <3> QED BY <1>2, <3>1, PairOf
  <2>2. J[k] = CellJob(case, e, i, j)
    BY <1>11, <2>1
  <2> QED BY <1>7, <2>2
<1>13. ASSUME NEW i \in 1..Len(cells), NEW j \in 1..Len(seeds)
       PROVE  \E k \in 1..w : J[k] = CellJob(case, e, i, j)
  <2>1. PICK k \in 1..Len(Pairs(cells, seeds)) : Paired(cells, seeds, k, i, j)
    BY <1>2, PairAt
  <2>2. k \in 1..w
    BY <1>6, <2>1 DEF seeded
  <2>3. J[k] = CellJob(case, e, i, j)
    BY <1>11, <2>1, <2>2
  <2> QED BY <2>2, <2>3
<1>14. /\ \A k \in 1..Len(J) : J[k].params # Refused
                               /\ \E i \in 1..Len(cells), j \in 1..Len(seeds) : J[k] = CellJob(case, e, i, j)
       /\ \A i \in 1..Len(cells), j \in 1..Len(seeds) : \E k \in 1..Len(J) : J[k] = CellJob(case, e, i, j)
  BY <1>8, <1>12, <1>13
<1> QED BY <1>9, <1>10, <1>14 DEF J, cells, seeds

\* Every cell has a job with every seed, and is the same each time.
LEMMA JobsSeeded ==
  ASSUME Decodes(request), NEW case, CaseJobs(request, case) # Refused,
         NEW e, e = Experiment(request, case.experiment),
         NEW work, work = ToSet(CaseJobs(request, case))
  PROVE  /\ \A j \in work : j.condition = case.name /\ j.experiment = case.experiment
         /\ {<<j.cell, j.seed>> : j \in work} = (0..(Len(Cells(e)) - 1)) \X ToSet(Seeds(request, e))
         /\ \A j, k \in work : j.cell = k.cell => j.params = k.params /\ j.variant = k.variant
<1> DEFINE J == CaseJobs(request, case)
           n == Len(Cells(e))
           seeds == Seeds(request, e)
           unit(i, s) == CellJob(case, e, i, s)
<1>1. /\ J \in Seq(ToSet(J))
      /\ \A k \in 1..Len(J) : \E i \in 1..n, s \in 1..Len(seeds) : J[k] = unit(i, s)
      /\ \A i \in 1..n, s \in 1..Len(seeds) : \E k \in 1..Len(J) : J[k] = unit(i, s)
  BY JobsAre
<1>2. n \in Nat /\ DOMAIN seeds = 1..Len(seeds)
  <2>1. e.matrix \in Seq(DesignAxis) /\ Listed(e.seeds)
    BY CaseParts
  <2>2. Cells(e) \in Seq(ToSet(Cells(e))) /\ seeds \in Seq(ToSet(seeds))
    BY <2>1, CellsAre, SeedsAre
  <2> QED BY <2>2
<1> HIDE DEF J, n, seeds, unit
<1>3. ASSUME NEW j \in work PROVE \E i \in 1..n, s \in 1..Len(seeds) : j = unit(i, s)
  <2>1. PICK k \in 1..Len(J) : j = J[k]
    BY <1>1 DEF ToSet, J
  <2> QED BY <1>1, <2>1
<1>4. ASSUME NEW i \in 1..n, NEW s \in 1..Len(seeds) PROVE unit(i, s) \in work
  <2>1. PICK k \in 1..Len(J) : J[k] = unit(i, s)
    BY <1>1
  <2>2. DOMAIN J = 1..Len(J)
    <3> DEFINE S == ToSet(J)
    <3>1. J \in Seq(S)
      BY <1>1
    <3> HIDE DEF S
    <3> QED BY <3>1
  <2>3. J[k] \in ToSet(J)
    BY <2>2 DEF ToSet
  <2> QED BY <2>1, <2>3 DEF J
<1>5. \A i, s : /\ unit(i, s).experiment = case.experiment /\ unit(i, s).condition = case.name
                /\ unit(i, s).variant = Cells(e)[i][2].name
                /\ unit(i, s).cell = i - 1 /\ unit(i, s).seed = seeds[s]
                /\ unit(i, s).params = CellParams(request, e, case, Cells(e)[i])
  BY DEF CellJob, Job, unit, seeds
<1>6. \A j \in work : j.condition = case.name /\ j.experiment = case.experiment
  BY <1>3, <1>5
<1>7. ASSUME NEW j \in work, NEW k \in work, j.cell = k.cell
      PROVE  j.params = k.params /\ j.variant = k.variant
  <2>1. PICK i \in 1..n, s \in 1..Len(seeds) : j = unit(i, s)
    BY <1>3
  <2>2. PICK a \in 1..n, b \in 1..Len(seeds) : k = unit(a, b)
    BY <1>3
  <2>3. i = a
    <3>1. i - 1 = a - 1
      BY <1>5, <1>7, <2>1, <2>2
    <3> QED BY <1>2, <3>1
  <2> QED BY <1>5, <2>1, <2>2, <2>3
<1>8. {<<j.cell, j.seed>> : j \in work} = (0..(n - 1)) \X ToSet(seeds)
  <2>1. ASSUME NEW j \in work PROVE <<j.cell, j.seed>> \in (0..(n - 1)) \X ToSet(seeds)
    <3>1. PICK i \in 1..n, s \in 1..Len(seeds) : j = unit(i, s)
      BY <1>3
    <3>2. j.cell = i - 1 /\ j.seed = seeds[s]
      BY <1>5, <3>1
    <3>3. i - 1 \in 0..(n - 1) /\ seeds[s] \in ToSet(seeds)
      BY <1>2 DEF ToSet
    <3> QED BY <3>2, <3>3
  <2>2. ASSUME NEW c \in 0..(n - 1), NEW x \in ToSet(seeds)
        PROVE  \E j \in work : <<c, x>> = <<j.cell, j.seed>>
    <3>1. PICK s \in 1..Len(seeds) : x = seeds[s]
      BY <1>2 DEF ToSet
    <3>2. c + 1 \in 1..n /\ (c + 1) - 1 = c
      BY <1>2
    <3>3. unit(c + 1, s) \in work
      BY <1>4, <3>2
    <3>4. unit(c + 1, s).cell = c /\ unit(c + 1, s).seed = x
      BY <1>5, <3>1, <3>2
    <3> QED BY <3>3, <3>4
  <2> QED BY <2>1, <2>2
<1> QED BY <1>6, <1>7, <1>8 DEF n, seeds

-----------------------------------------------------------------------------
(* The free axes.                                                          *)

\* What an experiment that was decoded has.
Designed(e) ==
  e.params \in Overrides /\ e.matrix \in Seq(DesignAxis) /\ ValidAxes(e.matrix) /\ Listed(e.seeds)

\* The elements of two sequences joined.
LEMMA JoinedElements ==
  ASSUME NEW S, NEW s \in Seq(S), NEW t \in Seq(S)
  PROVE  ToSet(s \o t) = ToSet(s) \cup ToSet(t)
<1> DEFINE u == s \o t
<1>1. /\ Len(s) \in Nat /\ Len(t) \in Nat /\ DOMAIN s = 1..Len(s) /\ DOMAIN t = 1..Len(t)
      /\ DOMAIN u = 1..(Len(s) + Len(t))
      /\ \A i \in 1..Len(s) : u[i] = s[i]
      /\ \A i \in (Len(s) + 1)..(Len(s) + Len(t)) : u[i] = t[i - Len(s)]
  OBVIOUS
<1> HIDE DEF u
<1>2. ASSUME NEW i \in DOMAIN u PROVE u[i] \in ToSet(s) \cup ToSet(t)
  <2>1. CASE i \in 1..Len(s)
    BY <1>1, <2>1 DEF ToSet
  <2>2. CASE i \in (Len(s) + 1)..(Len(s) + Len(t))
    <3>1. i - Len(s) \in 1..Len(t)
      BY <1>1, <2>2
    <3> QED BY <1>1, <2>2, <3>1 DEF ToSet
  <2> QED BY <1>1, <2>1, <2>2
<1>3. ASSUME NEW i \in DOMAIN s PROVE s[i] \in ToSet(u)
  <2>1. i \in DOMAIN u /\ u[i] = s[i]
    BY <1>1
  <2> QED BY <2>1 DEF ToSet
<1>4. ASSUME NEW i \in DOMAIN t PROVE t[i] \in ToSet(u)
  <2>1. i + Len(s) \in DOMAIN u /\ u[i + Len(s)] = t[(i + Len(s)) - Len(s)] /\ (i + Len(s)) - Len(s) = i
    BY <1>1
  <2> QED BY <2>1 DEF ToSet
<1> QED BY <1>2, <1>3, <1>4 DEF ToSet, u

\* Nothing but its own axis overlaps a free path.
LEMMA FreeAxis ==
  ASSUME Decodes(request), NEW e, Designed(e), NEW a \in FreeAxes(e)
  PROVE  /\ a.path \in Path
         /\ \A i \in 1..Len(e.matrix) : Overlap(a.path, e.matrix[i].path) => e.matrix[i] = a
         /\ \A i \in 1..Len(request.axes) : Overlap(a.path, request.axes[i].path) => request.axes[i] = a
         /\ (\E i \in 1..Len(e.matrix) : e.matrix[i] = a) \/ (\E i \in 1..Len(request.axes) : request.axes[i] = a)
         /\ \A v \in ToSet(VariantRows(request.variants)) :
              \A i \in 1..Len(v.params) : ~Overlap(a.path, v.params[i].path)
         /\ \A i \in 1..Len(Qualified(request)) : ~Overlap(a.path, Qualified(request)[i].path)
         /\ \A i \in 1..Len(request.explicit) : ~Overlap(a.path, request.explicit[i].path)
<1> DEFINE all == ToSet(e.matrix \o request.axes)
           said == (UNION {Paths(request.variants[i].params) : i \in DOMAIN request.variants})
                     \cup Paths(Qualification(request).params) \cup Paths(request.explicit)
<1>1. e.matrix \in Seq(DesignAxis) /\ request.axes \in Seq(DesignAxis)
  BY DecodedParts DEF Designed
<1>2. all = ToSet(e.matrix) \cup ToSet(request.axes)
  BY <1>1, JoinedElements
<1>3. /\ a \in all /\ \A b \in all : Overlap(a.path, b.path) => a = b
      /\ \A p \in said : ~Overlap(a.path, p)
  BY DEF FreeAxes
<1> HIDE DEF all, said
<1>4. /\ \A i \in 1..Len(e.matrix) : e.matrix[i] \in all
      /\ \A i \in 1..Len(request.axes) : request.axes[i] \in all
  BY <1>1, <1>2 DEF ToSet
<1>5. (\E i \in 1..Len(e.matrix) : e.matrix[i] = a) \/ (\E i \in 1..Len(request.axes) : request.axes[i] = a)
  BY <1>1, <1>2, <1>3 DEF ToSet
<1>6. a.path \in Path
  <2>1. a \in DesignAxis
    BY <1>1, <1>5
  <2> QED BY <2>1 DEF DesignAxis
<1>7. ASSUME NEW v \in ToSet(VariantRows(request.variants)), NEW i \in 1..Len(v.params)
      PROVE  ~Overlap(a.path, v.params[i].path)
  <2>1. v.params # <<>>
    BY <1>7
  <2>2. PICK d \in DOMAIN request.variants : v.params = request.variants[d].params
    BY <2>1, VariantsAre
  <2>3. v.params \in Seq(Override)
    BY VariantsAre DEF Overrides
  <2>4. v.params[i].path \in Paths(v.params)
    BY <2>3 DEF Paths
  <2>5. v.params[i].path \in said
    BY <2>2, <2>4 DEF said
  <2> QED BY <1>3, <2>5
<1>8. ASSUME NEW i \in 1..Len(Qualified(request)) PROVE ~Overlap(a.path, Qualified(request)[i].path)
  <2>1. Qualified(request) \in Seq(Override)
    BY DecodedParts DEF Overrides
  <2>2. Qualified(request) # <<>>
    BY <1>8
  <2>3. Qualified(request) = Qualification(request).params
    BY <2>2 DEF Qualified
  <2>4. Qualified(request)[i].path \in said
    BY <2>1, <2>3 DEF Paths, said
  <2> QED BY <1>3, <2>4
<1>9. ASSUME NEW i \in 1..Len(request.explicit) PROVE ~Overlap(a.path, request.explicit[i].path)
  <2>1. request.explicit \in Seq(Override)
    BY DecodedParts DEF Overrides
  <2>2. request.explicit[i].path \in said
    BY <2>1 DEF Paths, said
  <2> QED BY <1>3, <2>2
<1> QED BY <1>3, <1>4, <1>5, <1>6, <1>7, <1>8, <1>9

\* A cell gives a free path the value that its row has of its axis.
LEMMA CellValue ==
  ASSUME Decodes(request), NEW case, case.params \in Overrides, NEW e, Designed(e),
         NEW k, NEW i \in 1..Len(Rows(e.matrix)), NEW b \in 1..Len(Rows(request.axes)),
         NEW c \in 1..Len(VariantRows(request.variants)), CellOf(e, k, i, b, c),
         CellParams(request, e, case, Cells(e)[k]) # Refused,
         NEW a \in FreeAxes(e), NEW V,
         \A x \in 1..Len(e.matrix) : e.matrix[x] = a => Rows(e.matrix)[i][x].value \in V,
         \A x \in 1..Len(request.axes) : request.axes[x] = a => Rows(request.axes)[b][x].value \in V
  PROVE  At(CellParams(request, e, case, Cells(e)[k]), a.path) \in V
<1> DEFINE m == Rows(e.matrix)[i]
           w == Rows(request.axes)[b]
           v == VariantRows(request.variants)[c]
           p == a.path
<1>1. /\ e.matrix \in Seq(DesignAxis) /\ e.params \in Overrides /\ request.axes \in Seq(DesignAxis)
  BY DecodedParts DEF Designed
<1>2. RowOf(m, e.matrix, Len(e.matrix)) /\ RowOf(w, request.axes, Len(request.axes))
  BY <1>1, GridRows
<1>3. v \in ToSet(VariantRows(request.variants)) /\ v.params \in Overrides
  <2>1. VariantRows(request.variants) \in Seq(ToSet(VariantRows(request.variants)))
    BY VariantsAre
  <2>2. v \in ToSet(VariantRows(request.variants))
    BY <2>1 DEF ToSet
  <2> QED BY <2>2, VariantsAre
<1>4. Cells(e)[k] = <<<<m, w>>, v>>
  BY DEF CellOf
<1>5. m \in Overrides /\ w \in Overrides /\ Len(m) = Len(e.matrix) /\ Len(w) = Len(request.axes)
  BY <1>2 DEF RowOf
<1>6. /\ p \in Path
      /\ \A x \in 1..Len(e.matrix) : Overlap(p, e.matrix[x].path) => e.matrix[x] = a
      /\ \A x \in 1..Len(request.axes) : Overlap(p, request.axes[x].path) => request.axes[x] = a
      /\ (\E x \in 1..Len(e.matrix) : e.matrix[x] = a) \/ (\E x \in 1..Len(request.axes) : request.axes[x] = a)
      /\ \A x \in 1..Len(v.params) : ~Overlap(p, v.params[x].path)
      /\ \A x \in 1..Len(Qualified(request)) : ~Overlap(p, Qualified(request)[x].path)
      /\ \A x \in 1..Len(request.explicit) : ~Overlap(p, request.explicit[x].path)
  <2> HIDE DEF v
  <2> QED BY <1>3, FreeAxis
<1>7. /\ \A x \in 1..Len(e.matrix) : m[x].path = e.matrix[x].path
      /\ \A x \in 1..Len(request.axes) : w[x].path = request.axes[x].path
  BY <1>2 DEF RowOf
<1>8. /\ \A x \in 1..Len(e.matrix) : e.matrix[x] = a => m[x].value \in V
      /\ \A x \in 1..Len(request.axes) : request.axes[x] = a => w[x].value \in V
  OBVIOUS
<1> HIDE DEF m, w, v
<1>9. Chooses(m, p, V) /\ Chooses(w, p, V)
  BY <1>5, <1>6, <1>7, <1>8 DEF Chooses
<1>10. SetsIn(m, p) \/ SetsIn(w, p)
  BY <1>5, <1>6, <1>7 DEF SetsIn
<1>11. Spares(v.params, p) /\ Spares(Qualified(request), p) /\ Spares(request.explicit, p)
  BY <1>6 DEF Spares
<1>12. CellParams(request, e, case, <<<<m, w>>, v>>) # Refused /\ p \in Path
  BY <1>4, <1>6
<1> HIDE DEF p
<1>13. At(CellParams(request, e, case, <<<<m, w>>, v>>), p) \in V
  BY ONLY Decodes(request), case.params \in Overrides, <1>1, <1>3, <1>5, <1>9, <1>10, <1>11, <1>12, CellChooses
<1> QED BY <1>4, <1>13 DEF p

\* A row has the value that f says of each axis in S.
Takes(row, axes, S, f) == \A i \in 1..Len(axes) : axes[i] \in S => row[i].value = f[axes[i]]

\* There is such a row of a grid.
LEMMA RowWith ==
  ASSUME NEW axes \in Seq(DesignAxis), ValidAxes(axes), NEW S, NEW f, \A a \in S : f[a] \in ToSet(a.values)
  PROVE  \E k \in 1..Len(Rows(axes)) : Takes(Rows(axes)[k], axes, S, f)
<1> DEFINE n == Len(axes)
           c == [i \in 1..n |-> IF axes[i] \in S THEN f[axes[i]] ELSE axes[i].values[1]]
<1>1. ASSUME NEW i \in 1..n PROVE c[i] \in ToSet(axes[i].values)
  <2>1. axes[i].values # <<>> /\ axes[i].values \in Seq(Leaves \cup Mappings)
    BY DEF ValidAxes, DesignAxis
  <2>2. axes[i].values[1] \in ToSet(axes[i].values)
    BY <2>1 DEF ToSet
  <2> QED BY <2>2
<1> HIDE DEF c
<1>2. PICK k \in 1..Len(Rows(axes)) : \A i \in 1..n : Rows(axes)[k][i].value = c[i]
  BY <1>1, GridCovers
<1>3. \A i \in 1..n : axes[i] \in S => c[i] = f[axes[i]]
  BY DEF c
<1> QED BY <1>2, <1>3 DEF Takes

\* Every choice for the free axes is made with every variant, and nothing else is.
LEMMA JobsChoose ==
  ASSUME Decodes(request), NEW case, case.params \in Overrides, CaseJobs(request, case) # Refused,
         NEW e, e = Experiment(request, case.experiment)
  PROVE  ChoicesMade(e, ToSet(CaseJobs(request, case)))
<1> DEFINE J == CaseJobs(request, case)
           work == ToSet(J)
           free == FreeAxes(e)
           A == Rows(e.matrix)
           B == Rows(request.axes)
           C == VariantRows(request.variants)
           seeds == Seeds(request, e)
           names == {v.name : v \in ToSet(C)}
           values == UNION {ToSet(a.values) : a \in free}
           choices == {f \in [free -> values] : \A a \in free : f[a] \in ToSet(a.values)}
           chosen(j) == [a \in free |-> At(j.params, a.path)]
           params(k) == CellParams(request, e, case, Cells(e)[k])
<1>1. Designed(e) /\ ValidAxes(request.axes) /\ request.axes \in Seq(DesignAxis)
  BY CaseParts, DecodedParts DEF Designed, Decodes, ParsedStudy
<1>2. e.matrix \in Seq(DesignAxis) /\ ValidAxes(e.matrix) /\ Listed(e.seeds)
  BY <1>1 DEF Designed
<1>3. /\ J \in Seq(work)
      /\ \A k \in 1..Len(J) : /\ J[k].params # Refused
                              /\ \E i \in 1..Len(Cells(e)), s \in 1..Len(seeds) : J[k] = CellJob(case, e, i, s)
      /\ \A i \in 1..Len(Cells(e)), s \in 1..Len(seeds) : \E k \in 1..Len(J) : J[k] = CellJob(case, e, i, s)
  BY JobsAre
<1>4. C \in Seq(ToSet(C)) /\ \A c \in 1..Len(C) : C[c].name \in names
  <2>1. C \in Seq(ToSet(C))
    BY VariantsAre
  <2> QED BY <2>1 DEF ToSet
<1>5. ASSUME NEW j \in work PROVE j.variant \in names /\ chosen(j) \in choices
  <2>1. PICK k \in 1..Len(J) : j = J[k]
    BY <1>3 DEF ToSet
  <2>2. PICK i \in 1..Len(Cells(e)), s \in 1..Len(seeds) : j = CellJob(case, e, i, s)
    BY <1>3, <2>1
  <2>3. PICK a \in 1..Len(A), b \in 1..Len(B), c \in 1..Len(C) : CellOf(e, i, a, b, c)
    BY <1>2, CellsAre
  <2>4. params(i) # Refused /\ j.params = params(i) /\ j.variant = C[c].name
    <3>1. j.params = params(i) /\ j.variant = Cells(e)[i][2].name
      BY <2>2 DEF CellJob, Job
    <3>2. j.params # Refused
      BY <1>3, <2>1
    <3> QED BY <2>3, <3>1, <3>2 DEF CellOf
  <2>5. RowOf(A[a], e.matrix, Len(e.matrix)) /\ RowOf(B[b], request.axes, Len(request.axes))
    BY <1>1, <1>2, GridRows
  <2>6. ASSUME NEW d \in free PROVE At(params(i), d.path) \in ToSet(d.values)
    <3>1. /\ \A x \in 1..Len(e.matrix) : e.matrix[x] = d => A[a][x].value \in ToSet(d.values)
          /\ \A x \in 1..Len(request.axes) : request.axes[x] = d => B[b][x].value \in ToSet(d.values)
      BY <2>5 DEF RowOf
    <3> QED BY ONLY Decodes(request), case.params \in Overrides, <1>1, <2>3, <2>4, <2>6, <3>1, CellValue
  <2> HIDE DEF params
  <2>7. chosen(j) \in choices
    <3>1. \A d \in free : At(j.params, d.path) \in ToSet(d.values) /\ At(j.params, d.path) \in values
      BY <2>4, <2>6
    <3> HIDE DEF values, free
    <3> QED BY <3>1
  <2> QED BY <1>4, <2>4, <2>7
<1>6. ASSUME NEW name \in names, NEW f \in choices
      PROVE  \E j \in work : j.variant = name /\ chosen(j) = f
  <2>1. PICK c \in 1..Len(C) : C[c].name = name
    BY <1>4 DEF ToSet
  <2>2. f \in [free -> values] /\ \A a \in free : f[a] \in ToSet(a.values)
    OBVIOUS
  <2>3. PICK a \in 1..Len(A) : Takes(A[a], e.matrix, free, f)
    <3> HIDE DEF free
    <3> QED BY <1>2, <2>2, RowWith
  <2>4. PICK b \in 1..Len(B) : Takes(B[b], request.axes, free, f)
    <3> HIDE DEF free
    <3> QED BY <1>1, <2>2, RowWith
  <2>5. PICK i \in 1..Len(Cells(e)) : CellOf(e, i, a, b, c)
    BY <1>2, CellsAre
  <2>6. 1 \in 1..Len(seeds)
    BY <1>2, SeedsAre
  <2>7. PICK k \in 1..Len(J) : J[k] = CellJob(case, e, i, 1)
    BY <1>3, <2>6
  <2>8. /\ J[k] \in work /\ J[k].params = params(i) /\ params(i) # Refused /\ J[k].variant = name
    <3>1. J[k].params = params(i) /\ J[k].variant = Cells(e)[i][2].name
      BY <2>7 DEF CellJob, Job
    <3>2. J[k].params # Refused
      BY <1>3
    <3>3. J \in Seq(ToSet(J)) /\ k \in 1..Len(J)
      BY <1>3
    <3>4. J[k] \in ToSet(J)
      BY <3>3
    <3> QED BY <2>1, <2>5, <3>1, <3>2, <3>4 DEF CellOf
  <2>9. ASSUME NEW d \in free PROVE At(params(i), d.path) = f[d]
    <3>1. /\ \A x \in 1..Len(e.matrix) : e.matrix[x] = d => A[a][x].value \in {f[d]}
          /\ \A x \in 1..Len(request.axes) : request.axes[x] = d => B[b][x].value \in {f[d]}
      BY <2>3, <2>4, <2>9 DEF Takes
    <3>2. At(params(i), d.path) \in {f[d]}
      BY ONLY Decodes(request), case.params \in Overrides, <1>1, <2>5, <2>8, <2>9, <3>1, CellValue
    <3> QED BY <3>2
  <2> HIDE DEF params
  <2>10. chosen(J[k]) = f
    <3> HIDE DEF free, values
    <3> QED BY <2>2, <2>8, <2>9
  <2> QED BY <2>8, <2>10
<1>7. {<<j.variant, chosen(j)>> : j \in work} = names \X choices
  <2> HIDE DEF work, names, choices, chosen
  <2> QED BY <1>5, <1>6
<1> QED BY <1>7 DEF ChoicesMade

-----------------------------------------------------------------------------
(* The cases of a study.                                                   *)

\* No element comes twice.
OnceEach(s) == \A i, j \in DOMAIN s : s[i] = s[j] => i = j

\* The names in the order they come first in are all different.
LEMMA DistinctIs ==
  ASSUME NEW S, NEW s \in Seq(S)
  PROVE  Distinct(s) \in Seq(S) /\ OnceEach(Distinct(s))
<1> DEFINE n == Len(s)
           V == {t \in Seq(S) : OnceEach(t)}
           next(t, x) == IF x \in ToSet(t) THEN t ELSE Append(t, x)
           st == [x \in V \X (1..n) |-> next(x[1], s[x[2]])]
           Table(f) == f = [d \in SUBSET DOMAIN s |->
             IF d = {} THEN <<>> ELSE next(f[d \ {Max(d)}], s[Max(d)])]
           g == CHOOSE f : Table(f)
<1>1. n \in Nat /\ DOMAIN s = 1..n /\ \A i \in 1..n : s[i] \in S
  OBVIOUS
<1>2. ASSUME NEW t \in V, NEW x \in S PROVE next(t, x) \in V
  <2>1. CASE x \in ToSet(t)
    BY <2>1
  <2>2. CASE x \notin ToSet(t)
    <3> DEFINE u == Append(t, x)
    <3>1. /\ u \in Seq(S) /\ DOMAIN t = 1..Len(t) /\ Len(t) \in Nat
          /\ DOMAIN u = 1..(Len(t) + 1) /\ u[Len(t) + 1] = x /\ \A i \in 1..Len(t) : u[i] = t[i]
      OBVIOUS
    <3> HIDE DEF u
    <3>2. \A i \in 1..Len(t) : t[i] # x
      BY <2>2, <3>1 DEF ToSet
    <3>3. OnceEach(t)
      OBVIOUS
    <3>4. OnceEach(u)
      BY <3>1, <3>2, <3>3 DEF OnceEach
    <3> QED BY <2>2, <3>1, <3>4 DEF u
  <2> QED BY <2>1, <2>2
<1>3. <<>> \in V
  BY DEF OnceEach
<1> HIDE DEF V, next
<1>4. \A v \in V : \A i \in 1..n : st[<<v, i>>] \in V
  BY <1>1, <1>2
<1>5. PICK h : Folded(h, n, <<>>, st) /\ \A d \in SUBSET (1..n) : h[d] \in V
  <2> HIDE DEF st, n
  <2> QED BY <1>1, <1>3, <1>4, FoldTable
<1>6. Table(h)
  <2>1. ASSUME NEW d \in SUBSET (1..n), d # {}
        PROVE  /\ h[d \ {Max(d)}] \in V /\ Max(d) \in 1..n
    BY <1>1, <1>5, <2>1, Greatest
  <2>2. ASSUME NEW d \in SUBSET (1..n), d # {}
        PROVE  st[<<h[d \ {Max(d)}], Max(d)>>] = next(h[d \ {Max(d)}], s[Max(d)])
    BY <2>1, <2>2
  <2> HIDE DEF st
  <2> QED BY <1>1, <1>5, <2>2 DEF Folded
<1>7. Table(g)
  BY <1>6
<1>8. Distinct(s) = g[1..n]
  <2>1. Distinct(s) = g[DOMAIN s]
    BY DEF Distinct, FoldLeft, MapThenFoldSet, next
  <2> QED BY <1>1, <2>1
<1> HIDE DEF g
<1> DEFINE T == {i \in 0..n : g[1..i] \in V}
<1>9. 0 \in T
  <2>1. 1..0 = {} /\ {} \in SUBSET (1..n)
    OBVIOUS
  <2> QED BY <1>1, <1>3, <1>7, <2>1
<1>10. ASSUME NEW i \in 1..n, i - 1 \in T PROVE i \in T
  <2>1. /\ 1..i \in SUBSET (DOMAIN s) /\ 1..i # {}
        /\ Max(1..i) = i /\ (1..i) \ {Max(1..i)} = 1..(i - 1)
    BY <1>1, Prefix
  <2>2. g[1..i] = next(g[1..(i - 1)], s[i])
    BY <1>7, <2>1
  <2> QED BY <1>1, <1>2, <1>10, <2>2
<1>11. n \in T
  <2>1. \A i \in 0..n : i \in T
    <3> HIDE DEF T, n
    <3> QED BY <1>1, <1>9, <1>10, UpTo
  <2> QED BY <1>1, <2>1
<1> QED BY <1>8, <1>11 DEF V

\* The names that a selector finds are names of the registry.
LEMMA SelectedIs ==
  ASSUME Listed(request.lab)
  PROVE  Selected(request) \in Seq({e.name : e \in ToSet(request.lab)})
<1> DEFINE s == request.lab
           n == Len(s)
           S == {e.name : e \in ToSet(s)}
           V == Seq(S)
           next(t, e) == IF request.selector \subseteq e.tags THEN Append(t, e.name) ELSE t
           st == [x \in V \X (1..n) |-> next(x[1], s[x[2]])]
           Table(f) == f = [d \in SUBSET DOMAIN s |->
             IF d = {} THEN <<>> ELSE next(f[d \ {Max(d)}], s[Max(d)])]
           g == CHOOSE f : Table(f)
<1>1. n \in Nat /\ DOMAIN s = 1..n /\ \A i \in 1..n : s[i].name \in S
  <2>1. s \in Seq(ToSet(s))
    BY DEF Listed
  <2> HIDE DEF s
  <2> QED BY <2>1
<1>2. ASSUME NEW t \in V, NEW i \in 1..n PROVE next(t, s[i]) \in V
  <2>1. s[i].name \in S
    BY <1>1
  <2> HIDE DEF S, s
  <2> QED BY <2>1
<1>3. <<>> \in V
  OBVIOUS
<1> HIDE DEF V, next, s
<1>4. \A v \in V : \A i \in 1..n : st[<<v, i>>] \in V
  BY <1>1, <1>2
<1>5. PICK h : Folded(h, n, <<>>, st) /\ \A d \in SUBSET (1..n) : h[d] \in V
  <2> HIDE DEF st, n
  <2> QED BY <1>1, <1>3, <1>4, FoldTable
<1>6. Table(h)
  <2>1. ASSUME NEW d \in SUBSET (1..n), d # {}
        PROVE  /\ h[d \ {Max(d)}] \in V /\ Max(d) \in 1..n
    BY <1>1, <1>5, <2>1, Greatest
  <2>2. ASSUME NEW d \in SUBSET (1..n), d # {}
        PROVE  st[<<h[d \ {Max(d)}], Max(d)>>] = next(h[d \ {Max(d)}], s[Max(d)])
    BY <2>1, <2>2
  <2> HIDE DEF st
  <2> QED BY <1>1, <1>5, <2>2 DEF Folded
<1>7. Table(g)
  BY <1>6
<1>8. request.selector # NoSelector => Selected(request) = g[1..n]
  <2>1. request.selector # NoSelector => Selected(request) = g[DOMAIN s]
    BY DEF Selected, FoldLeft, MapThenFoldSet, next, s
  <2> QED BY <1>1, <2>1
<1> HIDE DEF g
<1> DEFINE T == {i \in 0..n : g[1..i] \in V}
<1>9. 0 \in T
  <2>1. 1..0 = {} /\ {} \in SUBSET (1..n)
    OBVIOUS
  <2> QED BY <1>1, <1>3, <1>7, <2>1
<1>10. ASSUME NEW i \in 1..n, i - 1 \in T PROVE i \in T
  <2>1. /\ 1..i \in SUBSET (DOMAIN s) /\ 1..i # {}
        /\ Max(1..i) = i /\ (1..i) \ {Max(1..i)} = 1..(i - 1)
    BY <1>1, Prefix
  <2>2. g[1..i] = next(g[1..(i - 1)], s[i])
    BY <1>7, <2>1
  <2> QED BY <1>1, <1>2, <1>10, <2>2
<1>11. n \in T
  <2>1. \A i \in 0..n : i \in T
    <3> HIDE DEF T, n
    <3> QED BY <1>1, <1>9, <1>10, UpTo
  <2> QED BY <1>1, <2>1
<1>12. request.selector = NoSelector => Selected(request) = <<>>
  BY DEF Selected
<1> QED BY <1>3, <1>8, <1>11, <1>12 DEF V, s

\* The cases of a study: none twice, and each with overrides.
LEMMA CasesAre ==
  ASSUME Decodes(request), Cases(request) # Refused
  PROVE  /\ Cases(request) \in Seq(ToSet(Cases(request)))
         /\ \A i \in DOMAIN Cases(request) : Cases(request)[i].params \in Overrides
         /\ \A i, j \in DOMAIN Cases(request) :
              Cases(request)[i].name = Cases(request)[j].name
                /\ Cases(request)[i].experiment = Cases(request)[j].experiment => i = j
<1> DEFINE experiments == Distinct(request.experiments \o Selected(request))
           given == Malformed \notin {request.experiments, request.selector}
           mixed == request.experiments # <<>> \/ request.selector # NoSelector
           named == [i \in DOMAIN experiments |->
                       [name |-> NoName, experiment |-> experiments[i], params |-> <<>>]]
<1>1. \/ given /\ request.conditions # <<>> /\ Cases(request) = request.conditions
      \/ given /\ Cases(request) = named
  <2>1. CASE given /\ request.conditions # <<>> /\ ~mixed
    BY <2>1 DEF Cases
  <2>2. CASE given /\ request.conditions = <<>> /\ experiments # <<>>
    BY <2>2 DEF Cases
  <2>3. CASE /\ ~(given /\ request.conditions # <<>> /\ ~mixed)
             /\ ~(given /\ request.conditions = <<>> /\ experiments # <<>>)
    BY <2>3 DEF Cases
  <2> QED BY <2>1, <2>2, <2>3
<1>2. CASE Cases(request) = request.conditions
  <2>1. Listed(request.conditions) /\ \A c \in ToSet(request.conditions) : c.params \in Overrides
    BY DecodedParts
  <2>2. \A i, j \in DOMAIN request.conditions : request.conditions[i].name = request.conditions[j].name => i = j
    BY DEF Decodes, ParsedStudy, ParsedConditions
  <2> QED BY <1>2, <2>1, <2>2 DEF Listed, ToSet
<1>3. CASE given /\ Cases(request) = named
  <2>1. request.experiments \in Seq(ToSet(request.experiments))
    BY <1>3 DEF Decodes, WrittenStudy, Listed
  <2>2. Selected(request) \in Seq({e.name : e \in ToSet(request.lab)})
    BY DecodedParts, SelectedIs
  <2> DEFINE S == ToSet(request.experiments) \cup {e.name : e \in ToSet(request.lab)}
  <2>3. request.experiments \o Selected(request) \in Seq(S)
    BY <2>1, <2>2
  <2>4. experiments \in Seq(S) /\ OnceEach(experiments)
    <3> HIDE DEF S
    <3> QED BY <2>3, DistinctIs
  <2> HIDE DEF experiments, S
  <2>5. DOMAIN experiments = 1..Len(experiments) /\ Len(experiments) \in Nat
    BY <2>4
  <2>6. named \in Seq({named[i] : i \in DOMAIN experiments})
    BY <2>5
  <2>7. named \in Seq(ToSet(named))
    BY <2>6, SeqOfElements
  <2>8. \A i \in DOMAIN named : named[i].params = <<>>
    OBVIOUS
  <2>9. \A i, j \in DOMAIN named : named[i].experiment = named[j].experiment => i = j
    BY <2>4 DEF OnceEach
  <2>10. <<>> \in Overrides
    BY DEF Overrides
  <2> HIDE DEF named
  <2> QED BY <1>3, <2>7, <2>8, <2>9, <2>10
<1> QED BY <1>1, <1>2, <1>3

-----------------------------------------------------------------------------
(* The plan: the jobs of its cases, one case after the other.              *)

\* The jobs of a plan, case after case.
Joins(f, cs) ==
  /\ f[0] = <<>> /\ Plan(request) = f[Len(cs)]
  /\ \A i \in 1..Len(cs) : /\ CaseJobs(request, cs[i]) # Refused
                           /\ f[i] = f[i - 1] \o CaseJobs(request, cs[i])

\* There is the table of such jobs, and none of it was refused.
LEMMA PlanSteps ==
  ASSUME Decodes(request), Plan(request) # Refused
  PROVE  \E f : Joins(f, Cases(request))
<1> DEFINE cs == Cases(request)
           n == Len(cs)
           J == [i \in 1..n |-> CaseJobs(request, cs[i])]
           U == UNION {ToSet(J[i]) : i \in 1..n}
           V == Seq(U) \cup {Refused}
           next(v, j) == IF v = Refused \/ j = Refused THEN Refused ELSE v \o j
           st == [x \in V \X (1..n) |-> next(x[1], J[x[2]])]
           Table(f) == f = [d \in SUBSET DOMAIN cs |->
             IF d = {} THEN <<>> ELSE next(f[d \ {Max(d)}], CaseJobs(request, cs[Max(d)]))]
           g == CHOOSE f : Table(f)
<1>1. cs # Refused
  BY DEF Plan, Decodes
<1>2. n \in Nat /\ DOMAIN cs = 1..n
  <2>1. cs \in Seq(ToSet(cs))
    BY <1>1, CasesAre
  <2> QED BY <2>1
<1> HIDE DEF n
<1>3. ASSUME NEW i \in 1..n, J[i] # Refused PROVE J[i] \in Seq(U)
  <2>1. J[i] \in Seq(ToSet(J[i]))
    BY <1>3, JobsAre
  <2>2. ToSet(J[i]) \subseteq U
    OBVIOUS
  <2> HIDE DEF J, U
  <2> QED BY <2>1, <2>2
<1>4. \A i \in 1..n : J[i] = CaseJobs(request, cs[i])
  OBVIOUS
<1> HIDE DEF J, U
<1>5. \A v \in V : \A i \in 1..n : st[<<v, i>>] \in V
  BY <1>3
<1>6. PICK h : Folded(h, n, <<>>, st) /\ \A d \in SUBSET (1..n) : h[d] \in V
  <2>1. <<>> \in V
    OBVIOUS
  <2> HIDE DEF st, V
  <2> QED BY <1>2, <1>5, <2>1, FoldTable
<1> HIDE DEF next, cs, V
<1>7. Table(h)
  <2>1. ASSUME NEW d \in SUBSET (1..n), d # {}
        PROVE  /\ h[d \ {Max(d)}] \in V /\ Max(d) \in 1..n
    BY <1>2, <1>6, <2>1, Greatest
  <2>2. ASSUME NEW d \in SUBSET (1..n), d # {}
        PROVE  st[<<h[d \ {Max(d)}], Max(d)>>] = next(h[d \ {Max(d)}], CaseJobs(request, cs[Max(d)]))
    BY <1>4, <2>1, <2>2
  <2> HIDE DEF st
  <2> QED BY <1>2, <1>6, <2>2 DEF Folded
<1>8. Table(g)
  BY <1>7
<1>9. Plan(request) = g[1..n]
  <2>1. Plan(request) = g[DOMAIN cs]
    BY DEF Plan, FoldLeft, MapThenFoldSet, next, cs
  <2> QED BY <1>2, <2>1
<1> HIDE DEF g
<1>10. g[1..0] = <<>>
  <2>1. 1..0 = {} /\ {} \in SUBSET (1..n)
    OBVIOUS
  <2> QED BY <1>2, <1>8, <2>1
<1>11. ASSUME NEW i \in 1..n
       PROVE  g[1..i] = next(g[1..(i - 1)], CaseJobs(request, cs[i]))
  <2>1. /\ 1..i \in SUBSET (DOMAIN cs) /\ 1..i # {}
        /\ Max(1..i) = i /\ (1..i) \ {Max(1..i)} = 1..(i - 1)
    BY <1>2, Prefix
  <2> QED BY <1>8, <2>1
<1> DEFINE f == [i \in 0..n |-> g[1..i]]
<1>12. /\ f[0] = <<>> /\ Plan(request) = f[n]
       /\ \A i \in 1..n : f[i] = next(f[i - 1], CaseJobs(request, cs[i]))
  BY <1>2, <1>9, <1>10, <1>11
<1> HIDE DEF f
<1>13. \A i \in 0..n : f[i] # Refused
  <2> DEFINE T == {i \in 0..n : f[n - i] # Refused}
  <2>1. 0 \in T
    BY <1>2, <1>12
  <2>2. ASSUME NEW i \in 1..n, i - 1 \in T PROVE i \in T
    <3>1. n - i + 1 \in 1..n /\ n - (i - 1) = n - i + 1 /\ n - i = (n - i + 1) - 1 /\ i \in 0..n
      BY <1>2
    <3>2. f[n - i + 1] # Refused
      BY <2>2, <3>1
    <3>3. f[(n - i + 1) - 1] # Refused
      BY <1>12, <3>1, <3>2 DEF next
    <3> QED BY <3>1, <3>3
  <2>3. \A i \in 0..n : i \in T
    <3> HIDE DEF T
    <3> QED BY <1>2, <2>1, <2>2, UpTo
  <2> SUFFICES ASSUME NEW i \in 0..n PROVE f[i] # Refused
    OBVIOUS
  <2>4. n - i \in 0..n /\ n - (n - i) = i
    BY <1>2
  <2> QED BY <2>3, <2>4
<1>14. \A i \in 1..n : CaseJobs(request, cs[i]) # Refused /\ f[i] = f[i - 1] \o CaseJobs(request, cs[i])
  <2> SUFFICES ASSUME NEW i \in 1..n
               PROVE  CaseJobs(request, cs[i]) # Refused /\ f[i] = f[i - 1] \o CaseJobs(request, cs[i])
    OBVIOUS
  <2>1. f[i] # Refused /\ f[i] = next(f[i - 1], CaseJobs(request, cs[i]))
    BY <1>2, <1>12, <1>13
  <2> QED BY <2>1 DEF next
<1>15. Joins(f, cs)
  BY <1>12, <1>14 DEF Joins, n
<1> QED BY <1>15 DEF cs

\* The jobs of the c-th case are in one place of work, and nowhere else.
Block(work, cs, c, a) ==
  LET block == CaseJobs(request, cs[c])
  IN /\ a + Len(block) <= Len(work)
     /\ \A k \in 1..Len(block) : work[a + k] = block[k]
     /\ \A k \in 1..Len(work) :
          k \in (a + 1)..(a + Len(block)) \/ \E d \in 1..Len(cs) : d # c /\ work[k] \in ToSet(CaseJobs(request, cs[d]))

\* Every job is one of the first n cases.
OfCases(work, cs, n) == \A k \in 1..Len(work) : \E d \in 1..n : work[k] \in ToSet(CaseJobs(request, cs[d]))

\* The places of two sequences joined.
LEMMA JoinedPlaces ==
  ASSUME NEW S, NEW s \in Seq(S), NEW t \in Seq(S)
  PROVE  /\ s \o t \in Seq(S)
         /\ Len(s \o t) = Len(s) + Len(t)
         /\ \A k \in 1..Len(s) : k \in 1..Len(s \o t) /\ (s \o t)[k] = s[k]
         /\ \A k \in 1..Len(t) : Len(s) + k \in 1..Len(s \o t) /\ (s \o t)[Len(s) + k] = t[k]
         /\ \A k \in 1..Len(s \o t) : k \in 1..Len(s) \/ k \in (Len(s) + 1)..(Len(s) + Len(t))
OBVIOUS

\* The jobs of one more case leave those of the others in their places.
LEMMA BlockJoined ==
  ASSUME NEW S, NEW cs \in Seq(S), NEW U, NEW work \in Seq(U), NEW i \in 1..Len(cs),
         \A c \in 1..Len(cs) : CaseJobs(request, cs[c]) \in Seq(U), OfCases(work, cs, i - 1),
         \A c \in 1..(i - 1) : \E a \in Nat : Block(work, cs, c, a),
         NEW more, more = work \o CaseJobs(request, cs[i])
  PROVE  OfCases(more, cs, i) /\ \A c \in 1..i : \E a \in Nat : Block(more, cs, c, a)
<1> DEFINE J == CaseJobs(request, cs[i])
           n == Len(work)
           m == Len(J)
           Of(d, x) == x \in ToSet(CaseJobs(request, cs[d]))
<1>1. /\ Len(more) = n + m /\ n \in Nat /\ m \in Nat
      /\ \A k \in 1..n : k \in 1..Len(more) /\ more[k] = work[k]
      /\ \A k \in 1..m : n + k \in 1..Len(more) /\ more[n + k] = J[k]
      /\ \A k \in 1..Len(more) : k \in 1..n \/ k \in (n + 1)..(n + m)
  BY JoinedPlaces
<1>2. ASSUME NEW k \in (n + 1)..(n + m) PROVE Of(i, more[k])
  <2>1. k - n \in 1..m /\ n + (k - n) = k
    BY <1>1
  <2>2. more[k] = J[k - n]
    BY <1>1, <2>1
  <2> QED BY <2>1, <2>2 DEF ToSet
<1>3. \A k \in 1..n : \E d \in 1..(i - 1) : Of(d, more[k])
  BY <1>1 DEF OfCases
<1>4. i \in Nat /\ i \in 1..i /\ Len(cs) \in Nat /\ \A d \in 1..(i - 1) : d \in 1..i /\ d # i /\ d \in 1..Len(cs)
  OBVIOUS
<1> HIDE DEF J, n, m, Of
<1>5. OfCases(more, cs, i)
  BY <1>1, <1>2, <1>3, <1>4 DEF OfCases, Of
<1>6. Block(more, cs, i, n)
  <2>1. n + m <= Len(more) /\ \A k \in 1..m : more[n + k] = J[k]
    BY <1>1
  <2>2. \A k \in 1..Len(more) : k \in (n + 1)..(n + m) \/ \E d \in 1..Len(cs) : d # i /\ Of(d, more[k])
    BY <1>1, <1>3, <1>4
  <2> QED BY <2>1, <2>2 DEF Block, J, m, Of
<1>7. ASSUME NEW c \in 1..(i - 1) PROVE \E a \in Nat : Block(more, cs, c, a)
  <2>1. PICK a \in Nat : Block(work, cs, c, a)
    OBVIOUS
  <2> DEFINE K == CaseJobs(request, cs[c])
             w == Len(K)
  <2>2. /\ a + w <= n
        /\ \A k \in 1..w : work[a + k] = K[k]
        /\ \A k \in 1..n : k \in (a + 1)..(a + w) \/ \E d \in 1..Len(cs) : d # c /\ Of(d, work[k])
    BY <2>1 DEF Block, n, Of
  <2>3. w \in Nat
    BY <1>4
  <2> HIDE DEF K, w
  <2>4. a + w <= Len(more)
    BY <1>1, <2>2, <2>3
  <2>5. \A k \in 1..w : more[a + k] = K[k]
    <3> SUFFICES ASSUME NEW k \in 1..w PROVE more[a + k] = K[k]
      OBVIOUS
    <3>1. a + k \in 1..n
      BY <1>1, <2>2, <2>3
    <3> QED BY <1>1, <2>2, <3>1
  <2>6. ASSUME NEW k \in 1..Len(more), k \notin (a + 1)..(a + w)
        PROVE  \E d \in 1..Len(cs) : d # c /\ Of(d, more[k])
    <3>1. CASE k \in 1..n
      BY <1>1, <2>2, <2>6, <3>1
    <3>2. CASE k \in (n + 1)..(n + m)
      BY <1>2, <1>4, <3>2
    <3> QED BY <1>1, <2>6, <3>1, <3>2
  <2>7. Block(more, cs, c, a)
    BY <2>4, <2>5, <2>6 DEF Block, K, w, Of
  <2> QED BY <2>7
<1>8. ASSUME NEW c \in 1..i PROVE \E a \in Nat : Block(more, cs, c, a)
  <2>1. c = i \/ c \in 1..(i - 1)
    BY <1>4
  <2> QED BY <1>1, <1>6, <1>7, <2>1
<1> QED BY <1>5, <1>8

\* Each case that is planned has the jobs of its own in one place of the plan.
LEMMA PlanIs ==
  ASSUME Decodes(request), Plan(request) # Refused,
         NEW cs, cs = Cases(request), NEW U, U = UNION {ToSet(CaseJobs(request, cs[c])) : c \in 1..Len(cs)}
  PROVE  /\ cs # Refused /\ cs \in Seq(ToSet(cs))
         /\ Plan(request) \in Seq(U)
         /\ OfCases(Plan(request), cs, Len(cs))
         /\ \A c \in 1..Len(cs) : /\ CaseJobs(request, cs[c]) # Refused
                                 /\ CaseJobs(request, cs[c]) \in Seq(U)
                                 /\ \E a \in Nat : Block(Plan(request), cs, c, a)
<1> DEFINE n == Len(cs)
<1>1. cs # Refused
  BY DEF Plan, Decodes
<1>2. cs \in Seq(ToSet(cs))
  BY <1>1, CasesAre
<1>3. n \in Nat
  BY <1>2
<1>4. PICK f : Joins(f, cs)
  BY PlanSteps
<1>5. ASSUME NEW c \in 1..n PROVE CaseJobs(request, cs[c]) # Refused /\ CaseJobs(request, cs[c]) \in Seq(U)
  <2> DEFINE J == CaseJobs(request, cs[c])
  <2>1. J # Refused
    BY <1>4 DEF Joins
  <2>2. J \in Seq(ToSet(J))
    BY <2>1, JobsAre
  <2>3. ToSet(J) \subseteq U
    OBVIOUS
  <2> HIDE DEF J
  <2>4. J # Refused /\ J \in Seq(U)
    BY <2>1, <2>2, <2>3
  <2> QED BY <2>4 DEF J
<1> DEFINE Grown(work, i) == /\ work \in Seq(U) /\ OfCases(work, cs, i)
                             /\ \A c \in 1..i : \E a \in Nat : Block(work, cs, c, a)
           T == {i \in 0..n : Grown(f[i], i)}
<1>6. 0 \in T
  <2>1. f[0] = <<>> /\ 0 \in 0..n
    BY <1>3, <1>4 DEF Joins
  <2>2. OfCases(<<>>, cs, 0)
    BY DEF OfCases
  <2>3. <<>> \in Seq(U) /\ 1..0 = {}
    OBVIOUS
  <2> HIDE DEF n
  <2> QED BY <2>1, <2>2, <2>3
<1>7. ASSUME NEW i \in 1..n, i - 1 \in T PROVE i \in T
  <2>1. f[i] = f[i - 1] \o CaseJobs(request, cs[i])
    BY <1>4 DEF Joins
  <2>2. Grown(f[i - 1], i - 1)
    BY <1>7
  <2>3. f[i] \in Seq(U)
    BY <1>5, <2>1, <2>2
  <2>4. OfCases(f[i], cs, i) /\ \A c \in 1..i : \E a \in Nat : Block(f[i], cs, c, a)
    BY <1>2, <1>5, <2>1, <2>2, BlockJoined
  <2> QED BY <1>3, <2>3, <2>4
<1>8. n \in T
  <2>1. \A i \in 0..n : i \in T
    <3> HIDE DEF T, n
    <3> QED BY <1>3, <1>6, <1>7, UpTo
  <2>2. n \in 0..n
    BY <1>3
  <2> HIDE DEF T, n
  <2> QED BY <2>1, <2>2
<1>9. Plan(request) = f[n]
  BY <1>4 DEF Joins
<1> QED BY <1>1, <1>2, <1>5, <1>8, <1>9

\* The places in the plan of the jobs of a case.
PlacesOf(case) == {k \in DOMAIN plan : plan[k].condition = case.name /\ plan[k].experiment = case.experiment}

\* They are the place of its jobs.
LEMMA PlacesAre ==
  ASSUME Decodes(request), plan = Plan(request), plan # Refused,
         NEW c \in DOMAIN Cases(request), NEW J, J = CaseJobs(request, Cases(request)[c])
  PROVE  /\ J # Refused
         /\ \E a \in Nat : PlacesOf(Cases(request)[c]) = (a + 1)..(a + Len(J))
         /\ {plan[k] : k \in PlacesOf(Cases(request)[c])} = ToSet(J)
<1> DEFINE cs == Cases(request)
           case == cs[c]
           m == Len(J)
           U == UNION {ToSet(CaseJobs(request, cs[d])) : d \in 1..Len(cs)}
<1>1. /\ cs # Refused /\ cs \in Seq(ToSet(cs)) /\ plan \in Seq(U)
      /\ \A d \in 1..Len(cs) : /\ CaseJobs(request, cs[d]) # Refused
                               /\ CaseJobs(request, cs[d]) \in Seq(U)
                               /\ \E a \in Nat : Block(plan, cs, d, a)
  <2> HIDE DEF cs
  <2> QED BY PlanIs DEF cs
<1> HIDE DEF U
<1>2. DOMAIN cs = 1..Len(cs) /\ DOMAIN plan = 1..Len(plan) /\ Len(plan) \in Nat
  BY <1>1
<1>3. J # Refused /\ J \in Seq(U)
  BY <1>1, <1>2
<1>4. DOMAIN J = 1..m /\ m \in Nat
  BY <1>3
<1>5. \A d \in 1..Len(cs) : \A j : j \in ToSet(CaseJobs(request, cs[d])) =>
        j.condition = cs[d].name /\ j.experiment = cs[d].experiment
  <2> SUFFICES ASSUME NEW d \in 1..Len(cs), NEW j \in ToSet(CaseJobs(request, cs[d]))
               PROVE  j.condition = cs[d].name /\ j.experiment = cs[d].experiment
    OBVIOUS
  <2>1. CaseJobs(request, cs[d]) # Refused
    BY <1>1
  <2> HIDE DEF cs
  <2> QED BY <2>1, JobsSeeded
<1>6. \A i, j \in 1..Len(cs) : cs[i].name = cs[j].name /\ cs[i].experiment = cs[j].experiment => i = j
  BY <1>1, <1>2, CasesAre
<1>7. PICK a \in Nat : Block(plan, cs, c, a)
  BY <1>1, <1>2
<1>8. c \in 1..Len(cs) /\ J = CaseJobs(request, cs[c])
  BY <1>2
<1> HIDE DEF cs
<1>9. /\ a + m <= Len(plan)
      /\ \A k \in 1..m : plan[a + k] = J[k]
      /\ \A k \in 1..Len(plan) : k \in (a + 1)..(a + m) \/
           \E d \in 1..Len(cs) : d # c /\ plan[k] \in ToSet(CaseJobs(request, cs[d]))
  BY <1>7, <1>8 DEF Block
<1>10. ASSUME NEW k \in (a + 1)..(a + m) PROVE k \in 1..Len(plan) /\ plan[k] \in ToSet(J)
  <2>1. k - a \in 1..m /\ a + (k - a) = k /\ k \in 1..Len(plan)
    BY <1>2, <1>4, <1>9
  <2>2. plan[k] = J[k - a]
    BY <1>9, <2>1
  <2> QED BY <1>4, <2>1, <2>2 DEF ToSet
<1>11. \A k \in (a + 1)..(a + m) : k \in PlacesOf(case)
  BY <1>2, <1>5, <1>8, <1>10 DEF PlacesOf
<1>12. ASSUME NEW k \in PlacesOf(case) PROVE k \in (a + 1)..(a + m)
  <2>1. k \in 1..Len(plan) /\ plan[k].condition = cs[c].name /\ plan[k].experiment = cs[c].experiment
    BY <1>2 DEF PlacesOf
  <2>2. ASSUME NEW d \in 1..Len(cs), d # c, plan[k] \in ToSet(CaseJobs(request, cs[d])) PROVE FALSE
    <3>1. cs[d].name = cs[c].name /\ cs[d].experiment = cs[c].experiment
      BY <1>5, <2>1, <2>2
    <3> QED BY <1>6, <1>8, <2>2, <3>1
  <2> QED BY <1>9, <2>1, <2>2
<1>13. PlacesOf(case) = (a + 1)..(a + m)
  <2> HIDE DEF case, m
  <2> QED BY <1>11, <1>12
<1>14. ASSUME NEW j \in ToSet(J) PROVE \E k \in (a + 1)..(a + m) : plan[k] = j
  <2>1. PICK k \in 1..m : J[k] = j
    BY <1>4 DEF ToSet
  <2>2. a + k \in (a + 1)..(a + m)
    BY <1>4
  <2> QED BY <1>9, <2>1, <2>2
<1>15. {plan[k] : k \in PlacesOf(case)} = ToSet(J)
  BY <1>10, <1>13, <1>14
<1> QED BY <1>3, <1>13, <1>15 DEF cs

\* A case has all of its cells.
LEMMA CaseCovered ==
  ASSUME Decodes(request), plan = Plan(request), plan # Refused,
         NEW c \in DOMAIN Cases(request), NEW case, case = Cases(request)[c],
         NEW e, e = Experiment(request, case.experiment)
  PROVE  CellsSeeded(e, PlacesOf(case)) /\ ChoicesMade(e, {plan[k] : k \in PlacesOf(case)})
<1> DEFINE J == CaseJobs(request, case)
           seeds == Seeds(request, e)
           work == {plan[k] : k \in PlacesOf(case)}
           n == Product(e.matrix) * Product(request.axes) * Len(VariantRows(request.variants))
<1>1. J # Refused /\ work = ToSet(J)
  BY PlacesAre
<1>2. PICK a \in Nat : PlacesOf(case) = (a + 1)..(a + Len(J))
  BY PlacesAre
<1>3. case.params \in Overrides
  <2>1. Cases(request) # Refused
    BY DEF Plan, Decodes
  <2> QED BY <2>1, CasesAre
<1>4. ChoicesMade(e, work)
  BY <1>1, <1>3, JobsChoose
<1>5. J \in Seq(ToSet(J)) /\ Seeded(J, e)
  BY <1>1, JobsAre
<1>6. Gridded(e) /\ Listed(e.seeds)
  BY <1>1, CaseParts, CellsAre
<1>7. /\ {<<j.cell, j.seed>> : j \in work} = (0..(Len(Cells(e)) - 1)) \X ToSet(seeds)
      /\ \A j, k \in work : j.cell = k.cell => j.params = k.params /\ j.variant = k.variant
  BY <1>1, JobsSeeded
<1>8. Len(Cells(e)) = n
  BY <1>6 DEF Gridded
<1>9. Cardinality(PlacesOf(case)) = Len(J)
  <2>1. Len(J) \in Nat
    BY <1>5
  <2> HIDE DEF J
  <2>2. a + 1 \in Int /\ a + Len(J) \in Int
    BY <2>1
  <2>3. Cardinality((a + 1)..(a + Len(J))) = IF a + 1 > a + Len(J) THEN 0 ELSE (a + Len(J)) - (a + 1) + 1
    BY <2>2, FS_Interval
  <2> QED BY <1>2, <2>1, <2>3
<1>10. Len(J) = n * Len(seeds)
  BY <1>5, <1>8 DEF Seeded
<1> HIDE DEF J
<1>11. CellsSeeded(e, PlacesOf(case))
  BY <1>7, <1>8, <1>9, <1>10 DEF CellsSeeded
<1> QED BY <1>4, <1>11

\* A plan has the jobs of every case, and no other job.
LEMMA PlanCoversAll ==
  ASSUME Decodes(request), plan = Plan(request), plan # Refused
  PROVE  PlanCovers
<1> DEFINE cs == Cases(request)
           U == UNION {ToSet(CaseJobs(request, cs[d])) : d \in 1..Len(cs)}
<1>1. /\ cs \in Seq(ToSet(cs)) /\ plan \in Seq(U) /\ OfCases(plan, cs, Len(cs))
      /\ \A d \in 1..Len(cs) : CaseJobs(request, cs[d]) # Refused
  <2> HIDE DEF cs
  <2> QED BY PlanIs DEF cs
<1> HIDE DEF U
<1>2. ASSUME NEW case \in ToSet(cs)
      PROVE  /\ CellsSeeded(Experiment(request, case.experiment), PlacesOf(case))
             /\ ChoicesMade(Experiment(request, case.experiment), {plan[k] : k \in PlacesOf(case)})
  <2>1. PICK c \in DOMAIN cs : case = cs[c]
    BY DEF ToSet
  <2> QED BY <2>1, CaseCovered
<1>3. ASSUME NEW k \in DOMAIN plan PROVE \E case \in ToSet(cs) : k \in PlacesOf(case)
  <2>1. k \in 1..Len(plan)
    BY <1>1
  <2>2. PICK d \in 1..Len(cs) : plan[k] \in ToSet(CaseJobs(request, cs[d]))
    BY <1>1, <2>1 DEF OfCases
  <2>3. d \in DOMAIN cs /\ cs[d] \in ToSet(cs) /\ CaseJobs(request, cs[d]) # Refused
    BY <1>1 DEF ToSet
  <2> HIDE DEF cs
  <2>4. plan[k].condition = cs[d].name /\ plan[k].experiment = cs[d].experiment
    BY <2>2, <2>3, JobsSeeded
  <2> QED BY <2>3, <2>4 DEF PlacesOf
<1>4. DOMAIN plan = UNION {PlacesOf(case) : case \in ToSet(cs)}
  <2>1. \A case : PlacesOf(case) \subseteq DOMAIN plan
    BY DEF PlacesOf
  <2> HIDE DEF cs
  <2> QED BY <1>3, <2>1
<1> QED BY <1>2, <1>4 DEF PlanCovers, PlacesOf

-----------------------------------------------------------------------------
(* What the command line says.                                             *)

\* Every job has the parameters of a cell.
LEMMA JobParams ==
  ASSUME Decodes(request), plan = Plan(request), plan # Refused, NEW k \in DOMAIN plan
  PROVE  \E e, c, m, x, v :
           /\ e = Experiment(request, plan[k].experiment)
           /\ e.params \in Overrides /\ c.params \in Overrides
           /\ m \in Overrides /\ x \in Overrides /\ v.params \in Overrides
           /\ plan[k].params = CellParams(request, e, c, <<<<m, x>>, v>>)
           /\ CellParams(request, e, c, <<<<m, x>>, v>>) # Refused
<1> DEFINE cs == Cases(request)
           U == UNION {ToSet(CaseJobs(request, cs[d])) : d \in 1..Len(cs)}
<1>1. /\ cs # Refused /\ cs \in Seq(ToSet(cs)) /\ plan \in Seq(U) /\ OfCases(plan, cs, Len(cs))
      /\ \A d \in 1..Len(cs) : CaseJobs(request, cs[d]) # Refused
  <2> HIDE DEF cs
  <2> QED BY PlanIs DEF cs
<1> HIDE DEF U
<1>2. k \in 1..Len(plan)
  BY <1>1
<1>3. PICK d \in 1..Len(cs) : plan[k] \in ToSet(CaseJobs(request, cs[d]))
  BY <1>1, <1>2 DEF OfCases
<1>4. d \in DOMAIN cs /\ CaseJobs(request, cs[d]) # Refused
  BY <1>1
<1>5. cs[d].params \in Overrides
  BY <1>1, <1>4, CasesAre
<1> DEFINE case == cs[d]
           J == CaseJobs(request, case)
           e == Experiment(request, case.experiment)
           A == Rows(e.matrix)
           B == Rows(request.axes)
           C == VariantRows(request.variants)
<1> HIDE DEF cs
<1>6. e.params \in Overrides /\ e.matrix \in Seq(DesignAxis) /\ request.axes \in Seq(DesignAxis)
  BY <1>4, CaseParts, DecodedParts
<1>7. /\ J \in Seq(ToSet(J))
      /\ \A i \in 1..Len(J) : /\ J[i].params # Refused
                              /\ \E a \in 1..Len(Cells(e)), s \in 1..Len(Seeds(request, e)) : J[i] = CellJob(case, e, a, s)
  BY <1>4, JobsAre
<1>8. PICK i \in 1..Len(J) : plan[k] = J[i]
  BY <1>3, <1>7 DEF ToSet
<1>9. PICK a \in 1..Len(Cells(e)), s \in 1..Len(Seeds(request, e)) : plan[k] = CellJob(case, e, a, s)
  BY <1>7, <1>8
<1>10. PICK y \in 1..Len(A), b \in 1..Len(B), z \in 1..Len(C) : CellOf(e, a, y, b, z)
  BY <1>6, CellsAre
<1>11. A \in Seq(Overrides) /\ B \in Seq(Overrides) /\ C \in Seq(ToSet(C))
  BY <1>6, GridRows, VariantsAre
<1>12. A[y] \in Overrides /\ B[b] \in Overrides /\ C[z].params \in Overrides
  <2> HIDE DEF A, B
  <2>1. A[y] \in Overrides /\ B[b] \in Overrides
    BY <1>11
  <2>2. C[z] \in ToSet(C)
    BY <1>11 DEF ToSet
  <2> QED BY <2>1, <2>2, VariantsAre
<1>13. plan[k].params = CellParams(request, e, case, <<<<A[y], B[b]>>, C[z]>>)
  BY <1>9, <1>10 DEF CellJob, Job, CellOf
<1>17. e = Experiment(request, plan[k].experiment)
  BY <1>9 DEF CellJob, Job
<1>14. plan[k].params # Refused
  BY <1>7, <1>8
<1>15. e.params \in Overrides /\ case.params \in Overrides
  BY <1>5, <1>6
<1> HIDE DEF e, A, B, C, case
<1> DEFINE m == A[y]
           x == B[b]
           v == C[z]
<1>16. /\ m \in Overrides /\ x \in Overrides /\ v.params \in Overrides
       /\ plan[k].params = CellParams(request, e, case, <<<<m, x>>, v>>)
       /\ CellParams(request, e, case, <<<<m, x>>, v>>) # Refused
  BY <1>12, <1>13, <1>14
<1> HIDE DEF m, x, v
<1> QED BY <1>15, <1>16, <1>17

\* A child is given what the command line says of any path but the seed's, and reads it unless
\* an earlier layer may have left a key with its dots.
LEMMA ExplicitReaches ==
  ASSUME Decodes(request), plan = Plan(request), plan # Refused, NEW k \in DOMAIN plan,
         NEW o \in ToSet(request.explicit), o.path[1] # "seed",
         \A longer \in ToSet(request.explicit) : ~Under(longer.path, o.path)
  PROVE  /\ At(Received(plan[k]), o.path) = o.value
         /\ o.path \notin KeysBefore(plan[k]) => Read(Received(plan[k]), o.path) = o.value
<1> DEFINE params == plan[k].params
           seed == IF plan[k].seed = NoSeed THEN request.default_seed ELSE plan[k].seed
<1>1. PICK e, c, m, x, v :
        /\ e = Experiment(request, plan[k].experiment)
        /\ e.params \in Overrides /\ c.params \in Overrides
        /\ m \in Overrides /\ x \in Overrides /\ v.params \in Overrides
        /\ params = CellParams(request, e, c, <<<<m, x>>, v>>)
        /\ CellParams(request, e, c, <<<<m, x>>, v>>) # Refused
  BY JobParams
<1>2. Holds(params, o.path, o.value)
  BY <1>1, CellExplicit
<1>3. params \in Params /\ DOMAIN ExtendParams(<<>>, request.defaults) \subseteq DOMAIN params
  BY <1>1, CellLayers
<1>4. o.path \in Path
  <2>1. request.explicit \in Seq(Override)
    BY DecodedParts DEF Overrides
  <2>2. o \in Override
    BY <2>1 DEF ToSet
  <2> QED BY <2>2 DEF Override
<1>10. ASSUME Len(o.path) = 2, o.path \notin KeysBefore(plan[k])
       PROVE  KeyIs(params, o.path, o.value)
  <2>1. /\ Omits(request.defaults, o.path) /\ Omits(e.params, o.path) /\ Omits(request.params, o.path)
        /\ Omits(Qualified(request), o.path)
    <3>1. /\ o.path \notin Paths(request.defaults) /\ o.path \notin Paths(e.params)
          /\ o.path \notin Paths(request.params) /\ o.path \notin Paths(Qualified(request))
      <4>1. Paths(<<>>) = {}
        BY DEF Paths
      <4> QED BY <1>1, <1>10, <4>1 DEF KeysBefore, Qualified
    <3>2. /\ request.defaults \in Seq(Override) /\ e.params \in Seq(Override)
          /\ request.params \in Seq(Override) /\ Qualified(request) \in Seq(Override)
      BY <1>1, DecodedParts DEF Overrides
    <3> QED BY <3>1, <3>2 DEF Paths, Omits
  <2> QED BY <1>1, <1>10, <2>1, CellKey
<1> HIDE DEF params
<1>5. params = [q \in DOMAIN params |-> params[q]]
  BY <1>3 DEF Params
<1>6. Received(plan[k]) = IF seed = NoSeed THEN params ELSE Put(params, <<"seed">>, seed)
  BY <1>3, <1>5 DEF Received, params
<1>7. <<o.path[1]>> # <<"seed">> /\ o.path # <<"seed">>
  OBVIOUS
<1> DEFINE given == Put(params, <<"seed">>, seed)
<1>8. Holds(given, o.path, o.value)
  <2>1. \A q : q # <<"seed">> => /\ q \in DOMAIN given <=> q \in DOMAIN params
                                 /\ q \in DOMAIN params => given[q] = params[q]
    BY PutIs
  <2> HIDE DEF given
  <2> QED BY <1>2, <1>7, <2>1, HoldsSame
<1>9. Holds(Received(plan[k]), o.path, o.value)
  BY <1>2, <1>6, <1>8
<1>11. At(Received(plan[k]), o.path) = o.value
  BY <1>4, <1>9, HoldsAt
<1>12. ASSUME o.path \notin KeysBefore(plan[k]) PROVE Read(Received(plan[k]), o.path) = o.value
  <2>1. CASE o.path \notin DOMAIN Received(plan[k])
    BY <1>11, <2>1 DEF Read
  <2>2. CASE o.path \in DOMAIN Received(plan[k]) /\ Len(o.path) = 2
    <3>1. KeyIs(params, o.path, o.value)
      BY <1>10, <1>12, <2>2
    <3>2. o.path \in DOMAIN params /\ Received(plan[k])[o.path] = params[o.path]
      BY <1>6, <1>7, <2>2, PutIs
    <3> QED BY <2>2, <3>1, <3>2 DEF KeyIs, Read
  <2>3. CASE o.path \in DOMAIN Received(plan[k]) /\ Len(o.path) = 1
    BY <1>9, <2>3 DEF Holds, Read
  <2> QED BY <1>4, <2>1, <2>2, <2>3, PathCases
<1> QED BY <1>11, <1>12

-----------------------------------------------------------------------------
(* The plan and the runs of a study.                                       *)

\* What is executed was planned.
Planned == plan = Plan(request) /\ plan # Refused

\* Every run was given the parameters of a job of the plan, and is of its experiment.
Given(rs) == \A i \in DOMAIN rs : \E k \in DOMAIN plan :
               rs[i].params = Received(plan[k]) /\ rs[i].experiment = plan[k].experiment

GridInv ==
  /\ request \in Requests
  /\ pc \in Live \ {"plan"} => Planned
  /\ runs # <<>> => Planned
  /\ Given(runs)

\* A study that was planned was decoded.
LEMMA PlannedDecodes == ASSUME request \in Requests, Planned PROVE Decodes(request)
BY WrittenAssumption DEF Planned, Plan, Decodes

\* What the invariant says of the plan.
LEMMA GridExact == ASSUME GridInv PROVE PlanIsExact
<1>1. PlanCovers
  <2>1. CASE pc = "create"
    BY <2>1, PlannedDecodes, PlanCoversAll DEF GridInv, Planned, Live
  <2>2. CASE pc # "create"
    BY <2>2 DEF PlanCovers
  <2> QED BY <2>1, <2>2
<1>2. ASSUME NEW i \in DOMAIN runs, NEW o \in ToSet(request.explicit), o.path[1] # "seed",
             \A longer \in ToSet(request.explicit) : ~Under(longer.path, o.path)
      PROVE  /\ At(runs[i].params, o.path) = o.value
             /\ o.path \notin KeysBefore(runs[i]) => Read(runs[i].params, o.path) = o.value
  <2>1. Planned
    BY DEF GridInv
  <2>2. PICK k \in DOMAIN plan : runs[i].params = Received(plan[k]) /\ runs[i].experiment = plan[k].experiment
    BY DEF GridInv, Given
  <2>3. /\ At(Received(plan[k]), o.path) = o.value
        /\ o.path \notin KeysBefore(plan[k]) => Read(Received(plan[k]), o.path) = o.value
    BY <1>2, <2>1, PlannedDecodes, ExplicitReaches DEF GridInv, Planned
  <2>4. KeysBefore(runs[i]) = KeysBefore(plan[k])
    BY <2>2 DEF KeysBefore
  <2> QED BY <2>2, <2>3, <2>4
<1>3. ExplicitWins
  BY <1>2 DEF ExplicitWins
<1> QED BY <1>1, <1>3 DEF PlanIsExact

\* The end of a run and retention leave its parameters.
LEMMA EndingGiven ==
  ASSUME Typed, Given(runs), NEW status, NEW promoted
  PROVE  Given(Ending(status, promoted))
<1> DEFINE rs == Ending(status, promoted)
<1>1. DOMAIN rs = DOMAIN runs
  BY DEF Ending
<1>2. ASSUME NEW i \in DOMAIN runs PROVE rs[i].params = runs[i].params /\ rs[i].experiment = runs[i].experiment
  <2>1. runs[i] \in RunOf
    BY DEF Typed
  <2>2. DOMAIN runs[i] = {"experiment", "params", "status", "promoted", "kept"}
    BY <2>1 DEF RunOf
  <2>3. rs[i] = runs[i] \/ rs[i] = [runs[i] EXCEPT !.status = status, !.promoted = promoted]
    BY DEF Ending
  <2> QED BY <2>2, <2>3
<1> QED BY <1>1, <1>2 DEF Given

\* A pass of retention leaves the parameters.
LEMMA WithoutGiven ==
  ASSUME NEW rs, \A i \in DOMAIN rs : {"params", "experiment"} \subseteq DOMAIN rs[i], Given(rs), NEW gone
  PROVE  Given(Without(rs, gone))
<1>1. \A i \in DOMAIN rs : Without(rs, gone)[i].params = rs[i].params /\ Without(rs, gone)[i].experiment = rs[i].experiment
  BY DEF Without
<1> QED BY <1>1 DEF Given, Without

\* Before the plan there is nothing to say.
LEMMA InitGrid == Init => GridInv
BY DEF Init, GridInv, Given

\* A run has parameters and an experiment.
LEMMA RunParams == ASSUME NEW rs \in Seq(RunOf) PROVE \A i \in DOMAIN rs : {"params", "experiment"} \subseteq DOMAIN rs[i]
<1> SUFFICES ASSUME NEW i \in DOMAIN rs PROVE {"params", "experiment"} \subseteq DOMAIN rs[i]
  OBVIOUS
<1>1. rs[i] \in RunOf
  OBVIOUS
<1> QED BY <1>1 DEF RunOf

\* Steps that plan nothing.
LEMMA GridStays ==
  ASSUME GridInv, UNCHANGED <<request, plan>>, pc # "plan" \/ pc' \notin Live \ {"plan"},
         pc \in Live \/ pc' \notin Live,
         runs' # <<>> => runs # <<>> \/ Planned, Given(runs')
  PROVE  GridInv'
<1>1. Given(runs)'
  BY DEF Given, Received
<1>2. Planned' <=> Planned
  BY DEF Planned
<1> QED BY <1>1, <1>2 DEF GridInv

\* A new run is given those of the next job.
LEMMA NewGiven ==
  ASSUME IInv, GridInv, pc = "next", Len(children) < Len(plan), NEW status
  PROVE  Given(Append(runs, NewRun(status))) /\ Planned
<1>1. Planned
  BY DEF GridInv, Live
<1>2. plan \in Seq(UNION {ToSet(CaseJobs(request, Cases(request)[c])) : c \in 1..Len(Cases(request))})
  BY <1>1, PlannedDecodes, PlanIs DEF GridInv, Planned
<1>3. Len(children) \in Nat
  BY DEF IInv, Typed
<1>4. Len(children) + 1 \in DOMAIN plan
  <2>1. DOMAIN plan = 1..Len(plan) /\ Len(plan) \in Nat
    BY <1>2
  <2> QED BY <1>3, <2>1
<1> DEFINE run == NewRun(status)
           rs == Append(runs, run)
<1>5. run.params = Received(plan[Len(children) + 1]) /\ run.experiment = plan[Len(children) + 1].experiment
  BY DEF NewRun, Current
<1>6. runs \in Seq(RunOf)
  BY DEF IInv, Typed
<1> HIDE DEF run
<1>7. /\ DOMAIN rs = DOMAIN runs \cup {Len(runs) + 1}
      /\ \A i \in DOMAIN runs : rs[i] = runs[i]
      /\ rs[Len(runs) + 1] = run
  BY <1>6
<1> HIDE DEF rs
<1>8. Given(rs)
  BY <1>4, <1>5, <1>7 DEF Given, GridInv
<1> QED BY <1>1, <1>8 DEF rs, run

\* Every step of a study keeps it.
LEMMA NextGrid == IInv /\ GridInv /\ [Next]_vars => GridInv'
<1> SUFFICES ASSUME IInv, GridInv, [Next]_vars PROVE GridInv'
  OBVIOUS
<1>0. Given(runs) /\ Typed /\ runs \in Seq(RunOf)
  BY DEF GridInv, IInv, Typed
<1>1. CASE PlanStudy
  <2>1. runs = <<>> /\ runs' = runs /\ request' = request
    BY <1>1 DEF PlanStudy, IInv, Unstarted
  <2>2. Planned'
    BY <1>1 DEF PlanStudy, Planned
  <2> QED BY <2>1, <2>2 DEF GridInv, Given
<1>2. CASE PlanError \/ CreateParentError \/ CloseParentError
  BY <1>0, <1>2, GridStays DEF PlanError, CreateParentError, CloseParentError, Return, Live
<1>3. CASE CreateParent \/ SaveResults
  BY <1>0, <1>3, GridStays DEF CreateParent, SaveResults, Live
<1>4. CASE StartChild
  <2>1. Given(runs') /\ Planned
    BY <1>4, NewGiven DEF StartChild
  <2> QED BY <1>4, <2>1, GridStays DEF StartChild, Live
<1>5. CASE ChildCompletes
  <2>1. PICK promoted \in BOOLEAN : Finalize(Ending("completed", promoted))
    BY <1>5 DEF ChildCompletes
  <2> DEFINE rs == Ending("completed", promoted)
  <2>2. Given(rs)
    BY <1>0, EndingGiven
  <2>3. rs \in Seq(RunOf) /\ Len(runs) \in DOMAIN runs
    BY <1>5, EndingRuns DEF ChildCompletes
  <2>4. \A i \in DOMAIN rs : {"params", "experiment"} \subseteq DOMAIN rs[i]
    BY <2>3, RunParams
  <2>5. Given(runs')
    BY <2>1, <2>2, <2>4, WithoutGiven DEF Finalize
  <2> QED BY <1>5, <2>3, <2>5, GridStays DEF ChildCompletes, Live
<1>6. CASE ChildFails
  <2>1. PICK promoted \in BOOLEAN : runs' = Ending("failed", promoted)
    BY <1>6 DEF ChildFails
  <2>2. Given(runs')
    BY <1>0, <2>1, EndingGiven
  <2>3. Len(runs) \in DOMAIN runs
    BY <1>6, EndingRuns DEF ChildFails
  <2> QED BY <1>6, <2>2, <2>3, GridStays DEF ChildFails, Live
<1>7. CASE ChildError
  <2>1. UNCHANGED <<request, plan>> /\ pc' = "returned"
    BY <1>7 DEF ChildError, Return
  <2>2. CASE UNCHANGED runs
    BY <1>0, <2>1, <2>2, GridStays DEF Live
  <2>3. CASE pc = "next" /\ Len(children) < Len(plan) /\ runs' = Append(runs, NewRun("created"))
    <3>1. Given(runs') /\ Planned
      BY <2>3, NewGiven
    <3> QED BY <2>1, <2>3, <3>1, GridStays DEF Live
  <2>4. CASE /\ pc = "child"
             /\ \E status \in {"running", "completed", "failed"}, promoted \in BOOLEAN :
                  runs' = Ending(status, promoted)
    <3>1. PICK status \in {"running", "completed", "failed"}, promoted \in BOOLEAN : runs' = Ending(status, promoted)
      BY <2>4
    <3>2. Given(runs')
      BY <1>0, <3>1, EndingGiven
    <3>3. Len(runs) \in DOMAIN runs
      BY <2>4, EndingRuns
    <3> QED BY <2>1, <2>4, <3>2, <3>3, GridStays DEF Live
  <2> QED BY <1>7, <2>2, <2>3, <2>4 DEF ChildError
<1>8. CASE CloseParent
  <2>1. UNCHANGED <<request, plan>> /\ pc' = "returned" /\ pc = "close"
    BY <1>8 DEF CloseParent, Return
  <2>2. Given(runs')
    <3>1. CASE UNCHANGED runs
      BY <1>0, <3>1
    <3>2. CASE Finalize(runs)
      BY <1>0, <3>2, RunParams, WithoutGiven DEF Finalize
    <3> QED BY <1>8, <3>1, <3>2 DEF CloseParent
  <2>3. Planned
    BY <2>1 DEF GridInv, Live
  <2> QED BY <2>1, <2>2, <2>3, GridStays DEF Live
<1>9. CASE Die
  BY <1>0, <1>9, GridStays DEF Die, Live
<1>10. CASE Done \/ UNCHANGED vars
  <2>1. UNCHANGED vars
    BY <1>10 DEF Done
  <2>2. UNCHANGED <<request, plan, pc, runs>>
    BY <2>1 DEF vars
  <2>3. Given(runs')
    BY <1>0, <2>2
  <2> QED BY <2>2, <2>3, GridStays
<1> QED BY <1>1, <1>2, <1>3, <1>4, <1>5, <1>6, <1>7, <1>8, <1>9, <1>10 DEF Next

\* The plan of a study is the whole grid of every case it names, each job once and nothing else,
\* and every child reads what the command line settles, unless an earlier layer may have left a
\* key with its dots.
THEOREM PlanAlwaysExact == Spec => []PlanIsExact
<1>1. Spec => []IInv
  BY InitInv, NextInv, PTL DEF Spec
<1>2. Spec => [](IInv /\ GridInv)
  BY <1>1, InitGrid, NextGrid, PTL DEF Spec
<1> QED BY <1>2, GridExact, PTL
=============================================================================
