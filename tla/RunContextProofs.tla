-------------------------- MODULE RunContextProofs --------------------------
(***************************************************************************)
(* Proofs about RunContext and the workspaces of ExternalWorkspace, for    *)
(* any number of runs, sources, files and calls.  A step changes the       *)
(* workspaces, or the calls, or both, and each side has an invariant of    *)
(* its own.                                                                *)
(*                                                                         *)
(* The resource that runs share is filled by any number of them at once.   *)
(* What holds meanwhile (Owed): a part that is not from a source is one    *)
(* that some run still has to copy, or to finish copying, so that once no  *)
(* run is filling the resource, it has every part.                         *)
(***************************************************************************)
EXTENDS RunContext, TLAPS

-----------------------------------------------------------------------------
(* Workspaces.                                                             *)

WorkspaceTypeOK ==
  /\ source \in [Callers -> Sources]
  /\ holds \in [Sources -> {"dir", "missing", "link"}]
  /\ nested \in BOOLEAN
  /\ at \in [Callers -> InCall \cup {"idle"}]
  /\ got \in [Callers -> {"nothing", "returned", "raised"}]
  /\ temp \in [Callers -> SUBSET Files]
  /\ workspace \in [Callers -> {None, Files}]
  /\ linked \in [Callers -> BOOLEAN]
  /\ outlink \in [Callers -> BOOLEAN]
  /\ resource \in [kind : {"absent", "dir", "link"},
                   parts : [Parts -> Sources \cup {None, "short"}],
                   out : Callers \cup {None}]
  /\ copying \in [Callers -> Parts \cup {None, "unnamed"}]
  /\ filled \in [Callers -> SUBSET Parts]
  /\ again \in [Callers -> BOOLEAN]
  /\ spoilt \in BOOLEAN

\* A run copies parts only while it fills the resource, and under a name of it
\* unless the cache was cleaned.
Filling == \A r \in Callers :
  /\ at[r] # "parts" => copying[r] = None /\ filled[r] = {}
  /\ copying[r] = "unnamed" => spoilt

\* A call that has got past the link has made it, or an earlier one has raised.
LinkMade == \A r \in Callers :
  (at[r] = "outputs" \/ (at[r] = "idle" /\ workspace[r] # None) \/ got[r] = "returned")
    => linked[r] \/ again[r]

\* q has yet to copy p, or to finish copying it.
Owes(q, p) == at[q] = "parts" /\ (copying[q] = p \/ p \notin filled[q])

Owed == resource.kind = "dir" =>
  \A p \in Parts : resource.parts[p] \in Sources \/ \E q \in Callers : Owes(q, p)

\* The link that is made, or about to be made, leads to a directory.
Leads == /\ resource.kind # "link"
         /\ \A r \in Callers : linked[r] \/ at[r] \in {"parts", "link"} => resource.kind = "dir"

WInv == /\ WorkspaceTypeOK /\ Filling /\ LinkMade
        /\ spoilt \/ NothingToCopy \/ (Owed /\ Leads)

\* What a step may do to the workspaces.
WNext == \/ \E r \in Callers : CallWorkspace(r) \/ WorkspaceStep(r) \/ Stop(r)
         \/ CleanCache

LEMMA WInit_WInv == CInit => WInv
<1> SUFFICES ASSUME CInit PROVE WInv
  OBVIOUS
<1> USE WorkspaceAssumption DEF CInit, WInit, Absent
<1>1. WorkspaceTypeOK
  BY DEF WorkspaceTypeOK, InCall
<1>2. Filling /\ LinkMade
  BY DEF Filling, LinkMade
<1>3. Owed /\ Leads
  BY DEF Owed, Leads
<1> QED BY <1>1, <1>2, <1>3 DEF WInv

LEMMA WorkspaceTypeStep ==
  ASSUME WorkspaceTypeOK, [WNext]_wsVars
  PROVE  WorkspaceTypeOK'
<1> USE WorkspaceAssumption DEF WorkspaceTypeOK, InCall
<1>1. CASE UNCHANGED wsVars
  BY <1>1 DEF wsVars
<1>2. CASE CleanCache
  BY <1>2 DEF CleanCache, Same, Absent
<1>3. ASSUME NEW r \in Callers, CallWorkspace(r) \/ WorkspaceStep(r) \/ Stop(r)
      PROVE  WorkspaceTypeOK'
  <2>1. CASE CallWorkspace(r)
    BY <2>1 DEF CallWorkspace, Go, Same
  <2>2. ASSUME NEW f \in Files, CopyFile(r, f) PROVE WorkspaceTypeOK'
    BY <2>2 DEF CopyFile, Same
  <2>3. CASE Rename(r)
    BY <2>3 DEF Rename, Go, Same
  <2>4. CASE Look(r)
    BY <2>4 DEF Look, Go, Same
  <2>5. CASE Fill(r)
    <3>1. resource' \in [kind : {"absent", "dir", "link"},
                         parts : [Parts -> Sources \cup {None, "short"}],
                         out : Callers \cup {None}]
      BY <2>5 DEF Fill, EmptyDir, Absent
    <3> QED BY <2>5, <3>1 DEF Fill, Go, Same
  <2>6. ASSUME NEW p \in Parts, StartPart(r, p) PROVE WorkspaceTypeOK'
    BY <2>6 DEF StartPart, Same
  <2>7. CASE EndPart(r)
    <3>1. source[r] \in Sources
      OBVIOUS
    <3>2. resource' \in [kind : {"absent", "dir", "link"},
                         parts : [Parts -> Sources \cup {None, "short"}],
                         out : Callers \cup {None}]
      BY <2>7, <3>1 DEF EndPart
    <3>3. /\ filled' \in [Callers -> SUBSET Parts]
          /\ copying' \in [Callers -> Parts \cup {None, "unnamed"}]
      BY <2>7 DEF EndPart
    <3> QED BY <2>7, <3>2, <3>3 DEF EndPart, Same
  <2>8. CASE EndFill(r)
    BY <2>8 DEF EndFill, Go, Same
  <2>9. CASE Link(r)
    BY <2>9 DEF Link, Go, Same
  <2>10. CASE LinkOutputs(r)
    <3>1. /\ at' = [at EXCEPT ![r] = "idle"] /\ got' = [got EXCEPT ![r] = "returned"]
          /\ UNCHANGED <<source, holds, nested, again, temp, workspace, linked, copying, filled, spoilt>>
      BY <2>10 DEF LinkOutputs, Go, Same
    <3>2. resource' \in {resource, [resource EXCEPT !.out = r]}
      BY <2>10 DEF LinkOutputs
    <3>3. outlink' \in {outlink, [outlink EXCEPT ![r] = TRUE]}
      BY <2>10 DEF LinkOutputs
    <3>4. resource' \in [kind : {"absent", "dir", "link"},
                         parts : [Parts -> Sources \cup {None, "short"}],
                         out : Callers \cup {None}]
      BY <3>2
    <3>5. outlink' \in [Callers -> BOOLEAN]
      BY <3>3
    <3>6. at' \in [Callers -> InCall \cup {"idle"}] /\ got' \in [Callers -> {"nothing", "returned", "raised"}]
      BY <3>1
    <3> QED BY <3>1, <3>4, <3>5, <3>6
  <2>11. CASE Stop(r)
    BY <2>11 DEF Stop
  <2> QED BY <1>3, <2>1, <2>2, <2>3, <2>4, <2>5, <2>6, <2>7, <2>8, <2>9, <2>10, <2>11
          DEF WorkspaceStep, FailCall
<1> QED BY <1>1, <1>2, <1>3 DEF WNext

LEMMA InOrderStep ==
  ASSUME WorkspaceTypeOK, Filling, LinkMade, [WNext]_wsVars
  PROVE  Filling' /\ LinkMade'
<1> USE WorkspaceAssumption DEF WorkspaceTypeOK, Filling, LinkMade, InCall
<1>1. CASE UNCHANGED wsVars
  BY <1>1 DEF wsVars
<1>2. CASE CleanCache
  BY <1>2 DEF CleanCache, Same
<1>3. ASSUME NEW r \in Callers, CallWorkspace(r) \/ WorkspaceStep(r) \/ Stop(r)
      PROVE  Filling' /\ LinkMade'
  <2>1. CASE CallWorkspace(r)
    BY <2>1 DEF CallWorkspace, Go, Same
  <2>2. ASSUME NEW f \in Files, CopyFile(r, f) PROVE Filling' /\ LinkMade'
    BY <2>2 DEF CopyFile, Same
  <2>3. CASE Rename(r)
    BY <2>3 DEF Rename, Go, Same
  <2>4. CASE Look(r)
    BY <2>4 DEF Look, Go, Same
  <2>5. CASE Fill(r)
    BY <2>5 DEF Fill, Go, Same
  <2>6. ASSUME NEW p \in Parts, StartPart(r, p) PROVE Filling' /\ LinkMade'
    BY <2>6 DEF StartPart, Same
  <2>7. CASE EndPart(r)
    BY <2>7 DEF EndPart, Same
  <2>8. CASE EndFill(r)
    BY <2>8 DEF EndFill, Go, Same
  <2>9. CASE Link(r)
    BY <2>9 DEF Link, Go, Same
  <2>10. CASE LinkOutputs(r)
    BY <2>10 DEF LinkOutputs, Go, Same
  <2>11. CASE Stop(r)
    BY <2>11 DEF Stop
  <2> QED BY <1>3, <2>1, <2>2, <2>3, <2>4, <2>5, <2>6, <2>7, <2>8, <2>9, <2>10, <2>11
          DEF WorkspaceStep, FailCall
<1> QED BY <1>1, <1>2, <1>3 DEF WNext

\* A step of a run that neither fills the resource nor is about to.
LEMMA OwedKept ==
  ASSUME Owed, UNCHANGED <<copying, filled>>, resource'.kind = resource.kind,
         resource'.parts = resource.parts, NEW r \in Callers, at[r] # "parts",
         \A q \in Callers \ {r} : at'[q] = at[q]
  PROVE  Owed'
BY DEF Owed, Owes

LEMMA ResourceStep ==
  ASSUME WorkspaceTypeOK, Filling, Owed, Leads, ~NothingToCopy, ~spoilt', [WNext]_wsVars
  PROVE  Owed' /\ Leads'
<1> USE WorkspaceAssumption
<1>1. CASE UNCHANGED wsVars
  BY <1>1 DEF wsVars, Owed, Owes, Leads
<1>2. CASE CleanCache
  BY <1>2 DEF CleanCache
<1>3. ASSUME NEW r \in Callers, CallWorkspace(r) \/ WorkspaceStep(r) \/ Stop(r)
      PROVE  Owed' /\ Leads'
  <2> DEFINE Others == \A q \in Callers \ {r} : at'[q] = at[q]
  <2>1. CASE CallWorkspace(r)
    <3>1. Others /\ at[r] # "parts" /\ Leads'
      BY <2>1 DEF CallWorkspace, Go, Same, Leads, WorkspaceTypeOK
    <3> QED BY <2>1, <3>1, OwedKept DEF CallWorkspace
  <2>2. ASSUME NEW f \in Files, CopyFile(r, f) PROVE Owed' /\ Leads'
    BY <2>2 DEF CopyFile, Same, Owed, Owes, Leads
  <2>3. CASE Rename(r)
    <3>1. Others /\ at[r] # "parts" /\ Leads'
      BY <2>3 DEF Rename, Go, Same, Leads, WorkspaceTypeOK
    <3> QED BY <2>3, <3>1, OwedKept DEF Rename
  <2>4. CASE Look(r)
    <3>1. Others /\ at[r] # "parts" /\ Leads'
      BY <2>4 DEF Look, Go, Same, Leads, WorkspaceTypeOK
    <3> QED BY <2>4, <3>1, OwedKept DEF Look
  <2>5. CASE Fill(r)
    <3>1. at[r] = "fill" /\ holds[source[r]] = "dir"
      BY <2>5 DEF Fill, Go, NothingToCopy
    <3>2. /\ at' = [at EXCEPT ![r] = "parts"] /\ resource'.kind = "dir"
          /\ filled'[r] = {} /\ UNCHANGED linked
      BY <2>5, <3>1 DEF Fill, Go, EmptyDir, Absent, Filling, WorkspaceTypeOK
    <3>3. \A p \in Parts : Owes(r, p)'
      BY <3>2 DEF Owes, WorkspaceTypeOK
    <3> QED BY <3>2, <3>3 DEF Owed, Leads, WorkspaceTypeOK
  <2>6. ASSUME NEW p \in Parts, StartPart(r, p) PROVE Owed' /\ Leads'
    <3>1. Leads'
      BY <2>6 DEF StartPart, Same, Leads, WorkspaceTypeOK
    <3>2. Owes(r, p)'
      BY <2>6 DEF StartPart, Owes, WorkspaceTypeOK
    <3>3. ASSUME NEW o \in Parts \ {p}
          PROVE  resource'.parts[o] \in Sources \/ \E q \in Callers : Owes(q, o)'
      <4>1. resource'.parts[o] = resource.parts[o] /\ resource.kind = "dir"
        BY <2>6 DEF StartPart, WorkspaceTypeOK
      <4>2. \A q \in Callers : Owes(q, o) => Owes(q, o)'
        BY <2>6 DEF StartPart, Same, Owes, WorkspaceTypeOK
      <4> QED BY <4>1, <4>2 DEF Owed
    <3> QED BY <3>1, <3>2, <3>3 DEF Owed
  <2>7. CASE EndPart(r)
    <3>1. PICK p \in Parts : copying[r] = p
      BY <2>7 DEF EndPart, Filling, WorkspaceTypeOK
    <3>2. Leads'
      BY <2>7 DEF EndPart, Same, Leads, WorkspaceTypeOK
    <3>3. \A q \in Callers \ {r} : copying[q] = p => Owes(q, p)'
      BY <2>7, <3>1 DEF EndPart, Same, Owes, Filling, WorkspaceTypeOK
    <3>4. resource.kind = "dir" =>
            resource'.parts[p] \in Sources \/ \E q \in Callers : Owes(q, p)'
      <4>1. CASE \A q \in Callers \ {r} : copying[q] # p
        BY <2>7, <3>1, <4>1 DEF EndPart, WorkspaceTypeOK
      <4> QED BY <4>1, <3>3
    <3>5. ASSUME NEW o \in Parts \ {p}, resource.kind = "dir"
          PROVE  resource'.parts[o] \in Sources \/ \E q \in Callers : Owes(q, o)'
      <4>1. resource'.parts[o] = resource.parts[o]
        BY <2>7, <3>1 DEF EndPart, WorkspaceTypeOK
      <4>2. \A q \in Callers : Owes(q, o) => Owes(q, o)'
        BY <2>7, <3>1 DEF EndPart, Same, Owes, WorkspaceTypeOK
      <4> QED BY <3>5, <4>1, <4>2 DEF Owed
    <3>6. resource'.kind = resource.kind
      BY <2>7 DEF EndPart, WorkspaceTypeOK
    <3> QED BY <3>2, <3>4, <3>5, <3>6 DEF Owed
  <2>8. CASE EndFill(r)
    <3>1. Leads' /\ UNCHANGED resource
      BY <2>8 DEF EndFill, Go, Same, Leads, WorkspaceTypeOK
    <3>2. \A q \in Callers, p \in Parts : Owes(q, p) => Owes(q, p)'
      BY <2>8 DEF EndFill, Go, Same, Owes, WorkspaceTypeOK
    <3> QED BY <3>1, <3>2 DEF Owed
  <2>9. CASE Link(r)
    <3>1. Others /\ at[r] # "parts" /\ Leads'
      BY <2>9 DEF Link, Go, Same, Leads, WorkspaceTypeOK
    <3> QED BY <2>9, <3>1, OwedKept DEF Link
  <2>10. CASE LinkOutputs(r)
    <3>1. /\ Others /\ at[r] # "parts" /\ Leads'
          /\ resource'.kind = resource.kind /\ resource'.parts = resource.parts
      BY <2>10 DEF LinkOutputs, Go, Same, Leads, WorkspaceTypeOK
    <3> QED BY <2>10, <3>1, OwedKept DEF LinkOutputs
  <2>11. CASE Stop(r)
    <3>1. Others /\ at[r] # "parts" /\ Leads' /\ UNCHANGED resource
      BY <2>11, ZenonT(60) DEF Stop, Leads, WorkspaceTypeOK
    <3>2. UNCHANGED <<copying, filled>>
      BY <2>11, <3>1 DEF Stop, Filling, WorkspaceTypeOK
    <3> QED BY <3>1, <3>2, OwedKept
  <2> QED BY <1>3, <2>1, <2>2, <2>3, <2>4, <2>5, <2>6, <2>7, <2>8, <2>9, <2>10, <2>11
          DEF WorkspaceStep, FailCall
<1> QED BY <1>1, <1>2, <1>3 DEF WNext

LEMMA WorkspaceInv ==
  ASSUME WInv, [WNext]_wsVars
  PROVE  WInv'
<1>1. WorkspaceTypeOK' /\ Filling' /\ LinkMade'
  BY WorkspaceTypeStep, InOrderStep DEF WInv
<1>2. (spoilt => spoilt') /\ UNCHANGED <<source, holds>>
  <2>1. CASE UNCHANGED wsVars
    BY <2>1 DEF wsVars
  <2>2. CASE CleanCache
    BY <2>2 DEF CleanCache, Same
  <2>3. ASSUME NEW r \in Callers, CallWorkspace(r) \/ WorkspaceStep(r), ~FailCall(r)
        PROVE  (spoilt => spoilt') /\ UNCHANGED <<source, holds>>
    BY <2>3 DEF CallWorkspace, WorkspaceStep, CopyFile, Rename, Look, Fill, StartPart, EndPart,
                EndFill, Link, LinkOutputs, Same
  <2>4. ASSUME NEW r \in Callers, Stop(r)
        PROVE  (spoilt => spoilt') /\ UNCHANGED <<source, holds>>
    BY <2>4 DEF Stop, WInv, WorkspaceTypeOK
  <2> QED BY <2>1, <2>2, <2>3, <2>4 DEF WNext, FailCall
<1>3. NothingToCopy' <=> NothingToCopy
  BY <1>2 DEF NothingToCopy
<1> QED BY <1>1, <1>2, <1>3, ResourceStep DEF WInv

LEMMA WorkspacesAreSound == WInv => WorkspaceIsSound
<1> SUFFICES ASSUME WInv PROVE WorkspaceIsSound
  OBVIOUS
<1>1. WorkspaceWhole /\ ReturnedIsLinked
  BY DEF WInv, WorkspaceTypeOK, LinkMade, WorkspaceWhole, ReturnedIsLinked
<1>2. LinkedIsComplete
  BY DEF WInv, Owed, Owes, Leads, LinkedIsComplete, Whole
<1>3. OutputsAreOwn
  BY DEF OutputsAreOwn, OutputsOf, Inside
<1> QED BY <1>1, <1>2, <1>3 DEF WorkspaceIsSound

-----------------------------------------------------------------------------
(* Calls.                                                                  *)

CallTypeOK ==
  /\ life \in [Callers -> {"calling", "returned", "raised", "dead", "stored"}]
  /\ calls \in [Callers -> 0..MaxCalls]
  /\ step \in [Callers -> {"none", "waiting", "killing", "reaping", "joining"}]
  /\ command \in [Callers -> [capture : {"files", "pipes"}, timed : BOOLEAN]]
  /\ child \in [Callers -> {"off", "alive", "exit0", "exit1", "killed"}]
  /\ expired \in [Callers -> BOOLEAN]
  /\ heirs \in [Callers -> [1..MaxCalls -> {"none", "running", "gone"}]]
  /\ result \in [Callers -> {"none", "raised", "exit0", "exit1", "killed"}]
  /\ log \in [Callers -> [of : Nat, by : SUBSET (1..MaxCalls)]]
  /\ outputs \in [Callers -> BOOLEAN]
  /\ file \in [Callers -> Nat]
  /\ records \in [Callers -> [log : BOOLEAN, outputs : BOOLEAN, versions : SUBSET Nat]]
  /\ stored \in [Callers -> [log : [of : Nat, by : SUBSET (1..MaxCalls)], outputs : BOOLEAN,
                             file : Nat]]

\* No result is there while a command runs, and no process when none does; and the
\* end of its output is only waited for once the process has ended.
Honest == \A r \in Callers :
  /\ step[r] = "none" => child[r] = "off"
  /\ step[r] = "joining" => child[r] \notin {"off", "alive"}
  /\ step[r] # "none" => result[r] = "none"

\* The log belongs to the last command, which alone writes to it but for processes
\* that earlier ones left.
LogIsOwn == \A r \in Callers :
  /\ child[r] = "alive" /\ command[r].capture = "files" => log[r].of = calls[r]
  /\ \A n \in log[r].by : n = log[r].of \/ heirs[r][n] # "none"

Written == \A r \in Callers : \A v \in records[r].versions : v <= file[r]

CInv == CallTypeOK /\ Honest /\ LogIsOwn /\ Written /\ ResultIsHonest /\ StoredIsOwn
LEMMA CInit_CInv == CInit => CInv
<1> SUFFICES ASSUME CInit PROVE CInv
  OBVIOUS
<1> USE CallAssumption DEF CInit, NoLog, NoRecord, Nothing
<1>1. CallTypeOK
  BY DEF CallTypeOK
<1>2. Honest /\ LogIsOwn /\ Written
  BY DEF Honest, LogIsOwn, Written
<1>3. ResultIsHonest /\ StoredIsOwn
  BY DEF ResultIsHonest, StoredIsOwn, StoredLogIsOwn, StoredIsLatest
<1> QED BY <1>1, <1>2, <1>3 DEF CInv

\* What a step may do to the calls.
CallAction(r) ==
  \/ BeginWorkspace(r)
  \/ \E capture \in {"files", "pipes"}, timed \in BOOLEAN : StartCommand(r, capture, timed)
  \/ Expire(r) \/ (\E leaves \in BOOLEAN : Kill(r, leaves))
  \/ (Reaped(r) /\ AwaitReaders(r)) \/ (Finish(r) /\ child[r] \notin {"off", "alive"})
  \/ (\E recorded \in BOOLEAN : WriteOutput(r, recorded))
  \/ SaveArtifact(r) \/ ReturnValue(r) \/ Ingest(r)
  \/ \E how \in {"raised", "dead"} : Leave(r, how)
  \/ \E n \in 1..MaxCalls : WriteLog(r, n) \/ Produce(r, n) \/ HeirEnds(r, n)
  \/ \E code \in {"exit0", "exit1"}, leaves \in BOOLEAN : ChildEnds(r, code, leaves)

CallNext == \E r \in Callers : CallAction(r)

\* How a record is changed.
LEMMA RecordType ==
  ASSUME records \in [Callers -> [log : BOOLEAN, outputs : BOOLEAN, versions : SUBSET Nat]],
         NEW r \in Callers
  PROVE  /\ \A b \in BOOLEAN : [records EXCEPT ![r].log = TRUE, ![r].outputs = b] \in
                 [Callers -> [log : BOOLEAN, outputs : BOOLEAN, versions : SUBSET Nat]]
         /\ \A v \in Nat : [records EXCEPT ![r].versions = @ \cup {v}] \in
                 [Callers -> [log : BOOLEAN, outputs : BOOLEAN, versions : SUBSET Nat]]
<1>1. /\ records[r] \in [log : BOOLEAN, outputs : BOOLEAN, versions : SUBSET Nat]
      /\ records[r].versions \subseteq Nat
  OBVIOUS
<1>2. ASSUME NEW b \in BOOLEAN
      PROVE  [records[r] EXCEPT !.log = TRUE, !.outputs = b]
               \in [log : BOOLEAN, outputs : BOOLEAN, versions : SUBSET Nat]
  BY <1>1
<1>3. ASSUME NEW v \in Nat
      PROVE  [records[r] EXCEPT !.versions = @ \cup {v}]
               \in [log : BOOLEAN, outputs : BOOLEAN, versions : SUBSET Nat]
  BY <1>1
<1> QED BY <1>2, <1>3

LEMMA RecordFinished ==
  ASSUME CallTypeOK, NEW r \in Callers,
         \/ records' = records
         \/ records' = [records EXCEPT ![r].log = TRUE, ![r].outputs = Registered(r)]
  PROVE  /\ records' \in [Callers -> [log : BOOLEAN, outputs : BOOLEAN, versions : SUBSET Nat]]
         /\ \A q \in Callers : records'[q].versions = records[q].versions
<1>1. Registered(r) \in BOOLEAN
  BY DEF Registered, CallTypeOK
<1>2. records \in [Callers -> [log : BOOLEAN, outputs : BOOLEAN, versions : SUBSET Nat]]
  BY DEF CallTypeOK
<1>3. CASE records' = [records EXCEPT ![r].log = TRUE, ![r].outputs = Registered(r)]
  <2>1. records' \in [Callers -> [log : BOOLEAN, outputs : BOOLEAN, versions : SUBSET Nat]]
    BY <1>1, <1>2, <1>3, RecordType
  <2>2. \A q \in Callers : records'[q].versions = records[q].versions
    BY <1>2, <1>3
  <2> QED BY <2>1, <2>2
<1> QED BY <1>2, <1>3

\* A process that is left behind is one of the command that ended, and stays counted.
LEMMA HeirsStay ==
  ASSUME CallTypeOK, NEW r \in Callers,
         heirs' = heirs \/ heirs' = [heirs EXCEPT ![r][calls[r]] = "running"]
  PROVE  /\ heirs' \in [Callers -> [1..MaxCalls -> {"none", "running", "gone"}]]
         /\ \A q \in Callers, n \in 1..MaxCalls : heirs[q][n] # "none" => heirs'[q][n] # "none"
<1>1. heirs \in [Callers -> [1..MaxCalls -> {"none", "running", "gone"}]]
  BY DEF CallTypeOK
<1>2. CASE heirs' = [heirs EXCEPT ![r][calls[r]] = "running"]
  <2>1. [heirs[r] EXCEPT ![calls[r]] = "running"] \in [1..MaxCalls -> {"none", "running", "gone"}]
    BY <1>1
  <2>2. heirs' = [heirs EXCEPT ![r] = [heirs[r] EXCEPT ![calls[r]] = "running"]]
    BY <1>2
  <2> QED BY <1>1, <2>1, <2>2
<1> QED BY <1>1, <1>2

LEMMA LogType ==
  ASSUME log \in [Callers -> [of : Nat, by : SUBSET (1..MaxCalls)]],
         NEW r \in Callers, NEW n \in 1..MaxCalls
  PROVE  [log EXCEPT ![r].by = @ \cup {n}] \in [Callers -> [of : Nat, by : SUBSET (1..MaxCalls)]]
<1>1. /\ log[r] \in [of : Nat, by : SUBSET (1..MaxCalls)]
      /\ log[r].by \subseteq 1..MaxCalls
  OBVIOUS
<1>2. [log[r] EXCEPT !.by = @ \cup {n}] \in [of : Nat, by : SUBSET (1..MaxCalls)]
  BY <1>1
<1> QED BY <1>2

LEMMA CallTypeStep ==
  ASSUME CallTypeOK, [CallNext]_callVars
  PROVE  CallTypeOK'
<1> USE CallAssumption DEF CallTypeOK
<1>1. CASE UNCHANGED callVars
  BY <1>1 DEF callVars
<1>2. ASSUME NEW r \in Callers, CallAction(r)
      PROVE  CallTypeOK'
  <2>1. CASE BeginWorkspace(r)
    BY <2>1 DEF BeginWorkspace, Calls
  <2>2. ASSUME NEW capture \in {"files", "pipes"}, NEW timed \in BOOLEAN,
                StartCommand(r, capture, timed)
         PROVE  CallTypeOK'
    <3>1. calls' \in [Callers -> 0..MaxCalls] /\ calls'[r] \in Nat
      BY <2>2 DEF StartCommand, Start, Calls
    <3>2. log' \in [Callers -> [of : Nat, by : SUBSET (1..MaxCalls)]]
      BY <2>2, <3>1 DEF StartCommand, Start
    <3>3. /\ command' \in [Callers -> [capture : {"files", "pipes"}, timed : BOOLEAN]]
          /\ expired' \in [Callers -> BOOLEAN]
      BY <2>2 DEF StartCommand, Start
    <3>4. /\ step' \in [Callers -> {"none", "waiting", "killing", "reaping", "joining"}]
          /\ child' \in [Callers -> {"off", "alive", "exit0", "exit1", "killed"}]
          /\ result' \in [Callers -> {"none", "raised", "exit0", "exit1", "killed"}]
      BY <2>2 DEF StartCommand, Start
    <3> QED BY <2>2, <3>1, <3>2, <3>3, <3>4 DEF StartCommand, Start
  <2>3. CASE Expire(r)
    BY <2>3 DEF Expire
  <2>4. ASSUME NEW leaves \in BOOLEAN, Kill(r, leaves)
         PROVE  CallTypeOK'
    <3>2. heirs' \in [Callers -> [1..MaxCalls -> {"none", "running", "gone"}]]
      <4>1. heirs' = heirs \/ heirs' = [heirs EXCEPT ![r][calls[r]] = "running"]
        BY <2>4 DEF Kill, Left
      <4> QED BY <4>1, HeirsStay
    <3>3. child' \in [Callers -> {"off", "alive", "exit0", "exit1", "killed"}]
      BY <2>4 DEF Kill
    <3>4. step' \in [Callers -> {"none", "waiting", "killing", "reaping", "joining"}]
      BY <2>4 DEF Kill
    <3> QED BY <2>4, <3>2, <3>3, <3>4 DEF Kill
  <2>5. CASE Reaped(r) /\ AwaitReaders(r)
    BY <2>5 DEF Reaped, AwaitReaders
  <2>6. CASE Finish(r) /\ child[r] \notin {"off", "alive"}
    <3>2. records' \in [Callers -> [log : BOOLEAN, outputs : BOOLEAN, versions : SUBSET Nat]]
      <4>1. \/ records' = records
            \/ records' = [records EXCEPT ![r].log = TRUE, ![r].outputs = Registered(r)]
        BY <2>6 DEF Finish
      <4> QED BY <4>1, RecordFinished
    <3>3. result' \in [Callers -> {"none", "raised", "exit0", "exit1", "killed"}]
      <4>1. child[r] \in {"exit0", "exit1", "killed"}
        BY <2>6
      <4> QED BY <2>6, <4>1 DEF Finish
    <3>4. /\ step' \in [Callers -> {"none", "waiting", "killing", "reaping", "joining"}]
          /\ child' \in [Callers -> {"off", "alive", "exit0", "exit1", "killed"}]
      BY <2>6 DEF Finish
    <3> QED BY <2>6, <3>2, <3>3, <3>4 DEF Finish
  <2>7. ASSUME NEW recorded \in BOOLEAN, WriteOutput(r, recorded)
         PROVE  CallTypeOK'
    <3>1. file' \in [Callers -> Nat] /\ file'[r] \in Nat
      BY <2>7 DEF WriteOutput
    <3>2. records' \in [Callers -> [log : BOOLEAN, outputs : BOOLEAN, versions : SUBSET Nat]]
      BY <2>7, <3>1, RecordType DEF WriteOutput
    <3>3. calls' \in [Callers -> 0..MaxCalls]
      BY <2>7 DEF WriteOutput, Calls
    <3> QED BY <2>7, <3>1, <3>2, <3>3 DEF WriteOutput
  <2>8. CASE SaveArtifact(r)
    <3>1. file[r] \in Nat
      OBVIOUS
    <3>2. records' \in [Callers -> [log : BOOLEAN, outputs : BOOLEAN, versions : SUBSET Nat]]
      BY <2>8, <3>1, RecordType DEF SaveArtifact
    <3>3. calls' \in [Callers -> 0..MaxCalls]
      BY <2>8 DEF SaveArtifact, Calls
    <3> QED BY <2>8, <3>2, <3>3 DEF SaveArtifact
  <2>9. CASE ReturnValue(r)
    BY <2>9 DEF ReturnValue
  <2>10. CASE Ingest(r)
    BY <2>10 DEF Ingest, Store, NoLog
  <2>11. ASSUME NEW how \in {"raised", "dead"}, Leave(r, how)
         PROVE  CallTypeOK'
    <3>1. heirs' \in [Callers -> [1..MaxCalls -> {"none", "running", "gone"}]]
      <4>1. heirs' = heirs \/ heirs' = [heirs EXCEPT ![r][calls[r]] = "running"]
        BY <2>11 DEF Leave, Left
      <4> QED BY <4>1, HeirsStay
    <3> QED BY <2>11, <3>1 DEF Leave
  <2>12. ASSUME NEW n \in 1..MaxCalls, WriteLog(r, n)
         PROVE  CallTypeOK'
    <3>1. log' \in [Callers -> [of : Nat, by : SUBSET (1..MaxCalls)]]
      BY <2>12, LogType DEF WriteLog
    <3> QED BY <2>12, <3>1 DEF WriteLog
  <2>13. ASSUME NEW n \in 1..MaxCalls, Produce(r, n)
         PROVE  CallTypeOK'
    BY <2>13 DEF Produce
  <2>14. ASSUME NEW n \in 1..MaxCalls, HeirEnds(r, n)
         PROVE  CallTypeOK'
    BY <2>14 DEF HeirEnds
  <2>15. ASSUME NEW code \in {"exit0", "exit1"}, NEW leaves \in BOOLEAN, ChildEnds(r, code, leaves)
         PROVE  CallTypeOK'
    <3>1. heirs' \in [Callers -> [1..MaxCalls -> {"none", "running", "gone"}]]
      <4>1. heirs' = heirs \/ heirs' = [heirs EXCEPT ![r][calls[r]] = "running"]
        BY <2>15 DEF ChildEnds, Left
      <4> QED BY <4>1, HeirsStay
    <3> QED BY <2>15, <3>1 DEF ChildEnds
  <2> QED BY <1>2, <2>1, <2>2, <2>3, <2>4, <2>5, <2>6, <2>7, <2>8, <2>9, <2>10,
             <2>11, <2>12, <2>13, <2>14, <2>15 DEF CallAction
<1> QED BY <1>1, <1>2 DEF CallNext

LEMMA HonestStep ==
  ASSUME CallTypeOK, Honest, ResultIsHonest, [CallNext]_callVars
  PROVE  Honest' /\ ResultIsHonest'
<1> USE CallAssumption DEF CallTypeOK, Honest, ResultIsHonest
<1>1. CASE UNCHANGED callVars
  BY <1>1 DEF callVars
<1>2. ASSUME NEW r \in Callers, CallAction(r)
      PROVE  Honest' /\ ResultIsHonest'
  <2>1. CASE BeginWorkspace(r)
    BY <2>1 DEF BeginWorkspace, Calls
  <2>2. ASSUME NEW capture \in {"files", "pipes"}, NEW timed \in BOOLEAN,
                StartCommand(r, capture, timed)
         PROVE  Honest' /\ ResultIsHonest'
    <3>1. step[r] = "none" /\ child[r] = "off"
      BY <2>2 DEF StartCommand, Start, Calls, Idle
    <3>2. Honest'
      BY <2>2, <3>1 DEF StartCommand, Start
    <3>3. /\ result'[r] # "exit0"
          /\ \A q \in Callers \ {r} : result'[q] = result[q] /\ expired'[q] = expired[q]
      BY <2>2 DEF StartCommand, Start
    <3> QED BY <2>2, <3>2, <3>3 DEF StartCommand, Start
  <2>3. CASE Expire(r)
    BY <2>3 DEF Expire
  <2>4. ASSUME NEW leaves \in BOOLEAN, Kill(r, leaves)
         PROVE  Honest' /\ ResultIsHonest'
    BY <2>4 DEF Kill, Left
  <2>5. CASE Reaped(r) /\ AwaitReaders(r)
    BY <2>5 DEF Reaped, AwaitReaders
  <2>6. CASE Finish(r) /\ child[r] \notin {"off", "alive"}
    <3>1. Honest'
      BY <2>6 DEF Finish
    <3>2. result'[r] = "exit0" => ~expired[r] /\ records'[r].log
      BY <2>6 DEF Finish, Failed
    <3>3. \A q \in Callers \ {r} : result'[q] = result[q] /\ records'[q] = records[q]
      BY <2>6 DEF Finish
    <3>4. UNCHANGED expired
      BY <2>6 DEF Finish
    <3>5. ASSUME NEW q \in Callers, result'[q] = "exit0" PROVE ~expired'[q] /\ records'[q].log
      <4>1. CASE q = r
        BY <3>2, <3>4, <3>5, <4>1
      <4>2. CASE q # r
        BY <3>3, <3>4, <3>5, <4>2
      <4> QED BY <4>1, <4>2
    <3> QED BY <3>1, <3>5
  <2>7. ASSUME NEW recorded \in BOOLEAN, WriteOutput(r, recorded)
         PROVE  Honest' /\ ResultIsHonest'
    BY <2>7 DEF WriteOutput, Calls
  <2>8. CASE SaveArtifact(r)
    BY <2>8 DEF SaveArtifact, Calls
  <2>9. CASE ReturnValue(r)
    BY <2>9 DEF ReturnValue
  <2>10. CASE Ingest(r)
    BY <2>10 DEF Ingest, Store, NoLog
  <2>11. ASSUME NEW how \in {"raised", "dead"}, Leave(r, how)
         PROVE  Honest' /\ ResultIsHonest'
    BY <2>11 DEF Leave, Left
  <2>12. ASSUME NEW n \in 1..MaxCalls, WriteLog(r, n)
         PROVE  Honest' /\ ResultIsHonest'
    BY <2>12 DEF WriteLog, Writers
  <2>13. ASSUME NEW n \in 1..MaxCalls, Produce(r, n)
         PROVE  Honest' /\ ResultIsHonest'
    BY <2>13 DEF Produce
  <2>14. ASSUME NEW n \in 1..MaxCalls, HeirEnds(r, n)
         PROVE  Honest' /\ ResultIsHonest'
    BY <2>14 DEF HeirEnds
  <2>15. ASSUME NEW code \in {"exit0", "exit1"}, NEW leaves \in BOOLEAN, ChildEnds(r, code, leaves)
         PROVE  Honest' /\ ResultIsHonest'
    BY <2>15 DEF ChildEnds, Left
  <2> QED BY <1>2, <2>1, <2>2, <2>3, <2>4, <2>5, <2>6, <2>7, <2>8, <2>9, <2>10,
             <2>11, <2>12, <2>13, <2>14, <2>15 DEF CallAction
<1> QED BY <1>1, <1>2 DEF CallNext

LEMMA LogStep ==
  ASSUME CallTypeOK, Honest, LogIsOwn, StoredLogIsOwn, [CallNext]_callVars
  PROVE  LogIsOwn' /\ StoredLogIsOwn'
<1> USE CallAssumption DEF CallTypeOK, LogIsOwn, StoredLogIsOwn
<1>1. CASE UNCHANGED callVars
  BY <1>1 DEF callVars
<1>2. ASSUME NEW r \in Callers, CallAction(r)
      PROVE  LogIsOwn' /\ StoredLogIsOwn'
  <2>1. CASE BeginWorkspace(r)
    <3>1. child[r] = "off" /\ \A q \in Callers \ {r} : calls'[q] = calls[q]
      BY <2>1 DEF BeginWorkspace, Calls, Idle, Honest
    <3> QED BY <2>1, <3>1 DEF BeginWorkspace
  <2>2. ASSUME NEW capture \in {"files", "pipes"}, NEW timed \in BOOLEAN,
                StartCommand(r, capture, timed)
         PROVE  LogIsOwn' /\ StoredLogIsOwn'
    BY <2>2 DEF StartCommand, Start, Calls
  <2>3. CASE Expire(r)
    BY <2>3 DEF Expire
  <2>4. ASSUME NEW leaves \in BOOLEAN, Kill(r, leaves)
         PROVE  LogIsOwn' /\ StoredLogIsOwn'
    <3>1. heirs' = heirs \/ heirs' = [heirs EXCEPT ![r][calls[r]] = "running"]
      BY <2>4 DEF Kill, Left
    <3>2. \A q \in Callers, n \in 1..MaxCalls : heirs[q][n] # "none" => heirs'[q][n] # "none"
      BY <3>1, HeirsStay
    <3>3. /\ \A q \in Callers : child'[q] = "alive" => child[q] = "alive"
          /\ UNCHANGED <<calls, command, log, stored>>
      BY <2>4 DEF Kill
    <3> QED BY <3>2, <3>3
  <2>5. CASE Reaped(r) /\ AwaitReaders(r)
    BY <2>5 DEF Reaped, AwaitReaders
  <2>6. CASE Finish(r) /\ child[r] \notin {"off", "alive"}
    BY <2>6 DEF Finish, Registered, Failed
  <2>7. ASSUME NEW recorded \in BOOLEAN, WriteOutput(r, recorded)
         PROVE  LogIsOwn' /\ StoredLogIsOwn'
    <3>1. child[r] = "off" /\ \A q \in Callers \ {r} : calls'[q] = calls[q]
      BY <2>7 DEF WriteOutput, Calls, Idle, Honest
    <3> QED BY <2>7, <3>1 DEF WriteOutput
  <2>8. CASE SaveArtifact(r)
    <3>1. child[r] = "off" /\ \A q \in Callers \ {r} : calls'[q] = calls[q]
      BY <2>8 DEF SaveArtifact, Calls, Idle, Honest
    <3> QED BY <2>8, <3>1 DEF SaveArtifact
  <2>9. CASE ReturnValue(r)
    BY <2>9 DEF ReturnValue
  <2>10. CASE Ingest(r)
    BY <2>10, SMTT(60) DEF Ingest, Store, NoLog
  <2>11. ASSUME NEW how \in {"raised", "dead"}, Leave(r, how)
         PROVE  LogIsOwn' /\ StoredLogIsOwn'
    <3>1. heirs' = heirs \/ heirs' = [heirs EXCEPT ![r][calls[r]] = "running"]
      BY <2>11 DEF Leave, Left
    <3>2. \A q \in Callers, n \in 1..MaxCalls : heirs[q][n] # "none" => heirs'[q][n] # "none"
      BY <3>1, HeirsStay
    <3>3. /\ \A q \in Callers : child'[q] = "alive" => child[q] = "alive"
          /\ UNCHANGED <<calls, command, log, stored>>
      BY <2>11 DEF Leave
    <3> QED BY <3>2, <3>3, SMTT(60)
  <2>12. ASSUME NEW n \in 1..MaxCalls, WriteLog(r, n)
         PROVE  LogIsOwn' /\ StoredLogIsOwn'
    BY <2>12 DEF WriteLog, Writers
  <2>13. ASSUME NEW n \in 1..MaxCalls, Produce(r, n)
         PROVE  LogIsOwn' /\ StoredLogIsOwn'
    BY <2>13 DEF Produce
  <2>14. ASSUME NEW n \in 1..MaxCalls, HeirEnds(r, n)
         PROVE  LogIsOwn' /\ StoredLogIsOwn'
    <3>1. /\ \A q \in Callers, m \in 1..MaxCalls : heirs[q][m] # "none" => heirs'[q][m] # "none"
          /\ UNCHANGED <<child, calls, command, log, stored>>
      BY <2>14 DEF HeirEnds
    <3> QED BY <3>1
  <2>15. ASSUME NEW code \in {"exit0", "exit1"}, NEW leaves \in BOOLEAN, ChildEnds(r, code, leaves)
         PROVE  LogIsOwn' /\ StoredLogIsOwn'
    <3>1. heirs' = heirs \/ heirs' = [heirs EXCEPT ![r][calls[r]] = "running"]
      BY <2>15 DEF ChildEnds, Left
    <3>2. \A q \in Callers, n \in 1..MaxCalls : heirs[q][n] # "none" => heirs'[q][n] # "none"
      BY <3>1, HeirsStay
    <3>3. /\ \A q \in Callers : child'[q] = "alive" => child[q] = "alive"
          /\ UNCHANGED <<calls, command, log, stored>>
      BY <2>15 DEF ChildEnds
    <3> QED BY <3>2, <3>3
  <2> QED BY <1>2, <2>1, <2>2, <2>3, <2>4, <2>5, <2>6, <2>7, <2>8, <2>9, <2>10,
             <2>11, <2>12, <2>13, <2>14, <2>15, ZenonT(60) DEF CallAction
<1> QED BY <1>1, <1>2 DEF CallNext

LEMMA WrittenStep ==
  ASSUME CallTypeOK, Written, StoredIsLatest, [CallNext]_callVars
  PROVE  Written' /\ StoredIsLatest'
<1> USE CallAssumption DEF CallTypeOK, Written, StoredIsLatest
<1>1. CASE UNCHANGED callVars
  BY <1>1 DEF callVars
<1>2. ASSUME NEW r \in Callers, CallAction(r)
      PROVE  Written' /\ StoredIsLatest'
  <2>1. CASE BeginWorkspace(r)
    BY <2>1 DEF BeginWorkspace, Calls
  <2>2. ASSUME NEW capture \in {"files", "pipes"}, NEW timed \in BOOLEAN,
                StartCommand(r, capture, timed)
         PROVE  Written' /\ StoredIsLatest'
    BY <2>2 DEF StartCommand, Start, Calls
  <2>3. CASE Expire(r)
    BY <2>3 DEF Expire
  <2>4. ASSUME NEW leaves \in BOOLEAN, Kill(r, leaves)
         PROVE  Written' /\ StoredIsLatest'
    BY <2>4 DEF Kill, Left
  <2>5. CASE Reaped(r) /\ AwaitReaders(r)
    BY <2>5 DEF Reaped, AwaitReaders
  <2>6. CASE Finish(r) /\ child[r] \notin {"off", "alive"}
    <3>1. \A q \in Callers : records'[q].versions = records[q].versions
      <4>1. \/ records' = records
            \/ records' = [records EXCEPT ![r].log = TRUE, ![r].outputs = Registered(r)]
        BY <2>6 DEF Finish
      <4> QED BY <4>1, RecordFinished
    <3> QED BY <2>6, <3>1 DEF Finish
  <2>7. ASSUME NEW recorded \in BOOLEAN, WriteOutput(r, recorded)
         PROVE  Written' /\ StoredIsLatest'
    <3>1. file'[r] = file[r] + 1 /\ life[r] = "calling"
      BY <2>7 DEF WriteOutput, Calls, Idle
    <3>2. records'[r].versions \subseteq records[r].versions \cup {file'[r]}
      BY <2>7 DEF WriteOutput
    <3>3. \A q \in Callers \ {r} : records'[q] = records[q] /\ file'[q] = file[q]
      BY <2>7 DEF WriteOutput
    <3>4. UNCHANGED <<life, stored>>
      BY <2>7 DEF WriteOutput
    <3>5. \A v \in records'[r].versions : v <= file'[r]
      <4>1. records[r].versions \subseteq Nat /\ file[r] \in Nat
        OBVIOUS
      <4>2. \A v \in records[r].versions : v <= file[r]
        OBVIOUS
      <4>3. \A v \in records[r].versions : v <= file[r] + 1
        BY <4>1, <4>2
      <4>4. file[r] + 1 <= file[r] + 1
        BY <4>1
      <4>5. \A v \in records[r].versions \cup {file'[r]} : v <= file'[r]
        BY <3>1, <4>3, <4>4
      <4> QED BY <3>2, <4>5
    <3> QED BY <3>1, <3>3, <3>4, <3>5
  <2>8. CASE SaveArtifact(r)
    <3>1. records'[r].versions = records[r].versions \cup {file[r]} /\ life[r] = "calling"
      BY <2>8 DEF SaveArtifact, Calls, Idle
    <3>2. \A q \in Callers \ {r} : records'[q] = records[q]
      BY <2>8 DEF SaveArtifact
    <3>3. UNCHANGED <<life, stored, file>>
      BY <2>8 DEF SaveArtifact
    <3>4. \A v \in records'[r].versions : v <= file[r]
      <4>1. file[r] \in Nat /\ \A v \in records[r].versions : v <= file[r]
        OBVIOUS
      <4> QED BY <3>1, <4>1
    <3> QED BY <3>1, <3>2, <3>3, <3>4
  <2>9. CASE ReturnValue(r)
    BY <2>9 DEF ReturnValue
  <2>10. CASE Ingest(r)
    BY <2>10 DEF Ingest, Store, NoLog
  <2>11. ASSUME NEW how \in {"raised", "dead"}, Leave(r, how)
         PROVE  Written' /\ StoredIsLatest'
    BY <2>11 DEF Leave, Left
  <2>12. ASSUME NEW n \in 1..MaxCalls, WriteLog(r, n)
         PROVE  Written' /\ StoredIsLatest'
    BY <2>12 DEF WriteLog, Writers
  <2>13. ASSUME NEW n \in 1..MaxCalls, Produce(r, n)
         PROVE  Written' /\ StoredIsLatest'
    BY <2>13 DEF Produce
  <2>14. ASSUME NEW n \in 1..MaxCalls, HeirEnds(r, n)
         PROVE  Written' /\ StoredIsLatest'
    BY <2>14 DEF HeirEnds
  <2>15. ASSUME NEW code \in {"exit0", "exit1"}, NEW leaves \in BOOLEAN, ChildEnds(r, code, leaves)
         PROVE  Written' /\ StoredIsLatest'
    BY <2>15 DEF ChildEnds, Left
  <2> QED BY <1>2, <2>1, <2>2, <2>3, <2>4, <2>5, <2>6, <2>7, <2>8, <2>9, <2>10,
             <2>11, <2>12, <2>13, <2>14, <2>15 DEF CallAction
<1> QED BY <1>1, <1>2 DEF CallNext

LEMMA CallInv ==
  ASSUME CInv, [CallNext]_callVars
  PROVE  CInv'
BY CallTypeStep, HonestStep, LogStep, WrittenStep DEF CInv, StoredIsOwn

-----------------------------------------------------------------------------
(* Both.                                                                   *)

\* Every step is one of the workspaces, of the calls, or of both.
LEMMA StepOfBoth ==
  ASSUME WInv, CInv, [CNext]_cvars
  PROVE  [WNext]_wsVars /\ [CallNext]_callVars
<1>1. CASE UNCHANGED cvars
  BY <1>1 DEF cvars
<1>2. CASE CleanCache /\ UNCHANGED callVars
  BY <1>2 DEF WNext
<1>3. CASE COver
  BY <1>3 DEF COver, cvars
<1>4. ASSUME NEW r \in Callers, CallStep(r) \/ ProcessStep(r)
      PROVE  [WNext]_wsVars /\ [CallNext]_callVars
  <2>1. CASE BeginWorkspace(r)
    BY <2>1 DEF WNext, CallNext, CallAction, BeginWorkspace
  <2>2. CASE InWorkspace(r) \/ WorkspaceError(r)
    BY <2>2 DEF WNext, InWorkspace, WorkspaceError
  <2>3. ASSUME NEW capture \in {"files", "pipes"}, NEW timed \in BOOLEAN,
               StartCommand(r, capture, timed)
        PROVE  [WNext]_wsVars /\ [CallNext]_callVars
    BY <2>3 DEF CallNext, CallAction, StartCommand, Start
  <2>4. CASE Expire(r) \/ \E leaves \in BOOLEAN : Kill(r, leaves)
    BY <2>4 DEF CallNext, CallAction, Expire, Kill
  <2>5. CASE Reap(r)
    <3>1. (Reaped(r) /\ AwaitReaders(r)) \/ (Finish(r) /\ child[r] \notin {"off", "alive"})
      BY <2>5 DEF Reap, Reaped
    <3> QED BY <3>1 DEF CallNext, CallAction, Finish, AwaitReaders
  <2>6. CASE Join(r)
    <3>1. Finish(r) /\ child[r] \notin {"off", "alive"}
      BY <2>6 DEF Join, CInv, Honest
    <3> QED BY <3>1 DEF CallNext, CallAction, Finish
  <2>7. CASE WriteFile(r) \/ WriteSection(r) \/ SaveReport(r)
    <3>1. PICK recorded \in BOOLEAN : WriteOutput(r, recorded)
      BY <2>7 DEF WriteFile, WriteSection, SaveReport
    <3> QED BY <3>1 DEF CallNext, CallAction, WriteOutput
  <2>8. CASE SaveArtifact(r) \/ ReturnValue(r)
    BY <2>8 DEF CallNext, CallAction, SaveArtifact, ReturnValue
  <2>9. CASE Ingest(r)
    BY <2>9 DEF CallNext, CallAction, Ingest, Store
  <2>10. ASSUME NEW how \in {"raised", "dead"}, Leave(r, how)
         PROVE  [WNext]_wsVars /\ [CallNext]_callVars
    BY <2>10 DEF WNext, CallNext, CallAction, Leave
  <2>11. ASSUME NEW n \in 1..MaxCalls, WriteLog(r, n) \/ Produce(r, n) \/ HeirEnds(r, n)
         PROVE  [WNext]_wsVars /\ [CallNext]_callVars
    BY <2>11 DEF CallNext, CallAction, WriteLog, Produce, HeirEnds
  <2>12. ASSUME NEW code \in {"exit0", "exit1"}, NEW leaves \in BOOLEAN,
                ChildEnds(r, code, leaves)
         PROVE  [WNext]_wsVars /\ [CallNext]_callVars
    BY <2>12 DEF CallNext, CallAction, ChildEnds
  <2> QED BY <1>4, <2>1, <2>2, <2>3, <2>4, <2>5, <2>6, <2>7, <2>8, <2>9, <2>10, <2>11, <2>12
          DEF CallStep, ProcessStep, ContextStep
<1> QED BY <1>1, <1>2, <1>3, <1>4 DEF CNext

\* The two invariants hold in every behaviour.
THEOREM ContextInvariance == CSpec => [](WInv /\ CInv)
<1>1. CInit => WInv /\ CInv
  BY WInit_WInv, CInit_CInv
<1>2. WInv /\ CInv /\ [CNext]_cvars => (WInv /\ CInv)'
  BY StepOfBoth, WorkspaceInv, CallInv
<1> QED BY <1>1, <1>2, PTL DEF CSpec

\* A workspace that can be seen is whole, whatever call failed or process died; the
\* resource that it is linked to is complete once no run is filling it; and a call
\* that returns has made its links: for any number of runs that share one resource.
THEOREM WorkspaceAlwaysSound == CSpec => []WorkspaceIsSound
BY ContextInvariance, WorkspacesAreSound, PTL

\* A command that timed out, failed or could not be started never looks like a
\* success, however the end of the process and the timeout interleave.
THEOREM ResultAlwaysHonest == CSpec => []ResultIsHonest
<1>1. CInv => ResultIsHonest
  BY DEF CInv
<1> QED BY <1>1, ContextInvariance, PTL

\* What is stored of a run that returned is the output of its last command, or of
\* processes that earlier ones left behind, and no file older than a record of it.
THEOREM StoredAlwaysOwn == CSpec => []StoredIsOwn
<1>1. CInv => StoredIsOwn
  BY DEF CInv
<1> QED BY <1>1, ContextInvariance, PTL

=============================================================================
