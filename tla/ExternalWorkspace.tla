-------------------------- MODULE ExternalWorkspace --------------------------
(***************************************************************************)
(* ctx.external_workspace of rlab-py/src/py_run.rs: the directory in which *)
(* a run works with an external program.  The first call of a run copies   *)
(* the source to a temporary directory, but for the paths that are cached  *)
(* or hold outputs, and renames it; it then links each cached path to a    *)
(* resource in the cache directory of the project, which the first run to  *)
(* miss it fills and all runs share.  Every call links the output paths to *)
(* the outputs of the run.                                                 *)
(*                                                                         *)
(* Here all runs use one adapter name and one cached path, a directory of  *)
(* Parts, so they share one resource.  The output path may lie inside the  *)
(* cached path: validation only asks for paths that differ.  Sources do    *)
(* not change; runs may have different ones, since the key of a resource   *)
(* is the name of the adapter and of the path.                             *)
(***************************************************************************)
EXTENDS Naturals, FiniteSets

CONSTANTS Callers,   \* the runs at work
          Sources,   \* the directories a workspace may be made from
          Files,     \* what is copied of one
          Parts,     \* the files of a cached directory
          None

\* None and the words below stand for nothing that is there.
ASSUME WorkspaceAssumption ==
  /\ None \notin Parts \cup Sources \cup {Files}
  /\ "unnamed" \notin Parts \cup {None}
  /\ "short" \notin Sources

VARIABLES source,    \* the source each run is given
          holds,     \* what a source has at the cached path
          nested,    \* the output path lies inside the cached one
          at,        \* the next step of the call
          got,       \* how the last call of the run ended
          temp,      \* the files in its temporary directory
          workspace, \* the files in its workspace, once there is one
          linked,    \* its workspace has the link to the resource
          outlink,   \* its workspace has a link to its outputs, outside the resource
          resource,  \* the resource in the cache
          copying,   \* the part each run is copying into it
          filled,    \* the parts it has copied
          again,     \* a call of the run has raised
          spoilt     \* a copy of the resource has stopped midway, or it was removed

wsVars == <<source, holds, nested, at, got, temp, workspace, linked, outlink,
            resource, copying, filled, again, spoilt>>

\* kind: "absent", "dir", or a symbolic link to nowhere.  parts: the source each
\* file of it is from, None, or "short".  out: the run whose outputs are linked
\* inside it.
Absent == [kind |-> "absent", parts |-> [p \in Parts |-> None], out |-> None]
EmptyDir == [Absent EXCEPT !.kind = "dir"]

InCall == {"copy", "look", "fill", "parts", "link", "outputs"}

WInit == /\ source \in [Callers -> Sources]
         /\ holds \in [Sources -> {"dir", "missing", "link"}]
         /\ nested \in BOOLEAN
         /\ at = [r \in Callers |-> "idle"]
         /\ got = [r \in Callers |-> "nothing"]
         /\ temp = [r \in Callers |-> {}]
         /\ workspace = [r \in Callers |-> None]
         /\ linked = [r \in Callers |-> FALSE]
         /\ outlink = [r \in Callers |-> FALSE]
         /\ resource = Absent
         /\ copying = [r \in Callers |-> None]
         /\ filled = [r \in Callers |-> {}]
         /\ again = [r \in Callers |-> FALSE]
         /\ spoilt = FALSE

Go(r, from, to) == at[r] = from /\ at' = [at EXCEPT ![r] = to]
Same == UNCHANGED <<source, holds, nested, again>>

\* The call starts; a workspace that is there is taken as it is.
CallWorkspace(r) ==
  /\ Go(r, "idle", IF workspace[r] = None THEN "copy" ELSE "outputs")
  /\ got' = [got EXCEPT ![r] = "nothing"]
  /\ Same /\ UNCHANGED <<temp, workspace, linked, outlink, resource, copying, filled, spoilt>>

CopyFile(r, f) ==
  /\ at[r] = "copy" /\ f \notin temp[r]
  /\ temp' = [temp EXCEPT ![r] = @ \cup {f}]
  /\ Same /\ UNCHANGED <<at, got, workspace, linked, outlink, resource, copying, filled, spoilt>>

\* Mutant: the copy is renamed when it is begun.
RenameEarly(r) ==
  /\ Go(r, "copy", "look")
  /\ workspace' = [workspace EXCEPT ![r] = temp[r]]
  /\ Same /\ UNCHANGED <<got, temp, linked, outlink, resource, copying, filled, spoilt>>

Rename(r) ==
  /\ Go(r, "copy", "look")
  /\ temp[r] = Files
  /\ workspace' = [workspace EXCEPT ![r] = temp[r]]
  /\ temp' = [temp EXCEPT ![r] = {}]
  /\ Same /\ UNCHANGED <<got, linked, outlink, resource, copying, filled, spoilt>>

\* exists() follows links: a link to nowhere is not there.
Look(r) ==
  /\ Go(r, "look", IF resource.kind = "dir" THEN "link" ELSE "fill")
  /\ Same /\ UNCHANGED <<got, temp, workspace, linked, outlink, resource, copying, filled, spoilt>>

\* copy_path_or_dir, up to the files of a directory: a directory is made, empty
\* for good if the source has none; a link is copied as a link, which here leads
\* nowhere.  Over a link to nowhere either is an error.
Fill(r) ==
  LET what == holds[source[r]]
  IN /\ Go(r, "fill", IF what = "dir" THEN "parts" ELSE "link")
     /\ \/ what \in {"dir", "missing"} /\ resource.kind = "absent" /\ resource' = EmptyDir
        \/ what \in {"dir", "missing"} /\ resource.kind = "dir" /\ UNCHANGED resource
        \/ what = "link" /\ resource.kind = "absent" /\ resource' = [Absent EXCEPT !.kind = "link"]
     /\ Same /\ UNCHANGED <<got, temp, workspace, linked, outlink, copying, filled, spoilt>>

\* A file is truncated, then filled.
StartPart(r, p) ==
  /\ at[r] = "parts" /\ copying[r] = None /\ p \notin filled[r]
  /\ resource.kind = "dir"
  /\ copying' = [copying EXCEPT ![r] = p]
  /\ resource' = [resource EXCEPT !.parts[p] = "short"]
  /\ Same /\ UNCHANGED <<at, got, temp, workspace, linked, outlink, filled, spoilt>>

\* A file that another run has truncated meanwhile is short until that one is done.
EndPart(r) ==
  LET p == copying[r]
      alone == \A q \in Callers \ {r} : copying[q] # p
  IN /\ at[r] = "parts" /\ p # None
     /\ copying' = [copying EXCEPT ![r] = None]
     /\ filled' = [filled EXCEPT ![r] = @ \cup ({p} \cap Parts)]
     /\ resource' = IF p \in Parts /\ alone
                    THEN [resource EXCEPT !.parts[p] = source[r]] ELSE resource
     /\ Same /\ UNCHANGED <<at, got, temp, workspace, linked, outlink, spoilt>>

EndFill(r) ==
  /\ Go(r, "parts", "link")
  /\ copying[r] = None
  /\ filled[r] = Parts
  /\ filled' = [filled EXCEPT ![r] = {}]
  /\ Same /\ UNCHANGED <<got, temp, workspace, linked, outlink, resource, copying, spoilt>>

Link(r) ==
  /\ Go(r, "link", "outputs")
  /\ linked' = [linked EXCEPT ![r] = TRUE]
  /\ Same /\ UNCHANGED <<got, temp, workspace, outlink, resource, copying, filled, spoilt>>

\* The directory of the output path, seen through the link, is the resource.
Inside(r) == nested /\ linked[r]

\* An output path inside the resource is linked there, in place of the link of
\* another run; a resource that is gone or leads nowhere is an error.
LinkOutputs(r) ==
  /\ Go(r, "outputs", "idle")
  /\ got' = [got EXCEPT ![r] = "returned"]
  /\ IF Inside(r)
     THEN resource.kind = "dir" /\ resource' = [resource EXCEPT !.out = r] /\ UNCHANGED outlink
     ELSE outlink' = [outlink EXCEPT ![r] = TRUE] /\ UNCHANGED resource
  /\ Same /\ UNCHANGED <<temp, workspace, linked, copying, filled, spoilt>>

\* An error at any step, of those above or of the file system: the call raises.
\* Its temporary directory stays, under a name that no other call takes.
Stop(r) ==
  /\ at[r] \in InCall
  /\ at' = [at EXCEPT ![r] = "idle"]
  /\ got' = [got EXCEPT ![r] = "raised"]
  /\ again' = [again EXCEPT ![r] = TRUE]
  /\ temp' = [temp EXCEPT ![r] = {}]
  /\ copying' = [copying EXCEPT ![r] = None]
  /\ filled' = [filled EXCEPT ![r] = {}]
  /\ spoilt' = (spoilt \/ at[r] = "parts")
  /\ UNCHANGED <<source, holds, nested, workspace, linked, outlink, resource>>

\* What the call finds in its way: a resource that is a link where a directory is to
\* be copied, or something where a link is; no directory, or no way to it.
Blocked(r) ==
  \/ at[r] = "fill" /\ IF holds[source[r]] = "link" THEN resource.kind # "absent"
                      ELSE resource.kind = "link"
  \/ at[r] = "parts" /\ copying[r] = None /\ filled[r] # Parts /\ resource.kind # "dir"
  \/ at[r] = "outputs" /\ Inside(r) /\ resource.kind # "dir"

FailCall(r) == Blocked(r) /\ Stop(r)

\* rlab cache clean: a file that is being copied goes on without a name.
CleanCache ==
  /\ resource # Absent
  /\ resource' = Absent
  /\ copying' = [r \in Callers |-> IF copying[r] \in Parts THEN "unnamed" ELSE copying[r]]
  /\ filled' = [r \in Callers |-> filled[r] \cup ({copying[r]} \cap Parts)]
  /\ spoilt' = TRUE
  /\ Same /\ UNCHANGED <<at, got, temp, workspace, linked, outlink>>

\* The outputs that a program in the workspace of r reaches by the output path.
OutputsOf(r) == CASE Inside(r)                -> resource.out
                  [] ~Inside(r) /\ outlink[r] -> r
                  [] OTHER                    -> None

WorkspaceStep(r) ==
  \/ \E f \in Files : CopyFile(r, f)
  \/ Rename(r) \/ Look(r) \/ Fill(r)
  \/ \E p \in Parts : StartPart(r, p)
  \/ EndPart(r) \/ EndFill(r) \/ Link(r) \/ LinkOutputs(r) \/ FailCall(r)

=============================================================================
