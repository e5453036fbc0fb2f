----------------------------- MODULE MCReaders -----------------------------
(***************************************************************************)
(* Model checking of commands that read what others change meanwhile: the  *)
(* sources and the registry cache (RegistryCache), or the run directories  *)
(* (RunScans, with the bounds of MCRunScans), one of the two in a          *)
(* behaviour.                                                              *)
(***************************************************************************)
EXTENDS RegistryCache, TLC, MCRunScans

MCFiles == {1, 2}
Terminals == Permutations(Commands)

VARIABLE part   \* "discovery" or "scans"

\* Bound: at the start the second source is plain or not there, and a package that nothing
\* needs is installed; a change may have it otherwise.
FewSources == /\ source[2] \in Plain \cup {Absent}
              /\ installed \/ \E f \in Files : source[f] \in Needing

NoDiscovery == /\ source = [f \in Files |-> CHOOSE x \in Plain : TRUE] /\ installed = TRUE
NoScan == lab = CHOOSE l \in MCLabs : TRUE

MCInit == /\ Init /\ ScanInit
          /\ \/ part = "discovery" /\ FewSources /\ NoScan
             \/ part = "scans" /\ NoDiscovery

MCNext == /\ \/ part = "discovery" /\ Next /\ UNCHANGED scanVars
             \/ part = "scans" /\ ScanNext /\ UNCHANGED vars
          /\ UNCHANGED part

MCSpec == MCInit /\ [][MCNext]_<<vars, scanVars, part>>
=============================================================================
