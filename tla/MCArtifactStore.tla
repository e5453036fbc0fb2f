--------------------------- MODULE MCArtifactStore ---------------------------
(***************************************************************************)
(* Model checking of ArtifactStore.  A checkpoint is a directory of a      *)
(* weights blob and an optimizer blob; once the retention policy has       *)
(* removed the optimizer state it is a directory of the weights alone.     *)
(* Another artifact is the file of the weights.                            *)
(***************************************************************************)
EXTENDS ArtifactStore

CONSTANTS weights, optimizer, v1, a1

Checkpoint == [kind |-> "directory", blobs |-> {weights, optimizer}]
Stripped   == [kind |-> "directory", blobs |-> {weights}]
Model      == [kind |-> "file", blobs |-> {weights}]

Checkpoints == {Checkpoint, Stripped}
AllObjects  == {Checkpoint, Stripped, Model}

\* What is staged or promoted: only a run stages without a reference.
SomeEvents == {[obj |-> Checkpoint, ver |-> NoVersion, alias |-> NoAlias],
               [obj |-> Stripped, ver |-> v1, alias |-> a1],
               [obj |-> Model, ver |-> NoVersion, alias |-> NoAlias]}

=============================================================================
