-------------------------- MODULE MCOutputRetention --------------------------
(***************************************************************************)
(* Model checking of OutputRetention: checkpoint directories written in    *)
(* any order, each with any of the resume-only files.  The passes are      *)
(* alike.                                                                  *)
(***************************************************************************)
EXTENDS OutputRetention, TLC

AnyOrder == Permutations(Passes)

=============================================================================
