--------------------------- MODULE MCArchiveCheck ---------------------------
(***************************************************************************)
(* Model checking ArchiveCheck, and what a comment of the code says of it  *)
(* that two concurrent checkers do not keep.                               *)
(***************************************************************************)
EXTENDS ArchiveCheck, TLC

Symmetry == Permutations(Request) \cup Permutations(Job)

(* submission.service.ts:557, in snapshotArchiveExpectations: handing in   *)
(* again is judged again and does not get stuck on the old conclusion.     *)
NotStuckOnOldVerdict == Settled => Current
=============================================================================
