------------------------- MODULE MCBackupRefinement -------------------------
(***************************************************************************)
(* The constants of BackupRefinement for TLC.                              *)
(***************************************************************************)
EXTENDS BackupRefinement, TLC

(* Filenames, payloads and sessions are only compared for equality. *)
Symmetry == Permutations(Filenames) \cup Permutations(Payloads) \cup Permutations(Sessions)
=============================================================================
