--------------------------- MODULE MCBackupServer ---------------------------
(***************************************************************************)
(* The constants of BackupServer for TLC.                                  *)
(***************************************************************************)
EXTENDS BackupServer

(* The filenames that requests carry, the empty one among them. *)
AllNames == Filenames \cup {EmptyName}
=============================================================================
