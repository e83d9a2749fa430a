--------------------------- MODULE MCBackupSystem ---------------------------
(***************************************************************************)
(* The constants of BackupSystem for TLC.                                  *)
(***************************************************************************)
EXTENDS BackupSystem, TLC

CONSTANTS a, b, x, p, q

(* a and b exist, x does not. *)
TheirBytes  == a :> p @@ b :> q

TwoFiles    == {<<a, b>>}
AnyInfo     == {<<a, b>>, <<a>>, <<a, a>>, <<a, x>>, <<a, b, x>>, Unreadable}
Valid       == {"valid"}
AnyServer   == {"valid", "elsewhere", "invalid", "unreadable"}
UserClients == Permutations(Users) \cup Permutations(Clients)
=============================================================================
