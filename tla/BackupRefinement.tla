-------------------------- MODULE BackupRefinement --------------------------
(***************************************************************************)
(* BackupServer, for requests with filenames that are not empty and on a   *)
(* disk that does not fill up, implements BackupStore.                     *)
(***************************************************************************)
EXTENDS BackupServer

(* A file that is being written is not in the store before backupFile has  *)
(* decided on its response: the mutexes hide it until then.                *)
BeingWritten(u, n) ==
  \E s \in Sessions :
    pc[s] \in {"writeFile", "closeFile"} /\ UserOf(s) = u /\ NameOf(s) = n

storeBar ==
  [u \in Users |-> [n \in Names |-> IF BeingWritten(u, n) THEN NoFile ELSE files[u][n]]]

Store == INSTANCE BackupStore WITH
           store <- storeBar, known <- user_directories_,
           call <- request, reply <- response

(* Every client sees a store that performs each request in one step.       *)
ImplementsStore == Store!Spec
=============================================================================
