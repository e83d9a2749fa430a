----------------------------- MODULE BackupStore -----------------------------
(***************************************************************************)
(* What the backup server promises its clients, without threads, mutexes   *)
(* or directories: each request is performed in one step, at some moment   *)
(* between its arrival and its response, on one store.                     *)
(*                                                                         *)
(* The server knows a user from the moment it starts on a backup of that   *)
(* user until it crashes.  A crash loses the requests that are being       *)
(* handled; at most one of them, a backup, may have left its file behind,  *)
(* whole or torn.                                                          *)
(***************************************************************************)
EXTENDS BackupMessages

CONSTANTS Sessions

VARIABLES
  store,   \* store[u][n]: the contents of the file n of user u
  known,   \* the users the server knows
  call,    \* the request each session handles
  reply    \* the response to it

vars == <<store, known, call, reply>>

TypeOK ==
  /\ store \in [Users -> [Names -> Contents \cup {NoFile}]]
  /\ known \subseteq Users
  /\ call \in [Sessions -> Requests \cup {NoRequest}]
  /\ reply \in [Sessions -> Responses \cup {NoResponse}]

Stored(u) == {n \in Names : store[u][n] # NoFile}

Pending(s) == call[s] # NoRequest /\ reply[s] = NoResponse

Init ==
  /\ store = [u \in Users |-> [n \in Names |-> NoFile]]
  /\ known = {}
  /\ call = [s \in Sessions |-> NoRequest]
  /\ reply = [s \in Sessions |-> NoResponse]

Invoke(s, r) ==
  /\ call[s] = NoRequest /\ reply[s] = NoResponse
  /\ call' = [call EXCEPT ![s] = r]
  /\ UNCHANGED <<store, known, reply>>

(* The request could not be understood. *)
Refuse(s) ==
  /\ call[s] = NoRequest /\ reply[s] = NoResponse
  /\ reply' = [reply EXCEPT ![s] = ServerError]
  /\ UNCHANGED <<store, known, call>>

Answer(s, r) == reply' = [reply EXCEPT ![s] = r] /\ UNCHANGED call

(* The server starts on a backup: it knows the user from now on. *)
Admit(s) ==
  /\ Pending(s) /\ call[s].op = "BACKUP_FILE"
  /\ known' = known \cup {call[s].user}
  /\ UNCHANGED <<store, call, reply>>

Backup(s) ==
  LET u == call[s].user
      n == call[s].name
  IN  /\ Pending(s) /\ call[s].op = "BACKUP_FILE"
      /\ u \in known
      /\ \/ /\ store[u][n] = NoFile
            /\ store' = [store EXCEPT ![u][n] =
                           [payload |-> call[s].payload, complete |-> TRUE]]
            /\ Answer(s, SuccessfulBackupOrDelete(n))
         \/ /\ store[u][n] # NoFile
            /\ Answer(s, ServerError)
            /\ UNCHANGED store
      /\ UNCHANGED known

Delete(s) ==
  LET u == call[s].user
      n == call[s].name
  IN  /\ Pending(s) /\ call[s].op = "DELETE_FILE"
      /\ \/ /\ u \in known /\ store[u][n] # NoFile
            /\ store' = [store EXCEPT ![u][n] = NoFile]
            /\ Answer(s, SuccessfulBackupOrDelete(n))
         \/ /\ u \notin known \/ store[u][n] = NoFile
            /\ Answer(s, ServerError)
            /\ UNCHANGED store
      /\ UNCHANGED known

Restore(s) ==
  LET u == call[s].user
      n == call[s].name
  IN  /\ Pending(s) /\ call[s].op = "RESTORE_FILE"
      /\ \/ u \in known /\ store[u][n] # NoFile /\ Answer(s, SuccessfulRestore(n, store[u][n]))
         \/ u \in known /\ store[u][n] = NoFile /\ Answer(s, FileNotFound(n))
         \/ u \notin known /\ Answer(s, ServerError)
      /\ UNCHANGED <<store, known>>

List(s) ==
  LET u == call[s].user
  IN  /\ Pending(s) /\ call[s].op = "LIST_FILES"
      /\ \/ u \in known /\ \E ns \in Enumerations(Stored(u)) : Answer(s, SuccessfulListFiles(ns))
         \/ u \notin known /\ Answer(s, NoBackupFilesForClient)
      /\ UNCHANGED <<store, known>>

(* The response was sent, or the client is gone. *)
Finish(s) ==
  /\ reply[s] # NoResponse
  /\ call' = [call EXCEPT ![s] = NoRequest]
  /\ reply' = [reply EXCEPT ![s] = NoResponse]
  /\ UNCHANGED <<store, known>>

Crash ==
  /\ known' = {}
  /\ call' = [s \in Sessions |-> NoRequest]
  /\ reply' = [s \in Sessions |-> NoResponse]
  /\ \/ UNCHANGED store
     \/ \E s \in Sessions, whole \in BOOLEAN :
          /\ Pending(s) /\ call[s].op = "BACKUP_FILE"
          /\ store[call[s].user][call[s].name] = NoFile
          /\ store' = [store EXCEPT ![call[s].user][call[s].name] =
                         [payload |-> call[s].payload, complete |-> whole]]

Next ==
  \/ \E s \in Sessions :
       \/ \E r \in Requests : Invoke(s, r)
       \/ Refuse(s) \/ Admit(s)
       \/ Backup(s) \/ Delete(s) \/ Restore(s) \/ List(s)
       \/ Finish(s)
  \/ Crash

Spec == Init /\ [][Next]_vars
=============================================================================
