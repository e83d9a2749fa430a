------------------------- MODULE BackupServer_proof -------------------------
(***************************************************************************)
(* Theorems about BackupServer.                                            *)
(***************************************************************************)
EXTENDS BackupServer, FiniteSetTheorems, TLAPS

(* The request of a session is one that leads to the step it is at. *)
RequestFitsPhase ==
  \A s \in Sessions :
    /\ pc[s] \in HandlerPhases => request[s] \in Requests
    /\ pc[s] = "checkFile" => request[s].op # "LIST_FILES"
    /\ pc[s] \in {"openFile", "writeFile", "closeFile"} => request[s].op = "BACKUP_FILE"
    /\ pc[s] = "readFile" => request[s].op = "RESTORE_FILE"
    /\ pc[s] = "removeFile" => request[s].op = "DELETE_FILE"
    /\ pc[s] = "listDirectory" => request[s].op = "LIST_FILES"

(* What a session found when it checked the file still holds at the later  *)
(* steps: nobody else got at the file in between.                          *)
CheckStillHolds ==
  \A s \in Sessions :
    /\ pc[s] = "openFile" => files[UserOf(s)][NameOf(s)] = NoFile
    /\ pc[s] = "writeFile" =>
         files[UserOf(s)][NameOf(s)] \in
           {NoFile, [payload |-> request[s].payload, complete |-> FALSE]}
    /\ pc[s] \in {"readFile", "removeFile"} => Exists(UserOf(s), NameOf(s))

Inv == TypeOK /\ MutexesAreNested /\ RequestFitsPhase /\ CheckStillHolds

(* The named requests, by their operation. *)
LEMMA RequestFields ==
  ASSUME NEW r \in Requests
  PROVE  /\ r.op \in {"BACKUP_FILE", "RESTORE_FILE", "DELETE_FILE", "LIST_FILES"}
         /\ r.user \in Users
         /\ r.op # "LIST_FILES" => r.name \in Names
         /\ r.op = "BACKUP_FILE" => r.payload \in Payloads
         /\ r.op = "DELETE_FILE" =>
              r = [op |-> "DELETE_FILE", user |-> r.user, name |-> r.name]
  BY DEF Requests, BackupRequests, NamedRequests, ListRequests

(* A list response holds the names of files. *)
LEMMA EnumerationsType ==
  ASSUME NEW u \in Users, NEW ns \in Enumerations(FilesOf(u))
  PROVE  ns \in Seq(Filenames)
<1>1. IsFiniteSet(FilesOf(u))
  BY MessagesAssumption, FS_Subset DEF FilesOf
<1>2. Cardinality(FilesOf(u)) \in Nat
  BY <1>1, FS_CardinalityType
<1>3. ns \in [1 .. Cardinality(FilesOf(u)) -> Filenames]
  BY DEF Enumerations, FilesOf
<1> QED
  BY <1>2, <1>3

(* The server starts with nothing on disk, no user and every slot free.    *)
LEMMA InitInv == Init => Inv
  BY MessagesAssumption, ServerAssumption
     DEF Init, Inv, TypeOK, MutexesAreNested, RequestFitsPhase, CheckStillHolds,
         Phases, HandlerPhases, ManagerPhases, DirectoryPhases

(* At most one session is inside the manager. *)
LEMMA OneInManager ==
  ASSUME MutexesAreNested, NEW s \in Sessions, NEW t \in Sessions,
         pc[s] \in ManagerPhases, pc[t] \in ManagerPhases
  PROVE  s = t
  BY DEF MutexesAreNested

(* The step that leaves the manager leaves no mutex locked. *)
LEMMA LeaveUnlocks ==
  ASSUME TypeOK, MutexesAreNested, NEW s \in Sessions, NEW from \in ManagerPhases, NEW r,
         Leave(s, from, r)
  PROVE  MutexesAreNested'
  BY ServerAssumption
     DEF TypeOK, MutexesAreNested, Leave, Goto, Unlock, UserOf,
         Phases, HandlerPhases, ManagerPhases, DirectoryPhases

(* Leaving the manager keeps everything the sessions rely on, as long as   *)
(* the response is one of the protocol.                                    *)
LEMMA LeaveInv ==
  ASSUME Inv, NEW s \in Sessions, NEW from \in ManagerPhases, NEW r \in Responses,
         Leave(s, from, r),
         directories' \subseteq Users,
         files' \in [Users -> [Filenames \cup {EmptyName} -> Contents \cup {NoFile}]],
         promised' \in [Users -> [Filenames \cup {EmptyName} -> Payloads \cup {NoFile}]]
  PROVE  Inv'
<1>1. TypeOK'
  BY ServerAssumption DEF Inv, TypeOK, Leave, Goto, Unlock, Phases
<1>2. MutexesAreNested'
  BY LeaveUnlocks DEF Inv
<1>3. RequestFitsPhase'
  BY DEF Inv, TypeOK, RequestFitsPhase, Leave, Goto,
         HandlerPhases, ManagerPhases, DirectoryPhases
<1>4. CheckStillHolds'
  <2> SUFFICES ASSUME NEW t \in Sessions,
                      pc'[t] \in {"openFile", "writeFile", "readFile", "removeFile"}
               PROVE  FALSE
    BY DEF CheckStillHolds
  <2>1. t # s /\ pc[t] = pc'[t]
    BY DEF Inv, TypeOK, Leave, Goto
  <2>2. pc[t] \in ManagerPhases /\ pc[s] \in ManagerPhases
    BY <2>1 DEF Leave, Goto, ManagerPhases, DirectoryPhases
  <2> QED
    BY <2>1, <2>2, OneInManager DEF Inv
<1> QED
  BY <1>1, <1>2, <1>3, <1>4 DEF Inv

(* A file that is given contents, or removed, keeps the type of files. *)
LEMMA SetFileType ==
  ASSUME TypeOK, NEW u \in Users, NEW n \in Filenames \cup {EmptyName},
         NEW c \in Contents \cup {NoFile}, SetFile(u, n, c)
  PROVE  files' \in [Users -> [Filenames \cup {EmptyName} -> Contents \cup {NoFile}]]
  BY DEF TypeOK, SetFile

(* Every step keeps the invariant. *)
LEMMA NextInv == Inv /\ [Next]_vars => Inv'
<1> SUFFICES ASSUME Inv, [Next]_vars PROVE Inv'
  OBVIOUS
<1> USE DEF Inv
<1>1. ASSUME NEW s \in Sessions, Accept(s) PROVE Inv'
  <2>1. TypeOK'
    BY <1>1
       DEF Accept, Goto, TypeOK, disk, memory, Phases, HandlerPhases, ManagerPhases, DirectoryPhases
  <2>2. MutexesAreNested'
    BY <1>1
       DEF Accept, Goto, TypeOK, MutexesAreNested, UserOf, disk, memory,
           ManagerPhases, DirectoryPhases
  <2>3. RequestFitsPhase'
    BY <1>1
       DEF Accept, Goto, TypeOK, RequestFitsPhase, disk, memory,
           HandlerPhases, ManagerPhases, DirectoryPhases
  <2>4. CheckStillHolds'
    BY <1>1
       DEF Accept, Goto, TypeOK, CheckStillHolds, UserOf, NameOf, Exists, IsDirectory,
           disk, memory
  <2> QED
    BY <2>1, <2>2, <2>3, <2>4
<1>2. ASSUME NEW s \in Sessions, NEW r \in Requests, ReadRequest(s, r) PROVE Inv'
  <2>1. TypeOK'
    BY <1>2
       DEF ReadRequest, Goto, TypeOK, disk, memory, Phases, HandlerPhases, ManagerPhases, DirectoryPhases
  <2>2. MutexesAreNested'
    BY <1>2
       DEF ReadRequest, Goto, TypeOK, MutexesAreNested, UserOf, disk, memory,
           ManagerPhases, DirectoryPhases
  <2>3. RequestFitsPhase'
    BY <1>2
       DEF ReadRequest, Goto, TypeOK, RequestFitsPhase, disk, memory,
           HandlerPhases, ManagerPhases, DirectoryPhases
  <2>4. CheckStillHolds'
    BY <1>2
       DEF ReadRequest, Goto, TypeOK, CheckStillHolds, UserOf, NameOf, Exists, IsDirectory,
           disk, memory
  <2> QED
    BY <2>1, <2>2, <2>3, <2>4
<1>3. ASSUME NEW s \in Sessions, RejectRequest(s) PROVE Inv'
  <2>1. TypeOK'
    BY <1>3
       DEF RejectRequest, Goto, TypeOK, disk, memory, Phases, HandlerPhases, ManagerPhases, DirectoryPhases, Responses
  <2>2. MutexesAreNested'
    BY <1>3
       DEF RejectRequest, Goto, TypeOK, MutexesAreNested, UserOf, disk, memory,
           ManagerPhases, DirectoryPhases
  <2>3. RequestFitsPhase'
    BY <1>3
       DEF RejectRequest, Goto, TypeOK, RequestFitsPhase, disk, memory,
           HandlerPhases, ManagerPhases, DirectoryPhases
  <2>4. CheckStillHolds'
    BY <1>3
       DEF RejectRequest, Goto, TypeOK, CheckStillHolds, UserOf, NameOf, Exists, IsDirectory,
           disk, memory
  <2> QED
    BY <2>1, <2>2, <2>3, <2>4
<1>4. ASSUME NEW s \in Sessions, LoseClient(s) \/ SendResponse(s) \/ FailToSend(s) PROVE Inv'
  <2>1. TypeOK'
    BY <1>4
       DEF LoseClient, SendResponse, FailToSend, EndSession, Goto, TypeOK, disk, memory, Phases, HandlerPhases, ManagerPhases, DirectoryPhases
  <2>2. MutexesAreNested'
    BY <1>4
       DEF LoseClient, SendResponse, FailToSend, EndSession, Goto, TypeOK, MutexesAreNested, UserOf, disk, memory,
           ManagerPhases, DirectoryPhases
  <2>3. RequestFitsPhase'
    BY <1>4
       DEF LoseClient, SendResponse, FailToSend, EndSession, Goto, TypeOK, RequestFitsPhase, disk, memory,
           HandlerPhases, ManagerPhases, DirectoryPhases
  <2>4. CheckStillHolds'
    BY <1>4
       DEF LoseClient, SendResponse, FailToSend, EndSession, Goto, TypeOK, CheckStillHolds, UserOf, NameOf, Exists, IsDirectory,
           disk, memory
  <2> QED
    BY <2>1, <2>2, <2>3, <2>4
<1>5. ASSUME NEW s \in Sessions, LockManager(s) PROVE Inv'
  <2>1. TypeOK'
    BY <1>5, ServerAssumption
       DEF LockManager, Goto, TypeOK, disk, memory, Phases, HandlerPhases, ManagerPhases, DirectoryPhases
  <2>2. MutexesAreNested'
    BY <1>5, ServerAssumption
       DEF LockManager, Goto, TypeOK, MutexesAreNested, UserOf, disk, memory,
           ManagerPhases, DirectoryPhases
  <2>3. RequestFitsPhase'
    BY <1>5, ServerAssumption
       DEF LockManager, Goto, TypeOK, RequestFitsPhase, disk, memory,
           HandlerPhases, ManagerPhases, DirectoryPhases
  <2>4. CheckStillHolds'
    BY <1>5, ServerAssumption
       DEF LockManager, Goto, TypeOK, CheckStillHolds, UserOf, NameOf, Exists, IsDirectory,
           disk, memory
  <2> QED
    BY <2>1, <2>2, <2>3, <2>4
<1>6. ASSUME NEW s \in Sessions, AddUser(s) PROVE Inv'
  <2>1. TypeOK'
    BY <1>6, RequestFields
       DEF AddUser, Goto, TypeOK, disk, memory, Phases, HandlerPhases, ManagerPhases, DirectoryPhases, RequestFitsPhase, UserOf
  <2>2. MutexesAreNested'
    BY <1>6
       DEF AddUser, Goto, TypeOK, MutexesAreNested, UserOf, disk, memory,
           ManagerPhases, DirectoryPhases
  <2>3. RequestFitsPhase'
    BY <1>6
       DEF AddUser, Goto, TypeOK, RequestFitsPhase, disk, memory,
           HandlerPhases, ManagerPhases, DirectoryPhases
  <2>4. CheckStillHolds'
    BY <1>6, OneInManager
       DEF AddUser, Goto, TypeOK, CheckStillHolds, UserOf, NameOf, Exists, IsDirectory,
           disk, memory, RequestFitsPhase, MutexesAreNested, ManagerPhases, DirectoryPhases
  <2> QED
    BY <2>1, <2>2, <2>3, <2>4
<1>7. ASSUME NEW s \in Sessions, FindUser(s) PROVE Inv'
  <2>1. TypeOK'
    BY <1>7
       DEF FindUser, Goto, TypeOK, disk, memory, Phases, HandlerPhases, ManagerPhases, DirectoryPhases
  <2>2. MutexesAreNested'
    BY <1>7
       DEF FindUser, Goto, TypeOK, MutexesAreNested, UserOf, disk, memory,
           ManagerPhases, DirectoryPhases
  <2>3. RequestFitsPhase'
    BY <1>7
       DEF FindUser, Goto, TypeOK, RequestFitsPhase, disk, memory,
           HandlerPhases, ManagerPhases, DirectoryPhases
  <2>4. CheckStillHolds'
    BY <1>7
       DEF FindUser, Goto, TypeOK, CheckStillHolds, UserOf, NameOf, Exists, IsDirectory,
           disk, memory
  <2> QED
    BY <2>1, <2>2, <2>3, <2>4
<1>8. ASSUME NEW s \in Sessions, LockDirectory(s) PROVE Inv'
  <2>1. TypeOK'
    BY <1>8, RequestFields
       DEF LockDirectory, Goto, TypeOK, disk, memory, Phases, HandlerPhases, ManagerPhases, DirectoryPhases, RequestFitsPhase, UserOf
  <2>2. MutexesAreNested'
    BY <1>8, RequestFields, ServerAssumption
       DEF LockDirectory, Goto, TypeOK, MutexesAreNested, UserOf, disk, memory,
           ManagerPhases, DirectoryPhases, RequestFitsPhase, HandlerPhases
  <2>3. RequestFitsPhase'
    BY <1>8
       DEF LockDirectory, Goto, TypeOK, RequestFitsPhase, disk, memory,
           HandlerPhases, ManagerPhases, DirectoryPhases
  <2>4. CheckStillHolds'
    BY <1>8
       DEF LockDirectory, Goto, TypeOK, CheckStillHolds, UserOf, NameOf, Exists, IsDirectory,
           disk, memory
  <2> QED
    BY <2>1, <2>2, <2>3, <2>4
<1>9. ASSUME NEW s \in Sessions, CheckSucceeds(s) PROVE Inv'
  <2>1. TypeOK'
    BY <1>9, RequestFields
       DEF CheckSucceeds, AfterCheck, Goto, TypeOK, disk, memory, Phases, HandlerPhases, ManagerPhases, DirectoryPhases, RequestFitsPhase
  <2>2. MutexesAreNested'
    BY <1>9, RequestFields
       DEF CheckSucceeds, AfterCheck, Goto, TypeOK, MutexesAreNested, UserOf, disk, memory,
           ManagerPhases, DirectoryPhases, RequestFitsPhase, HandlerPhases
  <2>3. RequestFitsPhase'
    BY <1>9, RequestFields
       DEF CheckSucceeds, AfterCheck, Goto, TypeOK, RequestFitsPhase, disk, memory,
           HandlerPhases, ManagerPhases, DirectoryPhases
  <2>4. CheckStillHolds'
    BY <1>9, RequestFields
       DEF CheckSucceeds, AfterCheck, Goto, TypeOK, CheckStillHolds, UserOf, NameOf, Exists, IsDirectory,
           disk, memory, RequestFitsPhase, HandlerPhases, ManagerPhases, DirectoryPhases
  <2> QED
    BY <2>1, <2>2, <2>3, <2>4
<1>10. ASSUME NEW s \in Sessions, OpenFile(s) PROVE Inv'
  <2>1. TypeOK'
    BY <1>10, RequestFields, SetFileType, MessagesAssumption
       DEF OpenFile, Goto, TypeOK, disk, memory, Phases, HandlerPhases, ManagerPhases, DirectoryPhases, RequestFitsPhase, Contents, UserOf, NameOf
  <2>2. MutexesAreNested'
    BY <1>10, RequestFields
       DEF OpenFile, Goto, TypeOK, MutexesAreNested, UserOf, disk, memory,
           ManagerPhases, DirectoryPhases
  <2>3. RequestFitsPhase'
    BY <1>10, RequestFields
       DEF OpenFile, Goto, TypeOK, RequestFitsPhase, disk, memory,
           HandlerPhases, ManagerPhases, DirectoryPhases
  <2>4. CheckStillHolds'
    BY <1>10, RequestFields, OneInManager, SMTT(40)
       DEF OpenFile, Goto, TypeOK, CheckStillHolds, UserOf, NameOf, Exists, IsDirectory,
           disk, memory, RequestFitsPhase, HandlerPhases, ManagerPhases, DirectoryPhases, SetFile
  <2> QED
    BY <2>1, <2>2, <2>3, <2>4
<1>11. ASSUME NEW s \in Sessions, WriteFile(s) PROVE Inv'
  <2>1. TypeOK'
    BY <1>11, RequestFields, SetFileType, MessagesAssumption, ServerAssumption
       DEF WriteFile, Goto, TypeOK, disk, memory, Phases, HandlerPhases, ManagerPhases, DirectoryPhases, RequestFitsPhase, Contents, UserOf, NameOf
  <2>2. MutexesAreNested'
    BY <1>11, RequestFields
       DEF WriteFile, Goto, TypeOK, MutexesAreNested, UserOf, disk, memory,
           ManagerPhases, DirectoryPhases
  <2>3. RequestFitsPhase'
    BY <1>11, RequestFields
       DEF WriteFile, Goto, TypeOK, RequestFitsPhase, disk, memory,
           HandlerPhases, ManagerPhases, DirectoryPhases
  <2>4. CheckStillHolds'
    BY <1>11, RequestFields, OneInManager
       DEF WriteFile, Goto, TypeOK, CheckStillHolds, UserOf, NameOf, Exists, IsDirectory,
           disk, memory, RequestFitsPhase, HandlerPhases, ManagerPhases, DirectoryPhases, SetFile
  <2> QED
    BY <2>1, <2>2, <2>3, <2>4
<1>12. ASSUME NEW s \in Sessions, AddUserFails(s) PROVE Inv'
  <2>1. PICK r \in Responses : Leave(s, "findUser", r)
    BY <1>12
       DEF AddUserFails, Responses
  <2> QED
    BY <1>12, <2>1, LeaveInv
       DEF AddUserFails, TypeOK, disk, ManagerPhases, DirectoryPhases
<1>13. ASSUME NEW s \in Sessions, UserNotFound(s) PROVE Inv'
  <2>1. PICK r \in Responses : Leave(s, "findUser", r)
    BY <1>13
       DEF UserNotFound, Responses
  <2> QED
    BY <1>13, <2>1, LeaveInv
       DEF UserNotFound, TypeOK, disk, ManagerPhases, DirectoryPhases
<1>14. ASSUME NEW s \in Sessions, CheckFails(s) PROVE Inv'
  <2>1. PICK r \in Responses : Leave(s, "checkFile", r)
    BY <1>14, RequestFields
       DEF CheckFails, Responses, RequestFitsPhase, Goto, Leave, HandlerPhases, ManagerPhases, DirectoryPhases, UserOf, NameOf, TypeOK, ServerError, FileNotFound, SuccessfulBackupOrDelete
  <2> QED
    BY <1>14, <2>1, LeaveInv
       DEF CheckFails, TypeOK, disk, ManagerPhases, DirectoryPhases
<1>15. ASSUME NEW s \in Sessions, FinishBackup(s) PROVE Inv'
  <2>1. PICK r \in Responses : Leave(s, "closeFile", r)
    BY <1>15, RequestFields
       DEF FinishBackup, Responses, RequestFitsPhase, Goto, Leave, HandlerPhases, ManagerPhases, DirectoryPhases, UserOf, NameOf, TypeOK, ServerError, FileNotFound, SuccessfulBackupOrDelete
  <2> QED
    BY <1>15, <2>1, LeaveInv, RequestFields, MessagesAssumption, ZenonT(40)
       DEF FinishBackup, TypeOK, disk, ManagerPhases, DirectoryPhases, RequestFitsPhase, HandlerPhases, Leave, Goto, UserOf, NameOf
<1>16. ASSUME NEW s \in Sessions, ReadFile(s) PROVE Inv'
  <2> DEFINE u == UserOf(s)
             n == NameOf(s)
             r == IF IsDirectory(u, n) THEN ServerError ELSE SuccessfulRestore(n, files[u][n])
  <2>1. Leave(s, "readFile", r) /\ pc[s] = "readFile" /\ UNCHANGED <<disk, promised>>
    BY <1>16 DEF ReadFile, Leave, Goto
  <2>2. u \in Users /\ n \in Names
    BY <2>1, RequestFields
       DEF RequestFitsPhase, HandlerPhases, ManagerPhases, DirectoryPhases, UserOf, NameOf
  <2>3. IsDirectory(u, n) \/ files[u][n] \in Contents
    BY <2>1, <2>2, MessagesAssumption DEF CheckStillHolds, Exists, TypeOK
  <2>4. r \in Responses
    BY <2>2, <2>3 DEF Responses, SuccessfulRestore, ServerError
  <2> QED
    BY <2>1, <2>4, LeaveInv DEF TypeOK, disk, ManagerPhases, DirectoryPhases
<1>17. ASSUME NEW s \in Sessions, RemoveFile(s) PROVE Inv'
  <2> DEFINE u == UserOf(s)
             n == NameOf(s)
             r == IF files[u][n] # NoFile THEN SuccessfulBackupOrDelete(n) ELSE ServerError
  <2>1. /\ Leave(s, "removeFile", r) /\ pc[s] = "removeFile"
        /\ SetFile(u, n, NoFile) /\ UNCHANGED directories
        /\ promised' = [promised EXCEPT ![u][n] = NoFile]
    BY <1>17 DEF RemoveFile, Leave, Goto
  <2>2. u \in Users /\ n \in Names /\ n \in Filenames \cup {EmptyName}
    BY <2>1, RequestFields, MessagesAssumption
       DEF RequestFitsPhase, HandlerPhases, ManagerPhases, DirectoryPhases, UserOf, NameOf
  <2>3. r \in Responses
    BY <2>2 DEF Responses, SuccessfulBackupOrDelete, ServerError
  <2>4. files' \in [Users -> [Filenames \cup {EmptyName} -> Contents \cup {NoFile}]]
    BY <2>1, <2>2, SetFileType
  <2>5. promised' \in [Users -> [Filenames \cup {EmptyName} -> Payloads \cup {NoFile}]]
    BY <2>1, <2>2 DEF TypeOK
  <2> QED
    BY <2>1, <2>3, <2>4, <2>5, LeaveInv DEF TypeOK, ManagerPhases, DirectoryPhases
<1>18. ASSUME NEW s \in Sessions, RemoveDirectory(s) PROVE Inv'
  <2>1. PICK r \in Responses : Leave(s, "removeFile", r)
    BY <1>18, RequestFields
       DEF RemoveDirectory, Responses, RequestFitsPhase, Goto, Leave, HandlerPhases, ManagerPhases, DirectoryPhases, UserOf, NameOf, TypeOK, ServerError, FileNotFound, SuccessfulBackupOrDelete
  <2> QED
    BY <1>18, <2>1, LeaveInv
       DEF RemoveDirectory, TypeOK, disk, ManagerPhases, DirectoryPhases
<1>19. ASSUME NEW s \in Sessions, ListDirectory(s) PROVE Inv'
  <2>1. PICK r \in Responses : Leave(s, "listDirectory", r)
    BY <1>19, RequestFields, EnumerationsType
       DEF ListDirectory, Responses, RequestFitsPhase, Goto, Leave, HandlerPhases, ManagerPhases, DirectoryPhases, UserOf, NameOf, TypeOK, ServerError, FileNotFound, SuccessfulBackupOrDelete, SuccessfulListFiles
  <2> QED
    BY <1>19, <2>1, LeaveInv
       DEF ListDirectory, TypeOK, disk, ManagerPhases, DirectoryPhases
<1>20. ASSUME Restart PROVE Inv'
  <2>1. TypeOK'
    <3>1. restarts' \in 0 .. MaxRestarts
      BY <1>20, ServerAssumption DEF Restart, TypeOK
    <3> QED
      BY <1>20, <3>1 DEF Restart, TypeOK, disk, Phases
  <2>2. MutexesAreNested'
    BY <1>20, ServerAssumption DEF Restart, TypeOK, MutexesAreNested, UserOf, disk, memory, ManagerPhases, DirectoryPhases
  <2>3. RequestFitsPhase'
    BY <1>20, ServerAssumption DEF Restart, RequestFitsPhase, disk, memory, HandlerPhases, ManagerPhases, DirectoryPhases
  <2>4. CheckStillHolds'
    BY <1>20, ServerAssumption DEF Restart, CheckStillHolds, UserOf, NameOf, Exists, IsDirectory, disk, memory
  <2> QED
    BY <2>1, <2>2, <2>3, <2>4
<1>21. CASE UNCHANGED vars
  <2>1. TypeOK'
    BY <1>21 DEF vars, session, TypeOK, disk, memory, Phases
  <2>2. MutexesAreNested'
    BY <1>21 DEF vars, session, TypeOK, MutexesAreNested, UserOf, disk, memory, ManagerPhases, DirectoryPhases
  <2>3. RequestFitsPhase'
    BY <1>21 DEF vars, session, RequestFitsPhase, disk, memory, HandlerPhases, ManagerPhases, DirectoryPhases
  <2>4. CheckStillHolds'
    BY <1>21 DEF vars, session, CheckStillHolds, UserOf, NameOf, Exists, IsDirectory, disk, memory
  <2> QED
    BY <2>1, <2>2, <2>3, <2>4
<1> QED
  BY <1>1, <1>2, <1>3, <1>4, <1>5, <1>6, <1>7, <1>8, <1>9, <1>10, <1>11, <1>12, <1>13,
     <1>14, <1>15, <1>16, <1>17, <1>18, <1>19, <1>20, <1>21
     DEF Next, Handle

(* The invariant holds in every reachable state. *)
LEMMA SpecInv == Spec => []Inv
  BY InitInv, NextInv, PTL DEF Spec

(* Every variable keeps its type, for any number of sessions, users, files *)
(* and payloads.                                                           *)
THEOREM TypeCorrect == Spec => []TypeOK
  BY SpecInv, PTL DEF Inv

(* Every path through a handler, by return or by exception, locks and      *)
(* unlocks the two mutexes in a nested way: Server, client_session and     *)
(* BackupDirectoryManager.                                                 *)
THEOREM MutexesNested == Spec => []MutexesAreNested
  BY SpecInv, PTL DEF Inv

(* Only three steps touch a file.  Opening and writing find the file       *)
(* absent or, as the session has just created it, not whole; removing it   *)
(* is what a request to delete it does.                                    *)
LEMMA StepChangesOnlyByDelete == Inv /\ [Next]_vars => [FilesChangeOnlyByDelete]_vars
<1> SUFFICES ASSUME Inv, Next,
                    NEW u \in Users, NEW n \in Filenames \cup {EmptyName},
                    files[u][n] # NoFile, files[u][n].complete, files'[u][n] # files[u][n]
             PROVE  /\ files'[u][n] = NoFile
                    /\ \E s \in Sessions :
                         /\ mutex_ = s /\ user_mutex_[u] = s
                         /\ request[s] = [op |-> "DELETE_FILE", user |-> u, name |-> n]
  BY DEF FilesChangeOnlyByDelete
<1>1. PICK s \in Sessions :
        OpenFile(s) \/ WriteFile(s) \/ RemoveFile(s)
  BY DEF Next, Handle, Accept, ReadRequest, RejectRequest, LoseClient, SendResponse, FailToSend,
         EndSession, LockManager, AddUser, AddUserFails, FindUser, UserNotFound, LockDirectory,
         CheckSucceeds, CheckFails, FinishBackup, ReadFile, RemoveDirectory, ListDirectory,
         Restart, disk
<1>2. /\ UserOf(s) \in Users
      /\ NameOf(s) \in Filenames \cup {EmptyName}
  BY <1>1, RequestFields, MessagesAssumption
     DEF OpenFile, WriteFile, RemoveFile, Leave, Goto, Inv, RequestFitsPhase,
         HandlerPhases, ManagerPhases, DirectoryPhases, UserOf, NameOf
<1>3. UserOf(s) = u /\ NameOf(s) = n
  BY <1>1, <1>2 DEF OpenFile, WriteFile, RemoveFile, SetFile, Inv, TypeOK
<1>4. ~OpenFile(s) /\ ~WriteFile(s)
  BY <1>3 DEF OpenFile, WriteFile, Goto, Inv, CheckStillHolds
<1>5. RemoveFile(s) /\ pc[s] = "removeFile"
  BY <1>1, <1>4 DEF RemoveFile, Leave, Goto
<1>6. files'[u][n] = NoFile
  BY <1>3, <1>5 DEF RemoveFile, SetFile, Inv, TypeOK
<1>7. mutex_ = s /\ user_mutex_[u] = s
  BY <1>3, <1>5 DEF Inv, MutexesAreNested, ManagerPhases, DirectoryPhases
<1>8. request[s] = [op |-> "DELETE_FILE", user |-> u, name |-> n]
  BY <1>3, <1>5, RequestFields
     DEF Inv, RequestFitsPhase, HandlerPhases, ManagerPhases, DirectoryPhases, UserOf, NameOf
<1> QED
  BY <1>6, <1>7, <1>8

(* No backup overwrites a file and no request touches the file of another: *)
(* UserBackupDirectory::backup_file and delete_file.                       *)
THEOREM FilesImmutable == Spec => StoredFilesAreImmutable
  BY SpecInv, StepChangesOnlyByDelete, PTL DEF Spec, StoredFilesAreImmutable

-----------------------------------------------------------------------------
(* Half written files.  On a disk that does not fill up a file is torn     *)
(* only while a session is writing it, or because of a crash.              *)

Torn(u, n) == files[u][n] # NoFile /\ ~files[u][n].complete

IsWritten(u, n) ==
  \E s \in Sessions : pc[s] = "writeFile" /\ UserOf(s) = u /\ NameOf(s) = n

TornInv ==
  /\ NoTornRead
  /\ \A u \in Users : \A n \in Filenames \cup {EmptyName} :
       Torn(u, n) => IsWritten(u, n) \/ restarts > 0

(* There are no files at first. *)
LEMMA InitTorn == Init => TornInv
  BY DEF Init, TornInv, Torn, NoTornRead, NoResponse

(* A step that does not touch the files, nor a session that is writing.    *)
LEMMA TornFrame ==
  ASSUME TornInv, UNCHANGED <<files, restarts>>,
         \A s \in Sessions : pc[s] = "writeFile" => pc'[s] = pc[s] /\ request'[s] = request[s]
  PROVE  (\A u \in Users : \A n \in Filenames \cup {EmptyName} :
            Torn(u, n) => IsWritten(u, n) \/ restarts > 0)'
  BY DEF TornInv, Torn, IsWritten, UserOf, NameOf

(* A file is torn only while it is being written: a crash, which the       *)
(* invariant allows for, is the only step that ends a write early.         *)
LEMMA NextTorn ==
  ASSUME ~DiskMayFill, Inv, TornInv, [Next]_vars
  PROVE  TornInv'
<1> DEFINE TornFiles == \A u \in Users : \A n \in Filenames \cup {EmptyName} :
                          Torn(u, n) => IsWritten(u, n) \/ restarts > 0
<1>1. ASSUME NEW s \in Sessions, NEW from \in Phases \ {"writeFile"},
             pc[s] = from, \A t \in Sessions \ {s} : pc'[t] = pc[t] /\ request'[t] = request[t],
             UNCHANGED <<files, restarts>>
      PROVE  TornFiles'
  BY <1>1, TornFrame
<1>2. CASE UNCHANGED vars
  BY <1>2, TornFrame DEF TornInv, NoTornRead, vars, disk, session
<1>3. CASE Restart
  BY <1>3, ServerAssumption DEF Inv, TypeOK, TornInv, NoTornRead, Restart, NoResponse, disk
<1>4. ASSUME NEW s \in Sessions, OpenFile(s) PROVE TornInv'
  <2>1. NoTornRead'
    BY <1>4 DEF OpenFile, TornInv, NoTornRead
  <2>2. ASSUME NEW u \in Users, NEW n \in Filenames \cup {EmptyName}, Torn(u, n)'
        PROVE  (IsWritten(u, n) \/ restarts > 0)'
    <3>1. CASE UserOf(s) = u /\ NameOf(s) = n
      BY <1>4, <3>1 DEF OpenFile, Goto, IsWritten, UserOf, NameOf, Inv, TypeOK
    <3>2. CASE ~(UserOf(s) = u /\ NameOf(s) = n)
      <4>1. files'[u][n] = files[u][n]
        BY <1>4, <3>2 DEF OpenFile, SetFile, Inv, TypeOK
      <4>2. IsWritten(u, n) \/ restarts > 0
        BY <2>2, <4>1 DEF Torn, TornInv
      <4> QED
        BY <1>4, <4>2 DEF OpenFile, Goto, IsWritten, UserOf, NameOf, Inv, TypeOK
    <3> QED
      BY <3>1, <3>2
  <2> QED
    BY <2>1, <2>2 DEF TornInv
<1>5. ASSUME NEW s \in Sessions, WriteFile(s) PROVE TornInv'
  <2>1. NoTornRead'
    BY <1>5 DEF WriteFile, TornInv, NoTornRead
  <2>2. ASSUME NEW u \in Users, NEW n \in Filenames \cup {EmptyName}, Torn(u, n)'
        PROVE  (IsWritten(u, n) \/ restarts > 0)'
    <3>1. ~(UserOf(s) = u /\ NameOf(s) = n)
      <4> SUFFICES ASSUME UserOf(s) = u, NameOf(s) = n PROVE FALSE
        OBVIOUS
      <4>1. PICK written \in {TRUE} \cup {~DiskMayFill} :
              IF files[u][n] = NoFile
                THEN UNCHANGED files
                ELSE SetFile(u, n, [payload |-> request[s].payload, complete |-> written])
        BY <1>5 DEF WriteFile
      <4>2. written = TRUE
        BY <4>1, ServerAssumption
      <4>3. CASE files[u][n] = NoFile
        BY <2>2, <4>1, <4>3 DEF Torn
      <4>4. CASE files[u][n] # NoFile
        <5>1. files'[u][n] = [payload |-> request[s].payload, complete |-> TRUE]
          <6>1. files' = [files EXCEPT ![u][n] = [payload |-> request[s].payload,
                                                  complete |-> TRUE]]
            BY <4>1, <4>2, <4>4 DEF SetFile
          <6>2. files \in [Users -> [Filenames \cup {EmptyName} -> Contents \cup {NoFile}]]
            BY DEF Inv, TypeOK
          <6> QED
            BY <2>2, <6>1, <6>2
        <5>2. files'[u][n].complete
          BY <5>1
        <5> QED
          BY <2>2, <5>2 DEF Torn
      <4> QED
        BY <4>3, <4>4
    <3>2. files'[u][n] = files[u][n]
      BY <1>5, <3>1 DEF WriteFile, SetFile, Inv, TypeOK
    <3>3. IsWritten(u, n) \/ restarts > 0
      BY <2>2, <3>2 DEF Torn, TornInv
    <3> QED
      BY <1>5, <3>1, <3>3 DEF WriteFile, Goto, IsWritten, UserOf, NameOf, Inv, TypeOK
  <2> QED
    BY <2>1, <2>2 DEF TornInv
<1>6. ASSUME NEW s \in Sessions, RemoveFile(s) PROVE TornInv'
  <2>1. NoTornRead'
    BY <1>6 DEF RemoveFile, Leave, TornInv, NoTornRead, Inv, TypeOK, ServerError,
                SuccessfulBackupOrDelete
  <2>2. ASSUME NEW u \in Users, NEW n \in Filenames \cup {EmptyName}, Torn(u, n)'
        PROVE  (IsWritten(u, n) \/ restarts > 0)'
    <3>1. Torn(u, n)
      BY <1>6, <2>2 DEF RemoveFile, SetFile, Torn, Inv, TypeOK
    <3>2. IsWritten(u, n) \/ restarts > 0
      BY <3>1 DEF TornInv
    <3> QED
      BY <1>6, <3>2 DEF RemoveFile, Leave, Goto, IsWritten, UserOf, NameOf, Inv, TypeOK
  <2> QED
    BY <2>1, <2>2 DEF TornInv
<1>7. ASSUME NEW s \in Sessions, ReadFile(s) PROVE TornInv'
  <2>1. TornFiles'
    BY <1>7, <1>1 DEF ReadFile, Leave, Goto, disk, Inv, TypeOK, Phases, HandlerPhases, ManagerPhases, DirectoryPhases
  <2>2. ~IsWritten(UserOf(s), NameOf(s))
    BY <1>7, OneInManager DEF ReadFile, Leave, Goto, IsWritten, Inv, ManagerPhases, DirectoryPhases
  <2>3. UserOf(s) \in Users /\ NameOf(s) \in Filenames \cup {EmptyName}
    BY <1>7, RequestFields, MessagesAssumption
       DEF ReadFile, Leave, Goto, Inv, RequestFitsPhase, HandlerPhases, ManagerPhases,
           DirectoryPhases, UserOf, NameOf
  <2>4. ~Torn(UserOf(s), NameOf(s)) \/ restarts > 0
    BY <2>2, <2>3 DEF TornInv
  <2>5. IsDirectory(UserOf(s), NameOf(s)) \/ files[UserOf(s)][NameOf(s)] # NoFile
    BY <1>7 DEF ReadFile, Leave, Goto, Inv, CheckStillHolds, Exists
  <2>6. NoTornRead'
    BY <1>7, <2>4, <2>5
       DEF ReadFile, Leave, TornInv, NoTornRead, Torn, Inv, TypeOK, ServerError, SuccessfulRestore
  <2> QED
    BY <2>1, <2>6 DEF TornInv
<1>8. ASSUME NEW s \in Sessions,
             AddUserFails(s) \/ UserNotFound(s) \/ CheckFails(s) \/ FinishBackup(s)
               \/ RemoveDirectory(s) \/ ListDirectory(s)
      PROVE  TornInv'
  <2>1. TornFiles'
    BY <1>8, <1>1
       DEF AddUserFails, UserNotFound, CheckFails, FinishBackup, RemoveDirectory, ListDirectory,
           Leave, Goto, disk, Inv, TypeOK, Phases, HandlerPhases, ManagerPhases, DirectoryPhases
  <2>2. NoTornRead'
    BY <1>8
       DEF AddUserFails, UserNotFound, CheckFails, FinishBackup, RemoveDirectory, ListDirectory,
           Leave, TornInv, NoTornRead, Inv, TypeOK, ServerError, NoBackupFilesForClient,
           FileNotFound, SuccessfulBackupOrDelete, SuccessfulListFiles
  <2> QED
    BY <2>1, <2>2 DEF TornInv
<1>9. ASSUME NEW s \in Sessions,
             Accept(s) \/ (\E r \in Requests : ReadRequest(s, r)) \/ RejectRequest(s)
               \/ LoseClient(s) \/ SendResponse(s) \/ FailToSend(s) \/ LockManager(s)
               \/ AddUser(s) \/ FindUser(s) \/ LockDirectory(s) \/ CheckSucceeds(s)
      PROVE  TornInv'
  <2>1. TornFiles'
    BY <1>9, <1>1
       DEF Accept, ReadRequest, RejectRequest, LoseClient, SendResponse, FailToSend, EndSession,
           LockManager, AddUser, FindUser, LockDirectory, CheckSucceeds,
           Goto, disk, Inv, TypeOK, Phases, HandlerPhases, ManagerPhases, DirectoryPhases
  <2>2. NoTornRead'
    BY <1>9
       DEF Accept, ReadRequest, RejectRequest, LoseClient, SendResponse, FailToSend, EndSession,
           LockManager, AddUser, FindUser, LockDirectory, CheckSucceeds,
           TornInv, NoTornRead, Inv, TypeOK, ServerError, NoResponse
  <2> QED
    BY <2>1, <2>2 DEF TornInv
<1> QED
  BY <1>2, <1>3, <1>4, <1>5, <1>6, <1>7, <1>8, <1>9 DEF Next, Handle

(* On a disk that does not fill up, restoreFile never sends half a file as *)
(* long as the server has not crashed.                                     *)
THEOREM NoTornReadTheorem == ASSUME ~DiskMayFill PROVE Spec => []NoTornRead
<1>1. Init => TornInv
  BY InitTorn
<1>2. Inv /\ TornInv /\ [Next]_vars => TornInv'
  BY NextTorn
<1>3. TornInv => NoTornRead
  BY DEF TornInv
<1> QED
  BY <1>1, <1>2, <1>3, SpecInv, PTL DEF Spec

-----------------------------------------------------------------------------
(* Promised backups.  When no request carries the empty filename nobody    *)
(* removes a directory, so the file of a backup can be created.            *)

UserPhases == {"lockDirectory"} \cup DirectoryPhases

WriteSucceeds ==
  \A s \in Sessions :
    /\ pc[s] \in UserPhases => UserOf(s) \in user_directories_
    /\ pc[s] = "writeFile" =>
         files[UserOf(s)][NameOf(s)] = [payload |-> request[s].payload, complete |-> FALSE]
    /\ pc[s] = "closeFile" =>
         files[UserOf(s)][NameOf(s)] = [payload |-> request[s].payload, complete |-> TRUE]

PromiseInv ==
  /\ user_directories_ \subseteq directories
  /\ WriteSucceeds
  /\ PromisedFilesAreOnDisk

(* Nothing is promised at first. *)
LEMMA InitPromise == Init => PromiseInv
  BY DEF Init, PromiseInv, WriteSucceeds, UserPhases, DirectoryPhases, PromisedFilesAreOnDisk

(* What a file holds is not mistaken for its absence. *)
LEMMA ContentsArePresent ==
  ASSUME NEW p \in Payloads, NEW b \in BOOLEAN
  PROVE  [payload |-> p, complete |-> b] # NoFile
<1>1. [payload |-> p, complete |-> b] \in Contents
  BY DEF Contents
<1> QED
  BY <1>1, MessagesAssumption

(* The user and the file of a session that works on a file. *)
LEMMA FileOfSession ==
  ASSUME Inv, NEW s \in Sessions, pc[s] \in UserPhases \ {"listDirectory", "lockDirectory"}
  PROVE  /\ UserOf(s) \in Users
         /\ NameOf(s) \in Names
         /\ NameOf(s) \in Filenames \cup {EmptyName}
  BY RequestFields, MessagesAssumption
     DEF Inv, RequestFitsPhase, HandlerPhases, ManagerPhases, DirectoryPhases, UserPhases,
         UserOf, NameOf

(* A step of one session outside the files and the promises. *)
LEMMA PromiseFrame ==
  ASSUME Inv, PromiseInv, NEW s \in Sessions,
         \A t \in Sessions \ {s} : pc'[t] = pc[t] /\ request'[t] = request[t],
         pc'[s] \notin UserPhases \/ (pc[s] \in UserPhases /\ pc'[s] \notin {"writeFile", "closeFile"}
                                        /\ request'[s] = request[s]),
         user_directories_ \subseteq user_directories_',
         UNCHANGED <<files, promised>>, user_directories_' \subseteq directories'
  PROVE  PromiseInv'
<1>1. WriteSucceeds'
  <2> SUFFICES ASSUME NEW t \in Sessions
      PROVE  (/\ pc[t] \in UserPhases => UserOf(t) \in user_directories_
              /\ pc[t] = "writeFile" =>
                   files[UserOf(t)][NameOf(t)] = [payload |-> request[t].payload, complete |-> FALSE]
              /\ pc[t] = "closeFile" =>
                   files[UserOf(t)][NameOf(t)] = [payload |-> request[t].payload, complete |-> TRUE])'
    BY DEF WriteSucceeds
  <2>1. CASE t = s
    BY <2>1 DEF PromiseInv, WriteSucceeds, UserOf, NameOf, UserPhases, DirectoryPhases
  <2>2. CASE t # s
    BY <2>2 DEF PromiseInv, WriteSucceeds, UserOf, NameOf
  <2> QED
    BY <2>1, <2>2
<1>2. PromisedFilesAreOnDisk'
  BY DEF PromiseInv, PromisedFilesAreOnDisk
<1> QED
  BY <1>1, <1>2 DEF PromiseInv

(* A step of the session that works on the file of u called n, which is    *)
(* the only one inside the manager, to a step that expects nothing of it.  *)
LEMMA OthersAreOutside ==
  ASSUME Inv, NEW s \in Sessions, pc[s] \in UserPhases, NEW t \in Sessions, t # s
  PROVE  pc[t] \notin UserPhases
  BY OneInManager DEF Inv, UserPhases, ManagerPhases

(* Every step keeps the promises: a backup makes one only of what it has   *)
(* written, and only a delete that has succeeded takes one back.           *)
LEMMA NextPromise ==
  ASSUME ~DiskMayFill, EmptyName \notin Names, Inv, PromiseInv, [Next]_vars
  PROVE  PromiseInv'
<1>1. CASE UNCHANGED vars
  BY <1>1 DEF vars, disk, memory, session, PromiseInv, WriteSucceeds, PromisedFilesAreOnDisk,
              UserOf, NameOf
<1>2. CASE Restart
  BY <1>2 DEF Restart, disk, PromiseInv, WriteSucceeds, PromisedFilesAreOnDisk, UserPhases,
              DirectoryPhases, Inv, TypeOK
<1>3. ASSUME NEW s \in Sessions,
             Accept(s) \/ (\E r \in Requests : ReadRequest(s, r)) \/ RejectRequest(s)
               \/ LoseClient(s) \/ SendResponse(s) \/ FailToSend(s) \/ LockManager(s)
               \/ LockDirectory(s)
      PROVE  PromiseInv'
  BY <1>3, PromiseFrame
     DEF Accept, ReadRequest, RejectRequest, LoseClient, SendResponse, FailToSend, EndSession,
         LockManager, LockDirectory, Goto, disk, memory, Inv, TypeOK, PromiseInv,
         UserPhases, DirectoryPhases
<1>4. ASSUME NEW s \in Sessions, AddUser(s) \/ FindUser(s) PROVE PromiseInv'
  <2>1. UserOf(s) \in user_directories_' /\ pc' = [pc EXCEPT ![s] = "lockDirectory"]
    BY <1>4 DEF AddUser, FindUser, Goto, memory
  <2>2. user_directories_' \subseteq directories'
    BY <1>4 DEF AddUser, FindUser, PromiseInv, disk, memory
  <2>3. WriteSucceeds'
    BY <1>4, <2>1 DEF AddUser, FindUser, PromiseInv, WriteSucceeds, UserOf, NameOf, UserPhases,
                      DirectoryPhases, Inv, TypeOK, disk, memory
  <2>4. PromisedFilesAreOnDisk'
    BY <1>4 DEF AddUser, FindUser, PromiseInv, PromisedFilesAreOnDisk, disk
  <2> QED
    BY <2>2, <2>3, <2>4 DEF PromiseInv
<1>5. ASSUME NEW s \in Sessions,
             AddUserFails(s) \/ UserNotFound(s) \/ CheckFails(s) \/ ReadFile(s) \/ ListDirectory(s)
      PROVE  PromiseInv'
  BY <1>5, PromiseFrame
     DEF AddUserFails, UserNotFound, CheckFails, ReadFile, ListDirectory, Leave, Goto, disk, Inv,
         TypeOK, PromiseInv, UserPhases, DirectoryPhases
<1>6. ASSUME NEW s \in Sessions, CheckSucceeds(s) PROVE PromiseInv'
  <2>1. AfterCheck(request[s].op) \in {"openFile", "readFile", "removeFile"}
    BY <1>6, RequestFields
       DEF CheckSucceeds, Goto, AfterCheck, Inv, RequestFitsPhase, HandlerPhases, ManagerPhases,
           DirectoryPhases
  <2> QED
    BY <1>6, <2>1, PromiseFrame
       DEF CheckSucceeds, Goto, disk, memory, Inv, TypeOK, PromiseInv, UserPhases, DirectoryPhases
<1>7. ASSUME NEW s \in Sessions, RemoveDirectory(s) PROVE PromiseInv'
  BY <1>7, FileOfSession
     DEF RemoveDirectory, IsDirectory, Leave, Goto, UserPhases, DirectoryPhases
<1>8. ASSUME NEW s \in Sessions, OpenFile(s) PROVE PromiseInv'
  <2>1. pc[s] = "openFile" /\ pc' = [pc EXCEPT ![s] = "writeFile"]
    BY <1>8 DEF OpenFile, Goto
  <2>2. UserOf(s) \in Users /\ NameOf(s) \in Filenames \cup {EmptyName} /\ NameOf(s) # EmptyName
    BY <2>1, FileOfSession DEF UserPhases, DirectoryPhases
  <2>3. CanCreate(UserOf(s), NameOf(s))
    BY <2>1, <2>2 DEF CanCreate, PromiseInv, WriteSucceeds, UserPhases, DirectoryPhases
  <2>4. files' = [files EXCEPT ![UserOf(s)][NameOf(s)] =
                    [payload |-> request[s].payload, complete |-> FALSE]]
    BY <1>8, <2>3 DEF OpenFile, SetFile
  <2>5. WriteSucceeds'
    BY <1>8, <2>1, <2>2, <2>4, OthersAreOutside
       DEF OpenFile, PromiseInv, WriteSucceeds, UserOf, NameOf, UserPhases, DirectoryPhases,
           Inv, TypeOK, memory
  <2>6. promised[UserOf(s)][NameOf(s)] = NoFile
    <3>1. files[UserOf(s)][NameOf(s)] = NoFile
      BY <2>1 DEF Inv, CheckStillHolds
    <3>2. promised[UserOf(s)][NameOf(s)] \in Payloads \cup {NoFile}
      BY <2>2 DEF Inv, TypeOK
    <3> QED
      BY <2>2, <3>1, <3>2, ContentsArePresent DEF PromiseInv, PromisedFilesAreOnDisk
  <2>7. PromisedFilesAreOnDisk'
    BY <1>8, <2>2, <2>4, <2>6 DEF OpenFile, PromiseInv, PromisedFilesAreOnDisk, Inv, TypeOK
  <2> QED
    BY <1>8, <2>5, <2>7 DEF OpenFile, PromiseInv, memory
<1>9. ASSUME NEW s \in Sessions, WriteFile(s) PROVE PromiseInv'
  <2>1. pc[s] = "writeFile" /\ pc' = [pc EXCEPT ![s] = "closeFile"]
    BY <1>9 DEF WriteFile, Goto
  <2>2. UserOf(s) \in Users /\ NameOf(s) \in Filenames \cup {EmptyName}
        /\ request[s].payload \in Payloads
    BY <2>1, FileOfSession, RequestFields
       DEF UserPhases, DirectoryPhases, Inv, RequestFitsPhase, HandlerPhases, ManagerPhases
  <2>3. files[UserOf(s)][NameOf(s)] = [payload |-> request[s].payload, complete |-> FALSE]
    BY <2>1 DEF PromiseInv, WriteSucceeds
  <2>4. files[UserOf(s)][NameOf(s)] # NoFile
    BY <2>2, <2>3, ContentsArePresent
  <2>5. files' = [files EXCEPT ![UserOf(s)][NameOf(s)] =
                    [payload |-> request[s].payload, complete |-> TRUE]]
    <3>1. PICK written \in {TRUE} \cup {~DiskMayFill} :
            SetFile(UserOf(s), NameOf(s), [payload |-> request[s].payload, complete |-> written])
      BY <1>9, <2>4 DEF WriteFile
    <3>2. written = TRUE
      BY <3>1, ServerAssumption
    <3> QED
      BY <3>1, <3>2 DEF SetFile
  <2>6. WriteSucceeds'
    BY <1>9, <2>1, <2>2, <2>5, OthersAreOutside
       DEF WriteFile, PromiseInv, WriteSucceeds, UserOf, NameOf, UserPhases, DirectoryPhases,
           Inv, TypeOK, memory
  <2>7. promised[UserOf(s)][NameOf(s)] = NoFile
    <3> SUFFICES ASSUME promised[UserOf(s)][NameOf(s)] # NoFile PROVE FALSE
      OBVIOUS
    <3>1. files[UserOf(s)][NameOf(s)] =
            [payload |-> promised[UserOf(s)][NameOf(s)], complete |-> TRUE]
      BY <2>2 DEF PromiseInv, PromisedFilesAreOnDisk
    <3>2. files[UserOf(s)][NameOf(s)].complete = TRUE
      BY <3>1
    <3> QED
      BY <2>3, <3>2
  <2>8. PromisedFilesAreOnDisk'
    BY <1>9, <2>2, <2>5, <2>7 DEF WriteFile, PromiseInv, PromisedFilesAreOnDisk, Inv, TypeOK
  <2> QED
    BY <1>9, <2>6, <2>8 DEF WriteFile, PromiseInv, memory
<1>10. ASSUME NEW s \in Sessions, FinishBackup(s) PROVE PromiseInv'
  <2>1. pc[s] = "closeFile" /\ pc' = [pc EXCEPT ![s] = "sending"]
    BY <1>10 DEF FinishBackup, Leave, Goto
  <2>2. UserOf(s) \in Users /\ NameOf(s) \in Filenames \cup {EmptyName}
    BY <2>1, FileOfSession DEF UserPhases, DirectoryPhases
  <2>3. files[UserOf(s)][NameOf(s)] = [payload |-> request[s].payload, complete |-> TRUE]
    BY <2>1 DEF PromiseInv, WriteSucceeds
  <2>4. WriteSucceeds'
    BY <1>10, <2>1, OthersAreOutside
       DEF FinishBackup, Leave, PromiseInv, WriteSucceeds, UserOf, NameOf, UserPhases,
           DirectoryPhases, Inv, TypeOK, disk
  <2>5. PromisedFilesAreOnDisk'
    BY <1>10, <2>2, <2>3
       DEF FinishBackup, PromiseInv, PromisedFilesAreOnDisk, Inv, TypeOK, disk
  <2> QED
    BY <1>10, <2>4, <2>5 DEF FinishBackup, Leave, PromiseInv, disk
<1>11. ASSUME NEW s \in Sessions, RemoveFile(s) PROVE PromiseInv'
  <2>1. pc[s] = "removeFile" /\ pc' = [pc EXCEPT ![s] = "sending"]
    BY <1>11 DEF RemoveFile, Leave, Goto
  <2>2. UserOf(s) \in Users /\ NameOf(s) \in Filenames \cup {EmptyName}
    BY <2>1, FileOfSession DEF UserPhases, DirectoryPhases
  <2>3. WriteSucceeds'
    BY <1>11, <2>1, OthersAreOutside
       DEF RemoveFile, Leave, PromiseInv, WriteSucceeds, UserOf, NameOf, UserPhases,
           DirectoryPhases, Inv, TypeOK
  <2>4. PromisedFilesAreOnDisk'
    BY <1>11, <2>2
       DEF RemoveFile, SetFile, PromiseInv, PromisedFilesAreOnDisk, Inv, TypeOK
  <2> QED
    BY <1>11, <2>3, <2>4 DEF RemoveFile, Leave, PromiseInv
<1> QED
  BY <1>1, <1>2, <1>3, <1>4, <1>5, <1>6, <1>7, <1>8, <1>9, <1>10, <1>11 DEF Next, Handle

(* What a backup response has promised stays on disk, for any number of    *)
(* sessions and of crashes, on a disk that does not fill up and as long as *)
(* no request carries the empty filename.                                  *)
THEOREM PromisesKept ==
  ASSUME ~DiskMayFill, EmptyName \notin Names PROVE Spec => []PromisedFilesAreOnDisk
<1>1. Init => PromiseInv
  BY InitPromise
<1>2. Inv /\ PromiseInv /\ [Next]_vars => PromiseInv'
  BY NextPromise
<1>3. PromiseInv => PromisedFilesAreOnDisk
  BY DEF PromiseInv
<1> QED
  BY <1>1, <1>2, <1>3, SpecInv, PTL DEF Spec
=============================================================================
