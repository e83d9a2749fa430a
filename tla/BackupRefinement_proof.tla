----------------------- MODULE BackupRefinement_proof -----------------------
(***************************************************************************)
(* BackupServer implements BackupStore, for any number of sessions, users, *)
(* names, payloads and crashes.                                            *)
(***************************************************************************)
EXTENDS BackupRefinement, BackupServer_proof

(* A session has a response exactly while it is sending it, and no request *)
(* before it has read one.                                                 *)
ResponsesAreDecided ==
  \A s \in Sessions :
    /\ pc[s] \in {"idle", "reading"} => request[s] = NoRequest
    /\ response[s] # NoResponse <=> pc[s] = "sending"

(* No file appears under a name that requests do not carry. *)
OnlyNamedFiles ==
  \A u \in Users : \A n \in Filenames \cup {EmptyName} : files[u][n] # NoFile => n \in Names

RefinementInv == ResponsesAreDecided /\ OnlyNamedFiles

(* The steps of a session that leave the responses alone. *)
Undecided(s) ==
  \/ Accept(s) \/ (\E r \in Requests : ReadRequest(s, r)) \/ LockManager(s)
  \/ AddUser(s) \/ FindUser(s) \/ LockDirectory(s) \/ CheckSucceeds(s)
  \/ OpenFile(s) \/ WriteFile(s)

(* The steps that decide on one. *)
Decides(s) ==
  \/ RejectRequest(s) \/ AddUserFails(s) \/ UserNotFound(s) \/ CheckFails(s) \/ FinishBackup(s)
  \/ ReadFile(s) \/ RemoveFile(s) \/ RemoveDirectory(s) \/ ListDirectory(s)

(* At first no session has a request or a response, and no file is there.  *)
LEMMA InitRefinement == Init => RefinementInv
  BY DEF Init, RefinementInv, ResponsesAreDecided, OnlyNamedFiles

(* A session that decides goes on to send a response that is one.          *)
LEMMA DecidesSends ==
  ASSUME Inv, NEW s \in Sessions, Decides(s)
  PROVE  /\ pc' = [pc EXCEPT ![s] = "sending"]
         /\ \E r : r # NoResponse /\ response' = [response EXCEPT ![s] = r]
         /\ request' = request
  BY DEF Decides, RejectRequest, AddUserFails, UserNotFound, CheckFails, FinishBackup,
         ReadFile, RemoveFile, RemoveDirectory, ListDirectory, Leave, Goto, NoResponse,
         ServerError, NoBackupFilesForClient, FileNotFound, SuccessfulBackupOrDelete,
         SuccessfulRestore, SuccessfulListFiles

(* A session that does not decide goes on to a step that has no response,  *)
(* with a request from the moment it asks for the manager.                 *)
LEMMA UndecidedGoesOn ==
  ASSUME Inv, NEW s \in Sessions, Undecided(s)
  PROVE  /\ pc[s] # "sending"
         /\ \E to \in Phases \ {"idle", "sending"} : pc' = [pc EXCEPT ![s] = to]
         /\ response' = response
         /\ pc'[s] = "reading" => pc[s] = "idle" /\ request' = request
         /\ \A t \in Sessions \ {s} : request'[t] = request[t]
<1>1. ASSUME CheckSucceeds(s)
      PROVE  AfterCheck(request[s].op) \in {"openFile", "readFile", "removeFile"}
  BY <1>1, RequestFields
     DEF CheckSucceeds, Goto, AfterCheck, Inv, RequestFitsPhase, HandlerPhases, ManagerPhases,
         DirectoryPhases
<1> QED
  BY <1>1
     DEF Undecided, Accept, ReadRequest, LockManager, AddUser, FindUser, LockDirectory,
         CheckSucceeds, OpenFile, WriteFile, Goto, Inv, TypeOK, Phases, HandlerPhases,
         ManagerPhases, DirectoryPhases, memory, disk

(* Requests and responses keep in step with the phases. *)
LEMMA NextResponses ==
  ASSUME Inv, ResponsesAreDecided, [Next]_vars
  PROVE  ResponsesAreDecided'
<1>1. ASSUME NEW s \in Sessions, Decides(s) PROVE ResponsesAreDecided'
  BY <1>1, DecidesSends DEF ResponsesAreDecided, Inv, TypeOK
<1>2. ASSUME NEW s \in Sessions, Undecided(s) PROVE ResponsesAreDecided'
  BY <1>2, UndecidedGoesOn DEF ResponsesAreDecided, Inv, TypeOK
<1>3. ASSUME NEW s \in Sessions, LoseClient(s) \/ SendResponse(s) \/ FailToSend(s)
      PROVE  ResponsesAreDecided'
  BY <1>3 DEF LoseClient, SendResponse, FailToSend, EndSession, Goto, ResponsesAreDecided,
              Inv, TypeOK
<1>4. CASE Restart
  BY <1>4 DEF Restart, ResponsesAreDecided
<1>5. CASE UNCHANGED vars
  BY <1>5 DEF vars, session, ResponsesAreDecided
<1> QED
  BY <1>1, <1>2, <1>3, <1>4, <1>5 DEF Next, Handle, Decides, Undecided

(* A file is created under the name of a request. *)
LEMMA NextNamed ==
  ASSUME Inv, OnlyNamedFiles, [Next]_vars
  PROVE  OnlyNamedFiles'
<1>1. ASSUME NEW s \in Sessions, OpenFile(s) \/ WriteFile(s) PROVE OnlyNamedFiles'
  <2>1. NameOf(s) \in Names
    BY <1>1, FileOfSession DEF OpenFile, WriteFile, Goto, UserPhases, DirectoryPhases
  <2>2. ASSUME NEW u \in Users, NEW n \in (Filenames \cup {EmptyName}) \ Names
        PROVE  files'[u][n] = files[u][n]
    <3>1. PICK c : \/ files' = [files EXCEPT ![UserOf(s)][NameOf(s)] = c]
                   \/ files' = files
      BY <1>1 DEF OpenFile, WriteFile, SetFile
    <3>2. files \in [Users -> [Filenames \cup {EmptyName} -> Contents \cup {NoFile}]]
      BY DEF Inv, TypeOK
    <3> QED BY <2>1, <2>2, <3>1, <3>2
  <2> QED
    BY <2>2 DEF OnlyNamedFiles
<1>2. ASSUME NEW s \in Sessions, RemoveFile(s) PROVE OnlyNamedFiles'
  BY <1>2 DEF RemoveFile, SetFile, OnlyNamedFiles, Inv, TypeOK
<1>3. CASE UNCHANGED files
  BY <1>3 DEF OnlyNamedFiles
<1> QED
  BY <1>1, <1>2, <1>3
     DEF Next, Handle, Accept, ReadRequest, RejectRequest, LoseClient, SendResponse, FailToSend,
         EndSession, LockManager, AddUser, AddUserFails, FindUser, UserNotFound, LockDirectory,
         CheckSucceeds, CheckFails, FinishBackup, ReadFile, RemoveDirectory, ListDirectory,
         Restart, disk, vars

-----------------------------------------------------------------------------
(* The store that the clients see.                                         *)

(* The names of requests are names of files. *)
LEMMA NamesAreFilenames == \A n \in Names : n \in Filenames \cup {EmptyName}
  BY MessagesAssumption

(* Only the session inside the manager can be writing. *)
LEMMA OnlyWriter ==
  ASSUME Inv, NEW s \in Sessions, pc[s] \in ManagerPhases \ {"writeFile", "closeFile"},
         NEW u, NEW n
  PROVE  ~BeingWritten(u, n)
  BY OneInManager DEF Inv, BeingWritten, ManagerPhases, DirectoryPhases

(* The store shows a file as it is unless it is being written. *)
LEMMA StoreShows ==
  ASSUME NEW u \in Users, NEW n \in Names
  PROVE  storeBar[u][n] = IF BeingWritten(u, n) THEN NoFile ELSE files[u][n]
  BY DEF storeBar

(* A step that touches no file and no session that is writing is not seen  *)
(* in the store.                                                           *)
LEMMA StoreUnchanged ==
  ASSUME UNCHANGED files,
         \A s \in Sessions : pc'[s] # pc[s] =>
           pc[s] \notin {"writeFile", "closeFile"} /\ pc'[s] \notin {"writeFile", "closeFile"},
         \A s \in Sessions : request'[s] # request[s] => pc[s] \notin {"writeFile", "closeFile"}
  PROVE  UNCHANGED storeBar
  BY DEF storeBar, BeingWritten, UserOf, NameOf

-----------------------------------------------------------------------------
(* The steps.  A session that has not decided is pending in the store; its *)
(* decision is the step of the store, and whatever it does before that, or *)
(* nothing at all, is invisible.                                           *)

StepInv == Inv /\ PromiseInv /\ RefinementInv

(* A session inside the handler has called the store and waits for it.     *)
LEMMA HandlersPend ==
  ASSUME StepInv, NEW s \in Sessions, pc[s] \in HandlerPhases
  PROVE  Store!Pending(s)
<1>1. request[s].op # "NONE"
  BY RequestFields DEF StepInv, Inv, RequestFitsPhase
<1>2. response[s] = NoResponse
  BY DEF StepInv, RefinementInv, ResponsesAreDecided, HandlerPhases, ManagerPhases,
         DirectoryPhases
<1> QED
  BY <1>1, <1>2 DEF Store!Pending, Store!NoRequest, Store!NoResponse, NoResponse

(* Accepting a connection, losing the client before the request is read    *)
(* and everything a handler does up to its decision is invisible, except   *)
(* that the server gets to know a user.                                    *)
LEMMA SilentSteps ==
  ASSUME StepInv, NEW s \in Sessions,
         Accept(s) \/ LoseClient(s) \/ LockManager(s) \/ FindUser(s) \/ LockDirectory(s)
           \/ CheckSucceeds(s)
  PROVE  UNCHANGED Store!vars
<1>1. UNCHANGED <<files, user_directories_>>
  BY DEF Accept, LoseClient, EndSession, LockManager, FindUser, LockDirectory, CheckSucceeds,
         disk, memory
<1>2. ASSUME LoseClient(s) PROVE UNCHANGED <<request, response>>
  BY <1>2 DEF LoseClient, EndSession, Goto, StepInv, RefinementInv, ResponsesAreDecided, Inv, TypeOK
<1>3. UNCHANGED <<request, response>>
  BY <1>2 DEF Accept, LockManager, FindUser, LockDirectory, CheckSucceeds
<1>4. ASSUME CheckSucceeds(s)
      PROVE  AfterCheck(request[s].op) \in {"openFile", "readFile", "removeFile"}
  BY <1>4, RequestFields
     DEF CheckSucceeds, Goto, AfterCheck, StepInv, Inv, RequestFitsPhase, HandlerPhases,
         ManagerPhases, DirectoryPhases
<1>5. \A t \in Sessions : pc'[t] # pc[t] =>
        pc[t] \notin {"writeFile", "closeFile"} /\ pc'[t] \notin {"writeFile", "closeFile"}
  BY <1>4 DEF Accept, LoseClient, EndSession, LockManager, FindUser, LockDirectory,
              CheckSucceeds, Goto, StepInv, Inv, TypeOK
<1>6. UNCHANGED storeBar
  BY <1>1, <1>3, <1>5, StoreUnchanged
<1> QED
  BY <1>1, <1>3, <1>6 DEF Store!vars

(* Creating the file and writing to it is invisible as well: the session   *)
(* found no file and hides what it writes.                                 *)
LEMMA WritingIsHidden ==
  ASSUME StepInv, NEW s \in Sessions, OpenFile(s) \/ WriteFile(s)
  PROVE  UNCHANGED Store!vars
<1>1. /\ pc[s] \in {"openFile", "writeFile"}
      /\ pc' = [pc EXCEPT ![s] = IF pc[s] = "openFile" THEN "writeFile" ELSE "closeFile"]
      /\ UNCHANGED <<user_directories_, request, response>>
  BY DEF OpenFile, WriteFile, Goto, memory
<1>2. \A t \in Sessions \ {s} :
        pc'[t] = pc[t] /\ pc[t] \notin {"writeFile", "closeFile"}
  BY <1>1, OthersAreOutside DEF StepInv, UserPhases, DirectoryPhases, Inv, TypeOK
<1>3. UserOf(s) \in Users /\ NameOf(s) \in Names /\ NameOf(s) \in Filenames \cup {EmptyName}
  BY <1>1, FileOfSession DEF StepInv, UserPhases, DirectoryPhases
<1>4. ASSUME NEW u \in Users, NEW n \in Names
      PROVE  (IF BeingWritten(u, n) THEN NoFile ELSE files[u][n])'
               = (IF BeingWritten(u, n) THEN NoFile ELSE files[u][n])
  <2>1. CASE u = UserOf(s) /\ n = NameOf(s)
    <3>1. BeingWritten(u, n)'
      BY <1>1, <2>1 DEF BeingWritten, UserOf, NameOf, StepInv, Inv, TypeOK
    <3>2. BeingWritten(u, n) \/ files[u][n] = NoFile
      BY <1>1, <2>1 DEF BeingWritten, StepInv, Inv, CheckStillHolds
    <3> QED
      BY <3>1, <3>2
  <2>2. CASE ~(u = UserOf(s) /\ n = NameOf(s))
    <3>1. files'[u][n] = files[u][n]
      BY <1>3, <2>2, NamesAreFilenames DEF OpenFile, WriteFile, SetFile, StepInv, Inv, TypeOK
    <3>2. ~BeingWritten(u, n) /\ ~BeingWritten(u, n)'
      BY <1>1, <1>2, <2>2 DEF BeingWritten, UserOf, NameOf
    <3> QED
      BY <3>1, <3>2
  <2> QED
    BY <2>1, <2>2
<1>5. UNCHANGED storeBar
  BY <1>4 DEF storeBar
<1> QED
  BY <1>1, <1>5 DEF Store!vars

(* Reading a request is the call of the store, and refusing one or sending *)
(* a response its end.                                                     *)
LEMMA CallsAndReturns ==
  ASSUME StepInv, NEW s \in Sessions
  PROVE  /\ \A r \in Requests : ReadRequest(s, r) => Store!Invoke(s, r)
         /\ RejectRequest(s) => Store!Refuse(s)
         /\ SendResponse(s) \/ FailToSend(s) => Store!Finish(s)
<1>1. ASSUME NEW t \in Sessions, UNCHANGED files, pc[t] \notin {"writeFile", "closeFile"},
             pc'[t] \notin {"writeFile", "closeFile"},
             \A v \in Sessions \ {t} : pc'[v] = pc[v] /\ request'[v] = request[v]
      PROVE  UNCHANGED storeBar
  BY <1>1, StoreUnchanged
<1>2. ASSUME NEW r \in Requests, ReadRequest(s, r) PROVE Store!Invoke(s, r)
  <2>1. UNCHANGED storeBar
    BY <1>1, <1>2 DEF ReadRequest, Goto, disk, StepInv, Inv, TypeOK
  <2>2. request[s] = NoRequest /\ response[s] = NoResponse
    BY <1>2 DEF ReadRequest, Goto, StepInv, RefinementInv, ResponsesAreDecided
  <2> QED
    BY <1>2, <2>1, <2>2
       DEF ReadRequest, Store!Invoke, Store!NoRequest, Store!NoResponse, NoRequest, NoResponse, memory
<1>3. ASSUME RejectRequest(s) PROVE Store!Refuse(s)
  <2>1. UNCHANGED storeBar
    BY <1>1, <1>3 DEF RejectRequest, Goto, disk, StepInv, Inv, TypeOK
  <2>2. request[s] = NoRequest /\ response[s] = NoResponse
    BY <1>3 DEF RejectRequest, Goto, StepInv, RefinementInv, ResponsesAreDecided
  <2> QED
    BY <1>3, <2>1, <2>2
       DEF RejectRequest, Store!Refuse, Store!NoRequest, Store!NoResponse, Store!ServerError,
           NoRequest, NoResponse, ServerError, memory
<1>4. ASSUME SendResponse(s) \/ FailToSend(s) PROVE Store!Finish(s)
  <2>1. UNCHANGED storeBar
    BY <1>1, <1>4 DEF SendResponse, FailToSend, EndSession, Goto, disk, StepInv, Inv, TypeOK
  <2>2. response[s] # NoResponse
    BY <1>4 DEF SendResponse, FailToSend, EndSession, Goto, StepInv, RefinementInv,
                ResponsesAreDecided
  <2> QED
    BY <1>4, <2>1, <2>2
       DEF SendResponse, FailToSend, EndSession, Store!Finish, Store!NoRequest,
           Store!NoResponse, NoRequest, NoResponse, memory
<1> QED
  BY <1>2, <1>3, <1>4

-----------------------------------------------------------------------------
(* The decisions. *)

(* A decision that touches no file leaves the store alone.                 *)
LEMMA LeavingIsHidden ==
  ASSUME StepInv, NEW s \in Sessions, NEW from \in ManagerPhases \ {"writeFile", "closeFile"},
         NEW r, Leave(s, from, r), UNCHANGED files
  PROVE  /\ UNCHANGED <<storeBar, user_directories_>>
         /\ Store!Answer(s, r)
<1>1. UNCHANGED storeBar
  BY StoreUnchanged DEF Leave, Goto, StepInv, Inv, TypeOK
<1> QED
  BY <1>1 DEF Leave, Store!Answer

(* Inside the manager a session sees in the files what is in the store.    *)
LEMMA SessionsSeeTheStore ==
  ASSUME StepInv, NEW s \in Sessions, pc[s] \in ManagerPhases \ {"writeFile", "closeFile"},
         NEW u \in Users, NEW n \in Names
  PROVE  storeBar[u][n] = files[u][n]
  BY OnlyWriter, StoreShows DEF StepInv

(* The responses of the server are those of the store. *)
LEMMA ResponsesAgree ==
  /\ Store!ServerError = ServerError
  /\ Store!NoBackupFilesForClient = NoBackupFilesForClient
  /\ \A n : Store!FileNotFound(n) = FileNotFound(n)
  /\ \A n : Store!SuccessfulBackupOrDelete(n) = SuccessfulBackupOrDelete(n)
  /\ \A n, c : Store!SuccessfulRestore(n, c) = SuccessfulRestore(n, c)
  /\ \A ns : Store!SuccessfulListFiles(ns) = SuccessfulListFiles(ns)
  BY DEF Store!ServerError, ServerError, Store!NoBackupFilesForClient, NoBackupFilesForClient,
         Store!FileNotFound, FileNotFound, Store!SuccessfulBackupOrDelete,
         SuccessfulBackupOrDelete, Store!SuccessfulRestore, SuccessfulRestore,
         Store!SuccessfulListFiles, SuccessfulListFiles

(* A list response of the server is one of the store. *)
LEMMA EnumerationsAgree == \A S : Store!Enumerations(S) = Enumerations(S)
<1>1. \A S : Store!Cardinality(S) = Cardinality(S)
  BY Zenon DEF Store!Cardinality, Cardinality
<1> QED
  BY <1>1 DEF Store!Enumerations, Enumerations

(* The manager gets to know the user of a backup; on a disk where no file  *)
(* has the empty name that does not fail.                                  *)
LEMMA AdmissionStep ==
  ASSUME StepInv, EmptyName \notin Names, NEW s \in Sessions, AddUser(s) \/ AddUserFails(s)
  PROVE  Store!Admit(s)
<1>1. pc[s] = "findUser" /\ request[s].op = "BACKUP_FILE"
  BY DEF AddUser, AddUserFails, Leave, Goto
<1>2. UserOf(s) \in Users
  BY <1>1, RequestFields
     DEF StepInv, Inv, RequestFitsPhase, HandlerPhases, ManagerPhases, UserOf
<1>3. files[UserOf(s)][EmptyName] = NoFile
  BY <1>2 DEF StepInv, RefinementInv, OnlyNamedFiles
<1>4. AddUser(s)
  BY <1>3 DEF AddUserFails
<1>5. Store!Pending(s)
  BY <1>1, HandlersPend DEF HandlerPhases, ManagerPhases
<1>6. UNCHANGED storeBar
  BY <1>4, StoreUnchanged DEF AddUser, Goto, StepInv, Inv, TypeOK
<1> QED
  BY <1>1, <1>4, <1>5, <1>6 DEF AddUser, Store!Admit, UserOf

(* A user that is not known gets an answer that depends on the operation.  *)
LEMMA UnknownUserStep ==
  ASSUME StepInv, NEW s \in Sessions, UserNotFound(s)
  PROVE  Store!Delete(s) \/ Store!Restore(s) \/ Store!List(s)
<1> DEFINE r == IF request[s].op = "LIST_FILES" THEN NoBackupFilesForClient ELSE ServerError
<1>1. /\ pc[s] = "findUser" /\ Leave(s, "findUser", r) /\ UNCHANGED files
      /\ request[s].op # "BACKUP_FILE" /\ request[s].user \notin user_directories_
  BY DEF UserNotFound, Leave, Goto, disk, UserOf
<1>2. UNCHANGED <<storeBar, user_directories_>> /\ Store!Answer(s, r)
  BY <1>1, LeavingIsHidden DEF ManagerPhases, DirectoryPhases
<1>3. Store!Pending(s)
  BY <1>1, HandlersPend DEF HandlerPhases, ManagerPhases
<1>4. request[s].op \in {"RESTORE_FILE", "DELETE_FILE", "LIST_FILES"}
  BY <1>1, RequestFields DEF StepInv, Inv, RequestFitsPhase, HandlerPhases, ManagerPhases
<1> QED
  BY <1>1, <1>2, <1>3, <1>4, ResponsesAgree DEF Store!Delete, Store!Restore, Store!List

(* A check of the file that does not go well is an answer about the store. *)
LEMMA FailedCheckStep ==
  ASSUME StepInv, EmptyName \notin Names, NEW s \in Sessions, CheckFails(s)
  PROVE  Store!Backup(s) \/ Store!Delete(s) \/ Store!Restore(s)
<1> DEFINE u == request[s].user
           n == request[s].name
           r == IF request[s].op = "RESTORE_FILE" THEN FileNotFound(n) ELSE ServerError
<1>1. /\ pc[s] = "checkFile" /\ Leave(s, "checkFile", r) /\ UNCHANGED files
      /\ Exists(u, n) <=> request[s].op = "BACKUP_FILE"
  BY DEF CheckFails, Leave, Goto, disk, UserOf, NameOf
<1>2. UNCHANGED <<storeBar, user_directories_>> /\ Store!Answer(s, r)
  BY <1>1, LeavingIsHidden DEF ManagerPhases, DirectoryPhases
<1>3. Store!Pending(s)
  BY <1>1, HandlersPend DEF HandlerPhases, ManagerPhases, DirectoryPhases
<1>4. request[s].op \in {"BACKUP_FILE", "RESTORE_FILE", "DELETE_FILE"}
  BY <1>1, RequestFields
     DEF StepInv, Inv, RequestFitsPhase, HandlerPhases, ManagerPhases, DirectoryPhases
<1>5. u \in Users /\ n \in Names /\ n # EmptyName
  BY <1>1, FileOfSession DEF StepInv, UserPhases, DirectoryPhases, UserOf, NameOf
<1>6. u \in user_directories_
  BY <1>1 DEF StepInv, PromiseInv, WriteSucceeds, UserPhases, DirectoryPhases, UserOf
<1>7. storeBar[u][n] # NoFile <=> request[s].op = "BACKUP_FILE"
  BY <1>1, <1>5, SessionsSeeTheStore DEF Exists, IsDirectory, ManagerPhases, DirectoryPhases
<1> QED
  BY <1>1, <1>2, <1>3, <1>4, <1>6, <1>7, ResponsesAgree
     DEF Store!Backup, Store!Delete, Store!Restore

(* backup_file returns: the file it has written comes to light, whole.     *)
LEMMA BackupStep ==
  ASSUME StepInv, NEW s \in Sessions, FinishBackup(s)
  PROVE  Store!Backup(s)
<1> DEFINE u == request[s].user
           n == request[s].name
           c == [payload |-> request[s].payload, complete |-> TRUE]
<1>1. /\ pc[s] = "closeFile" /\ pc' = [pc EXCEPT ![s] = "sending"]
      /\ UNCHANGED <<files, user_directories_, request>>
      /\ response' = [response EXCEPT ![s] = SuccessfulBackupOrDelete(n)]
  BY DEF FinishBackup, Leave, Goto, disk, NameOf
<1>2. Store!Pending(s)
  BY <1>1, HandlersPend DEF HandlerPhases, ManagerPhases, DirectoryPhases
<1>3. request[s].op = "BACKUP_FILE"
  BY <1>1 DEF StepInv, Inv, RequestFitsPhase
<1>4. u \in Users /\ n \in Names
  BY <1>1, FileOfSession DEF StepInv, UserPhases, DirectoryPhases, UserOf, NameOf
<1>5. u \in user_directories_ /\ files[u][n] = c
  BY <1>1 DEF StepInv, PromiseInv, WriteSucceeds, UserPhases, DirectoryPhases, UserOf, NameOf
<1>6. \A t \in Sessions \ {s} :
        pc'[t] = pc[t] /\ pc[t] \notin {"writeFile", "closeFile"}
  BY <1>1, OthersAreOutside DEF StepInv, UserPhases, DirectoryPhases, Inv, TypeOK
<1>7. storeBar[u][n] = NoFile
  BY <1>1, <1>4, StoreShows DEF BeingWritten, UserOf, NameOf
<1>8. storeBar' = [storeBar EXCEPT ![u][n] = c]
  <2>1. \A v \in Users, m \in Names : ~BeingWritten(v, m)'
    BY <1>1, <1>6 DEF BeingWritten, StepInv, Inv, TypeOK
  <2>2. \A v \in Users, m \in Names : BeingWritten(v, m) => v = u /\ m = n
    BY <1>6 DEF BeingWritten, UserOf, NameOf
  <2>3. storeBar' = [v \in Users |-> [m \in Names |-> files[v][m]]]
    BY <1>1, <2>1 DEF storeBar
  <2>4. storeBar = [v \in Users |-> [m \in Names |-> IF v = u /\ m = n THEN NoFile
                                                       ELSE files[v][m]]]
    BY <1>4, <1>7, <2>2 DEF storeBar
  <2> QED
    BY <1>4, <1>5, <2>3, <2>4
<1> QED
  BY <1>1, <1>2, <1>3, <1>5, <1>7, <1>8, ResponsesAgree DEF Store!Backup, Store!Answer

(* A restore is answered with what the store holds. *)
LEMMA RestoreStep ==
  ASSUME StepInv, EmptyName \notin Names, NEW s \in Sessions, ReadFile(s)
  PROVE  Store!Restore(s)
<1> DEFINE u == request[s].user
           n == request[s].name
<1>1. pc[s] = "readFile" /\ UNCHANGED files /\ request[s].op = "RESTORE_FILE"
  BY DEF ReadFile, Leave, Goto, disk, StepInv, Inv, RequestFitsPhase
<1>2. u \in Users /\ n \in Names /\ n # EmptyName
  BY <1>1, FileOfSession DEF StepInv, UserPhases, DirectoryPhases, UserOf, NameOf
<1>3. u \in user_directories_
  BY <1>1 DEF StepInv, PromiseInv, WriteSucceeds, UserPhases, DirectoryPhases, UserOf
<1>4. storeBar[u][n] = files[u][n] /\ files[u][n] # NoFile
  BY <1>1, <1>2, SessionsSeeTheStore
     DEF StepInv, Inv, CheckStillHolds, Exists, IsDirectory, ManagerPhases, DirectoryPhases,
         UserOf, NameOf
<1>5. Leave(s, "readFile", SuccessfulRestore(n, storeBar[u][n]))
  BY <1>2, <1>4 DEF ReadFile, IsDirectory, UserOf, NameOf
<1>6. UNCHANGED <<storeBar, user_directories_>>
      /\ Store!Answer(s, SuccessfulRestore(n, storeBar[u][n]))
  BY <1>1, <1>5, LeavingIsHidden DEF ManagerPhases, DirectoryPhases
<1>7. Store!Pending(s)
  BY <1>1, HandlersPend DEF HandlerPhases, ManagerPhases, DirectoryPhases
<1> QED
  BY <1>1, <1>3, <1>4, <1>6, <1>7, ResponsesAgree DEF Store!Restore

(* A delete removes a file of the store, never a directory. *)
LEMMA DeleteStep ==
  ASSUME StepInv, EmptyName \notin Names, NEW s \in Sessions, RemoveFile(s) \/ RemoveDirectory(s)
  PROVE  Store!Delete(s)
<1> DEFINE u == request[s].user
           n == request[s].name
<1>1. pc[s] = "removeFile" /\ request[s].op = "DELETE_FILE"
  BY DEF RemoveFile, RemoveDirectory, Leave, Goto, StepInv, Inv, RequestFitsPhase
<1>2. u \in Users /\ n \in Names /\ n # EmptyName
  BY <1>1, FileOfSession DEF StepInv, UserPhases, DirectoryPhases, UserOf, NameOf
<1>3. RemoveFile(s)
  BY <1>2 DEF RemoveDirectory, IsDirectory, UserOf, NameOf
<1>4. u \in user_directories_
  BY <1>1 DEF StepInv, PromiseInv, WriteSucceeds, UserPhases, DirectoryPhases, UserOf
<1>5. storeBar[u][n] = files[u][n] /\ files[u][n] # NoFile
  BY <1>1, <1>2, SessionsSeeTheStore
     DEF StepInv, Inv, CheckStillHolds, Exists, IsDirectory, ManagerPhases, DirectoryPhases,
         UserOf, NameOf
<1>6. /\ pc' = [pc EXCEPT ![s] = "sending"]
      /\ files' = [files EXCEPT ![u][n] = NoFile]
      /\ UNCHANGED <<user_directories_, request>>
      /\ response' = [response EXCEPT ![s] = SuccessfulBackupOrDelete(n)]
  BY <1>3, <1>5 DEF RemoveFile, Leave, Goto, SetFile, UserOf, NameOf
<1>7. storeBar' = [storeBar EXCEPT ![u][n] = NoFile]
  <2>1. \A t \in Sessions : pc[t] \notin {"writeFile", "closeFile"}
    BY <1>1, OthersAreOutside DEF StepInv, UserPhases, DirectoryPhases
  <2>2. \A v \in Users, m \in Names : ~BeingWritten(v, m) /\ ~BeingWritten(v, m)'
    BY <1>6, <2>1 DEF BeingWritten, StepInv, Inv, TypeOK
  <2>3. storeBar = [v \in Users |-> [m \in Names |-> files[v][m]]]
    BY <2>2 DEF storeBar
  <2>4. storeBar' = [v \in Users |-> [m \in Names |-> files'[v][m]]]
    BY <2>2 DEF storeBar
  <2>5. ASSUME NEW v \in Users, NEW m \in Names
        PROVE  files'[v][m] = IF v = u /\ m = n THEN NoFile ELSE files[v][m]
    <3>1. m \in Filenames \cup {EmptyName} /\ n \in Filenames \cup {EmptyName}
      BY <1>2, NamesAreFilenames
    <3> QED
      BY <1>2, <1>6, <3>1 DEF StepInv, Inv, TypeOK
  <2>6. storeBar' = [v \in Users |-> [m \in Names |-> IF v = u /\ m = n THEN NoFile
                                                        ELSE files[v][m]]]
    BY <2>4, <2>5
  <2> QED
    BY <1>2, <2>3, <2>6
<1>8. Store!Pending(s)
  BY <1>1, HandlersPend DEF HandlerPhases, ManagerPhases, DirectoryPhases
<1> QED
  BY <1>1, <1>4, <1>5, <1>6, <1>7, <1>8, ResponsesAgree DEF Store!Delete, Store!Answer

(* A list holds the files of the store: no others are in the directory.    *)
LEMMA ListStep ==
  ASSUME StepInv, EmptyName \notin Names, NEW s \in Sessions, ListDirectory(s)
  PROVE  Store!List(s)
<1> DEFINE u == request[s].user
<1>1. pc[s] = "listDirectory" /\ UNCHANGED files /\ request[s].op = "LIST_FILES"
  BY DEF ListDirectory, disk, StepInv, Inv, RequestFitsPhase
<1>2. u \in Users
  BY <1>1, RequestFields
     DEF StepInv, Inv, RequestFitsPhase, HandlerPhases, ManagerPhases, DirectoryPhases
<1>3. u \in user_directories_ /\ u \in directories
  BY <1>1 DEF StepInv, PromiseInv, WriteSucceeds, UserPhases, DirectoryPhases, UserOf
<1>4. FilesOf(u) = Store!Stored(u)
  <2>1. \A n \in Names : storeBar[u][n] = files[u][n]
    BY <1>1, <1>2, SessionsSeeTheStore DEF ManagerPhases, DirectoryPhases
  <2>2. \A n \in Filenames : files[u][n] # NoFile => n \in Names
    BY <1>2 DEF StepInv, RefinementInv, OnlyNamedFiles
  <2>3. Names \subseteq Filenames
    BY NamesAreFilenames
  <2> QED
    BY <2>1, <2>2, <2>3 DEF FilesOf, Store!Stored
<1>5. PICK ns \in Store!Enumerations(Store!Stored(u)) :
        Leave(s, "listDirectory", SuccessfulListFiles(ns))
  BY <1>3, <1>4, EnumerationsAgree DEF ListDirectory, UserOf
<1>6. UNCHANGED <<storeBar, user_directories_>> /\ Store!Answer(s, SuccessfulListFiles(ns))
  BY <1>1, <1>5, LeavingIsHidden DEF ManagerPhases, DirectoryPhases
<1>7. Store!Pending(s)
  BY <1>1, HandlersPend DEF HandlerPhases, ManagerPhases, DirectoryPhases
<1> QED
  BY <1>1, <1>3, <1>5, <1>6, <1>7, ResponsesAgree DEF Store!List

(* A store in which one file differs is the other store with that file in  *)
(* it.                                                                     *)
LEMMA OneFileChanges ==
  ASSUME NEW U, NEW N, NEW S, NEW f \in [U -> [N -> S]], NEW u \in U, NEW n \in N, NEW c
  PROVE  [v \in U |-> [m \in N |-> IF v = u /\ m = n THEN c ELSE f[v][m]]]
           = [f EXCEPT ![u][n] = c]
OBVIOUS

(* A crash ends every call; the file that was being written, if any, shows *)
(* as it is.                                                               *)
LEMMA CrashStep ==
  ASSUME StepInv, Restart
  PROVE  Store!Crash
<1>1. /\ user_directories_' = {}
      /\ request' = [s \in Sessions |-> Store!NoRequest]
      /\ response' = [s \in Sessions |-> Store!NoResponse]
  BY DEF Restart, NoRequest, NoResponse, Store!NoRequest, Store!NoResponse
<1>2. storeBar' = [v \in Users |-> [m \in Names |-> files[v][m]]]
  <2>1. \A v \in Users, m \in Names : ~BeingWritten(v, m)'
    BY DEF Restart, BeingWritten
  <2> QED
    BY <2>1 DEF Restart, disk, storeBar
<1>3. CASE \A s \in Sessions : pc[s] \notin {"writeFile", "closeFile"}
  <2>1. UNCHANGED storeBar
    BY <1>2, <1>3 DEF storeBar, BeingWritten
  <2> QED
    BY <1>1, <2>1 DEF Store!Crash
<1>4. ASSUME NEW s \in Sessions, pc[s] \in {"writeFile", "closeFile"} PROVE Store!Crash
  <2> DEFINE u == request[s].user
             n == request[s].name
             whole == pc[s] = "closeFile"
             c == [payload |-> request[s].payload, complete |-> whole]
  <2>1. Store!Pending(s)
    BY <1>4, HandlersPend DEF HandlerPhases, ManagerPhases, DirectoryPhases
  <2>2. request[s].op = "BACKUP_FILE"
    BY <1>4 DEF StepInv, Inv, RequestFitsPhase
  <2>3. u \in Users /\ n \in Names
    BY <1>4, FileOfSession DEF StepInv, UserPhases, DirectoryPhases, UserOf, NameOf
  <2>4. files[u][n] = c
    BY <1>4 DEF StepInv, PromiseInv, WriteSucceeds, UserOf, NameOf
  <2>5. \A t \in Sessions \ {s} : pc[t] \notin {"writeFile", "closeFile"}
    BY <1>4, OthersAreOutside DEF StepInv, UserPhases, DirectoryPhases
  <2>6. \A v \in Users, m \in Names : BeingWritten(v, m) <=> v = u /\ m = n
    BY <1>4, <2>5 DEF BeingWritten, UserOf, NameOf
  <2>7. storeBar = [v \in Users |-> [m \in Names |-> IF v = u /\ m = n THEN NoFile
                                                       ELSE files[v][m]]]
    BY <2>6 DEF storeBar
  <2>8. storeBar[u][n] = NoFile
    BY <2>3, <2>7
  <2>9. storeBar' = [storeBar EXCEPT ![u][n] = c]
    <3> HIDE DEF u, n, c
    <3>1. storeBar' = [v \in Users |-> [m \in Names |-> IF v = u /\ m = n THEN c
                                                        ELSE storeBar[v][m]]]
      BY <1>2, <2>4, <2>7
    <3> DEFINE S == {storeBar[v][m] : v \in Users, m \in Names}
    <3>2. storeBar \in [Users -> [Names -> S]]
      BY <2>7
    <3> HIDE DEF S
    <3>3. [v \in Users |-> [m \in Names |-> IF v = u /\ m = n THEN c ELSE storeBar[v][m]]]
            = [storeBar EXCEPT ![u][n] = c]
      BY <2>3, <3>2, OneFileChanges
    <3> QED BY <3>1, <3>3
  <2> QED
    BY <1>1, <2>1, <2>2, <2>8, <2>9 DEF Store!Crash
<1> QED
  BY <1>3, <1>4

-----------------------------------------------------------------------------
(* The store starts empty, without a user, a call or a reply.              *)
LEMMA InitStore == Init => Store!Init
<1> SUFFICES ASSUME Init PROVE Store!Init
  OBVIOUS
<1>1. \A u \in Users, n \in Names : files[u][n] = NoFile
  BY NamesAreFilenames DEF Init
<1>2. storeBar = [u \in Users |-> [n \in Names |-> NoFile]]
  BY <1>1 DEF storeBar
<1> QED
  BY <1>2 DEF Init, Store!Init, Store!NoRequest, Store!NoResponse, NoRequest, NoResponse

(* What a session does inside the manager. *)
LEMMA HandleStep ==
  ASSUME EmptyName \notin Names, StepInv, NEW s \in Sessions, LockManager(s) \/ Handle(s)
  PROVE  \/ UNCHANGED Store!vars
         \/ Store!Admit(s) \/ Store!Backup(s) \/ Store!Delete(s) \/ Store!Restore(s)
         \/ Store!List(s)
<1>1. CASE LockManager(s) \/ FindUser(s) \/ LockDirectory(s) \/ CheckSucceeds(s)
  BY <1>1, SilentSteps
<1>2. CASE OpenFile(s) \/ WriteFile(s)
  BY <1>2, WritingIsHidden
<1>3. CASE AddUser(s) \/ AddUserFails(s) \/ UserNotFound(s) \/ CheckFails(s)
  BY <1>3, AdmissionStep, UnknownUserStep, FailedCheckStep
<1>4. CASE FinishBackup(s) \/ ReadFile(s) \/ RemoveFile(s) \/ RemoveDirectory(s)
             \/ ListDirectory(s)
  BY <1>4, BackupStep, RestoreStep, DeleteStep, ListStep
<1> QED
  BY <1>1, <1>2, <1>3, <1>4 DEF Handle

(* Every step of the server is one of the store or none at all. *)
LEMMA NextStore ==
  ASSUME EmptyName \notin Names, StepInv, [Next]_vars
  PROVE  [Store!Next]_Store!vars
<1>1. ASSUME NEW s \in Sessions, Accept(s) \/ LoseClient(s) PROVE UNCHANGED Store!vars
  BY <1>1, SilentSteps
<1>2. ASSUME NEW s \in Sessions,
             (\E r \in Requests : ReadRequest(s, r)) \/ RejectRequest(s) \/ SendResponse(s)
               \/ FailToSend(s)
      PROVE  Store!Next
  <2>1. Requests = Store!Requests
    BY DEF Requests, BackupRequests, NamedRequests, ListRequests, Store!Requests,
           Store!BackupRequests, Store!NamedRequests, Store!ListRequests
  <2> QED
    BY <1>2, <2>1, CallsAndReturns DEF Store!Next
<1>3. ASSUME NEW s \in Sessions, LockManager(s) \/ Handle(s)
      PROVE  UNCHANGED Store!vars \/ Store!Next
  BY <1>3, HandleStep DEF Store!Next
<1>4. ASSUME Restart PROVE Store!Next
  BY <1>4, CrashStep DEF Store!Next
<1>5. CASE UNCHANGED vars
  <2>1. UNCHANGED <<files, pc, request, response, user_directories_>>
    BY <1>5 DEF vars, disk, memory, session
  <2>2. UNCHANGED storeBar
    BY <2>1, StoreUnchanged
  <2> QED
    BY <2>1, <2>2 DEF Store!vars
<1> QED
  BY <1>1, <1>2, <1>3, <1>4, <1>5 DEF Next

(* The threads, the mutexes, the map and the directories of the server     *)
(* together are a store that performs each request at one moment between   *)
(* its arrival and its response, on a disk that does not fill up and as    *)
(* long as no request carries the empty filename.                          *)
THEOREM Refinement ==
  ASSUME ~DiskMayFill, EmptyName \notin Names PROVE Spec => ImplementsStore
<1>1. Init => PromiseInv /\ RefinementInv /\ Store!Init
  BY InitPromise, InitRefinement, InitStore
<1>2. Inv /\ PromiseInv /\ RefinementInv /\ [Next]_vars => PromiseInv' /\ RefinementInv'
  BY NextPromise, NextResponses, NextNamed DEF RefinementInv
<1>3. Inv /\ PromiseInv /\ RefinementInv /\ [Next]_vars => [Store!Next]_Store!vars
  BY NextStore DEF StepInv
<1> QED
  BY <1>1, <1>2, <1>3, SpecInv, PTL DEF Spec, ImplementsStore, Store!Spec
=============================================================================
