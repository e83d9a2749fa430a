---------------------------- MODULE BackupServer ----------------------------
(***************************************************************************)
(* The backup server of Maman14/Server: one detached client_session thread *)
(* per accepted connection, all of them sharing one BackupDirectoryManager *)
(* guarded by its mutex_.  The manager maps a user id to a                 *)
(* UserBackupDirectory, which has a mutex_ of its own and keeps the files  *)
(* of that user in one directory on disk.                                  *)
(*                                                                         *)
(* A session is a slot: a thread ends when its connection is answered or   *)
(* lost, and the slot is then free for the next connection, so the number  *)
(* of requests served is not bounded.  The disk survives a crash of the    *)
(* process, everything else is lost with it.                               *)
(***************************************************************************)
EXTENDS BackupMessages

CONSTANTS
  Sessions,     \* slots for client_session threads
  NoSession,    \* the owner of an unlocked mutex
  DiskMayFill,  \* TRUE: a write to the disk may fail
  MaxRestarts   \* bound: how often the process crashes and is started again

ASSUME ServerAssumption ==
  /\ NoSession \notin Sessions
  /\ DiskMayFill \in BOOLEAN
  /\ MaxRestarts \in Nat

VARIABLES
  directories,        \* the users that have a directory on disk
  files,              \* files[u][n]: the file n in the directory of u; for
                      \* EmptyName, a plain file in place of the directory
  user_directories_,  \* the keys of BackupDirectoryManager::user_directories_
  mutex_,             \* the session that holds BackupDirectoryManager::mutex_
  user_mutex_,        \* [u]: the session that holds UserBackupDirectory::mutex_
  pc,                 \* the step each session is at
  request,            \* the request each session has parsed
  response,           \* the response each session has decided on
  restarts,           \* the number of crashes so far
  promised            \* history: the payload that the successful responses,
                      \* in the order they were decided, say is backed up

disk    == <<directories, files>>
memory  == <<user_directories_, mutex_, user_mutex_>>
session == <<pc, request, response>>
vars    == <<disk, memory, session, restarts, promised>>

-----------------------------------------------------------------------------
(* The steps of a session.  Between LockManager and the return from the    *)
(* manager the session holds mutex_; between LockDirectory and that return *)
(* it also holds the mutex_ of the directory of its user.                  *)

DirectoryPhases ==
  {"checkFile", "openFile", "writeFile", "closeFile", "readFile", "removeFile",
   "listDirectory"}
ManagerPhases  == {"findUser", "lockDirectory"} \cup DirectoryPhases
HandlerPhases  == {"lockManager"} \cup ManagerPhases
Phases         == {"idle", "reading", "sending"} \cup HandlerPhases

UserOf(s) == request[s].user
NameOf(s) == request[s].name

(* The file names of a directory, as directory_iterator sees them. *)
FilesOf(u) == {f \in Filenames : files[u][f] # NoFile}

(* directory_ / filename is the directory itself when the filename is      *)
(* empty.                                                                  *)
IsDirectory(u, n) == n = EmptyName /\ u \in directories

(* Variant: the path of the file is joined without the user id. *)
ExistsForAnyUser(u, n) == \E v \in Users : files[v][n] # NoFile

(* bfs::exists(directory_ / filename) *)
Exists(u, n) == files[u][n] # NoFile \/ IsDirectory(u, n)

(* An ofstream can create the file n: its directory is there or, for the   *)
(* empty filename, the directory is not.                                   *)
CanCreate(u, n) == u \in directories <=> n # EmptyName

SetFile(u, n, c) == files' = [files EXCEPT ![u][n] = c]

Init ==
  /\ directories = {}
  /\ files = [u \in Users |-> [n \in Filenames \cup {EmptyName} |-> NoFile]]
  /\ user_directories_ = {}
  /\ mutex_ = NoSession
  /\ user_mutex_ = [u \in Users |-> NoSession]
  /\ pc = [s \in Sessions |-> "idle"]
  /\ request = [s \in Sessions |-> NoRequest]
  /\ response = [s \in Sessions |-> NoResponse]
  /\ restarts = 0
  /\ promised = [u \in Users |-> [n \in Filenames \cup {EmptyName} |-> NoFile]]

Goto(s, from, to) ==
  /\ pc[s] = from
  /\ pc' = [pc EXCEPT ![s] = to]

(* Leaving the manager, by return or by exception: the lock_guards release *)
(* the mutexes the session holds, in reverse order of locking.             *)
Unlock(s) ==
  /\ mutex_' = NoSession
  /\ user_mutex_' = [u \in Users |-> IF user_mutex_[u] = s THEN NoSession ELSE user_mutex_[u]]

Leave(s, from, r) ==
  /\ Goto(s, from, "sending")
  /\ response' = [response EXCEPT ![s] = r]
  /\ Unlock(s)
  /\ UNCHANGED <<user_directories_, request, restarts>>

(* The thread ends: its connection is closed and the slot is free again.   *)
EndSession(s, from) ==
  /\ Goto(s, from, "idle")
  /\ request' = [request EXCEPT ![s] = NoRequest]
  /\ response' = [response EXCEPT ![s] = NoResponse]
  /\ UNCHANGED <<disk, memory, restarts, promised>>

-----------------------------------------------------------------------------
(* Connections *)

(* serve_requests accepts a connection and detaches a thread for it.       *)
Accept(s) ==
  /\ Goto(s, "idle", "reading")
  /\ UNCHANGED <<disk, memory, request, response, restarts, promised>>

(* RequestParser::parse_message returns the request r.                     *)
ReadRequest(s, r) ==
  /\ Goto(s, "reading", "lockManager")
  /\ request' = [request EXCEPT ![s] = r]
  /\ UNCHANGED <<disk, memory, response, restarts, promised>>

(* parse_message throws on the version or the operation it has read, and   *)
(* client_session answers with sendServerError.                            *)
RejectRequest(s) ==
  /\ Goto(s, "reading", "sending")
  /\ response' = [response EXCEPT ![s] = ServerError]
  /\ UNCHANGED <<disk, memory, request, restarts, promised>>

(* The connection is lost before the request is complete: remote_endpoint  *)
(* or recv throws, and the error response cannot be sent either.           *)
LoseClient(s) == EndSession(s, "reading")

(* connection->send has written the whole response.                        *)
SendResponse(s) == EndSession(s, "sending")

(* connection->send throws; client_session catches, sendServerError throws *)
(* on the same broken connection and swallows it.  What the handler did    *)
(* before stays done.                                                      *)
FailToSend(s) == EndSession(s, "sending")

-----------------------------------------------------------------------------
(* BackupDirectoryManager *)

(* Variant: without the lock_guard of the manager. *)
LockManagerUnguarded(s) ==
  /\ Goto(s, "lockManager", "findUser")
  /\ mutex_' = s
  /\ UNCHANGED <<disk, user_directories_, user_mutex_, request, response, restarts, promised>>

LockManager(s) ==
  /\ mutex_ = NoSession
  /\ Goto(s, "lockManager", "findUser")
  /\ mutex_' = s
  /\ UNCHANGED <<disk, user_directories_, user_mutex_, request, response, restarts, promised>>

(* get_or_add_user: a user that is not in the map gets a directory on disk *)
(* (create_directory accepts one that is there) and an entry.  A user that *)
(* is in the map is assumed to have its directory.                         *)
AddUser(s) ==
  /\ Goto(s, "findUser", "lockDirectory")
  /\ request[s].op = "BACKUP_FILE"
  /\ UserOf(s) \in user_directories_ \/ files[UserOf(s)][EmptyName] = NoFile
  /\ user_directories_' = user_directories_ \cup {UserOf(s)}
  /\ directories' = IF UserOf(s) \in user_directories_
                      THEN directories
                      ELSE directories \cup {UserOf(s)}
  /\ UNCHANGED <<files, mutex_, user_mutex_, request, response, restarts, promised>>

(* Variant: the mutex is not released when create_directory throws. *)
AddUserFailsLocked(s) ==
  /\ Goto(s, "findUser", "sending")
  /\ request[s].op = "BACKUP_FILE"
  /\ UserOf(s) \notin user_directories_ /\ files[UserOf(s)][EmptyName] # NoFile
  /\ response' = [response EXCEPT ![s] = ServerError]
  /\ UNCHANGED <<disk, memory, request, restarts, promised>>

(* Variant: create_directory also throws when the directory is there.      *)
AddUserFailsOnDirectory(s) ==
  /\ Leave(s, "findUser", ServerError)
  /\ request[s].op = "BACKUP_FILE"
  /\ UserOf(s) \notin user_directories_
  /\ files[UserOf(s)][EmptyName] # NoFile \/ UserOf(s) \in directories
  /\ UNCHANGED <<disk, promised>>

(* create_directory throws: a plain file has the name of the directory.    *)
AddUserFails(s) ==
  /\ Leave(s, "findUser", ServerError)
  /\ request[s].op = "BACKUP_FILE"
  /\ UserOf(s) \notin user_directories_ /\ files[UserOf(s)][EmptyName] # NoFile
  /\ UNCHANGED <<disk, promised>>

(* get_user_directory and get_mutable_user_directory find the user.        *)
FindUser(s) ==
  /\ Goto(s, "findUser", "lockDirectory")
  /\ request[s].op # "BACKUP_FILE"
  /\ UserOf(s) \in user_directories_
  /\ UNCHANGED <<disk, memory, request, response, restarts, promised>>

(* They throw BackupDirectoryForUserNotFound, which only listFiles catches.*)
UserNotFound(s) ==
  /\ Leave(s, "findUser", IF request[s].op = "LIST_FILES"
                            THEN NoBackupFilesForClient
                            ELSE ServerError)
  /\ request[s].op # "BACKUP_FILE"
  /\ UserOf(s) \notin user_directories_
  /\ UNCHANGED <<disk, promised>>

-----------------------------------------------------------------------------
(* UserBackupDirectory *)

LockDirectory(s) ==
  /\ Goto(s, "lockDirectory",
          IF request[s].op = "LIST_FILES" THEN "listDirectory" ELSE "checkFile")
  /\ user_mutex_[UserOf(s)] = NoSession
  /\ user_mutex_' = [user_mutex_ EXCEPT ![UserOf(s)] = s]
  /\ UNCHANGED <<disk, user_directories_, mutex_, request, response, restarts, promised>>

(* The step that follows a check of bfs::exists that went well. *)
AfterCheck(op) ==
  CASE op = "BACKUP_FILE"  -> "openFile"
    [] op = "RESTORE_FILE" -> "readFile"
    [] op = "DELETE_FILE"  -> "removeFile"

(* Variant: without the check. *)
CheckNothing(s) ==
  /\ Goto(s, "checkFile", AfterCheck(request[s].op))
  /\ UNCHANGED <<disk, memory, request, response, restarts, promised>>

(* backup_file wants the file absent, the other operations want it there.  *)
CheckSucceeds(s) ==
  /\ Goto(s, "checkFile", AfterCheck(request[s].op))
  /\ Exists(UserOf(s), NameOf(s)) <=> request[s].op # "BACKUP_FILE"
  /\ UNCHANGED <<disk, memory, request, response, restarts, promised>>

(* FileAlreadyExistsException, or FileNotFoundException, which only        *)
(* restoreFile catches.                                                    *)
CheckFails(s) ==
  /\ Leave(s, "checkFile", IF request[s].op = "RESTORE_FILE"
                             THEN FileNotFound(NameOf(s))
                             ELSE ServerError)
  /\ Exists(UserOf(s), NameOf(s)) <=> request[s].op = "BACKUP_FILE"
  /\ UNCHANGED <<disk, promised>>

(* Variant: the mutexes cover the check and the creation of the file, not  *)
(* the writing of its payload.                                             *)
OpenFileUnlocks(s) ==
  /\ Goto(s, "openFile", "writeFile")
  /\ SetFile(UserOf(s), NameOf(s), [payload |-> request[s].payload, complete |-> FALSE])
  /\ Unlock(s)
  /\ UNCHANGED <<directories, user_directories_, request, response, restarts, promised>>

(* write_to_file constructs the ofstream, which creates an empty file.     *)
(* When the stream fails to open nobody looks.                             *)
OpenFile(s) ==
  LET u == UserOf(s)
      n == NameOf(s)
  IN  /\ Goto(s, "openFile", "writeFile")
      /\ IF CanCreate(u, n)
           THEN SetFile(u, n, [payload |-> request[s].payload, complete |-> FALSE])
           ELSE UNCHANGED files
      /\ UNCHANGED <<directories, memory, request, response, restarts, promised>>

(* Variant: a write that goes on for ever. *)
WriteFileForever(s) == pc[s] = "writeFile" /\ UNCHANGED vars

(* Variant: the ofstream is not destroyed before the response. *)
WriteFileUnflushed(s) ==
  /\ Goto(s, "writeFile", "closeFile")
  /\ UNCHANGED <<disk, memory, request, response, restarts, promised>>

(* The bytes go through the buffer of the stream to the disk, the last of  *)
(* them when the ofstream is destroyed.  On a disk that fills up they may  *)
(* not all get there.                                                      *)
WriteFile(s) ==
  LET u == UserOf(s)
      n == NameOf(s)
  IN  /\ Goto(s, "writeFile", "closeFile")
      /\ \E written \in {TRUE} \cup {~DiskMayFill} :
           IF files[u][n] = NoFile
             THEN UNCHANGED files
             ELSE SetFile(u, n, [payload |-> request[s].payload, complete |-> written])
      /\ UNCHANGED <<directories, memory, request, response, restarts, promised>>

(* write_to_file and backup_file return.  The state of the stream is never *)
(* tested: whatever reached the disk, backupFile answers with success.     *)
FinishBackup(s) ==
  /\ Leave(s, "closeFile", SuccessfulBackupOrDelete(NameOf(s)))
  /\ promised' = [promised EXCEPT ![UserOf(s)][NameOf(s)] = request[s].payload]
  /\ UNCHANGED disk

(* read_from_file.  Reading the directory itself throws.                   *)
ReadFile(s) ==
  LET u == UserOf(s)
      n == NameOf(s)
  IN  /\ Leave(s, "readFile", IF IsDirectory(u, n)
                                THEN ServerError
                                ELSE SuccessfulRestore(n, files[u][n]))
      /\ UNCHANGED <<disk, promised>>

(* Variant: the directory is emptied for one file. *)
RemoveAllFiles(s) ==
  LET u == UserOf(s)
      n == NameOf(s)
  IN  /\ Leave(s, "removeFile", SuccessfulBackupOrDelete(n))
      /\ ~IsDirectory(u, n)
      /\ files' = [files EXCEPT ![u] = [m \in DOMAIN @ |-> NoFile]]
      /\ promised' = [promised EXCEPT ![u][n] = NoFile]
      /\ UNCHANGED directories

(* bfs::remove of a file.  It returns false, and delete_file throws        *)
(* FailedToDeleteFileException, when the file has gone since the check.    *)
RemoveFile(s) ==
  LET u == UserOf(s)
      n == NameOf(s)
  IN  /\ Leave(s, "removeFile", IF files[u][n] # NoFile
                                  THEN SuccessfulBackupOrDelete(n)
                                  ELSE ServerError)
      /\ ~IsDirectory(u, n)
      /\ SetFile(u, n, NoFile)
      /\ promised' = [promised EXCEPT ![u][n] = NoFile]
      /\ UNCHANGED directories

(* Variant: remove_all in the place of remove. *)
RemoveDirectoryAndFiles(s) ==
  LET u == UserOf(s)
  IN  /\ Leave(s, "removeFile", SuccessfulBackupOrDelete(NameOf(s)))
      /\ IsDirectory(u, NameOf(s))
      /\ directories' = directories \ {u}
      /\ files' = [files EXCEPT ![u] = [n \in DOMAIN @ |-> NoFile]]
      /\ UNCHANGED promised

(* bfs::remove of the directory itself, for the empty filename: it removes *)
(* a directory that is empty and throws on one that is not.                *)
RemoveDirectory(s) ==
  LET u == UserOf(s)
      n == NameOf(s)
  IN  /\ Leave(s, "removeFile", IF FilesOf(u) = {}
                                  THEN SuccessfulBackupOrDelete(n)
                                  ELSE ServerError)
      /\ IsDirectory(u, n)
      /\ directories' = IF FilesOf(u) = {} THEN directories \ {u} ELSE directories
      /\ UNCHANGED <<files, promised>>

(* get_backup_filenames iterates over the directory, and throws when it is *)
(* not there.                                                              *)
ListDirectory(s) ==
  /\ pc[s] = "listDirectory"
  /\ \/ /\ UserOf(s) \in directories
        /\ \E ns \in Enumerations(FilesOf(UserOf(s))) :
             Leave(s, "listDirectory", SuccessfulListFiles(ns))
     \/ /\ UserOf(s) \notin directories
        /\ Leave(s, "listDirectory", ServerError)
  /\ UNCHANGED <<disk, promised>>

-----------------------------------------------------------------------------
(* The process dies at any point, or serve_requests leaves its loop with   *)
(* an exception of accept or of the thread constructor and main returns.   *)
(* It is then started again: the map and the mutexes are new, the disk is  *)
(* as it was.                                                              *)
Restart ==
  /\ restarts < MaxRestarts
  /\ restarts' = restarts + 1
  /\ user_directories_' = {}
  /\ mutex_' = NoSession
  /\ user_mutex_' = [u \in Users |-> NoSession]
  /\ pc' = [s \in Sessions |-> "idle"]
  /\ request' = [s \in Sessions |-> NoRequest]
  /\ response' = [s \in Sessions |-> NoResponse]
  /\ UNCHANGED <<disk, promised>>

(* The steps a session takes inside the manager, which wait on no peer.    *)
Handle(s) ==
  \/ AddUser(s) \/ AddUserFails(s) \/ FindUser(s) \/ UserNotFound(s)
  \/ LockDirectory(s)
  \/ CheckSucceeds(s) \/ CheckFails(s)
  \/ OpenFile(s) \/ WriteFile(s) \/ FinishBackup(s)
  \/ ReadFile(s) \/ RemoveFile(s) \/ RemoveDirectory(s) \/ ListDirectory(s)

Next ==
  \/ \E s \in Sessions :
       \/ Accept(s)
       \/ \E r \in Requests : ReadRequest(s, r)
       \/ RejectRequest(s) \/ LoseClient(s)
       \/ LockManager(s)
       \/ Handle(s)
       \/ SendResponse(s) \/ FailToSend(s)
  \/ Restart

Spec == Init /\ [][Next]_vars

(* The operating system runs every thread that is not blocked, and gives a *)
(* free mutex to one of those that wait for it.  Nothing is assumed of     *)
(* clients: reading and sending may block for ever.                        *)
Fairness ==
  \A s \in Sessions : WF_vars(Handle(s)) /\ WF_vars(LockManager(s))

FairSpec == Spec /\ Fairness

-----------------------------------------------------------------------------
(* Properties *)

(* Every variable has a value its C++ declaration allows. *)
TypeOK ==
  /\ directories \subseteq Users
  /\ files \in [Users -> [Filenames \cup {EmptyName} -> Contents \cup {NoFile}]]
  /\ user_directories_ \subseteq Users
  /\ mutex_ \in Sessions \cup {NoSession}
  /\ user_mutex_ \in [Users -> Sessions \cup {NoSession}]
  /\ pc \in [Sessions -> Phases]
  /\ request \in [Sessions -> Requests \cup {NoRequest}]
  /\ response \in [Sessions -> Responses \cup {NoResponse}]
  /\ restarts \in 0 .. MaxRestarts
  /\ promised \in [Users -> [Filenames \cup {EmptyName} -> Payloads \cup {NoFile}]]

(* The mutex_ of the manager is held exactly by the session inside it, and *)
(* the mutex_ of a directory exactly by the session that works on it, so a *)
(* session never waits for the second mutex while it holds the first, and  *)
(* no path out of a handler, by return or by exception, leaves one locked. *)
MutexesAreNested ==
  \A s \in Sessions :
    /\ pc[s] \in ManagerPhases <=> mutex_ = s
    /\ \A u \in Users :
         user_mutex_[u] = s <=> pc[s] \in DirectoryPhases /\ UserOf(s) = u

(* What a successful backup response promised, and no successful delete    *)
(* has taken back, is on disk, whole and with the promised payload,        *)
(* whatever other sessions do and however often the server crashes.  A     *)
(* session that is deleting the file has not decided yet.                  *)
PromisedFilesAreOnDisk ==
  \A u \in Users : \A n \in Filenames \cup {EmptyName} :
    promised[u][n] # NoFile =>
      files[u][n] = [payload |-> promised[u][n], complete |-> TRUE]

(* A file that is half written is never handed out: the content of a       *)
(* restore response is whole, unless a crash has left the file torn.       *)
NoTornRead ==
  \A s \in Sessions :
    response[s].op = "SUCCESSFUL_RESTORE" =>
      response[s].content.complete \/ restarts > 0

(* A whole file only ever changes by disappearing, and only under the      *)
(* mutexes of a session that handles a request to delete it: backups never *)
(* overwrite, and nothing a session does touches another file.             *)
FilesChangeOnlyByDelete ==
  \A u \in Users : \A n \in Filenames \cup {EmptyName} :
    files[u][n] # NoFile /\ files[u][n].complete /\ files'[u][n] # files[u][n] =>
      /\ files'[u][n] = NoFile
      /\ \E s \in Sessions :
           /\ mutex_ = s /\ user_mutex_[u] = s
           /\ request[s] = [op |-> "DELETE_FILE", user |-> u, name |-> n]

StoredFilesAreImmutable == [][FilesChangeOnlyByDelete]_vars

(* A session that holds the mutex_ of the manager gives it up, whatever    *)
(* the clients do.                                                         *)
MutexIsReleased == \A s \in Sessions : mutex_ = s ~> mutex_ # s

(* A request waits for ever only when others are served for ever: neither  *)
(* a client that stops reading its response nor one that stops sending its *)
(* request keeps another out of the manager.                               *)
OnlyOvertakingDelays ==
  \A s \in Sessions :
    <>[](pc[s] = "lockManager") =>
      []<>(mutex_ = NoSession) /\ []<>(\E t \in Sessions \ {s} : pc[t] \in ManagerPhases)
=============================================================================
