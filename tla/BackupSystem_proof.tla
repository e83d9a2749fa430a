------------------------- MODULE BackupSystem_proof -------------------------
(***************************************************************************)
(* Theorems about BackupSystem, for any number of client processes and     *)
(* threads, any files and any user ids they draw.                          *)
(*                                                                         *)
(* They rest on what is proved of the server alone: P is the server with   *)
(* its theorems, P!Store the store that it implements.                     *)
(***************************************************************************)
EXTENDS BackupSystem, FiniteSetTheorems, TLAPS

P == INSTANCE BackupRefinement_proof WITH Sessions <- Clients

(* The server is given constants that meet its assumptions. *)
LEMMA ServerIsInstantiated ==
  /\ EmptyName \notin Filenames
  /\ Names \subseteq Filenames \cup {EmptyName}
  /\ P!IsFiniteSet(Filenames)
  /\ NoFile \notin P!Contents /\ NoFile \notin Payloads
  /\ NoSession \notin Clients
  /\ DiskMayFill \in BOOLEAN
  /\ MaxRestarts \in Nat
<1>1. P!IsFiniteSet(Filenames) <=> IsFiniteSet(Filenames)
  BY DEF IsFiniteSet, P!IsFiniteSet
<1>2. P!Contents = Contents
  BY DEF Contents, P!Contents
<1> QED
  BY <1>1, <1>2, MessagesAssumption, ClientAssumption

(* The words of the protocol are the same for everybody. *)
LEMMA WordsAgree ==
  /\ P!NoRequest = NoRequest /\ P!Store!NoRequest = NoRequest
  /\ Client!NoRequest = NoRequest /\ Server!NoRequest = NoRequest
  /\ P!NoResponse = NoResponse /\ P!Store!NoResponse = NoResponse
  /\ Client!NoResponse = NoResponse /\ Server!NoResponse = NoResponse
  /\ P!Requests = Requests /\ P!Store!Requests = Requests
  /\ P!Responses = Responses /\ Server!Responses = Responses /\ Server!Requests = Requests
  BY DEF NoRequest, P!NoRequest, P!Store!NoRequest, Client!NoRequest, Server!NoRequest,
         NoResponse, P!NoResponse, P!Store!NoResponse, Client!NoResponse, Server!NoResponse,
         Requests, BackupRequests, NamedRequests, ListRequests,
         P!Requests, P!BackupRequests, P!NamedRequests, P!ListRequests,
         P!Store!Requests, P!Store!BackupRequests, P!Store!NamedRequests, P!Store!ListRequests,
         Server!Requests, Server!BackupRequests, Server!NamedRequests, Server!ListRequests,
         Responses, ServerError, NoBackupFilesForClient, Contents,
         P!Responses, P!ServerError, P!NoBackupFilesForClient, P!Contents,
         Server!Responses, Server!ServerError, Server!NoBackupFilesForClient, Server!Contents

(* The server of the system is the one that the theorems are about. *)
LEMMA SameInit == Server!Init <=> P!Init
  BY WordsAgree DEF Server!Init, P!Init

(* So are the steps of a thread that accepts, reads and answers. *)
LEMMA SameSteps ==
  ASSUME NEW c \in Clients
  PROVE  /\ Server!Accept(c) <=> P!Accept(c)
         /\ \A r : Server!ReadRequest(c, r) <=> P!ReadRequest(c, r)
         /\ Server!LoseClient(c) <=> P!LoseClient(c)
         /\ Server!SendResponse(c) <=> P!SendResponse(c)
         /\ Server!FailToSend(c) <=> P!FailToSend(c)
         /\ Server!LockManager(c) <=> P!LockManager(c)
  BY WordsAgree
     DEF Server!Accept, P!Accept, Server!ReadRequest, P!ReadRequest, Server!LoseClient,
         P!LoseClient, Server!SendResponse, P!SendResponse, Server!FailToSend, P!FailToSend,
         Server!EndSession, P!EndSession, Server!LockManager, P!LockManager, Server!Goto, P!Goto,
         Server!disk, P!disk, Server!memory, P!memory

(* And the crash of the process. *)
LEMMA SameRestart == Server!Restart <=> P!Restart
  BY WordsAgree DEF Server!Restart, P!Restart, Server!disk, P!disk

(* And the steps of a thread inside the manager. *)
LEMMA SameHandle ==
  ASSUME NEW c \in Clients
  PROVE  Server!Handle(c) <=> P!Handle(c)
<1>1. \A from, r : Server!Leave(c, from, r) <=> P!Leave(c, from, r)
  BY DEF Server!Leave, P!Leave, Server!Goto, P!Goto, Server!Unlock, P!Unlock
<1>2. /\ Server!ServerError = P!ServerError
      /\ Server!NoBackupFilesForClient = P!NoBackupFilesForClient
      /\ \A n : Server!FileNotFound(n) = P!FileNotFound(n)
      /\ \A n : Server!SuccessfulBackupOrDelete(n) = P!SuccessfulBackupOrDelete(n)
      /\ \A n, k : Server!SuccessfulRestore(n, k) = P!SuccessfulRestore(n, k)
      /\ \A ns : Server!SuccessfulListFiles(ns) = P!SuccessfulListFiles(ns)
  BY DEF Server!ServerError, P!ServerError, Server!NoBackupFilesForClient,
         P!NoBackupFilesForClient, Server!FileNotFound, P!FileNotFound,
         Server!SuccessfulBackupOrDelete, P!SuccessfulBackupOrDelete,
         Server!SuccessfulRestore, P!SuccessfulRestore, Server!SuccessfulListFiles,
         P!SuccessfulListFiles
<1>3. /\ Server!AddUser(c) <=> P!AddUser(c)
      /\ Server!FindUser(c) <=> P!FindUser(c)
      /\ Server!LockDirectory(c) <=> P!LockDirectory(c)
  BY DEF Server!AddUser, P!AddUser, Server!FindUser, P!FindUser, Server!LockDirectory,
         P!LockDirectory, Server!Goto, P!Goto, Server!UserOf, P!UserOf, Server!disk, P!disk,
         Server!memory, P!memory
<1>4. /\ Server!AddUserFails(c) <=> P!AddUserFails(c)
      /\ Server!UserNotFound(c) <=> P!UserNotFound(c)
  BY <1>1, <1>2
     DEF Server!AddUserFails, P!AddUserFails, Server!UserNotFound, P!UserNotFound,
         Server!UserOf, P!UserOf, Server!disk, P!disk
<1>5. Server!CheckSucceeds(c) <=> P!CheckSucceeds(c)
  BY DEF Server!CheckSucceeds, P!CheckSucceeds, Server!AfterCheck, P!AfterCheck, Server!Goto,
         P!Goto, Server!Exists, P!Exists, Server!IsDirectory, P!IsDirectory, Server!UserOf,
         P!UserOf, Server!NameOf, P!NameOf, Server!disk, P!disk, Server!memory, P!memory
<1>6. Server!CheckFails(c) <=> P!CheckFails(c)
  BY <1>1, <1>2
     DEF Server!CheckFails, P!CheckFails, Server!Exists, P!Exists, Server!IsDirectory,
         P!IsDirectory, Server!UserOf, P!UserOf, Server!NameOf, P!NameOf, Server!disk, P!disk
<1>7. Server!OpenFile(c) <=> P!OpenFile(c)
  BY DEF Server!OpenFile, P!OpenFile, Server!Goto, P!Goto, Server!CanCreate, P!CanCreate,
         Server!SetFile, P!SetFile, Server!UserOf, P!UserOf, Server!NameOf, P!NameOf,
         Server!memory, P!memory
<1>8. Server!WriteFile(c) <=> P!WriteFile(c)
  BY DEF Server!WriteFile, P!WriteFile, Server!Goto, P!Goto, Server!SetFile, P!SetFile,
         Server!UserOf, P!UserOf, Server!NameOf, P!NameOf, Server!memory, P!memory
<1>9. /\ Server!FinishBackup(c) <=> P!FinishBackup(c)
      /\ Server!ReadFile(c) <=> P!ReadFile(c)
  BY <1>1, <1>2
     DEF Server!FinishBackup, P!FinishBackup, Server!ReadFile, P!ReadFile, Server!IsDirectory,
         P!IsDirectory, Server!UserOf, P!UserOf, Server!NameOf, P!NameOf, Server!disk, P!disk
<1>10. /\ Server!RemoveFile(c) <=> P!RemoveFile(c)
       /\ Server!RemoveDirectory(c) <=> P!RemoveDirectory(c)
  BY <1>1, <1>2
     DEF Server!RemoveFile, P!RemoveFile, Server!RemoveDirectory, P!RemoveDirectory,
         Server!SetFile, P!SetFile, Server!IsDirectory, P!IsDirectory, Server!FilesOf,
         P!FilesOf, Server!UserOf, P!UserOf, Server!NameOf, P!NameOf
<1>11. Server!ListDirectory(c) <=> P!ListDirectory(c)
  <2>1. \A S : Server!Cardinality(S) = P!Cardinality(S)
    BY Zenon DEF Server!Cardinality, P!Cardinality
  <2>2. \A S : Server!Enumerations(S) = P!Enumerations(S)
    BY <2>1 DEF Server!Enumerations, P!Enumerations
  <2>3. \A u : Server!FilesOf(u) = P!FilesOf(u)
    BY DEF Server!FilesOf, P!FilesOf
  <2> QED
    BY <1>1, <1>2, <2>2, <2>3
       DEF Server!ListDirectory, P!ListDirectory, Server!UserOf, P!UserOf, Server!disk, P!disk
<1> QED
  BY <1>3, <1>4, <1>5, <1>6, <1>7, <1>8, <1>9, <1>10, <1>11 DEF Server!Handle, P!Handle

(* The type invariant of the server, too. *)
LEMMA SameTypes == Server!TypeOK <=> P!TypeOK
  BY WordsAgree
     DEF Server!TypeOK, P!TypeOK, Server!Contents, P!Contents, Server!Phases, P!Phases,
         Server!HandlerPhases, P!HandlerPhases, Server!ManagerPhases, P!ManagerPhases,
         Server!DirectoryPhases, P!DirectoryPhases

-----------------------------------------------------------------------------
(* The store that the clients share. *)
store == P!storeBar

First    == backup_info[1]
Second   == backup_info[2]
Whole(n) == [payload |-> PayloadOf[n], complete |-> TRUE]

(* The request that main() is at, and that there is one. *)
Asked(c)  == Client!RequestAt(user_id[c], step[c])
MayAsk(c) ==
  step[c] > 0 /\ server_info = "valid" /\ ~Client!MissesFile(c) /\ ~Client!Unread(c)

(* The response to it, on its way or arrived. *)
Reply(c) == IF inbox[c] # NoResponse THEN inbox[c] ELSE response[c]

(* main() is past its request k, or has a response that gets it there. *)
Past(c, k) == step[c] > k \/ (step[c] = k /\ Reply(c).op = Client!ExpectedOp(k))

(* main() gets no further than the two configuration files let it. *)
ConfigSuffices ==
  \A c \in Clients :
    /\ step[c] > 0 => backup_info # Unreadable /\ server_info \in {"valid", "elsewhere"}
    /\ step[c] > 1 => server_info = "valid"
    /\ \A i \in {1, 2} :
         step[c] > i + 1 => i \in DOMAIN backup_info /\ backup_info[i] \in DOMAIN PayloadOf
    /\ link[c] # "closed" => step[c] > 0 /\ server_info = "valid" /\ ~Client!MissesFile(c)
    /\ link[c] = "waiting" => MayAsk(c)
    /\ outcome[c] = "finished" => step[c] = Client!LastStep

(* A request is in one place at a time, and is the one that main() is at.  *)
ExchangesMatch ==
  \A c \in Clients :
    /\ outcome[c] # "running" => link[c] = "closed"
    /\ link[c] \in {"open", "broken"} \/ (link[c] = "closed" /\ outcome[c] = "running") =>
         outbox[c] = NoRequest /\ request[c] = NoRequest
    /\ outbox[c] # NoRequest => outbox[c] = Asked(c) /\ MayAsk(c) /\ request[c] = NoRequest
    /\ request[c] # NoRequest => request[c] = Asked(c) /\ MayAsk(c) /\ outbox[c] = NoRequest
    /\ response[c] # NoResponse => request[c] # NoRequest
    /\ inbox[c] # NoResponse =>
         link[c] = "waiting" /\ outbox[c] = NoRequest /\ request[c] = NoRequest

(* The files in the store are the local files of backup.info. *)
StoreHoldsBackups ==
  \A u \in Users, n \in Names :
    store[u][n] # NoFile =>
      /\ backup_info # Unreadable
      /\ \E i \in {1, 2} \cap DOMAIN backup_info : n = backup_info[i]
      /\ n \in DOMAIN PayloadOf /\ store[u][n].payload = PayloadOf[n]

(* The backups of a process stay until one of its user id deletes the      *)
(* first, and of those only one gets past its second backup.               *)
BackupsStay ==
  \A c \in Clients :
    /\ Past(c, 2) =>
         \/ store[user_id[c]][First] = Whole(First)
         \/ \E d \in Clients : user_id[d] = user_id[c] /\ step[d] > 5
    /\ Past(c, 3) =>
         /\ First # Second /\ store[user_id[c]][Second] = Whole(Second)
         /\ \A d \in Clients : user_id[d] = user_id[c] /\ Past(d, 3) => d = c

(* What main() finds in the responses it looks into. *)
AnswersAreRight ==
  \A c \in Clients :
    /\ step[c] = 4 /\ Reply(c).op = "SUCCESSFUL_LIST_FILES" =>
         /\ Len(Reply(c).names) <= 2
         /\ Len(Reply(c).names) = 2 => Reply(c).names[1] # Reply(c).names[2]
    /\ step[c] > 4 => Len(backup_info) = 2 /\ First # Second
    /\ step[c] = 5 /\ Reply(c).op = "SUCCESSFUL_RESTORE" => Reply(c).content = Whole(First)
    /\ outcome[c] # "AssertContent"

(* The response is the one that main() expects. *)
Expected(c) ==
  IF step[c] \in {1, Client!LastStep} THEN Client!IsError(Reply(c))
                                      ELSE Reply(c).op = Client!ExpectedOp(step[c])

(* As long as there is no crash the server knows of a process that is      *)
(* alone with its user id what that process has told it.                   *)
Tracks(c) ==
  /\ user_id[c] \in user_directories_ => step[c] > 1
  /\ Past(c, 2) => user_id[c] \in user_directories_
  /\ store[user_id[c]][First] # NoFile <=> Past(c, 2) /\ ~Past(c, 6)
  /\ store[user_id[c]][Second] # NoFile <=> Past(c, 3)
  /\ Reply(c) # NoResponse => Expected(c)

AloneIsTracked ==
  \A c \in Clients :
    /\ restarts = 0 /\ Alone(c) /\ WellConfigured
    /\ outcome[c] \in {"running", "finished"}
    => Tracks(c)

(* Nothing but a crash stops the server and breaks connections. *)
Undisturbed == restarts = 0 => serving /\ \A c \in Clients : link[c] # "broken"

-----------------------------------------------------------------------------
(* What main() does.                                                       *)

(* A step that leaves a process where it is leaves it with its request.    *)
LEMMA Unmoved ==
  ASSUME NEW c \in Clients, UNCHANGED <<backup_info, server_info, user_id>>, step'[c] = step[c]
  PROVE  /\ Asked(c)' = Asked(c)
         /\ MayAsk(c)' <=> MayAsk(c)
         /\ Client!MissesFile(c)' <=> Client!MissesFile(c)
         /\ Client!Unread(c)' <=> Client!Unread(c)
  BY DEF Asked, MayAsk, Client!RequestAt, Client!MissesFile, Client!Unread, Client!BacksUp

(* How main() takes the response r to its request k. *)
LEMMA Results ==
  ASSUME NEW k \in 1 .. 7, NEW r
  PROVE  /\ Client!Result(k, r) \in Client!Outcomes
         /\ Client!Result(k, r) = "running" =>
              /\ k < 7
              /\ k # 1 => r.op = Client!ExpectedOp(k)
              /\ k = 4 => r.names = backup_info
         /\ Client!Result(k, r) = "finished" => k = 7
         /\ Client!Result(k, r) = "AssertContent" =>
              k = 5 /\ r.op = "SUCCESSFUL_RESTORE" /\ r.content # Whole(First)
<1>1. k = 1 \/ k = 2 \/ k = 3 \/ k = 4 \/ k = 5 \/ k = 6 \/ k = 7
  OBVIOUS
<1>2. CASE Client!IsError(r)
  BY <1>2 DEF Client!Result, Client!ResultWith, Client!LastStep, Client!Outcomes, Client!IsError
<1>3. CASE ~Client!IsError(r) /\ r.op # Client!ExpectedOp(k)
  BY <1>3 DEF Client!Result, Client!ResultWith, Client!LastStep, Client!Outcomes
<1>4. CASE ~Client!IsError(r) /\ r.op = Client!ExpectedOp(k)
  BY <1>1, <1>4 DEF Client!Result, Client!ResultWith, Client!LastStep, Client!Outcomes,
                    Client!ExpectedOp, Whole, First
<1> QED
  BY <1>2, <1>3, <1>4

(* The request of a process that may ask is one of the protocol. *)
LEMMA AskedIsRequest ==
  ASSUME NEW c \in Clients, user_id \in [Clients -> Users], step \in [Clients -> 0 .. 7],
         backup_info \in BackupInfos, ConfigSuffices, MayAsk(c)
  PROVE  Asked(c) \in Requests
<1>1. backup_info \in Seq(Names)
  BY ClientAssumption DEF ConfigSuffices, MayAsk
<1>2. \A n \in DOMAIN PayloadOf : PayloadOf[n] \in Payloads
  BY ClientAssumption DEF Range
<1>3. step[c] = 1 \/ step[c] = 2 \/ step[c] = 3 \/ step[c] = 4 \/ step[c] = 5 \/ step[c] = 6
      \/ step[c] = 7
  BY DEF MayAsk
<1>4. \A i \in {1, 2} : step[c] > i => i \in DOMAIN backup_info /\ backup_info[i] \in DOMAIN PayloadOf
  BY DEF ConfigSuffices, MayAsk, Client!MissesFile, Client!Unread, Client!BacksUp
<1>5. \A i \in {1, 2} : step[c] > i => backup_info[i] \in Names /\ PayloadOf[backup_info[i]] \in Payloads
  BY <1>1, <1>2, <1>4
<1> QED
  BY <1>3, <1>5
     DEF Asked, Client!RequestAt, Requests, BackupRequests, NamedRequests, ListRequests

-----------------------------------------------------------------------------
(* The system takes steps of the server only. *)

ClientTypes ==
  /\ backup_info \in BackupInfos /\ server_info \in ServerInfos
  /\ user_id \in [Clients -> Users]
  /\ step \in [Clients -> 0 .. 7]
  /\ link \in [Clients -> {"closed", "open", "waiting", "broken"}]
  /\ outbox \in [Clients -> Requests \cup {NoRequest}]
  /\ inbox \in [Clients -> Responses \cup {NoResponse}]
  /\ outcome \in [Clients -> Client!Outcomes]

(* What threads do inside the manager leaves the requests alone, and       *)
(* decides on the response of a request that has none yet.                 *)
LEMMA ServeEffect ==
  ASSUME P!Inv, P!RefinementInv, NEW c \in Clients, Serve(c)
  PROVE  /\ UNCHANGED <<request, clientVars, serving, restarts>>
         /\ request[c] # NoRequest /\ response[c] = NoResponse
         /\ \E r : response' = [response EXCEPT ![c] = r]
<1>1. P!LockManager(c) \/ P!Handle(c)
  BY SameSteps, SameHandle DEF Serve
<1>2. pc[c] \in P!HandlerPhases
  BY <1>1
     DEF P!LockManager, P!Handle, P!AddUser, P!AddUserFails, P!FindUser, P!UserNotFound,
         P!LockDirectory, P!CheckSucceeds, P!CheckFails, P!OpenFile, P!WriteFile,
         P!FinishBackup, P!ReadFile, P!RemoveFile, P!RemoveDirectory, P!ListDirectory,
         P!Leave, P!Goto, P!HandlerPhases, P!ManagerPhases, P!DirectoryPhases
<1>3. request[c] # NoRequest
  <2>1. request[c] \in Requests
    BY <1>2, WordsAgree DEF P!Inv, P!RequestFitsPhase
  <2>2. \A r \in Requests : r.op # "NONE"
    BY DEF Requests, BackupRequests, NamedRequests, ListRequests
  <2> QED
    BY <2>1, <2>2 DEF NoRequest
<1>4. response[c] = NoResponse
  BY <1>2, WordsAgree
     DEF P!RefinementInv, P!ResponsesAreDecided, P!HandlerPhases, P!ManagerPhases,
         P!DirectoryPhases
<1>5. UNCHANGED <<request, restarts>>
  BY <1>1
     DEF P!LockManager, P!Handle, P!AddUser, P!AddUserFails, P!FindUser, P!UserNotFound,
         P!LockDirectory, P!CheckSucceeds, P!CheckFails, P!OpenFile, P!WriteFile,
         P!FinishBackup, P!ReadFile, P!RemoveFile, P!RemoveDirectory, P!ListDirectory,
         P!Leave, P!memory
<1>6. response' = response \/ \E r : response' = [response EXCEPT ![c] = r]
  BY <1>1
     DEF P!LockManager, P!Handle, P!AddUser, P!AddUserFails, P!FindUser, P!UserNotFound,
         P!LockDirectory, P!CheckSucceeds, P!CheckFails, P!OpenFile, P!WriteFile,
         P!FinishBackup, P!ReadFile, P!RemoveFile, P!RemoveDirectory, P!ListDirectory,
         P!Leave, P!memory
<1>7. response' = response => response' = [response EXCEPT ![c] = response[c]]
  BY DEF P!Inv, P!TypeOK
<1> QED
  BY <1>3, <1>4, <1>5, <1>6, <1>7 DEF Serve

(* What the other steps of a thread do. *)
LEMMA ThreadEffects ==
  ASSUME P!Inv, P!RefinementInv, NEW c \in Clients
  PROVE  /\ Accept(c) => UNCHANGED <<request, response, restarts>>
         /\ ReadRequest(c) =>
              /\ request' = [request EXCEPT ![c] = outbox[c]]
              /\ request[c] = NoRequest /\ outbox[c] # NoRequest
              /\ UNCHANGED <<response, restarts>>
         /\ Respond(c) \/ FindClientGone(c) =>
              /\ request' = [request EXCEPT ![c] = NoRequest]
              /\ response' = [response EXCEPT ![c] = NoResponse]
              /\ UNCHANGED <<restarts>>
         /\ Respond(c) => response[c] # NoResponse
         /\ Crash =>
              /\ request' = [d \in Clients |-> NoRequest]
              /\ response' = [d \in Clients |-> NoResponse]
              /\ restarts' = restarts + 1 /\ restarts \in Nat
<1>1. Accept(c) => UNCHANGED <<request, response, restarts>>
  BY SameSteps DEF Accept, P!Accept
<1>2. ReadRequest(c) =>
        /\ request' = [request EXCEPT ![c] = outbox[c]]
        /\ request[c] = NoRequest /\ outbox[c] # NoRequest
        /\ UNCHANGED <<response, restarts>>
  BY SameSteps, WordsAgree
     DEF ReadRequest, P!ReadRequest, P!Goto, P!RefinementInv, P!ResponsesAreDecided
<1>3. Respond(c) \/ FindClientGone(c) =>
        /\ request' = [request EXCEPT ![c] = NoRequest]
        /\ response' = [response EXCEPT ![c] = NoResponse]
        /\ UNCHANGED <<restarts>>
  BY SameSteps, WordsAgree
     DEF Respond, FindClientGone, P!SendResponse, P!LoseClient, P!FailToSend, P!EndSession
<1>4. Respond(c) => response[c] # NoResponse
  BY SameSteps, WordsAgree
     DEF Respond, P!SendResponse, P!EndSession, P!Goto, P!RefinementInv, P!ResponsesAreDecided
<1>5. Crash =>
        /\ request' = [d \in Clients |-> NoRequest]
        /\ response' = [d \in Clients |-> NoResponse]
        /\ restarts' = restarts + 1 /\ restarts \in Nat
  BY SameRestart, WordsAgree, ClientAssumption DEF Crash, P!Restart, P!Inv, P!TypeOK
<1> QED
  BY <1>1, <1>2, <1>3, <1>4, <1>5

(* Steps of processes are none of the server.                              *)
LEMMA StepsOfServer ==
  ASSUME ClientTypes, [Next]_vars
  PROVE  [P!Next]_P!vars
<1>1. ASSUME NEW c \in Clients, ServerSteps(c) PROVE P!Next
  <2>1. ASSUME ReadRequest(c) PROVE \E r \in P!Requests : P!ReadRequest(c, r)
    BY <2>1, SameSteps, WordsAgree DEF ReadRequest, ClientTypes
  <2> QED
    BY <1>1, <2>1, SameSteps, SameHandle
       DEF ServerSteps, Accept, Serve, Respond, FindClientGone, P!Next
<1>2. ASSUME NEW c \in Clients, ClientSteps(c) \/ Die(c) PROVE UNCHANGED serverVars
  BY <1>2 DEF ClientSteps, ReadInfo, FailToIndex, Connect, FailToConnect, FailToRead, Send,
              Receive, FailToParse, Die
<1>3. ASSUME Crash PROVE P!Next
  BY <1>3, SameRestart DEF Crash, P!Next
<1>4. UNCHANGED serverVars => UNCHANGED P!vars
  BY DEF serverVars, P!vars, P!disk, P!memory, P!session
<1>5. [Next]_vars => [P!Next]_P!vars
  BY <1>1, <1>2, <1>3, <1>4 DEF Next, RunOutOfThreads, Boot, Terminated, vars
<1> QED
  BY <1>5

-----------------------------------------------------------------------------
(* Requests and their answers.                                             *)

ExchangeInv ==
  P!Inv /\ P!RefinementInv /\ ClientTypes /\ ConfigSuffices /\ ExchangesMatch

(* At first nobody has sent anything. *)
LEMMA InitExchange == Init => ExchangeInv
<1> SUFFICES ASSUME Init PROVE ExchangeInv
  OBVIOUS
<1>1. P!Inv /\ P!RefinementInv
  BY SameInit, ServerIsInstantiated, P!InitInv, P!InitRefinement DEF Init
<1>2. ClientTypes
  BY WordsAgree DEF Init, Client!Init, ClientTypes, Client!Outcomes
<1>3. ConfigSuffices /\ ExchangesMatch
  BY WordsAgree DEF Init, Client!Init, Server!Init, ConfigSuffices, ExchangesMatch
<1> QED
  BY <1>1, <1>2, <1>3 DEF ExchangeInv

(* What a thread does keeps the one request of its client in one place.    *)
LEMMA ThreadsKeepExchange ==
  ASSUME ExchangeInv, NEW c \in Clients, ServerSteps(c)
  PROVE  ClientTypes' /\ ConfigSuffices' /\ ExchangesMatch'
<1> USE DEF ExchangeInv
<1>1. UNCHANGED <<backup_info, server_info, user_id, step, link, outcome>>
  BY DEF ServerSteps, Accept, ReadRequest, Serve, Respond, FindClientGone, clientVars,
         Client!Taken, Client!Deliver, Client!config
<1>2. ASSUME NEW d \in Clients PROVE Asked(d)' = Asked(d) /\ (MayAsk(d)' <=> MayAsk(d))
                                     /\ (Client!MissesFile(d)' <=> Client!MissesFile(d))
  BY <1>1, Unmoved
<1>3. ConfigSuffices'
  BY <1>1, <1>2 DEF ConfigSuffices
<1>4. CASE Accept(c)
  <2>1. UNCHANGED <<request, response, outbox, inbox>>
    BY <1>4, ThreadEffects DEF Accept, clientVars
  <2> QED
    BY <1>1, <1>2, <1>3, <2>1 DEF ClientTypes, ExchangesMatch
<1>5. CASE ReadRequest(c)
  <2>1. /\ request' = [request EXCEPT ![c] = outbox[c]]
        /\ request[c] = NoRequest /\ outbox[c] # NoRequest
        /\ outbox' = [outbox EXCEPT ![c] = NoRequest]
        /\ UNCHANGED <<response, inbox>>
    BY <1>5, ThreadEffects, WordsAgree DEF ReadRequest, Client!Taken
  <2>2. ExchangesMatch'
    BY <1>1, <1>2, <2>1 DEF ClientTypes, ExchangesMatch, P!Inv, P!TypeOK
  <2> QED
    BY <1>1, <1>3, <2>1, <2>2 DEF ClientTypes
<1>6. CASE Serve(c)
  <2>1. /\ UNCHANGED <<request, outbox, inbox>>
        /\ request[c] # NoRequest
        /\ \A d \in Clients \ {c} : response'[d] = response[d]
    BY <1>6, ServeEffect DEF clientVars, P!Inv, P!TypeOK
  <2>2. ExchangesMatch'
    BY <1>1, <1>2, <2>1 DEF ExchangesMatch
  <2> QED
    BY <1>1, <1>3, <2>1, <2>2 DEF ClientTypes
<1>7. CASE Respond(c)
  <2>1. /\ request' = [request EXCEPT ![c] = NoRequest]
        /\ response' = [response EXCEPT ![c] = NoResponse]
        /\ response[c] # NoResponse
        /\ inbox' = [inbox EXCEPT ![c] = IF link[c] = "waiting" THEN response[c] ELSE NoResponse]
        /\ UNCHANGED outbox
    BY <1>7, ThreadEffects, WordsAgree DEF Respond, Client!Deliver
  <2>2. ClientTypes'
    BY <1>1, <2>1, WordsAgree DEF ClientTypes, P!Inv, P!TypeOK
  <2>3. ExchangesMatch'
    BY <1>1, <1>2, <2>1 DEF ClientTypes, ExchangesMatch, P!Inv, P!TypeOK
  <2> QED
    BY <1>3, <2>2, <2>3
<1>8. CASE FindClientGone(c)
  <2>1. /\ request' = [request EXCEPT ![c] = NoRequest]
        /\ response' = [response EXCEPT ![c] = NoResponse]
        /\ outbox' = [outbox EXCEPT ![c] = NoRequest]
        /\ link[c] = "closed" /\ UNCHANGED inbox
    BY <1>8, ThreadEffects, WordsAgree DEF FindClientGone, Client!Taken
  <2>2. ExchangesMatch'
    BY <1>1, <1>2, <2>1 DEF ClientTypes, ExchangesMatch, P!Inv, P!TypeOK
  <2> QED
    BY <1>1, <1>3, <2>1, <2>2 DEF ClientTypes
<1> QED
  BY <1>4, <1>5, <1>6, <1>7, <1>8 DEF ServerSteps

(* A process that sets out for a request has what it takes.                *)
LEMMA ClientsSend ==
  ASSUME ExchangeInv, NEW c \in Clients,
         ReadInfo(c) \/ FailToIndex(c) \/ Connect(c) \/ FailToConnect(c) \/ Send(c)
  PROVE  ClientTypes' /\ ConfigSuffices' /\ ExchangesMatch'
<1> USE DEF ExchangeInv
<1>1. UNCHANGED <<backup_info, server_info, user_id, inbox, request, response>>
  BY DEF ReadInfo, FailToIndex, Connect, FailToConnect, Send, Client!ReadInfo,
         Client!FailToIndex, Client!Connect, Client!FailToConnect, Client!Send, Client!config,
         serverVars
<1>2. ASSUME NEW d \in Clients, step'[d] = step[d]
      PROVE  Asked(d)' = Asked(d) /\ (MayAsk(d)' <=> MayAsk(d))
             /\ (Client!MissesFile(d)' <=> Client!MissesFile(d))
  BY <1>1, <1>2, Unmoved
<1>3. CASE ReadInfo(c)
  <2> DEFINE result == IF backup_info # Unreadable THEN Client!ServerInfoResult
                                                   ELSE "ReadingBackupInfoFile"
  <2>1. /\ outcome[c] = "running" /\ step[c] = 0
        /\ outcome' = [outcome EXCEPT ![c] = result]
        /\ step' = [step EXCEPT ![c] = IF result = "running" THEN 1 ELSE 0]
        /\ UNCHANGED <<link, outbox>>
    BY <1>3 DEF ReadInfo, Client!ReadInfo, Client!End, Client!BackupInfoIsRead
  <2>2. /\ result \in Client!Outcomes \ {"finished"}
        /\ result = "running" => backup_info # Unreadable /\ server_info \in {"valid", "elsewhere"}
    BY ClientAssumption DEF ClientTypes, Client!ServerInfoResult, Client!Outcomes
  <2>3. link[c] = "closed" /\ outbox[c] = NoRequest /\ request[c] = NoRequest /\ inbox[c] = NoResponse
    BY <2>1 DEF ConfigSuffices, ExchangesMatch, ClientTypes
  <2>4. ClientTypes'
    BY <1>1, <2>1, <2>2 DEF ClientTypes
  <2>5. ConfigSuffices'
    <3>1. \A d \in Clients \ {c} : step'[d] = step[d] /\ outcome'[d] = outcome[d]
      BY <2>1
    <3>2. /\ step'[c] = IF result = "running" THEN 1 ELSE 0
          /\ outcome'[c] = result
      BY <2>1 DEF ClientTypes
    <3> QED
      BY <1>1, <1>2, <2>1, <2>2, <2>3, <3>1, <3>2 DEF ConfigSuffices
  <2>6. ExchangesMatch'
    BY <1>1, <1>2, <2>1, <2>3 DEF ExchangesMatch, ClientTypes
  <2> QED
    BY <2>4, <2>5, <2>6
<1>4. CASE FailToIndex(c) \/ FailToConnect(c)
  <2>1. /\ outcome[c] = "running" /\ UNCHANGED <<step, link, outbox>>
        /\ outcome' = [outcome EXCEPT ![c] = IF FailToIndex(c) THEN "IndexError"
                                                               ELSE "ConnectionRefusedError"]
    BY <1>4 DEF FailToIndex, Client!FailToIndex, FailToConnect, Client!FailToConnect, Client!End,
                Client!MayConnect
  <2>2. link[c] = "closed"
    BY <1>4 DEF FailToIndex, Client!FailToIndex, FailToConnect, Client!FailToConnect,
                Client!MayConnect, ConfigSuffices
  <2>3. ClientTypes'
    BY <1>1, <2>1 DEF ClientTypes, Client!Outcomes
  <2>4. ConfigSuffices'
    BY <1>1, <1>2, <2>1 DEF ConfigSuffices, ClientTypes
  <2>5. ExchangesMatch'
    BY <1>1, <1>2, <2>1, <2>2 DEF ExchangesMatch, ClientTypes
  <2> QED
    BY <2>3, <2>4, <2>5
<1>5. CASE Connect(c)
  <2>1. /\ outcome[c] = "running" /\ step[c] > 0 /\ link[c] = "closed"
        /\ ~Client!MissesFile(c) /\ server_info = "valid"
        /\ link' = [link EXCEPT ![c] = "open"]
        /\ UNCHANGED <<step, outbox, outcome>>
    BY <1>5 DEF Connect, Client!Connect, Client!MayConnect
  <2>2. ClientTypes'
    BY <1>1, <2>1 DEF ClientTypes
  <2>3. ConfigSuffices'
    BY <1>1, <1>2, <2>1 DEF ConfigSuffices, ClientTypes
  <2>4. ExchangesMatch'
    BY <1>1, <1>2, <2>1 DEF ExchangesMatch, ClientTypes
  <2> QED
    BY <2>2, <2>3, <2>4
<1>6. CASE Send(c)
  <2>1. /\ link[c] = "open" /\ ~Client!Unread(c)
        /\ link' = [link EXCEPT ![c] = "waiting"]
        /\ outbox' = [outbox EXCEPT ![c] = Asked(c)]
        /\ UNCHANGED <<step, outcome>>
    BY <1>6 DEF Send, Client!Send, Asked
  <2>2. MayAsk(c) /\ outbox[c] = NoRequest /\ request[c] = NoRequest
    BY <2>1 DEF ConfigSuffices, MayAsk, ExchangesMatch
  <2>3. Asked(c) \in Requests
    BY <2>2, AskedIsRequest DEF ClientTypes
  <2>4. ClientTypes'
    BY <1>1, <2>1, <2>3 DEF ClientTypes
  <2>5. ConfigSuffices'
    BY <1>1, <1>2, <2>1, <2>2 DEF ConfigSuffices, ClientTypes
  <2>6. ExchangesMatch'
    BY <1>1, <1>2, <2>1, <2>2 DEF ExchangesMatch, ClientTypes
  <2> QED
    BY <2>4, <2>5, <2>6
<1> QED
  BY <1>3, <1>4, <1>5, <1>6

(* A process that gives up closes its connection. *)
LEMMA ClientsEnd ==
  ASSUME ExchangeInv, NEW c \in Clients, FailToRead(c) \/ FailToParse(c) \/ Die(c)
  PROVE  ClientTypes' /\ ConfigSuffices' /\ ExchangesMatch'
<1> USE DEF ExchangeInv
<1>1. /\ UNCHANGED <<backup_info, server_info, user_id, step, outbox, request, response>>
      /\ link' = [link EXCEPT ![c] = "closed"]
      /\ inbox' = [inbox EXCEPT ![c] = NoResponse]
  BY WordsAgree DEF FailToRead, FailToParse, Die, Client!FailToRead, Client!FailToParse, Client!Die,
         Client!Close, Client!config, serverVars
<1>2. PICK how \in {"FileNotFoundError", "FailedToParseMessage", "killed"} :
        outcome' = [outcome EXCEPT ![c] = how]
  BY DEF FailToRead, FailToParse, Die, Client!FailToRead, Client!FailToParse, Client!Die, Client!End
<1>3. ASSUME NEW d \in Clients
      PROVE  Asked(d)' = Asked(d) /\ (MayAsk(d)' <=> MayAsk(d))
             /\ (Client!MissesFile(d)' <=> Client!MissesFile(d))
  BY <1>1, Unmoved
<1>4. ClientTypes'
  BY <1>1, <1>2 DEF ClientTypes, Client!Outcomes
<1>5. ConfigSuffices'
  BY <1>1, <1>2, <1>3 DEF ConfigSuffices, ClientTypes
<1>6. ExchangesMatch'
  BY <1>1, <1>2, <1>3 DEF ExchangesMatch, ClientTypes
<1> QED
  BY <1>4, <1>5, <1>6

(* What a step of main() that takes a response does. *)
LEMMA ReceiveEffect ==
  ASSUME ExchangeInv, NEW c \in Clients, Receive(c)
  PROVE  /\ step[c] \in 1 .. 7 /\ MayAsk(c) /\ inbox[c] # NoResponse /\ outcome[c] = "running"
         /\ outbox[c] = NoRequest /\ request[c] = NoRequest
         /\ outcome' = [outcome EXCEPT ![c] = Client!Result(step[c], inbox[c])]
         /\ step' = [step EXCEPT ![c] = IF Client!Result(step[c], inbox[c]) = "running"
                                          THEN step[c] + 1 ELSE step[c]]
         /\ link' = [link EXCEPT ![c] = "closed"]
         /\ inbox' = [inbox EXCEPT ![c] = NoResponse]
         /\ UNCHANGED <<backup_info, server_info, user_id, outbox, serverVars, serving>>
  BY WordsAgree
     DEF Receive, Client!Receive, Client!Close, Client!config, ExchangeInv, ExchangesMatch,
         ConfigSuffices, MayAsk, ClientTypes

(* A response that main() goes on with has backed up what it should, and   *)
(* takes it to a request that the configuration files provide for.         *)
LEMMA ClientsReceive ==
  ASSUME ExchangeInv, NEW c \in Clients, Receive(c)
  PROVE  ClientTypes' /\ ConfigSuffices' /\ ExchangesMatch'
<1> USE DEF ExchangeInv
<1> DEFINE result == Client!Result(step[c], inbox[c])
<1>1. UNCHANGED <<backup_info, server_info, user_id, outbox, request, response>>
  BY ReceiveEffect DEF serverVars
<1>2. /\ result \in Client!Outcomes
      /\ result = "running" => step[c] < 7
      /\ result = "finished" => step[c] = 7
  BY ReceiveEffect, Results
<1>3. /\ step'[c] = IF result = "running" THEN step[c] + 1 ELSE step[c]
      /\ outcome'[c] = result /\ link'[c] = "closed" /\ inbox'[c] = NoResponse
      /\ \A d \in Clients \ {c} : /\ step'[d] = step[d] /\ outcome'[d] = outcome[d]
                                  /\ link'[d] = link[d] /\ inbox'[d] = inbox[d]
  BY ReceiveEffect DEF ClientTypes
<1>4. ASSUME NEW d \in Clients \ {c}
      PROVE  Asked(d)' = Asked(d) /\ (MayAsk(d)' <=> MayAsk(d))
             /\ (Client!MissesFile(d)' <=> Client!MissesFile(d))
  BY <1>1, <1>3, Unmoved
<1>5. ClientTypes'
  BY <1>1, <1>2, ReceiveEffect DEF ClientTypes
<1>6. ConfigSuffices'
  <2>1. \A i \in {1, 2} : step[c] = i + 1 => i \in DOMAIN backup_info /\ backup_info[i] \in DOMAIN PayloadOf
    BY ReceiveEffect DEF MayAsk, Client!MissesFile, Client!Unread, Client!BacksUp
  <2>2. server_info = "valid" /\ backup_info # Unreadable
    BY ReceiveEffect DEF MayAsk, ConfigSuffices
  <2>3. \A i \in {1, 2} : step'[c] > i + 1 => i \in DOMAIN backup_info /\ backup_info[i] \in DOMAIN PayloadOf
    BY <1>3, <2>1, ReceiveEffect DEF ConfigSuffices
  <2>4. outcome'[c] = "finished" => step'[c] = 7
    BY <1>2, <1>3
  <2> QED
    BY <1>1, <1>3, <1>4, <2>2, <2>3, <2>4 DEF ConfigSuffices, Client!LastStep
<1>7. ExchangesMatch'
  BY <1>1, <1>3, <1>4, ReceiveEffect DEF ExchangesMatch
<1> QED
  BY <1>5, <1>6, <1>7

(* A crash takes the requests and the open connections with it. *)
LEMMA CrashKeepsExchange ==
  ASSUME ExchangeInv, Crash
  PROVE  ClientTypes' /\ ConfigSuffices' /\ ExchangesMatch'
<1> USE DEF ExchangeInv
<1>1. /\ UNCHANGED <<backup_info, server_info, user_id, step, inbox, outcome>>
      /\ link' = [d \in Clients |-> IF link[d] = "closed" \/ inbox[d] # NoResponse THEN link[d]
                                                                                  ELSE "broken"]
      /\ outbox' = [d \in Clients |-> NoRequest]
  BY WordsAgree DEF Crash, Client!Disconnect, Client!config
<1>2. /\ request' = [d \in Clients |-> NoRequest]
      /\ response' = [d \in Clients |-> NoResponse]
  BY SameRestart, WordsAgree DEF Crash, P!Restart
<1>3. ASSUME NEW d \in Clients
      PROVE  Asked(d)' = Asked(d) /\ (MayAsk(d)' <=> MayAsk(d))
             /\ (Client!MissesFile(d)' <=> Client!MissesFile(d))
  BY <1>1, Unmoved
<1>4. ClientTypes'
  BY <1>1 DEF ClientTypes
<1>5. ConfigSuffices'
  BY <1>1, <1>3 DEF ConfigSuffices, ClientTypes
<1>6. ExchangesMatch'
  BY <1>1, <1>2, <1>3 DEF ExchangesMatch, ClientTypes
<1> QED
  BY <1>4, <1>5, <1>6

(* Every step keeps requests and processes together. *)
LEMMA NextExchange == ExchangeInv /\ [Next]_vars => ExchangeInv'
<1> SUFFICES ASSUME ExchangeInv, [Next]_vars PROVE ExchangeInv'
  OBVIOUS
<1>1. P!Inv' /\ P!RefinementInv'
  <2>1. [P!Next]_P!vars
    BY StepsOfServer DEF ExchangeInv
  <2>2. P!Inv'
    BY <2>1, ServerIsInstantiated, P!NextInv DEF ExchangeInv
  <2>3. P!ResponsesAreDecided'
    BY <2>1, ServerIsInstantiated, P!NextResponses DEF ExchangeInv, P!RefinementInv
  <2>4. P!OnlyNamedFiles'
    BY <2>1, ServerIsInstantiated, P!NextNamed DEF ExchangeInv, P!RefinementInv
  <2> QED
    BY <2>2, <2>3, <2>4 DEF P!RefinementInv
<1>2. ASSUME UNCHANGED <<backup_info, server_info, user_id, step, link, outbox, inbox, outcome,
                         request, response>>
      PROVE  ClientTypes' /\ ConfigSuffices' /\ ExchangesMatch'
  <2>1. ASSUME NEW d \in Clients
        PROVE  Asked(d)' = Asked(d) /\ (MayAsk(d)' <=> MayAsk(d))
               /\ (Client!MissesFile(d)' <=> Client!MissesFile(d))
    BY <1>2, Unmoved
  <2>2. ClientTypes'
    BY <1>2 DEF ExchangeInv, ClientTypes
  <2>3. ConfigSuffices'
    BY <1>2, <2>1 DEF ExchangeInv, ConfigSuffices
  <2>4. ExchangesMatch'
    BY <1>2, <2>1 DEF ExchangeInv, ExchangesMatch
  <2> QED
    BY <2>2, <2>3, <2>4
<1>3. CASE UNCHANGED vars \/ Boot \/ Terminated
  BY <1>1, <1>2, <1>3 DEF Boot, Terminated, vars, serverVars, clientVars, ExchangeInv
<1>4. CASE Crash \/ \E c \in Clients : RunOutOfThreads(c)
  BY <1>1, <1>4, CrashKeepsExchange DEF RunOutOfThreads, ExchangeInv
<1>5. ASSUME NEW c \in Clients, ServerSteps(c) \/ ClientSteps(c) \/ Die(c) PROVE ExchangeInv'
  BY <1>1, <1>5, ThreadsKeepExchange, ClientsSend, ClientsEnd, ClientsReceive
     DEF ClientSteps, ExchangeInv
<1> QED
  BY <1>1, <1>3, <1>4, <1>5 DEF Next, ExchangeInv

(* They are together in every behaviour. *)
LEMMA SpecExchange == Spec => []ExchangeInv
  BY InitExchange, NextExchange, PTL DEF Spec

(* Clients and server keep their types together, and a process that has    *)
(* ended has no connection left: ensure_connected closes it.               *)
THEOREM TypeCorrect == Spec => []TypeOK
<1>1. ExchangeInv => TypeOK
  BY SameTypes DEF ExchangeInv, P!Inv, ClientTypes, ExchangesMatch, TypeOK, Client!LastStep
<1> QED
  BY <1>1, SpecExchange, PTL

-----------------------------------------------------------------------------
(* The store, on a disk that does not fill up and with files that have     *)
(* names.                                                                  *)

FlowInv ==
  /\ ExchangeInv /\ P!PromiseInv
  /\ StoreHoldsBackups /\ BackupsStay /\ AnswersAreRight

(* The request of each step of main(), and the response it is meant to get.*)
LEMMA Requested ==
  ASSUME NEW c \in Clients, step[c] \in 1 .. 7
  PROVE  /\ Asked(c).user = user_id[c]
         /\ Asked(c).op = "LIST_FILES" <=> step[c] \in {1, 4}
         /\ Asked(c).op = "BACKUP_FILE" <=> step[c] \in {2, 3}
         /\ Asked(c).op = "RESTORE_FILE" <=> step[c] \in {5, 7}
         /\ Asked(c).op = "DELETE_FILE" <=> step[c] = 6
         /\ step[c] = 2 => Asked(c).name = First /\ Asked(c).payload = PayloadOf[First]
         /\ step[c] = 3 => Asked(c).name = Second /\ Asked(c).payload = PayloadOf[Second]
         /\ step[c] > 4 => Asked(c).name = First
<1>1. step[c] = 1 \/ step[c] = 2 \/ step[c] = 3 \/ step[c] = 4 \/ step[c] = 5 \/ step[c] = 6
      \/ step[c] = 7
  OBVIOUS
<1> QED
  BY <1>1 DEF Asked, Client!RequestAt, First, Second

(* The responses that main() is meant to get to its seven requests. *)
LEMMA ExpectedOps ==
  /\ Client!ExpectedOp(1) = "SUCCESSFUL_LIST_FILES"
  /\ Client!ExpectedOp(2) = "SUCCESSFUL_BACKUP_OR_DELETE"
  /\ Client!ExpectedOp(3) = "SUCCESSFUL_BACKUP_OR_DELETE"
  /\ Client!ExpectedOp(4) = "SUCCESSFUL_LIST_FILES"
  /\ Client!ExpectedOp(5) = "SUCCESSFUL_RESTORE"
  /\ Client!ExpectedOp(6) = "SUCCESSFUL_BACKUP_OR_DELETE"
  /\ Client!ExpectedOp(7) = "SUCCESSFUL_RESTORE"
  BY DEF Client!ExpectedOp

(* A step that changes nothing of the server changes nothing of the store. *)
LEMMA StoreStays ==
  ASSUME UNCHANGED serverVars
  PROVE  UNCHANGED <<store, user_directories_>>
  BY P!StoreUnchanged, ServerIsInstantiated DEF serverVars, store

(* Requests and responses that come and go do not change it either.        *)
LEMMA StoreWaits ==
  ASSUME FlowInv, NEW c \in Clients,
         Accept(c) \/ ReadRequest(c) \/ Respond(c) \/ FindClientGone(c)
  PROVE  UNCHANGED <<store, user_directories_>>
<1>1. P!StepInv
  BY DEF FlowInv, ExchangeInv, P!StepInv
<1>2. CASE Accept(c) \/ (FindClientGone(c) /\ Server!LoseClient(c))
  BY <1>1, <1>2, SameSteps, ServerIsInstantiated, P!SilentSteps
     DEF Accept, P!Store!vars, store
<1>3. CASE ReadRequest(c)
  <2>1. outbox[c] \in P!Requests
    BY <1>3, WordsAgree DEF ReadRequest, FlowInv, ExchangeInv, ClientTypes
  <2> QED
    BY <1>1, <1>3, <2>1, SameSteps, ServerIsInstantiated, P!CallsAndReturns
       DEF ReadRequest, P!Store!Invoke, store
<1>4. CASE Respond(c) \/ (FindClientGone(c) /\ Server!FailToSend(c))
  BY <1>1, <1>4, SameSteps, ServerIsInstantiated, P!CallsAndReturns
     DEF Respond, P!Store!Finish, store
<1> QED
  BY <1>2, <1>3, <1>4 DEF FindClientGone

(* A thread that serves the request of c only touches the response to it.  *)
LEMMA ServeFrame ==
  ASSUME FlowInv, NEW c \in Clients, Serve(c)
  PROVE  /\ step[c] \in 1 .. 7 /\ user_id[c] \in Users
         /\ UNCHANGED <<backup_info, server_info, user_id, step, link, outbox, inbox, outcome>>
         /\ UNCHANGED <<restarts, serving, request>>
         /\ \A d \in Clients \ {c} : response'[d] = response[d]
         /\ request[c] = Asked(c) /\ MayAsk(c)
         /\ response[c] = NoResponse /\ inbox[c] = NoResponse /\ outbox[c] = NoRequest
<1>1. /\ UNCHANGED <<request, clientVars, serving, restarts>>
      /\ request[c] # NoRequest /\ response[c] = NoResponse
      /\ \E r : response' = [response EXCEPT ![c] = r]
  BY ServeEffect DEF FlowInv, ExchangeInv
<1>2. request[c] = Asked(c) /\ MayAsk(c) /\ inbox[c] = NoResponse /\ outbox[c] = NoRequest
  BY <1>1 DEF FlowInv, ExchangeInv, ExchangesMatch
<1>3. \A d \in Clients \ {c} : response'[d] = response[d]
  BY <1>1 DEF FlowInv, ExchangeInv, P!Inv, P!TypeOK
<1>4. step[c] \in 1 .. 7 /\ user_id[c] \in Users
  BY <1>2 DEF MayAsk, FlowInv, ExchangeInv, ClientTypes
<1> QED
  BY <1>1, <1>2, <1>3, <1>4 DEF clientVars

(* What a thread may do with the request of c, seen in the store: put the  *)
(* file that is backed up into it, take the file out that is deleted, or   *)
(* look and answer.                                                        *)
Wanted(c)  == IF step[c] = 3 THEN Second ELSE First
Kept(c, n) == store[user_id[c]][n]

Stores(c) ==
  /\ step[c] \in {2, 3} /\ user_id[c] \in user_directories_
  /\ Wanted(c) \in Names /\ Kept(c, Wanted(c)) = NoFile
  /\ store' = [store EXCEPT ![user_id[c]][Wanted(c)] = Whole(Wanted(c))]
  /\ response'[c].op = "SUCCESSFUL_BACKUP_OR_DELETE"
  /\ UNCHANGED user_directories_

Removes(c) ==
  /\ step[c] = 6
  /\ First \in Names /\ Kept(c, First) # NoFile
  /\ store' = [store EXCEPT ![user_id[c]][First] = NoFile]
  /\ response'[c].op = "SUCCESSFUL_BACKUP_OR_DELETE"
  /\ UNCHANGED user_directories_

Admits(c) ==
  /\ step[c] \in {2, 3}
  /\ user_directories_' = user_directories_ \cup {user_id[c]}
  /\ UNCHANGED <<store, response>>

Looks(c) ==
  /\ UNCHANGED <<store, user_directories_>>
  /\ \/ /\ step[c] \in {2, 3} /\ Kept(c, Wanted(c)) # NoFile
        /\ response'[c].op = "SERVER_ERROR"
     \/ /\ step[c] = 6 /\ (user_id[c] \notin user_directories_ \/ Kept(c, First) = NoFile)
        /\ response'[c].op = "SERVER_ERROR"
     \/ /\ step[c] \in {5, 7} /\ First \in Names /\ Kept(c, First) # NoFile
        /\ response'[c].op = "SUCCESSFUL_RESTORE" /\ response'[c].content = Kept(c, First)
     \/ /\ step[c] \in {5, 7} /\ (user_id[c] \notin user_directories_ \/ Kept(c, First) = NoFile)
        /\ response'[c].op \in {"FILE_NOT_FOUND", "SERVER_ERROR"}
     \/ /\ step[c] \in {1, 4} /\ user_id[c] \in user_directories_
        /\ response'[c].op = "SUCCESSFUL_LIST_FILES"
        /\ response'[c].names \in P!Store!Enumerations(P!Store!Stored(user_id[c]))
     \/ /\ step[c] \in {1, 4} /\ user_id[c] \notin user_directories_
        /\ response'[c].op = "NO_BACKUP_FILES_FOR_CLIENT"

(* It does one of these, or nothing yet. *)
LEMMA ServeOnStore ==
  ASSUME EmptyName \notin Names, FlowInv, NEW c \in Clients, Serve(c)
  PROVE  \/ UNCHANGED <<store, user_directories_, response>>
         \/ Admits(c) \/ Stores(c) \/ Removes(c) \/ Looks(c)
<1>1. P!StepInv
  BY DEF FlowInv, ExchangeInv, P!StepInv
<1>2. P!LockManager(c) \/ P!Handle(c)
  BY SameSteps, SameHandle DEF Serve
<1>3. \/ UNCHANGED P!Store!vars
      \/ P!Store!Admit(c) \/ P!Store!Backup(c) \/ P!Store!Delete(c) \/ P!Store!Restore(c)
      \/ P!Store!List(c)
  BY <1>1, <1>2, ServerIsInstantiated, P!HandleStep
<1>4. request[c] = Asked(c) /\ MayAsk(c) /\ step[c] \in 1 .. 7 /\ user_id[c] \in Users
  BY ServeEffect DEF FlowInv, ExchangeInv, ExchangesMatch, MayAsk, ClientTypes
<1>5. Asked(c) \in Requests
  BY <1>4, AskedIsRequest DEF FlowInv, ExchangeInv, ClientTypes
<1>6. /\ request[c].user = user_id[c]
      /\ request[c].op \in {"BACKUP_FILE", "RESTORE_FILE", "DELETE_FILE"} =>
           request[c].name = Wanted(c) /\ Wanted(c) \in Names
  BY <1>4, <1>5, Requested DEF Requests, BackupRequests, NamedRequests, ListRequests, Wanted
<1>7. /\ request[c].op = "BACKUP_FILE" => request[c].payload = PayloadOf[Wanted(c)]
      /\ request[c].op = "BACKUP_FILE" => step[c] \in {2, 3}
      /\ request[c].op = "DELETE_FILE" => step[c] = 6 /\ Wanted(c) = First
      /\ request[c].op = "RESTORE_FILE" => step[c] \in {5, 7} /\ Wanted(c) = First
      /\ request[c].op = "LIST_FILES" => step[c] \in {1, 4}
  BY <1>4, Requested DEF Wanted
<1>8. ASSUME NEW r, P!Store!Answer(c, r) PROVE response'[c] = r
  BY <1>8 DEF P!Store!Answer, FlowInv, ExchangeInv, P!Inv, P!TypeOK
<1>9. CASE UNCHANGED P!Store!vars
  BY <1>9 DEF P!Store!vars, store
<1>10. CASE P!Store!Admit(c)
  BY <1>6, <1>7, <1>10 DEF P!Store!Admit, store, Admits
<1>11. CASE P!Store!Backup(c)
  <2> DEFINE n == Wanted(c)
  <2>1. /\ step[c] \in {2, 3} /\ n \in Names /\ user_id[c] \in user_directories_
        /\ request[c].name = n /\ request[c].payload = PayloadOf[n]
        /\ UNCHANGED user_directories_
    BY <1>6, <1>7, <1>11 DEF P!Store!Backup
  <2>2. CASE store[user_id[c]][n] = NoFile
    <3>1. /\ store' = [store EXCEPT ![user_id[c]][n] = Whole(n)]
          /\ P!Store!Answer(c, P!Store!SuccessfulBackupOrDelete(n))
      BY <1>6, <1>11, <2>1, <2>2 DEF P!Store!Backup, store, Whole
    <3>2. response'[c].op = "SUCCESSFUL_BACKUP_OR_DELETE"
      BY <1>8, <3>1 DEF P!Store!SuccessfulBackupOrDelete
    <3> QED
      BY <2>1, <2>2, <3>1, <3>2 DEF Stores, Kept
  <2>3. CASE store[user_id[c]][n] # NoFile
    <3>1. UNCHANGED store /\ P!Store!Answer(c, P!Store!ServerError)
      BY <1>6, <1>11, <2>1, <2>3 DEF P!Store!Backup, store
    <3>2. response'[c].op = "SERVER_ERROR"
      BY <1>8, <3>1 DEF P!Store!ServerError
    <3> QED
      BY <2>1, <2>3, <3>1, <3>2 DEF Looks, Kept
  <2> QED
    BY <2>2, <2>3
<1>12. CASE P!Store!Delete(c)
  <2>1. /\ step[c] = 6 /\ First \in Names /\ request[c].name = First
        /\ UNCHANGED user_directories_
    BY <1>6, <1>7, <1>12 DEF P!Store!Delete
  <2>2. CASE user_id[c] \in user_directories_ /\ store[user_id[c]][First] # NoFile
    <3>1. /\ store' = [store EXCEPT ![user_id[c]][First] = NoFile]
          /\ P!Store!Answer(c, P!Store!SuccessfulBackupOrDelete(First))
      BY <1>6, <1>12, <2>1, <2>2 DEF P!Store!Delete, store
    <3>2. response'[c].op = "SUCCESSFUL_BACKUP_OR_DELETE"
      BY <1>8, <3>1 DEF P!Store!SuccessfulBackupOrDelete
    <3> QED
      BY <2>1, <2>2, <3>1, <3>2 DEF Removes, Kept
  <2>3. CASE user_id[c] \notin user_directories_ \/ store[user_id[c]][First] = NoFile
    <3>1. UNCHANGED store /\ P!Store!Answer(c, P!Store!ServerError)
      BY <1>6, <1>12, <2>1, <2>3 DEF P!Store!Delete, store
    <3>2. response'[c].op = "SERVER_ERROR"
      BY <1>8, <3>1 DEF P!Store!ServerError
    <3> QED
      BY <2>1, <2>3, <3>1, <3>2 DEF Looks, Kept
  <2> QED
    BY <2>2, <2>3
<1>13. CASE P!Store!Restore(c)
  <2>1. /\ step[c] \in {5, 7} /\ First \in Names /\ request[c].name = First
        /\ UNCHANGED <<store, user_directories_>>
    BY <1>6, <1>7, <1>13 DEF P!Store!Restore, store
  <2>2. \/ /\ store[user_id[c]][First] # NoFile
           /\ P!Store!Answer(c, P!Store!SuccessfulRestore(First, store[user_id[c]][First]))
        \/ /\ store[user_id[c]][First] = NoFile
           /\ P!Store!Answer(c, P!Store!FileNotFound(First))
        \/ user_id[c] \notin user_directories_ /\ P!Store!Answer(c, P!Store!ServerError)
    BY <1>6, <1>13, <2>1 DEF P!Store!Restore, store
  <2>3. \/ /\ store[user_id[c]][First] # NoFile
           /\ response'[c].op = "SUCCESSFUL_RESTORE"
           /\ response'[c].content = store[user_id[c]][First]
        \/ store[user_id[c]][First] = NoFile /\ response'[c].op = "FILE_NOT_FOUND"
        \/ user_id[c] \notin user_directories_ /\ response'[c].op = "SERVER_ERROR"
    BY <1>8, <2>2 DEF P!Store!SuccessfulRestore, P!Store!FileNotFound, P!Store!ServerError
  <2> QED
    BY <2>1, <2>3 DEF Looks, Kept
<1>14. CASE P!Store!List(c)
  <2>1. step[c] \in {1, 4} /\ UNCHANGED <<store, user_directories_>>
    BY <1>7, <1>14 DEF P!Store!List, store
  <2>2. \/ /\ user_id[c] \in user_directories_
           /\ \E ns \in P!Store!Enumerations(P!Store!Stored(user_id[c])) :
                P!Store!Answer(c, P!Store!SuccessfulListFiles(ns))
        \/ /\ user_id[c] \notin user_directories_
           /\ P!Store!Answer(c, P!Store!NoBackupFilesForClient)
    BY <1>6, <1>14 DEF P!Store!List
  <2>3. ASSUME NEW ns, P!Store!Answer(c, P!Store!SuccessfulListFiles(ns))
        PROVE  response'[c].op = "SUCCESSFUL_LIST_FILES" /\ response'[c].names = ns
    BY <1>8, <2>3 DEF P!Store!SuccessfulListFiles
  <2>4. P!Store!Answer(c, P!Store!NoBackupFilesForClient) =>
          response'[c].op = "NO_BACKUP_FILES_FOR_CLIENT"
    BY <1>8 DEF P!Store!NoBackupFilesForClient
  <2>5. \/ /\ user_id[c] \in user_directories_
           /\ response'[c].op = "SUCCESSFUL_LIST_FILES"
           /\ response'[c].names \in P!Store!Enumerations(P!Store!Stored(user_id[c]))
        \/ /\ user_id[c] \notin user_directories_
           /\ response'[c].op = "NO_BACKUP_FILES_FOR_CLIENT"
    BY <2>2, <2>3, <2>4
  <2> QED
    BY <2>1, <2>5 DEF Looks
<1> QED
  BY <1>3, <1>9, <1>10, <1>11, <1>12, <1>13, <1>14

(* The store has a place for every file that requests can name. *)
LEMMA StoreType ==
  ASSUME FlowInv PROVE store \in [Users -> [Names -> Contents \cup {NoFile}]]
<1>1. P!Contents = Contents
  BY DEF Contents, P!Contents
<1>2. \A u \in Users, n \in Names : files[u][n] \in Contents \cup {NoFile}
  BY <1>1, P!NamesAreFilenames, ServerIsInstantiated DEF FlowInv, ExchangeInv, P!Inv, P!TypeOK
<1> QED
  BY <1>2 DEF store, P!storeBar

(* A local file is not mistaken for the absence of one. *)
LEMMA PresentFiles ==
  ASSUME NEW n \in DOMAIN PayloadOf, NEW whole \in BOOLEAN
  PROVE  [payload |-> PayloadOf[n], complete |-> whole] # NoFile
<1>1. PayloadOf[n] \in Payloads
  BY ClientAssumption DEF Range
<1>2. [payload |-> PayloadOf[n], complete |-> whole] \in Contents
  BY <1>1 DEF Contents
<1> QED
  BY <1>2, MessagesAssumption

(* What main() backs up is one of the two files of backup.info, and it is  *)
(* there to be read.                                                       *)
LEMMA BackedUpFile ==
  ASSUME FlowInv, NEW c \in Clients, MayAsk(c), step[c] \in {2, 3}
  PROVE  /\ backup_info # Unreadable
         /\ \E i \in {1, 2} \cap DOMAIN backup_info : Wanted(c) = backup_info[i]
         /\ Wanted(c) \in DOMAIN PayloadOf /\ Wanted(c) \in Names
         /\ \A whole \in BOOLEAN : [payload |-> PayloadOf[Wanted(c)], complete |-> whole] # NoFile
<1>1. backup_info # Unreadable
  BY DEF FlowInv, ExchangeInv, ConfigSuffices
<1>2. \A i \in {1, 2} : step[c] = i + 1 => i \in DOMAIN backup_info /\ backup_info[i] \in DOMAIN PayloadOf
  BY DEF MayAsk, Client!MissesFile, Client!Unread, Client!BacksUp
<1>3. /\ \E i \in {1, 2} \cap DOMAIN backup_info : Wanted(c) = backup_info[i]
      /\ Wanted(c) \in DOMAIN PayloadOf
  BY <1>2 DEF Wanted, First, Second
<1>4. PayloadOf[Wanted(c)] \in Payloads /\ Wanted(c) \in Names
  BY <1>3, ClientAssumption DEF Range
<1>5. \A whole \in BOOLEAN : [payload |-> PayloadOf[Wanted(c)], complete |-> whole] \in Contents
  BY <1>4 DEF Contents
<1> QED
  BY <1>1, <1>3, <1>4, <1>5, MessagesAssumption

(* A list of at most two files has each of them once. *)
LEMMA ListsOfTwo ==
  ASSUME NEW a, NEW b, NEW S \in SUBSET {a, b}, NEW ns \in P!Store!Enumerations(S)
  PROVE  Len(ns) <= 2 /\ (Len(ns) = 2 => ns[1] # ns[2])
<1>1. P!Store!Cardinality(S) = Cardinality(S)
  BY Zenon DEF P!Store!Cardinality, Cardinality
<1>2. ns \in [1 .. Cardinality(S) -> S] /\ \A f \in S : \E i \in DOMAIN ns : ns[i] = f
  BY <1>1 DEF P!Store!Enumerations
<1>3. /\ IsFiniteSet({a}) /\ Cardinality({a}) = 1
      /\ IsFiniteSet({a} \cup {b}) /\ Cardinality({a} \cup {b}) <= 2
  <2>1. \A x : IsFiniteSet({x}) /\ Cardinality({x}) = 1
    BY FS_Singleton
  <2>2. IsFiniteSet({a}) /\ Cardinality({a}) = 1
    BY <2>1
  <2>3. /\ IsFiniteSet({a} \cup {b})
        /\ Cardinality({a} \cup {b}) = IF b \in {a} THEN Cardinality({a}) ELSE Cardinality({a}) + 1
    BY <2>2, FS_AddElement, Zenon
  <2> QED
    BY <2>2, <2>3
<1>4. IsFiniteSet(S) /\ Cardinality(S) \in Nat /\ Cardinality(S) <= 2
  <2>1. {a, b} = {a} \cup {b}
    OBVIOUS
  <2> QED
    BY <1>3, <2>1, FS_Subset, FS_CardinalityType
<1>5. Len(ns) = Cardinality(S)
  BY <1>2, <1>4
<1>6. ASSUME Len(ns) = 2, ns[1] = ns[2] PROVE FALSE
  <2>1. S = {ns[1]}
    BY <1>2, <1>5, <1>6
  <2>2. Cardinality({ns[1]}) = 1
    BY FS_Singleton, Zenon
  <2>3. Cardinality(S) = 1
    BY <2>1, <2>2, Zenon
  <2>4. Cardinality(S) = 2
    BY <1>5, <1>6, Zenon
  <2>5. 1 # 2
    OBVIOUS
  <2> QED
    BY <2>3, <2>4, <2>5, Zenon
<1> QED
  BY <1>4, <1>5, <1>6

(* What the store holds for a process does not change while it only        *)
(* advances with the responses that it has.                                *)
LEMMA StoreFrame ==
  ASSUME FlowInv, UNCHANGED <<backup_info, user_id, store>>,
         \A d \in Clients : step'[d] \in Nat /\ step'[d] >= step[d],
         \A d \in Clients : \A k \in {2, 3} : Past(d, k)' => Past(d, k)
  PROVE  StoreHoldsBackups' /\ BackupsStay'
<1>1. StoreHoldsBackups'
  BY DEF FlowInv, StoreHoldsBackups
<1>2. First' = First /\ Second' = Second /\ Whole(First)' = Whole(First) /\ Whole(Second)' = Whole(Second)
  BY DEF First, Second, Whole
<1>3. \A d \in Clients : step[d] > 5 => step'[d] > 5
  BY DEF FlowInv, ExchangeInv, ClientTypes
<1> QED
  BY <1>1, <1>2, <1>3 DEF FlowInv, BackupsStay

(* No more do the answers. *)
LEMMA AnswersFrame ==
  ASSUME FlowInv, UNCHANGED backup_info,
         \A d \in Clients :
           /\ step'[d] = step[d] \/ (step[d] = 0 /\ step'[d] \in {0, 1})
           /\ Reply(d)' \in {Reply(d), NoResponse}
           /\ outcome'[d] = outcome[d] \/ outcome'[d] # "AssertContent"
  PROVE  AnswersAreRight'
<1>1. First' = First /\ Second' = Second /\ Whole(First)' = Whole(First)
  BY DEF First, Second, Whole
<1>2. NoResponse.op \notin {"SUCCESSFUL_LIST_FILES", "SUCCESSFUL_RESTORE"}
  BY DEF NoResponse
<1> QED
  BY <1>1, <1>2 DEF FlowInv, AnswersAreRight

(* A response that is gone gets nobody past a request. *)
LEMMA PastFrame ==
  ASSUME FlowInv, NEW d \in Clients, NEW k \in {2, 3},
         step'[d] = step[d] \/ (step[d] = 0 /\ step'[d] \in {0, 1}),
         Reply(d)' \in {Reply(d), NoResponse}
  PROVE  Past(d, k)' => Past(d, k)
<1>1. NoResponse.op # Client!ExpectedOp(k)
  BY ExpectedOps DEF NoResponse
<1>2. (Client!ExpectedOp(k))' = Client!ExpectedOp(k)
  BY DEF Client!ExpectedOp
<1> QED
  BY <1>1, <1>2 DEF Past, FlowInv, ExchangeInv, ClientTypes

(* What a client does but for taking a response, what a thread does but    *)
(* for serving, and waiting for either, leaves the flow as it is.          *)
LEMMA FlowFrame ==
  ASSUME FlowInv, UNCHANGED <<backup_info, user_id, store>>,
         \A d \in Clients :
           /\ step'[d] = step[d] \/ (step[d] = 0 /\ step'[d] \in {0, 1})
           /\ Reply(d)' \in {Reply(d), NoResponse}
           /\ outcome'[d] = outcome[d] \/ outcome'[d] # "AssertContent"
  PROVE  StoreHoldsBackups' /\ BackupsStay' /\ AnswersAreRight'
<1>1. \A d \in Clients : step'[d] \in Nat /\ step'[d] >= step[d]
  BY DEF FlowInv, ExchangeInv, ClientTypes
<1>2. \A d \in Clients : \A k \in {2, 3} : Past(d, k)' => Past(d, k)
  BY PastFrame
<1> QED
  BY <1>1, <1>2, StoreFrame, AnswersFrame

(* So do the steps of a thread that accepts, reads and answers. *)
LEMMA WaitingFlows ==
  ASSUME FlowInv, NEW c \in Clients,
         Accept(c) \/ ReadRequest(c) \/ Respond(c) \/ FindClientGone(c)
  PROVE  StoreHoldsBackups' /\ BackupsStay' /\ AnswersAreRight'
<1>1. /\ UNCHANGED <<backup_info, user_id, step, outcome, link>>
      /\ UNCHANGED store
  BY StoreWaits DEF Accept, ReadRequest, Respond, FindClientGone, clientVars, Client!Taken,
                    Client!Deliver, Client!config
<1>2. ASSUME NEW d \in Clients PROVE Reply(d)' \in {Reply(d), NoResponse}
  <2>1. CASE Accept(c) \/ ReadRequest(c)
    BY <2>1, ThreadEffects
       DEF Accept, ReadRequest, clientVars, Client!Taken, Reply, FlowInv, ExchangeInv
  <2>2. CASE Respond(c)
    <3>1. /\ response' = [response EXCEPT ![c] = NoResponse]
          /\ inbox' = [inbox EXCEPT ![c] = IF link[c] = "waiting" THEN response[c] ELSE NoResponse]
          /\ inbox[c] = NoResponse
      BY <2>2, ThreadEffects, WordsAgree
         DEF Respond, Client!Deliver, FlowInv, ExchangeInv, ExchangesMatch
    <3> QED
      BY <3>1 DEF Reply, FlowInv, ExchangeInv, ClientTypes, P!Inv, P!TypeOK
  <2>3. CASE FindClientGone(c)
    <3>1. response' = [response EXCEPT ![c] = NoResponse] /\ inbox' = inbox
      BY <2>3, ThreadEffects DEF FindClientGone, Client!Taken, FlowInv, ExchangeInv
    <3> QED
      BY <3>1 DEF Reply, FlowInv, ExchangeInv, P!Inv, P!TypeOK
  <2> QED
    BY <2>1, <2>2, <2>3
<1> QED
  BY <1>1, <1>2, FlowFrame

(* And those of a process that is not taking a response. *)
LEMMA ClientsFlow ==
  ASSUME FlowInv, NEW c \in Clients,
         \/ ReadInfo(c) \/ FailToIndex(c) \/ Connect(c) \/ FailToConnect(c) \/ FailToRead(c)
         \/ Send(c) \/ FailToParse(c) \/ Die(c)
  PROVE  StoreHoldsBackups' /\ BackupsStay' /\ AnswersAreRight'
<1>1. /\ UNCHANGED <<backup_info, user_id, response>>
      /\ UNCHANGED store
  BY StoreStays DEF ReadInfo, FailToIndex, Connect, FailToConnect, FailToRead, Send, FailToParse,
        Die, Client!ReadInfo, Client!FailToIndex, Client!Connect, Client!FailToConnect,
        Client!FailToRead, Client!Send, Client!FailToParse, Client!Die, Client!Close,
        Client!config, serverVars
<1>2. \A d \in Clients : step'[d] = step[d] \/ (step[d] = 0 /\ step'[d] \in {0, 1})
  BY DEF ReadInfo, FailToIndex, Connect, FailToConnect, FailToRead, Send, FailToParse,
        Die, Client!ReadInfo, Client!FailToIndex, Client!Connect, Client!FailToConnect,
        Client!FailToRead, Client!Send, Client!FailToParse, Client!Die, FlowInv, ExchangeInv,
        ClientTypes
<1>3. \A d \in Clients : outcome'[d] = outcome[d] \/ outcome'[d] # "AssertContent"
  <2>1. Client!ServerInfoResult # "AssertContent"
    BY ClientAssumption DEF Client!ServerInfoResult, FlowInv, ExchangeInv, ClientTypes
  <2>2. outcome' = outcome \/ \E how : how # "AssertContent" /\ outcome' = [outcome EXCEPT ![c] = how]
    <3>1. CASE ReadInfo(c)
      <4>1. \E how \in {Client!ServerInfoResult, "ReadingBackupInfoFile"} :
              outcome' = [outcome EXCEPT ![c] = how]
        BY <3>1 DEF ReadInfo, Client!ReadInfo, Client!End
      <4> QED
        BY <2>1, <4>1
    <3>2. CASE FailToIndex(c) \/ FailToConnect(c) \/ FailToRead(c) \/ FailToParse(c) \/ Die(c)
      <4>1. \E how \in {"IndexError", "ConnectionRefusedError", "FileNotFoundError",
                         "FailedToParseMessage", "killed"} : outcome' = [outcome EXCEPT ![c] = how]
        BY <3>2 DEF FailToIndex, FailToConnect, FailToRead, FailToParse, Die, Client!FailToIndex,
             Client!FailToConnect, Client!FailToRead, Client!FailToParse, Client!Die, Client!End
      <4> QED
        BY <4>1
    <3>3. CASE Connect(c) \/ Send(c)
      BY <3>3 DEF Connect, Send, Client!Connect, Client!Send
    <3> QED
      BY <3>1, <3>2, <3>3
  <2> QED
    BY <2>2 DEF FlowInv, ExchangeInv, ClientTypes
<1>4. inbox' = inbox \/ inbox' = [inbox EXCEPT ![c] = NoResponse]
  BY WordsAgree DEF ReadInfo, FailToIndex, Connect, FailToConnect, FailToRead, Send, FailToParse,
        Die, Client!ReadInfo, Client!FailToIndex, Client!Connect, Client!FailToConnect,
        Client!FailToRead, Client!Send, Client!FailToParse, Client!Die, Client!Close
<1>5. \A d \in Clients : Reply(d)' \in {Reply(d), NoResponse}
  BY <1>1, <1>4 DEF Reply, FlowInv, ExchangeInv, ClientTypes, ExchangesMatch
<1> QED
  BY <1>1, <1>2, <1>3, <1>5, FlowFrame

(* A process goes on with a response that is right, and past its list with *)
(* the two files that it has listed.                                       *)
LEMMA ReceivingFlows ==
  ASSUME FlowInv, NEW c \in Clients, Receive(c)
  PROVE  StoreHoldsBackups' /\ BackupsStay' /\ AnswersAreRight'
<1> DEFINE result == Client!Result(step[c], inbox[c])
<1>1. /\ step[c] \in 1 .. 7 /\ inbox[c] # NoResponse /\ outcome[c] = "running"
      /\ step'[c] = IF result = "running" THEN step[c] + 1 ELSE step[c]
      /\ outcome'[c] = result /\ inbox'[c] = NoResponse /\ response[c] = NoResponse
      /\ \A d \in Clients \ {c} :
           step'[d] = step[d] /\ outcome'[d] = outcome[d] /\ inbox'[d] = inbox[d]
      /\ UNCHANGED <<backup_info, user_id, response>>
  BY ReceiveEffect DEF FlowInv, ExchangeInv, ExchangesMatch, ClientTypes, serverVars
<1>2. UNCHANGED store
  BY StoreStays, ReceiveEffect DEF FlowInv
<1>3. /\ result = "running" =>
           /\ step[c] < 7
           /\ step[c] # 1 => inbox[c].op = Client!ExpectedOp(step[c])
           /\ step[c] = 4 => inbox[c].names = backup_info
      /\ result = "AssertContent" =>
           step[c] = 5 /\ inbox[c].op = "SUCCESSFUL_RESTORE" /\ inbox[c].content # Whole(First)
  BY <1>1, Results
<1>4. Reply(c) = inbox[c] /\ Reply(c)' = NoResponse /\ \A d \in Clients \ {c} : Reply(d)' = Reply(d)
  BY <1>1 DEF Reply
<1>5. \A d \in Clients : step'[d] \in Nat /\ step'[d] >= step[d]
  BY <1>1 DEF FlowInv, ExchangeInv, ClientTypes
<1>6. ASSUME NEW d \in Clients, NEW k \in {2, 3}, Past(d, k)' PROVE Past(d, k)
  <2>1. (Client!ExpectedOp(k))' = Client!ExpectedOp(k) /\ NoResponse.op # Client!ExpectedOp(k)
    BY ExpectedOps DEF Client!ExpectedOp, NoResponse
  <2>2. CASE d # c
    BY <1>1, <1>4, <1>6, <2>1, <2>2 DEF Past
  <2>3. CASE d = c
    <3>1. step'[c] > k
      BY <1>4, <1>6, <2>1, <2>3 DEF Past
    <3>2. step[c] > k \/ (step[c] = k /\ inbox[c].op = Client!ExpectedOp(k))
      BY <1>1, <1>3, <3>1
    <3> QED
      BY <1>4, <2>3, <3>2 DEF Past
  <2> QED
    BY <2>2, <2>3
<1>7. StoreHoldsBackups' /\ BackupsStay'
  BY <1>1, <1>2, <1>5, <1>6, StoreFrame
<1>8. AnswersAreRight'
  <2>1. First' = First /\ Second' = Second /\ Whole(First)' = Whole(First)
    BY <1>1 DEF First, Second, Whole
  <2>2. NoResponse.op \notin {"SUCCESSFUL_LIST_FILES", "SUCCESSFUL_RESTORE"}
    BY DEF NoResponse
  <2>3. step'[c] > 4 => Len(backup_info) = 2 /\ First # Second
    <3>1. CASE step[c] > 4
      BY <3>1 DEF FlowInv, AnswersAreRight
    <3>2. CASE step[c] = 4 /\ result = "running"
      <4>1. inbox[c].op = "SUCCESSFUL_LIST_FILES" /\ inbox[c].names = backup_info
        BY <1>3, <3>2, ExpectedOps
      <4>2. Len(backup_info) <= 2 /\ (Len(backup_info) = 2 => First # Second)
        BY <1>4, <3>2, <4>1 DEF FlowInv, AnswersAreRight, First, Second
      <4>3. 2 \in DOMAIN backup_info /\ backup_info # Unreadable
        BY <3>2 DEF FlowInv, ExchangeInv, ConfigSuffices
      <4>4. backup_info \in Seq(Names)
        BY <4>3, ClientAssumption DEF FlowInv, ExchangeInv, ClientTypes
      <4>5. Len(backup_info) \in Nat /\ DOMAIN backup_info = 1 .. Len(backup_info)
        BY <4>4
      <4>6. Len(backup_info) = 2
        BY <4>2, <4>3, <4>5
      <4> QED
        BY <4>2, <4>6
    <3> QED
      BY <1>1, <3>1, <3>2
  <2>4. outcome'[c] # "AssertContent"
    BY <1>1, <1>3, <1>4 DEF FlowInv, AnswersAreRight
  <2> QED
    BY <1>1, <1>4, <2>1, <2>2, <2>3, <2>4 DEF FlowInv, AnswersAreRight
<1> QED
  BY <1>7, <1>8

(* Who is past a backup has read the file that it has backed up.           *)
LEMMA FilesOfThePast ==
  ASSUME FlowInv, NEW d \in Clients, NEW k \in {2, 3}, Past(d, k)
  PROVE  /\ user_id[d] \in Users
         /\ backup_info[k - 1] \in DOMAIN PayloadOf /\ backup_info[k - 1] \in Names
         /\ k = 2 => First = backup_info[k - 1]
         /\ k = 3 => Second = backup_info[k - 1]
<1>1. k = 2 \/ k = 3
  OBVIOUS
<1>2. step[d] \in 0 .. 7 /\ user_id[d] \in Users
  BY DEF FlowInv, ExchangeInv, ClientTypes
<1>3. CASE step[d] > k
  <2>1. k - 1 \in {1, 2} /\ step[d] > (k - 1) + 1
    BY <1>1, <1>2, <1>3
  <2>2. backup_info[k - 1] \in DOMAIN PayloadOf
    BY <2>1 DEF FlowInv, ExchangeInv, ConfigSuffices
  <2> QED
    BY <1>1, <1>2, <2>2, ClientAssumption DEF First, Second
<1>4. CASE step[d] = k /\ Reply(d).op = Client!ExpectedOp(k)
  <2>1. Reply(d) # NoResponse
    BY <1>1, <1>4, ExpectedOps DEF NoResponse
  <2>2. MayAsk(d)
    BY <2>1 DEF Reply, FlowInv, ExchangeInv, ExchangesMatch, ConfigSuffices
  <2>3. Wanted(d) = backup_info[k - 1]
    BY <1>1, <1>4 DEF Wanted, First, Second
  <2> QED
    BY <1>1, <1>2, <1>4, <2>2, <2>3, BackedUpFile DEF First, Second
<1> QED
  BY <1>3, <1>4 DEF Past

(* A backup that is stored is one of the process that asked for it; it is  *)
(* stored once, so no two processes of a user id get past the second.      *)
LEMMA StoringFlows ==
  ASSUME FlowInv, NEW c \in Clients, MayAsk(c), user_id[c] \in Users, Stores(c),
         inbox[c] = NoResponse, response[c] = NoResponse,
         UNCHANGED <<backup_info, user_id, step, inbox, outcome>>,
         \A d \in Clients \ {c} : response'[d] = response[d]
  PROVE  StoreHoldsBackups' /\ BackupsStay' /\ AnswersAreRight'
<1> DEFINE u == user_id[c]
           n == Wanted(c)
<1>1. /\ step[c] \in {2, 3} /\ n \in Names /\ u \in Users /\ store[u][n] = NoFile
      /\ store' = [store EXCEPT ![u][n] = Whole(n)]
      /\ response'[c].op = "SUCCESSFUL_BACKUP_OR_DELETE"
  BY DEF Stores, Kept
<1>2. /\ backup_info # Unreadable
      /\ \E i \in {1, 2} \cap DOMAIN backup_info : n = backup_info[i]
      /\ n \in DOMAIN PayloadOf /\ Whole(n) # NoFile
  BY <1>1, BackedUpFile DEF Whole
<1>3. /\ store'[u][n] = Whole(n)
      /\ \A v \in Users, m \in Names : v # u \/ m # n => store'[v][m] = store[v][m]
  BY <1>1, StoreType
<1>4. StoreHoldsBackups'
  BY <1>1, <1>2, <1>3 DEF FlowInv, StoreHoldsBackups, Whole
<1>5. /\ First' = First /\ Second' = Second
      /\ Whole(First)' = Whole(First) /\ Whole(Second)' = Whole(Second)
      /\ \A k \in {2, 3} : (Client!ExpectedOp(k))' = Client!ExpectedOp(k)
  BY DEF First, Second, Whole, Client!ExpectedOp
<1>6. \A d \in Clients \ {c} : Reply(d)' = Reply(d) /\ \A k \in {2, 3} : Past(d, k)' <=> Past(d, k)
  BY <1>5 DEF Reply, Past
<1>7. ASSUME NEW d \in Clients, Past(d, 2)'
      PROVE  store'[user_id[d]][First] = Whole(First) \/ \E e \in Clients : user_id[e] = user_id[d] /\ step[e] > 5
  <2>1. CASE Past(d, 2)
    <3>1. First \in Names /\ user_id[d] \in Users
      BY <2>1, FilesOfThePast
    <3> QED
      BY <1>1, <1>3, <2>1, <3>1, <1>2 DEF FlowInv, BackupsStay
  <2>2. CASE ~Past(d, 2)
    <3>1. d = c /\ step[c] = 2
      BY <1>1, <1>5, <1>6, <1>7, <2>2 DEF Past, FlowInv, ExchangeInv, ClientTypes
    <3> QED
      BY <1>3, <3>1 DEF Wanted
  <2> QED
    BY <2>1, <2>2
<1>8. ASSUME step[c] = 3
      PROVE  First # Second /\ \A d \in Clients : user_id[d] = u => ~Past(d, 3)
  <2>1. n = Second
    BY <1>8 DEF Wanted
  <2>2. \A d \in Clients : user_id[d] = u => ~Past(d, 3)
    BY <1>1, <1>2, <2>1 DEF FlowInv, BackupsStay
  <2>3. \A d \in Clients : step[d] > 5 => Past(d, 3)
    BY DEF Past, FlowInv, ExchangeInv, ClientTypes
  <2>4. Past(c, 2)
    BY <1>8 DEF Past
  <2>5. store[u][First] = Whole(First)
    BY <2>2, <2>3, <2>4 DEF FlowInv, BackupsStay
  <2> QED
    BY <1>1, <1>2, <2>1, <2>2, <2>5
<1>9. ASSUME NEW d \in Clients, Past(d, 3)'
      PROVE  /\ First # Second /\ store'[user_id[d]][Second] = Whole(Second)
             /\ \A e \in Clients : user_id[e] = user_id[d] /\ Past(e, 3)' => e = d
  <2>1. CASE Past(d, 3)
    <3>1. First # Second /\ store[user_id[d]][Second] = Whole(Second)
      BY <2>1 DEF FlowInv, BackupsStay
    <3>2. Second \in Names /\ user_id[d] \in Users
      BY <2>1, FilesOfThePast
    <3>3. user_id[d] # u \/ n # Second
      BY <1>1, <1>2, <3>1
    <3>4. store'[user_id[d]][Second] = Whole(Second)
      BY <1>3, <3>1, <3>2, <3>3
    <3>5. ASSUME NEW e \in Clients, user_id[e] = user_id[d], Past(e, 3)' PROVE e = d
      <4>1. CASE Past(e, 3)
        BY <2>1, <3>5, <4>1 DEF FlowInv, BackupsStay
      <4>2. CASE ~Past(e, 3)
        <5>1. e = c /\ step[c] = 3
          BY <1>1, <1>5, <1>6, <3>5, <4>2 DEF Past, FlowInv, ExchangeInv, ClientTypes
        <5> QED
          BY <1>8, <2>1, <3>5, <5>1
      <4> QED
        BY <4>1, <4>2
    <3> QED
      BY <3>1, <3>4, <3>5
  <2>2. CASE ~Past(d, 3)
    <3>1. d = c /\ step[c] = 3
      BY <1>1, <1>5, <1>6, <1>9, <2>2 DEF Past, FlowInv, ExchangeInv, ClientTypes
    <3>2. \A e \in Clients : user_id[e] = u /\ Past(e, 3)' => e = c
      BY <1>6, <1>8, <3>1
    <3> QED
      BY <1>3, <1>8, <3>1, <3>2 DEF Wanted
  <2> QED
    BY <2>1, <2>2
<1>10. BackupsStay'
  BY <1>5, <1>7, <1>9 DEF BackupsStay
<1>11. AnswersAreRight'
  <2>1. step[c] \in {2, 3} /\ \A d \in Clients \ {c} : Reply(d)' = Reply(d)
    BY <1>1, <1>6
  <2> QED
    BY <1>5, <2>1 DEF FlowInv, AnswersAreRight
<1> QED
  BY <1>4, <1>10, <1>11

(* Who deletes the first file is past its step, and does not touch the     *)
(* second.                                                                 *)
LEMMA RemovingFlows ==
  ASSUME FlowInv, NEW c \in Clients, user_id[c] \in Users, Removes(c),
         inbox[c] = NoResponse, response[c] = NoResponse,
         UNCHANGED <<backup_info, user_id, step, inbox, outcome>>,
         \A d \in Clients \ {c} : response'[d] = response[d]
  PROVE  StoreHoldsBackups' /\ BackupsStay' /\ AnswersAreRight'
<1> DEFINE u == user_id[c]
<1>1. /\ step[c] = 6 /\ First \in Names /\ u \in Users
      /\ store' = [store EXCEPT ![u][First] = NoFile]
  BY DEF Removes
<1>2. /\ store'[u][First] = NoFile
      /\ \A v \in Users, m \in Names : v # u \/ m # First => store'[v][m] = store[v][m]
  BY <1>1, StoreType
<1>3. /\ First' = First /\ Second' = Second
      /\ Whole(First)' = Whole(First) /\ Whole(Second)' = Whole(Second)
      /\ \A k \in {2, 3} : (Client!ExpectedOp(k))' = Client!ExpectedOp(k)
  BY DEF First, Second, Whole, Client!ExpectedOp
<1>4. \A d \in Clients \ {c} : Reply(d)' = Reply(d)
  BY DEF Reply
<1>5. \A d \in Clients, k \in {2, 3} : Past(d, k)' <=> Past(d, k)
  BY <1>1, <1>3, <1>4 DEF Past
<1>6. StoreHoldsBackups'
  BY <1>1, <1>2 DEF FlowInv, StoreHoldsBackups
<1>7. ASSUME NEW d \in Clients, Past(d, 2)
      PROVE  store'[user_id[d]][First] = Whole(First) \/ \E e \in Clients : user_id[e] = user_id[d] /\ step[e] > 5
  <2>1. First \in Names /\ user_id[d] \in Users
    BY <1>7, FilesOfThePast
  <2>2. CASE user_id[d] = u
    BY <1>1, <2>2
  <2>3. CASE user_id[d] # u
    BY <1>2, <1>7, <2>1, <2>3 DEF FlowInv, BackupsStay
  <2> QED
    BY <2>2, <2>3
<1>8. ASSUME NEW d \in Clients, Past(d, 3)
      PROVE  First # Second /\ store'[user_id[d]][Second] = Whole(Second)
  <2>1. First # Second /\ store[user_id[d]][Second] = Whole(Second)
    BY <1>8 DEF FlowInv, BackupsStay
  <2>2. Second \in Names /\ user_id[d] \in Users
    BY <1>8, FilesOfThePast
  <2> QED
    BY <1>2, <2>1, <2>2
<1>9. BackupsStay'
  BY <1>3, <1>5, <1>7, <1>8 DEF FlowInv, BackupsStay
<1>10. AnswersAreRight'
  BY <1>1, <1>3, <1>4 DEF FlowInv, AnswersAreRight
<1> QED
  BY <1>6, <1>9, <1>10

(* A list has no more than the two files of backup.info, and what is       *)
(* restored is the first of them: nobody can have deleted it, since only   *)
(* one process of a user id gets that far.                                 *)
LEMMA LookingFlows ==
  ASSUME FlowInv, NEW c \in Clients, user_id[c] \in Users, Looks(c),
         inbox[c] = NoResponse, response[c] = NoResponse,
         UNCHANGED <<backup_info, user_id, step, inbox, outcome>>,
         \A d \in Clients \ {c} : response'[d] = response[d]
  PROVE  StoreHoldsBackups' /\ BackupsStay' /\ AnswersAreRight'
<1>1. /\ First' = First /\ Second' = Second
      /\ Whole(First)' = Whole(First) /\ Whole(Second)' = Whole(Second)
      /\ \A k \in {2, 3} : (Client!ExpectedOp(k))' = Client!ExpectedOp(k)
  BY DEF First, Second, Whole, Client!ExpectedOp
<1>2. /\ \A d \in Clients \ {c} : Reply(d)' = Reply(d)
      /\ inbox'[c] = NoResponse /\ Reply(c)' = response'[c]
  BY DEF Reply
<1>3. step[c] \in {2, 3} => response'[c].op = "SERVER_ERROR"
  BY DEF Looks
<1>4. \A d \in Clients, k \in {2, 3} : Past(d, k)' => Past(d, k)
  BY <1>1, <1>2, <1>3, ExpectedOps DEF Past
<1>5. StoreHoldsBackups' /\ BackupsStay'
  <2>1. UNCHANGED store
    BY DEF Looks
  <2>2. \A d \in Clients : step'[d] \in Nat /\ step'[d] >= step[d]
    BY DEF FlowInv, ExchangeInv, ClientTypes
  <2> QED
    BY <1>4, <2>1, <2>2, StoreFrame
<1>6. ASSUME step[c] = 4, response'[c].op = "SUCCESSFUL_LIST_FILES"
      PROVE  /\ Len(response'[c].names) <= 2
             /\ Len(response'[c].names) = 2 => response'[c].names[1] # response'[c].names[2]
  <2>1. response'[c].names \in P!Store!Enumerations(P!Store!Stored(user_id[c]))
    BY <1>6 DEF Looks
  <2>2. P!Store!Stored(user_id[c]) \subseteq {First, Second}
    <3>1. \A m \in P!Store!Stored(user_id[c]) : m \in Names /\ store[user_id[c]][m] # NoFile
      BY DEF P!Store!Stored, store
    <3>2. \A m \in P!Store!Stored(user_id[c]) : \E i \in {1, 2} : m = backup_info[i]
      BY <3>1 DEF FlowInv, StoreHoldsBackups
    <3> QED
      BY <3>2 DEF First, Second
  <2>3. \A S \in SUBSET {First, Second} : \A ns \in P!Store!Enumerations(S) :
          Len(ns) <= 2 /\ (Len(ns) = 2 => ns[1] # ns[2])
    BY ListsOfTwo, Zenon
  <2> QED
    BY <2>1, <2>2, <2>3, Zenon
<1>7. ASSUME step[c] = 5, response'[c].op = "SUCCESSFUL_RESTORE"
      PROVE  response'[c].content = Whole(First)
  <2>1. response'[c].content = store[user_id[c]][First]
    BY <1>7 DEF Looks, Kept
  <2>2. Past(c, 2) /\ Past(c, 3)
    BY <1>7 DEF Past
  <2>3. ASSUME NEW d \in Clients, user_id[d] = user_id[c], step[d] > 5 PROVE FALSE
    <3>1. Past(d, 3)
      BY <2>3 DEF Past, FlowInv, ExchangeInv, ClientTypes
    <3>2. d = c
      BY <2>2, <2>3, <3>1 DEF FlowInv, BackupsStay
    <3> QED
      BY <1>7, <2>3, <3>2
  <2> QED
    BY <2>1, <2>2, <2>3 DEF FlowInv, BackupsStay
<1>8. AnswersAreRight'
  BY <1>1, <1>2, <1>6, <1>7 DEF FlowInv, AnswersAreRight
<1> QED
  BY <1>5, <1>8

(* Whatever a thread does for its request, the flow goes on as it should. *)
LEMMA ServingFlows ==
  ASSUME EmptyName \notin Names, FlowInv, NEW c \in Clients, Serve(c)
  PROVE  StoreHoldsBackups' /\ BackupsStay' /\ AnswersAreRight'
<1>1. /\ user_id[c] \in Users /\ MayAsk(c)
      /\ UNCHANGED <<backup_info, user_id, step, inbox, outcome>>
      /\ \A d \in Clients \ {c} : response'[d] = response[d]
      /\ response[c] = NoResponse /\ inbox[c] = NoResponse
  BY ServeFrame
<1>2. CASE UNCHANGED <<store, response>>
  <2>1. \A d \in Clients : Reply(d)' = Reply(d)
    BY <1>1, <1>2 DEF Reply
  <2> QED
    BY <1>1, <1>2, <2>1, FlowFrame
<1>3. CASE Stores(c)
  BY <1>1, <1>3, StoringFlows
<1>4. CASE Removes(c)
  BY <1>1, <1>4, RemovingFlows
<1>5. CASE Looks(c)
  BY <1>1, <1>5, LookingFlows
<1> QED
  BY <1>2, <1>3, <1>4, <1>5, ServeOnStore DEF Admits

(* After a crash the store may have the file of a backup that was under    *)
(* way, where there was none; every response that is on its way is lost.   *)
LEMMA CrashedFlows ==
  ASSUME FlowInv, Crash
  PROVE  StoreHoldsBackups' /\ BackupsStay' /\ AnswersAreRight'
<1>1. /\ UNCHANGED <<backup_info, server_info, user_id, step, inbox, outcome>>
      /\ response' = [d \in Clients |-> NoResponse]
  BY SameRestart, WordsAgree DEF Crash, Client!Disconnect, Client!config, P!Restart
<1>2. P!Store!Crash
  <2>1. P!StepInv /\ P!Restart
    BY SameRestart DEF FlowInv, ExchangeInv, P!StepInv, Crash
  <2> QED
    BY <2>1, ServerIsInstantiated, P!CrashStep
<1>3. \A d \in Clients : Reply(d)' \in {Reply(d), NoResponse}
  <2>1. ASSUME NEW d \in Clients PROVE inbox[d] # NoResponse => Reply(d)' = Reply(d)
    BY <1>1 DEF Reply
  <2>2. ASSUME NEW d \in Clients PROVE inbox[d] = NoResponse => Reply(d)' = NoResponse
    BY <1>1 DEF Reply
  <2> QED
    BY <2>1, <2>2
<1>4. CASE UNCHANGED store
  BY <1>1, <1>3, <1>4, FlowFrame
<1>5. CASE ~UNCHANGED store
  <2>1. PICK c \in Clients, whole \in BOOLEAN :
          /\ request[c] # P!Store!NoRequest /\ request[c].op = "BACKUP_FILE"
          /\ store[request[c].user][request[c].name] = NoFile
          /\ store' = [store EXCEPT ![request[c].user][request[c].name] =
                         [payload |-> request[c].payload, complete |-> whole]]
    BY <1>2, <1>5 DEF P!Store!Crash, P!Store!Pending, store
  <2> DEFINE u == user_id[c]
             n == Wanted(c)
             torn == [payload |-> PayloadOf[n], complete |-> whole]
  <2>2. request[c] = Asked(c) /\ MayAsk(c)
    BY <2>1, WordsAgree DEF FlowInv, ExchangeInv, ExchangesMatch
  <2>3. step[c] \in {2, 3} /\ request[c].user = u /\ request[c].name = n /\ u \in Users
        /\ request[c].payload = PayloadOf[n]
    BY <2>1, <2>2, Requested DEF Wanted, MayAsk, FlowInv, ExchangeInv, ClientTypes
  <2>4. /\ backup_info # Unreadable
        /\ \E i \in {1, 2} \cap DOMAIN backup_info : n = backup_info[i]
        /\ n \in DOMAIN PayloadOf /\ n \in Names /\ torn # NoFile
    BY <2>2, <2>3, BackedUpFile
  <2>5. /\ store[u][n] = NoFile /\ store'[u][n] = torn
        /\ \A v \in Users, m \in Names : v # u \/ m # n => store'[v][m] = store[v][m]
    BY <2>1, <2>3, <2>4, StoreType
  <2>6. StoreHoldsBackups'
    BY <1>1, <2>4, <2>5 DEF FlowInv, StoreHoldsBackups
  <2>7. /\ First' = First /\ Second' = Second
        /\ Whole(First)' = Whole(First) /\ Whole(Second)' = Whole(Second)
    BY <1>1 DEF First, Second, Whole
  <2>8. \A d \in Clients, k \in {2, 3} : Past(d, k)' => Past(d, k)
    BY <1>1, <1>3, PastFrame
  <2>9. ASSUME NEW d \in Clients, Past(d, 2)
        PROVE  store'[user_id[d]][First] = Whole(First) \/ \E e \in Clients : user_id[e] = user_id[d] /\ step[e] > 5
    <3>1. First \in Names /\ user_id[d] \in Users /\ Whole(First) # NoFile
      BY <2>9, FilesOfThePast, PresentFiles DEF Whole
    <3> QED
      BY <2>5, <2>9, <3>1 DEF FlowInv, BackupsStay
  <2>10. ASSUME NEW d \in Clients, Past(d, 3)
         PROVE  First # Second /\ store'[user_id[d]][Second] = Whole(Second)
    <3>1. Second \in Names /\ user_id[d] \in Users /\ Whole(Second) # NoFile
      BY <2>10, FilesOfThePast, PresentFiles DEF Whole
    <3>2. First # Second /\ store[user_id[d]][Second] = Whole(Second)
      BY <2>10 DEF FlowInv, BackupsStay
    <3> QED
      BY <2>5, <3>1, <3>2
  <2>11. BackupsStay'
    BY <1>1, <2>7, <2>8, <2>9, <2>10 DEF FlowInv, BackupsStay
  <2>12. AnswersAreRight'
    BY <1>1, <1>3, AnswersFrame
  <2> QED
    BY <2>6, <2>11, <2>12
<1> QED
  BY <1>4, <1>5

(* Every step of the system keeps the flows. *)
LEMMA NextFlow ==
  ASSUME ~DiskMayFill, EmptyName \notin Names, FlowInv, [Next]_vars
  PROVE  FlowInv'
<1>1. ExchangeInv'
  BY NextExchange DEF FlowInv
<1>2. P!PromiseInv'
  <2>1. [P!Next]_P!vars
    BY StepsOfServer DEF FlowInv, ExchangeInv
  <2> QED
    BY <2>1, ServerIsInstantiated, P!NextPromise DEF FlowInv, ExchangeInv
<1>3. CASE Boot \/ Terminated \/ UNCHANGED vars
  <2>1. UNCHANGED <<backup_info, user_id, step, outcome, inbox, response>> /\ UNCHANGED serverVars
    BY <1>3 DEF Boot, Terminated, vars, clientVars, serverVars
  <2>2. UNCHANGED store
    BY <2>1, StoreStays
  <2>3. \A d \in Clients : Reply(d)' = Reply(d)
    BY <2>1 DEF Reply
  <2> QED
    BY <1>1, <1>2, <2>1, <2>2, <2>3, FlowFrame DEF FlowInv
<1>4. CASE Crash \/ \E c \in Clients : RunOutOfThreads(c)
  BY <1>1, <1>2, <1>4, CrashedFlows DEF RunOutOfThreads, FlowInv
<1>5. ASSUME NEW c \in Clients, ServerSteps(c) \/ ClientSteps(c) \/ Die(c) PROVE FlowInv'
  BY <1>1, <1>2, <1>5, WaitingFlows, ServingFlows, ClientsFlow, ReceivingFlows
     DEF ServerSteps, ClientSteps, FlowInv
<1> QED
  BY <1>3, <1>4, <1>5 DEF Next

(* At first the store is empty and nobody is past anything. *)
LEMMA InitFlow ==
  ASSUME EmptyName \notin Names, Init PROVE FlowInv
<1>1. ExchangeInv
  BY InitExchange
<1>2. P!PromiseInv
  BY SameInit, ServerIsInstantiated, P!InitPromise DEF Init
<1>3. \A u \in Users, n \in Names : store[u][n] = NoFile
  BY P!NamesAreFilenames, ServerIsInstantiated DEF Init, Server!Init, store, P!storeBar
<1>4. \A c \in Clients : step[c] = 0 /\ Reply(c) = NoResponse /\ outcome[c] = "running"
  BY WordsAgree DEF Init, Client!Init, Server!Init, Reply
<1> QED
  BY <1>1, <1>2, <1>3, <1>4 DEF FlowInv, StoreHoldsBackups, BackupsStay, AnswersAreRight, Past

(* The flows stay right in every behaviour. *)
LEMMA SpecFlow ==
  ASSUME ~DiskMayFill, EmptyName \notin Names PROVE Spec => []FlowInv
<1>1. Init => FlowInv
  BY InitFlow
<1>2. FlowInv /\ [Next]_vars => FlowInv'
  BY NextFlow
<1> QED
  BY <1>1, <1>2, PTL DEF Spec

(* The assertion of main() that a restored file has the bytes that it has  *)
(* backed up never fails: as many processes as may be, of whatever user    *)
(* ids, with a server that may crash in the middle of a backup.            *)
THEOREM RestoresAreRight ==
  ASSUME ~DiskMayFill, EmptyName \notin Names PROVE Spec => []RestoredIsBackedUp
<1>1. FlowInv => RestoredIsBackedUp
  BY DEF FlowInv, AnswersAreRight, RestoredIsBackedUp
<1> QED
  BY <1>1, SpecFlow, PTL

(* A process that has got to the end has found both files.                 *)
LEMMA FinishedConfigured ==
  ASSUME FlowInv, NEW c \in Clients, outcome[c] = "finished" PROVE WellConfigured
<1>1. step[c] = 7
  BY DEF FlowInv, ExchangeInv, ConfigSuffices, Client!LastStep
<1>2. /\ server_info = "valid" /\ backup_info # Unreadable
      /\ \A i \in {1, 2} : i \in DOMAIN backup_info /\ backup_info[i] \in DOMAIN PayloadOf
  BY <1>1 DEF FlowInv, ExchangeInv, ConfigSuffices
<1>3. Len(backup_info) = 2 /\ backup_info[1] # backup_info[2]
  BY <1>1 DEF FlowInv, AnswersAreRight, First, Second
<1>4. backup_info \in Seq(Names)
  BY <1>2, ClientAssumption DEF FlowInv, ExchangeInv, ClientTypes
<1>5. Range(backup_info) \subseteq DOMAIN PayloadOf
  BY <1>2, <1>3, <1>4 DEF Range
<1> QED
  BY <1>2, <1>3, <1>5 DEF WellConfigured

(* main() only ends well where backup.info lists two different files that  *)
(* are there and server.info is valid.                                     *)
THEOREM FinishedWereConfigured ==
  ASSUME ~DiskMayFill, EmptyName \notin Names PROVE Spec => []FinishedIsConfigured
<1>1. FlowInv => FinishedIsConfigured
  BY FinishedConfigured DEF FinishedIsConfigured
<1> QED
  BY <1>1, SpecFlow, PTL

-----------------------------------------------------------------------------
(* A process that is alone with its user id.                               *)

TrackInv == FlowInv /\ Undisturbed /\ AloneIsTracked

(* With the configuration that main() expects it finds its files. *)
LEMMA WellConfiguredFiles ==
  ASSUME FlowInv, WellConfigured
  PROVE  /\ server_info = "valid" /\ backup_info # Unreadable /\ First # Second
         /\ First \in Names /\ Second \in Names
         /\ First \in DOMAIN PayloadOf /\ Second \in DOMAIN PayloadOf
         /\ \A c \in Clients : ~Client!MissesFile(c) /\ ~Client!Unread(c)
<1>1. backup_info \in Seq(Names) /\ Len(backup_info) = 2
  BY ClientAssumption DEF WellConfigured, FlowInv, ExchangeInv, ClientTypes
<1>2. DOMAIN backup_info = {1, 2}
  BY <1>1
<1>3. \A i \in {1, 2} : backup_info[i] \in DOMAIN PayloadOf /\ backup_info[i] \in Names
  BY <1>1, <1>2 DEF WellConfigured, Range
<1> QED
  BY <1>2, <1>3 DEF WellConfigured, First, Second, Client!MissesFile, Client!Unread, Client!BacksUp

(* The configuration is nobody's to change. *)
LEMMA ConfigStays ==
  ASSUME [Next]_vars
  PROVE  UNCHANGED <<backup_info, server_info, user_id>>
<1>1. ASSUME NEW c \in Clients, ServerSteps(c) \/ ClientSteps(c) \/ Die(c)
      PROVE  UNCHANGED <<backup_info, server_info, user_id>>
  BY <1>1 DEF ServerSteps, ClientSteps, Accept, ReadRequest, Serve, Respond, FindClientGone,
     ReadInfo, FailToIndex, Connect, FailToConnect, FailToRead, Send, Receive, FailToParse, Die,
     clientVars, Client!Taken, Client!Deliver, Client!ReadInfo, Client!FailToIndex,
     Client!Connect, Client!FailToConnect, Client!FailToRead, Client!Send, Client!Receive,
     Client!FailToParse, Client!Die, Client!Close, Client!config
<1>2. Crash => UNCHANGED <<backup_info, server_info, user_id>>
  BY DEF Crash, Client!Disconnect, Client!config
<1> QED
  BY <1>1, <1>2 DEF Next, RunOutOfThreads, Boot, Terminated, vars, clientVars

(* Until the first crash no connection breaks. *)
LEMMA NextUndisturbed ==
  ASSUME FlowInv, Undisturbed, [Next]_vars PROVE Undisturbed'
<1>1. ASSUME NEW c \in Clients, ServerSteps(c)
      PROVE  UNCHANGED <<restarts, serving, link>>
  <2>1. CASE Serve(c)
    BY <2>1, ServeFrame
  <2>2. CASE Accept(c) \/ ReadRequest(c) \/ Respond(c) \/ FindClientGone(c)
    BY <2>2, ThreadEffects
       DEF FlowInv, ExchangeInv, Accept, ReadRequest, Respond, FindClientGone, clientVars,
           Client!Taken, Client!Deliver
  <2> QED
    BY <1>1, <2>1, <2>2 DEF ServerSteps
<1>2. ASSUME NEW c \in Clients, ClientSteps(c) \/ Die(c)
      PROVE  /\ UNCHANGED <<restarts, serving>>
             /\ link' = link \/ \E to \in {"open", "waiting", "closed"} : link' = [link EXCEPT ![c] = to]
  BY <1>2 DEF ClientSteps, ReadInfo, FailToIndex, Connect, FailToConnect, FailToRead, Send,
     Receive, FailToParse, Die, serverVars, Client!ReadInfo, Client!FailToIndex,
     Client!Connect, Client!FailToConnect, Client!FailToRead, Client!Send, Client!Receive,
     Client!FailToParse, Client!Die, Client!Close
<1>3. Crash => restarts' # 0
  BY SameRestart DEF Crash, P!Restart, FlowInv, ExchangeInv, P!Inv, P!TypeOK
<1>4. ASSUME NEW c \in Clients, ServerSteps(c) \/ ClientSteps(c) \/ Die(c) PROVE Undisturbed'
  BY <1>1, <1>2, <1>4 DEF Undisturbed, FlowInv, ExchangeInv, ClientTypes
<1>5. CASE Boot \/ Terminated \/ UNCHANGED vars
  BY <1>5 DEF Boot, Terminated, vars, clientVars, serverVars, Undisturbed
<1> QED
  BY <1>3, <1>4, <1>5 DEF Next, RunOutOfThreads, Undisturbed

(* The same step with the same response is as far, and as good. *)
LEMMA SameReply ==
  ASSUME NEW c \in Clients, step'[c] = step[c], Reply(c)' = Reply(c)
  PROVE  /\ \A k \in {2, 3, 6} : Past(c, k)' <=> Past(c, k)
         /\ Expected(c)' <=> Expected(c)
<1>1. \A k \in {2, 3, 6} : (Client!ExpectedOp(k))' = Client!ExpectedOp(k)
  BY DEF Client!ExpectedOp
<1>2. Client!ExpectedOp(step[c])' = Client!ExpectedOp(step[c])
  BY DEF Client!ExpectedOp
<1> QED
  BY <1>1, <1>2 DEF Past, Expected, Client!IsError, Client!LastStep

(* What others do is not seen by a process that is alone. *)
LEMMA TrackFrame ==
  ASSUME FlowInv, NEW c \in Clients, Tracks(c), UNCHANGED <<backup_info, user_id>>,
         store'[user_id[c]] = store[user_id[c]],
         user_id[c] \in user_directories_' <=> user_id[c] \in user_directories_,
         step'[c] = step[c],
         Reply(c)' = Reply(c) \/ (step[c] = 7 /\ Reply(c)' = NoResponse)
  PROVE  Tracks(c)'
<1>1. First' = First /\ Second' = Second
  BY DEF First, Second
<1>2. CASE Reply(c)' = Reply(c)
  BY <1>1, <1>2, SameReply DEF Tracks
<1>3. CASE step[c] = 7 /\ Reply(c)' = NoResponse
  <2>1. \A k \in {2, 3, 6} : Past(c, k) /\ Past(c, k)'
    BY <1>3 DEF Past
  <2> QED
    BY <1>1, <1>3, <2>1 DEF Tracks
<1> QED
  BY <1>2, <1>3

(* Nothing has been said of a process that has not started. *)
LEMMA NothingAsked ==
  ASSUME FlowInv, NEW c \in Clients, step[c] = 0 PROVE Reply(c) = NoResponse /\ link[c] = "closed"
  BY DEF FlowInv, ExchangeInv, ExchangesMatch, ConfigSuffices, MayAsk, Reply

(* Threads that wait for clients change nothing that a process tracks. *)
LEMMA WaitingTracks ==
  ASSUME FlowInv, Undisturbed, restarts = 0, NEW c \in Clients, Tracks(c),
         outcome[c] \in {"running", "finished"}, NEW d \in Clients,
         Accept(d) \/ ReadRequest(d) \/ Respond(d) \/ FindClientGone(d)
  PROVE  Tracks(c)'
<1>1. /\ UNCHANGED <<backup_info, user_id, step, outcome, link>>
      /\ UNCHANGED <<store, user_directories_>>
  BY StoreWaits DEF Accept, ReadRequest, Respond, FindClientGone, clientVars, Client!Taken,
                    Client!Deliver, Client!config
<1>2. Reply(c)' = Reply(c) \/ (step[c] = 7 /\ Reply(c)' = NoResponse)
  <2>1. CASE Accept(d) \/ ReadRequest(d)
    BY <2>1, ThreadEffects
       DEF Accept, ReadRequest, clientVars, Client!Taken, Reply, FlowInv, ExchangeInv
  <2>2. ASSUME Respond(d) \/ FindClientGone(d), d # c PROVE Reply(c)' = Reply(c)
    <3>1. response' = [response EXCEPT ![d] = NoResponse]
      BY <2>2, ThreadEffects DEF FlowInv, ExchangeInv
    <3>2. inbox' = inbox \/ inbox' = [inbox EXCEPT ![d] = IF link[d] = "waiting" THEN response[d] ELSE NoResponse]
      BY <2>2, WordsAgree DEF Respond, FindClientGone, Client!Deliver, Client!Taken
    <3> QED
      BY <2>2, <3>1, <3>2 DEF Reply, FlowInv, ExchangeInv, ClientTypes, P!Inv, P!TypeOK
  <2>3. CASE Respond(c)
    <3>1. /\ response' = [response EXCEPT ![c] = NoResponse] /\ response[c] # NoResponse
          /\ inbox' = [inbox EXCEPT ![c] = IF link[c] = "waiting" THEN response[c] ELSE NoResponse]
          /\ inbox[c] = NoResponse /\ request[c] # NoRequest
      BY <2>3, ThreadEffects, WordsAgree
         DEF Respond, Client!Deliver, FlowInv, ExchangeInv, ExchangesMatch
    <3>2. link[c] = "waiting" => Reply(c)' = Reply(c)
      BY <3>1 DEF Reply, FlowInv, ExchangeInv, ClientTypes
    <3>3. link[c] # "waiting" => outcome[c] = "finished" /\ Reply(c)' = NoResponse
      BY <3>1 DEF Reply, FlowInv, ExchangeInv, ClientTypes, ExchangesMatch, P!Inv, P!TypeOK
    <3> QED
      BY <3>2, <3>3 DEF FlowInv, ExchangeInv, ConfigSuffices, Client!LastStep
  <2>4. CASE FindClientGone(c)
    <3>1. /\ response' = [response EXCEPT ![c] = NoResponse] /\ inbox' = inbox
          /\ link[c] = "closed" /\ inbox[c] = NoResponse
      BY <2>4, ThreadEffects
         DEF FindClientGone, Client!Taken, FlowInv, ExchangeInv, ExchangesMatch
    <3>2. Reply(c)' = NoResponse
      BY <3>1 DEF Reply, FlowInv, ExchangeInv, P!Inv, P!TypeOK
    <3>3. outcome[c] = "running" => Reply(c) = NoResponse
      BY <3>1 DEF Reply, FlowInv, ExchangeInv, ExchangesMatch
    <3> QED
      BY <3>2, <3>3 DEF FlowInv, ExchangeInv, ConfigSuffices, Client!LastStep
  <2> QED
    BY <2>1, <2>2, <2>3, <2>4
<1> QED
  BY <1>1, <1>2, TrackFrame

(* A thread touches the files of its user id only. *)
LEMMA ServingOthers ==
  ASSUME EmptyName \notin Names, FlowInv, NEW c \in Clients, Tracks(c), NEW d \in Clients,
         Serve(d), user_id[d] # user_id[c]
  PROVE  Tracks(c)'
<1>1. /\ UNCHANGED <<backup_info, user_id, step, inbox>> /\ response'[c] = response[c]
      /\ user_id[d] \in Users /\ user_id[c] \in Users
  BY ServeFrame DEF FlowInv, ExchangeInv, ClientTypes
<1>2. /\ store'[user_id[c]] = store[user_id[c]]
      /\ user_id[c] \in user_directories_' <=> user_id[c] \in user_directories_
  BY <1>1, ServeOnStore, StoreType DEF Admits, Stores, Removes, Looks
<1>3. Reply(c)' = Reply(c)
  BY <1>1 DEF Reply
<1> QED
  BY <1>1, <1>2, <1>3, TrackFrame

(* The thread of a process gives it the response that it expects.          *)
LEMMA ServingTracks ==
  ASSUME EmptyName \notin Names, FlowInv, WellConfigured, NEW c \in Clients, Tracks(c), Serve(c)
  PROVE  Tracks(c)'
<1> DEFINE u == user_id[c]
<1>1. /\ step[c] \in 1 .. 7 /\ u \in Users
      /\ UNCHANGED <<backup_info, user_id, step, inbox>>
      /\ Reply(c) = NoResponse /\ Reply(c)' = response'[c]
  BY ServeFrame DEF Reply
<1>2. First \in Names /\ Second \in Names /\ First # Second /\ First' = First /\ Second' = Second
      /\ Whole(First) # NoFile /\ Whole(Second) # NoFile
  BY <1>1, WellConfiguredFiles, PresentFiles DEF First, Second, Whole
<1>3. \A k \in {2, 3, 6} : Past(c, k) <=> step[c] > k
  BY <1>1, ExpectedOps DEF Past, NoResponse
<1>4. \A k \in {2, 3, 6} :
        Past(c, k)' <=> step[c] > k \/ (step[c] = k /\ response'[c].op = "SUCCESSFUL_BACKUP_OR_DELETE")
  <2>1. \A k \in {2, 3, 6} : (Client!ExpectedOp(k))' = "SUCCESSFUL_BACKUP_OR_DELETE"
    BY DEF Client!ExpectedOp
  <2> QED
    BY <1>1, <2>1 DEF Past
<1>5. Expected(c)' <=> IF step[c] \in {1, 7} THEN Client!IsError(response'[c])
                                            ELSE response'[c].op = Client!ExpectedOp(step[c])
  <2>1. Client!ExpectedOp(step[c])' = Client!ExpectedOp(step[c])
    BY <1>1 DEF Client!ExpectedOp
  <2> QED
    BY <1>1, <2>1 DEF Expected, Client!LastStep, Client!IsError
<1>6. /\ u \in user_directories_ => step[c] > 1
      /\ step[c] > 2 => u \in user_directories_
      /\ store[u][First] # NoFile <=> step[c] > 2 /\ step[c] <= 6
      /\ store[u][Second] # NoFile <=> step[c] > 3
  BY <1>1, <1>3 DEF Tracks
<1>7. SUFFICES /\ u \in user_directories_' => step[c] > 1
               /\ Past(c, 2)' => u \in user_directories_'
               /\ store'[u][First] # NoFile <=> Past(c, 2)' /\ ~Past(c, 6)'
               /\ store'[u][Second] # NoFile <=> Past(c, 3)'
               /\ response'[c] # NoResponse => Expected(c)'
  BY <1>1, <1>2 DEF Tracks
<1>8. CASE UNCHANGED <<store, response>> /\ (Admits(c) \/ UNCHANGED user_directories_)
  <2>1. response'[c] = NoResponse
    BY <1>8, ServeFrame
  <2>2. response'[c].op # "SUCCESSFUL_BACKUP_OR_DELETE"
    BY <2>1 DEF NoResponse
  <2> QED
    BY <1>1, <1>4, <1>6, <1>8, <2>1, <2>2 DEF Admits
<1>9. CASE Stores(c)
  <2>1. /\ step[c] \in {2, 3} /\ u \in user_directories_ /\ UNCHANGED user_directories_
        /\ response'[c].op = "SUCCESSFUL_BACKUP_OR_DELETE"
        /\ store' = [store EXCEPT ![u][Wanted(c)] = Whole(Wanted(c))]
    BY <1>9 DEF Stores
  <2>2. Expected(c)'
    BY <1>5, <2>1, ExpectedOps
  <2>3. CASE step[c] = 2
    <3>1. store'[u][First] = Whole(First) /\ store'[u][Second] = store[u][Second]
      BY <1>1, <1>2, <2>1, <2>3, StoreType DEF Wanted
    <3> QED
      BY <1>2, <1>4, <1>6, <2>1, <2>2, <2>3, <3>1
  <2>4. CASE step[c] = 3
    <3>1. store'[u][Second] = Whole(Second) /\ store'[u][First] = store[u][First]
      BY <1>1, <1>2, <2>1, <2>4, StoreType DEF Wanted
    <3> QED
      BY <1>2, <1>4, <1>6, <2>1, <2>2, <2>4, <3>1
  <2> QED
    BY <2>1, <2>3, <2>4
<1>10. CASE Removes(c)
  <2>1. /\ step[c] = 6 /\ UNCHANGED user_directories_
        /\ response'[c].op = "SUCCESSFUL_BACKUP_OR_DELETE"
        /\ store' = [store EXCEPT ![u][First] = NoFile]
    BY <1>10 DEF Removes
  <2>2. Expected(c)'
    BY <1>5, <2>1, ExpectedOps
  <2>3. store'[u][First] = NoFile /\ store'[u][Second] = store[u][Second]
    BY <1>1, <1>2, <2>1, StoreType
  <2> QED
    BY <1>4, <1>6, <2>1, <2>2, <2>3
<1>11. CASE Looks(c)
  <2>1. UNCHANGED <<store, user_directories_>>
    BY <1>11 DEF Looks
  <2>2. \/ /\ step[c] = 5 /\ response'[c].op = "SUCCESSFUL_RESTORE"
        \/ /\ step[c] = 7 /\ response'[c].op \in {"FILE_NOT_FOUND", "SERVER_ERROR"}
        \/ /\ step[c] = 4 /\ response'[c].op = "SUCCESSFUL_LIST_FILES"
        \/ /\ step[c] = 1 /\ response'[c].op = "NO_BACKUP_FILES_FOR_CLIENT"
    BY <1>6, <1>11 DEF Looks, Kept, Wanted
  <2>3. Expected(c)'
    BY <1>5, <2>2, ExpectedOps DEF Client!IsError
  <2> QED
    BY <1>4, <1>6, <2>1, <2>2, <2>3
<1> QED
  BY <1>8, <1>9, <1>10, <1>11, ServeOnStore DEF Admits

(* The responses that a process expects take it through main(), but for    *)
(* the order of its list.                                                  *)
LEMMA ExpectedResults ==
  ASSUME FlowInv, NEW c \in Clients, Receive(c), Expected(c)
  PROVE  /\ Client!Result(step[c], inbox[c]) \in {"running", "finished", "AssertListing"}
         /\ Client!Result(step[c], inbox[c]) = "finished" => step[c] = 7
         /\ Client!Result(step[c], inbox[c]) = "running" => step[c] \in 1 .. 6
         /\ step[c] \in {2, 3, 6} => Client!Result(step[c], inbox[c]) = "running"
<1>1. /\ step[c] \in 1 .. 7 /\ Reply(c) = inbox[c]
  BY ReceiveEffect DEF FlowInv, Reply
<1>2. step[c] = 5 /\ inbox[c].op = "SUCCESSFUL_RESTORE" => inbox[c].content = Whole(First)
  BY <1>1 DEF FlowInv, AnswersAreRight
<1>3. step[c] = 1 \/ step[c] = 2 \/ step[c] = 3 \/ step[c] = 4 \/ step[c] = 5 \/ step[c] = 6
      \/ step[c] = 7
  BY <1>1
<1>4. CASE step[c] \in {1, 7}
  BY <1>1, <1>3, <1>4 DEF Expected, Client!Result, Client!ResultWith, Client!LastStep
<1>5. CASE step[c] \in {2, 3, 6}
  <2>1. inbox[c].op = "SUCCESSFUL_BACKUP_OR_DELETE" /\ Client!ExpectedOp(step[c]) = inbox[c].op
    BY <1>1, <1>5, ExpectedOps DEF Expected, Client!LastStep
  <2> QED
    BY <1>5, <2>1 DEF Client!Result, Client!ResultWith, Client!LastStep, Client!IsError
<1>6. CASE step[c] = 4
  <2>1. inbox[c].op = "SUCCESSFUL_LIST_FILES" /\ Client!ExpectedOp(step[c]) = inbox[c].op
    BY <1>1, <1>6, ExpectedOps DEF Expected, Client!LastStep
  <2> QED
    BY <1>6, <2>1 DEF Client!Result, Client!ResultWith, Client!LastStep, Client!IsError
<1>7. CASE step[c] = 5
  <2>1. inbox[c].op = "SUCCESSFUL_RESTORE" /\ Client!ExpectedOp(step[c]) = inbox[c].op
    BY <1>1, <1>7, ExpectedOps DEF Expected, Client!LastStep
  <2>2. inbox[c].content = [payload |-> PayloadOf[backup_info[1]], complete |-> TRUE]
    BY <1>2, <1>7, <2>1 DEF Whole, First
  <2> QED
    BY <1>7, <2>1, <2>2 DEF Client!Result, Client!ResultWith, Client!LastStep, Client!IsError
<1> QED
  BY <1>3, <1>4, <1>5, <1>6, <1>7

(* A response that is taken leaves the process as far as it got it.        *)
LEMMA ReceivingTracks ==
  ASSUME FlowInv, NEW c \in Clients, Tracks(c), Receive(c), outcome'[c] \in {"running", "finished"}
  PROVE  Tracks(c)'
<1>1. /\ step[c] \in 1 .. 7 /\ inbox[c] # NoResponse /\ response[c] = NoResponse
      /\ UNCHANGED <<backup_info, user_id, response, user_directories_>>
      /\ step'[c] = IF outcome'[c] = "running" THEN step[c] + 1 ELSE step[c]
      /\ outcome'[c] = Client!Result(step[c], inbox[c])
      /\ Reply(c) = inbox[c] /\ Reply(c)' = NoResponse
  BY ReceiveEffect DEF FlowInv, ExchangeInv, ExchangesMatch, ClientTypes, Reply, serverVars
<1>2. UNCHANGED store
  BY StoreStays, ReceiveEffect DEF FlowInv
<1>3. Expected(c)
  BY <1>1 DEF Tracks
<1>4. /\ outcome'[c] = "finished" => step[c] = 7 /\ step'[c] = 7
      /\ outcome'[c] = "running" => step'[c] = step[c] + 1
  BY <1>1, <1>3, ExpectedResults
<1>5. ASSUME NEW k \in {2, 3, 6} PROVE Past(c, k)' <=> Past(c, k)
  <2>1. (Client!ExpectedOp(k))' # NoResponse.op /\ Client!ExpectedOp(k) = "SUCCESSFUL_BACKUP_OR_DELETE"
    BY DEF Client!ExpectedOp, NoResponse
  <2>2. Past(c, k)' <=> step'[c] > k
    BY <1>1, <2>1 DEF Past
  <2>3. step[c] = k => inbox[c].op = Client!ExpectedOp(k)
    BY <1>1, <1>3 DEF Expected, Client!LastStep
  <2> QED
    BY <1>1, <1>4, <2>2, <2>3 DEF Past
<1>6. First' = First /\ Second' = Second
  BY <1>1 DEF First, Second
<1> QED
  BY <1>1, <1>2, <1>4, <1>5, <1>6 DEF Tracks

(* The other steps of a process change nothing that it tracks.             *)
LEMMA ClientTracks ==
  ASSUME FlowInv, NEW c \in Clients, Tracks(c), WellConfigured,
         \/ ReadInfo(c) \/ FailToIndex(c) \/ Connect(c) \/ FailToConnect(c) \/ FailToRead(c)
         \/ Send(c) \/ FailToParse(c) \/ Die(c),
         outcome'[c] \in {"running", "finished"}
  PROVE  Tracks(c)'
<1>1. UNCHANGED <<backup_info, user_id, response>> /\ UNCHANGED serverVars
  BY DEF ReadInfo, FailToIndex, Connect, FailToConnect, FailToRead, Send, FailToParse,
        Die, Client!ReadInfo, Client!FailToIndex, Client!Connect, Client!FailToConnect,
        Client!FailToRead, Client!Send, Client!FailToParse, Client!Die, Client!Close,
        Client!config, serverVars
<1>2. UNCHANGED <<store, user_directories_>>
  BY <1>1, StoreStays
<1>3. CASE Connect(c) \/ Send(c)
  <2>1. UNCHANGED <<step, inbox>>
    BY <1>3 DEF Connect, Send, Client!Connect, Client!Send
  <2> QED
    BY <1>1, <1>2, <2>1, TrackFrame DEF Reply
<1>4. CASE ReadInfo(c)
  <2>1. /\ step[c] = 0 /\ step'[c] \in {0, 1} /\ UNCHANGED inbox
    BY <1>4 DEF ReadInfo, Client!ReadInfo, FlowInv, ExchangeInv, ClientTypes
  <2>2. Reply(c) = NoResponse /\ Reply(c)' = NoResponse
    BY <1>1, <2>1, NothingAsked DEF Reply
  <2>3. \A k \in {2, 3, 6} : ~Past(c, k) /\ ~Past(c, k)'
    BY <2>1 DEF Past
  <2>4. First' = First /\ Second' = Second
    BY <1>1 DEF First, Second
  <2> QED
    BY <1>1, <1>2, <2>1, <2>2, <2>3, <2>4 DEF Tracks
<1>5. CASE FailToIndex(c) \/ FailToConnect(c) \/ FailToRead(c) \/ FailToParse(c) \/ Die(c)
  <2>1. PICK how \in {"IndexError", "ConnectionRefusedError", "FileNotFoundError",
                      "FailedToParseMessage", "killed"} : outcome' = [outcome EXCEPT ![c] = how]
    BY <1>5 DEF FailToIndex, FailToConnect, FailToRead, FailToParse, Die, Client!FailToIndex,
         Client!FailToConnect, Client!FailToRead, Client!FailToParse, Client!Die, Client!End
  <2> QED
    BY <2>1 DEF FlowInv, ExchangeInv, ClientTypes
<1> QED
  BY <1>3, <1>4, <1>5

(* What a process does is nothing to another. *)
LEMMA OthersMove ==
  ASSUME FlowInv, NEW c \in Clients, Tracks(c), NEW d \in Clients \ {c},
         ClientSteps(d) \/ Die(d)
  PROVE  Tracks(c)' /\ outcome'[c] = outcome[c]
<1>1. UNCHANGED <<backup_info, user_id, response>> /\ UNCHANGED serverVars
  BY DEF ClientSteps, Receive, Client!Receive, ReadInfo, FailToIndex, Connect, FailToConnect,
        FailToRead, Send, FailToParse,
        Die, Client!ReadInfo, Client!FailToIndex, Client!Connect, Client!FailToConnect,
        Client!FailToRead, Client!Send, Client!FailToParse, Client!Die, Client!Close,
        Client!config, serverVars
<1>2. UNCHANGED <<store, user_directories_>>
  BY <1>1, StoreStays
<1>3. step'[c] = step[c] /\ outcome'[c] = outcome[c] /\ inbox'[c] = inbox[c]
  BY DEF ClientSteps, Receive, Client!Receive, ReadInfo, FailToIndex, Connect, FailToConnect,
        FailToRead, Send, FailToParse,
        Die, Client!ReadInfo, Client!FailToIndex, Client!Connect, Client!FailToConnect,
        Client!FailToRead, Client!Send, Client!FailToParse, Client!Die, Client!Close,
        Client!End, FlowInv, ExchangeInv, ClientTypes
<1> QED
  BY <1>1, <1>2, <1>3, TrackFrame DEF Reply

(* A process ends once. *)
LEMMA EndsOnce ==
  ASSUME FlowInv, [Next]_vars, NEW c \in Clients, outcome[c] # "running"
  PROVE  outcome'[c] = outcome[c]
<1>1. ASSUME NEW d \in Clients, ServerSteps(d) PROVE UNCHANGED outcome
  BY <1>1 DEF ServerSteps, Accept, ReadRequest, Serve, Respond, FindClientGone, clientVars,
              Client!Taken, Client!Deliver
<1>2. ASSUME NEW d \in Clients, ClientSteps(d) \/ Die(d) PROVE outcome'[c] = outcome[c]
  <2>1. outcome' = outcome \/ \E how : outcome' = [outcome EXCEPT ![d] = how]
    BY <1>2 DEF ClientSteps, ReadInfo, FailToIndex, Connect, FailToConnect, FailToRead, Send,
       Receive, FailToParse, Die, Client!ReadInfo, Client!FailToIndex, Client!Connect,
       Client!FailToConnect, Client!FailToRead, Client!Send, Client!Receive,
       Client!FailToParse, Client!Die, Client!End
  <2>2. UNCHANGED outcome \/ outcome[d] = "running"
    BY <1>2 DEF ClientSteps, ReadInfo, FailToIndex, Connect, FailToConnect, FailToRead, Send,
       Receive, FailToParse, Die, Client!ReadInfo, Client!FailToIndex, Client!Connect,
       Client!FailToConnect, Client!FailToRead, Client!Send, Client!Receive,
       Client!FailToParse, Client!Die, Client!MayConnect, FlowInv, ExchangeInv, ExchangesMatch
  <2> QED
    BY <2>1, <2>2 DEF FlowInv, ExchangeInv, ClientTypes
<1>3. Crash => UNCHANGED outcome
  BY DEF Crash, Client!Disconnect
<1> QED
  BY <1>1, <1>2, <1>3 DEF Next, RunOutOfThreads, Boot, Terminated, vars, clientVars

(* Who is alone, with the configuration that main() expects, stays so.     *)
LEMMA StaysAlone ==
  ASSUME FlowInv, [Next]_vars, NEW c \in Clients
  PROVE  /\ Alone(c)' <=> Alone(c)
         /\ WellConfigured' <=> WellConfigured
         /\ restarts' = 0 => restarts = 0 /\ ~Crash
<1>1. UNCHANGED <<backup_info, server_info, user_id>>
  BY ConfigStays
<1>2. Crash => restarts' # 0
  BY SameRestart DEF Crash, P!Restart, FlowInv, ExchangeInv, P!Inv, P!TypeOK
<1>3. ~Crash => restarts' = restarts
  <2>1. ASSUME NEW d \in Clients, ServerSteps(d) \/ ClientSteps(d) \/ Die(d) PROVE restarts' = restarts
    BY <2>1, ServeFrame, ThreadEffects
       DEF ServerSteps, ClientSteps, ReadInfo, FailToIndex, Connect, FailToConnect, FailToRead,
           Send, Receive, FailToParse, Die, serverVars, FlowInv, ExchangeInv
  <2> QED
    BY <2>1 DEF Next, RunOutOfThreads, Boot, Terminated, vars, serverVars
<1>4. Alone(c)' <=> Alone(c)
  BY <1>1 DEF Alone
<1>5. WellConfigured' <=> WellConfigured
  BY <1>1 DEF WellConfigured, Range
<1> QED
  BY <1>2, <1>3, <1>4, <1>5

(* The server keeps track of a process that is alone. *)
LEMMA NextTracked ==
  ASSUME EmptyName \notin Names, TrackInv, [Next]_vars PROVE AloneIsTracked'
<1> SUFFICES ASSUME NEW c \in Clients, restarts' = 0, Alone(c)', WellConfigured',
                    outcome'[c] \in {"running", "finished"}
             PROVE  Tracks(c)'
  BY DEF AloneIsTracked
<1>1. FlowInv /\ Undisturbed
  BY DEF TrackInv
<1>2. restarts = 0 /\ ~Crash /\ Alone(c) /\ WellConfigured
  BY <1>1, StaysAlone
<1>3. outcome[c] \in {"running", "finished"}
  BY <1>1, EndsOnce
<1>4. Tracks(c)
  BY <1>2, <1>3 DEF TrackInv, AloneIsTracked
<1>5. ASSUME NEW d \in Clients, ServerSteps(d) PROVE Tracks(c)'
  <2>1. CASE Accept(d) \/ ReadRequest(d) \/ Respond(d) \/ FindClientGone(d)
    BY <1>1, <1>2, <1>3, <1>4, <2>1, WaitingTracks
  <2>2. CASE Serve(d) /\ d = c
    BY <1>1, <1>2, <1>4, <2>2, ServingTracks
  <2>3. CASE Serve(d) /\ d # c
    <3>1. user_id[d] # user_id[c]
      BY <1>2, <2>3 DEF Alone
    <3> QED
      BY <1>1, <1>4, <2>3, <3>1, ServingOthers
  <2> QED
    BY <1>5, <2>1, <2>2, <2>3 DEF ServerSteps
<1>6. ASSUME ClientSteps(c) \/ Die(c) PROVE Tracks(c)'
  <2>1. CASE Receive(c)
    BY <1>1, <1>4, <2>1, ReceivingTracks
  <2>2. CASE ~Receive(c)
    BY <1>1, <1>2, <1>4, <1>6, <2>2, ClientTracks DEF ClientSteps
  <2> QED
    BY <2>1, <2>2
<1>7. ASSUME NEW d \in Clients \ {c}, ClientSteps(d) \/ Die(d) PROVE Tracks(c)'
  BY <1>1, <1>4, <1>7, OthersMove
<1>8. CASE Boot \/ Terminated \/ UNCHANGED vars
  <2>1. UNCHANGED <<backup_info, user_id, step, inbox, response>> /\ UNCHANGED serverVars
    BY <1>8 DEF Boot, Terminated, vars, clientVars, serverVars
  <2>2. UNCHANGED <<store, user_directories_>>
    BY <2>1, StoreStays
  <2> QED
    BY <1>1, <1>4, <2>1, <2>2, TrackFrame DEF Reply
<1> QED
  BY <1>2, <1>5, <1>6, <1>7, <1>8 DEF Next, RunOutOfThreads

(* At first the server knows nobody. *)
LEMMA InitTrack == ASSUME EmptyName \notin Names, Init PROVE TrackInv
<1>1. FlowInv
  BY InitFlow
<1>2. Undisturbed
  BY DEF Undisturbed, Init, Client!Init
<1>3. ASSUME NEW c \in Clients, WellConfigured PROVE Tracks(c)
  <2>1. First \in Names /\ Second \in Names /\ user_id[c] \in Users
    BY <1>1, <1>3, WellConfiguredFiles DEF FlowInv, ExchangeInv, ClientTypes
  <2>2. store[user_id[c]][First] = NoFile /\ store[user_id[c]][Second] = NoFile
    BY <2>1, P!NamesAreFilenames, ServerIsInstantiated DEF Init, Server!Init, store, P!storeBar
  <2>3. user_directories_ = {} /\ step[c] = 0 /\ Reply(c) = NoResponse
    BY WordsAgree DEF Init, Client!Init, Server!Init, Reply
  <2> QED
    BY <2>2, <2>3 DEF Tracks, Past
<1> QED
  BY <1>1, <1>2, <1>3 DEF TrackInv, AloneIsTracked

(* It does so in every behaviour. *)
LEMMA SpecTrack ==
  ASSUME ~DiskMayFill, EmptyName \notin Names PROVE Spec => []TrackInv
<1>1. Init => TrackInv
  BY InitTrack
<1>2. TrackInv /\ [Next]_vars => TrackInv'
  BY NextFlow, NextUndisturbed, NextTracked DEF TrackInv
<1> QED
  BY <1>1, <1>2, PTL DEF Spec

(* What main() of such a process can come to. *)
LEMMA NextIsolated ==
  ASSUME ~ShortReads, TrackInv, FlowsAreIsolated, [Next]_vars PROVE FlowsAreIsolated'
<1> SUFFICES ASSUME NEW c \in Clients, Alone(c)', restarts' = 0, WellConfigured'
             PROVE  outcome'[c] \in {"running", "finished", "AssertListing", "killed"}
  BY DEF FlowsAreIsolated
<1>1. /\ FlowInv /\ restarts = 0 /\ ~Crash /\ Alone(c) /\ WellConfigured
      /\ serving /\ link[c] # "broken"
  BY StaysAlone DEF TrackInv, Undisturbed
<1>2. CASE outcome[c] # "running"
  BY <1>1, <1>2, EndsOnce DEF FlowsAreIsolated
<1>3. CASE outcome[c] = "running"
  <2>1. ASSUME NEW d \in Clients, ServerSteps(d) PROVE outcome'[c] = "running"
    BY <1>3, <2>1 DEF ServerSteps, Accept, ReadRequest, Serve, Respond, FindClientGone,
                      clientVars, Client!Taken, Client!Deliver
  <2>2. ASSUME NEW d \in Clients \ {c}, ClientSteps(d) \/ Die(d) PROVE outcome'[c] = "running"
    <3>1. Tracks(c)
      BY <1>1, <1>3 DEF TrackInv, AloneIsTracked
    <3> QED
      BY <1>1, <1>3, <2>2, <3>1, OthersMove
  <2>3. CASE Receive(c)
    <3>1. /\ inbox[c] # NoResponse
          /\ outcome' = [outcome EXCEPT ![c] = Client!Result(step[c], inbox[c])]
      BY <1>1, <2>3, ReceiveEffect DEF FlowInv
    <3>2. outcome'[c] = Client!Result(step[c], inbox[c])
      BY <1>1, <3>1 DEF FlowInv, ExchangeInv, ClientTypes
    <3>3. Expected(c)
      BY <1>1, <1>3, <3>1 DEF TrackInv, AloneIsTracked, Tracks, Reply
    <3> QED
      BY <1>1, <2>3, <3>2, <3>3, ExpectedResults
  <2>4. CASE ReadInfo(c)
    BY <1>1, <1>3, <2>4
       DEF ReadInfo, Client!ReadInfo, Client!End, Client!BackupInfoIsRead,
           Client!ServerInfoResult, WellConfigured, FlowInv, ExchangeInv, ClientTypes
  <2>5. ~FailToIndex(c) /\ ~FailToRead(c) /\ ~FailToConnect(c) /\ ~FailToParse(c)
    BY <1>1, WellConfiguredFiles
       DEF FailToIndex, FailToRead, FailToConnect, FailToParse, Client!FailToIndex,
           Client!FailToRead, Client!FailToParse
  <2>6. CASE Connect(c) \/ Send(c)
    BY <1>3, <2>6 DEF Connect, Send, Client!Connect, Client!Send
  <2>7. CASE Die(c)
    BY <1>1, <2>7 DEF Die, Client!Die, Client!End, FlowInv, ExchangeInv, ClientTypes
  <2>8. CASE Boot \/ Terminated \/ UNCHANGED vars
    BY <1>3, <2>8 DEF Boot, Terminated, vars, clientVars
  <2> QED
    BY <1>1, <2>1, <2>2, <2>3, <2>4, <2>5, <2>6, <2>7, <2>8
       DEF Next, RunOutOfThreads, ClientSteps
<1> QED
  BY <1>2, <1>3

(* A process whose user id is its own gets through main() whatever the     *)
(* others do: none of its requests fails, and the only assertion that can  *)
(* is that on the order of its list.  recv has to return what it is asked  *)
(* for, and the server must not have crashed.                              *)
THEOREM FlowsIsolated ==
  ASSUME ~DiskMayFill, EmptyName \notin Names, ~ShortReads PROVE Spec => []FlowsAreIsolated
<1>1. Init => FlowsAreIsolated
  BY DEF Init, Client!Init, FlowsAreIsolated
<1>2. TrackInv /\ FlowsAreIsolated /\ [Next]_vars => FlowsAreIsolated'
  BY NextIsolated
<1> QED
  BY <1>1, <1>2, SpecTrack, PTL DEF Spec

(* When main() of a process that is alone with its user id ends well, the  *)
(* first of its files is gone from its directory and the second is there.  *)
THEOREM FinishedLeaveSecondFile ==
  ASSUME ~DiskMayFill, EmptyName \notin Names PROVE Spec => []FinishedLeavesSecondFile
<1>1. ASSUME TrackInv, NEW c \in Clients, Alone(c), restarts = 0, outcome[c] = "finished"
      PROVE  /\ files[user_id[c]][First] = NoFile
             /\ files[user_id[c]][Second] = Whole(Second)
  <2> DEFINE u == user_id[c]
  <2>1. FlowInv /\ step[c] = 7
    BY <1>1 DEF TrackInv, FlowInv, ExchangeInv, ConfigSuffices, Client!LastStep
  <2>2. WellConfigured
    BY <1>1, <2>1, FinishedConfigured
  <2>3. First \in Names /\ Second \in Names /\ u \in Users /\ Whole(Second) # NoFile
    BY <2>1, <2>2, WellConfiguredFiles, PresentFiles DEF FlowInv, ExchangeInv, ClientTypes, Whole
  <2>4. store[u][First] = NoFile
    <3>1. Tracks(c) /\ Past(c, 6)
      BY <1>1, <2>1, <2>2 DEF TrackInv, AloneIsTracked, Past
    <3> QED
      BY <3>1 DEF Tracks
  <2>5. store[u][Second] = Whole(Second)
    <3>1. Past(c, 3)
      BY <2>1 DEF Past
    <3> QED
      BY <2>1, <3>1 DEF FlowInv, BackupsStay
  <2>6. ~P!BeingWritten(u, First)
    <3> SUFFICES ASSUME NEW d \in Clients, pc[d] \in {"writeFile", "closeFile"},
                        request[d].user = u
                 PROVE  FALSE
      BY DEF P!BeingWritten, P!UserOf
    <3>1. request[d] \in Requests /\ request[d].op = "BACKUP_FILE"
      BY <2>1, WordsAgree DEF FlowInv, ExchangeInv, P!Inv, P!RequestFitsPhase, P!HandlerPhases,
                              P!ManagerPhases, P!DirectoryPhases
    <3>2. request[d] # NoRequest
      BY <3>1 DEF NoRequest
    <3>3. request[d] = Asked(d) /\ step[d] \in 1 .. 7
      BY <2>1, <3>2 DEF FlowInv, ExchangeInv, ExchangesMatch, MayAsk, ClientTypes
    <3>4. user_id[d] = u /\ step[d] \in {2, 3}
      BY <3>1, <3>3, Requested
    <3>5. d = c
      BY <1>1, <3>4 DEF Alone
    <3> QED
      BY <2>1, <3>4, <3>5
  <2>7. store[u][First] = IF P!BeingWritten(u, First) THEN NoFile ELSE files[u][First]
    BY <2>3 DEF store, P!storeBar
  <2>8. store[u][Second] = IF P!BeingWritten(u, Second) THEN NoFile ELSE files[u][Second]
    BY <2>3 DEF store, P!storeBar
  <2> QED
    BY <2>3, <2>4, <2>5, <2>6, <2>7, <2>8
<1>2. TrackInv => FinishedLeavesSecondFile
  BY <1>1 DEF FinishedLeavesSecondFile, First, Second, Whole
<1> QED
  BY <1>2, SpecTrack, PTL
=============================================================================
