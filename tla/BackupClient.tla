---------------------------- MODULE BackupClient ----------------------------
(***************************************************************************)
(* The client processes of Maman14/Client: each runs main(), a fixed       *)
(* sequence of requests under a user id chosen at random.  ensure_connected *)
(* opens a connection for every request and closes it whatever happens.    *)
(* The socket is the pair outbox, inbox: what the client has written and   *)
(* what the server has answered.  Two files beside the program say which   *)
(* files to back up and where the server is.                               *)
(***************************************************************************)
EXTENDS BackupMessages, Functions

CONSTANTS
  Clients,     \* the client processes
  BackupInfos, \* what backup.info may list, or Unreadable
  ServerInfos, \* what server.info may be: "valid", "elsewhere", "invalid", "unreadable"
  Unreadable,
  PayloadOf,   \* [f]: the bytes of the local file f, for those that exist
  ShortReads,  \* TRUE: socket.recv may return less than it was asked for
  MayDie       \* TRUE: a client process may be killed

VARIABLES
  backup_info, \* the names in backup.info, the same for every process
  server_info, \* the contents of server.info
  user_id,   \* Client.user_id
  step,      \* the request of main() each process is at, 0 before the first
  link,      \* the connection: closed, open, waiting for a response, broken
  outbox,    \* the request written to the connection
  inbox,     \* the response that has arrived on it
  outcome    \* how main() ended

config == <<backup_info, server_info, user_id>>
vars   == <<config, step, link, outbox, inbox, outcome>>

LastStep == 7

(* How main() can end: at its end, by one of its assertions, by an         *)
(* exception, or because the process is killed.                            *)
Outcomes ==
  {"running", "finished", "AssertListing", "AssertContent", "ClientFlow",
   "ErrorResponse", "UnexpectedResponse", "FailedToParseMessage",
   "ReadingBackupInfoFile", "ReadingServerInfoFile", "InvalidServerInfo",
   "IndexError", "FileNotFoundError", "ConnectionRefusedError", "killed"}

(* The requests of main(), in order. *)
RequestAt(u, k) ==
  CASE k \in {1, 4} -> [op |-> "LIST_FILES", user |-> u]
    [] k \in {2, 3} -> [op |-> "BACKUP_FILE", user |-> u, name |-> backup_info[k - 1],
                        payload |-> PayloadOf[backup_info[k - 1]]]
    [] k \in {5, 7} -> [op |-> "RESTORE_FILE", user |-> u, name |-> backup_info[1]]
    [] k = 6        -> [op |-> "DELETE_FILE", user |-> u, name |-> backup_info[1]]

(* The type of response each request expects. *)
ExpectedOp(k) ==
  CASE k \in {1, 4}    -> "SUCCESSFUL_LIST_FILES"
    [] k \in {2, 3, 6} -> "SUCCESSFUL_BACKUP_OR_DELETE"
    [] k \in {5, 7}    -> "SUCCESSFUL_RESTORE"

IsError(r) ==
  r.op \in {"FILE_NOT_FOUND", "NO_BACKUP_FILES_FOR_CLIENT", "SERVER_ERROR"}

(* What main() makes of the response r to its request k.  The first list   *)
(* and the last restore are meant to fail.                                 *)
ResultWith(k, r, listed) ==
  IF IsError(r)
    THEN IF k = LastStep THEN "finished" ELSE IF k = 1 THEN "running" ELSE "ErrorResponse"
  ELSE IF r.op # ExpectedOp(k) THEN "UnexpectedResponse"
  ELSE CASE k \in {1, LastStep} -> "ClientFlow"
         [] k = 4 -> IF listed THEN "running" ELSE "AssertListing"
         [] k = 5 -> IF r.content = [payload |-> PayloadOf[backup_info[1]], complete |-> TRUE]
                       THEN "running" ELSE "AssertContent"
         [] OTHER -> "running"

(* Variant: the list is only searched for names that are not in the file. *)
ResultOfSubset(k, r) == ResultWith(k, r, k = 4 => Range(r.names) \subseteq Range(backup_info))

Result(k, r) == ResultWith(k, r, k = 4 => r.names = backup_info)

Init ==
  /\ backup_info \in BackupInfos /\ server_info \in ServerInfos
  /\ user_id \in [Clients -> Users]
  /\ step = [c \in Clients |-> 0]
  /\ link = [c \in Clients |-> "closed"]
  /\ outbox = [c \in Clients |-> NoRequest]
  /\ inbox = [c \in Clients |-> NoResponse]
  /\ outcome = [c \in Clients |-> "running"]

End(c, how) == outcome' = [outcome EXCEPT ![c] = how]

(* BackupInfo.from_file: there is such a file. *)
BackupInfoIsRead == backup_info # Unreadable

(* ServerInfo.from_file: the exception it raises, or "running". *)
ServerInfoResult ==
  CASE server_info = "unreadable"             -> "ReadingServerInfoFile"
    [] server_info = "invalid"                -> "InvalidServerInfo"
    [] server_info \in {"valid", "elsewhere"} -> "running"

(* The two files are read, in this order. *)
ReadInfo(c) ==
  LET result == IF BackupInfoIsRead THEN ServerInfoResult ELSE "ReadingBackupInfoFile" IN
  /\ outcome[c] = "running" /\ step[c] = 0
  /\ End(c, result)
  /\ step' = [step EXCEPT ![c] = IF result = "running" THEN 1 ELSE 0]
  /\ UNCHANGED <<config, link, outbox, inbox>>

(* The request of c is the backup of the i-th file. *)
BacksUp(c, i) == step[c] = i + 1 /\ i \in {1, 2}

MissesFile(c) == \E i \in {1, 2} : BacksUp(c, i) /\ i \notin DOMAIN backup_info

(* There is no such file in backup.info: main() ends before it connects. *)
FailToIndex(c) ==
  /\ outcome[c] = "running" /\ MissesFile(c)
  /\ End(c, "IndexError")
  /\ UNCHANGED <<config, step, link, outbox, inbox>>

MayConnect(c) == outcome[c] = "running" /\ step[c] > 0 /\ link[c] = "closed" /\ ~MissesFile(c)

(* ensure_connected: Client.connect *)
Connect(c) ==
  /\ MayConnect(c) /\ server_info = "valid"
  /\ link' = [link EXCEPT ![c] = "open"]
  /\ UNCHANGED <<config, step, outbox, inbox, outcome>>

(* Nobody listens there. *)
FailToConnect(c) ==
  /\ MayConnect(c)
  /\ End(c, "ConnectionRefusedError")
  /\ UNCHANGED <<config, step, link, outbox, inbox>>

Unread(c) == \E i \in {1, 2} : BacksUp(c, i) /\ backup_info[i] \notin DOMAIN PayloadOf

(* send_recv_message writes the request.  On a blocking socket send writes *)
(* all of it.                                                              *)
Send(c) ==
  /\ link[c] = "open" /\ ~Unread(c)
  /\ link' = [link EXCEPT ![c] = "waiting"]
  /\ outbox' = [outbox EXCEPT ![c] = RequestAt(user_id[c], step[c])]
  /\ UNCHANGED <<config, step, inbox, outcome>>

(* The response r of the server arrives. *)
Deliver(c, r) ==
  /\ inbox' = [inbox EXCEPT ![c] = IF link[c] = "waiting" THEN r ELSE NoResponse]
  /\ UNCHANGED <<config, step, link, outbox, outcome>>

(* The server has read the request, or found the connection broken. *)
Taken(c) ==
  /\ outbox' = [outbox EXCEPT ![c] = NoRequest]
  /\ UNCHANGED <<config, step, link, inbox, outcome>>

(* Variant: without the finally, an exception skips the close. *)
CloseUnlessFailed(c) ==
  /\ link' = [link EXCEPT ![c] = IF outcome'[c] = "running" THEN "closed" ELSE @]
  /\ inbox' = [inbox EXCEPT ![c] = NoResponse]
  /\ UNCHANGED <<config, outbox>>

(* The finally clause of ensure_connected. *)
Close(c) ==
  /\ link' = [link EXCEPT ![c] = "closed"]
  /\ inbox' = [inbox EXCEPT ![c] = NoResponse]
  /\ UNCHANGED <<config, outbox>>

(* read_bytes fails: the server has a connection that nothing is written to. *)
FailToRead(c) ==
  /\ link[c] = "open" /\ Unread(c)
  /\ End(c, "FileNotFoundError")
  /\ UNCHANGED step
  /\ Close(c)

(* The response is parsed and main() goes on, or ends.                     *)
Receive(c) ==
  /\ link[c] = "waiting" /\ inbox[c] # NoResponse
  /\ outcome' = [outcome EXCEPT ![c] = Result(step[c], inbox[c])]
  /\ step' = [step EXCEPT ![c] = IF outcome'[c] = "running" THEN @ + 1 ELSE @]
  /\ Close(c)

(* socket.recv returns a part of the field it is asked for, be it only the *)
(* header, or nothing because the server is gone: struct.unpack raises.    *)
FailToParse(c) ==
  /\ \/ link[c] = "waiting" /\ inbox[c] # NoResponse /\ ShortReads
     \/ link[c] = "broken"
  /\ End(c, "FailedToParseMessage")
  /\ UNCHANGED step
  /\ Close(c)

(* The process is killed and its connection with it.  What it has written  *)
(* may still reach the server.                                             *)
Die(c) ==
  /\ MayDie /\ outcome[c] = "running"
  /\ End(c, "killed")
  /\ UNCHANGED step
  /\ Close(c)

(* The server is gone.  A response that has arrived can still be read.     *)
Disconnect ==
  /\ link' = [c \in Clients |->
               IF link[c] = "closed" \/ inbox[c] # NoResponse THEN link[c] ELSE "broken"]
  /\ outbox' = [c \in Clients |-> NoRequest]
  /\ UNCHANGED <<config, step, inbox, outcome>>
=============================================================================
