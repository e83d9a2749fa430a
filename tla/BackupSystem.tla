---------------------------- MODULE BackupSystem ----------------------------
(***************************************************************************)
(* The client processes of BackupClient and the server of BackupServer,    *)
(* with one session thread for the one connection a client has at a time.  *)
(***************************************************************************)
EXTENDS BackupMessages, Functions

CONSTANTS
  Clients, BackupInfos, ServerInfos, Unreadable, PayloadOf, ShortReads, MayDie,
  NoSession, DiskMayFill, MaxRestarts,
  MaxThreads   \* sessions the server can have threads for

ASSUME ClientAssumption ==
  /\ Unreadable \notin Seq(Names) /\ BackupInfos \subseteq Seq(Names) \cup {Unreadable}
  /\ ServerInfos \subseteq {"valid", "elsewhere", "invalid", "unreadable"}
  /\ DOMAIN PayloadOf \subseteq Names /\ Range(PayloadOf) \subseteq Payloads
  /\ MaxThreads \in Nat \ {0}
  /\ ShortReads \in BOOLEAN /\ MayDie \in BOOLEAN
  /\ NoSession \notin Clients /\ DiskMayFill \in BOOLEAN /\ MaxRestarts \in Nat

VARIABLES
  directories, files, user_directories_, mutex_, user_mutex_,
  pc, request, response, restarts, promised,
  backup_info, server_info, user_id, step, link, outbox, inbox, outcome,
  serving   \* TRUE: the server runs

Server == INSTANCE BackupServer WITH Sessions <- Clients
Client == INSTANCE BackupClient

serverVars ==
  <<directories, files, user_directories_, mutex_, user_mutex_,
    pc, request, response, restarts, promised>>
clientVars == <<backup_info, server_info, user_id, step, link, outbox, inbox, outcome>>
vars       == <<serverVars, clientVars, serving>>

Init == Server!Init /\ Client!Init /\ serving = TRUE

ReadInfo(c)    == Client!ReadInfo(c) /\ UNCHANGED <<serverVars, serving>>
FailToIndex(c) == Client!FailToIndex(c) /\ UNCHANGED <<serverVars, serving>>
FailToRead(c)  == Client!FailToRead(c) /\ UNCHANGED <<serverVars, serving>>

(* The connection waits to be accepted. *)
Connect(c) == serving /\ Client!Connect(c) /\ UNCHANGED <<serverVars, serving>>

FailToConnect(c) ==
  /\ ~serving \/ server_info = "elsewhere"
  /\ Client!FailToConnect(c) /\ UNCHANGED <<serverVars, serving>>

Send(c) == Client!Send(c) /\ UNCHANGED <<serverVars, serving>>

(* The connection of c has not been accepted yet. *)
Waits(c) == pc[c] = "idle" /\ (link[c] = "open" \/ outbox[c] # NoRequest)

Threads == Cardinality({c \in Clients : pc[c] # "idle"})

(* accept takes the connection and starts a thread for it. *)
Accept(c) ==
  /\ Waits(c) /\ Threads < MaxThreads
  /\ Server!Accept(c) /\ UNCHANGED <<clientVars, serving>>

ReadRequest(c) ==
  /\ outbox[c] # NoRequest
  /\ Server!ReadRequest(c, outbox[c])
  /\ Client!Taken(c)
  /\ UNCHANGED serving

(* The thread has the mutexes and the disk to wait for, no client.         *)
Serve(c) ==
  /\ Server!LockManager(c) \/ Server!Handle(c)
  /\ UNCHANGED <<clientVars, serving>>

Respond(c) == Server!SendResponse(c) /\ Client!Deliver(c, response[c]) /\ UNCHANGED serving

(* Of a client that was killed the thread finds the connection closed.     *)
FindClientGone(c) ==
  /\ link[c] = "closed"
  /\ Server!LoseClient(c) \/ Server!FailToSend(c)
  /\ Client!Taken(c)
  /\ UNCHANGED serving

Receive(c)     == Client!Receive(c) /\ UNCHANGED <<serverVars, serving>>
FailToParse(c) == Client!FailToParse(c) /\ UNCHANGED <<serverVars, serving>>
Die(c)         == Client!Die(c) /\ UNCHANGED <<serverVars, serving>>

(* The server dies and takes the connections with it. *)
Crash == Server!Restart /\ Client!Disconnect /\ serving' = FALSE

(* There is no thread for the connection of c: the exception leaves main. *)
RunOutOfThreads(c) == Waits(c) /\ Threads >= MaxThreads /\ Crash

(* It is started again. *)
Boot == ~serving /\ serving' = TRUE /\ UNCHANGED <<serverVars, clientVars>>

ServerSteps(c) == Accept(c) \/ ReadRequest(c) \/ Serve(c) \/ Respond(c) \/ FindClientGone(c)
ClientSteps(c) ==
  \/ ReadInfo(c) \/ FailToIndex(c) \/ Connect(c) \/ FailToConnect(c) \/ FailToRead(c)
  \/ Send(c) \/ Receive(c) \/ FailToParse(c)

(* Every process has ended and every thread with it. *)
Terminated ==
  /\ \A c \in Clients : outcome[c] # "running" /\ pc[c] = "idle"
  /\ UNCHANGED vars

Next ==
  \/ \E c \in Clients : ServerSteps(c) \/ ClientSteps(c) \/ Die(c) \/ RunOutOfThreads(c)
  \/ Crash
  \/ Boot
  \/ Terminated

Spec == Init /\ [][Next]_vars

(* The processes and threads are scheduled and the network delivers what   *)
(* they send; nobody has to die.                                           *)
FairSpec ==
  Spec /\ \A c \in Clients : WF_vars(ServerSteps(c)) /\ WF_vars(ClientSteps(c))

-----------------------------------------------------------------------------
(* Properties *)

(* The variables of the clients have their types, and a client that has    *)
(* ended has no connection left.                                           *)
TypeOK ==
  /\ Server!TypeOK
  /\ user_id \in [Clients -> Users]
  /\ step \in [Clients -> 0 .. Client!LastStep]
  /\ link \in [Clients -> {"closed", "open", "waiting", "broken"}]
  /\ outbox \in [Clients -> Requests \cup {NoRequest}]
  /\ inbox \in [Clients -> Responses \cup {NoResponse}]
  /\ outcome \in [Clients -> Client!Outcomes]
  /\ \A c \in Clients : outcome[c] # "running" => link[c] = "closed"

(* Nobody else has drawn the user id of c. *)
Alone(c) == \A d \in Clients \ {c} : user_id[d] # user_id[c]

(* backup.info lists two different files, which exist. *)
WellConfigured ==
  /\ server_info = "valid"
  /\ backup_info # Unreadable /\ Len(backup_info) = 2
  /\ backup_info[1] # backup_info[2] /\ Range(backup_info) \subseteq DOMAIN PayloadOf

(* A process whose user id is its own gets through main() whatever the     *)
(* others do, die or not: no request of theirs makes one of its requests   *)
(* fail.  Only the order of its list may be unexpected.                    *)
FlowsAreIsolated ==
  \A c \in Clients :
    Alone(c) /\ restarts = 0 /\ WellConfigured =>
      outcome[c] \in {"running", "finished", "AssertListing", "killed"}

(* The assertion of main() that a restored file has the bytes that were    *)
(* backed up never fails, even when user ids collide and the server        *)
(* crashes in the middle of a backup.                                      *)
RestoredIsBackedUp == \A c \in Clients : outcome[c] # "AssertContent"

(* A process that has finished has left the second of its files, and not   *)
(* the first, in its directory.                                            *)
FinishedLeavesSecondFile ==
  \A c \in Clients :
    Alone(c) /\ restarts = 0 /\ outcome[c] = "finished" =>
      /\ files[user_id[c]][backup_info[1]] = NoFile
      /\ files[user_id[c]][backup_info[2]] =
           [payload |-> PayloadOf[backup_info[2]], complete |-> TRUE]

(* With any other configuration no process gets to the end of main(), not  *)
(* even with the help of another one on the same user id.                  *)
FinishedIsConfigured == \A c \in Clients : outcome[c] = "finished" => WellConfigured

(* Every process ends: no client waits for ever for a response. *)
EveryProcessEnds == \A c \in Clients : <>(outcome[c] # "running")

(* The assertion of main() that the list has the files in the order in     *)
(* which they were backed up.                                              *)
ListsAreInOrder == \A c \in Clients : outcome[c] # "AssertListing"
=============================================================================
