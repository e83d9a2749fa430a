---------------------------- MODULE RemoteFiles ----------------------------
(***************************************************************************)
(* What a Client of Maman14 may rely on, without bytes: a call is          *)
(* performed at most once and in one step, on files that nobody else       *)
(* touches, and returns what that step found.  A call that fails may have  *)
(* been performed or not, or may yet be, whatever the client calls next.   *)
(***************************************************************************)
EXTENDS Naturals, Sequences, FiniteSets, Functions, TLC

CONSTANTS
  Connections, NoConnection, Names, Payloads,
  Initial   \* what may be stored at first

VARIABLES
  store,   \* the files: [name]: content
  known,   \* TRUE: the server knows the user
  conn,    \* the connection of the call the client waits for
  call,    \* [d]: the call that is to be performed, or has been, over d
  reply,   \* [d]: what the client will learn of it
  result   \* what the client has learnt of its last call

vars == <<store, known, conn, call, reply, result>>

NoCall   == [op |-> "none"]
NoReply  == [op |-> "none"]
Lost     == [op |-> "lost"]
NoResult == [op |-> "none"]
Failed   == [op |-> "failed"]

ServerError == [op |-> "SERVER_ERROR"]
Done(n)     == [op |-> "SUCCESSFUL_BACKUP_OR_DELETE", name |-> n]

Calls ==
  [op : {"LIST_FILES"}] \cup [op : {"RESTORE_FILE", "DELETE_FILE"}, name : Names]
    \cup [op : {"BACKUP_FILE"}, name : Names, payload : Payloads]

Init ==
  /\ store \in Initial /\ known = FALSE /\ conn = NoConnection
  /\ call = [d \in Connections |-> NoCall]
  /\ reply = [d \in Connections |-> NoReply]
  /\ result = NoResult

Start(d, c) ==
  /\ conn = NoConnection /\ call[d] = NoCall
  /\ conn' = d /\ call' = [call EXCEPT ![d] = c] /\ result' = NoResult
  /\ UNCHANGED <<store, known, reply>>

(* A call that cannot be made. *)
Reject == conn = NoConnection /\ result' = Failed /\ UNCHANGED <<store, known, conn, call, reply>>

(* The call over d, which has not been performed, gets the reply r.  Of a  *)
(* call that the client has given up nobody hears any more.                *)
Reply(d, r) ==
  /\ call[d] # NoCall /\ reply[d] = NoReply
  /\ IF d = conn THEN reply' = [reply EXCEPT ![d] = r] /\ UNCHANGED call
                 ELSE call' = [call EXCEPT ![d] = NoCall] /\ UNCHANGED reply
  /\ UNCHANGED <<conn, result>>

Lose(d)   == Reply(d, Lost) /\ UNCHANGED <<store, known>>
Refuse(d) == Reply(d, ServerError) /\ UNCHANGED <<store, known>>

Backup(d) ==
  LET c == call[d] IN
  /\ c.op = "BACKUP_FILE"
  /\ Reply(d, IF c.name \in DOMAIN store THEN ServerError ELSE Done(c.name))
  /\ store' = store @@ (c.name :> c.payload)
  /\ known' = TRUE

Delete(d) ==
  LET c == call[d] IN
  /\ c.op = "DELETE_FILE"
  /\ \/ /\ known /\ c.name \in DOMAIN store
        /\ Reply(d, Done(c.name))
        /\ store' = Restrict(store, DOMAIN store \ {c.name})
     \/ /\ ~known \/ c.name \notin DOMAIN store
        /\ Reply(d, ServerError) /\ UNCHANGED store
  /\ UNCHANGED known

Restore(d) ==
  LET c == call[d] IN
  /\ c.op = "RESTORE_FILE"
  /\ Reply(d, IF ~known THEN ServerError
              ELSE IF c.name \in DOMAIN store
                THEN [op |-> "SUCCESSFUL_RESTORE", payload |-> store[c.name]]
                ELSE [op |-> "FILE_NOT_FOUND"])
  /\ UNCHANGED <<store, known>>

List(d) ==
  /\ call[d].op = "LIST_FILES"
  /\ \/ known /\ \E names \in [1 .. Cardinality(DOMAIN store) -> DOMAIN store] :
                   /\ Range(names) = DOMAIN store
                   /\ Reply(d, [op |-> "SUCCESSFUL_LIST_FILES", names |-> names])
     \/ ~known /\ Reply(d, [op |-> "NO_BACKUP_FILES_FOR_CLIENT"])
  /\ UNCHANGED <<store, known>>

End(r) ==
  /\ conn # NoConnection /\ conn' = NoConnection
  /\ result' = r
  /\ call' = IF reply[conn] = NoReply THEN call ELSE [call EXCEPT ![conn] = NoCall]
  /\ reply' = [reply EXCEPT ![conn] = NoReply]
  /\ UNCHANGED <<store, known>>

Return == conn # NoConnection /\ reply[conn] \notin {NoReply, Lost} /\ End(reply[conn])
Fail   == End(Failed)

Next ==
  \/ \E d \in Connections :
       \/ call'[d] \in Calls /\ Start(d, call'[d])
       \/ Lose(d) \/ Refuse(d) \/ Backup(d) \/ Delete(d) \/ Restore(d) \/ List(d)
  \/ Reject \/ Return \/ Fail

Spec == Init /\ [][Next]_vars
=============================================================================
