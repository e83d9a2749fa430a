--------------------------- MODULE BackupMessages ---------------------------
(***************************************************************************)
(* The requests and responses that client and server of Maman14 exchange   *)
(* (Server/protocol), as values: the version is left out, the payload of a *)
(* file is a member of Payloads, and the payload of a list response is the *)
(* sequence of names it was built from.                                    *)
(***************************************************************************)
EXTENDS Naturals, Sequences, FiniteSets

CONSTANTS
  Users,        \* the user ids (uint32_t) that requests carry
  Filenames,    \* the filenames of length at least 1
  EmptyName,    \* the filename of length 0, which the wire format can carry
  Names,        \* the filenames that requests carry
  Payloads,     \* the contents of backed up files
  NoFile        \* the absence of a file

(* What a file holds: the payload, and whether all of it is there. *)
Contents == [payload: Payloads, complete: BOOLEAN]

ASSUME MessagesAssumption ==
  /\ EmptyName \notin Filenames
  /\ Names \subseteq Filenames \cup {EmptyName}
  /\ IsFiniteSet(Filenames)
  /\ NoFile \notin Contents /\ NoFile \notin Payloads

NoRequest      == [op |-> "NONE"]
BackupRequests == [op: {"BACKUP_FILE"}, user: Users, name: Names, payload: Payloads]
NamedRequests  == [op: {"RESTORE_FILE", "DELETE_FILE"}, user: Users, name: Names]
ListRequests   == [op: {"LIST_FILES"}, user: Users]

Requests == BackupRequests \cup NamedRequests \cup ListRequests

NoResponse                  == [op |-> "NONE"]
ServerError                 == [op |-> "SERVER_ERROR"]
NoBackupFilesForClient      == [op |-> "NO_BACKUP_FILES_FOR_CLIENT"]
FileNotFound(n)             == [op |-> "FILE_NOT_FOUND", name |-> n]
SuccessfulBackupOrDelete(n) == [op |-> "SUCCESSFUL_BACKUP_OR_DELETE", name |-> n]
SuccessfulRestore(n, c)     == [op |-> "SUCCESSFUL_RESTORE", name |-> n, content |-> c]
SuccessfulListFiles(ns)     == [op |-> "SUCCESSFUL_LIST_FILES", names |-> ns]

Responses ==
       {ServerError, NoBackupFilesForClient}
  \cup [op: {"FILE_NOT_FOUND", "SUCCESSFUL_BACKUP_OR_DELETE"}, name: Names]
  \cup [op: {"SUCCESSFUL_RESTORE"}, name: Names, content: Contents]
  \cup [op: {"SUCCESSFUL_LIST_FILES"}, names: Seq(Filenames)]

(* The orders in which directory_iterator may produce the names in S: the  *)
(* order is unspecified.                                                   *)
Enumerations(S) ==
  {ns \in [1 .. Cardinality(S) -> S] : \A f \in S : \E i \in DOMAIN ns : ns[i] = f}
=============================================================================
