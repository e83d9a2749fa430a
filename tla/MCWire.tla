------------------------------ MODULE MCWire ------------------------------
(***************************************************************************)
(* Bytes of two bits, for which a length is below 16 and a payload below   *)
(* 256 characters long.  The byte 0 is the newline, 1 and 2 are letters,   *)
(* 2, 3 is a letter of two bytes and 3 alone is no text.                   *)
(***************************************************************************)
EXTENDS Wire

a == <<1>>
b == <<2>>
e == <<3, 2>>
x == <<3>>

Letters    == {<<0>>, a, b}
AllLetters == {<<0>>, a, b, e}

LongName   == [i \in 1 .. 16 |-> a]
ShortNames == {<<a>>, LongName}

(* A file under a name that is used, and one whose name is no text *)
OldFile     == {<<1>> :> <<2, 2, 1>>, <<3>> :> <<2, 2, 1>>}
NoFiles     == {<<>>}
EmptyAndLong == {<<>>, [i \in 1 .. 5 |-> b], <<x>>}
WideTexts  == {<<a, b>>, <<a, e>>}

OneId == {201}
BothVersions == {1, 2}
OneVersion   == {1}
List   == <<2, 1>>

RequestCodes ==
  [BACKUP_FILE |-> 1, RESTORE_FILE |-> 2, DELETE_FILE |-> 3, LIST_FILES |-> 0]
ResponseCodes ==
  [SUCCESSFUL_RESTORE |-> 6, SUCCESSFUL_LIST_FILES |-> 9, SUCCESSFUL_BACKUP_OR_DELETE |-> 4,
   FILE_NOT_FOUND |-> 11, NO_BACKUP_FILES_FOR_CLIENT |-> 14, SERVER_ERROR |-> 7]
=============================================================================
