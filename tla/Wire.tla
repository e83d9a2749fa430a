------------------------------- MODULE Wire -------------------------------
(***************************************************************************)
(* The bytes between a client and the server of Maman14: requests packed   *)
(* by protocol.py and read field by field by RequestParser, responses      *)
(* packed by the classes of response.cpp and read by ResponseParser.       *)
(*                                                                         *)
(* Every call of the client has a connection of its own.  The network      *)
(* delivers the bytes of a message in pieces, and may break a connection;  *)
(* the request of a call that has failed may still reach the server, while *)
(* the client makes its next call.  A text, the name or the payload of a   *)
(* file, is a sequence of characters, and a character is the sequence of   *)
(* bytes that encodes it in UTF-8; a byte of a payload that is not UTF-8   *)
(* is an element of its own.                                               *)
(***************************************************************************)
EXTENDS Integers, Sequences, FiniteSets, Functions, SequencesExt

CONSTANTS
  Connections,   \* connections that may be in use at once
  NoConnection,  \* the client is not connected
  MayBreak,      \* TRUE: connections may break
  Base,          \* a byte is one of 0 .. Base - 1
  Newline,       \* the byte that ends a line
  Characters,    \* the encodings of characters
  Names,         \* the filenames that are used
  Payloads,      \* the contents of the files that are used
  OldFiles,      \* what may be in the directory of the user: a set of directories
  UserIds,       \* the user ids that are used
  RequestOP,     \* [op]: its byte
  ResponseOP,    \* [op]: its two-byte number
  ClientVersions, \* the versions of the clients, Client.VERSION
  ServerVersion, \* Server::get_version
  ListName,      \* the random filename of a list
  ShortReads     \* TRUE: socket.recv may return less than it was asked for

Bytes    == 0 .. Base - 1
Limit16  == Base * Base          \* a length of two bytes is below it
Limit32  == Limit16 * Limit16    \* and one of four bytes below this

ASSUME WireAssumption ==
  /\ NoConnection \notin Connections
  /\ Base \in Nat /\ Base > 1
  /\ Newline \in Bytes
  /\ Characters \subseteq Seq(Bytes) \ {<<>>} /\ <<Newline>> \in Characters
  /\ Names \subseteq Seq(Characters) \ {<<>>}
  /\ Payloads \subseteq Seq(Seq(Bytes))
  /\ \A old \in OldFiles :
       DOMAIN old \cup Range(old) \subseteq Seq(Bytes) /\ IsFiniteSet(DOMAIN old)
  /\ UserIds \subseteq 1 .. Limit32 - 1
  /\ IsInjective(RequestOP) /\ Range(RequestOP) \subseteq Bytes
  /\ DOMAIN RequestOP = {"BACKUP_FILE", "RESTORE_FILE", "DELETE_FILE", "LIST_FILES"}
  /\ IsInjective(ResponseOP) /\ Range(ResponseOP) \subseteq 0 .. Limit16 - 1
  /\ DOMAIN ResponseOP = {"SUCCESSFUL_RESTORE", "SUCCESSFUL_LIST_FILES",
                          "SUCCESSFUL_BACKUP_OR_DELETE", "FILE_NOT_FOUND",
                          "NO_BACKUP_FILES_FOR_CLIENT", "SERVER_ERROR"}
  /\ ListName \in Seq(Bytes)
  /\ ClientVersions \cup {ServerVersion} \subseteq Bytes
  /\ {MayBreak, ShortReads} \subseteq BOOLEAN

VARIABLES
  user_id,   \* Client.user_id
  version,   \* Client.VERSION
  conn,      \* the connection of the call the client is in
  call,      \* [d]: the call whose request was sent over d, until both ends are done
  live,      \* [d]: bytes that are written to d arrive
  up,        \* [d]: the bytes on their way to the server
  read,      \* [d]: RequestParser: the next field, and those that have been read
  known,     \* TRUE: the server has the user in its map
  files,     \* the directory of the user: [name]: content, both in bytes
  decided,   \* [d]: history: the response the server has sent, if it was delivered or not
  down,      \* [d]: the bytes on their way to the client
  answer,    \* ResponseParser: the next field, and those that have been read
  result,    \* what the last call returned or raised
  of,        \* history: the call that has returned it
  disputed,  \* history: when the client began its call, one that it had given up
             \* could yet change the file
  kept       \* history: [name]: the payload whose backup was acknowledged,
             \* until the name is deleted, or may be

client  == <<user_id, version>>
disk    == <<known, files>>
history == <<of, disputed, kept>>
vars    == <<client, conn, call, live, up, read, disk, decided, down, answer, result, history>>

-----------------------------------------------------------------------------
(* Numbers: struct.pack and Bytearray write them, struct.unpack and        *)
(* RequestReader read them, all in little endian order.                    *)

(* Variant: what is left of the number is not cut to a byte. *)
ByteUnmasked(v) == v

Byte(v) == v % Base

PushU16(v) == <<Byte(v), Byte(v \div Base)>>
PushU32(v) ==
  <<Byte(v), Byte(v \div Base), Byte(v \div Limit16), Byte(v \div (Base * Limit16))>>

(* Variant: the bytes are shifted the other way round. *)
ReadBigEndian(bytes) == Base * bytes[1] + bytes[2]

ReadUint16(bytes) == bytes[1] + Base * bytes[2]
ReadUint32(bytes) == bytes[1] + Base * (bytes[2] + Base * (bytes[3] + Base * bytes[4]))

(* The formats H and I of struct *)
PackH(v) == <<Byte(v), Byte(v \div Base)>>
PackI(v) ==
  <<Byte(v), Byte(v \div Base), Byte(v \div Limit16), Byte(v \div (Base * Limit16))>>
UnpackH(bytes) == bytes[1] + Base * bytes[2]
UnpackI(bytes) == bytes[1] + Base * (bytes[2] + Base * (bytes[3] + Base * bytes[4]))

-----------------------------------------------------------------------------
(* Texts *)

Encoded(text) == IF text = <<>> THEN <<>> ELSE FlattenSeq(text)

(* bytes.decode() does not raise. *)
IsUTF8(bytes) ==
  LET rest[i \in 1 .. Len(bytes) + 1] ==
        \/ i = Len(bytes) + 1
        \/ \E c \in Characters :
             /\ i + Len(c) <= Len(bytes) + 1
             /\ SubSeq(bytes, i, i + Len(c) - 1) = c
             /\ rest[i + Len(c)]
  IN  rest[1]

(* generate_random_alphanumeric writes letters and digits. *)
ASSUME ListNameAssumption == IsUTF8(ListName) /\ Len(ListName) < Limit16

(* The field "{n}s" of struct.pack: cut off or filled up to n bytes. *)
Field(bytes, n) == [i \in 1 .. n |-> IF i <= Len(bytes) THEN bytes[i] ELSE 0]

(* The lengths count characters and the fields hold bytes.                 *)
PackFilename(name)   == PackH(Len(name)) \o Field(Encoded(name), Len(name))
PackPayload(payload) == PackI(Len(payload)) \o Field(Encoded(payload), Len(payload))

(* struct.pack rejects a length that does not fit, decode a payload that   *)
(* is no text.                                                             *)
CanPack(c) ==
  /\ c.op # "LIST_FILES" => Len(c.name) < Limit16
  /\ c.op = "BACKUP_FILE" => Len(c.payload) < Limit32 /\ Range(c.payload) \subseteq Characters

PackRequest(c) ==
  PackI(user_id) \o <<version, RequestOP[c.op]>>
    \o (IF c.op = "LIST_FILES" THEN <<>> ELSE PackFilename(c.name))
    \o (IF c.op = "BACKUP_FILE" THEN PackPayload(c.payload) ELSE <<>>)

(* ProtocolResponse::pack and those that extend it: a response has a name, *)
(* or a name and a payload, or neither.                                    *)
PackResponse(r) ==
  <<ServerVersion>> \o PushU16(ResponseOP[r.op])
    \o (IF "name" \in DOMAIN r THEN PushU16(Len(r.name)) \o r.name ELSE <<>>)
    \o (IF "payload" \in DOMAIN r THEN PushU32(Len(r.payload)) \o r.payload ELSE <<>>)

(* payload.decode().splitlines(), for names without white space. *)
Lines(bytes) ==
  Front(FoldLeft(LAMBDA ls, b : IF b = Newline THEN Append(ls, <<>>)
                                ELSE [ls EXCEPT ![Len(ls)] = Append(@, b)],
                 <<<<>>>>, bytes))

-----------------------------------------------------------------------------
Calls ==
  [op : {"LIST_FILES"}] \cup [op : {"RESTORE_FILE", "DELETE_FILE"}, name : Names]
    \cup [op : {"BACKUP_FILE"}, name : Names, payload : Payloads]

None == [op |-> "none"]     \* no call, no response, no result

(* A parser that has read nothing yet *)
Parser(next) ==
  [next |-> next, user |-> 0, op |-> "none", length |-> 0, name |-> <<>>, payload |-> <<>>]
AnswerParser(next) ==
  [next |-> next, op |-> "none", length |-> 0, name |-> <<>>, payload |-> <<>>, cut |-> FALSE]

Parsers ==
  [next : {"none", "user_id", "version", "op", "name_length", "name", "payload_length",
           "payload", "handle", "error"},
   user : Nat, op : DOMAIN RequestOP \cup {"none"}, length : Nat,
   name : Seq(Bytes), payload : Seq(Bytes)]
AnswerParsers ==
  [next : {"none", "header", "name_length", "name", "payload_length", "payload", "done", "error"},
   op : DOMAIN ResponseOP \cup {"none"}, length : Nat,
   name : Seq(Bytes), payload : Seq(Bytes), cut : BOOLEAN]

Idle    == Parser("none")
Nothing == AnswerParser("none")

Init ==
  /\ user_id \in UserIds /\ version \in ClientVersions
  /\ conn = NoConnection
  /\ call = [d \in Connections |-> None]
  /\ live = [d \in Connections |-> FALSE]
  /\ up = [d \in Connections |-> <<>>] /\ down = [d \in Connections |-> <<>>]
  /\ read = [d \in Connections |-> Idle] /\ answer = Nothing
  /\ decided = [d \in Connections |-> None]
  /\ known = FALSE /\ files \in OldFiles
  /\ result = None /\ of = None /\ disputed = FALSE /\ kept = <<>>

(* A call other than that of d that changes a file when it is performed. *)
Disputed(d, name) ==
  \E e \in Connections \ {d} :
    call[e].op \in {"BACKUP_FILE", "DELETE_FILE"} /\ call[e].name = name

(* A connection is opened and the request written to it. *)
SendRequest(d, c) ==
  /\ conn = NoConnection /\ call[d] = None /\ CanPack(c)
  /\ conn' = d
  /\ call' = [call EXCEPT ![d] = c]
  /\ live' = [live EXCEPT ![d] = TRUE]
  /\ up' = [up EXCEPT ![d] = PackRequest(c)]
  /\ read' = [read EXCEPT ![d] = Parser("user_id")]
  /\ answer' = AnswerParser("header")
  /\ result' = None /\ of' = None
  /\ disputed' = (c.op = "BACKUP_FILE" /\ Disputed(d, c.name))
  /\ UNCHANGED <<client, disk, decided, down, kept>>

FailToPack(c) ==
  /\ conn = NoConnection /\ ~CanPack(c)
  /\ result' = [op |-> "NotPacked"] /\ of' = None
  /\ UNCHANGED <<client, conn, call, live, up, read, disk, decided, down, answer, disputed, kept>>

(* The connection breaks.  What is on its way may arrive or be lost; as    *)
(* both ends take a field in full or fail, a part of it is as good as none.*)
Break ==
  /\ MayBreak /\ conn # NoConnection /\ live[conn]
  /\ live' = [live EXCEPT ![conn] = FALSE]
  /\ \/ up' = [up EXCEPT ![conn] = <<>>] \/ UNCHANGED up
  /\ \/ down' = [down EXCEPT ![conn] = <<>>] \/ UNCHANGED down
  /\ UNCHANGED <<client, conn, call, read, disk, decided, answer, result, history>>

-----------------------------------------------------------------------------
(* The server: RequestParser reads one field after the other, each in full *)
(* whatever the pieces it arrives in, as boost::asio::read does.           *)

Width(r) ==
  CASE r.next = "user_id"                  -> 4
    [] r.next \in {"version", "op"}        -> 1
    [] r.next = "name_length"              -> 2
    [] r.next = "payload_length"           -> 4
    [] r.next \in {"name", "payload"}      -> r.length

OpOf(byte) == CHOOSE op \in DOMAIN RequestOP : RequestOP[op] = byte

(* What RequestParser has read after the bytes of its next field. *)
AfterField(r, bytes) ==
  CASE r.next = "user_id" -> [r EXCEPT !.next = "version", !.user = ReadUint32(bytes)]
    [] r.next = "version" ->
         [r EXCEPT !.next = IF bytes[1] = ServerVersion THEN "op" ELSE "error"]
    [] r.next = "op" ->
         IF bytes[1] \notin Range(RequestOP) THEN [r EXCEPT !.next = "error"]
         ELSE [r EXCEPT !.op = OpOf(bytes[1]),
                        !.next = IF OpOf(bytes[1]) = "LIST_FILES" THEN "handle"
                                                                  ELSE "name_length"]
    [] r.next = "name_length" -> [r EXCEPT !.next = "name", !.length = ReadUint16(bytes)]
    [] r.next = "name" ->
         [r EXCEPT !.name = bytes,
                   !.next = IF r.op = "BACKUP_FILE" THEN "payload_length" ELSE "handle"]
    [] r.next = "payload_length" -> [r EXCEPT !.next = "payload", !.length = ReadUint32(bytes)]
    [] r.next = "payload" -> [r EXCEPT !.next = "handle", !.payload = bytes]

Reading(d) == read[d].next \notin {"none", "error", "handle"}

(* Variant: read_some, which fills the buffer with what has arrived only. *)
ReadFieldSome(d) ==
  /\ Reading(d)
  /\ \E n \in 1 .. Width(read[d]) :
       /\ Len(up[d]) >= n
       /\ read' = [read EXCEPT ![d] = AfterField(@, Field(SubSeq(up[d], 1, n), Width(@)))]
       /\ up' = [up EXCEPT ![d] = SubSeq(@, n + 1, Len(@))]
  /\ UNCHANGED <<client, conn, call, live, disk, decided, down, answer, result, history>>

ReadField(d) ==
  /\ Reading(d) /\ Len(up[d]) >= Width(read[d])
  /\ read' = [read EXCEPT ![d] = AfterField(@, SubSeq(up[d], 1, Width(@)))]
  /\ up' = [up EXCEPT ![d] = SubSeq(@, Width(read[d]) + 1, Len(@))]
  /\ UNCHANGED <<client, conn, call, live, disk, decided, down, answer, result, history>>

(* Variant: of a response that cannot be sent in full, the half stays on   *)
(* the wire, and the error that follows it arrives.                        *)
SendTwice(d, response) ==
  LET bytes == PackResponse(response)
      half  == SubSeq(bytes, 1, Len(bytes) \div 2) \o PackResponse([op |-> "SERVER_ERROR"])
  IN  IF live[d] THEN \E b \in {bytes, half} : down' = [down EXCEPT ![d] = b] ELSE UNCHANGED down

(* asio::write throws only on a connection that is broken; the error       *)
(* response that client_session sends then does not arrive either.         *)
Send(d, response) ==
  IF live[d] THEN down' = [down EXCEPT ![d] = PackResponse(response)] ELSE UNCHANGED down

(* The session of d ends and with it what the client has written besides.  *)
(* Once the client has given the call up nothing is left of it.            *)
EndSession(d, response) ==
  /\ read' = [read EXCEPT ![d] = Idle]
  /\ up' = [up EXCEPT ![d] = <<>>]
  /\ IF d = conn THEN decided' = [decided EXCEPT ![d] = response] /\ UNCHANGED call
                 ELSE call' = [call EXCEPT ![d] = None] /\ UNCHANGED decided
  /\ UNCHANGED <<client, conn, live, answer, result, history>>

Answer(d, response) == Send(d, response) /\ EndSession(d, response)

(* The rest of the request never comes: recv throws. *)
LoseRequest(d) ==
  /\ Reading(d) /\ ~live[d] /\ Len(up[d]) < Width(read[d])
  /\ EndSession(d, [op |-> "lost"])
  /\ UNCHANGED <<disk, down>>

(* The parser throws: the error response is all the client gets.           *)
RejectRequest(d) ==
  /\ read[d].next = "error"
  /\ Answer(d, [op |-> "SERVER_ERROR"])
  /\ UNCHANGED disk

(* The handlers, for the directory of one user. *)
Stored(directory, name, payload) ==
  [n \in DOMAIN directory \cup {name} |-> IF n = name THEN payload ELSE directory[n]]

Handles(d, op) == read[d].next = "handle" /\ read[d].op = op

(* Variant: a file that is already there is kept and the backup acknowledged. *)
BackUpFileAgain(d) ==
  /\ Handles(d, "BACKUP_FILE")
  /\ Answer(d, [op |-> "SUCCESSFUL_BACKUP_OR_DELETE", name |-> read[d].name])
  /\ known' = TRUE
  /\ files' = IF read[d].name \in DOMAIN files THEN files
              ELSE Stored(files, read[d].name, read[d].payload)

BackUpFile(d) ==
  /\ Handles(d, "BACKUP_FILE")
  /\ Answer(d, IF read[d].name \in DOMAIN files THEN [op |-> "SERVER_ERROR"]
               ELSE [op |-> "SUCCESSFUL_BACKUP_OR_DELETE", name |-> read[d].name])
  /\ known' = TRUE
  /\ files' = IF read[d].name \in DOMAIN files THEN files
              ELSE Stored(files, read[d].name, read[d].payload)

RestoreFile(d) ==
  /\ Handles(d, "RESTORE_FILE")
  /\ Answer(d, IF ~known THEN [op |-> "SERVER_ERROR"]
               ELSE IF read[d].name \in DOMAIN files
                 THEN [op |-> "SUCCESSFUL_RESTORE", name |-> read[d].name,
                       payload |-> files[read[d].name]]
                 ELSE [op |-> "FILE_NOT_FOUND", name |-> read[d].name])
  /\ UNCHANGED disk

Without(directory, name) == Restrict(directory, DOMAIN directory \ {name})

(* Variant: the file is deleted whether the user is in the map or not. *)
DeleteFileOfAnyUser(d) ==
  /\ Handles(d, "DELETE_FILE")
  /\ Answer(d, IF read[d].name \notin DOMAIN files THEN [op |-> "SERVER_ERROR"]
               ELSE [op |-> "SUCCESSFUL_BACKUP_OR_DELETE", name |-> read[d].name])
  /\ files' = Without(files, read[d].name)
  /\ UNCHANGED known

(* The user is looked up before the file: a server that has been started   *)
(* anew finds neither.                                                     *)
DeleteFile(d) ==
  /\ Handles(d, "DELETE_FILE")
  /\ Answer(d, IF ~known \/ read[d].name \notin DOMAIN files THEN [op |-> "SERVER_ERROR"]
               ELSE [op |-> "SUCCESSFUL_BACKUP_OR_DELETE", name |-> read[d].name])
  /\ files' = IF known THEN Without(files, read[d].name) ELSE files
  /\ UNCHANGED known

(* The names, each with a newline, in the order of the directory. *)
ListFiles(d) ==
  /\ Handles(d, "LIST_FILES")
  /\ \E names \in SetToSeqs(DOMAIN files) :
       Answer(d, IF ~known THEN [op |-> "NO_BACKUP_FILES_FOR_CLIENT"]
                 ELSE [op |-> "SUCCESSFUL_LIST_FILES", name |-> ListName,
                       payload |-> Encoded([i \in DOMAIN names |-> Append(names[i], Newline)])])
  /\ UNCHANGED disk

ServerStep(d) ==
  \/ ReadField(d) \/ LoseRequest(d) \/ RejectRequest(d)
  \/ BackUpFile(d) \/ RestoreFile(d) \/ DeleteFile(d) \/ ListFiles(d)

-----------------------------------------------------------------------------
(* The client: ResponseParser asks socket.recv for each field once.        *)

Named    == {"SUCCESSFUL_RESTORE", "SUCCESSFUL_LIST_FILES", "SUCCESSFUL_BACKUP_OR_DELETE",
             "FILE_NOT_FOUND"}
WithFile == {"SUCCESSFUL_RESTORE", "SUCCESSFUL_LIST_FILES"}
Errors   == {"FILE_NOT_FOUND", "NO_BACKUP_FILES_FOR_CLIENT", "SERVER_ERROR"}

AnswerWidth(a) ==
  CASE a.next = "header"             -> 3
    [] a.next = "name_length"        -> 2
    [] a.next = "payload_length"     -> 4
    [] a.next \in {"name", "payload"} -> a.length

ParseError(cut) == [AnswerParser("error") EXCEPT !.cut = cut]

AfterAnswerField(a, bytes) ==
  CASE a.next = "header" ->
         LET ops == {op \in DOMAIN ResponseOP : ResponseOP[op] = UnpackH(Tail(bytes))} IN
         IF ops = {} THEN ParseError(FALSE)
         ELSE LET op == CHOOSE o \in ops : TRUE
              IN  [a EXCEPT !.op = op, !.next = IF op \in Named THEN "name_length" ELSE "done"]
    [] a.next = "name_length" -> [a EXCEPT !.next = "name", !.length = UnpackH(bytes)]
    [] a.next = "name" ->
         IF ~IsUTF8(bytes) THEN ParseError(FALSE)
         ELSE [a EXCEPT !.name = bytes,
                        !.next = IF a.op \in WithFile THEN "payload_length" ELSE "done"]
    [] a.next = "payload_length" -> [a EXCEPT !.next = "payload", !.length = UnpackI(bytes)]
    [] a.next = "payload" -> [a EXCEPT !.next = "done", !.payload = bytes]

Receiving == answer.next \notin {"none", "error", "done"}

(* recv returns n bytes: all it was asked for or, when the others have not *)
(* arrived yet, fewer, and struct.unpack raises.                           *)
ReceiveField ==
  /\ Receiving /\ Len(down[conn]) >= AnswerWidth(answer)
  /\ \E n \in 0 .. AnswerWidth(answer) :
       /\ n < AnswerWidth(answer) => ShortReads /\ n > 0
       /\ down' = [down EXCEPT ![conn] = SubSeq(@, n + 1, Len(@))]
       /\ answer' = IF n < AnswerWidth(answer) THEN ParseError(TRUE)
                    ELSE AfterAnswerField(answer, SubSeq(down[conn], 1, n))
  /\ UNCHANGED <<client, conn, call, live, up, read, disk, decided, result, history>>

(* The server has closed the connection, or it is broken: there is nothing *)
(* more to receive.                                                        *)
ReceiveEnd ==
  /\ Receiving /\ Len(down[conn]) < AnswerWidth(answer)
  /\ read[conn] = Idle \/ ~live[conn]
  /\ answer' = ParseError(~live[conn])
  /\ UNCHANGED <<client, conn, call, live, up, read, disk, decided, down, result, history>>

ExpectedOp(c) ==
  CASE c.op = "LIST_FILES"                        -> "SUCCESSFUL_LIST_FILES"
    [] c.op = "RESTORE_FILE"                      -> "SUCCESSFUL_RESTORE"
    [] c.op \in {"BACKUP_FILE", "DELETE_FILE"}    -> "SUCCESSFUL_BACKUP_OR_DELETE"

(* What a method of Client makes of the response to its call.  A list of   *)
(* names is decoded.                                                       *)
Returned(c, r) ==
  CASE r.op \in Errors              -> [op |-> r.op]
    [] r.op \notin Errors \cup {ExpectedOp(c)} -> [op |-> "UnexpectedResponse"]
    [] r.op = ExpectedOp(c) ->
         CASE c.op = "LIST_FILES"   ->
                IF IsUTF8(r.payload) THEN [op |-> r.op, names |-> Lines(r.payload)]
                                     ELSE [op |-> "UnicodeDecodeError"]
           [] c.op = "RESTORE_FILE" -> [op |-> r.op, payload |-> r.payload]
           [] OTHER                 -> [op |-> r.op, name |-> r.name]

(* ensure_connected closes the connection with whatever is left on it.  A  *)
(* server that is not done yet goes on with the request.                   *)
EndCall(r) ==
  /\ result' = r
  /\ conn' = NoConnection /\ answer' = Nothing /\ disputed' = FALSE
  /\ live' = [live EXCEPT ![conn] = FALSE]
  /\ down' = [down EXCEPT ![conn] = <<>>]
  /\ decided' = [decided EXCEPT ![conn] = None]
  /\ call' = IF read[conn] = Idle THEN [call EXCEPT ![conn] = None] ELSE call
  /\ UNCHANGED <<client, up, read, disk>>

Forget(name) == kept' = Without(kept, name)

Return ==
  LET c == call[conn] IN
  /\ answer.next = "done"
  /\ EndCall(Returned(c, answer)) /\ of' = c
  /\ \/ answer.op # "SUCCESSFUL_BACKUP_OR_DELETE" /\ UNCHANGED kept
     \/ /\ answer.op = "SUCCESSFUL_BACKUP_OR_DELETE"
        /\ IF c.op = "BACKUP_FILE" /\ ~disputed
             THEN kept' = Stored(kept, c.name, c.payload)
             ELSE Forget(c.name)

(* The client does not know any more what is under the name of a backup or *)
(* a delete.                                                               *)
FailToParse ==
  LET c == call[conn] IN
  /\ answer.next = "error"
  /\ EndCall([op |-> "FailedToParseMessage", cut |-> answer.cut]) /\ of' = None
  /\ IF c.op \in {"BACKUP_FILE", "DELETE_FILE"} THEN Forget(c.name) ELSE UNCHANGED kept

ClientStep == ReceiveField \/ ReceiveEnd \/ Return \/ FailToParse

Next ==
  \/ \E c \in Calls : FailToPack(c) \/ \E d \in Connections : SendRequest(d, c)
  \/ Break
  \/ \E d \in Connections : ServerStep(d)
  \/ ClientStep

Spec == Init /\ [][Next]_vars

(* Both parsers go on as long as they have what they wait for, and each    *)
(* end notices that the other one has closed, or that nothing arrives.     *)
FairSpec == Spec /\ WF_vars(ClientStep) /\ \A d \in Connections : WF_vars(ServerStep(d))

-----------------------------------------------------------------------------
(* Properties *)

(* What the two packers write is bytes, and so is what is on the disk.     *)
TypeOK ==
  /\ user_id \in UserIds /\ version \in ClientVersions
  /\ conn \in Connections \cup {NoConnection}
  /\ call \in [Connections -> Calls \cup {None}]
  /\ live \in [Connections -> BOOLEAN] /\ {known, disputed} \subseteq BOOLEAN
  /\ {up, down} \subseteq [Connections -> Seq(Bytes)]
  /\ read \in [Connections -> Parsers] /\ answer \in AnswerParsers
  /\ DOMAIN files \cup Range(files) \subseteq Seq(Bytes) /\ IsFiniteSet(DOMAIN files)
  /\ DOMAIN kept \subseteq Names /\ Range(kept) \subseteq Payloads

(* The server understands what the client has written: the request it      *)
(* handles is the one of the call, and nothing of it is left on the wire.  *)
RequestsArriveUnchanged ==
  \A d \in Connections : read[d].next = "handle" =>
    /\ up[d] = <<>>
    /\ read[d].user = user_id /\ read[d].op = call[d].op
    /\ call[d].op # "LIST_FILES" => read[d].name = Encoded(call[d].name)
    /\ call[d].op = "BACKUP_FILE" => read[d].payload = Encoded(call[d].payload)

(* A restored file has the bytes that were backed up under its name, in    *)
(* whatever calls that failed before.                                      *)
RestoredIsBackedUp ==
  result.op = "SUCCESSFUL_RESTORE" /\ of.name \in DOMAIN kept =>
    result.payload = Encoded(kept[of.name])

(* The client understands every answer of the server that reaches it in    *)
(* full, but for the list of a directory with a name that is no text.      *)
AnswersAreUnderstood ==
  /\ result.op = "FailedToParseMessage" => result.cut
  /\ result.op = "UnicodeDecodeError" => \E name \in DOMAIN files : ~IsUTF8(name)

(* The client understands every answer of the server. *)
CallsDoNotFail == result.op # "FailedToParseMessage"

(* No parser waits for bytes that nobody has written: every call returns.  *)
CallsReturn == conn # NoConnection ~> conn = NoConnection

-----------------------------------------------------------------------------
(* For texts of one-byte characters Wire implements RemoteFiles.  A list   *)
(* that cannot be decoded is one the caller learns nothing from.           *)

Texts == [t \in Names \cup Payloads |-> Encoded(t)]

InBytes(c) == [f \in DOMAIN c |-> IF f = "op" THEN c.op ELSE Texts[c[f]]]

Remote == INSTANCE RemoteFiles WITH
  Names    <- Range(Texts),
  Payloads <- Range(Texts),
  Initial  <- OldFiles,
  store    <- files,
  call     <- [d \in Connections |-> InBytes(call[d])],
  reply    <- [d \in Connections |->
                IF decided[d].op \in {"none", "lost"} THEN decided[d]
                ELSE IF Returned(call[d], decided[d]).op = "UnicodeDecodeError"
                  THEN [op |-> "lost"] ELSE Returned(call[d], decided[d])],
  result   <- IF result.op \in {"NotPacked", "FailedToParseMessage", "UnicodeDecodeError"}
                THEN [op |-> "failed"] ELSE result

(* To its caller each call of the client is performed at most once, in one *)
(* step, and returns what that step found, however the bytes travel and    *)
(* the connections break.                                                  *)
ImplementsRemoteFiles == Remote!Spec
=============================================================================
