# Verification of the programs of ProgrammingClass2022C

The repository holds the exercises of a programming class. Two of them keep
state that is hard to get right and are modelled here in TLA+: the backup
service of `Maman14` (a concurrent C++ server and a Python client, with a binary
protocol between them) and the social network of `Maman11/USocial` (C++
objects that own each other). Three smaller exercises with a hard case of their
own (`Maman12/Question1`, `meta.py` and `pros.py` of `Maman13/Question3`) are
modelled beside them. TLC checks the models on small instances; TLAPS proves for
every instance the safety of the server and that it implements the abstract store,
the safety of the clients and the server together, that what is packed on the wire is
what is parsed, and the invariants of the social network and of the exercises.

Paths below are relative to the repository; modules and configurations are in
this directory.

## The parts of the system

### Backup server: `Maman14/Server`

*State.* The disk (one directory per user id under a root, one file per backup);
`BackupDirectoryManager::user_directories_`, a map from user id to
`UserBackupDirectory`, and its `mutex_`; one `mutex_` in each
`UserBackupDirectory`; per connection a detached thread with the request it
parsed and its response.

*Operations.* `Server::serve_requests` accepts and detaches `client_session`,
which parses one request, calls `backupFile`, `restoreFile`, `deleteFile` or
`listFiles`, sends one response and closes the connection. Each handler makes
one call of the manager, which takes its mutex, looks the user up (or adds it and
creates its directory), and calls the directory, which takes its own mutex and
works on the file system with several calls: test for existence, open,
write, close; read; remove; iterate.

*What is hard.* Any number of threads at once; a test for existence and the
write that relies on it; two nested mutexes with exceptions thrown between; a
crash at any step, with the map lost and the disk kept; clients that vanish or
stall; the empty filename, which names the directory itself; a disk that fills.

*What makes it correct.* The mutexes are held where and only where the scopes of
the `lock_guard`s say; an acknowledged backup is on disk, whole, until an
acknowledged delete; nothing overwrites a file; no half written file is handed
out; a client sees each request performed at once; no client can stop the others.

### Backup client: `Maman14/Client/backup_client`

*State.* The two configuration files (`backup.info`, `server.info`), a user id
drawn at random per process, the connection of the request at hand, the place in
`main()`.

*Operations.* Seven requests in a fixed order (list, backup, backup, list,
restore, delete, restore), each on a connection of its own
(`ensure_connected`), with assertions on what comes back.

*What is hard.* User ids that collide; processes that die; a server that goes
away, is not there or has no thread left; responses that arrive in pieces;
configuration files that list other files than `main()` counts on.

*What makes it correct.* A process with a user id of its own gets through
whatever the others do; what it restores is what it backed up; it ends; with a
wrong configuration it never ends as if all were well.

### Wire protocol: `Client/backup_client/protocol.py`, `Server/protocol`, `Server/request_parser.cpp`

*State.* Per connection the bytes on the way in each direction and the field each
parser expects next.

*Operations.* Packing and parsing of four requests and six responses.

*What is hard.* Two implementations in two languages that must agree on widths,
byte order and lengths; lengths in characters where the field holds bytes;
`recv` that returns less than it was asked for; connections that break, and
requests that are performed after the client has given them up.

*What makes it correct.* The server handles the request the client meant, with
nothing left over; the client understands the response and gets back its bytes;
to its caller a call is performed at most once, in one step, or fails.

### Social network: `Maman11/USocial`

*State.* `USocial` objects with a map from id to `User*`; `User` objects with a
back pointer `us_`, a list of friends' ids, owned posts (each with its media) and
owned received messages; a static counter of ids.

*Operations.* Create, copy, assign and destroy a network; `registerUser`,
`removeUser`; `addFriend`, `removeFriend`, `post`, `sendMessage`,
`receiveMessage`, `viewFriendsPosts`; `BusinessUser` overrides one test.

*What is hard.* Who deletes what after copies and exceptions; which ids
and pointers still mean the same after users are removed and networks copied;
the counter that wraps around.

*What makes it correct.* Every user, post and message has one owner that deletes
it once; no id is given to two users; friends are the friends that were added;
a copy shows the posts that the original showed.

### Exercises: `Maman12/Question1`, `Maman13/Question3`

*Credit.* Two stateless functions of an `int` compare it with an `unsigned int`.
Hard is the conversion: what is negative compares as large. The corrected function
must answer yes exactly to the credits of at least 750.

*`meta.py`.* State: for each class of a file the function under each method name.
The program wraps all methods of a class, inherited ones included, calls them, and
goes on to the next class in the order of the names. Hard is what has been wrapped
already, through a base class or a second name. Every method must run the added code
first and then what was written under its name.

*`pros.py`.* Four names and four checks in an order before a class is made. Hard is
that a check nobody wrote (the class is not its own base) rests on that order.

### Not modelled

| part | why |
|---|---|
| `string_utils` | one function, the random name of a list response, which nobody reads; `ListName` of `Wire` |
| `get_num_backup_directories` | called by tests only; it reads the map without the mutex, and changes nothing |
| `User::operator=`, `Post::operator=` | no caller; the former is protected |
| `Maman11/Question*`, `past.py`, `rain.py`, `bank.py`, `fruit.py` | scripts of a few lines on constants or one input, without state between steps |
| Bazel files, workflow | no program logic |

Within the modelled parts: what is printed, text of exceptions, and multiple
inheritance in `meta.py`.

## The modules

| module | models |
|---|---|
| `BackupMessages` | requests and responses as values, shared by all backup modules |
| `BackupServer` | the server: threads, mutexes, map, disk, crash |
| `BackupServer_proof` | the theorems about `BackupServer` |
| `BackupStore` | the abstract store: each request performed in one step |
| `BackupRefinement` | `BackupServer` with the mapping to `BackupStore` |
| `BackupRefinement_proof` | the theorem that this mapping is a refinement |
| `BackupClient` | the processes that run `main()` |
| `BackupSystem` | `BackupClient` and `BackupServer` composed over their connections |
| `BackupSystem_proof` | the theorems about `BackupSystem` |
| `Wire` | one client, one server and the bytes between them on each connection |
| `Wire_proof` | the theorems about `Wire` |
| `RemoteFiles` | the abstract service `Wire` implements: calls that are performed at once, or fail |
| `USocial` | networks, users, posts and messages on a heap |
| `USocial_proof` | the theorems about `USocial` |
| `Credit`, `Credit_proof` | `Maman12/Question1`, and the theorem about it |
| `Meta`, `Pros` | `meta.py` and `pros.py` of `Maman13/Question3` |
| `Exercises_proof` | the theorems about `Meta` and `Pros` |
| `MC*` | values of constants and symmetries for TLC; `MCExercises` runs one of the three exercises in each behaviour |

### `BackupServer` and the code

| model | code |
|---|---|
| `Accept`, `ReadRequest`, `RejectRequest`, `LoseClient`, `SendResponse`, `FailToSend` | `serve_requests`, `client_session`, `handleRequest`, `sendServerError` (`server.cpp`) |
| `LockManager`, `AddUser`, `AddUserFails`, `FindUser`, `UserNotFound` | `BackupDirectoryManager` (`backup_directory_manager.cpp`) |
| `LockDirectory`, `CheckSucceeds`, `CheckFails`, `OpenFile`, `WriteFile`, `FinishBackup`, `ReadFile`, `RemoveFile`, `RemoveDirectory`, `ListDirectory` | `UserBackupDirectory` (`user_backup_directory.cpp`) |
| `Unlock` in `Leave` | destructors of the `lock_guard`s, on return and on exception alike |
| `Restart` | death of the process, or an exception that leaves `main` |

A step ends where another thread or a crash can see the difference: at each
mutex and at each call of the file system. `writeFile` is one step after
`openFile`, so a crash or a reader may find the file empty or part-written
(`complete = FALSE`) but parts are not told apart. A slot of `Sessions` is free
again once its connection is closed, so the number of requests is not bounded.
`promised` is a history variable: what the responses decided so far
say is stored. Which exception is caught where decides the response: only
`listFiles` catches the missing user, only `restoreFile` the missing file, all
others become `SERVER_ERROR`. `files[u][EmptyName]` is the plain file an
`ofstream` creates at the path of the directory when the directory is gone.

Assumed of the environment: a filename names an entry of the directory of its
user (no separators); `directory / ""` is the directory itself, as in version 3 of
Boost's `path`; an `ofstream` may create a plain file where a directory was.

Deliberate simplifications: a payload is written by one step; a restore of the
directory itself throws, as reading it does with libstdc++; a crash keeps the
order in which the file system calls were made.

### `BackupClient`, `BackupSystem`

`step` is the request of `main()`, 0 while the configuration is read; `link` the
connection of `ensure_connected`, `outbox` and `inbox` the two directions of it.
`ReadInfo` is `BackupInfo.from_file` and `ServerInfo.from_file` in their order, with
the exceptions they raise; `FailToIndex` is the `IndexError` of a `backup.info` with too
few lines, `FailToRead` the file that does not exist (noticed when the connection is
open already). `Result` has every way in which `main()` can go on or end, `Close` is the
`finally` clause.

In `BackupSystem` the session of a client is named after the client: a process has one
connection at a time. A connection waits until `Accept` starts a thread for it; with
`MaxThreads` threads running, `std::thread` throws out of `main` and the server ends
like in a crash (`RunOutOfThreads`). After a crash the server does not run until `Boot`,
which need not happen; meanwhile connections are refused.

### `Wire`

`PackRequest` and `PackResponse` are the packers; `read[d]` and `answer` are the two
parsers, as records whose field `next` says what they read next. A byte is one of
`Base` values; the numbers have two or four of them, as in the code, and are below
`Limit16` and `Limit32`; with bytes of two bits
(`Base = 4`) a filename of 16 characters is already too long and is rejected by
`struct.pack`, so the limits are within reach. The server reads each field in full
(`boost::asio::read`); the client calls `recv` once per field, and with `ShortReads` may
get fewer bytes. The length fields of requests count characters while the fields
hold bytes, as in `protocol.py`. The payload of a list is the names with a newline each,
and `Lines` splits it as `splitlines` and `strip` do, for names without other white space.
A name that is not UTF-8 makes the decoding of a list raise (`UnicodeDecodeError`), in whatever
order it comes. The handlers are those of one user; the directory may hold files at first that
the server does not know of (they were backed up before a restart): until the next backup of
the user it lists, restores and deletes none of them (`known`).

A connection may break at any time (`Break`); what is on its way arrives or is lost. The
client then fails its call, but the server may still have the request: `call[d]`
stays until the session of `d` ends, while the client makes other calls on other
connections. `kept`, `disputed` and `of` are history variables, which no step of the code
looks at. `kept` has the payloads whose backup was acknowledged and that no call since, given up or
not, can have deleted. When a backup is acknowledged while the server still has another
backup or delete of the same name, the client cannot know what is stored; `disputed` records
that at the start of the call. It has to be then: that other call may
end between the decision on the backup and its answer, and in the meantime have deleted or
kept out the file. (With `kept` decided at the answer, three connections refute
`RestoredIsBackedUp`; two do not.) `of` is the call that the last result belongs to.

`ImplementsRemoteFiles` maps all this to `RemoteFiles`, where a call is
performed in one step, and its reply is what the handler decided (`decided`).

### `USocial`

The heap maps addresses to live objects; a deleted address may be allocated
again. `CopyUser` is the copy constructor of `User`, through which every user of
a copied network goes: the copy of a `BusinessUser` is a plain `User`, and
`us_` still points to the network it was copied from. The media of a post is a field of
it with the address it was allocated for, so that media shared by two posts would show;
`clone` keeps the class, and one class stands for `Audio`, `Photo` and `Video`. `MayPass` is an assumption
on callers of `removeUser`: the user passed is the one the network has under that
id (or one whose id it does not have), since the code erases by id and deletes by
pointer. Messages handed to `sendMessage` belong to the network from
then on, on its failure paths too, as the code deletes them there. `new` takes an address
that is not live, and which one it is makes no difference: addresses are only compared.

### `Meta`

A class has a higher number than its base. `Line` is the class and those it inherits from,
stated as the least set with their bases; of the classes of a line that have a method,
`getattr` finds the one with the highest number (`Holder`). `todo` is the list of
`inspect.getmembers`: names in their order, so a set with the least name as the next.

## The runs

Twelve runs; a finding is a run that ends in a counterexample.

| run | instance | shows |
|---|---|---|
| `server_safety` | 3 sessions, 1 user, 2 files, 2 payloads, 1 crash | types, mutexes, promises, no torn read, no overwriting; `BackupServer` implements `BackupStore` |
| `server_liveness` | 2 sessions, 1 user, a file and the empty name, disk may fill, 1 crash | the mutexes are released on every path, files change only by their own delete, a waiting request is only delayed by requests that are served |
| `server_empty_name` | 2 sessions, the empty name allowed | finding 1 |
| `system_safety` | 3 processes on 2 user ids, any may be killed | isolation of processes, restored bytes, what is left on disk |
| `system_crash` | 2 processes, 2 crashes, 1 thread, short reads, 6 forms of `backup.info` and 4 of `server.info` | every process ends; never other bytes; nobody finishes with a wrong configuration |
| `system_listing` | 1 process | finding 2 |
| `wire_round_trip` | 2 connections that may break, names of 1 and 16 characters, payloads of 0 and 5 bytes and one that is no text, a file from before a restart (under a name that calls use, or one that is no text), 2 versions, short reads | requests arrive unchanged, answers are understood (but for lists with a name that is no text), calls return; `Wire` implements `RemoteFiles` |
| `wire_wide_payload` | a character of two bytes | finding 3 |
| `wire_short_reads` | short reads | finding 4 |
| `social_copies` | 2 networks, 3 users, 2 objects with media or without, ids 1 and 2 | single ownership, unique friends, ids are not reused, copies show what the originals showed |
| `social_copied` | 2 networks, copies | finding 5 |
| `exercises` | ints of 11 bits; 5 names; 3 classes with 2 methods in files of up to 3 names | the corrected credit check, sound new classes, the added code before every method |

*Why the bounds are enough.* Three sessions give one inside the manager and two
that race for it; two suffice for starvation because the slot of the overtaker
is used again. Users, files, payloads and addresses are only compared, so two of
each show every confusion of one with another. One crash leaves every kind of
disk a crash can leave; a second one finds nothing else (`system_crash` has two
because a process survives a crash between its requests). Three processes on two
user ids have a pair that collides beside one that is alone. In `Wire`, names lie
on both sides of their length limit, the length of a payload needs more than one byte
(its limit, of four bytes, is not reached), and the user id 201 needs all four. Two connections are enough for a request that is given up beside the one that is
waited for. A third holds another request of the same client, which meets the first
two in the directory; its invariants are proved for any number of connections. In `USocial` two ids run out while three
users can still be allocated, so that the overflow of `registerUser` and its leak
happen. Three classes have a chain of two bases, where a method can be inherited
through a class that is visited first, last or never, and three names for them include one
with two names and one without. All ints of eleven bits lie on both sides of 750.

*Symmetry* is used for sets whose elements are only compared for equality, in
runs without liveness properties. Deadlock is checked in every run but `exercises`:
`Terminated` in `BackupSystem` is the one place where the other systems may stop.

### Fairness

`BackupServer!FairSpec`: weak fairness of the handler steps and of
`LockManager` for each session, as the operating system runs a thread that can
run and wakes waiters of a free mutex. Nothing is assumed of clients: reading a
request and sending a response may take for ever, since sockets have no timeout.
`std::mutex` promises no order, so a waiter may be overtaken for ever; that is why
`OnlyOvertakingDelays` does not promise service, only that nothing but the
service of others delays it.

`BackupSystem!FairSpec`: processes, threads and the network make progress; nobody has to
die, no crash has to happen, and a server that has ended need not be started again
(`Boot` is not fair): its clients end all the same, because connecting is refused.

`Wire!FairSpec`: both ends go on as long as the bytes they wait for are there, and each
notices a connection that the other end has closed or that is broken (`LoseRequest`,
`ReceiveEnd`); there are no timeouts in the code, so a connection that goes silent
for ever without breaking would keep a call for ever, and the models leave it out. A
parser that waits for bytes nobody wrote on a connection that is whole stays where it is,
which is what `CallsReturn` (and the check for deadlock) would report. Connections need
not break.

`USocial` and the exercises are sequential, without liveness properties. The exercises are
checked with `CHECK_DEADLOCK FALSE`, because these programs end.

## The proofs

A theorem holds for all values of the constants that meet the assumptions of the modules,
which TLC evaluates in every run. They say that the names of absent things (`NoFile`,
`NoSession`, `EmptyName`, ...) are not among the present ones, that a directory holds
finitely many filenames, and that bounds are numbers. Where a theorem assumes more, its
table says so:

- *D*: writes do not fail (`~DiskMayFill`). `write_to_file` does not look at the state of
  its stream, so with a full disk a backup is acknowledged that is not there.
- *E*: no request carries the empty filename (`EmptyName \notin Names`). Finding 1 is a
  counterexample without it.
- *R*: `recv` returns all it was asked for (`~ShortReads`), without which calls
  fail (finding 4).

### The server: `BackupServer_proof`

| theorem | statement | assumes |
|---|---|---|
| `TypeCorrect` | `Spec => []TypeOK` | |
| `MutexesNested` | `Spec => []MutexesAreNested` | |
| `FilesImmutable` | `Spec => StoredFilesAreImmutable` | |
| `NoTornReadTheorem` | `Spec => []NoTornRead` | D |
| `PromisesKept` | `Spec => []PromisedFilesAreOnDisk` | D, E |

`Inv` is inductive for the first three: besides `TypeOK` and
`MutexesAreNested` it has `RequestFitsPhase` (a session in a handler has a request
of the kind that handler works on, without which `request[s].name` means nothing)
and `CheckStillHolds` (what the test for existence found still holds when its
session acts on it). The last is the heart of it: it is preserved because a
session that could falsify it would have to be inside the manager too, and
`OneInManager` follows from `MutexesAreNested`. `TornInv` adds that a torn
file is being written or a crash has happened: a reader is inside the manager
and so nobody is writing. `PromiseInv` adds that the directory of every user in
the map exists (true only as long as no filename is empty) and that
a session between opening and closing a file finds there what it wrote; the
promise made at `FinishBackup` then follows.

Each step lemma has one case per action; frame lemmas (`TornFrame`,
`PromiseFrame`) deal with the steps that do not touch the disk.

### The server as a store: `BackupRefinement_proof`

| theorem | statement | assumes |
|---|---|---|
| `Refinement` | `Spec => ImplementsStore` | D, E |

A request is performed by the step of the server that decides on its response, which
`RefinementInv` ties to the phase of the session. The steps before that (taking mutexes,
the test for existence, opening and writing) must be invisible: `storeBar` hides a file while
its session is between opening and closing it, and `OnlyWriter` says that no other session
is inside then. One lemma per deciding step maps it to the action of `BackupStore`
(`BackupStep`, `RestoreStep`, `DeleteStep`, `ListStep`, ...), and `CrashStep` maps a crash,
which uncovers the half written file of the session inside and drops all other requests.

### Clients and server: `BackupSystem_proof`

| theorem | statement | assumes |
|---|---|---|
| `TypeCorrect` | `Spec => []TypeOK` | |
| `RestoresAreRight` | `Spec => []RestoredIsBackedUp` | D, E |
| `FinishedWereConfigured` | `Spec => []FinishedIsConfigured` | D, E |
| `FinishedLeaveSecondFile` | `Spec => []FinishedLeavesSecondFile` | D, E |
| `FlowsIsolated` | `Spec => []FlowsAreIsolated` | D, E, R |

The server is not opened again. Its theorems are instantiated, and `ServeOnStore`
turns a step of a handler into a step of the store through the refinement, so what is
shown of the clients rests on what `BackupStore` promises. Three invariants build on each other:

- `ExchangeInv`: the request of a process is in one place (on its way, with the thread,
  answered) and is the one `main()` is at; the configuration got it that far. It is all
  `TypeOK` needs.
- `FlowInv`: the store holds local files only; the backups of a process stay until a process
  of its user id has got to its delete; and of the processes with one user id only one gets
  past its second backup, because the second `openFile` of a file is refused. From
  this follows the assertion on the restored bytes: a process that reaches its restore is the
  only one that did, so no delete of another one can have come between.
- `TrackInv`: without a crash, the store and the map are for a process that is alone with its
  user id exactly what its own past requests say, so each answer is the one
  `main()` expects.

### The wire protocol: `Wire_proof`

| theorem | statement | assumes |
|---|---|---|
| `TypeCorrect` | `Spec => []TypeOK` | |
| `RequestsArrive` | `Spec => []RequestsArriveUnchanged` | O |
| `AnswersUnderstood` | `Spec => []AnswersAreUnderstood` | O |
| `RestoredAreBackedUp` | `Spec => []RestoredIsBackedUp` | O |

*O* is `OneByteCharacters`: every character is encoded in one byte. `protocol.py` writes
lengths in characters and fields in bytes, so without it fields are cut off, and finding 3
contradicts `RestoredIsBackedUp`. Nothing else is assumed but what is in
`Wire`: that codes are injective and fit their fields, the newline is a character, and that the random filename of a list is
text (`ListNameAssumption`). Bytes may have any number of values, texts any length, and there may be any
number of connections, each of which may break at any time.

The numbers come first (`TwoBytes`, `FourBytes`: what is packed is unpacked), then texts: `FlattenSeq` and the
decoding of UTF-8 are recursive, and what they compute is found with the least index at which
it would be wrong (`LeastOf`, `EncodedOneByte`, `OneByteIsUTF8`, `UTF8IsText`). Four invariants
build on each other:

- `RequestInv`: for each session, what `RequestParser` has read is the first fields of the request
  of its call, and what is on the way is exactly the other ones, or nothing on a broken
  connection. `FieldsAreInOrder` is its heart: the bytes of the next field, as many as `Width`
  says, lead to the next state of the parser and leave the fields after it. It needs no
  assumption on characters, since a field that is cut off is still as long as it says; that the field
  is the text needs *O*.
- `AnswerInv`: the same between the response that the handler decided on and `ResponseParser`; a
  parser in error has been cut short, and a connection that the client has left is empty.
  `AnswersAreInOrder` is the step for one field. It needs the request to have arrived, because
  the name in the response is the one in the request, which the client must be able to decode.
- `ListInv`: if all names in the directory are text, so is every list that is on its way to the
  client. No call brings in a name that is no text, and none can name one that is there: it stays
  (`OddNamesStay`), and explains the one failure that `AnswersAreUnderstood` allows.
- `KeptInv`: an acknowledged backup is on the disk, and no call that the server still has, but the
  client's own, can change it, unless the client is being told of its deletion; the backup
  that is being acknowledged is so as well; and the content on its way to the client is that of the
  backup. `HandlersHaveEffect` says what the handlers do in terms of the call, and `EncodedDiffer`
  that different names have different files.

`RequestsMatch` and `AnswersMatch` state the first two for all behaviours.

### The social network: `USocial_proof`

| theorem | statement |
|---|---|
| `TypeCorrect` | `Spec => []TypeOK` |
| `UsersHaveOneOwner` | `Spec => []UsersAreOwnedOnce` |
| `ObjectsHaveOneOwner` | `Spec => []ObjectsAreOwnedOnce` |
| `FriendsStayUnique` | `Spec => []FriendsAreUnique` |
| `BusinessUsersStayAtHome` | `Spec => []BusinessUsersAreAtHome` |
| `NewUsersHaveNoFriends` | `Spec => NewUsersAreNobodysFriends` |
| `PostsStayShown` | `Spec => PostsAreKept` |

None assumes more than the module. `Inv` has, besides the checked
invariants, that entries are live users with their key as id, that networks share no user,
that a registered user has an entry, and `IdsAreUsedUp`: until the counter has run out, every
id in a map or in a friends list, those of removed users included, is below it. Actions are grouped by
what they do to the heap (`ListsDoNotMatter`, `ObjectArrives`, `UserArrives`, `UsersLeave`), and
the copies get a section of their own: `CopyUsersCopies` says that the new users and
objects are one-to-one with those they are copies of, from which single ownership
(`CopiesOwnCopies`) and what a copy shows (`CopyKeeps`) follow.

### The exercises: `Credit_proof`, `Exercises_proof`

| theorem | statement |
|---|---|
| `GiftsAreEarnedInvariant` | `CreditSpec => []GiftsAreEarned` |
| `NewClassesStaySound` | `ProsSpec => []NewClassesAreSound` |
| `OriginalsStay` | `MetaSpec => []OriginalsAreKept` |
| `CodeReaches` | `MetaSpec => []CodeReachesEveryMethod` |
| `CodeComesFirst` | `MetaSpec => []CodeRunsFirst` |

`GiftsAreEarned` is for ints of any width and any bound that a non-negative `int` can reach
(`CreditAssumption`; with a higher one the first version would deny some negative
credits). It is inductive as it stands; the content is in the two lemmas about the functions.

For `meta.py` the files are arbitrary: any number of classes, names for them in any order,
with repetitions and gaps. `MetaInv` adds to the properties that a function that a class has but
was not written in it is a copy of one it inherits, that such a class has been visited, and that what is still to be called
belongs to the class visited last. The lemmas about lines (`LineIsChain`, `HolderInBetween`)
say that a class inherits a method from the first class on its way to `object` that has it, and that
classes in between agree. `FunctionsAfterVisit` says what a visit does to the function that any class
finds: one more wrapper if the visited class is between it and the owner and no other copy is
nearer, nothing otherwise.

### Only model-checked

- Liveness and everything under fairness, which is out of the prover's reach:
  `MutexIsReleased`, `OnlyOvertakingDelays`, `EveryProcessEnds`, `CallsReturn`.
- `ImplementsRemoteFiles`, that `Wire` implements `RemoteFiles`. The invariants it rests on are proved; the
  mapping of the steps is not, see the plan.

## Findings

1. **An empty filename removes the directory of a user** (`user_backup_directory.cpp:71`).
   A delete passes the test for existence, since the path is the directory;
   `remove` deletes it when empty. The user stays in the map, the directory is
   not created again, and every later backup is acknowledged and stores nothing.
2. **The order of a list is unspecified** (`user_backup_directory.cpp:59`), and
   `main()` and a server test assert the order of the backups.
3. **A payload is cut off** when it has characters of more than one byte
   (`protocol.py:46`): its length is counted in characters.
   The same holds for filenames (`protocol.py:42`), where the cut may also leave
   bytes the client cannot decode in the answer, or in any list afterwards (`client.py:88`); and a payload that is not UTF-8
   is not sent at all.
4. **A response that arrives in pieces fails the call** (`connection_manager.py:38`).
5. **A copied network looks its friends up in the original** (`User.cpp:16`),
   also after the original is gone.

Further behaviour that the models contain and no listed property contradicts:
a full disk is not noticed by `write_to_file`, and the backup is acknowledged
(with `DiskMayFill` the promise breaks, which is why the theorem assumes it
away); after a restart the server answers `listFiles` with "no backup files"
for a user that has some, until the next backup (`known` in `BackupStore` says so
openly); a crash in a write leaves a torn file that is restored as if whole and
blocks a new backup; a removed user stays in friends lists and makes
`viewFriendsPosts` throw; a copied business user is an ordinary one; when ids run
out, `registerUser` leaks the user it has allocated.

## Assumptions of the composition

In `BackupSystem` a response arrives whole or not at all, but may be received in part;
`Wire` has the bytes. `send` on a blocking socket writes everything. A reset that a client may
see when the server closes a connection with unread bytes is `Break`, in `Wire`. The
names in `backup.info` and in lists are without white space, so that `splitlines` and
`strip` give back what was written. The files of `backup.info` and the root directory of the
server are not changed by anybody else. The file that `main()` compares a restored payload with is
the one it has backed up. `rand` is called by several threads at once in
`string_utils.cpp`; the name it makes is not looked at.

## Plan

Done: the server with its abstract store; the client with its configuration; the composition
with crashes, refused connections and a bounded number of threads; the wire protocol on
connections that break, with its abstract service; the social network with media and
what users are shown; the exercises. Proved: all safety properties that the runs check, and
the refinement of `BackupStore`. What is left:

1. `ImplementsRemoteFiles`, step by step from `RequestInv` and `AnswerInv`. `Effect` has to say what the
   response is as well as what it does, and the result that the client returns has to be `Returned` of
   the response that was decided. It holds for contents whose length fits four bytes, which
   restores of old files and lists need not do, so that has to be assumed of the files.
2. For lists, that `Lines` gives back the names that were joined, for names without newlines, with
   the least index at which it would not, as for `FlattenSeq`.
