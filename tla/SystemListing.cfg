\* The order in which the server lists the files.
CONSTANTS
  a = a
  b = b
  x = x
  p = p
  q = q
  Users = {u1}
  Filenames = {a, b}
  EmptyName = empty
  Names = {a, b}
  Payloads = {p, q}
  NoFile = NoFile
  Clients = {c1}
  BackupInfos <- TwoFiles
  ServerInfos <- Valid
  Unreadable = Unreadable
  PayloadOf <- TheirBytes
  ShortReads = FALSE
  MayDie = FALSE
  MaxThreads = 3
  NoSession = NoSession
  DiskMayFill = FALSE
  MaxRestarts = 0
SPECIFICATION Spec
INVARIANT ListsAreInOrder
