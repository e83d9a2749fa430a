\* Two client processes, responses in pieces, and a crash of the server at any
\* point.
CONSTANTS
  a = a
  b = b
  x = x
  p = p
  q = q
  Users = {u1, u2}
  Filenames = {a, b, x}
  EmptyName = empty
  Names = {a, b, x}
  Payloads = {p, q}
  NoFile = NoFile
  Clients = {c1, c2}
  BackupInfos <- AnyInfo
  ServerInfos <- AnyServer
  Unreadable = Unreadable
  PayloadOf <- TheirBytes
  ShortReads = TRUE
  MayDie = FALSE
  MaxThreads = 1
  NoSession = NoSession
  DiskMayFill = FALSE
  MaxRestarts = 2
SPECIFICATION FairSpec
INVARIANTS RestoredIsBackedUp FinishedIsConfigured
PROPERTY EveryProcessEnds
