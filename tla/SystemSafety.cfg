\* Three client processes, two user ids to draw from, any of them killed.
CONSTANTS
  a = a
  b = b
  x = x
  p = p
  q = q
  Users = {u1, u2}
  Filenames = {a, b}
  EmptyName = empty
  Names = {a, b}
  Payloads = {p, q}
  NoFile = NoFile
  Clients = {c1, c2, c3}
  BackupInfos <- TwoFiles
  ServerInfos <- Valid
  Unreadable = Unreadable
  PayloadOf <- TheirBytes
  ShortReads = FALSE
  MayDie = TRUE
  MaxThreads = 3
  NoSession = NoSession
  DiskMayFill = FALSE
  MaxRestarts = 0
SPECIFICATION Spec
SYMMETRY UserClients
INVARIANTS TypeOK FlowsAreIsolated RestoredIsBackedUp FinishedLeavesSecondFile
