\* Clients that may stall at any time and name the directory itself, a disk
\* that may fill up, and a crash at any point.
CONSTANTS
  Users = {u1}
  Filenames = {a}
  EmptyName = empty
  Names <- AllNames
  Payloads = {p}
  NoFile = NoFile
  Sessions = {s1, s2}
  NoSession = NoSession
  DiskMayFill = TRUE
  MaxRestarts = 1
SPECIFICATION FairSpec
INVARIANT MutexesAreNested
PROPERTIES StoredFilesAreImmutable MutexIsReleased OnlyOvertakingDelays
