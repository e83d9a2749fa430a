\* Requests may carry the empty filename.
CONSTANTS
  Users = {u1}
  Filenames = {a}
  EmptyName = empty
  Names <- AllNames
  Payloads = {p}
  NoFile = NoFile
  Sessions = {s1, s2}
  NoSession = NoSession
  DiskMayFill = FALSE
  MaxRestarts = 0
SPECIFICATION Spec
INVARIANT PromisedFilesAreOnDisk
