\* Three clients on two filenames of one user, and a crash at any point.
CONSTANTS
  Users = {u1}
  Filenames = {a, b}
  EmptyName = empty
  Names = {a, b}
  Payloads = {p, q}
  NoFile = NoFile
  Sessions = {s1, s2, s3}
  NoSession = NoSession
  DiskMayFill = FALSE
  MaxRestarts = 1
SPECIFICATION Spec
SYMMETRY Symmetry
INVARIANTS TypeOK MutexesAreNested PromisedFilesAreOnDisk NoTornRead
PROPERTIES StoredFilesAreImmutable ImplementsStore
