\* Every int of eleven bits, every combination of five names, and files of
\* two or three names for three classes.
SPECIFICATION Spec
CONSTANTS
  Half = 1024
  Bound = 750
  Names = {"", "User", "inspect", "x", "y"}
  Blank = ""
  ClassNames = {"User"}
  OtherNames = {"inspect"}
  Classes = {1, 2, 3}
  Methods = {1, 2}
  MaxNames = 3
  Files <- AllFiles
CHECK_DEADLOCK FALSE
INVARIANTS GiftsAreEarned NewClassesAreSound OriginalsAreKept CodeReachesEveryMethod CodeRunsFirst
