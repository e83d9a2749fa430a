\* Names and payloads of all lengths, two versions, and answers in pieces.
SPECIFICATION FairSpec
CONSTANTS
  Connections = {c1, c2}
  NoConnection = none
  MayBreak = TRUE
  Base = 4
  Newline = 0
  Characters <- Letters
  Names <- ShortNames
  Payloads <- EmptyAndLong
  OldFiles <- OldFile
  UserIds <- OneId
  RequestOP <- RequestCodes
  ResponseOP <- ResponseCodes
  ClientVersions <- BothVersions
  ServerVersion = 1
  ListName <- List
  ShortReads = TRUE
INVARIANTS TypeOK RequestsArriveUnchanged RestoredIsBackedUp AnswersAreUnderstood
PROPERTIES CallsReturn ImplementsRemoteFiles
