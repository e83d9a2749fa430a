\* Answers that arrive in pieces.
SPECIFICATION Spec
CONSTANTS
  Connections = {c1}
  NoConnection = none
  MayBreak = FALSE
  Base = 4
  Newline = 0
  Characters <- Letters
  Names <- ShortNames
  Payloads <- EmptyAndLong
  OldFiles <- NoFiles
  UserIds <- OneId
  RequestOP <- RequestCodes
  ResponseOP <- ResponseCodes
  ClientVersions <- OneVersion
  ServerVersion = 1
  ListName <- List
  ShortReads = TRUE
INVARIANT CallsDoNotFail
