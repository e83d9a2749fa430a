\* Payloads with a character of two bytes.
SPECIFICATION Spec
CONSTANTS
  Connections = {c1}
  NoConnection = none
  MayBreak = FALSE
  Base = 4
  Newline = 0
  Characters <- AllLetters
  Names <- ShortNames
  Payloads <- WideTexts
  OldFiles <- NoFiles
  UserIds <- OneId
  RequestOP <- RequestCodes
  ResponseOP <- ResponseCodes
  ClientVersions <- OneVersion
  ServerVersion = 1
  ListName <- List
  ShortReads = FALSE
INVARIANTS RestoredIsBackedUp
