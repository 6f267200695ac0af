SPECIFICATION Spec
CONSTANTS
  TextTokens = 4
  None = None
  Lanes = {caller, other}
  Caller = caller
  Contents = {"v1", "v2", "foreign"}
  MaxFiles = 3
  Texts <- MCTexts
  Commands <- MCCommands
INVARIANTS
  CallsLeaveNothing
  RequestsFit
  TokenizerIsCurrent
  ParseMatchesFormat
CHECK_DEADLOCK FALSE
