SPECIFICATION Spec
CONSTANTS
  Alphabets <- MCAlphabets
  Delimiter = "%"
  Codes <- MCCodes
  Newline = "nl"
  kLineWrapLength = 3
  MaxLength = 7
  LOG_func_max_args = 1
CHECK_DEADLOCK FALSE
INVARIANTS ValidatorMeetsGrammar WrapsLikeATerminal CallsMeanWhatTheySay
