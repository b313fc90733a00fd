\* A zone file without zones.
CONSTANTS
  FlagInputs <- FileFlags
  EnvInputs <- NoEnv
  ZoneInputs <- NoVars
  YamlInputs <- NoEntry
  Rank <- MCRank
  Numeral <- MCNumeral
  Files <- MCFiles
  MaxDelay = 3
CHECK_DEADLOCK FALSE
SPECIFICATION Spec
INVARIANTS
  ManagesSomething
