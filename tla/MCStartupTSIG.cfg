\* A zone file together with a TSIG key flag.
CONSTANTS
  FlagInputs <- KeyFlags
  EnvInputs <- NoEnv
  ZoneInputs <- NoVars
  YamlInputs <- OneEntry
  Rank <- MCRank
  Numeral <- MCNumeral
  Files <- MCFiles
  MaxDelay = 3
CHECK_DEADLOCK FALSE
SPECIFICATION Spec
INVARIANTS
  NoSilentMixWithTSIG
