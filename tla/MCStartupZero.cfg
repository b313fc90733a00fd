\* A single zone with --rfc2136-timeout=0.
CONSTANTS
  FlagInputs <- ZeroFlags
  EnvInputs <- NoEnv
  ZoneInputs <- NoVars
  YamlInputs <- NoEntry
  Rank <- MCRank
  Numeral <- MCNumeral
  Files <- MCFiles
  MaxDelay = 3
CHECK_DEADLOCK FALSE
SPECIFICATION Spec
INVARIANTS
  HealthyStarts
