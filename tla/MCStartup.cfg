\* All modes and their mixtures, with short timeouts.
CONSTANTS
  FlagInputs <- MixFlags
  EnvInputs <- MixEnv
  ZoneInputs <- MixVars
  YamlInputs <- MixYaml
  Rank <- MCRank
  Numeral <- MCNumeral
  Files <- MCFiles
  MaxDelay = 3
CHECK_DEADLOCK FALSE
SPECIFICATION Spec
INVARIANTS
  TypeOK
  EnvZonesAsGiven
  NoSilentMix
  Verified
