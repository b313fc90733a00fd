\* Two containers with labels of every kind.
CONSTANTS
  c1 = c1
  c2 = c2
  h1 = h1
  h2 = h2
  v1 = v1
  Host = {h1, h2}
  Value = {v1}
  OwnerID = {}
  OtherType = {"MX", "SRV"}
  DefaultTTL = 300
  Hostname <- MCHostname
  TargetText <- MCTargetText
  Numeral <- MCNumeral
  Spaced <- MCSpaced
  Container = {c1, c2}
  LabelMaps <- MCLabelMaps
  MaxIndex = 2
SPECIFICATION Spec
INVARIANTS
  TypeOK
  NothingSpoiled
