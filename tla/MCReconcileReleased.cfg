\* One daemon, and an operator who removes its ownership record.
CONSTANTS
  d1 = d1
  d2 = d2
  o1 = o1
  o2 = o2
  h1 = h1
  h2 = h2
  h3 = h3
  h4 = h4
  v1 = v1
  v2 = v2
  v9 = v9
  Daemon = {d1}
  OwnerID = {o1}
  Host = {h1, h2, h3, h4}
  ZoneHost = {h1, h2, h3}
  Value = {v1, v2, v9}
  OtherType = {"MX", "SRV"}
  DefaultTTL = 300
  MinTTL = 0
  TTLModulus = 1000
  DryRun = {}
  MaxEdits = 2
  MaxFaults = 0
  MaxLate = 0
  ownerID <- SoloOwner
  Labels <- HijackLabels
  InitialZone <- OwnedZone
  ManualRR = {}
  RemovableRR <- ReleasedRemovable
SPECIFICATION Spec
PROPERTIES
  OnlyOwnedChanged
