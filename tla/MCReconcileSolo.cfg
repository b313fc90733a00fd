\* One daemon and a dry-run twin, one record type per name, faults and crashes, no
\* late UPDATE.
CONSTANTS
  d1 = d1
  d2 = d2
  o1 = o1
  o2 = o2
  h1 = h1
  h2 = h2
  h3 = h3
  h4 = h4
  v1 = v1
  v2 = v2
  v9 = v9
  Daemon = {d1, d2}
  OwnerID = {o1}
  Host = {h1, h2, h3, h4}
  ZoneHost = {h1, h2, h3}
  Value = {v1, v2, v9}
  OtherType = {"MX", "SRV"}
  DefaultTTL = 300
  MinTTL = 0
  TTLModulus = 1000
  DryRun = {d2}
  MaxEdits = 2
  MaxFaults = 1
  MaxLate = 0
  ownerID <- TwinOwner
  Labels <- SoloLabels
  InitialZone <- SoloZone
  ManualRR <- SoloManual
  RemovableRR <- SoloRemovable
SPECIFICATION FairSpec
INVARIANTS
  NoOrphans
  SuccessMeansInSync
PROPERTIES
  OnlyOwnedChanged
  NoNeedlessUpdate
  Converges
  Quiesces
