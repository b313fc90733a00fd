\* Two owners on one zone, with late UPDATEs, contended names and awkward labels.
CONSTANTS
  d1 = d1
  d2 = d2
  o1 = o1
  o2 = o2
  h1 = h1
  h2 = h2
  h3 = h3
  h4 = h4
  v1 = v1
  v2 = v2
  v9 = v9
  Daemon = {d1, d2}
  OwnerID = {o1, o2}
  Host = {h1, h2, h3, h4}
  ZoneHost = {h1, h2, h3}
  Value = {v1, v2, v9}
  OtherType = {"MX", "SRV"}
  DefaultTTL = 300
  MinTTL = 120
  TTLModulus = 1000
  DryRun = {}
  MaxEdits = 1
  MaxFaults = 1
  MaxLate = 1
  ownerID <- PairOwner
  Labels <- PairLabels
  InitialZone <- PairZone
  ManualRR <- PairManual
  RemovableRR <- PairRemovable
SPECIFICATION Spec
INVARIANTS
  TypeOK
  UnclaimedUntouched
PROPERTIES
  ImplementsManagedZone
