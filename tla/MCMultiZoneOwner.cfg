\* A zone that begins with the ownership label: companions are routed to it.
CONSTANTS
  o1 = o1
  o2 = o2
  apex = apex
  inSub = inSub
  inParent = inParent
  other = other
  outside = outside
  www = www
  v1 = v1
  v9 = v9
  OwnerID = {o1, o2}
  ownerID = o1
  Host = {apex, inSub, inParent, other, outside, www}
  ZoneHost = {apex, inSub, inParent, other, www}
  Value = {v1, v9}
  OtherType = {"MX", "SRV"}
  DefaultTTL = 300
  MinTTL = 0
  TTLModulus = 1000
  OwnerLabel = "external-dns-docker-owner"
  LabelsOf <- MCLabelsOf
  Zones <- OwnerZones
  Labels <- OwnerZoneLabels
  InitialZones <- NoRecords
  MaxEdits = 0
  MaxFaults = 0
SPECIFICATION Spec
INVARIANTS
  CompanionBeside
