\* Metadata and seasons, with two title pages opened side by side.
SPECIFICATION Spec
CONSTANTS
  us = us
  gb = gb
  e1 = e1
  p1 = p1
  s1 = s1
  s2 = s2
  r1 = r1
  r2 = r2
  Absent = Absent
  Idle = Idle
  NoRow = NoRow
  Catalog <- AiringOrEnded
  Seasons = {s1, s2}
  Episodes = {}
  Horizon = 1
  Regions = {us}
  Providers = {}
  MetadataTTL = 1
  ProvidersTTL = 0
  AiringsTTL = 0
  Requests = {r1, r2}
INVARIANTS
  TypeOK
  MetadataTimely
PROPERTIES
  LinkKept
  SeasonsRepaired
