\* Air dates of one title and providers of another, over midnights, with two
\* title pages opened side by side.
SPECIFICATION Spec
CONSTANTS
  us = us
  gb = gb
  e1 = e1
  p1 = p1
  s1 = s1
  s2 = s2
  r1 = r1
  r2 = r2
  Absent = Absent
  Idle = Idle
  NoRow = NoRow
  Catalog <- EitherTitle
  Seasons = {s1}
  Episodes = {e1}
  Horizon = 3
  Regions = {us, gb}
  Providers = {p1}
  MetadataTTL = 0
  ProvidersTTL = 0
  AiringsTTL = 0
  Requests = {r1, r2}
SYMMETRY Anonymous
CONSTRAINT AiringOrStreaming
ACTION_CONSTRAINT TitleStays
INVARIANTS
  AiringsTimely
  ProvidersStamped
PROPERTIES
  PastAiringsKept
