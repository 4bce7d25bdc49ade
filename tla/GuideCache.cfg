\* Two operations at a time over one cache entry, and two losses.
SPECIFICATION Spec
CONSTANTS
  a = a
  b = b
  s1 = s1
  s2 = s2
  m1 = m1
  m2 = m2
  Absent = Absent
  NoGuide = NoGuide
  NoData = NoData
  NoItem = NoItem
  Idle = Idle
  Items = {a, b}
  Slots = {s1, s2}
  Column <- OwnColumns
  FirstGuides <- SmallGuides
  Mutations = {m1, m2}
  MaxOps = 2
  MaxFaults = 2
INVARIANTS
  EnabledShowsStored
PROPERTIES
  DropStays
  GuideReplicated
CHECK_DEADLOCK FALSE
