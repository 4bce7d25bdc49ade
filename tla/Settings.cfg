\* Edits, visits and losses around the form that saves itself.
SPECIFICATION Spec
CONSTANTS
  mon = mon
  tue = tue
  us = us
  gb = gb
  p1 = p1
  p2 = p2
  Empty = Empty
  Missing = Missing
  NoData = NoData
  NoForm = NoForm
  Idle = Idle
  Asked = Asked
  Days = {mon, tue}
  Regions = {us, gb}
  TrackMin = 4
  TrackMax = 8
  Step = 2
  DefaultWindow <- SmallDefault
  FirstDocs <- SmallDocs
  Saves = {p1, p2}
  MaxEdits = 2
  MaxFaults = 1
  MaxVisits = 2
INVARIANTS
  TypeOK
  SavedIsWanted
PROPERTIES
  SlideMakesValid
  SavesSound
  EditsAttempted
CHECK_DEADLOCK FALSE
