\* Drags, swaps and midnights over a page that re-renders under them.
SPECIFICATION Spec
CONSTANTS
  NoCell = NoCell
  Guides <- SmallGuides
  Dates = {1, 2}
  Minutes = {10, 1260}
  Heights = {420, 840}
  Offsets <- SmallOffsets
  MaxDrops = 1
INVARIANTS
  CardsShown
  NowCrossesWhatIsOn
  BoardSound
PROPERTIES
  DropsLand
  PastDaysLocked
CHECK_DEADLOCK FALSE
