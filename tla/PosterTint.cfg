\* Cards of the same titles, mounted, reused and unmounted around the sampling.
SPECIFICATION Spec
CONSTANTS
  c1 = c1
  c2 = c2
  chip = chip
  netflix = netflix
  light = light
  NoPlate = NoPlate
  TextPlate = TextPlate
  Idle = Idle
  Gone = Gone
  Waiting = Waiting
  Titles = {1, 2}
  Providers = {netflix}
  Hues = {120}
  Plates = {light}
  Cards = {c1, c2}
  Chips = {chip}
  MaxRenders = 4
INVARIANTS
  SampledOnce
  SettledAgree
PROPERTIES
  TintsSettle
CHECK_DEADLOCK FALSE
