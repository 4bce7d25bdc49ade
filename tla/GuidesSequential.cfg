\* One create or regenerate at a time, over every kind of edit.
SPECIFICATION Spec
CONSTANTS
  short = short
  long = long
  r1 = r1
  r2 = r2
  Unset = Unset
  Dates <- ThreeDates
  MaxDays = 2
  Windows <- Evenings
  Titles <- SmallTitles
  Runtime <- SmallRuntime
  Plans <- VariedPlans
  Edits <- AnyEdit
  Requests = {r1}
  MaxStamp = 2
INVARIANTS
  GuidesDisjoint
PROPERTIES
  PastIsImmutable
CHECK_DEADLOCK FALSE
