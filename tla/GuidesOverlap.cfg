\* Two creates for the same days at once.
SPECIFICATION Spec
CONSTANTS
  short = short
  long = long
  r1 = r1
  r2 = r2
  Unset = Unset
  Dates <- SmallDates
  MaxDays = 2
  Windows <- Evenings
  Titles <- SmallTitles
  Runtime <- SmallRuntime
  Plans <- OneRowPlans
  Edits <- MoveOnly
  Requests = {r1, r2}
  MaxStamp = 3
SYMMETRY Anonymous
INVARIANTS
  GuidesDisjoint
CHECK_DEADLOCK FALSE
