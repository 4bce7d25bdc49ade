\* Marks against swaps, PATCHes at the cap and season tables refreshed.
SPECIFICATION Spec
CONSTANTS
  film = film
  show = show
  extra = extra
  i1 = i1
  i2 = i2
  i3 = i3
  i4 = i4
  r1 = r1
  r2 = r2
  Unset = Unset
  Idle = Idle
  Absent = Absent
  Movies = {film, extra}
  Series = {show}
  Items = {i1}
  Slot <- TwoGuides
  SeasonTables <- ChangingSeasons
  Cap = 1
  Statuses = {"rotation"}
  Pointers <- SecondEpisode
  Requests = {r1, r2}
  Swaps = TRUE
SYMMETRY Anonymous
INVARIANTS
  RotationBounded
PROPERTIES
  PointerMovesBackOnRequest
