\* Every order of marks and unmarks over the episodes of one series.
SPECIFICATION Spec
CONSTANTS
  film = film
  show = show
  extra = extra
  i1 = i1
  i2 = i2
  i3 = i3
  i4 = i4
  r1 = r1
  r2 = r2
  Unset = Unset
  Idle = Idle
  Absent = Absent
  Movies = {film}
  Series = {show}
  Items = {i1, i2, i3, i4}
  Slot <- WholeSeries
  SeasonTables <- TwoSeasons
  Cap = 2
  Statuses = {"rotation", "watchlist"}
  Pointers = {}
  Requests = {r1}
  Swaps = FALSE
INVARIANTS
  TypeOK
  WatchedBehindPointer
  PointerSound
