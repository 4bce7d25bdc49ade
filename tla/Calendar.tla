------------------------------ MODULE Calendar ------------------------------
(***************************************************************************)
(* The guide page (web app/guide): the week's time grid with its drags     *)
(* (CalendarView, DayColumn, GridItemCard, GridDragPreview) and the        *)
(* evening's board with its swaps (BoardView), over the view models of     *)
(* GuideLayout.  The page re-renders whenever the cached guide changes,    *)
(* in the middle of a drag too; what changes the cache is the subject of   *)
(* GuideCache.                                                             *)
(*                                                                         *)
(* A drag holds the card as it was when picked up, while the window, the   *)
(* scale and the past days are those of the last render.  Positions are    *)
(* pixels in the content of the grid, scrolling included; dnd-kit says     *)
(* which column lies under the pointer, and may say none.                  *)
(***************************************************************************)
EXTENDS GuideLayout

CONSTANTS
  Guides,    \* guides that the API may serve
  Dates,     \* days the client's clock passes through
  Minutes,   \* minutes of the day at which it ticks
  Heights,   \* pixels of the viewport that the grid may fill
  Offsets,   \* pixels by which the pointer or the arrow keys may drag a card
  MaxDrops   \* drops that the optimistic guide carries at a time

MinHourPx == 56
MinItemPx == 22

ASSUME ScaleAssumption ==   \* whole pixels an hour, for every window a guide comes to
  /\ Heights \subseteq Nat \ {0}
  /\ \A h \in Heights, g \in Guides : \A n \in 1..WindowHours(g) :
       h % n = 0 \/ h < n * MinHourPx
ASSUME CalendarAssumption ==
  /\ Dates \subseteq Int /\ Minutes \subseteq 0..1439 /\ Offsets \subseteq Int
  /\ MaxDrops \in Nat

(* A guide of the API: every item lasts (defaultRuntime of the store), and *)
(* has an id of its own.                                                   *)
ItemType  == [id : Nat, date : Int, start : Int, end : Int, plan : BOOLEAN, provider : Nat]
IsGuide(g) == /\ g \in [first : Int, last : Int, items : Seq(ItemType)]
              /\ \A it \in ToSet(g.items) : it.start < it.end
              /\ \A j, k \in DOMAIN g.items : g.items[j].id = g.items[k].id => j = k

ASSUME GuidesAssumption == \A g \in Guides : IsGuide(g)

VARIABLES
  guide,     \* the cached guide
  today,     \* todayLocal() of GuideBody's last render
  clock,     \* the client's [date, min], as CalendarView's minute tick reads it
  height,    \* pixels there are for the grid
  hourPx,    \* hourPxRef
  view,      \* "calendar" or "board"
  chosen,    \* the board's selected date
  drag,      \* [item, dy, pill, since, settled] or NoCell
  drops,     \* optimistic moves in the cached guide
  sent       \* the PATCH sent by the last step, or NoCell

vars == <<guide, today, clock, height, hourPx, view, chosen, drag, drops, sent>>

HourPx(pixels, hours, old) == IF hours = 0 THEN old ELSE Max({pixels \div hours, MinHourPx})

Landing(dy) ==
  DropStart(drag.item.start, dy, hourPx, Window(guide), Duration(drag.item))
-----------------------------------------------------------------------------
(* GuideBody renders a guide that the cache now holds: with today's date,  *)
(* and with the window and the hour height that go with it.  A guide       *)
(* without picks has no grid, and takes no drag with it here.              *)
Rendered(g, n) ==
  /\ guide' = g /\ drops' = n
  /\ today' = clock.date
  /\ hourPx' = HourPx(height, WindowHours(g), hourPx)

Unsettled == IF drag = NoCell THEN NoCell ELSE [drag EXCEPT !.settled = FALSE]

Receive(g) ==
  /\ g # guide
  /\ drag # NoCell => Picks(g) # {}
  /\ Rendered(g, 0)
  /\ drag' = Unsettled
  /\ sent' = NoCell
  /\ UNCHANGED <<clock, height, view, chosen>>

(* The clock of the now line ticks, whatever is rendered.                  *)
Tick(date, min) ==
  /\ date > clock.date \/ (date = clock.date /\ min > clock.min)
  /\ clock' = [date |-> date, min |-> min]
  /\ sent' = NoCell
  /\ UNCHANGED <<guide, today, height, hourPx, view, chosen, drag, drops>>

Resize(pixels) ==
  /\ pixels # height
  /\ height' = pixels
  /\ hourPx' = HourPx(pixels, WindowHours(guide), hourPx)
  /\ drag' = Unsettled
  /\ sent' = NoCell
  /\ UNCHANGED <<guide, today, clock, view, chosen, drops>>
-----------------------------------------------------------------------------
(* The board opens on today, if the guide has it.                          *)
FirstChosen ==
  IF \E d \in Days(guide) : Columns(guide, today)[d].isToday THEN today ELSE guide.first

Toggle ==
  /\ drag = NoCell
  /\ view' = IF view = "calendar" THEN "board" ELSE "calendar"
  /\ chosen' = IF view = "calendar" THEN FirstChosen ELSE NoCell
  /\ sent' = NoCell
  /\ UNCHANGED <<guide, today, clock, height, hourPx, drag, drops>>

Choose(date) ==
  /\ view = "board" /\ date \in Days(guide)
  /\ chosen' = date
  /\ sent' = NoCell
  /\ UNCHANGED <<guide, today, clock, height, hourPx, view, drag, drops>>

(* An alternate with a pick at its own minute is swapped in for it.        *)
Swap(cell) ==
  /\ view = "board"
  /\ cell.target # NoCell
  /\ sent' = [op |-> "swap", id |-> cell.target, from |-> cell.item]
  /\ UNCHANGED <<guide, today, clock, height, hourPx, view, chosen, drag, drops>>
-----------------------------------------------------------------------------
(* Cards of past days are not picked up, and past columns are no targets.  *)
DraggablePast(date) == TRUE   \* past cards not disabled

Draggable(date) == ~DayOfGrid(guide, date, today).isPast

Droppable(date) == ~DayOfGrid(guide, date, today).isPast

DragStart(it) ==
  /\ view = "calendar" /\ drag = NoCell
  /\ it \in Picks(guide) /\ it.date \in Days(guide) /\ Draggable(it.date)
  /\ drag' = [item |-> it, dy |-> 0, since |-> today, settled |-> TRUE,
              pill |-> DropStart(it.start, 0, 1, Window(guide), Duration(it))]
  /\ sent' = NoCell
  /\ UNCHANGED <<guide, today, clock, height, hourPx, view, chosen, drops>>

(* The pill over the ghost tells where it would land.                      *)
PillOfGhost(dy) == GhostStart(drag.item.start, dy, hourPx)   \* not held inside the window

Pill(dy) == Landing(dy)

DragMove(dy) ==
  /\ drag # NoCell /\ dy # drag.dy
  /\ drag' = [drag EXCEPT !.dy = dy, !.pill = Pill(dy), !.settled = TRUE]
  /\ sent' = NoCell
  /\ UNCHANGED <<guide, today, clock, height, hourPx, view, chosen, drops>>

DragCancel ==
  /\ drag # NoCell
  /\ drag' = NoCell
  /\ sent' = NoCell
  /\ UNCHANGED <<guide, today, clock, height, hourPx, view, chosen, drops>>

(* moveItemInGuide, which the drop's mutation applies to the cache.        *)
Moved(g, id, date, start) ==
  LET MovedItem(it) == [it EXCEPT !.date = date, !.start = start, !.end = start + Duration(it)]
  IN  [g EXCEPT !.items =
         [k \in DOMAIN @ |-> IF @[k].id = id THEN MovedItem(@[k]) ELSE @[k]]]

(* A drop on a column, or on none, which keeps the day.  Nothing is sent   *)
(* for a card let go where it was picked up.                               *)
Drop(over) ==
  LET it    == drag.item
      date  == IF over = NoCell THEN it.date ELSE over
      start == Landing(drag.dy)
  IN  /\ drag # NoCell
      /\ drag' = NoCell
      /\ IF date = it.date /\ start = it.start
         THEN sent' = NoCell /\ UNCHANGED <<guide, today, hourPx, drops>>
         ELSE /\ drops < MaxDrops
              /\ sent' = [op |-> "move", id |-> it.id, from |-> it, date |-> date, start |-> start]
              /\ Rendered(Moved(guide, it.id, date, start), drops + 1)
      /\ UNCHANGED <<clock, height, view, chosen>>
-----------------------------------------------------------------------------
Init ==
  /\ guide \in Guides
  /\ clock \in [date : Dates, min : Minutes]
  /\ today = clock.date
  /\ height \in Heights
  /\ hourPx = HourPx(height, WindowHours(guide), MinHourPx)
  /\ view = "calendar" /\ chosen = NoCell
  /\ drag = NoCell /\ drops = 0 /\ sent = NoCell

Next ==
  \/ \E g \in Guides : Receive(g)
  \/ \E d \in Dates, m \in Minutes : Tick(d, m)
  \/ \E h \in Heights : Resize(h)
  \/ Toggle \/ \E d \in Days(guide) : Choose(d)
  \/ \E c \in Board(guide, chosen).cells : Swap(c)
  \/ \E it \in Picks(guide) : DragStart(it)
  \/ \E dy \in Offsets : DragMove(dy)
  \/ DragCancel
  \/ \E d \in {e \in Days(guide) : Droppable(e)} \cup {NoCell} : Drop(d)

Spec == Init /\ [][Next]_vars
-----------------------------------------------------------------------------
DayItems(date) == DayOfGrid(guide, date, today).items
During(it, min) == it.start <= min /\ min < it.end

(* A card's box in its column, in sixtieths of a pixel from the top of the *)
(* grid (GridItemCard.tsx:51): as high as its pick is long, but never less *)
(* than MinItemPx; across, the col-th of cols equal parts.                 *)
TooShort(it)   == Duration(it) * hourPx < MinItemPx * 60
CardTop(it)    == (it.start - Window(guide).start) * hourPx
CardHeight(it) == IF TooShort(it) THEN MinItemPx * 60 ELSE Duration(it) * hourPx
CardBottom(it) == CardTop(it) + CardHeight(it)

Covers(a, b) ==
  /\ CardTop(a.item) < CardBottom(b.item) /\ CardTop(b.item) < CardBottom(a.item)
  /\ (a.col - 1) * b.cols < b.col * a.cols /\ (b.col - 1) * a.cols < a.col * b.cols

(* However picks overlap after moves, the boxes of two cards of a day are  *)
(* apart (layoutDayColumns, guide.ts:231) - but for a card raised to the   *)
(* least height, which may hang over one that begins when its pick has     *)
(* ended: the columns know of the times only.                              *)
NoCardCovered ==
  \A d \in Days(guide) : \A a, b \in DayItems(d) :
    /\ a.col \in 1..a.cols
    /\ (a.item.id # b.item.id /\ a.item.start <= b.item.start /\ Covers(a, b))
         => TooShort(a.item) /\ a.item.end <= b.item.start

(* ... and cards are no narrower than they must be: somewhere in a cluster *)
(* as many picks run at once as it has columns.  Touching is not running   *)
(* at once (guide.ts:229).                                                 *)
NoCardNarrowed ==
  \A d \in Days(guide) :
    LET cards == DayItems(d) IN
    \A a \in cards : \E b \in cards :
      /\ b.cols = a.cols
      /\ Cardinality({c \in cards : During(c.item, b.item.start)}) = a.cols

(* The week's window has a row for all of every pick, whole hours, and no  *)
(* hour at either end without one (toTimeGrid, guide.ts:298).              *)
WindowFits ==
  LET w == Window(guide) IN
  Picks(guide) # {} =>
    /\ \A it \in Picks(guide) : w.start <= it.start /\ it.end <= w.end
    /\ w.start % 60 = 0 /\ w.end % 60 = 0
    /\ \E it \in Picks(guide) : it.start < w.start + 60
    /\ \E it \in Picks(guide) : it.end > w.end - 60

(* ... so that no card runs out of the grid, at its top or its bottom: but *)
(* for one raised to the least height, at the bottom.                      *)
NoCardCutOff ==
  \A d \in Days(guide) : \A a \in DayItems(d) :
    /\ 0 <= CardTop(a.item)
    /\ TooShort(a.item) \/ CardBottom(a.item) <= (Window(guide).end - Window(guide).start) * hourPx

(* Every pick has its card on the grid, all of it and as large as may be,  *)
(* at every scale - save what cards under the least height hang over.      *)
CardsShown == NoCardCovered /\ NoCardNarrowed /\ WindowFits /\ NoCardCutOff

(* The now line crosses every pick that is on, at its minute: in today's   *)
(* column, and past midnight in yesterday's too (CalendarView.tsx:83).  It *)
(* is the clock's today, which the page may not have rendered yet.         *)
NowLineOf(date) ==
  CASE date = clock.date     -> NowLine(clock.min, Window(guide))
    [] date = clock.date - 1 -> NowLine(clock.min + 1440, Window(guide))
    [] OTHER                 -> NoCell

NowCrossesWhatIsOn ==
  \A it \in Picks(guide) :
    LET min == clock.min + 1440 * (clock.date - it.date) IN
    During(it, min) => NowLineOf(it.date) = min - Window(guide).start

(* A dropped card lands on the quarter of an hour nearest to where it was  *)
(* let go, of those at which all of it lies inside the window - unless the *)
(* window has become too small for it under the drag (guide.ts:191).       *)
Slots(it) == {m \in Window(guide).start..(Window(guide).end - Duration(it)) : m % 15 = 0}
Away(m)   == LET apart == m * hourPx - Dragged(drag.item.start, drag.dy, hourPx)
             IN  IF apart < 0 THEN -apart ELSE apart

LandsNearest(start) ==
  Slots(drag.item) # {} => /\ start \in Slots(drag.item)
                           /\ \A m \in Slots(drag.item) : Away(start) <= Away(m)

(* The card lands where the pill said, unless the guide or the scale has   *)
(* changed since it last moved (GridDragPreview.tsx:33), and where the     *)
(* ghost stood, if that is a place for it (guide.ts:218).                  *)
LandsAsTold(start) ==
  /\ drag.settled => start = drag.pill
  /\ LET ghost == GhostStart(drag.item.start, drag.dy, hourPx)
     IN  ghost \in Slots(drag.item) => start = ghost

(* So does every drop.                                                     *)
DropsLand ==
  [][sent' # NoCell /\ sent'.op = "move" =>
       LandsNearest(sent'.start) /\ LandsAsTold(sent'.start)]_vars

(* Nothing is moved into a day that the page shows as past, unless the day *)
(* has turned during the drag (DayColumn.tsx:46, GridItemCard.tsx:52).     *)
PastDaysLocked ==
  [][sent' # NoCell /\ sent'.op = "move" /\ sent'.date < today => drag.since < today]_vars

(* A swap replaces a pick of the same day and minute as the alternate, so  *)
(* that the evening keeps its times; and an alternate that shares a pick's *)
(* minute can be swapped in (toBoardRows, guide.ts:158).                   *)
SwapKeepsTheTime ==
  view = "board" =>
    \A c \in Board(guide, chosen).cells : ~c.item.plan =>
      LET replaced == {it \in Picks(guide) : it.date = c.item.date /\ it.start = c.item.start}
      IN  IF c.target = NoCell THEN replaced = {} ELSE c.target \in {it.id : it \in replaced}

(* The board hides no pick behind an alternate, and numbers the picks of   *)
(* the evening in their order: one that no cell shows follows another of   *)
(* its provider in the same hour (guide.ts:143).                           *)
BoardShowsPicks ==
  view = "board" =>
    LET b     == Board(guide, chosen)
        steps == {c \in b.cells : c.item.plan}
    IN  /\ \A c, e \in steps : c.step < e.step => c.item.start <= e.item.start
        /\ \A it \in Picks(guide) : it.date = chosen =>
             \E c \in steps : /\ c.item.provider = it.provider
                              /\ HourOf(c.item.start) = HourOf(it.start)
                              /\ c.item.start <= it.start

(* The board can be watched from, and swapped on.                          *)
BoardSound == SwapKeepsTheTime /\ BoardShowsPicks
=============================================================================
