---------------------------- MODULE GuideLayout ----------------------------
(***************************************************************************)
(* The view models of a guide that the web client computes (web lib/       *)
(* guide.ts): the columns of a week, the board of an evening, the time     *)
(* grid with its side-by-side packing, and the arithmetic of a drag.       *)
(*                                                                         *)
(* A guide is a record [first, last, items]; its items are a sequence, in  *)
(* the order of the payload, of records [id, date, start, end, plan,       *)
(* provider].  Dates are day numbers, times minutes from midnight.  Names, *)
(* labels and posters are left out; positions are in minutes rather than   *)
(* in hour heights.                                                        *)
(***************************************************************************)
EXTENDS Integers, Sequences, SequencesExt, FiniteSetsExt

CONSTANT NoCell   \* a cell without an item, a line or a target that is not there

ASSUME NoCellAssumption == NoCell \notin Nat

Days(g)     == g.first..g.last
HourOf(m)   == (m \div 60) * 60
HourUp(m)   == -HourOf(-m)
Duration(it) == it.end - it.start

(* Array.prototype.sort: the elements of S by the strict total order R,    *)
(* which is a set of pairs.                                                *)
Sorted(S, R) ==
  [n \in 1..Cardinality(S) |->
     CHOOSE x \in S : Cardinality({y \in S : <<y, x>> \in R}) = n - 1]

(* The sort by start is stable: ties stay as they are in the payload.      *)
Sooner(g, j, k) == \/ g.items[j].start < g.items[k].start
                   \/ g.items[j].start = g.items[k].start /\ j < k

ByStart(g, S) == Sorted(S, {p \in S \X S : Sooner(g, p[1], p[2])})

(* An evening's picks, as positions of the payload, and in their order.    *)
PlanOf(g, date) == {k \in DOMAIN g.items : g.items[k].plan /\ g.items[k].date = date}

Evening(g, date) == ByStart(g, PlanOf(g, date))
-----------------------------------------------------------------------------
(* toCalendarColumns: the evenings of the header, and the board's chips.   *)
Columns(g, today) == [d \in Days(g) |-> [isToday |-> d = today, slots |-> Evening(g, d)]]

(* toBoardRows: providers by hours that hold a pick.  A cell shows one     *)
(* item, a pick before an alternate and the earlier first; a pick has its  *)
(* number in the evening, an alternate the pick to swap with, which begins *)
(* at the same minute (the last one, should there be several).             *)
BoardHours(g, date) == {HourOf(g.items[k].start) : k \in PlanOf(g, date)}

Candidates(g, date, provider, hour) ==
  {k \in DOMAIN g.items : /\ g.items[k].date = date /\ g.items[k].provider = provider
                          /\ HourOf(g.items[k].start) = hour}

First(g, S) == CHOOSE k \in S : \A j \in S \ {k} : Sooner(g, k, j)

ShownItemByStart(g, candidates) == First(g, candidates)   \* picks not put first

ShownItem(g, candidates) ==
  LET picks == {k \in candidates : g.items[k].plan}
  IN  First(g, IF picks # {} THEN picks ELSE candidates)

SwapTarget(g, evening, it) ==
  LET sharing == {n \in DOMAIN evening : g.items[evening[n]].start = it.start}
  IN  IF it.plan \/ sharing = {} THEN NoCell ELSE g.items[evening[Max(sharing)]].id

StepOf(g, evening, it) ==
  IF it.plan THEN CHOOSE n \in DOMAIN evening : g.items[evening[n]].id = it.id ELSE NoCell

Board(g, date) ==
  LET evening == Evening(g, date)
      found(slot) == Candidates(g, date, slot[1], slot[2])
      Cell(it) == [item |-> it, step |-> StepOf(g, evening, it),
                   target |-> SwapTarget(g, evening, it)]
      slots == {it.provider : it \in ToSet(g.items)} \X BoardHours(g, date)
  IN  [path  |-> evening,
       cells |-> {Cell(g.items[ShownItem(g, found(s))]) : s \in {t \in slots : found(t) # {}}}]
-----------------------------------------------------------------------------
(* snap15 of n/d minutes: the nearest quarter of an hour, halves up.       *)
Snap15(n, d) == ((2 * n + 15 * d) \div (30 * d)) * 15

(* The minutes, over px, at which dy pixels at px pixels an hour leave a   *)
(* start.                                                                  *)
Dragged(start, dy, px) == start * px + dy * 60

(* dropStartMin: snapped, and held inside the window on the grid.          *)
DropStart(start, dy, px, window, duration) ==
  LET snapped == Snap15(Dragged(start, dy, px), px)
      last    == ((window.end - duration) \div 15) * 15
  IN  Min({Max({snapped, window.start}), last})

(* snapDragDelta: where the ghost's top stands.                            *)
GhostStart(start, dy, px) == Snap15(Dragged(start, dy, px), px)

(* nowLineFactor, as minutes from the window's top.                        *)
NowLineOfDay(min, window) ==   \* nothing drawn past midnight
  IF min < window.start \/ min >= 1440 THEN NoCell ELSE min - window.start

NowLine(min, window) ==
  IF min < window.start \/ min >= window.end THEN NoCell ELSE min - window.start
-----------------------------------------------------------------------------
(* layoutDayColumns: by start, the longer first, items of a cluster of     *)
(* overlapping ones take the first column that is free; each is as wide    *)
(* as its cluster's columns allow.                                         *)
LayoutBefore(a, b) ==
  \/ a.start < b.start
  \/ a.start = b.start /\ Duration(a) > Duration(b)
  \/ a.start = b.start /\ Duration(a) = Duration(b) /\ a.id < b.id

LayoutOrder(items) == Sorted(items, {p \in items \X items : LayoutBefore(p[1], p[2])})

FreeColumn(ends, start) ==
  Min({c \in DOMAIN ends : ends[c] <= start} \cup {Len(ends) + 1})

ClusterEndLast(sofar, it) == it.end   \* the end of the last item only

ClusterEnd(sofar, it) == Max({sofar.end, it.end})

Nothing == [ends |-> <<>>, end |-> 0, cluster |-> 0, placed |-> {}]

Place(sofar, it) ==
  LET apart  == sofar.placed = {} \/ it.start >= sofar.end
      ends   == IF apart THEN <<>> ELSE sofar.ends
      column == FreeColumn(ends, it.start)
      number == IF apart THEN sofar.cluster + 1 ELSE sofar.cluster
  IN  [ends    |-> [c \in DOMAIN ends \cup {column} |-> IF c = column THEN it.end ELSE ends[c]],
       end     |-> IF apart THEN it.end ELSE ClusterEnd(sofar, it),
       cluster |-> number,
       placed  |-> sofar.placed \cup {[item |-> it, col |-> column, cluster |-> number]}]

(* The loop over the sorted items, after each of them.                     *)
Packing(order) ==
  LET after[n \in 0..Len(order)] ==
        IF n = 0 THEN Nothing ELSE Place(after[n - 1], order[n])
  IN  after

Layout(items) ==
  LET placed == Packing(LayoutOrder(items))[Cardinality(items)].placed
  IN  {[item |-> p.item, col |-> p.col,
        cols |-> Max({q.col : q \in {q \in placed : q.cluster = p.cluster}})] : p \in placed}

(* toTimeGrid: one window for the week, from the hour of the first pick to *)
(* the hour of the last end; a day before today is past.                   *)
Picks(g) == {it \in ToSet(g.items) : it.plan}

Window(g) ==
  LET picks == Picks(g) IN
  [start |-> IF picks = {} THEN 0 ELSE HourOf(Min({it.start : it \in picks})),
   end   |-> IF picks = {} THEN 0 ELSE HourUp(Max({it.end : it \in picks}))]

WindowHours(g) == (Window(g).end - Window(g).start) \div 60

DayOfGrid(g, d, today) == [isPast |-> d < today, isToday |-> d = today,
                           items |-> Layout({it \in Picks(g) : it.date = d})]
=============================================================================
