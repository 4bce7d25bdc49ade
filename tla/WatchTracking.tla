--------------------------- MODULE WatchTracking ---------------------------
(***************************************************************************)
(* What one user has watched: the user_titles rows (status and episode     *)
(* pointer) and the watched flags of the guide's items.  They are changed  *)
(* by PATCH /titles/{id}/entry (httpserver/entries.go, store/entries.go),  *)
(* by marking and unmarking an item and by swapping an item's title        *)
(* (store/guides.go).                                                      *)
(*                                                                         *)
(* Marks and unmarks are one transaction, locking the item and the entry.  *)
(* A PATCH that asks for the rotation counts it in one statement and       *)
(* writes in another; a swap reads the new title's pointer in one request  *)
(* to the database and rewrites the item in another.                       *)
(*                                                                         *)
(* Left out: ratings, favorites and watched_at, which nothing reads back   *)
(* into a decision; dates and providers of items (module Guides).          *)
(***************************************************************************)
EXTENDS Integers, FiniteSets

CONSTANTS
  Movies, Series,   \* the titles known to the store
  Items,            \* guide items
  Slot,             \* [Items -> [title, ep]]: the row that generation inserts
  SeasonTables,     \* the episode counts per season that ingest may store
  Cap,              \* rotationCap
  Statuses,         \* statuses a PATCH may set
  Pointers,         \* pointers a PATCH may set
  Requests,         \* PATCHes and swaps in flight at a time
  Swaps,            \* whether items' titles are swapped
  Unset, Idle, Absent

Titles    == Movies \cup Series
AnyStatus == {"none", "watchlist", "rotation", "watched"}
Position  == (Nat \ {0}) \X (Nat \ {0})
NoEpisode == <<0, 0>>

Earlier(k, l) == k[1] < l[1] \/ (k[1] = l[1] /\ k[2] < l[2])

ASSUME TitlesAssumption ==
  /\ Movies \cap Series = {}
  /\ IsFiniteSet(Titles) /\ IsFiniteSet(Requests)
  /\ Cap \in Nat \ {0} /\ Swaps \in BOOLEAN
  /\ Statuses \subseteq AnyStatus /\ Pointers \subseteq Position
ASSUME SlotAssumption ==
  \A i \in Items : \/ Slot[i].title \in Movies /\ Slot[i].ep = NoEpisode
                   \/ Slot[i].title \in Series /\ Slot[i].ep \in Position
ASSUME SeasonsAssumption ==
  \A s \in SeasonTables : DOMAIN s \subseteq Nat \ {0} /\ s \in [DOMAIN s -> Nat]
ASSUME SentinelAssumption ==
  Unset \notin AnyStatus /\ Unset \notin Position

VARIABLES
  entry,   \* user_titles: [Titles -> [status, pointer] or Absent]
  item,    \* guide_items: [Items -> [title, ep, watched] or Absent]
  counts,  \* title_seasons: [Series -> season table]
  reqs,    \* requests between their read and their write
  returned \* titles that an unmark has put back into the rotation, and are in it

vars == <<entry, item, counts, reqs, returned>>

Tracked(t)  == entry[t] # Absent
Present(i)  == item[i] # Absent
Rotation    == {t \in Titles : Tracked(t) /\ entry[t].status = "rotation"}
-----------------------------------------------------------------------------
(* handlePatchEntry: the cap is checked against the other titles ...       *)
UnderCapLate(t) == Cardinality(Rotation \ {t}) <= Cap   \* off by one

UnderCap(t) == Cardinality(Rotation \ {t}) < Cap

StartPatch(r, t, status, pointer) ==
  /\ reqs[r] = Idle
  /\ status = "rotation" => UnderCap(t)
  /\ reqs' = [reqs EXCEPT ![r] =
                [op |-> "patch", title |-> t, status |-> status, pointer |-> pointer]]
  /\ UNCHANGED <<entry, item, counts>>

(* ... and UpsertEntry writes later.  A field that is not set keeps its    *)
(* value, or gets the column's default in a new row.                       *)
Or(new, old) == IF new = Unset THEN old ELSE new

Upserted(old, q) ==
  LET row == IF old = Absent THEN [status |-> "none", pointer |-> <<1, 1>>] ELSE old
  IN  [status |-> Or(q.status, row.status), pointer |-> Or(q.pointer, row.pointer)]

FinishPatch(r) ==
  /\ reqs[r] # Idle /\ reqs[r].op = "patch"
  /\ entry' = [entry EXCEPT ![reqs[r].title] = Upserted(@, reqs[r])]
  /\ reqs' = [reqs EXCEPT ![r] = Idle]
  /\ UNCHANGED <<item, counts>>
-----------------------------------------------------------------------------
(* nextPointer: the position after an episode, and whether there is none   *)
(* known, in which case the pointer parks on the episode itself.           *)
NextPointerFromZero(ep, seasons) ==   \* a season's episodes counted from 0
  IF ep[1] \in DOMAIN seasons /\ ep[2] < seasons[ep[1]]
  THEN [pointer |-> <<ep[1], ep[2] + 1>>, pastFinale |-> FALSE]
  ELSE [pointer |-> <<ep[1] + 1, 0>>, pastFinale |-> ep[1] + 1 \notin DOMAIN seasons]

NextPointer(ep, seasons) ==
  IF ep[1] \in DOMAIN seasons /\ ep[2] < seasons[ep[1]]
  THEN [pointer |-> <<ep[1], ep[2] + 1>>, pastFinale |-> FALSE]
  ELSE IF ep[1] + 1 \in DOMAIN seasons
  THEN [pointer |-> <<ep[1] + 1, 1>>, pastFinale |-> FALSE]
  ELSE [pointer |-> ep, pastFinale |-> TRUE]

(* What a mark makes of the entry of the item's title: a movie is watched; *)
(* a series moves on from the episode, never back, and is watched past its *)
(* last known episode.                                                     *)
MarkedAnywhere(e, t, ep) ==   \* without the guard that the pointer never regresses
  IF t \in Movies THEN [e EXCEPT !.status = "watched"]
  ELSE [e EXCEPT !.pointer = NextPointer(ep, counts[t]).pointer]

Marked(e, t, ep) ==
  IF t \in Movies THEN [e EXCEPT !.status = "watched"]
  ELSE LET next == NextPointer(ep, counts[t]) IN
       IF Earlier(ep, e.pointer) THEN e
       ELSE [status  |-> IF next.pastFinale THEN "watched" ELSE e.status,
             pointer |-> next.pointer]

(* What an unmark makes of it: back to the episode if the pointer is where *)
(* the mark would have put it, and out of the watched shelf in any case.   *)
UnmarkedAnywhere(e, t, ep) ==   \* back to the episode wherever the pointer is
  [status |-> IF e.status = "watched" THEN "rotation" ELSE e.status, pointer |-> ep]

UnmarkedOnShelf(e, t, ep) ==   \* the status stays as the mark left it
  [e EXCEPT !.pointer = IF t \in Series /\ NextPointer(ep, counts[t]).pointer = @
                        THEN ep ELSE @]

Unmarked(e, t, ep) ==
  [status  |-> IF e.status = "watched" THEN "rotation" ELSE e.status,
   pointer |-> IF t \in Series /\ NextPointer(ep, counts[t]).pointer = e.pointer
               THEN ep ELSE e.pointer]

MarkItemWatched(i) ==
  /\ Present(i)
  /\ item' = [item EXCEPT ![i].watched = TRUE]
  /\ LET t == item[i].title IN
     entry' = IF Tracked(t) THEN [entry EXCEPT ![t] = Marked(@, t, item[i].ep)] ELSE entry
  /\ UNCHANGED <<counts, reqs>>

UnmarkItemWatched(i) ==
  /\ Present(i) /\ item[i].watched
  /\ item' = [item EXCEPT ![i].watched = FALSE]
  /\ LET t == item[i].title IN
     entry' = IF Tracked(t) THEN [entry EXCEPT ![t] = Unmarked(@, t, item[i].ep)] ELSE entry
  /\ UNCHANGED <<counts, reqs>>
-----------------------------------------------------------------------------
(* SwapTitle offers a title of the rotation or the watchlist at its        *)
(* pointer; UpdateGuideItem then rewrites the item, whose watched flag     *)
(* stays as it is.                                                         *)
StartSwap(r, i, t) ==
  /\ Swaps
  /\ reqs[r] = Idle
  /\ Present(i)
  /\ Tracked(t) /\ entry[t].status \in {"rotation", "watchlist"}
  /\ reqs' = [reqs EXCEPT ![r] =
                [op |-> "swap", item |-> i, title |-> t,
                 ep |-> IF t \in Movies THEN NoEpisode ELSE entry[t].pointer]]
  /\ UNCHANGED <<entry, item, counts>>

FinishSwap(r) ==
  /\ reqs[r] # Idle /\ reqs[r].op = "swap"
  /\ LET q == reqs[r] IN
     item' = IF Present(q.item)
             THEN [item EXCEPT ![q.item].title = q.title, ![q.item].ep = q.ep]
             ELSE item
  /\ reqs' = [reqs EXCEPT ![r] = Idle]
  /\ UNCHANGED <<entry, counts>>

(* The guide's side of it: generation inserts an item for a title of the   *)
(* rotation, at or after its pointer; a delete, a regenerate or a new      *)
(* guide removes one.                                                      *)
Schedule(i) ==
  /\ ~Present(i)
  /\ LET s == Slot[i] IN
     /\ s.title \in Rotation
     /\ s.title \in Series => ~Earlier(s.ep, entry[s.title].pointer)
     /\ item' = [item EXCEPT ![i] = [title |-> s.title, ep |-> s.ep, watched |-> FALSE]]
  /\ UNCHANGED <<entry, counts, reqs>>

Unschedule(i) ==
  /\ Present(i)
  /\ item' = [item EXCEPT ![i] = Absent]
  /\ UNCHANGED <<entry, counts, reqs>>

(* An ingest refresh replaces a series' season table (ReplaceSeasons).     *)
ReplaceSeasons(t) ==
  /\ \E s \in SeasonTables : s # counts[t] /\ counts' = [counts EXCEPT ![t] = s]
  /\ UNCHANGED <<entry, item, reqs>>
-----------------------------------------------------------------------------
Init ==
  /\ entry = [t \in Titles |-> Absent]
  /\ item = [i \in Items |-> Absent]
  /\ counts \in [Series -> SeasonTables]
  /\ reqs = [r \in Requests |-> Idle]
  /\ returned = {}

Patch   == \E r \in Requests : \E t \in Titles :
             \E s \in Statuses \cup {Unset} : \E p \in Pointers \cup {Unset} :
               StartPatch(r, t, s, p)
Swap    == \E r \in Requests : \E i \in Items : \E t \in Titles : StartSwap(r, i, t)
Finish  == \E r \in Requests : FinishPatch(r) \/ FinishSwap(r)
Mark    == \E i \in Items : MarkItemWatched(i)
Unmark  == \E i \in Items : UnmarkItemWatched(i)
Plan    == \E i \in Items : Schedule(i) \/ Unschedule(i)
Refresh == \E t \in Series : ReplaceSeasons(t)

(* An unmark has no cap: it returns a watched title to the rotation.       *)
Unmarks(i) == Present(i) /\ item[i].watched /\ ~item'[i].watched

Return == returned' = {t \in Rotation' : \/ t \in returned
                                         \/ ~(t \in Rotation) /\ \E i \in Items : Unmarks(i)}

Next == (Patch \/ Swap \/ Finish \/ Mark \/ Unmark \/ Plan \/ Refresh) /\ Return

Spec == Init /\ [][Next]_vars
-----------------------------------------------------------------------------
(* The rows' and the requests' types.                                      *)
EntryType == [status : AnyStatus, pointer : Position]

EpisodeOf(t, ep) == IF t \in Movies THEN ep = NoEpisode ELSE ep \in Position

ItemType ==
  {v \in [title : Titles, ep : Position \cup {NoEpisode}, watched : BOOLEAN] :
     EpisodeOf(v.title, v.ep)}

PatchType == [op : {"patch"}, title : Titles, status : Statuses \cup {Unset},
              pointer : Pointers \cup {Unset}]

SwapType ==
  {q \in [op : {"swap"}, item : Items, title : Titles, ep : Position \cup {NoEpisode}] :
     EpisodeOf(q.title, q.ep)}

ASSUME AbsentAssumption ==
  Absent \notin EntryType \cup ItemType /\ Idle \notin PatchType \cup SwapType

TypeOK ==
  /\ entry \in [Titles -> EntryType \cup {Absent}]
  /\ item \in [Items -> ItemType \cup {Absent}]
  /\ counts \in [Series -> SeasonTables]
  /\ reqs \in [Requests -> PatchType \cup SwapType \cup {Idle}]
  /\ returned \subseteq Rotation

(* One guide over seasons that rest, while nothing but marks and unmarks   *)
(* moves a pointer: no pointer or watched status is set by hand, no title  *)
(* is swapped, and no episode is in the guide twice.                       *)
HasEpisode(seasons, k) == k[1] \in DOMAIN seasons /\ k[2] <= seasons[k[1]]

OneGuide ==
  /\ ~Swaps /\ Pointers = {} /\ "watched" \notin Statuses
  /\ \A i \in Items : Slot[i].title \in Series =>
       /\ \A s \in SeasonTables : HasEpisode(s, Slot[i].ep)
       /\ \A j \in Items : Slot[j].title = Slot[i].title /\ Slot[j].ep = Slot[i].ep => j = i

SeasonsRest ==
  /\ \A s, u \in SeasonTables : s = u
  /\ \A s \in SeasonTables :
       /\ \E n \in DOMAIN s : DOMAIN s = 1..n
       /\ \A k \in DOMAIN s : s[k] # 0

(* A watched episode lies behind the pointer, so that no later guide       *)
(* offers it again: whatever is marked and unmarked, in whatever order.    *)
(* The last known episode is excepted, on which the pointer parks.         *)
WatchedBehindPointer ==
  \A i \in Items :
    Present(i) /\ item[i].watched /\ item[i].title \in Series =>
      LET t == item[i].title IN
      Earlier(item[i].ep, entry[t].pointer) \/ NextPointer(item[i].ep, counts[t]).pastFinale

(* Marks and unmarks leave the pointer on an episode that exists, or the   *)
(* engine would find the series exhausted.                                 *)
PointerNamesAnEpisode ==
  \A t \in Series :
    Tracked(t) => HasEpisode(counts[t], entry[t].pointer)

(* A series on the watched shelf has its pointer parked on the last known  *)
(* episode: an unmark that moves it takes the series off the shelf, too.   *)
CompletedAtFinale ==
  \A t \in Series :
    Tracked(t) /\ entry[t].status = "watched" =>
      NextPointer(entry[t].pointer, counts[t]).pastFinale

(* Either way the pointer is one that a guide can be made from.            *)
PointerSound == PointerNamesAnEpisode /\ CompletedAtFinale

(* The pointer moves back only when the user sets it, or unmarks an item   *)
(* that was marked, and then onto that item's episode: never by a mark, a  *)
(* swap, or the late write of a PATCH that set something else.             *)
MovesBackOnRequest(t) ==
  Tracked(t) /\ Earlier(entry'[t].pointer, entry[t].pointer) =>
    \/ \E r \in Requests : FinishPatch(r) /\ reqs[r].pointer = entry'[t].pointer
    \/ \E i \in Items : /\ Present(i) /\ item[i].watched /\ ~item'[i].watched
                        /\ item[i].title = t /\ item[i].ep = entry'[t].pointer

PointerMovesBackOnRequest == [][\A t \in Series : MovesBackOnRequest(t)]_vars

(* Each PATCH checks the cap before it writes, so PATCHes in flight        *)
(* together overshoot it, by at most one each but the last; beyond that    *)
(* the rotation has only what unmarks have returned to it                  *)
(* (entries.go:85, guides.go:650).                                         *)
RotationBounded == Cardinality(Rotation \ returned) <= Cap + Cardinality(Requests) - 1
=============================================================================
