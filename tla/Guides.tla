------------------------------- MODULE Guides -------------------------------
(***************************************************************************)
(* One user's guides and their items, as the handlers of                   *)
(* api/internal/httpserver/guides.go and the transactions of               *)
(* api/internal/store/guides.go change them.  Requests run concurrently.   *)
(* A create, a regenerate and a PATCH are two steps each, because what     *)
(* they read (for a PATCH, the clock) is read outside the transaction that *)
(* writes, or, for a create, by a statement that does not see what commits *)
(* after it; every other request is one transaction on one row, and one    *)
(* step.                                                                   *)
(*                                                                         *)
(* Left out: what a mark does to user_titles (module WatchTracking), seeds,*)
(* providers and episodes, and other users (every statement is scoped by   *)
(* user_id).                                                               *)
(***************************************************************************)
EXTENDS PlanContract, FiniteSets

CONSTANTS
  Dates,      \* the calendar, consecutive integers
  MaxDays,    \* longest guide (14 in the code)
  Windows,    \* [Dates -> window], the user's schedule preferences
  Titles,     \* titles of the rotation or watchlist
  Runtime,    \* [Titles -> minutes]
  Plans,      \* sets of rows that a generation may return
  Edits,      \* PATCH bodies
  Requests,   \* creates, regenerates and PATCHes in flight at a time
  MaxStamp,   \* bound: creates and regenerates started in one behaviour
  Unset       \* a field a PATCH leaves alone

RowType == [date : Dates, start : Nat, end : Nat \ {0}, title : Titles,
            plan : BOOLEAN, pinned : BOOLEAN]

EditType == [date : Dates \cup {Unset}, start : Nat \cup {Unset},
             title : Titles \cup {Unset}, pinned : BOOLEAN \cup {Unset}]

ASSUME CalendarAssumption ==
  /\ Dates \subseteq Int
  /\ MaxDays \in Nat \ {0} /\ MaxStamp \in Nat
  /\ \A d \in Dates : Windows[d].start \in Nat /\ Windows[d].end \in Nat
ASSUME RuntimeAssumption == \A t \in Titles : Runtime[t] \in Nat \ {0}
ASSUME PlansAssumption == \A p \in Plans : p \subseteq RowType
ASSUME EditsAssumption == Edits \subseteq EditType
ASSUME SentinelAssumption ==
  Unset \notin Dates /\ Unset \notin Nat /\ Unset \notin Titles /\ Unset \notin BOOLEAN

VARIABLES
  today,    \* the API's UTC date
  guides,   \* the guides table: id -> [start, end]
  items,    \* the guide_items table: id -> row
  reqs,     \* creates, regenerates and PATCHes in flight
  stamp     \* next guide id, and tag of the next batch of items

vars == <<today, guides, items, reqs, stamp>>

Idle == [op |-> "idle"]   \* a request slot that is free

(* The identity column never reuses a value.  An item's id is the batch    *)
(* that inserted it with the row as inserted, which is as unique.          *)
Stored(g, row) ==
  [guide |-> g, date |-> row.date, start |-> row.start, end |-> row.end,
   title |-> row.title, plan |-> row.plan, pinned |-> row.pinned,
   edited |-> FALSE, watched |-> FALSE]

Batch(tag, rows) == {<<tag, row>> : row \in rows}

(* insertGuideItems, after the rows outside `survivors` were deleted.      *)
Insert(survivors, g, tag, rows) ==
  [k \in survivors \cup Batch(tag, rows) |->
     IF k \in Batch(tag, rows) THEN Stored(g, k[2]) ELSE items[k]]

(* What the engine may return around the rows `kept` on these nights: the  *)
(* contract that Scheduler!KeepsContract shows the engine to keep.         *)
Generates(rows, kept, nights) ==
  LET plan == {n \in rows : n.plan}
  IN  Generation(plan, rows \ plan, {k \in kept : k.plan}, nights)
-----------------------------------------------------------------------------
(* handleCreateGuide up to the DELETE of CreateGuideReplacingOverlaps: the *)
(* guide is generated with nothing kept, and the statement's snapshot      *)
(* fixes which guides it deletes.                                          *)
OverlappingInside(s, e) ==   \* with < for <=: guides that share one day stay
  {g \in DOMAIN guides : guides[g].start < e /\ s < guides[g].end}

Overlapping(s, e) == {g \in DOMAIN guides : guides[g].start <= e /\ s <= guides[g].end}

StartCreate(r, s, e) ==
  /\ reqs[r] = Idle
  /\ stamp < MaxStamp
  /\ s <= e /\ e - s < MaxDays
  /\ \E rows \in Plans :
       /\ Generates(rows, {}, [d \in s..e |-> Windows[d]])
       /\ reqs' = [reqs EXCEPT ![r] =
            [op |-> "create", tag |-> stamp, start |-> s, end |-> e, rows |-> rows,
             doomed |-> Overlapping(s, e)]]
  /\ stamp' = stamp + 1
  /\ UNCHANGED <<today, guides, items>>

(* The transaction commits: the guides it saw go, with their items.        *)
FinishCreate(r) ==
  /\ reqs[r].op = "create"
  /\ LET q == reqs[r] IN
     /\ guides' = [g \in (DOMAIN guides \ q.doomed) \cup {q.tag} |->
                     IF g = q.tag THEN [start |-> q.start, end |-> q.end] ELSE guides[g]]
     /\ items' = Insert({k \in DOMAIN items : items[k].guide \notin q.doomed},
                        q.tag, q.tag, q.rows)
  /\ reqs' = [reqs EXCEPT ![r] = Idle]
  /\ UNCHANGED <<today, stamp>>

(* handleRegenerate reads the guide, decides what to keep, and generates   *)
(* around it with the nights before today disabled ...                     *)
KeeperUnlessWatched(i, now) == i.pinned \/ i.edited \/ i.date < now   \* i.watched forgotten

Keeper(i, now) == i.pinned \/ i.edited \/ i.watched \/ i.date < now

KeepIDs(seen, now) == {k \in DOMAIN seen : Keeper(seen[k], now)}

OpenNights(g, now) ==
  [d \in guides[g].start..guides[g].end |-> IF d < now THEN NightOff ELSE Windows[d]]

StartRegenerate(r, g) ==
  /\ reqs[r] = Idle
  /\ stamp < MaxStamp
  /\ LET seen == [k \in {i \in DOMAIN items : items[i].guide = g} |-> items[k]]
         keep == {seen[k] : k \in KeepIDs(seen, today)}
     IN \E rows \in Plans :
          /\ Generates(rows, keep, OpenNights(g, today))
          /\ reqs' = [reqs EXCEPT ![r] =
               [op |-> "regenerate", tag |-> stamp, guide |-> g, today |-> today,
                seen |-> seen, rows |-> rows]]
  /\ stamp' = stamp + 1
  /\ UNCHANGED <<today, guides, items>>

(* ... and ReplaceUnkeptItems, if the guide is still there, deletes every  *)
(* item that was not a keep then and inserts the new ones.                 *)
StillOwned(q) == q.guide \in DOMAIN guides

SurvivorsOfSeen(q) ==   \* deletes the items it saw and did not keep, no others
  {k \in DOMAIN items : k \in DOMAIN q.seen => k \in KeepIDs(q.seen, q.today)}

Survivors(q) ==
  {k \in DOMAIN items : items[k].guide = q.guide => k \in KeepIDs(q.seen, q.today)}

FinishRegenerate(r) ==
  /\ reqs[r].op = "regenerate"
  /\ LET q == reqs[r] IN
     items' = IF StillOwned(q) THEN Insert(Survivors(q), q.guide, q.tag, q.rows) ELSE items
  /\ reqs' = [reqs EXCEPT ![r] = Idle]
  /\ UNCHANGED <<today, guides, stamp>>

(* The client goes away or the instance stops: nothing was committed.      *)
Abandon(r) ==
  /\ reqs[r] # Idle
  /\ reqs' = [reqs EXCEPT ![r] = Idle]
  /\ UNCHANGED <<today, guides, items, stamp>>
-----------------------------------------------------------------------------
(* handlePatchItem fixes the day, asks SwapTitle for the new title's       *)
(* runtime, and only then does UpdateGuideItem take the row's lock.  A     *)
(* move may neither take an item that was past on that day nor put one     *)
(* before it; a swap takes the new title's runtime and removes the title   *)
(* from that night's alternates.                                           *)
Or(new, old) == IF new = Unset THEN old ELSE new

Moves(b) == b.date # Unset \/ b.start # Unset

MoveTargetAllowed(i, b, now) == Moves(b) => Or(b.date, now) >= now   \* item's own date ignored

MoveAllowed(i, b, now) == Moves(b) => i.date >= now /\ Or(b.date, now) >= now

UpdatedRaw(i, b) ==   \* pinned without its COALESCE
  [i EXCEPT !.pinned = b.pinned, !.edited = @ \/ Moves(b)]

Updated(i, b) ==
  LET start == Or(b.start, i.start)
      span  == IF b.title = Unset THEN i.end - i.start ELSE Runtime[b.title]
  IN  [i EXCEPT !.date = Or(b.date, @), !.start = start, !.end = start + span,
                !.title = Or(b.title, @), !.pinned = Or(b.pinned, @),
                !.edited = @ \/ Moves(b) \/ b.title # Unset]

Shadowed(k, b) ==
  {l \in DOMAIN items \ {k} : /\ b.title # Unset /\ ~items[l].plan
                              /\ items[l].guide = items[k].guide
                              /\ items[l].date = Updated(items[k], b).date
                              /\ items[l].title = b.title}

StartPatch(r, k, b) ==
  /\ reqs[r] = Idle
  /\ reqs' = [reqs EXCEPT ![r] = [op |-> "patch", item |-> k, body |-> b, today |-> today]]
  /\ UNCHANGED <<today, guides, items, stamp>>

Patched(k, b) ==
  [l \in DOMAIN items \ Shadowed(k, b) |-> IF l = k THEN Updated(items[k], b) ELSE items[l]]

FinishPatch(r) ==
  /\ reqs[r].op = "patch"
  /\ LET q == reqs[r] IN
     items' = IF q.item \in DOMAIN items /\ MoveAllowed(items[q.item], q.body, q.today)
              THEN Patched(q.item, q.body) ELSE items
  /\ reqs' = [reqs EXCEPT ![r] = Idle]
  /\ UNCHANGED <<today, guides, stamp>>

DeleteItem(k) ==
  /\ items' = [l \in DOMAIN items \ {k} |-> items[l]]
  /\ UNCHANGED <<today, guides, reqs, stamp>>

(* MarkItemWatched and UnmarkItemWatched, the guide_items half.            *)
SetWatched(k, w) ==
  /\ items' = [items EXCEPT ![k].watched = w]
  /\ UNCHANGED <<today, guides, reqs, stamp>>

Midnight ==
  /\ today + 1 \in Dates
  /\ today' = today + 1
  /\ UNCHANGED <<guides, items, reqs, stamp>>
-----------------------------------------------------------------------------
Init ==
  /\ today \in Dates
  /\ guides = [g \in {} |-> {}]
  /\ items = [k \in {} |-> {}]
  /\ reqs = [r \in Requests |-> Idle]
  /\ stamp = 0

Create     == \E r \in Requests : \E s, e \in Dates : StartCreate(r, s, e)
Regenerate == \E r \in Requests : \E g \in DOMAIN guides : StartRegenerate(r, g)
Finish     == \E r \in Requests : FinishCreate(r) \/ FinishRegenerate(r) \/ FinishPatch(r)
Patch      == \E r \in Requests : \E k \in DOMAIN items : \E b \in Edits : StartPatch(r, k, b)
Delete     == \E k \in DOMAIN items : DeleteItem(k)
Watch      == \E k \in DOMAIN items : SetWatched(k, TRUE)
Unwatch    == \E k \in DOMAIN items : SetWatched(k, FALSE)
Drop       == \E r \in Requests : Abandon(r)

Next == Create \/ Regenerate \/ Finish \/ Patch \/ Delete \/ Watch \/ Unwatch
          \/ Drop \/ Midnight

Spec == Init /\ [][Next]_vars
-----------------------------------------------------------------------------
(* The tables' and the requests' types.                                    *)
ItemType == [guide : Nat, date : Dates, start : Int, end : Int, title : Titles,
             plan : BOOLEAN, pinned : BOOLEAN, edited : BOOLEAN, watched : BOOLEAN]

CreateOK(q) == /\ q.op = "create" /\ q.tag \in 0..stamp - 1
               /\ q.start \in Dates /\ q.end \in Dates /\ q.rows \in Plans
               /\ q.doomed \subseteq 0..stamp - 1

RegenerateOK(q) == /\ q.op = "regenerate" /\ q.tag \in 0..stamp - 1
                   /\ q.guide \in 0..stamp - 1
                   /\ q.rows \in Plans /\ q.today \in Dates
                   /\ q.seen \in [DOMAIN q.seen -> ItemType]

PatchOK(q) == q.op = "patch" /\ q.body \in Edits /\ q.today \in Dates

RequestOK(q) == q = Idle \/ CreateOK(q) \/ RegenerateOK(q) \/ PatchOK(q)

TypeOK ==
  /\ today \in Dates
  /\ stamp \in Nat
  /\ DOMAIN guides \subseteq 0..stamp - 1
  /\ \A g \in DOMAIN guides : guides[g].start \in Dates /\ guides[g].end \in Dates
  /\ items \in [DOMAIN items -> ItemType]
  /\ DOMAIN reqs = Requests
  /\ \A r \in Requests : RequestOK(reqs[r])

(* However creates, regenerates and edits interleave, rows that the user   *)
(* has not edited still form what the engine promised: in one guide no two *)
(* of them overlap, nor show one title twice in a night.  A regenerate     *)
(* inserts rows that were planned around a state it read earlier.          *)
PlanUnedited(k) == items[k].plan /\ ~items[k].edited

UneditedCompatible ==
  \A k, l \in DOMAIN items :
     /\ k # l /\ items[k].guide = items[l].guide
     /\ PlanUnedited(k) /\ PlanUnedited(l)
     => Compatible(items[k], items[l])

Touched(i) == i.pinned \/ i.edited \/ i.watched

Lost == {k \in DOMAIN items \ DOMAIN items' : Touched(items[k])}

AskedFor(k) ==   \* the user deleted it, swapped it away, or made a new guide
  \/ DeleteItem(k)
  \/ \E r \in Requests : FinishPatch(r) /\ k \in Shadowed(reqs[r].item, reqs[r].body)
  \/ items[k].guide \notin DOMAIN guides'

(* A regenerate keeps every item that the user pinned, edited or watched   *)
(* before it was asked for, whatever else is in flight.                    *)
TouchedBeforeIsKept ==
  [][\A k \in Lost :
       \/ AskedFor(k)
       \/ \E r \in Requests :
            /\ FinishRegenerate(r)
            /\ k \notin {l \in DOMAIN reqs[r].seen : Touched(reqs[r].seen[l])}]_vars

(* The past is immutable, for what was past when the request was made: a   *)
(* PATCH takes no item that lay before the day on which it was sent, and   *)
(* puts none there; a regenerate removes no item that it read as past and  *)
(* adds none before the day on which it was asked for.  Nothing else moves *)
(* an item.  Midnights and other requests may fall in between.             *)
PastIsImmutable ==
  [][/\ \A k \in DOMAIN items \cap DOMAIN items' :
          LET old == items[k]  new == items'[k] IN
          (old.date # new.date \/ old.start # new.start) =>
             \E r \in Requests : /\ FinishPatch(r) /\ reqs[r].item = k
                                /\ old.date >= reqs[r].today /\ new.date >= reqs[r].today
     /\ \A r \in Requests :
          FinishRegenerate(r) =>
            /\ \A k \in (DOMAIN items \cap DOMAIN reqs[r].seen) \ DOMAIN items' :
                  reqs[r].seen[k].date >= reqs[r].today
            /\ \A k \in DOMAIN items' \ DOMAIN items :
                  items'[k].date >= reqs[r].today]_vars

(* A user's guides never share a day (CreateGuideReplacingOverlaps).       *)
GuidesDisjoint ==
  \A g, h \in DOMAIN guides :
     g # h => guides[g].end < guides[h].start \/ guides[h].end < guides[g].start
=============================================================================
