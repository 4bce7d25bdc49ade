----------------------------- MODULE GuideCache -----------------------------
(***************************************************************************)
(* The one cache entry of the guide page (TanStack Query's ["guide"]) and  *)
(* the requests around it: the fetch with its retries and refetches        *)
(* (GuideBody), the drag's optimistic move with its rollback               *)
(* (useGuideItemDrag), the card's toggles and removal                      *)
(* (useGuideItemMutations, SlotQuickActions), the board's swap             *)
(* (BoardView), regenerate (GuideBody) and generate (GenerateBar).         *)
(*                                                                         *)
(* A document is NoGuide or a plan: for each item the time slot it is in   *)
(* and one mark, which stands for whether it is watched, whether it is     *)
(* pinned, or which of two titles it shows.  Requests are applied by the   *)
(* server in any order and answered in any order; each may be lost on the  *)
(* way there or on the way back.  The page shows the items as cards, a     *)
(* column for each day, or as the board of an evening.  Left out: other    *)
(* devices of the user, guides that end, and leaving the page.             *)
(***************************************************************************)
EXTENDS Integers, FiniteSets

CONSTANTS
  Items,        \* ids of guide items
  Slots,        \* places on the time grid
  Column,       \* [Slots -> the day column a slot is in]
  FirstGuides,  \* documents the server may begin with
  Mutations,    \* mutations outstanding at a time
  MaxOps,       \* operations by the user
  MaxFaults,    \* requests and answers that are lost
  Absent, NoGuide, NoData, NoItem, Idle

Retries == 2

Row       == [slot : Slots, mark : BOOLEAN]
Plan      == [Items -> Row \cup {Absent}]
Documents == Plan \cup {NoGuide}

FetchType ==   \* after: the moves of the cache that it was asked after
  [at : {"asked"}, failures : 0..Retries, after : SUBSET Mutations] \cup
  [at : {"answered"}, failures : 0..Retries, after : SUBSET Mutations, data : Documents]

Requested(kinds, items, targets, snapshots) ==
  [kind : kinds, item : items, to : targets, previous : snapshots,
   at : {"sent", "done", "refused", "refetching"}, held : BOOLEAN]

MutationType ==
  Requested({"toggle", "swap"}, Items, BOOLEAN, {NoData}) \cup
  Requested({"remove"}, Items, {Absent}, {NoData}) \cup
  Requested({"regenerate", "generate"}, {NoItem}, {Absent}, {NoData}) \cup
  Requested({"move"}, Items, Slots, Plan)

ASSUME GuideCacheAssumption ==
  /\ FirstGuides \subseteq Documents
  /\ MaxOps \in Nat /\ MaxFaults \in Nat
  /\ Absent \notin Row /\ NoGuide \notin Plan /\ NoData \notin Documents
  /\ NoItem \notin Items /\ Idle \notin FetchType \cup MutationType

VARIABLES
  server,   \* the document
  view,     \* the query's data: a document, or NoData; a 404 without data is NoGuide
  fetch,    \* the query's fetch, or Idle
  failed,   \* the last fetch has failed for good
  muts,     \* [Mutations -> an outstanding mutation, or Idle]
  mode,     \* "calendar" or "board" (GuideBody's view)
  unsure,   \* an operation that no card waits for has happened since the answer shown
  missed,   \* the last fetch had its answer already when a mutation joined it
  ops, faults

vars == <<server, view, fetch, failed, muts, mode, unsure, missed, ops, faults>>

Present(doc, i) == doc \notin {NoGuide, NoData} /\ doc[i] # Absent
Outstanding(m)  == muts[m] # Idle
Moves           == {m \in Mutations : Outstanding(m) /\ muts[m].kind = "move"}
-----------------------------------------------------------------------------
(* A component's button is disabled while a mutation it has sent is        *)
(* pending: the card's, the board's, the header's, the form's.  What is    *)
(* mounted anew knows of nothing that was sent before: its mutation is not *)
(* held any more, and goes on all the same.                                *)
NeverBusy(kinds, i) == FALSE   \* no disabled={busy}

Busy(kinds, i) ==
  \E m \in Mutations : Outstanding(m) /\ muts[m].kind \in kinds
                       /\ (i = NoItem \/ muts[m].item = i) /\ muts[m].held

OfCard  == {"toggle", "remove"}
OfBoard == {"swap"}

Forgetting(ms, unheld) ==
  [m \in Mutations |-> IF ms[m] # Idle /\ unheld[m] THEN [ms[m] EXCEPT !.held = FALSE] ELSE ms[m]]

(* Cards are keyed by their item within their column (DayColumn.tsx:76).   *)
SameCard(i, before, after) ==
  /\ Present(before, i) /\ Present(after, i)
  /\ Column[before[i].slot] = Column[after[i].slot]

CardGone(after) ==
  [m \in Mutations |-> Outstanding(m) /\ muts[m].kind \in OfCard /\ ~SameCard(muts[m].item, view, after)]

(* While there is no data, fetching shows "Loading" in place of the        *)
(* generate form (GuideBody.tsx:104).                                      *)
FormGone == [m \in Mutations |-> view = NoGuide /\ Outstanding(m) /\ muts[m].kind = "generate"]

(* Calendar or board, and back: what was on the page is unmounted          *)
(* (GuideBody.tsx:82).                                                     *)
Switch ==
  /\ view \notin {NoData, NoGuide}
  /\ mode' = IF mode = "calendar" THEN "board" ELSE "calendar"
  /\ muts' = Forgetting(muts, [m \in Mutations |-> Outstanding(m) /\ muts[m].kind \in OfCard \cup OfBoard])
  /\ UNCHANGED <<server, view, fetch, failed, unsure, missed, ops, faults>>
-----------------------------------------------------------------------------
(* A fetch: asked, and answered with what the server then holds.           *)
Asked(failures) == [at |-> "asked", failures |-> failures, after |-> Moves]

Refocus ==
  /\ fetch = Idle
  /\ fetch' = Asked(0) /\ missed' = FALSE
  /\ muts' = Forgetting(muts, FormGone)
  /\ UNCHANGED <<server, view, failed, mode, unsure, ops, faults>>

FetchReads ==
  /\ fetch # Idle /\ fetch.at = "asked"
  /\ fetch' = [at |-> "answered", failures |-> fetch.failures, after |-> fetch.after,
               data |-> server]
  /\ UNCHANGED <<server, view, failed, muts, mode, unsure, missed, ops, faults>>

(* Mutations that wait for the refetch are over with it, however it ends.  *)
Released == [m \in Mutations |-> IF Outstanding(m) /\ muts[m].at = "refetching"
                                 THEN Idle ELSE muts[m]]

FetchArrives ==
  /\ fetch # Idle /\ fetch.at = "answered"
  /\ view' = fetch.data
  /\ fetch' = Idle /\ failed' = FALSE
  /\ muts' = Forgetting(Released, CardGone(fetch.data)) /\ unsure' = missed
  /\ UNCHANGED <<server, mode, missed, ops, faults>>

RetriedOnce(failures) == failures < 1   \* a retry too few

Retried(failures) == failures < Retries

FetchFails ==
  /\ fetch # Idle
  /\ faults < MaxFaults /\ faults' = faults + 1
  /\ IF Retried(fetch.failures)
     THEN fetch' = [at |-> "asked", failures |-> fetch.failures + 1, after |-> fetch.after]
          /\ missed' = FALSE /\ UNCHANGED <<failed, muts, unsure>>
     ELSE fetch' = Idle /\ failed' = TRUE /\ muts' = Released /\ unsure' = TRUE
          /\ UNCHANGED missed
  /\ UNCHANGED <<server, view, mode, ops>>
-----------------------------------------------------------------------------
Mutation(kind, i, to) ==
  [kind |-> kind, item |-> i, to |-> to, previous |-> NoData, at |-> "sent", held |-> TRUE]

Start(m, q) ==
  /\ muts[m] = Idle
  /\ ops < MaxOps /\ ops' = ops + 1
  /\ muts' = [muts EXCEPT ![m] = q]

CardAction(m, i) ==
  /\ mode = "calendar" /\ Present(view, i) /\ ~Busy(OfCard, i)
  /\ \/ Start(m, Mutation("toggle", i, ~view[i].mark))
     \/ Start(m, Mutation("remove", i, Absent))
  /\ UNCHANGED <<server, view, fetch, failed, mode, unsure, missed, faults>>

Swap(m, i) ==
  /\ mode = "board" /\ Present(view, i) /\ ~Busy(OfBoard, NoItem)
  /\ Start(m, Mutation("swap", i, ~view[i].mark))
  /\ UNCHANGED <<server, view, fetch, failed, mode, unsure, missed, faults>>

Regenerate(m) ==
  /\ view \notin {NoData, NoGuide} /\ ~Busy({"regenerate"}, NoItem)
  /\ Start(m, Mutation("regenerate", NoItem, Absent))
  /\ UNCHANGED <<server, view, fetch, failed, mode, unsure, missed, faults>>

(* The form is there for a 404 only, not for another failure after it.     *)
Generate(m) ==
  /\ view = NoGuide /\ fetch = Idle /\ ~failed /\ ~Busy({"generate"}, NoItem)
  /\ Start(m, Mutation("generate", NoItem, Absent))
  /\ UNCHANGED <<server, view, fetch, failed, mode, unsure, missed, faults>>

(* onMutate of a drop: fetches in flight are cancelled, and with them ends *)
(* the wait of cards for one; the card moves in the cache at once.         *)
MovedIn(doc, i, slot) ==
  IF Present(doc, i) THEN [doc EXCEPT ![i].slot = slot] ELSE doc

FetchAfterDropKept == fetch   \* no cancelQueries

FetchAfterDrop == Idle

Drop(m, i, slot) ==
  /\ mode = "calendar" /\ Present(view, i) /\ slot # view[i].slot
  /\ muts[m] = Idle
  /\ ops < MaxOps /\ ops' = ops + 1
  /\ view' = MovedIn(view, i, slot)
  /\ muts' = [Forgetting(Released, CardGone(MovedIn(view, i, slot))) EXCEPT
                ![m] = [Mutation("move", i, slot) EXCEPT !.previous = view]]
  /\ fetch' = FetchAfterDrop
  /\ unsure' = TRUE
  /\ UNCHANGED <<server, failed, mode, missed, faults>>
-----------------------------------------------------------------------------
(* The server's side.  A regenerate keeps what is marked, and its new rows *)
(* have new ids.                                                           *)
Unused(i) == /\ ~Present(server, i) /\ ~Present(view, i)
             /\ \A m \in Mutations : Outstanding(m) => muts[m].item # i

NewPlans(kept) ==
  {[i \in Items |-> IF i \in DOMAIN kept THEN kept[i]
                    ELSE IF i \in used THEN [slot |-> slot, mark |-> FALSE] ELSE Absent] :
     used \in SUBSET {i \in Items : Unused(i)}, slot \in Slots}

Effects(q) ==
  CASE q.kind = "regenerate" ->
         NewPlans([i \in {j \in Items : Present(server, j) /\ server[j].mark} |-> server[i]])
    [] q.kind = "generate" -> NewPlans(<<>>)
    [] q.kind = "move" -> {MovedIn(server, q.item, q.to)}
    [] q.kind = "remove" -> {[server EXCEPT ![q.item] = Absent]}
    [] OTHER -> {[server EXCEPT ![q.item].mark = q.to]}

Gone(q) == q.item # NoItem /\ ~Present(server, q.item)

Answered(m, at) == muts' = [muts EXCEPT ![m].at = at]

Accept(m) ==
  /\ Outstanding(m) /\ muts[m].at = "sent" /\ ~Gone(muts[m])
  /\ server' \in Effects(muts[m])
  /\ Answered(m, "done")
  /\ UNCHANGED <<view, fetch, failed, mode, unsure, missed, ops, faults>>

(* 404 for an item that is gone, 422 for a slot in the past or a title     *)
(* that may not be swapped in.                                             *)
Refuse(m) ==
  /\ Outstanding(m) /\ muts[m].at = "sent"
  /\ Gone(muts[m]) \/ muts[m].kind \in {"move", "swap"}
  /\ Answered(m, "refused")
  /\ UNCHANGED <<server, view, fetch, failed, mode, unsure, missed, ops, faults>>

(* The request, or the answer to it, is lost: the client takes both for a  *)
(* refusal.                                                                *)
Lose(m) ==
  /\ Outstanding(m) /\ muts[m].at \in {"sent", "done"}
  /\ faults < MaxFaults /\ faults' = faults + 1
  /\ Answered(m, "refused")
  /\ UNCHANGED <<server, view, fetch, failed, mode, unsure, missed, ops>>

(* onError, which rolls a move back to the snapshot taken before it, and   *)
(* onSettled, which asks for the guide anew: in place of a fetch in        *)
(* flight, or, as long as there is no data, by joining it, were its answer *)
(* on the way already.  The card and the board stay pending until that is  *)
(* answered, since they return its promise.                                *)
WaitsForNothing(q) == FALSE   \* onSettled in braces

WaitsForRefetch(q) == q.kind \in {"toggle", "remove", "swap"}

Joins == fetch # Idle /\ view \in {NoData, NoGuide}

Settle(m) ==
  /\ Outstanding(m) /\ muts[m].at \in {"done", "refused"}
  /\ LET q == muts[m]
         left == IF WaitsForRefetch(q) THEN [q EXCEPT !.at = "refetching"] ELSE Idle
     IN  /\ view' = IF q.kind = "move" /\ q.at = "refused" THEN q.previous ELSE view
         /\ muts' = Forgetting(Forgetting([muts EXCEPT ![m] = left], FormGone), CardGone(view'))
         /\ unsure' = (unsure \/ q.kind \notin {"toggle", "remove", "swap"})
  /\ fetch' = IF Joins THEN fetch ELSE [Asked(0) EXCEPT !.after = Moves \ {m}]
  /\ missed' = (Joins /\ fetch.at = "answered")
  /\ UNCHANGED <<server, failed, mode, ops, faults>>
-----------------------------------------------------------------------------
Init ==
  /\ server \in FirstGuides
  /\ view = NoData /\ failed = FALSE
  /\ muts = [m \in Mutations |-> Idle]
  /\ fetch = Asked(0)
  /\ mode = "calendar" /\ unsure = FALSE /\ missed = FALSE /\ ops = 0 /\ faults = 0

User(m) ==
  \/ Regenerate(m) \/ Generate(m)
  \/ \E i \in Items : CardAction(m, i) \/ Swap(m, i) \/ \E s \in Slots : Drop(m, i, s)

Respond(m) == Accept(m) \/ Refuse(m)

Next ==
  \/ \E m \in Mutations : User(m) \/ Respond(m) \/ Lose(m) \/ Settle(m)
  \/ Switch \/ Refocus \/ FetchReads \/ FetchArrives \/ FetchFails

(* Requests are answered and answers handled; nobody has to do anything.   *)
Fairness ==
  /\ WF_vars(FetchReads) /\ WF_vars(FetchArrives)
  /\ \A m \in Mutations : WF_vars(Respond(m)) /\ WF_vars(Settle(m))

Spec == Init /\ [][Next]_vars /\ Fairness
-----------------------------------------------------------------------------
(* Types; and whoever waits for a refetch has one under way, or it would   *)
(* wait for ever.                                                          *)
TypeOK ==
  /\ server \in Documents /\ view \in Documents \cup {NoData}
  /\ fetch \in FetchType \cup {Idle}
  /\ muts \in [Mutations -> MutationType \cup {Idle}]
  /\ \A m \in Mutations : Outstanding(m) /\ muts[m].at = "refetching" => fetch # Idle
  /\ failed \in BOOLEAN /\ unsure \in BOOLEAN /\ missed \in BOOLEAN
  /\ mode \in {"calendar", "board"}
  /\ ops \in 0..MaxOps /\ faults \in 0..MaxFaults

(* The cached guide is a replica of the server's: with nothing outstanding *)
(* and the last fetch a success it is the server's, whatever was rolled    *)
(* back, overtaken, lost or cancelled before; and that is reached, since   *)
(* two retries are enough for two losses (GuideBody.tsx:98).  Only what is *)
(* generated while a fetch without data has its answer on the way already  *)
(* may be missed, until the page asks again (GenerateBar.tsx:51).          *)
Replicated == INSTANCE Replica WITH
  Documents <- Documents, Copies <- Documents \cup {NoData},
  truth <- server, copy <- view,
  open <- fetch # Idle \/ failed \/ \E m \in Mutations : Outstanding(m)

GuideReplicated == Replicated!Spec

(* A dropped card stays where it was put until its PATCH is settled: no    *)
(* answer to a question asked before the drop takes it back, only the      *)
(* rollback of another move, or an answer to a later question              *)
(* (useGuideItemDrag.ts:59).                                               *)
DropStays ==
  [][\A m \in Moves \cap Moves' :
       LET q == muts[m]
           In(doc) == Present(doc, q.item) /\ doc[q.item].slot = q.to
       IN  In(view) /\ ~In(view') =>
             \/ FetchArrives /\ m \in fetch.after
             \/ \E n \in Mutations \ {m} :
                  \/ Settle(n) /\ muts[n].kind = "move" /\ muts[n].at = "refused"
                  \/ \E s \in Slots : Drop(n, q.item, s)]_vars

(* A card or a board that takes a click shows what the server holds of the *)
(* item, so that nothing is decided on a state that an earlier click has   *)
(* changed, as long as nobody drags, regenerates or loses the refetch:     *)
(* these do not wait for it, and a drop ends the wait of others            *)
(* (useGuideItemMutations.ts:37).  An earlier click does not count if what *)
(* was clicked has been unmounted since: by a change between calendar and  *)
(* board, or of the card's column.                                         *)
TakesClick(i) ==
  /\ Present(view, i)
  /\ IF mode = "calendar" THEN ~Busy(OfCard, i) ELSE ~Busy(OfBoard, NoItem)

EnabledShowsStored ==
  ~unsure =>
    \A i \in Items :
      /\ TakesClick(i)
      /\ \A m \in Mutations : Outstanding(m) =>
           muts[m].kind \in OfCard \cup OfBoard /\ (muts[m].item = i => muts[m].held)
      => view[i] = server[i]
=============================================================================
