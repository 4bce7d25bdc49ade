---------------------------- MODULE Guides_proofs ----------------------------
(***************************************************************************)
(* Theorems about Guides, for every calendar, set of titles, set of PATCH  *)
(* bodies, number of requests in flight and engine within the contract.    *)
(***************************************************************************)
EXTENDS Guides, TLAPS

(* The rows of a stored item are where the inserted row was.               *)
SamePlace(i, j) == i.date = j.date /\ i.start = j.start /\ i.end = j.end /\ i.title = j.title

LEMMA CompatibleSymmetric ==
  ASSUME NEW a, NEW b, Compatible(a, b)
  PROVE  Compatible(b, a)
BY DEF Compatible, Overlap

LEMMA CompatibleByPlace ==
  ASSUME NEW a, NEW b, NEW c, NEW d,
         SamePlace(a, b), SamePlace(c, d), Compatible(b, d)
  PROVE  Compatible(a, c)
BY DEF SamePlace, Compatible, Overlap

LEMMA StoredPlace ==
  ASSUME NEW g, NEW row
  PROVE  SamePlace(Stored(g, row), row)
BY DEF SamePlace, Stored

LEMMA StoredType ==
  ASSUME NEW g \in Nat, NEW row \in RowType
  PROVE  Stored(g, row) \in ItemType
BY DEF Stored, RowType, ItemType

(* What an insertion leaves at each id.                                    *)
LEMMA InsertAt ==
  ASSUME NEW survivors, NEW g, NEW tag, NEW rows, NEW k
  PROVE  /\ k \in DOMAIN Insert(survivors, g, tag, rows)
               <=> k \in survivors \/ k \in Batch(tag, rows)
         /\ k \in Batch(tag, rows) =>
              /\ k[1] = tag /\ k[2] \in rows /\ k = <<tag, k[2]>>
              /\ Insert(survivors, g, tag, rows)[k] = Stored(g, k[2])
         /\ k \in survivors /\ k \notin Batch(tag, rows) =>
              Insert(survivors, g, tag, rows)[k] = items[k]
<1>1. \A l \in Batch(tag, rows) : l[1] = tag /\ l[2] \in rows /\ l = <<tag, l[2]>>
  BY DEF Batch
<1> QED BY <1>1 DEF Insert

LEMMA InsertType ==
  ASSUME TypeOK, NEW survivors \in SUBSET DOMAIN items, NEW g \in Nat, NEW tag,
         NEW rows \in Plans
  PROVE  Insert(survivors, g, tag, rows) \in
            [DOMAIN Insert(survivors, g, tag, rows) -> ItemType]
<1>1. ASSUME NEW k \in DOMAIN Insert(survivors, g, tag, rows)
      PROVE  Insert(survivors, g, tag, rows)[k] \in ItemType
  <2>1. CASE k \in Batch(tag, rows)
    <3>1. k[2] \in RowType /\ Insert(survivors, g, tag, rows)[k] = Stored(g, k[2])
      BY <2>1, InsertAt, PlansAssumption
    <3> QED BY <3>1, StoredType
  <2>2. CASE k \in survivors /\ k \notin Batch(tag, rows)
    BY <2>2, InsertAt DEF TypeOK
  <2> QED BY <2>1, <2>2, InsertAt
<1> QED BY <1>1 DEF Insert

(* An edited item keeps the item type.                                     *)
LEMMA UpdatedType ==
  ASSUME NEW i \in ItemType, NEW b \in Edits
  PROVE  Updated(i, b) \in ItemType
<1>1. b \in EditType
  BY EditsAssumption
<1>2. /\ Or(b.date, i.date) \in Dates
      /\ Or(b.start, i.start) \in Int
      /\ Or(b.title, i.title) \in Titles
      /\ Or(b.pinned, i.pinned) \in BOOLEAN
  BY <1>1 DEF EditType, ItemType, Or
<1>3. (IF b.title = Unset THEN i.end - i.start ELSE Runtime[b.title]) \in Int
  BY <1>1, RuntimeAssumption DEF EditType, ItemType
<1>4. (i.edited \/ Moves(b) \/ b.title # Unset) \in BOOLEAN
  BY DEF ItemType, Moves
<1>5. Or(b.start, i.start)
        + (IF b.title = Unset THEN i.end - i.start ELSE Runtime[b.title]) \in Int
  BY <1>2, <1>3
<1> QED BY <1>2, <1>4, <1>5 DEF Updated, ItemType
-----------------------------------------------------------------------------
(* Requests in flight keep their types when ids are handed out.            *)
LEMMA RequestsStillTyped ==
  ASSUME TypeOK, stamp' \in Nat, stamp <= stamp', NEW r \in Requests,
         reqs'[r] = reqs[r]
  PROVE  RequestOK(reqs[r])'
<1>1. 0..stamp - 1 \subseteq 0..stamp' - 1
  BY DEF TypeOK
<1>2. CASE reqs[r] = Idle
  BY <1>2 DEF RequestOK
<1>3. CASE CreateOK(reqs[r])
  BY <1>1, <1>3 DEF RequestOK, CreateOK
<1>4. CASE RegenerateOK(reqs[r])
  BY <1>1, <1>4 DEF RequestOK, RegenerateOK
<1>5. CASE PatchOK(reqs[r])
  BY <1>5 DEF RequestOK, PatchOK
<1> QED BY <1>2, <1>3, <1>4, <1>5 DEF TypeOK, RequestOK

LEMMA TypeStep ==
  ASSUME TypeOK, [Next]_vars
  PROVE  TypeOK'
<1>1. ASSUME NEW r \in Requests, NEW s \in Dates, NEW e \in Dates, StartCreate(r, s, e)
      PROVE  TypeOK'
  <2>1. stamp' = stamp + 1 /\ UNCHANGED <<today, guides, items>>
    BY <1>1 DEF StartCreate
  <2>2. PICK rows \in Plans : reqs' = [reqs EXCEPT ![r] =
            [op |-> "create", tag |-> stamp, start |-> s, end |-> e, rows |-> rows,
             doomed |-> Overlapping(s, e)]]
    BY <1>1 DEF StartCreate
  <2>3. Overlapping(s, e) \subseteq 0..stamp' - 1
    BY <2>1 DEF Overlapping, TypeOK
  <2>4. CreateOK(reqs[r])'
    BY <2>1, <2>2, <2>3 DEF CreateOK, TypeOK
  <2>5. ASSUME NEW p \in Requests \ {r}
        PROVE  RequestOK(reqs[p])'
    BY <2>1, <2>2, RequestsStillTyped DEF TypeOK
  <2> QED BY <2>1, <2>2, <2>4, <2>5 DEF TypeOK, RequestOK
<1>2. ASSUME NEW r \in Requests, NEW g \in DOMAIN guides, StartRegenerate(r, g)
      PROVE  TypeOK'
  <2> DEFINE seen == [k \in {i \in DOMAIN items : items[i].guide = g} |-> items[k]]
  <2>1. stamp' = stamp + 1 /\ UNCHANGED <<today, guides, items>>
    BY <1>2 DEF StartRegenerate
  <2>2. PICK rows \in Plans : reqs' = [reqs EXCEPT ![r] =
               [op |-> "regenerate", tag |-> stamp, guide |-> g, today |-> today,
                seen |-> seen, rows |-> rows]]
    BY <1>2 DEF StartRegenerate
  <2>3. seen \in [DOMAIN seen -> ItemType]
    BY DEF TypeOK
  <2> HIDE DEF seen
  <2>4. RegenerateOK(reqs[r])'
    BY <2>1, <2>2, <2>3 DEF RegenerateOK, TypeOK
  <2>5. ASSUME NEW p \in Requests \ {r}
        PROVE  RequestOK(reqs[p])'
    BY <2>1, <2>2, RequestsStillTyped DEF TypeOK
  <2> QED BY <2>1, <2>2, <2>4, <2>5 DEF TypeOK, RequestOK
<1>3. ASSUME NEW r \in Requests, FinishCreate(r)
      PROVE  TypeOK'
  <2>1. CreateOK(reqs[r])
    BY <1>3 DEF FinishCreate, TypeOK, RequestOK, RegenerateOK, PatchOK, Idle
  <2>2. /\ guides' = [g \in (DOMAIN guides \ reqs[r].doomed) \cup {reqs[r].tag} |->
                        IF g = reqs[r].tag
                        THEN [start |-> reqs[r].start, end |-> reqs[r].end]
                        ELSE guides[g]]
        /\ items' = Insert({k \in DOMAIN items : items[k].guide \notin reqs[r].doomed},
                           reqs[r].tag, reqs[r].tag, reqs[r].rows)
        /\ reqs' = [reqs EXCEPT ![r] = Idle]
        /\ UNCHANGED <<today, stamp>>
    BY <1>3 DEF FinishCreate
  <2>3. /\ DOMAIN guides' \subseteq 0..stamp - 1
        /\ \A g \in DOMAIN guides' : guides'[g].start \in Dates /\ guides'[g].end \in Dates
    BY <2>1, <2>2 DEF CreateOK, TypeOK
  <2>4. items' \in [DOMAIN items' -> ItemType]
    <3>1. reqs[r].tag \in Nat /\ reqs[r].rows \in Plans
      BY <2>1 DEF CreateOK, TypeOK
    <3> QED BY <3>1, <2>2, InsertType
  <2>5. ASSUME NEW p \in Requests
        PROVE  RequestOK(reqs[p])'
    BY <2>2, RequestsStillTyped DEF TypeOK, RequestOK
  <2> QED BY <2>2, <2>3, <2>4, <2>5 DEF TypeOK
<1>4. ASSUME NEW r \in Requests, FinishRegenerate(r)
      PROVE  TypeOK'
  <2>1. RegenerateOK(reqs[r])
    BY <1>4 DEF FinishRegenerate, StillOwned, TypeOK, RequestOK, CreateOK, PatchOK, Idle
  <2>2. reqs' = [reqs EXCEPT ![r] = Idle] /\ UNCHANGED <<today, guides, stamp>>
    BY <1>4 DEF FinishRegenerate, StillOwned
  <2>3. items' \in [DOMAIN items' -> ItemType]
    <3>1. reqs[r].guide \in Nat /\ reqs[r].rows \in Plans
      BY <2>1 DEF RegenerateOK, TypeOK
    <3>2. CASE reqs[r].guide \in DOMAIN guides
      <4> DEFINE kept == Survivors(reqs[r])
      <4>1. items' = Insert(kept, reqs[r].guide, reqs[r].tag, reqs[r].rows)
        BY <1>4, <3>2 DEF FinishRegenerate, StillOwned
      <4>2. kept \in SUBSET DOMAIN items
        BY DEF Survivors
      <4> HIDE DEF kept
      <4> QED BY <3>1, <4>1, <4>2, InsertType
    <3>3. CASE reqs[r].guide \notin DOMAIN guides
      BY <1>4, <3>3 DEF FinishRegenerate, StillOwned, TypeOK
    <3> QED BY <3>2, <3>3
  <2>4. ASSUME NEW p \in Requests
        PROVE  RequestOK(reqs[p])'
    BY <2>2, RequestsStillTyped DEF TypeOK, RequestOK
  <2> QED BY <2>2, <2>3, <2>4 DEF TypeOK
<1>5. ASSUME NEW r \in Requests, Abandon(r)
      PROVE  TypeOK'
  <2>1. reqs' = [reqs EXCEPT ![r] = Idle] /\ UNCHANGED <<today, guides, items, stamp>>
    BY <1>5 DEF Abandon
  <2>2. ASSUME NEW p \in Requests
        PROVE  RequestOK(reqs[p])'
    BY <2>1, RequestsStillTyped DEF TypeOK, RequestOK
  <2> QED BY <2>1, <2>2 DEF TypeOK
<1>6. ASSUME UNCHANGED <<today, guides, reqs, stamp>>,
             items' \in [DOMAIN items' -> ItemType]
      PROVE  TypeOK'
  BY <1>6 DEF TypeOK, RequestOK, CreateOK, RegenerateOK, PatchOK
<1>7. ASSUME NEW r \in Requests, NEW k \in DOMAIN items, NEW b \in Edits, StartPatch(r, k, b)
      PROVE  TypeOK'
  <2>1. /\ UNCHANGED <<today, guides, items, stamp>>
        /\ reqs' = [reqs EXCEPT ![r] = [op |-> "patch", item |-> k, body |-> b, today |-> today]]
    BY <1>7 DEF StartPatch
  <2>2. PatchOK(reqs[r])'
    BY <2>1 DEF PatchOK, TypeOK
  <2>3. ASSUME NEW p \in Requests \ {r}
        PROVE  RequestOK(reqs[p])'
    BY <2>1, RequestsStillTyped DEF TypeOK
  <2> QED BY <2>1, <2>2, <2>3 DEF TypeOK, RequestOK
<1>12. ASSUME NEW r \in Requests, FinishPatch(r)
       PROVE  TypeOK'
  <2>1. PatchOK(reqs[r])
    BY <1>12 DEF FinishPatch, TypeOK, RequestOK, CreateOK, RegenerateOK, Idle
  <2>2. reqs' = [reqs EXCEPT ![r] = Idle] /\ UNCHANGED <<today, guides, stamp>>
    BY <1>12 DEF FinishPatch
  <2>3. items' \in [DOMAIN items' -> ItemType]
    <3>1. CASE /\ reqs[r].item \in DOMAIN items
               /\ items' = Patched(reqs[r].item, reqs[r].body)
      <4>1. Updated(items[reqs[r].item], reqs[r].body) \in ItemType
        BY <2>1, <3>1, UpdatedType DEF PatchOK, TypeOK
      <4> QED BY <3>1, <4>1 DEF Patched, TypeOK
    <3>2. CASE items' = items
      BY <3>2 DEF TypeOK
    <3> QED BY <1>12, <3>1, <3>2 DEF FinishPatch
  <2>4. ASSUME NEW p \in Requests
        PROVE  RequestOK(reqs[p])'
    BY <2>2, RequestsStillTyped DEF TypeOK, RequestOK
  <2> QED BY <2>2, <2>3, <2>4 DEF TypeOK
<1>8. ASSUME NEW k \in DOMAIN items, DeleteItem(k)
      PROVE  TypeOK'
  BY <1>6, <1>8 DEF DeleteItem, TypeOK
<1>9. ASSUME NEW k \in DOMAIN items, NEW w \in BOOLEAN, SetWatched(k, w)
      PROVE  TypeOK'
  BY <1>6, <1>9 DEF SetWatched, TypeOK, ItemType
<1>10. CASE Midnight
  BY <1>10, CalendarAssumption DEF Midnight, TypeOK, RequestOK, CreateOK, RegenerateOK, PatchOK
<1>11. CASE UNCHANGED vars
  BY <1>11 DEF vars, TypeOK, RequestOK, CreateOK, RegenerateOK, PatchOK
<1> QED
  BY <1>1, <1>2, <1>3, <1>4, <1>5, <1>7, <1>8, <1>9, <1>10, <1>11, <1>12
  DEF Next, Create, Regenerate, Finish, Patch, Delete, Watch, Unwatch, Drop

(* The tables and the requests in flight keep their types, whatever the    *)
(* handlers of httpserver/guides.go are asked and in whatever order.       *)
THEOREM TypeCorrect == Spec => []TypeOK
<1>1. Init => TypeOK
  BY CalendarAssumption DEF Init, TypeOK, RequestOK
<1> QED BY <1>1, TypeStep, PTL DEF Spec
-----------------------------------------------------------------------------
(* The inductive invariant behind the safety theorems.  A regenerate in    *)
(* flight remembers items as they were: what an unedited plan row of those *)
(* is now is what it was then, and the rows about to be inserted were      *)
(* planned around it.  Ids are never reused, so rows that arrive meanwhile *)
(* are never mistaken for remembered ones.                                 *)
(* guide_items' foreign key, which cascades: what is inserted later into a *)
(* guide never meets rows of an earlier one.                               *)
NoOrphans == \A k \in DOMAIN items : items[k].guide \in DOMAIN guides

Pending == {r \in Requests : reqs[r].op \in {"create", "regenerate"}}

PlanRows(q) == {n \in q.rows : n.plan}

RowsCompatible == \A r \in Pending : \A n, m \in PlanRows(reqs[r]) : n # m => Compatible(n, m)

TagsFresh ==
  /\ \A k \in DOMAIN items : k[1] \in 0..stamp - 1
  /\ \A r \in Pending : \A k \in DOMAIN items : k[1] # reqs[r].tag
  /\ \A r, s \in Pending : r # s => reqs[r].tag # reqs[s].tag
  /\ \A r \in Pending : reqs[r].op = "create" => reqs[r].tag \notin DOMAIN guides

Regenerating == {r \in Pending : reqs[r].op = "regenerate"}

SeenFresh ==
  \A r \in Regenerating : \A k \in DOMAIN reqs[r].seen :
     k[1] \in 0..stamp - 1 /\ \A s \in Pending : k[1] # reqs[s].tag

(* For one remembered item k of the request q. *)
SeenStill(q, k) ==
  /\ items[k].guide = q.guide
  /\ PlanUnedited(k) => q.seen[k].plan /\ SamePlace(items[k], q.seen[k])

PlannedAround(q) ==
  \A k \in KeepIDs(q.seen, q.today) : \A n \in PlanRows(q) :
     q.seen[k].plan => Compatible(n, q.seen[k])

SeenOK ==
  \A r \in Regenerating :
     /\ PlannedAround(reqs[r])
     /\ \A k \in DOMAIN items : k \in DOMAIN reqs[r].seen => SeenStill(reqs[r], k)

IInv == TypeOK /\ NoOrphans /\ RowsCompatible /\ TagsFresh /\ SeenFresh /\ SeenOK
          /\ UneditedCompatible

(* A PATCH that leaves an item unedited leaves it where it was.            *)
LEMMA UneditedByPin ==
  ASSUME NEW i \in ItemType, NEW b \in Edits
  PROVE  /\ Updated(i, b).guide = i.guide /\ Updated(i, b).plan = i.plan
         /\ ~Updated(i, b).edited => ~i.edited /\ SamePlace(Updated(i, b), i)
<1>1. b \in EditType
  BY EditsAssumption
<1>2. Updated(i, b).guide = i.guide /\ Updated(i, b).plan = i.plan
  BY DEF Updated, ItemType
<1>3. Updated(i, b).edited = (i.edited \/ Moves(b) \/ b.title # Unset)
  BY DEF Updated, ItemType
<1>4. ~Moves(b) /\ b.title = Unset => SamePlace(Updated(i, b), i)
  BY <1>1 DEF Updated, Moves, Or, SamePlace, ItemType
<1> QED BY <1>2, <1>3, <1>4

(* PATCHes, marks, deletes and midnight: no new item, and an item that is  *)
(* an unedited plan row was one before, in the same place.                 *)
LEMMA EditsKeepIInv ==
  ASSUME IInv, TypeOK', UNCHANGED <<guides, stamp>>, Pending' = Pending,
         \A r \in Pending : reqs'[r] = reqs[r],
         \A k \in DOMAIN items' :
            /\ k \in DOMAIN items
            /\ items'[k].guide = items[k].guide
            /\ PlanUnedited(k)' => PlanUnedited(k) /\ SamePlace(items'[k], items[k])
  PROVE  IInv'
<1>1. NoOrphans'
  BY DEF IInv, NoOrphans
<1>2. RowsCompatible'
  BY DEF IInv, RowsCompatible, PlanRows
<1>3. TagsFresh' /\ SeenFresh'
  BY DEF IInv, TagsFresh, SeenFresh, Regenerating
<1>4. SeenOK'
  <2>2. Regenerating' = Regenerating /\ \A r \in Regenerating : reqs'[r] = reqs[r]
    BY DEF Regenerating
  <2>1. ASSUME NEW r \in Regenerating, NEW k \in DOMAIN items', k \in DOMAIN reqs[r].seen
        PROVE  SeenStill(reqs[r], k)'
    <3>1. SeenStill(reqs[r], k)
      BY <2>1 DEF IInv, SeenOK
    <3> QED BY <2>1, <2>2, <3>1 DEF SeenStill, SamePlace
  <2>3. \A r \in Regenerating : PlannedAround(reqs[r])'
    BY <2>2 DEF IInv, SeenOK, PlannedAround, KeepIDs, Keeper, PlanRows
  <2> QED BY <2>1, <2>2, <2>3 DEF SeenOK
<1>5. UneditedCompatible'
  <2>1. ASSUME NEW k \in DOMAIN items', NEW l \in DOMAIN items', k # l,
               items'[k].guide = items'[l].guide, PlanUnedited(k)', PlanUnedited(l)'
        PROVE  Compatible(items'[k], items'[l])
    <3>1. Compatible(items[k], items[l])
      BY <2>1 DEF IInv, UneditedCompatible
    <3> QED BY <2>1, <3>1, CompatibleByPlace
  <2> QED BY <2>1 DEF UneditedCompatible
<1> QED BY <1>1, <1>2, <1>3, <1>4, <1>5 DEF IInv

(* A request is forgotten. *)
LEMMA ForgetKeepsIInv ==
  ASSUME IInv, TypeOK', NEW r \in Requests,
         reqs' = [reqs EXCEPT ![r] = Idle], UNCHANGED <<guides, items, stamp>>
  PROVE  IInv'
<1>1. DOMAIN reqs = Requests
  BY DEF IInv, TypeOK
<1>2. /\ Pending' = Pending \ {r} /\ Regenerating' = Regenerating \ {r}
      /\ \A p \in Pending' : reqs'[p] = reqs[p]
  BY <1>1 DEF Pending, Regenerating, Idle
<1>3. NoOrphans' /\ UneditedCompatible'
  BY <1>1 DEF IInv, NoOrphans, UneditedCompatible, PlanUnedited
<1>4. RowsCompatible'
  BY <1>1, <1>2 DEF IInv, RowsCompatible, PlanRows
<1>5. TagsFresh'
  BY <1>1, <1>2 DEF IInv, TagsFresh
<1>6. SeenFresh'
  BY <1>1, <1>2 DEF IInv, SeenFresh, Regenerating
<1>7. SeenOK'
  BY <1>1, <1>2 DEF IInv, SeenOK, Regenerating, SeenStill, PlannedAround, PlanRows,
                    KeepIDs, Keeper, PlanUnedited
<1> QED BY <1>3, <1>4, <1>5, <1>6, <1>7 DEF IInv

(* A request starts: its tag is new, and its rows fit together.            *)
LEMMA StartKeepsIInv ==
  ASSUME IInv, TypeOK', NEW r \in Requests, reqs[r] = Idle, NEW q,
         q.op = "create" \/ q.op = "regenerate",
         reqs' = [reqs EXCEPT ![r] = q], q.tag = stamp, stamp' = stamp + 1,
         UNCHANGED <<guides, items>>,
         \A n, m \in PlanRows(q) : n # m => Compatible(n, m),
         q.op = "regenerate" =>
           /\ PlannedAround(q)
           /\ \A k \in DOMAIN q.seen : k \in DOMAIN items /\ SeenStill(q, k)
  PROVE  IInv'
<1>1. /\ DOMAIN reqs = Requests /\ stamp \in Nat
      /\ Pending' = Pending \cup {r} /\ r \notin Pending
      /\ reqs'[r] = q /\ \A p \in Pending : p # r /\ reqs'[p] = reqs[p]
  BY DEF IInv, TypeOK, Pending, Idle
<1>2. \A p \in Regenerating' : p \in Regenerating \/ (p = r /\ q.op = "regenerate")
  BY <1>1 DEF Regenerating
<1>3. \A p \in Pending : reqs[p].tag \in 0..stamp - 1
  BY DEF IInv, TypeOK, RequestOK, Pending, CreateOK, RegenerateOK, PatchOK, Idle
<1>4. NoOrphans' /\ UneditedCompatible'
  BY DEF IInv, NoOrphans, UneditedCompatible, PlanUnedited
<1>5. RowsCompatible'
  BY <1>1 DEF IInv, RowsCompatible, PlanRows
<1>6. TagsFresh'
  <2>1. \A k \in DOMAIN items : k[1] \in 0..stamp - 1
    BY DEF IInv, TagsFresh
  <2>2. stamp \notin DOMAIN guides
    BY <1>1 DEF IInv, TypeOK
  <2> QED BY <1>1, <1>3, <2>1, <2>2 DEF IInv, TagsFresh
<1>7. SeenFresh'
  <2>1. ASSUME NEW p \in Regenerating', NEW k \in DOMAIN reqs'[p].seen
        PROVE  k[1] \in 0..stamp - 1 /\ \A o \in Pending : k[1] # reqs[o].tag
    <3>1. CASE p \in Regenerating
      BY <1>1, <2>1, <3>1 DEF IInv, SeenFresh, Regenerating
    <3>2. CASE p = r /\ q.op = "regenerate"
      BY <1>1, <2>1, <3>2 DEF IInv, TagsFresh
    <3> QED BY <1>2, <3>1, <3>2
  <2> QED BY <1>1, <2>1 DEF SeenFresh
<1>8. SeenOK'
  <2>1. ASSUME NEW p \in Regenerating'
        PROVE  /\ PlannedAround(reqs'[p])
               /\ \A k \in DOMAIN items :
                    k \in DOMAIN reqs'[p].seen => SeenStill(reqs'[p], k)
    <3>1. CASE p \in Regenerating
      BY <1>1, <3>1 DEF IInv, SeenOK, Regenerating
    <3>2. CASE p = r /\ q.op = "regenerate"
      BY <1>1, <3>2
    <3> QED BY <1>2, <3>1, <3>2
  <2> QED BY <2>1 DEF SeenOK, SeenStill, PlanUnedited, PlannedAround, KeepIDs, Keeper,
                      PlanRows
<1> QED BY <1>4, <1>5, <1>6, <1>7, <1>8 DEF IInv

(* A request commits: its batch joins the survivors, none of which is an   *)
(* unedited plan row of the same guide that the batch was not planned      *)
(* around.                                                                 *)
Commits(r, survivors, g) ==
  /\ reqs' = [reqs EXCEPT ![r] = Idle] /\ UNCHANGED stamp
  /\ \A k \in survivors : k \in DOMAIN items
  /\ items' = Insert(survivors, g, reqs[r].tag, reqs[r].rows)
  /\ \A p \in Pending \ {r} : reqs[p].op = "create" => reqs[p].tag \notin DOMAIN guides'
  /\ \A k \in survivors : items[k].guide = g /\ PlanUnedited(k) =>
        \A n \in PlanRows(reqs[r]) : Compatible(n, items[k])

LEMMA FinishKeepsIInv ==
  ASSUME IInv, TypeOK', NoOrphans', NEW r \in Pending, NEW survivors, NEW g,
         Commits(r, survivors, g)
  PROVE  IInv'
<1> SUFFICES
      ASSUME reqs' = [reqs EXCEPT ![r] = Idle], UNCHANGED stamp,
             \A k \in survivors : k \in DOMAIN items,
             items' = Insert(survivors, g, reqs[r].tag, reqs[r].rows),
             \A p \in Pending \ {r} :
               reqs[p].op = "create" => reqs[p].tag \notin DOMAIN guides',
             \A k \in survivors : items[k].guide = g /\ PlanUnedited(k) =>
               \A n \in PlanRows(reqs[r]) : Compatible(n, items[k])
      PROVE  IInv'
  BY DEF Commits
<1> DEFINE tag == reqs[r].tag  rows == reqs[r].rows
<1>1. /\ Pending' = Pending \ {r} /\ Regenerating' = Regenerating \ {r}
      /\ \A p \in Pending' : reqs'[p] = reqs[p] /\ p \in Pending
  BY DEF Pending, Regenerating, IInv, TypeOK, Idle
<1>2. tag \in 0..stamp - 1
  BY DEF IInv, TypeOK, RequestOK, Pending, CreateOK, RegenerateOK, PatchOK, Idle
<1>3. ASSUME NEW k \in DOMAIN items'
      PROVE  \/ k \in survivors /\ k[1] # tag /\ items'[k] = items[k]
             \/ k = <<tag, k[2]>> /\ k[1] = tag /\ k[2] \in rows
                /\ items'[k] = Stored(g, k[2])
  <2>1. k \in survivors => k[1] # tag
    BY DEF IInv, TagsFresh
  <2> QED BY <1>3, <2>1, InsertAt
<1> HIDE DEF tag, rows
<1>4. RowsCompatible'
  BY <1>1 DEF IInv, RowsCompatible, PlanRows
<1>5. TagsFresh'
  <2>1. \A k \in DOMAIN items' : k[1] \in 0..stamp - 1
    BY <1>2, <1>3 DEF IInv, TagsFresh
  <2>2. \A p \in Pending' : \A k \in DOMAIN items' : k[1] # reqs'[p].tag
    BY <1>1, <1>3 DEF IInv, TagsFresh, tag
  <2> QED BY <1>1, <2>1, <2>2 DEF IInv, TagsFresh
<1>6. SeenFresh'
  BY <1>1 DEF IInv, SeenFresh, Regenerating
<1>7. SeenOK'
  <2>1. ASSUME NEW p \in Regenerating', NEW k \in DOMAIN items', k \in DOMAIN reqs[p].seen
        PROVE  SeenStill(reqs[p], k)'
    <3>1. k[1] # tag
      BY <1>1, <2>1 DEF IInv, SeenFresh, tag
    <3>2. k \in DOMAIN items /\ items'[k] = items[k]
      BY <1>3, <3>1
    <3>3. SeenStill(reqs[p], k)
      BY <1>1, <2>1, <3>2 DEF IInv, SeenOK
    <3> QED BY <3>2, <3>3, <1>1 DEF SeenStill, PlanUnedited, Regenerating
  <2>2. \A p \in Regenerating' : PlannedAround(reqs'[p])
    BY <1>1 DEF IInv, SeenOK, Regenerating
  <2> QED BY <1>1, <2>1, <2>2 DEF SeenOK, SeenStill, PlannedAround, KeepIDs, Keeper,
                                  PlanRows, PlanUnedited, Regenerating
<1>8. UneditedCompatible'
  <2> SUFFICES ASSUME NEW k \in DOMAIN items', NEW l \in DOMAIN items', k # l,
                      items'[k].guide = items'[l].guide, PlanUnedited(k)', PlanUnedited(l)'
               PROVE  Compatible(items'[k], items'[l])
    BY DEF UneditedCompatible
  <2>1. ASSUME NEW i, NEW j \in survivors, i = <<tag, i[2]>>, i[2] \in rows,
               Stored(g, i[2]).guide = items[j].guide, Stored(g, i[2]).plan, PlanUnedited(j)
        PROVE  Compatible(Stored(g, i[2]), items[j])
    <3>1. items[j].guide = g /\ i[2] \in PlanRows(reqs[r])
      BY <2>1 DEF Stored, PlanRows, rows
    <3>2. Compatible(i[2], items[j])
      BY <2>1, <3>1
    <3>3. SamePlace(items[j], items[j]) /\ SamePlace(Stored(g, i[2]), i[2])
      BY StoredPlace DEF SamePlace
    <3> QED BY <3>2, <3>3, CompatibleByPlace
  <2>2. CASE k \in survivors /\ items'[k] = items[k] /\ l \in survivors /\ items'[l] = items[l]
    BY <2>2 DEF IInv, UneditedCompatible, PlanUnedited
  <2>3. CASE /\ k = <<tag, k[2]>> /\ k[2] \in rows /\ items'[k] = Stored(g, k[2])
             /\ l \in survivors /\ items'[l] = items[l]
    BY <2>1, <2>3 DEF PlanUnedited
  <2>4. CASE /\ l = <<tag, l[2]>> /\ l[2] \in rows /\ items'[l] = Stored(g, l[2])
             /\ k \in survivors /\ items'[k] = items[k]
    <3>1. Compatible(items'[l], items'[k])
      BY <2>1, <2>4 DEF PlanUnedited
    <3> QED BY <3>1, CompatibleSymmetric
  <2>5. CASE /\ k = <<tag, k[2]>> /\ k[2] \in rows /\ items'[k] = Stored(g, k[2])
             /\ l = <<tag, l[2]>> /\ l[2] \in rows /\ items'[l] = Stored(g, l[2])
    <3>1. k[2] # l[2] /\ k[2] \in PlanRows(reqs[r]) /\ l[2] \in PlanRows(reqs[r])
      BY <2>5 DEF PlanUnedited, Stored, PlanRows, rows
    <3>2. Compatible(k[2], l[2])
      BY <3>1 DEF IInv, RowsCompatible
    <3>3. SamePlace(items'[k], k[2]) /\ SamePlace(items'[l], l[2])
      BY <2>5, StoredPlace
    <3> QED BY <3>2, <3>3, CompatibleByPlace
  <2> QED BY <1>3, <2>2, <2>3, <2>4, <2>5
<1> QED BY <1>4, <1>5, <1>6, <1>7, <1>8 DEF IInv

LEMMA IInvStep ==
  ASSUME IInv, [Next]_vars
  PROVE  IInv'
<1>0. TypeOK /\ TypeOK'
  BY TypeStep DEF IInv
<1>1. ASSUME NEW r \in Requests, NEW s \in Dates, NEW e \in Dates, StartCreate(r, s, e)
      PROVE  IInv'
  <2>1. PICK rows \in Plans :
           /\ Generates(rows, {}, [d \in s..e |-> Windows[d]])
           /\ reqs' = [reqs EXCEPT ![r] =
                [op |-> "create", tag |-> stamp, start |-> s, end |-> e, rows |-> rows,
                 doomed |-> Overlapping(s, e)]]
    BY <1>1 DEF StartCreate
  <2> DEFINE q == [op |-> "create", tag |-> stamp, start |-> s, end |-> e, rows |-> rows,
                   doomed |-> Overlapping(s, e)]
  <2>2. \A n, m \in PlanRows(q) : n # m => Compatible(n, m)
    BY <2>1 DEF Generates, Generation, WellPlaced, PlanRows
  <2>3. (q.op = "create" \/ q.op = "regenerate") /\ q.op # "regenerate" /\ q.tag = stamp
        /\ reqs' = [reqs EXCEPT ![r] = q]
    BY <2>1
  <2>4. reqs[r] = Idle /\ stamp' = stamp + 1 /\ UNCHANGED <<guides, items>>
    BY <1>1 DEF StartCreate
  <2> HIDE DEF q
  <2> QED BY <1>0, <2>2, <2>3, <2>4, StartKeepsIInv
<1>2. ASSUME NEW r \in Requests, NEW g \in DOMAIN guides, StartRegenerate(r, g)
      PROVE  IInv'
  <2> DEFINE seen == [k \in {i \in DOMAIN items : items[i].guide = g} |-> items[k]]
  <2>1. PICK rows \in Plans :
           /\ Generates(rows, {seen[k] : k \in KeepIDs(seen, today)}, OpenNights(g, today))
           /\ reqs' = [reqs EXCEPT ![r] =
                [op |-> "regenerate", tag |-> stamp, guide |-> g, today |-> today,
                 seen |-> seen, rows |-> rows]]
    BY <1>2 DEF StartRegenerate
  <2> DEFINE q == [op |-> "regenerate", tag |-> stamp, guide |-> g, today |-> today,
                   seen |-> seen, rows |-> rows]
  <2>2. \A n, m \in PlanRows(q) : n # m => Compatible(n, m)
    BY <2>1 DEF Generates, Generation, WellPlaced, PlanRows
  <2>3. PlannedAround(q)
    BY <2>1 DEF Generates, Generation, WellPlaced, PlanRows, PlannedAround
  <2>4. \A k \in DOMAIN q.seen : k \in DOMAIN items /\ SeenStill(q, k)
    BY DEF SeenStill, SamePlace, PlanUnedited
  <2>5. (q.op = "create" \/ q.op = "regenerate") /\ q.tag = stamp /\ reqs' = [reqs EXCEPT ![r] = q]
    BY <2>1
  <2>6. reqs[r] = Idle /\ stamp' = stamp + 1 /\ UNCHANGED <<guides, items>>
    BY <1>2 DEF StartRegenerate
  <2> HIDE DEF q
  <2> QED BY <1>0, <2>2, <2>3, <2>4, <2>5, <2>6, StartKeepsIInv
<1>3. ASSUME NEW r \in Requests, FinishCreate(r)
      PROVE  IInv'
  <2> DEFINE kept == {k \in DOMAIN items : items[k].guide \notin reqs[r].doomed}
  <2>1. /\ reqs[r] # Idle /\ reqs[r].op = "create" /\ UNCHANGED stamp
        /\ DOMAIN guides' = (DOMAIN guides \ reqs[r].doomed) \cup {reqs[r].tag}
        /\ items' = Insert(kept, reqs[r].tag, reqs[r].tag, reqs[r].rows)
        /\ reqs' = [reqs EXCEPT ![r] = Idle]
    BY <1>3 DEF FinishCreate, Idle
  <2>2. r \in Pending /\ reqs[r].tag \notin DOMAIN guides
    BY <2>1 DEF IInv, TagsFresh, Pending
  <2>3. \A k \in kept : items[k].guide \in DOMAIN guides /\ items[k].guide # reqs[r].tag
    BY <2>2 DEF IInv, NoOrphans
  <2>4. \A k \in kept : items[k].guide \in DOMAIN guides'
    BY <2>1, <2>3
  <2>5. \A p \in Pending \ {r} : reqs[p].op = "create" => reqs[p].tag \notin DOMAIN guides'
    BY <2>1, <2>2 DEF IInv, TagsFresh
  <2>6. \A k \in kept : k \in DOMAIN items
    OBVIOUS
  <2> HIDE DEF kept
  <2>7. NoOrphans'
    <3>1. ASSUME NEW k \in DOMAIN items'
          PROVE  items'[k].guide \in DOMAIN guides'
      <4>1. CASE k \in Batch(reqs[r].tag, reqs[r].rows)
        <5>1. items'[k] = Stored(reqs[r].tag, k[2])
          BY <2>1, <4>1, InsertAt
        <5> QED BY <2>1, <5>1 DEF Stored
      <4>2. CASE k \in kept /\ k \notin Batch(reqs[r].tag, reqs[r].rows)
        BY <2>1, <2>4, <4>2, InsertAt
      <4> QED BY <2>1, <4>1, <4>2, InsertAt
    <3> QED BY <3>1 DEF NoOrphans
  <2>8. \A k \in kept : items[k].guide = reqs[r].tag /\ PlanUnedited(k) =>
          \A n \in PlanRows(reqs[r]) : Compatible(n, items[k])
    BY <2>3
  <2>9. Commits(r, kept, reqs[r].tag)
    BY <2>1, <2>5, <2>6, <2>8 DEF Commits
  <2> QED BY <1>0, <2>2, <2>7, <2>9, FinishKeepsIInv
<1>4. ASSUME NEW r \in Requests, FinishRegenerate(r)
      PROVE  IInv'
  <2> DEFINE q == reqs[r]  kept == Survivors(q)
  <2>1. /\ reqs[r] # Idle /\ reqs[r].op = "regenerate" /\ UNCHANGED <<guides, stamp>>
        /\ reqs' = [reqs EXCEPT ![r] = Idle]
    BY <1>4 DEF FinishRegenerate, StillOwned, Idle
  <2>2. CASE q.guide \notin DOMAIN guides
    <3>1. items' = items
      BY <1>4, <2>2 DEF FinishRegenerate, StillOwned
    <3> QED BY <1>0, <2>1, <3>1, ForgetKeepsIInv
  <2>3. CASE q.guide \in DOMAIN guides
    <3>1. items' = Insert(kept, q.guide, q.tag, q.rows)
      BY <1>4, <2>3 DEF FinishRegenerate, StillOwned
    <3>2. r \in Pending /\ r \in Regenerating
      BY <2>1 DEF Pending, Regenerating
    <3>3. ASSUME NEW k \in kept, items[k].guide = q.guide, PlanUnedited(k),
                 NEW n \in PlanRows(q)
          PROVE  Compatible(n, items[k])
      <4>1. k \in DOMAIN items /\ k \in KeepIDs(q.seen, q.today) /\ k \in DOMAIN q.seen
        BY <3>3 DEF Survivors, KeepIDs
      <4>2. q.seen[k].plan /\ SamePlace(items[k], q.seen[k])
        BY <3>2, <3>3, <4>1 DEF IInv, SeenOK, SeenStill
      <4>3. Compatible(n, q.seen[k])
        BY <3>2, <3>3, <4>1, <4>2 DEF IInv, SeenOK, PlannedAround
      <4> QED BY <4>2, <4>3, CompatibleByPlace DEF SamePlace
    <3>4. \A k \in kept : k \in DOMAIN items
      BY DEF Survivors
    <3> HIDE DEF kept
    <3>5. NoOrphans'
      <4>1. ASSUME NEW k \in DOMAIN items'
            PROVE  items'[k].guide \in DOMAIN guides
        <5>1. CASE k \in Batch(q.tag, q.rows)
          <6>1. items'[k] = Stored(q.guide, k[2])
            BY <3>1, <5>1, InsertAt
          <6> QED BY <2>3, <6>1 DEF Stored
        <5>2. CASE k \in kept /\ k \notin Batch(q.tag, q.rows)
          BY <3>1, <3>4, <5>2, InsertAt DEF IInv, NoOrphans
        <5> QED BY <3>1, <5>1, <5>2, InsertAt
      <4> QED BY <2>1, <4>1 DEF NoOrphans
    <3>6. \A p \in Pending \ {r} : reqs[p].op = "create" => reqs[p].tag \notin DOMAIN guides'
      BY <2>1 DEF IInv, TagsFresh
    <3>7. Commits(r, kept, q.guide)
      BY <2>1, <3>1, <3>3, <3>4, <3>6 DEF Commits
    <3> QED BY <1>0, <3>2, <3>5, <3>7, FinishKeepsIInv
  <2> QED BY <2>2, <2>3
<1>5. ASSUME NEW r \in Requests, Abandon(r)
      PROVE  IInv'
  BY <1>0, <1>5, ForgetKeepsIInv DEF Abandon
<1>6. ASSUME NEW r \in Requests, NEW k \in DOMAIN items, NEW b \in Edits, StartPatch(r, k, b)
      PROVE  IInv'
  <2>1. UNCHANGED <<guides, items, stamp>> /\ Pending' = Pending
        /\ \A p \in Pending : reqs'[p] = reqs[p]
    BY <1>0, <1>6 DEF StartPatch, Pending, TypeOK, Idle
  <2> QED BY <1>0, <2>1, EditsKeepIInv DEF PlanUnedited, SamePlace
<1>10. ASSUME NEW r \in Requests, FinishPatch(r)
       PROVE  IInv'
  <2> DEFINE q == reqs[r]
  <2>1. UNCHANGED <<guides, stamp>> /\ Pending' = Pending
        /\ \A p \in Pending : reqs'[p] = reqs[p]
    BY <1>0, <1>10 DEF FinishPatch, Pending, TypeOK, Idle
  <2>2. CASE items' = items
    BY <1>0, <2>1, <2>2, EditsKeepIInv DEF PlanUnedited, SamePlace
  <2>3. CASE q.item \in DOMAIN items /\ items' = Patched(q.item, q.body)
    <3>1. items[q.item] \in ItemType /\ q.body \in Edits
      BY <1>0, <1>10, <2>3 DEF FinishPatch, TypeOK, RequestOK, CreateOK, RegenerateOK,
                               PatchOK, Idle
    <3>2. /\ Updated(items[q.item], q.body).guide = items[q.item].guide
          /\ Updated(items[q.item], q.body).plan = items[q.item].plan
          /\ ~Updated(items[q.item], q.body).edited =>
               ~items[q.item].edited /\ SamePlace(Updated(items[q.item], q.body), items[q.item])
      BY <3>1, UneditedByPin
    <3>3. \A l \in DOMAIN items' :
             /\ l \in DOMAIN items
             /\ items'[l] = IF l = q.item THEN Updated(items[q.item], q.body) ELSE items[l]
      BY <2>3 DEF Patched
    <3> QED BY <1>0, <2>1, <3>2, <3>3, EditsKeepIInv DEF PlanUnedited, SamePlace
  <2> QED BY <1>10, <2>2, <2>3 DEF FinishPatch
<1>7. ASSUME NEW k \in DOMAIN items, DeleteItem(k)
      PROVE  IInv'
  BY <1>0, <1>7, EditsKeepIInv DEF DeleteItem, Pending, PlanUnedited, SamePlace
<1>8. ASSUME NEW k \in DOMAIN items, NEW w \in BOOLEAN, SetWatched(k, w)
      PROVE  IInv'
  <2>1. UNCHANGED <<guides, reqs, stamp>> /\ Pending' = Pending /\ DOMAIN items' = DOMAIN items
    BY <1>8 DEF SetWatched, Pending
  <2>2. \A l \in DOMAIN items : /\ items'[l].guide = items[l].guide
                                /\ items'[l].plan = items[l].plan
                                /\ items'[l].edited = items[l].edited
                                /\ SamePlace(items'[l], items[l])
    BY <1>0, <1>8 DEF SetWatched, TypeOK, ItemType, SamePlace
  <2> QED BY <1>0, <2>1, <2>2, EditsKeepIInv DEF PlanUnedited
<1>9. CASE Midnight \/ UNCHANGED vars
  BY <1>0, <1>9, EditsKeepIInv DEF Midnight, vars, Pending, PlanUnedited, SamePlace
<1> QED
  BY <1>1, <1>2, <1>3, <1>4, <1>5, <1>6, <1>7, <1>8, <1>9, <1>10
  DEF Next, Create, Regenerate, Finish, Patch, Delete, Watch, Unwatch, Drop

LEMMA IInvCorrect == Spec => []IInv
<1>1. Init => TypeOK
  BY CalendarAssumption DEF Init, TypeOK, RequestOK
<1>2. Init => IInv
  BY <1>1 DEF Init, IInv, NoOrphans, RowsCompatible, TagsFresh, SeenFresh, SeenOK, Pending,
              Regenerating, UneditedCompatible, Idle
<1> QED BY <1>2, IInvStep, PTL DEF Spec

(* Rows that the user has not edited stay what the engine promised, however *)
(* creates, regenerates (ReplaceUnkeptItems) and edits interleave.          *)
THEOREM UneditedStaysCompatible == Spec => []UneditedCompatible
<1>1. IInv => UneditedCompatible
  BY DEF IInv
<1> QED BY <1>1, IInvCorrect, PTL

(* A regenerate loses no item that was touched when it was asked for: in    *)
(* a step that loses one, either the user asked for the loss or the commit  *)
(* of the regenerate had not seen the touch.                                *)
THEOREM TouchedBeforeStays == Spec => TouchedBeforeIsKept
<1> DEFINE Excused(k) ==
      \/ AskedFor(k)
      \/ \E r \in Requests :
           /\ FinishRegenerate(r)
           /\ k \notin {l \in DOMAIN reqs[r].seen : Touched(reqs[r].seen[l])}
<1>1. ASSUME IInv, [Next]_vars, NEW k \in Lost
      PROVE  Excused(k)
  <2>0. k \in DOMAIN items /\ k \notin DOMAIN items'
    BY <1>1 DEF Lost
  <2>1. ASSUME NEW r \in Requests, FinishCreate(r)
        PROVE  items[k].guide \notin DOMAIN guides'
    <3> DEFINE kept == {i \in DOMAIN items : items[i].guide \notin reqs[r].doomed}
    <3>1. /\ reqs[r].op = "create" /\ r \in Pending
          /\ DOMAIN guides' = (DOMAIN guides \ reqs[r].doomed) \cup {reqs[r].tag}
          /\ items' = Insert(kept, reqs[r].tag, reqs[r].tag, reqs[r].rows)
      BY <2>1 DEF FinishCreate, Pending, Idle
    <3>2. items[k].guide # reqs[r].tag
      BY <1>1, <2>0, <3>1 DEF IInv, NoOrphans, TagsFresh
    <3>3. k \notin kept
      <4> HIDE DEF kept
      <4> QED BY <2>0, <3>1, InsertAt
    <3> QED BY <2>0, <3>1, <3>2, <3>3
  <2>2. ASSUME NEW r \in Requests, FinishRegenerate(r)
        PROVE  k \notin {l \in DOMAIN reqs[r].seen : Touched(reqs[r].seen[l])}
    <3> DEFINE q == reqs[r]  kept == Survivors(q)
    <3>1. items' = Insert(kept, q.guide, q.tag, q.rows)
      BY <2>0, <2>2 DEF FinishRegenerate, StillOwned
    <3>2. k \notin kept
      <4> HIDE DEF kept
      <4> QED BY <2>0, <3>1, InsertAt
    <3> QED BY <2>0, <3>2 DEF Survivors, KeepIDs, Keeper, Touched
  <2>3. ASSUME NEW r \in Requests, FinishPatch(r)
        PROVE  k \in Shadowed(reqs[r].item, reqs[r].body)
    BY <2>0, <2>3 DEF FinishPatch, Patched
  <2>4. ASSUME NEW l \in DOMAIN items, DeleteItem(l)
        PROVE  DeleteItem(k)
    BY <2>0, <2>4 DEF DeleteItem
  <2>5. DOMAIN items' # DOMAIN items
    BY <2>0
  <2>6. CASE Create \/ Regenerate \/ Patch \/ Watch \/ Unwatch \/ Drop \/ Midnight \/ UNCHANGED vars
    BY <2>5, <2>6 DEF Create, StartCreate, Regenerate, StartRegenerate, Patch, StartPatch,
                      Watch, Unwatch, SetWatched, Drop, Abandon, Midnight, vars
  <2>7. CASE Finish
    BY <2>1, <2>2, <2>3, <2>7 DEF Finish, AskedFor
  <2>9. CASE Delete
    BY <2>4, <2>9 DEF Delete, AskedFor
  <2> QED BY <1>1, <2>6, <2>7, <2>9 DEF Next
<1>2. IInv /\ [Next]_vars => [\A k \in Lost : Excused(k)]_vars
  BY <1>1
<1> QED BY <1>2, IInvCorrect, PTL DEF Spec, TouchedBeforeIsKept
-----------------------------------------------------------------------------
(* What keeps the past out of a regenerate's reach: none of its rows lies  *)
(* before the day on which it was asked for.                               *)
PastInv == \A r \in Regenerating : \A n \in reqs[r].rows : n.date >= reqs[r].today

(* The engine adds nothing to a night that is disabled.                    *)
LEMMA GeneratedNotPast ==
  ASSUME TypeOK, NEW g \in DOMAIN guides, NEW kept, NEW rows \in Plans,
         Generates(rows, kept, OpenNights(g, today)), NEW n \in rows
  PROVE  n.date >= today
<1> DEFINE nights == OpenNights(g, today)
<1>1. n \in RowType /\ n.date \in Int /\ today \in Int
  BY PlansAssumption, CalendarAssumption DEF RowType, TypeOK
<1>2. \A d \in DOMAIN nights : d < today => nights[d] = NightOff
  BY DEF OpenNights
<1> HIDE DEF nights
<1>3. CASE n.plan
  <2>1. n.date \in DOMAIN nights /\ nights[n.date] # NightOff
    BY <1>3 DEF Generates, Generation, WellPlaced, nights
  <2> QED BY <1>1, <1>2, <2>1
<1>4. CASE ~n.plan
  <2>1. n.date \in DOMAIN nights /\ n.end <= nights[n.date].end
    BY <1>4 DEF Generates, Generation, nights
  <2>2. n.end \in Nat \ {0}
    BY <1>1 DEF RowType
  <2>3. ASSUME n.date < today
        PROVE  FALSE
    <3>1. nights[n.date].end = 0
      BY <1>2, <2>1, <2>3 DEF NightOff
    <3> QED BY <2>1, <2>2, <3>1
  <2> QED BY <1>1, <2>3
<1> QED BY <1>3, <1>4

LEMMA PastInvStep ==
  ASSUME TypeOK, PastInv, [Next]_vars
  PROVE  PastInv'
(* The regenerates after this step were in flight before it.               *)
<1>1. ASSUME \A r \in Requests : reqs'[r] = reqs[r] \/ reqs'[r].op # "regenerate"
      PROVE  PastInv'
  BY <1>1 DEF PastInv, Regenerating, Pending
<1>2. ASSUME NEW r \in Requests, NEW g \in DOMAIN guides, StartRegenerate(r, g)
      PROVE  PastInv'
  <2> DEFINE seen == [k \in {i \in DOMAIN items : items[i].guide = g} |-> items[k]]
  <2>1. PICK rows \in Plans :
           /\ Generates(rows, {seen[k] : k \in KeepIDs(seen, today)}, OpenNights(g, today))
           /\ reqs' = [reqs EXCEPT ![r] =
                [op |-> "regenerate", tag |-> stamp, guide |-> g, today |-> today,
                 seen |-> seen, rows |-> rows]]
    BY <1>2 DEF StartRegenerate
  <2>2. \A n \in rows : n.date >= today
    BY <2>1, GeneratedNotPast
  <2> HIDE DEF seen
  <2>3. /\ \A p \in Requests \ {r} : reqs'[p] = reqs[p]
        /\ reqs'[r].today = today /\ reqs'[r].rows = rows
    BY <2>1 DEF TypeOK
  <2> QED BY <2>2, <2>3 DEF PastInv, Regenerating, Pending
<1>3. ASSUME NEW r \in Requests, NEW q, q.op # "regenerate", reqs' = [reqs EXCEPT ![r] = q]
      PROVE  PastInv'
  BY <1>1, <1>3 DEF TypeOK
<1>4. CASE Create
  <2>1. PICK r \in Requests, s \in Dates, e \in Dates : StartCreate(r, s, e)
    BY <1>4 DEF Create
  <2> QED BY <1>3, <2>1 DEF StartCreate
<1>5. CASE Patch
  <2>1. PICK r \in Requests, k \in DOMAIN items, b \in Edits : StartPatch(r, k, b)
    BY <1>5 DEF Patch
  <2> QED BY <1>3, <2>1 DEF StartPatch
<1>6. CASE Finish \/ Drop
  <2>1. PICK r \in Requests : reqs' = [reqs EXCEPT ![r] = Idle]
    BY <1>6 DEF Finish, FinishCreate, FinishRegenerate, FinishPatch, Drop, Abandon
  <2> QED BY <1>3, <2>1 DEF Idle
<1>7. CASE Delete \/ Watch \/ Unwatch \/ Midnight \/ UNCHANGED vars
  BY <1>1, <1>7 DEF Delete, DeleteItem, Watch, Unwatch, SetWatched, Midnight, vars
<1> QED BY <1>2, <1>4, <1>5, <1>6, <1>7 DEF Next, Regenerate

(* The past is immutable: no PATCH moves an item that was past when it was  *)
(* sent, or to before that day, and no regenerate removes an item it read   *)
(* as past or adds one before the day it was asked for, whatever midnights  *)
(* and other requests fall in between.                                      *)
THEOREM PastStays == Spec => PastIsImmutable
<1> DEFINE Moved(r, k) ==
             /\ FinishPatch(r) /\ reqs[r].item = k
             /\ items[k].date >= reqs[r].today /\ items'[k].date >= reqs[r].today
           Placed ==
             \A k \in DOMAIN items \cap DOMAIN items' :
                (items[k].date # items'[k].date \/ items[k].start # items'[k].start) =>
                   \E r \in Requests : Moved(r, k)
           Replaced(r) ==
             /\ \A k \in (DOMAIN items \cap DOMAIN reqs[r].seen) \ DOMAIN items' :
                   reqs[r].seen[k].date >= reqs[r].today
             /\ \A k \in DOMAIN items' \ DOMAIN items : items'[k].date >= reqs[r].today
<1>1. ASSUME IInv, [Next]_vars
      PROVE  Placed
  <2> SUFFICES ASSUME NEW k \in DOMAIN items, k \in DOMAIN items',
                      items[k].date # items'[k].date \/ items[k].start # items'[k].start
               PROVE  \E r \in Requests : Moved(r, k)
    OBVIOUS
  <2>0. items[k] \in ItemType /\ \A l \in DOMAIN items : items[l] \in ItemType
    BY <1>1 DEF IInv, TypeOK
  <2>1. ASSUME NEW r \in Pending, NEW survivors, NEW g,
               items' = Insert(survivors, g, reqs[r].tag, reqs[r].rows)
        PROVE  items'[k] = items[k]
    <3>1. k[1] # reqs[r].tag
      BY <1>1 DEF IInv, TagsFresh
    <3> QED BY <2>1, <3>1, InsertAt
  <2>2. ASSUME NEW r \in Requests, FinishCreate(r) \/ FinishRegenerate(r)
        PROVE  FALSE
    <3>1. r \in Pending
      BY <2>2 DEF FinishCreate, FinishRegenerate, Pending
    <3>2. CASE FinishCreate(r)
      BY <2>1, <3>1, <3>2 DEF FinishCreate
    <3>3. CASE FinishRegenerate(r)
      BY <2>1, <3>1, <3>3 DEF FinishRegenerate, StillOwned
    <3> QED BY <2>2, <3>2, <3>3
  <2>3. ASSUME NEW r \in Requests, FinishPatch(r)
        PROVE  Moved(r, k)
    <3> DEFINE q == reqs[r]
    <3>1. /\ q.item = k /\ items' = Patched(q.item, q.body)
          /\ MoveAllowed(items[q.item], q.body, q.today)
      BY <2>3 DEF FinishPatch, Patched
    <3>2. items'[k] = Updated(items[k], q.body)
      BY <3>1 DEF Patched
    <3>3. items'[k].date = Or(q.body.date, items[k].date)
          /\ items'[k].start = Or(q.body.start, items[k].start)
      BY <2>0, <3>2 DEF Updated, ItemType
    <3>4. Moves(q.body)
      BY <3>3 DEF Moves, Or
    <3>5. items[k].date >= q.today /\ Or(q.body.date, items[k].date) >= q.today
      BY <3>1, <3>4 DEF MoveAllowed, Or
    <3> QED BY <2>3, <3>1, <3>3, <3>5
  <2>4. ASSUME NEW l \in DOMAIN items, NEW w \in BOOLEAN, DeleteItem(l) \/ SetWatched(l, w)
        PROVE  FALSE
    <3>1. CASE DeleteItem(l)
      BY <3>1 DEF DeleteItem
    <3>2. CASE SetWatched(l, w)
      BY <2>0, <3>2 DEF SetWatched, ItemType
    <3> QED BY <2>4, <3>1, <3>2
  <2>5. ~(Create \/ Regenerate \/ Patch \/ Drop \/ Midnight \/ UNCHANGED vars)
    BY DEF Create, StartCreate, Regenerate, StartRegenerate, Patch, StartPatch, Drop, Abandon,
           Midnight, vars
  <2>6. PICK r \in Requests : FinishPatch(r)
    BY <1>1, <2>2, <2>4, <2>5 DEF Next, Finish, Delete, Watch, Unwatch
  <2>7. Moved(r, k)
    BY <2>3, <2>6
  <2> QED BY <2>7
<1>2. ASSUME IInv, PastInv, NEW r \in Requests, FinishRegenerate(r)
      PROVE  Replaced(r)
  <2> DEFINE q == reqs[r]  kept == Survivors(q)
  <2>1. r \in Regenerating /\ RegenerateOK(q)
    BY <1>2 DEF FinishRegenerate, StillOwned, Regenerating, Pending, Idle, IInv, TypeOK,
                RequestOK, CreateOK, PatchOK
  <2>2. CASE items' = items
    BY <2>2
  <2>3. CASE items' = Insert(kept, q.guide, q.tag, q.rows)
    <3>1. ASSUME NEW k \in DOMAIN items, k \in DOMAIN q.seen, k \notin DOMAIN items'
          PROVE  q.seen[k].date >= q.today
      <4>1. k \notin kept
        <5> HIDE DEF kept
        <5> QED BY <2>3, <3>1, InsertAt
      <4>2. ~(q.seen[k].date < q.today)
        BY <3>1, <4>1 DEF Survivors, KeepIDs, Keeper
      <4>3. q.seen[k].date \in Int /\ q.today \in Int
        BY <2>1, <3>1, CalendarAssumption DEF RegenerateOK, ItemType
      <4> QED BY <4>2, <4>3
    <3>2. ASSUME NEW k \in DOMAIN items', k \notin DOMAIN items
          PROVE  items'[k].date >= q.today
      <4>1. k \notin kept
        BY <3>2 DEF Survivors
      <4>2. k[2] \in q.rows /\ items'[k] = Stored(q.guide, k[2])
        <5> HIDE DEF kept
        <5> QED BY <2>3, <3>2, <4>1, InsertAt
      <4>3. items'[k].date = k[2].date
        BY <4>2 DEF Stored
      <4> QED BY <1>2, <2>1, <4>2, <4>3 DEF PastInv
    <3> QED BY <3>1, <3>2
  <2> QED BY <1>2, <2>2, <2>3 DEF FinishRegenerate, StillOwned
<1>3. Init => PastInv
  BY DEF Init, PastInv, Regenerating, Pending, Idle
<1>4. TypeOK /\ PastInv /\ [Next]_vars => PastInv'
  BY PastInvStep
<1>5. IInv => TypeOK
  BY DEF IInv
<1>6. IInv /\ PastInv /\ [Next]_vars =>
        [Placed /\ \A r \in Requests : FinishRegenerate(r) => Replaced(r)]_vars
  BY <1>1, <1>2
<1>7. [Placed /\ \A r \in Requests : FinishRegenerate(r) => Replaced(r)]_vars =>
        [/\ \A k \in DOMAIN items \cap DOMAIN items' :
              LET old == items[k]  new == items'[k] IN
              (old.date # new.date \/ old.start # new.start) =>
                 \E r \in Requests : /\ FinishPatch(r) /\ reqs[r].item = k
                                    /\ old.date >= reqs[r].today /\ new.date >= reqs[r].today
         /\ \A r \in Requests :
              FinishRegenerate(r) =>
                /\ \A k \in (DOMAIN items \cap DOMAIN reqs[r].seen) \ DOMAIN items' :
                      reqs[r].seen[k].date >= reqs[r].today
                /\ \A k \in DOMAIN items' \ DOMAIN items :
                      items'[k].date >= reqs[r].today]_vars
  OBVIOUS
<1> QED BY <1>3, <1>4, <1>5, <1>6, <1>7, IInvCorrect, PTL DEF Spec, PastIsImmutable
-----------------------------------------------------------------------------
(* One create at a time, beside any number of regenerates and edits, and   *)
(* the guides share no day: a create has seen every guide there is when it *)
(* commits, but for those of other creates.                                *)
OneCreate ==
  \A r, s \in Requests : reqs[r].op = "create" /\ reqs[s].op = "create" => r = s

Apart(g, s, e) == guides[g].end < s \/ e < guides[g].start

CreatesSee ==
  \A r \in Requests : reqs[r].op = "create" =>
     \A g \in DOMAIN guides \ reqs[r].doomed : Apart(g, reqs[r].start, reqs[r].end)

LEMMA GuidesStayDisjoint ==
  ASSUME TypeOK, TypeOK', OneCreate, CreatesSee, GuidesDisjoint, [Next]_vars
  PROVE  CreatesSee' /\ GuidesDisjoint'
<1>1. ASSUME guides' = guides, \A r \in Requests : reqs'[r] = reqs[r] \/ reqs'[r].op # "create"
      PROVE  CreatesSee' /\ GuidesDisjoint'
  BY <1>1 DEF CreatesSee, GuidesDisjoint, Apart
<1>2. ASSUME NEW r \in Requests, NEW s \in Dates, NEW e \in Dates, StartCreate(r, s, e)
      PROVE  CreatesSee' /\ GuidesDisjoint'
  <2>1. guides' = guides /\ \A p \in Requests \ {r} : reqs'[p] = reqs[p]
    BY <1>2 DEF StartCreate, TypeOK
  <2>2. reqs'[r].start = s /\ reqs'[r].end = e /\ reqs'[r].doomed = Overlapping(s, e)
    BY <1>2 DEF StartCreate, TypeOK
  <2>3. ASSUME NEW g \in DOMAIN guides \ Overlapping(s, e)
        PROVE  Apart(g, s, e)
    <3>1. guides[g].start \in Int /\ guides[g].end \in Int /\ s \in Int /\ e \in Int
      BY CalendarAssumption DEF TypeOK
    <3>2. ~(guides[g].start <= e /\ s <= guides[g].end)
      BY <2>3 DEF Overlapping
    <3> QED BY <3>1, <3>2 DEF Apart
  <2> QED BY <2>1, <2>2, <2>3 DEF CreatesSee, GuidesDisjoint, Apart
<1>3. ASSUME NEW r \in Requests, FinishCreate(r)
      PROVE  CreatesSee' /\ GuidesDisjoint'
  <2>1. PICK q : q = reqs[r]
    OBVIOUS
  <2>2. /\ q.op = "create" /\ reqs' = [reqs EXCEPT ![r] = Idle]
        /\ guides' = [g \in (DOMAIN guides \ q.doomed) \cup {q.tag} |->
                        IF g = q.tag THEN [start |-> q.start, end |-> q.end] ELSE guides[g]]
    BY <1>3, <2>1 DEF FinishCreate
  <2>3. \A p \in Requests : reqs'[p].op # "create"
    BY <2>1, <2>2 DEF OneCreate, TypeOK, Idle
  <2>4. \A g \in DOMAIN guides \ q.doomed : guides[g].end < q.start \/ q.end < guides[g].start
    BY <2>1, <2>2 DEF CreatesSee, Apart
  <2>5. /\ guides'[q.tag].start = q.start /\ guides'[q.tag].end = q.end
        /\ \A g \in DOMAIN guides' \ {q.tag} :
             g \in DOMAIN guides \ q.doomed /\ guides'[g] = guides[g]
    BY <2>2
  <2> QED BY <2>3, <2>4, <2>5 DEF CreatesSee, GuidesDisjoint
<1>4. ASSUME NEW r \in Requests, NEW g \in DOMAIN guides, StartRegenerate(r, g)
      PROVE  CreatesSee' /\ GuidesDisjoint'
  <2>1. guides' = guides /\ \A p \in Requests \ {r} : reqs'[p] = reqs[p]
    BY <1>4 DEF StartRegenerate, TypeOK
  <2>2. reqs'[r].op # "create"
    BY <1>4 DEF StartRegenerate, TypeOK
  <2> QED BY <1>1, <2>1, <2>2
<1>5. ASSUME NEW r \in Requests, FinishRegenerate(r) \/ FinishPatch(r) \/ Abandon(r)
      PROVE  CreatesSee' /\ GuidesDisjoint'
  <2>1. guides' = guides /\ reqs' = [reqs EXCEPT ![r] = Idle]
    BY <1>5 DEF FinishRegenerate, FinishPatch, Abandon
  <2> QED BY <1>1, <2>1 DEF TypeOK, Idle
<1>6. CASE UNCHANGED <<guides, reqs>>
  BY <1>1, <1>6
<1>7. ASSUME NEW r \in Requests, NEW k \in DOMAIN items, NEW b \in Edits, StartPatch(r, k, b)
      PROVE  CreatesSee' /\ GuidesDisjoint'
  <2>1. guides' = guides /\ \A p \in Requests \ {r} : reqs'[p] = reqs[p]
    BY <1>7 DEF StartPatch, TypeOK
  <2>2. reqs'[r].op # "create"
    BY <1>7 DEF StartPatch, TypeOK
  <2> QED BY <1>1, <2>1, <2>2
<1> QED
  BY <1>2, <1>3, <1>4, <1>5, <1>6, <1>7
  DEF Next, vars, Create, Regenerate, Finish, Patch, Delete, DeleteItem, Watch, Unwatch,
      SetWatched, Drop, Midnight

(* A user's guides never share a day, as long as creates do not overlap    *)
(* each other (CreateGuideReplacingOverlaps, store/guides.go:241).         *)
THEOREM GuidesAreDisjoint == Spec /\ []OneCreate => []GuidesDisjoint
<1>1. Init => CreatesSee /\ GuidesDisjoint
  BY DEF Init, CreatesSee, GuidesDisjoint, Idle
<1> QED BY <1>1, GuidesStayDisjoint, TypeCorrect, PTL DEF Spec
=============================================================================
