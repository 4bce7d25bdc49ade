----------------------- MODULE WatchTracking_proofs -----------------------
(***************************************************************************)
(* Theorems about WatchTracking, for any titles, items, season tables,     *)
(* cap, PATCHes and number of requests.                                    *)
(***************************************************************************)
EXTENDS WatchTracking, FiniteSetTheorems, TLAPS

(* The position after an episode is a position, and never before it.       *)
LEMMA NextPointerFacts ==
  ASSUME NEW ep \in Position, NEW s \in SeasonTables
  PROVE  /\ NextPointer(ep, s).pointer \in Position
         /\ NextPointer(ep, s).pastFinale \in BOOLEAN
         /\ ~Earlier(NextPointer(ep, s).pointer, ep)
         /\ Earlier(ep, NextPointer(ep, s).pointer) \/ NextPointer(ep, s).pastFinale
<1>1. s \in [DOMAIN s -> Nat] /\ DOMAIN s \subseteq Nat \ {0}
  BY SeasonsAssumption
<1>2. /\ ep = <<ep[1], ep[2]>> /\ ep[1] \in Nat \ {0} /\ ep[2] \in Nat \ {0}
      /\ <<ep[1], ep[2] + 1>> \in Position /\ <<ep[1] + 1, 1>> \in Position
  BY DEF Position
<1> QED BY <1>1, <1>2 DEF NextPointer, Earlier

LEMMA UpsertedType ==
  ASSUME NEW old \in EntryType \cup {Absent}, NEW q \in PatchType
  PROVE  Upserted(old, q) \in EntryType
<1>1. <<1, 1>> \in Position /\ "none" \in AnyStatus
  BY DEF Position, AnyStatus
<1>2. q.status \in Statuses \cup {Unset} /\ q.pointer \in Pointers \cup {Unset}
  BY DEF PatchType
<1> QED BY <1>1, <1>2, TitlesAssumption DEF Upserted, Or, EntryType

LEMMA MarkedType ==
  ASSUME TypeOK, NEW e \in EntryType, NEW t \in Titles, NEW ep, EpisodeOf(t, ep)
  PROVE  Marked(e, t, ep) \in EntryType
<1>1. CASE t \in Movies
  BY <1>1 DEF Marked, EntryType, AnyStatus
<1>2. CASE t \notin Movies
  <2>1. t \in Series /\ ep \in Position /\ counts[t] \in SeasonTables
    BY <1>2 DEF TypeOK, Titles, EpisodeOf
  <2> QED BY <1>2, <2>1, NextPointerFacts DEF Marked, EntryType, AnyStatus
<1> QED BY <1>1, <1>2

LEMMA UnmarkedType ==
  ASSUME TypeOK, NEW e \in EntryType, NEW t \in Titles, NEW ep, EpisodeOf(t, ep)
  PROVE  Unmarked(e, t, ep) \in EntryType
BY TitlesAssumption DEF TypeOK, Titles, EpisodeOf, Unmarked, EntryType, AnyStatus

(* What a marked or unmarked item is.                                      *)
LEMMA ItemFacts ==
  ASSUME TypeOK, NEW i \in Items, Present(i)
  PROVE  /\ item[i] \in ItemType /\ item[i].title \in Titles
         /\ EpisodeOf(item[i].title, item[i].ep)
         /\ Tracked(item[i].title) => entry[item[i].title] \in EntryType
BY DEF TypeOK, Present, Tracked, ItemType
-----------------------------------------------------------------------------
LEMMA InitType == Init => TypeOK
BY DEF Init, TypeOK, Rotation, Tracked

(* The rows' part of the type invariant, which Return does not touch.      *)
RowsOK ==
  /\ entry \in [Titles -> EntryType \cup {Absent}]
  /\ item \in [Items -> ItemType \cup {Absent}]
  /\ counts \in [Series -> SeasonTables]
  /\ reqs \in [Requests -> PatchType \cup SwapType \cup {Idle}]

LEMMA StepRows == TypeOK /\ Next => RowsOK'
<1> SUFFICES ASSUME TypeOK, Next
             PROVE  RowsOK'
  OBVIOUS
<1>0. RowsOK
  BY DEF TypeOK, RowsOK
<1>1. CASE Patch
  <2>1. PICK r \in Requests, t \in Titles, s \in Statuses \cup {Unset}, p \in Pointers \cup {Unset} :
          StartPatch(r, t, s, p)
    BY <1>1 DEF Patch
  <2>2. [op |-> "patch", title |-> t, status |-> s, pointer |-> p] \in PatchType
    BY DEF PatchType
  <2> QED BY <1>0, <2>1, <2>2 DEF StartPatch, RowsOK
<1>2. CASE Swap
  <2>1. PICK r \in Requests, i \in Items, t \in Titles : StartSwap(r, i, t)
    BY <1>2 DEF Swap
  <2>2. [op |-> "swap", item |-> i, title |-> t,
         ep |-> IF t \in Movies THEN NoEpisode ELSE entry[t].pointer] \in SwapType
    BY <2>1 DEF StartSwap, SwapType, EpisodeOf, TypeOK, Tracked, EntryType
  <2> QED BY <1>0, <2>1, <2>2 DEF StartSwap, RowsOK
<1>3. CASE Finish
  <2>1. PICK r \in Requests : FinishPatch(r) \/ FinishSwap(r)
    BY <1>3 DEF Finish
  <2>2. CASE FinishPatch(r)
    <3>1. reqs[r] \in PatchType /\ reqs[r].title \in Titles
      BY <2>2 DEF FinishPatch, TypeOK, PatchType, SwapType
    <3>2. Upserted(entry[reqs[r].title], reqs[r]) \in EntryType
      BY <3>1, UpsertedType DEF TypeOK
    <3> QED BY <1>0, <2>2, <3>1, <3>2 DEF FinishPatch, RowsOK
  <2>3. CASE FinishSwap(r)
    <3>1. /\ reqs[r] \in SwapType /\ reqs[r].item \in Items /\ reqs[r].title \in Titles
          /\ EpisodeOf(reqs[r].title, reqs[r].ep)
          /\ reqs[r].ep \in Position \cup {NoEpisode}
      BY <2>3 DEF FinishSwap, TypeOK, PatchType, SwapType
    <3>2. ASSUME Present(reqs[r].item)
          PROVE  [item[reqs[r].item] EXCEPT !.title = reqs[r].title, !.ep = reqs[r].ep]
                    \in ItemType
      BY <3>1, <3>2 DEF TypeOK, Present, ItemType
    <3>3. item' \in [Items -> ItemType \cup {Absent}]
      BY <1>0, <2>3, <3>1, <3>2 DEF FinishSwap, RowsOK
    <3> QED BY <1>0, <2>3, <3>3 DEF FinishSwap, RowsOK
  <2> QED BY <2>1, <2>2, <2>3
<1>4. CASE Mark
  <2>1. PICK i \in Items : MarkItemWatched(i)
    BY <1>4 DEF Mark
  <2>2. [item[i] EXCEPT !.watched = TRUE] \in ItemType
    BY <2>1, ItemFacts DEF MarkItemWatched, ItemType
  <2>3. Tracked(item[i].title) =>
          Marked(entry[item[i].title], item[i].title, item[i].ep) \in EntryType
    BY <2>1, ItemFacts, MarkedType DEF MarkItemWatched
  <2> QED BY <1>0, <2>1, <2>2, <2>3, ItemFacts DEF MarkItemWatched, RowsOK
<1>5. CASE Unmark
  <2>1. PICK i \in Items : UnmarkItemWatched(i)
    BY <1>5 DEF Unmark
  <2>2. [item[i] EXCEPT !.watched = FALSE] \in ItemType
    BY <2>1, ItemFacts DEF UnmarkItemWatched, ItemType
  <2>3. Tracked(item[i].title) =>
          Unmarked(entry[item[i].title], item[i].title, item[i].ep) \in EntryType
    BY <2>1, ItemFacts, UnmarkedType DEF UnmarkItemWatched
  <2> QED BY <1>0, <2>1, <2>2, <2>3, ItemFacts DEF UnmarkItemWatched, RowsOK
<1>6. CASE Plan
  <2>1. PICK i \in Items : Schedule(i) \/ Unschedule(i)
    BY <1>6 DEF Plan
  <2>2. [title |-> Slot[i].title, ep |-> Slot[i].ep, watched |-> FALSE] \in ItemType
    BY SlotAssumption, TitlesAssumption DEF ItemType, EpisodeOf, Titles
  <2> QED BY <1>0, <2>1, <2>2 DEF Schedule, Unschedule, RowsOK
<1>7. CASE Refresh
  BY <1>0, <1>7 DEF Refresh, ReplaceSeasons, RowsOK
<1> QED BY <1>1, <1>2, <1>3, <1>4, <1>5, <1>6, <1>7 DEF Next

LEMMA NextType == TypeOK /\ [Next]_vars => TypeOK'
<1>1. CASE Next
  BY <1>1, StepRows DEF Next, Return, TypeOK, RowsOK
<1>2. CASE UNCHANGED vars
  BY <1>2 DEF vars, TypeOK, Rotation, Tracked
<1> QED BY <1>1, <1>2

(* The rows and the requests keep their types.                             *)
THEOREM TypeCorrect == Spec => []TypeOK
BY InitType, NextType, PTL DEF Spec
-----------------------------------------------------------------------------
(* A position is not before itself, nor after a later one.                 *)
LEMMA EarlierIsStrict ==
  ASSUME NEW k \in Position, NEW l \in Position
  PROVE  /\ ~Earlier(k, k)
         /\ Earlier(k, l) => ~Earlier(l, k)
         /\ ~Earlier(k, l) /\ ~Earlier(l, k) => k = l
<1>1. /\ k = <<k[1], k[2]>> /\ k[1] \in Nat /\ k[2] \in Nat
      /\ l = <<l[1], l[2]>> /\ l[1] \in Nat /\ l[2] \in Nat
  BY DEF Position
<1> QED BY <1>1 DEF Earlier

LEMMA EarlierIsTransitive ==
  ASSUME NEW k \in Position, NEW l \in Position, NEW m \in Position
  PROVE  /\ Earlier(k, l) /\ Earlier(l, m) => Earlier(k, m)
         /\ Earlier(k, l) /\ ~Earlier(m, l) => Earlier(k, m)
         /\ ~Earlier(l, k) /\ Earlier(l, m) => Earlier(k, m)
<1>1. k[1] \in Nat /\ k[2] \in Nat /\ l[1] \in Nat /\ l[2] \in Nat /\ m[1] \in Nat /\ m[2] \in Nat
  BY DEF Position
<1> QED BY <1>1 DEF Earlier

LEMMA MarkMovesForward ==
  ASSUME TypeOK, NEW t \in Series, NEW e \in EntryType, NEW ep, EpisodeOf(t, ep)
  PROVE  ~Earlier(Marked(e, t, ep).pointer, e.pointer)
<1>1. t \notin Movies /\ ep \in Position /\ counts[t] \in SeasonTables /\ e.pointer \in Position
  BY TitlesAssumption DEF EpisodeOf, TypeOK, EntryType
<1> DEFINE next == NextPointer(ep, counts[t])
<1>2. next.pointer \in Position /\ ~Earlier(next.pointer, ep)
  BY <1>1, NextPointerFacts
<1>3. CASE Earlier(ep, e.pointer)
  BY <1>1, <1>3, EarlierIsStrict DEF Marked
<1>4. CASE ~Earlier(ep, e.pointer)
  <2>1. Marked(e, t, ep).pointer = next.pointer
    BY <1>1, <1>4 DEF Marked
  <2>2. ~Earlier(next.pointer, e.pointer)
    BY <1>1, <1>2, <1>4, EarlierIsTransitive, EarlierIsStrict
  <2> QED BY <2>1, <2>2
<1> QED BY <1>3, <1>4

LEMMA PointerStep ==
  ASSUME TypeOK, Next, NEW t \in Series
  PROVE  MovesBackOnRequest(t)
<1> SUFFICES ASSUME Tracked(t), Earlier(entry'[t].pointer, entry[t].pointer)
             PROVE  MovesBackOnRequest(t)!2
  BY DEF MovesBackOnRequest
<1>0. entry \in [Titles -> EntryType \cup {Absent}] /\ t \in Titles /\ entry[t] \in EntryType
      /\ entry[t].pointer \in Position
  BY DEF TypeOK, Tracked, Titles, EntryType
<1>1. entry' # entry
  BY <1>0, EarlierIsStrict
<1>2. CASE Finish
  <2>1. PICK r \in Requests : FinishPatch(r)
    BY <1>1, <1>2 DEF Finish, FinishSwap
  <2>2. reqs[r].title = t /\ entry'[t] = Upserted(entry[t], reqs[r])
    BY <1>0, <2>1, EarlierIsStrict DEF FinishPatch
  <2>3. reqs[r].pointer = entry'[t].pointer
    BY <1>0, <2>2, EarlierIsStrict DEF Upserted, Or, Tracked
  <2> QED BY <2>1, <2>3
<1>3. CASE Mark
  <2>1. PICK i \in Items : MarkItemWatched(i)
    BY <1>3 DEF Mark
  <2>2. item[i].title = t /\ entry'[t] = Marked(entry[t], t, item[i].ep)
    BY <1>0, <1>1, <2>1, EarlierIsStrict DEF MarkItemWatched
  <2>3. EpisodeOf(t, item[i].ep)
    BY <2>1, <2>2, ItemFacts DEF MarkItemWatched
  <2> QED BY <1>0, <2>2, <2>3, MarkMovesForward
<1>4. CASE Unmark
  <2>1. PICK i \in Items : UnmarkItemWatched(i)
    BY <1>4 DEF Unmark
  <2>2. item[i].title = t /\ entry'[t] = Unmarked(entry[t], t, item[i].ep)
    BY <1>0, <1>1, <2>1, EarlierIsStrict DEF UnmarkItemWatched
  <2>3. entry'[t].pointer = item[i].ep
    BY <1>0, <2>2, EarlierIsStrict DEF Unmarked
  <2>4. ~item'[i].watched
    BY <2>1, ItemFacts DEF UnmarkItemWatched, TypeOK, ItemType
  <2> QED BY <2>1, <2>2, <2>3, <2>4 DEF UnmarkItemWatched
<1> QED BY <1>1, <1>2, <1>3, <1>4
        DEF Next, Patch, StartPatch, Swap, StartSwap, Plan, Schedule, Unschedule,
            Refresh, ReplaceSeasons

(* Whatever overlaps, a pointer moves back only to where the user has set  *)
(* it, or onto the episode of an item that is unmarked (guides.go:599).    *)
THEOREM PointerMovesBack == Spec => PointerMovesBackOnRequest
<1>1. TypeOK /\ [Next]_vars => [\A t \in Series : MovesBackOnRequest(t)]_vars
  BY PointerStep
<1> QED BY <1>1, TypeCorrect, PTL DEF Spec, PointerMovesBackOnRequest
-----------------------------------------------------------------------------
(* The PATCHes that have been let into the rotation and have yet to write, *)
(* and the titles they are for.                                            *)
Admitted       == {r \in Requests : reqs[r] # Idle /\ reqs[r].op = "patch"
                                                   /\ reqs[r].status = "rotation"}
AdmittedTitles == {reqs[r].title : r \in Admitted}

(* Every title that is in the rotation by its own admission, or will be    *)
(* when its PATCH writes, was counted or admitted together with others.    *)
Claimed      == (Rotation \ returned) \cup AdmittedTitles
ClaimedBound == Cardinality(Claimed) <= Cap + Cardinality(Requests) - 1

LEMMA ClaimedIsFinite ==
  ASSUME TypeOK
  PROVE  /\ Claimed \subseteq Titles /\ IsFiniteSet(Claimed)
         /\ Cardinality(Claimed) \in Nat /\ Cardinality(Requests) \in Nat
         /\ Rotation \subseteq Titles /\ IsFiniteSet(Rotation)
<1>1. AdmittedTitles \subseteq Titles
  BY DEF TypeOK, AdmittedTitles, Admitted, PatchType, SwapType
<1>2. Claimed \subseteq Titles /\ Rotation \subseteq Titles
  BY <1>1 DEF Claimed, Rotation
<1> QED BY <1>2, TitlesAssumption, FS_Subset, FS_CardinalityType

(* What does not claim anything new keeps the bound.                       *)
LEMMA FewerClaims ==
  ASSUME TypeOK, TypeOK', ClaimedBound, Claimed' \subseteq Claimed
  PROVE  ClaimedBound'
<1>1. Cardinality(Claimed') <= Cardinality(Claimed)
  BY ClaimedIsFinite, FS_Subset
<1>2. Cardinality(Claimed') \in Nat
  <2>1. IsFiniteSet(Claimed')
    BY ClaimedIsFinite, FS_Subset
  <2> QED BY <2>1, FS_CardinalityType
<1> QED BY <1>1, <1>2, ClaimedIsFinite, TitlesAssumption DEF ClaimedBound

(* A PATCH is admitted under the cap, and there are at most as many others *)
(* admitted as there are other requests.                                   *)
LEMMA OneMoreClaim ==
  ASSUME TypeOK, NEW r \in Requests, NEW t \in Titles, UnderCap(t),
         NEW C, C \subseteq (Rotation \ {t}) \cup {t} \cup {reqs[q].title : q \in Admitted \ {r}}
  PROVE  Cardinality(C) <= Cap + Cardinality(Requests) - 1
<1> DEFINE Others == Admitted \ {r}
           R      == Rotation \ {t}
           T      == {reqs[q].title : q \in Others}
           f      == [q \in Others |-> reqs[q].title]
<1>1. /\ IsFiniteSet(Others) /\ Cardinality(Others) \in Nat
      /\ Cardinality(Others) <= Cardinality(Requests) - 1
  <2>1. /\ IsFiniteSet(Requests \ {r})
        /\ Cardinality(Requests \ {r}) = Cardinality(Requests) - 1
    BY TitlesAssumption, FS_RemoveElement
  <2>2. Others \subseteq Requests \ {r}
    BY DEF Admitted
  <2> QED BY <2>1, <2>2, FS_Subset, FS_CardinalityType
<1>2. IsFiniteSet(T) /\ Cardinality(T) <= Cardinality(Others) /\ Cardinality(T) \in Nat
  <2>1. f \in Surjection(Others, T)
    BY DEF Surjection
  <2> HIDE DEF f, T, Others
  <2>2. IsFiniteSet(T) /\ Cardinality(T) <= Cardinality(Others)
    BY <1>1, <2>1, FS_Surjection
  <2> QED BY <2>2, FS_CardinalityType
<1>3. IsFiniteSet(R) /\ Cardinality(R) \in Nat /\ Cardinality(R) <= Cap - 1
  BY ClaimedIsFinite, FS_Subset, FS_CardinalityType, TitlesAssumption DEF UnderCap
<1> HIDE DEF R, T, Others
<1>4. IsFiniteSet(R \cup {t}) /\ Cardinality(R \cup {t}) <= Cap /\ Cardinality(R \cup {t}) \in Nat
  <2>1. /\ IsFiniteSet(R \cup {t})
        /\ Cardinality(R \cup {t}) = IF t \in R THEN Cardinality(R) ELSE Cardinality(R) + 1
    BY <1>3, FS_AddElement
  <2>2. Cardinality(R \cup {t}) \in Nat
    BY <2>1, FS_CardinalityType
  <2> QED BY <1>3, <2>1, <2>2, TitlesAssumption
<1>5. /\ IsFiniteSet((R \cup {t}) \cup T)
      /\ Cardinality((R \cup {t}) \cup T) <= Cap + Cardinality(Requests) - 1
  <2>1. /\ IsFiniteSet((R \cup {t}) \cup T)
        /\ Cardinality((R \cup {t}) \cup T) =
             Cardinality(R \cup {t}) + Cardinality(T) - Cardinality((R \cup {t}) \cap T)
    BY <1>2, <1>4, FS_Union
  <2>2. Cardinality((R \cup {t}) \cap T) \in Nat
    BY <1>4, FS_Intersection, FS_CardinalityType
  <2>3. Cardinality(Requests) \in Nat
    BY TitlesAssumption, FS_CardinalityType
  <2> QED BY <1>1, <1>2, <1>4, <2>1, <2>2, <2>3, TitlesAssumption
<1>6. C \subseteq (R \cup {t}) \cup T
  BY DEF R, T, Others
<1>7. Cardinality(C) <= Cardinality((R \cup {t}) \cup T) /\ Cardinality(C) \in Nat
  BY <1>5, <1>6, FS_Subset, FS_CardinalityType
<1>8. Cardinality((R \cup {t}) \cup T) \in Nat /\ Cardinality(Requests) \in Nat
  BY <1>5, TitlesAssumption, FS_CardinalityType
<1> QED BY <1>5, <1>7, <1>8, TitlesAssumption

LEMMA InitClaims == Init => ClaimedBound
<1> SUFFICES ASSUME Init
             PROVE  ClaimedBound
  OBVIOUS
<1>1. Claimed = {}
  BY DEF Init, Claimed, Rotation, Tracked, AdmittedTitles, Admitted
<1>2. Cardinality(Claimed) = 0 /\ Cardinality(Requests) \in Nat
  BY <1>1, FS_EmptySet, FS_CardinalityType, TitlesAssumption
<1> QED BY <1>2, TitlesAssumption DEF ClaimedBound

LEMMA NextClaims == TypeOK /\ TypeOK' /\ ClaimedBound /\ Next => ClaimedBound'
<1> SUFFICES ASSUME TypeOK, TypeOK', ClaimedBound, Next
             PROVE  ClaimedBound'
  OBVIOUS
(* A title comes into the rotation by a PATCH that was admitted, or is     *)
(* returned to it.                                                         *)
<1>0. \A t \in Titles : t \in Rotation' \ returned' =>
        t \in Rotation \ returned \/ \E r \in Admitted : reqs[r].title = t /\ FinishPatch(r)
  <2> SUFFICES ASSUME NEW t \in Titles, t \in Rotation', t \notin returned', t \notin Rotation \ returned
               PROVE  \E r \in Admitted : reqs[r].title = t /\ FinishPatch(r)
    OBVIOUS
  <2>1. t \notin Rotation /\ ~\E i \in Items : Unmarks(i)
    BY DEF Next, Return
  <2>2. entry'[t] # Absent /\ entry'[t].status = "rotation" /\ entry'[t] # entry[t]
    BY <2>1 DEF Rotation, Tracked
  <2>3. entry \in [Titles -> EntryType \cup {Absent}]
    BY DEF TypeOK
  <2>4. CASE Finish
    <3>1. PICK r \in Requests : FinishPatch(r)
      BY <2>2, <2>4 DEF Finish, FinishSwap
    <3>2. reqs[r].title = t /\ entry'[t] = Upserted(entry[t], reqs[r])
      BY <2>2, <2>3, <3>1 DEF FinishPatch
    <3>3. reqs[r].status = "rotation"
      BY <2>1, <2>2, <3>2 DEF Upserted, Or, Rotation, Tracked
    <3> QED BY <3>1, <3>2, <3>3 DEF Admitted, FinishPatch
  <2>5. CASE Mark
    <3>1. PICK i \in Items : MarkItemWatched(i)
      BY <2>5 DEF Mark
    <3>2. Tracked(t) /\ entry'[t] = Marked(entry[t], t, item[i].ep)
      BY <2>2, <2>3, <3>1 DEF MarkItemWatched
    <3>3. entry'[t].status \in {entry[t].status, "watched"}
      BY <2>3, <3>2 DEF Marked, Tracked, EntryType
    <3> QED BY <2>1, <2>2, <3>2, <3>3 DEF Rotation
  <2>6. CASE Unmark
    <3>1. PICK i \in Items : UnmarkItemWatched(i)
      BY <2>6 DEF Unmark
    <3>2. Unmarks(i)
      BY <3>1, ItemFacts DEF UnmarkItemWatched, Unmarks, TypeOK, ItemType
    <3> QED BY <2>1, <3>2
  <2> QED BY <2>2, <2>4, <2>5, <2>6
          DEF Next, Patch, StartPatch, Swap, StartSwap, Plan, Schedule, Unschedule,
              Refresh, ReplaceSeasons
<1>1. CASE Patch
  <2>1. PICK r \in Requests, t \in Titles, s \in Statuses \cup {Unset}, p \in Pointers \cup {Unset} :
          StartPatch(r, t, s, p)
    BY <1>1 DEF Patch
  <2>2. reqs' = [reqs EXCEPT ![r] = [op |-> "patch", title |-> t, status |-> s, pointer |-> p]]
        /\ reqs \in [Requests -> PatchType \cup SwapType \cup {Idle}] /\ reqs[r] = Idle
        /\ entry' = entry
    BY <2>1 DEF StartPatch, TypeOK
  <2>3. Rotation' = Rotation /\ Rotation' \ returned' \subseteq Rotation \ returned
    <3>1. Rotation' = Rotation
      BY <2>2 DEF Rotation, Tracked
    <3> QED BY <3>1 DEF Next, Return
  <2>4. CASE s = "rotation"
    <3>1. UnderCap(t)
      BY <2>1, <2>4 DEF StartPatch
    <3>2. AdmittedTitles' \subseteq {t} \cup {reqs[q].title : q \in Admitted \ {r}}
      BY <2>2 DEF AdmittedTitles, Admitted
    <3>3. Claimed' \subseteq (Rotation \ {t}) \cup {t} \cup {reqs[q].title : q \in Admitted \ {r}}
      BY <2>3, <3>2 DEF Claimed
    <3> QED BY <3>1, <3>3, OneMoreClaim DEF ClaimedBound
  <2>5. CASE s # "rotation"
    <3>1. AdmittedTitles' \subseteq AdmittedTitles
      BY <2>2, <2>5 DEF AdmittedTitles, Admitted
    <3> QED BY <2>3, <3>1, FewerClaims DEF Claimed
  <2> QED BY <2>4, <2>5
<1>2. CASE ~Patch
  <2>1. \A r \in Requests : reqs'[r] = reqs[r] \/ reqs'[r] = Idle \/ reqs'[r].op = "swap"
    <3>0. reqs \in [Requests -> PatchType \cup SwapType \cup {Idle}]
      BY DEF TypeOK
    <3>1. CASE Swap
      BY <3>0, <3>1 DEF Swap, StartSwap
    <3>2. CASE Finish
      BY <3>0, <3>2 DEF Finish, FinishPatch, FinishSwap
    <3>3. CASE Mark \/ Unmark \/ Plan \/ Refresh
      BY <3>3 DEF Mark, MarkItemWatched, Unmark, UnmarkItemWatched, Plan, Schedule, Unschedule,
                  Refresh, ReplaceSeasons
    <3> QED BY <1>2, <3>1, <3>2, <3>3 DEF Next
  <2>2. AdmittedTitles' \subseteq AdmittedTitles
    BY <2>1 DEF AdmittedTitles, Admitted
  <2>3. Rotation' \ returned' \subseteq (Rotation \ returned) \cup AdmittedTitles
    BY <1>0, ClaimedIsFinite DEF AdmittedTitles, Rotation
  <2> QED BY <2>2, <2>3, FewerClaims DEF Claimed
<1> QED BY <1>1, <1>2

LEMMA ClaimsBound == TypeOK /\ ClaimedBound => RotationBounded
<1> SUFFICES ASSUME TypeOK, ClaimedBound
             PROVE  RotationBounded
  OBVIOUS
<1>1. Rotation \ returned \subseteq Claimed
  BY DEF Claimed
<1>2. Cardinality(Rotation \ returned) <= Cardinality(Claimed)
      /\ Cardinality(Rotation \ returned) \in Nat
  BY <1>1, ClaimedIsFinite, FS_Subset, FS_CardinalityType
<1> QED BY <1>2, ClaimedIsFinite, TitlesAssumption DEF ClaimedBound, RotationBounded

(* The rotation exceeds its cap by no more than the PATCHes that were      *)
(* checked together, and by what unmarks have returned (entries.go:85).    *)
THEOREM RotationIsBounded == Spec => []RotationBounded
<1>1. TypeOK /\ TypeOK' /\ ClaimedBound /\ [Next]_vars => ClaimedBound'
  <2>1. UNCHANGED vars /\ ClaimedBound => ClaimedBound'
    BY DEF vars, ClaimedBound, Claimed, Rotation, Tracked, AdmittedTitles, Admitted
  <2> QED BY <2>1, NextClaims
<1> QED BY <1>1, TypeCorrect, InitClaims, ClaimsBound, PTL DEF Spec
-----------------------------------------------------------------------------
(* The episodes of seasons without gaps: what is the next one, and which   *)
(* is the last.                                                            *)
LEMMA SeasonsFacts ==
  ASSUME SeasonsRest, NEW s \in SeasonTables
  PROVE  \E n \in Nat \ {0} : DOMAIN s = 1..n /\ \A k \in 1..n : s[k] \in Nat \ {0}
BY SeasonsAssumption DEF SeasonsRest

LEMMA NextExists ==
  ASSUME SeasonsRest, NEW s \in SeasonTables, NEW k \in Position, HasEpisode(s, k)
  PROVE  HasEpisode(s, NextPointer(k, s).pointer) /\ HasEpisode(s, <<1, 1>>)
<1>1. PICK n \in Nat \ {0} : DOMAIN s = 1..n /\ \A m \in 1..n : s[m] \in Nat \ {0}
  BY SeasonsFacts
<1>2. k[1] \in Nat /\ k[2] \in Nat
  BY DEF Position
<1> QED BY <1>1, <1>2 DEF HasEpisode, NextPointer

LEMMA NothingBetween ==
  ASSUME SeasonsRest, NEW s \in SeasonTables,
         NEW k \in Position, HasEpisode(s, k), NEW l \in Position, HasEpisode(s, l), l # k
  PROVE  /\ Earlier(l, NextPointer(k, s).pointer) => Earlier(l, k)
         /\ NextPointer(l, s).pastFinale => Earlier(k, l)
<1>1. PICK n \in Nat \ {0} : DOMAIN s = 1..n /\ \A m \in 1..n : s[m] \in Nat \ {0}
  BY SeasonsFacts
<1>2. /\ k = <<k[1], k[2]>> /\ k[1] \in Nat \ {0} /\ k[2] \in Nat \ {0}
      /\ l = <<l[1], l[2]>> /\ l[1] \in Nat \ {0} /\ l[2] \in Nat \ {0}
  BY DEF Position
<1> QED BY <1>1, <1>2 DEF HasEpisode, NextPointer, Earlier
-----------------------------------------------------------------------------
(* The items of one guide are the rows that generation made of them, and   *)
(* their titles have entries; no swap is under way.                        *)
OwnRows ==
  /\ \A i \in Items : Present(i) => /\ item[i].title = Slot[i].title /\ item[i].ep = Slot[i].ep
                                    /\ Tracked(item[i].title)
  /\ \A r \in Requests : reqs[r] # Idle => reqs[r].op = "patch"

PointerInv == OwnRows /\ WatchedBehindPointer /\ PointerSound

LEMMA InitPointer == Init => PointerInv
BY DEF Init, PointerInv, OwnRows, WatchedBehindPointer, PointerSound, PointerNamesAnEpisode,
       CompletedAtFinale, Present, Tracked, Titles

(* What of it is about one series, for an entry e and items W watched.     *)
Watched == {i \in Items : Present(i) /\ item[i].watched}

Behind(t, e, W) ==
  \A i \in W : item[i].title = t =>
    Earlier(item[i].ep, e.pointer) \/ NextPointer(item[i].ep, counts[t]).pastFinale

Sound(t, e) ==
  /\ HasEpisode(counts[t], e.pointer)
  /\ e.status = "watched" => NextPointer(e.pointer, counts[t]).pastFinale

LEMMA PointerInvBySeries ==
  ASSUME OwnRows
  PROVE  PointerInv <=>
           \A t \in Series : Tracked(t) => Behind(t, entry[t], Watched) /\ Sound(t, entry[t])
BY DEF PointerInv, OwnRows, WatchedBehindPointer, PointerSound, PointerNamesAnEpisode,
       CompletedAtFinale, Behind, Sound, Watched

LEMMA GuideItems ==
  ASSUME TypeOK, OwnRows, OneGuide, NEW t \in Series, NEW i \in Items, Present(i), item[i].title = t
  PROVE  /\ item[i].ep \in Position /\ HasEpisode(counts[t], item[i].ep)
         /\ \A j \in Items : Present(j) /\ item[j].title = t /\ item[j].ep = item[i].ep => j = i
<1>1. counts[t] \in SeasonTables /\ item[i].title = Slot[i].title /\ item[i].ep = Slot[i].ep
  BY DEF TypeOK, OwnRows
<1>2. item[i].ep \in Position
  BY <1>1, SlotAssumption, TitlesAssumption
<1>3. HasEpisode(counts[t], item[i].ep)
  BY <1>1 DEF OneGuide
<1>4. ASSUME NEW j \in Items, Present(j), item[j].title = t, item[j].ep = item[i].ep
      PROVE  j = i
  <2>1. Slot[j].title = Slot[i].title /\ Slot[j].ep = Slot[i].ep
    BY <1>1, <1>4 DEF OwnRows
  <2> QED BY <1>1, <2>1 DEF OneGuide
<1> QED BY <1>2, <1>3, <1>4

LEMMA MarkKeepsBehind ==
  ASSUME TypeOK, OwnRows, OneGuide, SeasonsRest,
         NEW t \in Series, NEW e \in EntryType, NEW W \in SUBSET Watched,
         Behind(t, e, W), Sound(t, e),
         NEW i \in Items, Present(i), item[i].title = t
  PROVE  /\ Sound(t, Marked(e, t, item[i].ep))
         /\ Behind(t, Marked(e, t, item[i].ep), W \cup {i})
<1> DEFINE s == counts[t]
           k == item[i].ep
           n == NextPointer(k, s)
<1>1. /\ s \in SeasonTables /\ k \in Position /\ HasEpisode(s, k)
      /\ e.pointer \in Position /\ HasEpisode(s, e.pointer) /\ t \notin Movies
  BY GuideItems, TitlesAssumption DEF TypeOK, EntryType, Sound
<1>2. n.pointer \in Position /\ HasEpisode(s, n.pointer)
      /\ (Earlier(k, n.pointer) \/ n.pastFinale) /\ ~Earlier(n.pointer, k)
  BY <1>1, NextExists, NextPointerFacts
<1>3. CASE Earlier(k, e.pointer)
  BY <1>1, <1>3 DEF Marked, Behind
<1>4. CASE ~Earlier(k, e.pointer)
  <2>1. /\ Marked(e, t, k).pointer = n.pointer
        /\ Marked(e, t, k).status = IF n.pastFinale THEN "watched" ELSE e.status
    BY <1>1, <1>4 DEF Marked
  <2>2. ~Earlier(n.pointer, e.pointer)
    BY <1>1, <1>2, <1>4, EarlierIsTransitive, EarlierIsStrict
  <2>3. Behind(t, Marked(e, t, k), W \cup {i})
    <3> SUFFICES ASSUME NEW j \in W, item[j].title = t, Earlier(item[j].ep, e.pointer)
                 PROVE  Earlier(item[j].ep, n.pointer)
      BY <1>2, <2>1 DEF Behind
    <3>1. item[j].ep \in Position
      BY GuideItems DEF Watched
    <3> QED BY <1>1, <1>2, <2>2, <3>1, EarlierIsTransitive
  <2>4. ASSUME n.pastFinale
        PROVE  n.pointer = k
    BY <2>4 DEF NextPointer
  <2>5. ASSUME ~n.pastFinale, e.status = "watched"
        PROVE  FALSE
    <3>1. NextPointer(e.pointer, s).pastFinale
      BY <2>5 DEF Sound
    <3>2. k # e.pointer
      BY <2>5, <3>1
    <3> QED BY <1>1, <1>4, <3>1, <3>2, NothingBetween
  <2> QED BY <1>2, <2>1, <2>3, <2>4, <2>5 DEF Sound
<1> QED BY <1>3, <1>4

LEMMA UnmarkKeepsBehind ==
  ASSUME TypeOK, OwnRows, OneGuide, SeasonsRest,
         NEW t \in Series, NEW e \in EntryType, NEW W \in SUBSET Watched,
         Behind(t, e, W), Sound(t, e),
         NEW i \in Items, Present(i), item[i].title = t
  PROVE  /\ Sound(t, Unmarked(e, t, item[i].ep))
         /\ Behind(t, Unmarked(e, t, item[i].ep), W \ {i})
<1> DEFINE s == counts[t]
           k == item[i].ep
           n == NextPointer(k, s)
<1>1. /\ s \in SeasonTables /\ k \in Position /\ HasEpisode(s, k)
      /\ HasEpisode(s, e.pointer)
  BY GuideItems DEF TypeOK, Sound
<1>2. /\ Unmarked(e, t, k).status # "watched"
      /\ Unmarked(e, t, k).pointer = IF n.pointer = e.pointer THEN k ELSE e.pointer
  BY DEF Unmarked
<1>3. ASSUME n.pointer = e.pointer, NEW j \in W \ {i}, item[j].title = t,
             Earlier(item[j].ep, e.pointer)
      PROVE  Earlier(item[j].ep, k)
  <2>1. item[j].ep \in Position /\ HasEpisode(s, item[j].ep) /\ item[j].ep # k
    BY <1>3, GuideItems DEF Watched
  <2> QED BY <1>1, <1>3, <2>1, NothingBetween
<1> QED BY <1>1, <1>2, <1>3 DEF Sound, Behind

(* How a step keeps all of it: it leaves the seasons as they are, and the  *)
(* rows of what is watched.                                                *)
SeriesKept(t) ==
  /\ \A i \in Watched' : item'[i].title = t => item[i].title = t /\ item'[i].ep = item[i].ep
  /\ Behind(t, entry'[t], Watched') /\ Sound(t, entry'[t])

LEMMA PointerInvNext ==
  ASSUME OwnRows', counts' = counts, \A t \in Series : Tracked(t)' => SeriesKept(t)
  PROVE  PointerInv'
<1>1. WatchedBehindPointer'
  <2> SUFFICES ASSUME NEW i \in Items, Present(i)', item'[i].watched, item'[i].title \in Series
               PROVE  \/ Earlier(item'[i].ep, entry'[item'[i].title].pointer)
                      \/ NextPointer(item'[i].ep, counts[item'[i].title]).pastFinale
    BY DEF WatchedBehindPointer
  <2>1. i \in Watched' /\ Tracked(item[i].title)'
    BY DEF Watched, OwnRows
  <2> QED BY <2>1 DEF SeriesKept, Behind, OwnRows
<1>2. PointerSound'
  BY DEF PointerSound, PointerNamesAnEpisode, CompletedAtFinale, SeriesKept, Sound
<1> QED BY <1>1, <1>2 DEF PointerInv

LEMMA NextPointerInv ==
  ASSUME OneGuide, SeasonsRest, TypeOK, TypeOK', PointerInv, Next
  PROVE  PointerInv'
<1>0. /\ OwnRows /\ entry \in [Titles -> EntryType \cup {Absent}]
      /\ item \in [Items -> ItemType \cup {Absent}]
      /\ reqs \in [Requests -> PatchType \cup SwapType \cup {Idle}]
      /\ \A t \in Series : Tracked(t) => /\ Behind(t, entry[t], Watched) /\ Sound(t, entry[t])
                                         /\ entry[t] \in EntryType
  BY PointerInvBySeries DEF PointerInv, TypeOK, Tracked, Titles
<1>1. CASE Patch
  <2>1. UNCHANGED <<entry, item, counts>> /\ OwnRows'
    BY <1>0, <1>1 DEF Patch, StartPatch, OwnRows, Present, Tracked
  <2> QED BY <1>0, <2>1, PointerInvNext DEF SeriesKept, Watched, Present, Tracked
<1>2. CASE Finish
  <2>1. PICK r \in Requests : FinishPatch(r)
    BY <1>2 DEF Finish, FinishSwap, PointerInv, OwnRows
  <2> DEFINE q == reqs[r]
             t == q.title
  <2>2. /\ t \in Titles /\ q.pointer = Unset /\ q.status # "watched"
        /\ UNCHANGED <<item, counts>>
        /\ entry' = [entry EXCEPT ![t] = Upserted(entry[t], q)]
        /\ Upserted(entry[t], q) # Absent
    <3>1. q \in PatchType
      BY <1>0, <2>1 DEF FinishPatch, PatchType, SwapType
    <3>2. Upserted(entry[t], q) \in EntryType
      BY <1>0, <3>1, UpsertedType DEF PatchType
    <3>3. q.pointer = Unset /\ q.status # "watched" /\ t \in Titles
      BY <3>1, SentinelAssumption DEF PatchType, OneGuide, AnyStatus
    <3> QED BY <2>1, <3>2, <3>3, AbsentAssumption DEF FinishPatch
  <2>3. OwnRows'
    BY <1>0, <2>1, <2>2 DEF FinishPatch, OwnRows, Present, Tracked
  <2>4. ASSUME t \in Series
        PROVE  Behind(t, entry'[t], Watched) /\ Sound(t, entry'[t])
    <3>1. CASE Tracked(t)
      <4>1. /\ entry'[t].pointer = entry[t].pointer
            /\ entry'[t].status = "watched" => entry[t].status = "watched"
        BY <1>0, <2>2, <2>4, <3>1 DEF Upserted, Or, Tracked
      <4> QED BY <1>0, <2>4, <3>1, <4>1 DEF Behind, Sound
    <3>2. CASE ~Tracked(t)
      <4>1. entry'[t].pointer = <<1, 1>> /\ entry'[t].status # "watched"
        BY <1>0, <2>2, <3>2 DEF Upserted, Or, Tracked
      <4>2. HasEpisode(counts[t], <<1, 1>>)
        BY <2>4, SeasonsFacts DEF TypeOK, HasEpisode
      <4>3. Behind(t, entry'[t], Watched)
        BY <1>0, <3>2 DEF Behind, Watched, OwnRows
      <4> QED BY <4>1, <4>2, <4>3 DEF Sound
    <3> QED BY <3>1, <3>2
  <2>5. ASSUME NEW u \in Series, u # t, Tracked(u)'
        PROVE  Tracked(u) /\ entry'[u] = entry[u]
    BY <1>0, <2>2, <2>5 DEF Tracked, Titles
  <2>6. Watched' = Watched
    BY <2>2 DEF Watched, Present
  <2> HIDE DEF q, t
  <2>7. \A u \in Series : Tracked(u)' => Behind(u, entry'[u], Watched) /\ Sound(u, entry'[u])
    BY <1>0, <2>4, <2>5
  <2> QED BY <2>2, <2>3, <2>6, <2>7, PointerInvNext DEF SeriesKept
<1>3. CASE Mark
  <2>1. PICK i \in Items : MarkItemWatched(i)
    BY <1>3 DEF Mark
  <2> DEFINE t == item[i].title
  <2>2. /\ Present(i) /\ Tracked(t) /\ t \in Titles /\ item[i] \in ItemType
        /\ item' = [item EXCEPT ![i].watched = TRUE]
        /\ entry' = [entry EXCEPT ![t] = Marked(entry[t], t, item[i].ep)]
        /\ Marked(entry[t], t, item[i].ep) # Absent
        /\ UNCHANGED <<counts, reqs>>
    <3>1. Marked(entry[t], t, item[i].ep) \in EntryType
      BY <1>0, <2>1, ItemFacts, MarkedType DEF MarkItemWatched, OwnRows
    <3> QED BY <1>0, <2>1, <3>1, ItemFacts, AbsentAssumption DEF MarkItemWatched, OwnRows
  <2>3. /\ \A j \in Items : Present(j)' <=> Present(j)
        /\ \A j \in Items : Present(j) => /\ item'[j].title = item[j].title
                                          /\ item'[j].ep = item[j].ep
        /\ Watched' = Watched \cup {i}
    <3>1. item'[i] \in ItemType /\ item'[i].title = item[i].title /\ item'[i].ep = item[i].ep
          /\ item'[i].watched = TRUE
      BY <1>0, <2>2 DEF ItemType
    <3>2. \A j \in Items \ {i} : item'[j] = item[j]
      BY <1>0, <2>2
    <3>3. Present(i) /\ Present(i)'
      BY <2>2, <3>1, AbsentAssumption DEF Present
    <3> QED BY <3>1, <3>2, <3>3 DEF Present, Watched
  <2>4. OwnRows'
    BY <1>0, <2>2, <2>3 DEF OwnRows, Tracked
  <2>5. ASSUME t \in Series
        PROVE  Behind(t, entry'[t], Watched') /\ Sound(t, entry'[t])
    BY <1>0, <2>2, <2>3, <2>5, MarkKeepsBehind
  <2>6. ASSUME NEW u \in Series, u # t, Tracked(u)'
        PROVE  Behind(u, entry'[u], Watched') /\ Sound(u, entry'[u])
    <3>1. Tracked(u) /\ entry'[u] = entry[u]
      BY <1>0, <2>2, <2>6 DEF Tracked, Titles
    <3> QED BY <1>0, <2>3, <2>6, <3>1 DEF Behind
  <2> HIDE DEF t
  <2> QED BY <2>2, <2>3, <2>4, <2>5, <2>6, PointerInvNext DEF SeriesKept, Watched
<1>4. CASE Unmark
  <2>1. PICK i \in Items : UnmarkItemWatched(i)
    BY <1>4 DEF Unmark
  <2> DEFINE t == item[i].title
  <2>2. /\ Present(i) /\ Tracked(t) /\ t \in Titles /\ item[i] \in ItemType
        /\ item' = [item EXCEPT ![i].watched = FALSE]
        /\ entry' = [entry EXCEPT ![t] = Unmarked(entry[t], t, item[i].ep)]
        /\ Unmarked(entry[t], t, item[i].ep) # Absent
        /\ UNCHANGED <<counts, reqs>>
    <3>1. Unmarked(entry[t], t, item[i].ep) \in EntryType
      BY <1>0, <2>1, ItemFacts, UnmarkedType DEF UnmarkItemWatched, OwnRows
    <3> QED BY <1>0, <2>1, <3>1, ItemFacts, AbsentAssumption DEF UnmarkItemWatched, OwnRows
  <2>3. /\ \A j \in Items : Present(j)' <=> Present(j)
        /\ \A j \in Items : Present(j) => /\ item'[j].title = item[j].title
                                          /\ item'[j].ep = item[j].ep
        /\ Watched' = Watched \ {i}
    <3>1. item'[i] \in ItemType /\ item'[i].title = item[i].title /\ item'[i].ep = item[i].ep
          /\ item'[i].watched = FALSE
      BY <1>0, <2>2 DEF ItemType
    <3>2. \A j \in Items \ {i} : item'[j] = item[j]
      BY <1>0, <2>2
    <3>3. Present(i) /\ Present(i)'
      BY <2>2, <3>1, AbsentAssumption DEF Present
    <3> QED BY <3>1, <3>2, <3>3 DEF Present, Watched
  <2>4. OwnRows'
    BY <1>0, <2>2, <2>3 DEF OwnRows, Tracked
  <2>5. ASSUME t \in Series
        PROVE  Behind(t, entry'[t], Watched') /\ Sound(t, entry'[t])
    BY <1>0, <2>2, <2>3, <2>5, UnmarkKeepsBehind
  <2>6. ASSUME NEW u \in Series, u # t, Tracked(u)'
        PROVE  Behind(u, entry'[u], Watched') /\ Sound(u, entry'[u])
    <3>1. Tracked(u) /\ entry'[u] = entry[u]
      BY <1>0, <2>2, <2>6 DEF Tracked, Titles
    <3> QED BY <1>0, <2>3, <2>6, <3>1 DEF Behind
  <2> HIDE DEF t
  <2> QED BY <2>2, <2>3, <2>4, <2>5, <2>6, PointerInvNext DEF SeriesKept, Watched
<1>5. CASE Plan
  <2>1. PICK i \in Items : Schedule(i) \/ Unschedule(i)
    BY <1>5 DEF Plan
  <2>2. /\ UNCHANGED <<entry, counts, reqs>>
        /\ \A j \in Items \ {i} : item'[j] = item[j]
        /\ \/ item'[i] = Absent
           \/ /\ Tracked(Slot[i].title)
              /\ item'[i] = [title |-> Slot[i].title, ep |-> Slot[i].ep, watched |-> FALSE]
    BY <1>0, <2>1 DEF Schedule, Unschedule, Rotation
  <2>3. OwnRows'
    BY <1>0, <2>2 DEF OwnRows, Present, Tracked
  <2>4. Watched' \subseteq Watched /\ \A j \in Watched' : item'[j] = item[j]
    BY <2>2 DEF Watched, Present
  <2> QED BY <1>0, <2>2, <2>3, <2>4, PointerInvNext DEF SeriesKept, Behind, Tracked
<1>6. CASE Swap \/ Refresh
  BY <1>6 DEF OneGuide, SeasonsRest, Swap, StartSwap, Refresh, ReplaceSeasons, TypeOK
<1> QED BY <1>1, <1>2, <1>3, <1>4, <1>5, <1>6 DEF Next

LEMMA PointerInvHolds ==
  ASSUME OneGuide, SeasonsRest
  PROVE  Spec => []PointerInv
<1>1. TypeOK /\ TypeOK' /\ PointerInv /\ [Next]_vars => PointerInv'
  <2>1. UNCHANGED vars /\ PointerInv => PointerInv'
    BY DEF vars, PointerInv, OwnRows, WatchedBehindPointer, PointerSound, PointerNamesAnEpisode,
           CompletedAtFinale, Present, Tracked
  <2> QED BY <2>1, NextPointerInv
<1> QED BY <1>1, TypeCorrect, InitPointer, PTL DEF Spec

(* In one guide, whatever is marked and unmarked in whatever order, what   *)
(* is watched lies behind the pointer (guides.go:496, 599).                *)
THEOREM WatchedStaysBehind ==
  ASSUME OneGuide, SeasonsRest
  PROVE  Spec => []WatchedBehindPointer
<1>1. PointerInv => WatchedBehindPointer
  BY DEF PointerInv
<1> QED BY <1>1, PointerInvHolds, PTL

(* ... and the pointer names an episode, the last one if the series has    *)
(* been watched to the end.                                                *)
THEOREM PointerStaysSound ==
  ASSUME OneGuide, SeasonsRest
  PROVE  Spec => []PointerSound
<1>1. PointerInv => PointerSound
  BY DEF PointerInv
<1> QED BY <1>1, PointerInvHolds, PTL
=============================================================================
