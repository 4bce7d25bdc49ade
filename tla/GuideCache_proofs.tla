------------------------- MODULE GuideCache_proofs --------------------------
(***************************************************************************)
(* Theorems about GuideCache, for any items, slots, columns, documents the *)
(* server begins with, mutations outstanding at a time, operations and     *)
(* losses: types; that a card which takes clicks shows what is stored;     *)
(* that a dropped card stays; and that the cache is a replica of the       *)
(* server's document, as far as safety goes.                               *)
(***************************************************************************)
EXTENDS GuideCache, TLAPS

(* A mutation that is over as far as the server goes waits for the         *)
(* refetch; every other one may still change, or have changed, the         *)
(* document since the fetch in flight was answered.                        *)
Unsettled(m)  == Outstanding(m) /\ muts[m].at # "refetching"
Touches(q, i) == q.kind \notin OfCard \cup OfBoard \/ q.item = i

(* A fetch was asked after every move that is outstanding.                 *)
FetchInv == fetch # Idle => Moves \subseteq fetch.after

(* Its answer is the server's document still, but for what unsettled       *)
(* mutations touch, and unless one of them has joined it late.             *)
AnswerInv ==
  fetch # Idle /\ fetch.at = "answered" /\ ~missed =>
    /\ (\A m \in Mutations : ~Unsettled(m)) => fetch.data = server
    /\ fetch.data # NoGuide =>
         \A i \in Items : (\A m \in Mutations : Unsettled(m) => ~Touches(muts[m], i))
                            => fetch.data[i] = server[i]

(* So is the view, but for what outstanding mutations touch, unless it is  *)
(* unsure.                                                                 *)
ViewInv ==
  view \notin {NoData, NoGuide} /\ ~unsure =>
    \A i \in Items : (\A m \in Mutations : Outstanding(m) => ~Touches(muts[m], i))
                       => view[i] = server[i]

(* Cards are held by the calendar, and swaps by the board.                 *)
HeldBy(q, where) ==
  q.held => /\ q.kind \in OfCard => where = "calendar"
            /\ q.kind \in OfBoard => where = "board"

HeldInv == \A m \in Mutations : Outstanding(m) => HeldBy(muts[m], mode)

ClosedInv == Replicated!ClosedIsTrue

IInv == TypeOK /\ FetchInv /\ AnswerInv /\ ViewInv /\ HeldInv /\ ClosedInv
-----------------------------------------------------------------------------
(* What can be said of a mutation, and what marking one changes.           *)
LEMMA MutationFacts ==
  ASSUME NEW q \in MutationType
  PROVE  /\ q # Idle /\ q.item \in Items \cup {NoItem}
         /\ q.kind \in {"toggle", "swap", "remove", "regenerate", "generate", "move"}
         /\ q.kind \in {"toggle", "swap", "remove", "move"} => q.item \in Items
         /\ q.kind \in {"regenerate", "generate"} => q.item = NoItem
         /\ q.kind \in {"toggle", "swap"} => q.to \in BOOLEAN
         /\ q.kind = "move" => q.to \in Slots /\ q.previous \in Plan
         /\ q.at \in {"sent", "done", "refused", "refetching"}
BY GuideCacheAssumption DEF MutationType, Requested

(* Marked as let go of, and as gone on, it is about the same.              *)
Alike(p, q) == p.kind = q.kind /\ p.item = q.item

LEMMA MarkFacts ==
  ASSUME NEW q \in MutationType
  PROVE  /\ [q EXCEPT !.held = FALSE] \in MutationType
         /\ Alike([q EXCEPT !.held = FALSE], q) /\ [q EXCEPT !.held = FALSE].at = q.at
         /\ [q EXCEPT !.held = FALSE].held = FALSE
BY DEF MutationType, Requested, Alike

LEMMA MarkedFacts ==
  ASSUME NEW q \in MutationType, NEW point \in {"sent", "done", "refused", "refetching"}
  PROVE  /\ [q EXCEPT !.at = point] \in MutationType
         /\ Alike([q EXCEPT !.at = point], q) /\ [q EXCEPT !.at = point].at = point
         /\ [q EXCEPT !.at = point].held = q.held
BY DEF MutationType, Requested, Alike

MutsType(ms) == ms \in [Mutations -> MutationType \cup {Idle}]

(* What is outstanding in muts is so in ms, and what is unsettled, too.    *)
Covers(ms) == \A m \in Mutations : Outstanding(m) => ms[m] # Idle /\ Alike(ms[m], muts[m])

Unsettles(ms) == \A m \in Mutations : Unsettled(m) => ms[m].at # "refetching"

(* Nothing but m is outstanding in ms, or held, that is not in muts.       *)
Within(ms, except) ==
  \A n \in Mutations \ except :
    ms[n] # Idle => /\ Outstanding(n) /\ Alike(ms[n], muts[n]) /\ ms[n].at = muts[n].at
                    /\ ms[n].held => muts[n].held

LEMMA ForgettingFacts ==
  ASSUME NEW ms, MutsType(ms), NEW unheld \in [Mutations -> BOOLEAN]
  PROVE  /\ MutsType(Forgetting(ms, unheld))
         /\ \A m \in Mutations :
              /\ Forgetting(ms, unheld)[m] # Idle <=> ms[m] # Idle
              /\ ms[m] # Idle => /\ Alike(Forgetting(ms, unheld)[m], ms[m])
                                 /\ Forgetting(ms, unheld)[m].at = ms[m].at
                                 /\ Forgetting(ms, unheld)[m].held => ms[m].held /\ ~unheld[m]
<1>1. ASSUME NEW m \in Mutations, ms[m] # Idle
      PROVE  /\ Forgetting(ms, unheld)[m] \in MutationType /\ Forgetting(ms, unheld)[m] # Idle
             /\ Alike(Forgetting(ms, unheld)[m], ms[m]) /\ Forgetting(ms, unheld)[m].at = ms[m].at
             /\ Forgetting(ms, unheld)[m].held => ms[m].held /\ ~unheld[m]
  <2>1. PICK q \in MutationType : q = ms[m]
    BY <1>1 DEF MutsType
  <2>2. CASE unheld[m]
    <3>1. Forgetting(ms, unheld)[m] = [q EXCEPT !.held = FALSE]
      BY <1>1, <2>1, <2>2 DEF Forgetting
    <3>2. PICK r \in MutationType : /\ r = [q EXCEPT !.held = FALSE] /\ Alike(r, q)
                                    /\ r.at = q.at /\ r.held = FALSE
      BY MarkFacts
    <3> QED BY <2>1, <3>1, <3>2, MutationFacts
  <2>3. CASE ~unheld[m]
    <3>1. Forgetting(ms, unheld)[m] = q
      BY <1>1, <2>1, <2>3 DEF Forgetting
    <3> QED BY <2>1, <2>3, <3>1, MutationFacts DEF Alike
  <2> QED BY <2>2, <2>3
<1>2. ASSUME NEW m \in Mutations, ms[m] = Idle
      PROVE  Forgetting(ms, unheld)[m] = Idle
  BY <1>2 DEF Forgetting
<1>3. MutsType(Forgetting(ms, unheld))
  BY <1>1, <1>2 DEF MutsType, Forgetting
<1> QED BY <1>1, <1>2, <1>3

(* Forgotten or not, the same mutations are outstanding.                   *)
LEMMA ForgottenFacts ==
  ASSUME MutsType(muts), NEW unheld \in [Mutations -> BOOLEAN]
  PROVE  /\ MutsType(Forgetting(muts, unheld))
         /\ Covers(Forgetting(muts, unheld)) /\ Unsettles(Forgetting(muts, unheld))
         /\ Within(Forgetting(muts, unheld), {})
BY ForgettingFacts DEF Covers, Unsettles, Unsettled, Within, Outstanding

LEMMA UnheldIsBoolean ==
  /\ FormGone \in [Mutations -> BOOLEAN]
  /\ \A doc : CardGone(doc) \in [Mutations -> BOOLEAN]
BY DEF FormGone, CardGone

LEMMA ReleasedFacts ==
  ASSUME MutsType(muts)
  PROVE  /\ MutsType(Released) /\ Within(Released, {})
         /\ \A m \in Mutations : /\ Released[m] # Idle <=> Unsettled(m)
                                 /\ Unsettled(m) => Released[m] = muts[m]
BY DEF MutsType, Released, Within, Unsettled, Outstanding, Alike

(* What is left when the wait for a fetch is over, and cards are gone.     *)
LEMMA LeftFacts ==
  ASSUME MutsType(muts), NEW unheld \in [Mutations -> BOOLEAN],
         NEW ms, ms = Forgetting(Released, unheld)
  PROVE  /\ MutsType(ms) /\ Within(ms, {})
         /\ \A m \in Mutations : /\ ms[m] # Idle <=> Unsettled(m)
                                 /\ Unsettled(m) => Alike(ms[m], muts[m]) /\ ms[m].at = muts[m].at
<1>1. MutsType(Released)
  BY ReleasedFacts
<1>2. /\ MutsType(ms)
      /\ \A m \in Mutations :
           /\ ms[m] # Idle <=> Released[m] # Idle
           /\ Released[m] # Idle => /\ Alike(ms[m], Released[m]) /\ ms[m].at = Released[m].at
                                    /\ ms[m].held => Released[m].held
  BY <1>1, ForgettingFacts
<1>3. \A m \in Mutations : /\ Released[m] # Idle <=> Unsettled(m)
                           /\ Unsettled(m) => Released[m] = muts[m]
  BY ReleasedFacts
<1> QED BY <1>2, <1>3 DEF Within, Unsettled

LEMMA AnsweredFacts ==
  ASSUME MutsType(muts), NEW m \in Mutations, Outstanding(m), muts[m].at \in {"sent", "done"},
         NEW at \in {"done", "refused"}, Answered(m, at)
  PROVE  /\ MutsType(muts') /\ Covers(muts') /\ Unsettles(muts')
         /\ Within(muts', {m}) /\ Alike(muts'[m], muts[m])
         /\ muts'[m] # Idle /\ muts'[m].at = at /\ muts'[m].held = muts[m].held
<1>1. /\ muts[m] \in MutationType /\ muts'[m] = [muts[m] EXCEPT !.at = at]
      /\ \A n \in Mutations \ {m} : muts'[n] = muts[n]
  BY DEF MutsType, Answered, Outstanding
<1>2. /\ muts'[m] \in MutationType /\ Alike(muts'[m], muts[m]) /\ muts'[m] # Idle
      /\ muts'[m].at = at /\ muts'[m].held = muts[m].held
  <2>1. PICK q \in MutationType : q = muts[m]
    BY <1>1
  <2>2. at \in {"sent", "done", "refused", "refetching"}
    OBVIOUS
  <2>3. /\ [q EXCEPT !.at = at] \in MutationType
        /\ Alike([q EXCEPT !.at = at], q) /\ [q EXCEPT !.at = at].at = at
        /\ [q EXCEPT !.at = at].held = q.held
    BY <2>2, MarkedFacts
  <2> QED BY <1>1, <2>1, <2>3, MutationFacts
<1>3. MutsType(muts')
  BY <1>1, <1>2 DEF MutsType, Answered
<1> QED BY <1>1, <1>2, <1>3 DEF Covers, Unsettles, Unsettled, Within, Outstanding, Alike
-----------------------------------------------------------------------------
(* The server's documents.                                                 *)
LEMMA NewPlansArePlans ==
  ASSUME NEW kept, \A i \in DOMAIN kept : kept[i] \in Row \cup {Absent}
  PROVE  NewPlans(kept) \subseteq Plan
<1> SUFFICES ASSUME NEW doc \in NewPlans(kept)
             PROVE  doc \in Plan
  OBVIOUS
<1>1. PICK used \in SUBSET {i \in Items : Unused(i)}, slot \in Slots :
        doc = [i \in Items |-> IF i \in DOMAIN kept THEN kept[i]
                              ELSE IF i \in used THEN [slot |-> slot, mark |-> FALSE] ELSE Absent]
  BY DEF NewPlans
<1>2. [slot |-> slot, mark |-> FALSE] \in Row
  BY DEF Row
<1> QED BY <1>1, <1>2 DEF Plan

LEMMA MovedInIsDocument ==
  ASSUME NEW doc \in Documents, NEW i \in Items, NEW slot \in Slots
  PROVE  /\ MovedIn(doc, i, slot) \in Documents
         /\ doc \in Plan => MovedIn(doc, i, slot) \in Plan
BY GuideCacheAssumption DEF MovedIn, Present, Documents, Plan, Row

LEMMA EffectsAreDocuments ==
  ASSUME server \in Documents, NEW q \in MutationType, ~Gone(q), NEW doc \in Effects(q)
  PROVE  /\ doc \in Documents
         /\ q.kind \in OfCard \cup OfBoard => \A i \in Items : ~Touches(q, i) => doc[i] = server[i]
<1>1. CASE q.kind = "regenerate"
  <2> DEFINE kept == [i \in {j \in Items : Present(server, j) /\ server[j].mark} |-> server[i]]
  <2>1. doc \in NewPlans(kept)
    BY <1>1 DEF Effects
  <2>2. \A i \in DOMAIN kept : kept[i] \in Row \cup {Absent}
    BY DEF Present, Documents, Plan
  <2> HIDE DEF kept
  <2> QED BY <1>1, <2>1, <2>2, NewPlansArePlans DEF Documents, OfCard, OfBoard
<1>2. CASE q.kind = "generate"
  <2>1. doc \in NewPlans(<<>>)
    BY <1>2 DEF Effects
  <2> QED BY <1>2, <2>1, NewPlansArePlans DEF Documents, OfCard, OfBoard
<1>3. CASE q.kind = "move"
  <2>1. doc = MovedIn(server, q.item, q.to)
    BY <1>3 DEF Effects
  <2> QED BY <1>3, <2>1, MutationFacts, MovedInIsDocument DEF OfCard, OfBoard
<1>4. CASE q.kind \in {"remove", "toggle", "swap"}
  <2>1. q.item \in Items /\ server \in Plan /\ server[q.item] \in Row
    BY <1>4, MutationFacts, GuideCacheAssumption DEF Gone, Present, Documents, Plan
  <2>2. CASE q.kind = "remove"
    <3>1. doc = [server EXCEPT ![q.item] = Absent]
      BY <2>2 DEF Effects
    <3> QED BY <2>1, <3>1 DEF Touches, Documents, Plan, OfCard, OfBoard
  <2>3. CASE q.kind \in {"toggle", "swap"}
    <3>1. doc = [server EXCEPT ![q.item].mark = q.to] /\ q.to \in BOOLEAN
      BY <2>3, MutationFacts DEF Effects
    <3>2. [server[q.item] EXCEPT !.mark = q.to] \in Row
      BY <2>1, <3>1 DEF Row
    <3>3. doc = [server EXCEPT ![q.item] = [server[q.item] EXCEPT !.mark = q.to]]
      BY <3>1
    <3> QED BY <2>1, <3>2, <3>3 DEF Touches, Documents, Plan, OfCard, OfBoard
  <2> QED BY <1>4, <2>2, <2>3
<1> QED BY <1>1, <1>2, <1>3, <1>4, MutationFacts
-----------------------------------------------------------------------------
(* The parts of the invariant, and what keeps them.                        *)
Open == fetch # Idle \/ failed \/ \E m \in Mutations : Outstanding(m)

LEMMA ClosedMeans == ClosedInv <=> (Open \/ missed \/ view = server)
BY DEF ClosedInv, Replicated!ClosedIsTrue, Open

LEMMA ClosedMeansNext == Open' \/ missed' \/ view' = server' => ClosedInv'
BY DEF ClosedInv, Replicated!ClosedIsTrue, Open

LEMMA AskedFacts ==
  ASSUME NEW failures \in 0..Retries, NEW after \in SUBSET Mutations
  PROVE  /\ [at |-> "asked", failures |-> failures, after |-> after] \in FetchType
         /\ [at |-> "asked", failures |-> failures, after |-> after] # Idle
BY GuideCacheAssumption DEF FetchType

LEMMA FetchFacts ==
  ASSUME NEW f \in FetchType
  PROVE  /\ f.at \in {"asked", "answered"} /\ f.failures \in 0..Retries
         /\ f.after \in SUBSET Mutations
         /\ f.at = "answered" => f.data \in Documents
BY DEF FetchType

LEMMA CoveredAnswer ==
  ASSUME AnswerInv, Covers(muts'), Unsettles(muts'), UNCHANGED <<fetch, server, missed>>
  PROVE  AnswerInv'
BY DEF AnswerInv, Covers, Unsettles, Unsettled, Outstanding, Touches, Alike

LEMMA CoveredView ==
  ASSUME ViewInv, Covers(muts'), UNCHANGED <<view, server, unsure>>
  PROVE  ViewInv'
BY DEF ViewInv, Covers, Outstanding, Touches, Alike

LEMMA FewerMoves ==
  ASSUME NEW m \in Mutations, Within(muts', {m}),
         muts'[m] # Idle => muts'[m].kind # "move" \/ (Outstanding(m) /\ muts[m].kind = "move")
  PROVE  Moves' \subseteq Moves
BY DEF Moves, Within, Outstanding, Alike

LEMMA HeldKept ==
  ASSUME HeldInv, NEW others \in SUBSET Mutations, Within(muts', others), mode' = mode,
         \A n \in others : muts'[n] # Idle => HeldBy(muts'[n], mode)
  PROVE  HeldInv'
BY DEF HeldInv, HeldBy, Within, Outstanding, Alike

LEMMA NoMoreMoves == ASSUME Within(muts', {}) PROVE Moves' \subseteq Moves
BY DEF Moves, Within, Outstanding, Alike
-----------------------------------------------------------------------------
(* The requests of the page.                                               *)
LEMMA RefocusKeeps == ASSUME IInv, Refocus PROVE IInv'
<1>1. /\ fetch' = Asked(0) /\ muts' = Forgetting(muts, FormGone) /\ MutsType(muts)
      /\ missed' = FALSE /\ UNCHANGED <<server, view, failed, mode, unsure, ops, faults>>
  BY DEF Refocus, IInv, TypeOK, MutsType
<1>2. fetch' \in FetchType /\ fetch' # Idle /\ fetch'.after = Moves /\ fetch'.at = "asked"
  <2>1. Moves \in SUBSET Mutations /\ 0 \in 0..Retries
    BY DEF Moves, Retries
  <2> QED BY <1>1, <2>1, AskedFacts DEF Asked
<1>3. MutsType(muts') /\ Covers(muts') /\ Within(muts', {})
  BY <1>1, UnheldIsBoolean, ForgottenFacts
<1>4. TypeOK'
  BY <1>1, <1>2, <1>3 DEF IInv, TypeOK, MutsType
<1>5. FetchInv' /\ AnswerInv'
  BY <1>2, <1>3, NoMoreMoves DEF FetchInv, AnswerInv
<1>6. ViewInv' /\ HeldInv'
  BY <1>1, <1>3, CoveredView, HeldKept DEF IInv
<1>7. ClosedInv'
  BY <1>2, ClosedMeansNext DEF Open
<1> QED BY <1>4, <1>5, <1>6, <1>7 DEF IInv

LEMMA SwitchKeeps == ASSUME IInv, Switch PROVE IInv'
<1> DEFINE unheld == [m \in Mutations |-> Outstanding(m) /\ muts[m].kind \in OfCard \cup OfBoard]
<1>1. /\ muts' = Forgetting(muts, unheld) /\ MutsType(muts) /\ mode' \in {"calendar", "board"}
      /\ UNCHANGED <<server, view, fetch, failed, unsure, missed, ops, faults>>
  BY DEF Switch, IInv, TypeOK, MutsType
<1>2. unheld \in [Mutations -> BOOLEAN]
  OBVIOUS
<1>3. /\ MutsType(muts') /\ Covers(muts') /\ Unsettles(muts') /\ Within(muts', {})
      /\ \A m \in Mutations : muts'[m] # Idle => (muts'[m].held => ~unheld[m])
  <2> HIDE DEF unheld
  <2> QED BY <1>1, <1>2, ForgottenFacts, ForgettingFacts
<1>4. TypeOK'
  BY <1>1, <1>3 DEF IInv, TypeOK, MutsType, Within, Outstanding
<1>5. FetchInv' /\ AnswerInv' /\ ViewInv'
  BY <1>1, <1>3, NoMoreMoves, CoveredAnswer, CoveredView DEF IInv, FetchInv
<1>6. HeldInv'
  <2> SUFFICES ASSUME NEW m \in Mutations, muts'[m] # Idle, muts'[m].held
               PROVE  muts'[m].kind \notin OfCard \cup OfBoard
    BY DEF HeldInv, HeldBy, Outstanding
  <2>1. Outstanding(m) /\ muts'[m].kind = muts[m].kind /\ ~unheld[m]
    BY <1>3 DEF Within, Alike
  <2> QED BY <2>1
<1>7. ClosedInv'
  <2>1. Open' <=> Open
    BY <1>1, <1>3 DEF Open, Outstanding, Covers, Within
  <2> QED BY <1>1, <2>1, ClosedMeans, ClosedMeansNext DEF IInv
<1> QED BY <1>4, <1>5, <1>6, <1>7 DEF IInv

LEMMA ReadsKeeps == ASSUME IInv, FetchReads PROVE IInv'
<1>1. /\ fetch \in FetchType /\ server \in Documents
      /\ UNCHANGED <<server, view, failed, muts, mode, unsure, missed, ops, faults>>
      /\ fetch' = [at |-> "answered", failures |-> fetch.failures, after |-> fetch.after,
                   data |-> server]
  BY DEF FetchReads, IInv, TypeOK
<1>2. fetch' \in FetchType /\ fetch' # Idle
  BY <1>1, FetchFacts, GuideCacheAssumption DEF FetchType
<1>3. TypeOK'
  BY <1>1, <1>2 DEF IInv, TypeOK, Outstanding
<1>4. FetchInv' /\ AnswerInv'
  BY <1>1 DEF FetchReads, IInv, FetchInv, AnswerInv, Moves, Outstanding
<1>5. ViewInv' /\ HeldInv'
  BY <1>1 DEF IInv, ViewInv, HeldInv, Outstanding, Touches
<1>6. ClosedInv'
  BY <1>2, ClosedMeansNext DEF Open
<1> QED BY <1>3, <1>4, <1>5, <1>6 DEF IInv

LEMMA ArrivesKeeps == ASSUME IInv, FetchArrives PROVE IInv'
<1>1. /\ fetch \in FetchType /\ fetch.at = "answered" /\ fetch # Idle /\ MutsType(muts)
      /\ view' = fetch.data /\ fetch' = Idle /\ failed' = FALSE /\ unsure' = missed
      /\ muts' = Forgetting(Released, CardGone(fetch.data))
      /\ UNCHANGED <<server, mode, missed, ops, faults>>
  BY DEF FetchArrives, IInv, TypeOK, MutsType
<1>2. /\ MutsType(muts') /\ Within(muts', {})
      /\ \A m \in Mutations :
           /\ muts'[m] # Idle <=> Unsettled(m)
           /\ Unsettled(m) => Alike(muts'[m], muts[m]) /\ muts'[m].at = muts[m].at
  BY <1>1, UnheldIsBoolean, LeftFacts
<1>3. TypeOK'
  BY <1>1, <1>2, FetchFacts DEF IInv, TypeOK, MutsType, Outstanding, Unsettled
<1>4. FetchInv' /\ AnswerInv'
  BY <1>1 DEF FetchInv, AnswerInv
<1>5. ViewInv'
  <2>1. CASE missed
    BY <1>1, <2>1 DEF ViewInv
  <2>2. CASE ~missed
    BY <1>1, <1>2, <2>2 DEF IInv, AnswerInv, ViewInv, Outstanding, Touches, Alike
  <2> QED BY <2>1, <2>2
<1>6. HeldInv'
  BY <1>1, <1>2, HeldKept DEF IInv
<1>7. ClosedInv'
  <2>1. CASE \E m \in Mutations : Unsettled(m)
    BY <1>2, <2>1, ClosedMeansNext DEF Open, Outstanding
  <2>2. CASE missed
    BY <1>1, <2>2, ClosedMeansNext
  <2>3. CASE ~missed /\ \A m \in Mutations : ~Unsettled(m)
    BY <1>1, <2>3, ClosedMeansNext DEF IInv, AnswerInv
  <2> QED BY <2>1, <2>2, <2>3
<1> QED BY <1>3, <1>4, <1>5, <1>6, <1>7 DEF IInv

LEMMA FailsKeeps == ASSUME IInv, FetchFails PROVE IInv'
<1>1. /\ fetch \in FetchType /\ fetch # Idle /\ MutsType(muts)
      /\ faults' \in 0..MaxFaults
      /\ UNCHANGED <<server, view, mode, ops>>
  BY GuideCacheAssumption DEF FetchFails, IInv, TypeOK, MutsType
<1>2. CASE Retried(fetch.failures)
  <2>1. /\ fetch' = [at |-> "asked", failures |-> fetch.failures + 1, after |-> fetch.after]
        /\ missed' = FALSE /\ UNCHANGED <<failed, muts, unsure>>
    BY <1>2 DEF FetchFails
  <2>2. fetch.failures + 1 \in 0..Retries /\ fetch.after \in SUBSET Mutations
    BY <1>1, <1>2, FetchFacts DEF Retried, Retries
  <2>3. fetch' \in FetchType /\ fetch' # Idle /\ fetch'.at = "asked" /\ fetch'.after = fetch.after
    BY <2>1, <2>2, AskedFacts
  <2>4. TypeOK'
    BY <1>1, <2>1, <2>3 DEF IInv, TypeOK, Outstanding
  <2>5. FetchInv' /\ AnswerInv'
    BY <1>1, <2>1, <2>3 DEF IInv, FetchInv, AnswerInv, Moves, Outstanding
  <2>6. ViewInv' /\ HeldInv'
    BY <1>1, <2>1 DEF IInv, ViewInv, HeldInv, Outstanding, Touches
  <2>7. ClosedInv'
    BY <2>3, ClosedMeansNext DEF Open
  <2> QED BY <2>4, <2>5, <2>6, <2>7 DEF IInv
<1>3. CASE ~Retried(fetch.failures)
  <2>1. fetch' = Idle /\ failed' = TRUE /\ muts' = Released /\ unsure' = TRUE /\ missed' = missed
    BY <1>3 DEF FetchFails
  <2>2. /\ MutsType(muts') /\ Within(muts', {})
        /\ \A m \in Mutations : /\ muts'[m] # Idle <=> Unsettled(m)
                                /\ Unsettled(m) => muts'[m] = muts[m]
    BY <1>1, <2>1, ReleasedFacts
  <2>3. TypeOK'
    BY <1>1, <2>1, <2>2 DEF IInv, TypeOK, MutsType, Outstanding, Unsettled
  <2>4. FetchInv' /\ AnswerInv' /\ ViewInv' /\ HeldInv'
    BY <1>1, <2>1, <2>2, HeldKept DEF IInv, FetchInv, AnswerInv, ViewInv
  <2>5. ClosedInv'
    BY <2>1, ClosedMeansNext DEF Open
  <2> QED BY <2>3, <2>4, <2>5 DEF IInv
<1> QED BY <1>2, <1>3
-----------------------------------------------------------------------------
(* The user's.                                                             *)
LEMMA StartKeeps ==
  ASSUME IInv, NEW m \in Mutations, NEW q \in MutationType, q.at = "sent", q.kind # "move",
         HeldBy(q, mode), Start(m, q),
         UNCHANGED <<server, view, fetch, failed, mode, unsure, missed, faults>>
  PROVE  IInv'
<1>1. /\ muts[m] = Idle /\ ops' \in 0..MaxOps /\ MutsType(muts)
      /\ muts' = [muts EXCEPT ![m] = q] /\ q # Idle
  BY MutationFacts, GuideCacheAssumption DEF Start, IInv, TypeOK, MutsType
<1>2. muts'[m] = q /\ \A n \in Mutations \ {m} : muts'[n] = muts[n]
  BY <1>1 DEF MutsType
<1>3. MutsType(muts') /\ Covers(muts') /\ Unsettles(muts') /\ Within(muts', {m})
  BY <1>1, <1>2 DEF MutsType, Covers, Unsettles, Unsettled, Within, Outstanding, Alike
<1>4. TypeOK'
  BY <1>1, <1>2, <1>3 DEF IInv, TypeOK, MutsType, Outstanding
<1>5. FetchInv'
  BY <1>2, <1>3, FewerMoves DEF IInv, FetchInv
<1>6. AnswerInv' /\ ViewInv' /\ HeldInv'
  <2>1. {m} \in SUBSET Mutations /\ \A n \in {m} : HeldBy(muts'[n], mode)
    BY <1>2
  <2> QED BY <1>3, <2>1, CoveredAnswer, CoveredView, HeldKept DEF IInv
<1>7. ClosedInv'
  BY <1>1, <1>2, ClosedMeansNext DEF Open, Outstanding
<1> QED BY <1>4, <1>5, <1>6, <1>7 DEF IInv

LEMMA MutationIsMutation ==
  /\ \A i \in Items, mark \in BOOLEAN, kind \in {"toggle", "swap"} :
       Mutation(kind, i, mark) \in MutationType
  /\ \A i \in Items : Mutation("remove", i, Absent) \in MutationType
  /\ \A kind \in {"regenerate", "generate"} : Mutation(kind, NoItem, Absent) \in MutationType
  /\ \A i \in Items, slot \in Slots, doc \in Plan :
       [Mutation("move", i, slot) EXCEPT !.previous = doc] \in MutationType
  /\ \A kind, i, to : Mutation(kind, i, to).at = "sent" /\ Mutation(kind, i, to).kind = kind
BY DEF Mutation, MutationType, Requested

LEMMA PresentRow ==
  ASSUME NEW doc \in Documents \cup {NoData}, NEW i \in Items, Present(doc, i)
  PROVE  doc \in Plan /\ doc[i] \in Row /\ doc[i].mark \in BOOLEAN
BY DEF Present, Documents, Plan, Row

LEMMA UserKeeps ==
  ASSUME IInv, NEW m \in Mutations,
         \/ Regenerate(m) \/ Generate(m)
         \/ \E i \in Items : CardAction(m, i) \/ Swap(m, i)
  PROVE  IInv'
<1> DEFINE Starts(q) == /\ q \in MutationType /\ q.at = "sent" /\ q.kind # "move"
                        /\ HeldBy(q, mode) /\ Start(m, q)
                        /\ UNCHANGED <<server, view, fetch, failed, mode, unsure, missed, faults>>
<1>1. ASSUME Regenerate(m) \/ Generate(m)
      PROVE  \E q : Starts(q)
  BY <1>1, MutationIsMutation DEF Regenerate, Generate, HeldBy, OfCard, OfBoard
<1>2. ASSUME NEW i \in Items, CardAction(m, i) \/ Swap(m, i)
      PROVE  \E q : Starts(q)
  <2>1. view[i].mark \in BOOLEAN
    BY <1>2, PresentRow DEF CardAction, Swap, IInv, TypeOK
  <2>2. PICK mark \in BOOLEAN : mark = ~view[i].mark
    BY <2>1, Zenon
  <2>3. UNCHANGED <<server, view, fetch, failed, mode, unsure, missed, faults>>
    BY <1>2 DEF CardAction, Swap
  <2>4. CASE CardAction(m, i)
    <3>1. /\ mode = "calendar"
          /\ Start(m, Mutation("toggle", i, mark)) \/ Start(m, Mutation("remove", i, Absent))
      BY <2>2, <2>4 DEF CardAction
    <3>2. /\ HeldBy(Mutation("toggle", i, mark), "calendar")
          /\ HeldBy(Mutation("remove", i, Absent), "calendar")
      BY MutationIsMutation DEF HeldBy, OfCard, OfBoard
    <3> QED BY <2>3, <3>1, <3>2, MutationIsMutation
  <2>5. CASE Swap(m, i)
    <3>1. mode = "board" /\ Start(m, Mutation("swap", i, mark))
      BY <2>2, <2>5 DEF Swap
    <3>2. HeldBy(Mutation("swap", i, mark), "board")
      BY MutationIsMutation DEF HeldBy, OfCard, OfBoard
    <3> QED BY <2>3, <3>1, <3>2, MutationIsMutation
  <2> QED BY <1>2, <2>4, <2>5
<1>3. PICK q : Starts(q)
  BY <1>1, <1>2
<1> QED BY <1>3, StartKeeps

LEMMA DropFacts ==
  ASSUME IInv, NEW m \in Mutations, NEW i \in Items, NEW slot \in Slots, Drop(m, i, slot)
  PROVE  /\ view \in Plan /\ view' = MovedIn(view, i, slot) /\ view' \in Plan
         /\ fetch' = Idle /\ unsure' = TRUE /\ ops' \in 0..MaxOps
         /\ muts[m] = Idle /\ muts'[m] # Idle /\ muts'[m].at = "sent" /\ muts'[m].kind = "move"
         /\ Within(muts', {m})
         /\ MutsType(muts') /\ \A n \in Mutations : muts'[n] # Idle => muts'[n].at # "refetching"
         /\ UNCHANGED <<server, failed, mode, missed, faults>>
<1>1. /\ view \in Plan /\ MutsType(muts) /\ muts[m] = Idle
      /\ view' = MovedIn(view, i, slot)
      /\ fetch' = Idle /\ unsure' = TRUE /\ ops' \in 0..MaxOps
      /\ UNCHANGED <<server, failed, mode, missed, faults>>
  BY PresentRow, GuideCacheAssumption DEF Drop, FetchAfterDrop, IInv, TypeOK, MutsType
<1>2. view' \in Plan
  BY <1>1, MovedInIsDocument DEF Documents
<1>3. PICK left, move :
        /\ left = Forgetting(Released, CardGone(MovedIn(view, i, slot)))
        /\ move = [Mutation("move", i, slot) EXCEPT !.previous = view]
        /\ muts' = [left EXCEPT ![m] = move]
  BY DEF Drop
<1>4. move \in MutationType /\ move.at = "sent" /\ move.kind = "move" /\ move # Idle
  <2>1. move \in MutationType
    BY <1>1, <1>3, MutationIsMutation
  <2>2. move.at = "sent" /\ move.kind = "move"
    BY <1>3 DEF Mutation
  <2> QED BY <2>1, <2>2, MutationFacts
<1>5. /\ MutsType(left) /\ Within(left, {})
      /\ \A n \in Mutations : left[n] # Idle => left[n].at # "refetching"
  <2>1. CardGone(MovedIn(view, i, slot)) \in [Mutations -> BOOLEAN]
    BY UnheldIsBoolean
  <2> QED BY <1>1, <1>3, <2>1, LeftFacts DEF Unsettled
<1>6. muts'[m] = move /\ \A n \in Mutations \ {m} : muts'[n] = left[n]
  BY <1>3, <1>5 DEF MutsType
<1>7. MutsType(muts')
  BY <1>3, <1>4, <1>5, <1>6 DEF MutsType
<1>8. Within(muts', {m})
  BY <1>5, <1>6 DEF Within
<1> QED BY <1>1, <1>2, <1>4, <1>5, <1>6, <1>7, <1>8

LEMMA DropKeeps ==
  ASSUME IInv, NEW m \in Mutations, NEW i \in Items, NEW slot \in Slots, Drop(m, i, slot)
  PROVE  IInv'
<1>1. TypeOK'
  BY DropFacts DEF IInv, TypeOK, MutsType, Outstanding, Documents
<1>2. FetchInv' /\ AnswerInv' /\ ViewInv'
  BY DropFacts DEF FetchInv, AnswerInv, ViewInv
<1>3. HeldInv'
  <2>1. {m} \in SUBSET Mutations /\ \A n \in {m} : HeldBy(muts'[n], mode)
    BY DropFacts DEF HeldBy, OfCard, OfBoard
  <2> QED BY <2>1, DropFacts, HeldKept DEF IInv
<1>4. ClosedInv'
  BY DropFacts, ClosedMeansNext DEF Open, Outstanding
<1> QED BY <1>1, <1>2, <1>3, <1>4 DEF IInv
-----------------------------------------------------------------------------
(* The server's, and what is lost on the way.                              *)
LEMMA AnswerKeeps ==
  ASSUME IInv, NEW m \in Mutations, Outstanding(m), muts[m].at \in {"sent", "done"},
         NEW at \in {"done", "refused"}, Answered(m, at),
         UNCHANGED <<view, fetch, failed, mode, unsure, missed, ops>>, faults' \in 0..MaxFaults,
         server' \in Documents,
         \A i \in Items : ~Touches(muts[m], i) => server'[i] = server[i]
  PROVE  IInv' /\ Outstanding(m)'
<1>1. /\ MutsType(muts') /\ Covers(muts') /\ Unsettles(muts')
      /\ Within(muts', {m}) /\ Alike(muts'[m], muts[m])
      /\ muts'[m] # Idle /\ muts'[m].at # "refetching" /\ muts'[m].held = muts[m].held
  BY AnsweredFacts DEF IInv, TypeOK, MutsType
<1>2. TypeOK'
  BY <1>1 DEF IInv, TypeOK, MutsType, Outstanding, Within
<1>3. FetchInv'
  <2>1. Moves' \subseteq Moves
    BY <1>1, FewerMoves DEF Alike
  <2> QED BY <2>1 DEF IInv, FetchInv
<1>4. AnswerInv'
  BY <1>1 DEF IInv, AnswerInv, Covers, Unsettles, Unsettled, Outstanding, Touches, Alike
<1>5. ViewInv'
  BY <1>1 DEF IInv, ViewInv, Covers, Outstanding, Touches, Alike
<1>6. HeldInv'
  <2>1. {m} \in SUBSET Mutations /\ \A n \in {m} : HeldBy(muts'[n], mode)
    BY <1>1 DEF IInv, HeldInv, HeldBy, Alike
  <2> QED BY <1>1, <2>1, HeldKept DEF IInv
<1>7. ClosedInv'
  BY <1>1, ClosedMeansNext DEF Open, Outstanding
<1> QED BY <1>1, <1>2, <1>3, <1>4, <1>5, <1>6, <1>7 DEF IInv, Outstanding

LEMMA RespondKeeps ==
  ASSUME IInv, NEW m \in Mutations, Respond(m) \/ Lose(m)
  PROVE  IInv' /\ Outstanding(m)'
<1>1. Outstanding(m) /\ server \in Documents /\ muts[m] \in MutationType
  BY DEF Respond, Accept, Refuse, Lose, IInv, TypeOK, Outstanding
<1>2. CASE Accept(m)
  <2>1. /\ server' \in Documents /\ \A i \in Items : ~Touches(muts[m], i) => server'[i] = server[i]
    BY <1>1, <1>2, EffectsAreDocuments DEF Accept, Touches
  <2>2. /\ Answered(m, "done") /\ muts[m].at \in {"sent", "done"} /\ faults' \in 0..MaxFaults
        /\ UNCHANGED <<view, fetch, failed, mode, unsure, missed, ops>>
    BY <1>2 DEF Accept, IInv, TypeOK
  <2> QED BY <1>1, <2>1, <2>2, AnswerKeeps
<1>3. CASE Refuse(m) \/ Lose(m)
  <2>1. /\ Answered(m, "refused") /\ muts[m].at \in {"sent", "done"} /\ faults' \in 0..MaxFaults
        /\ UNCHANGED <<server, view, fetch, failed, mode, unsure, missed, ops>>
    BY <1>3, GuideCacheAssumption DEF Refuse, Lose, IInv, TypeOK
  <2> QED BY <1>1, <2>1, AnswerKeeps
<1> QED BY <1>2, <1>3 DEF Respond

LEMMA SettleFacts ==
  ASSUME IInv, NEW m \in Mutations, Settle(m)
  PROVE  /\ Outstanding(m) /\ muts[m] \in MutationType
         /\ view' = IF muts[m].kind = "move" /\ muts[m].at = "refused"
                    THEN muts[m].previous ELSE view
         /\ fetch' \in FetchType /\ fetch' # Idle
         /\ \/ fetch'.at = "asked" /\ fetch'.after = Moves \ {m}
            \/ fetch' = fetch /\ (missed' \/ fetch'.at = "asked")
         /\ unsure' = (unsure \/ muts[m].kind \notin {"toggle", "remove", "swap"})
         /\ missed' \in BOOLEAN
         /\ MutsType(muts') /\ Within(muts', {m})
         /\ muts'[m] # Idle => (muts'[m].held => muts[m].held) /\ Alike(muts'[m], muts[m])
         /\ muts[m].kind \in {"toggle", "remove", "swap"} => Covers(muts')
         /\ m \notin Moves'
         /\ UNCHANGED <<server, failed, mode, ops, faults>>
<1>1. PICK q \in MutationType : q = muts[m]
  BY DEF Settle, IInv, TypeOK, Outstanding
<1>2. PICK left :
        /\ left = IF WaitsForRefetch(q) THEN [q EXCEPT !.at = "refetching"] ELSE Idle
        /\ muts' = Forgetting(Forgetting([muts EXCEPT ![m] = left], FormGone), CardGone(view'))
  BY <1>1 DEF Settle
<1>3. /\ Outstanding(m) /\ MutsType(muts)
      /\ view' = IF q.kind = "move" /\ q.at = "refused" THEN q.previous ELSE view
      /\ fetch' = IF Joins THEN fetch ELSE [Asked(0) EXCEPT !.after = Moves \ {m}]
      /\ missed' = (Joins /\ fetch.at = "answered")
      /\ unsure' = (unsure \/ q.kind \notin {"toggle", "remove", "swap"})
      /\ UNCHANGED <<server, failed, mode, ops, faults>>
  BY <1>1 DEF Settle, IInv, TypeOK, MutsType
<1>4. /\ fetch' \in FetchType /\ fetch' # Idle
      /\ \/ fetch'.at = "asked" /\ fetch'.after = Moves \ {m}
         \/ fetch' = fetch /\ (missed' \/ fetch'.at = "asked")
  <2>1. CASE Joins
    <3>1. fetch \in FetchType /\ fetch # Idle /\ fetch' = fetch
      BY <1>3, <2>1 DEF Joins, IInv, TypeOK
    <3>2. fetch.at \in {"asked", "answered"}
      BY <3>1, FetchFacts
    <3> QED BY <1>3, <2>1, <3>1, <3>2
  <2>2. CASE ~Joins
    <3>1. Moves \ {m} \in SUBSET Mutations /\ 0 \in 0..Retries
      BY DEF Moves, Retries
    <3>2. fetch' = [at |-> "asked", failures |-> 0, after |-> Moves \ {m}]
      BY <1>3, <2>2 DEF Asked
    <3> QED BY <3>1, <3>2, AskedFacts
  <2> QED BY <2>1, <2>2
<1>5. missed' \in BOOLEAN
  BY <1>3 DEF Joins
<1>6. /\ left = Idle \/ (left \in MutationType /\ Alike(left, q) /\ left # Idle /\ left.held = q.held)
      /\ q.kind \in {"toggle", "remove", "swap"} => left # Idle
      /\ q.kind = "move" => left = Idle
  <2>1. /\ [q EXCEPT !.at = "refetching"] \in MutationType
        /\ Alike([q EXCEPT !.at = "refetching"], q)
        /\ [q EXCEPT !.at = "refetching"].held = q.held
    BY MarkedFacts
  <2> QED BY <1>2, <2>1, MutationFacts DEF WaitsForRefetch
<1>7. PICK ms : ms = [muts EXCEPT ![m] = left]
  OBVIOUS
<1>8. MutsType(ms) /\ ms[m] = left /\ \A n \in Mutations \ {m} : ms[n] = muts[n]
  BY <1>3, <1>6, <1>7 DEF MutsType
<1>9. PICK ns : ns = Forgetting(ms, FormGone)
  OBVIOUS
<1>10. /\ MutsType(ns)
       /\ \A n \in Mutations :
            /\ ns[n] # Idle <=> ms[n] # Idle
            /\ ms[n] # Idle => /\ Alike(ns[n], ms[n]) /\ ns[n].at = ms[n].at
                               /\ ns[n].held => ms[n].held
  BY <1>8, <1>9, UnheldIsBoolean, ForgettingFacts
<1>11. /\ MutsType(muts')
       /\ \A n \in Mutations :
            /\ muts'[n] # Idle <=> ns[n] # Idle
            /\ ns[n] # Idle => /\ Alike(muts'[n], ns[n]) /\ muts'[n].at = ns[n].at
                               /\ muts'[n].held => ns[n].held
  <2>1. CardGone(view') \in [Mutations -> BOOLEAN]
    BY UnheldIsBoolean
  <2>2. muts' = Forgetting(ns, CardGone(view'))
    BY <1>2, <1>7, <1>9
  <2> QED BY <1>10, <2>1, <2>2, ForgettingFacts
<1>12. \A n \in Mutations :
         /\ muts'[n] # Idle <=> ms[n] # Idle
         /\ ms[n] # Idle => /\ Alike(muts'[n], ms[n]) /\ muts'[n].at = ms[n].at
                            /\ muts'[n].held => ms[n].held
  BY <1>10, <1>11 DEF Alike
<1>13. Within(muts', {m}) /\ (q.kind \in {"toggle", "remove", "swap"} => Covers(muts'))
  BY <1>1, <1>6, <1>8, <1>12 DEF Within, Covers, Outstanding, Alike
<1>14. muts'[m] # Idle => (muts'[m].held => q.held) /\ Alike(muts'[m], q)
  BY <1>6, <1>8, <1>12 DEF Alike
<1>15. m \notin Moves'
  BY <1>6, <1>8, <1>12 DEF Moves, Outstanding, Alike
<1> QED BY <1>1, <1>3, <1>4, <1>5, <1>11, <1>13, <1>14, <1>15

LEMMA SettleKeeps ==
  ASSUME IInv, NEW m \in Mutations, Settle(m)
  PROVE  IInv'
<1>1. view' \in Documents \cup {NoData}
  <2>1. muts[m].kind = "move" => muts[m].previous \in Plan
    BY SettleFacts, MutationFacts
  <2>2. view' \in {view} \/ (muts[m].kind = "move" /\ view' = muts[m].previous)
    BY SettleFacts
  <2> QED BY <2>1, <2>2 DEF IInv, TypeOK, Documents
<1>2. unsure' \in BOOLEAN
  BY SettleFacts DEF IInv, TypeOK
<1>3. TypeOK'
  BY SettleFacts, <1>1, <1>2 DEF IInv, TypeOK, MutsType
<1>4. Moves' \subseteq Moves \ {m}
  BY SettleFacts DEF Moves, Within, Outstanding, Alike
<1>5. FetchInv' /\ AnswerInv'
  <2>1. CASE fetch'.at = "asked" /\ fetch'.after = Moves \ {m}
    BY <1>4, <2>1 DEF FetchInv, AnswerInv
  <2>2. CASE fetch' = fetch /\ (missed' \/ fetch'.at = "asked")
    BY <1>4, <2>2 DEF IInv, FetchInv, AnswerInv
  <2> QED BY <2>1, <2>2, SettleFacts
<1>6. ViewInv'
  <2>1. CASE unsure'
    BY <2>1 DEF ViewInv
  <2>2. CASE ~unsure'
    <3>1. Covers(muts') /\ UNCHANGED <<view, server>> /\ ~unsure
      BY <2>2, SettleFacts
    <3> QED BY <3>1 DEF IInv, ViewInv, Covers, Outstanding, Touches, Alike
  <2> QED BY <2>1, <2>2
<1>7. HeldInv'
  <2>1. {m} \in SUBSET Mutations /\ \A n \in {m} : muts'[n] # Idle => HeldBy(muts'[n], mode)
    BY SettleFacts DEF IInv, HeldInv, HeldBy, Alike
  <2> QED BY <2>1, SettleFacts, HeldKept DEF IInv
<1>8. ClosedInv'
  BY SettleFacts, ClosedMeansNext DEF Open
<1> QED BY <1>3, <1>5, <1>6, <1>7, <1>8 DEF IInv
-----------------------------------------------------------------------------
LEMMA InitInv == Init => IInv
<1> SUFFICES ASSUME Init
             PROVE  IInv
  OBVIOUS
<1>1. /\ server \in Documents /\ view = NoData /\ failed = FALSE
      /\ muts = [m \in Mutations |-> Idle] /\ fetch = Asked(0)
      /\ mode = "calendar" /\ unsure = FALSE /\ missed = FALSE /\ ops = 0 /\ faults = 0
  BY GuideCacheAssumption DEF Init
<1>2. Moves = {} /\ \A m \in Mutations : ~Outstanding(m)
  BY <1>1 DEF Moves, Outstanding
<1>3. fetch \in FetchType /\ fetch # Idle /\ fetch.at = "asked"
  <2>1. 0 \in 0..Retries /\ Moves \in SUBSET Mutations
    BY <1>2 DEF Retries
  <2> QED BY <1>1, <2>1, AskedFacts DEF Asked
<1>4. TypeOK
  <2>1. muts \in [Mutations -> MutationType \cup {Idle}]
    BY <1>1
  <2>2. ops \in 0..MaxOps /\ faults \in 0..MaxFaults
    BY <1>1, GuideCacheAssumption
  <2> QED BY <1>1, <1>2, <1>3, <2>1, <2>2 DEF TypeOK
<1>5. FetchInv /\ AnswerInv /\ ViewInv /\ HeldInv
  BY <1>1, <1>2, <1>3 DEF FetchInv, AnswerInv, ViewInv, HeldInv
<1>6. ClosedInv
  BY <1>3, ClosedMeans DEF Open
<1> QED BY <1>4, <1>5, <1>6 DEF IInv

LEMMA NextInv == IInv /\ [Next]_vars => IInv'
<1> SUFFICES ASSUME IInv, [Next]_vars
             PROVE  IInv'
  OBVIOUS
<1>1. ASSUME NEW m \in Mutations, User(m)
      PROVE  IInv'
  BY <1>1, UserKeeps, DropKeeps DEF User
<1>2. ASSUME NEW m \in Mutations, Respond(m) \/ Lose(m) \/ Settle(m)
      PROVE  IInv'
  BY <1>2, RespondKeeps, SettleKeeps
<1>3. CASE Switch \/ Refocus \/ FetchReads \/ FetchArrives \/ FetchFails
  BY <1>3, SwitchKeeps, RefocusKeeps, ReadsKeeps, ArrivesKeeps, FailsKeeps
<1>4. CASE UNCHANGED vars
  <2>1. TypeOK' /\ FetchInv' /\ AnswerInv' /\ ViewInv' /\ HeldInv'
    BY <1>4 DEF vars, IInv, TypeOK, FetchInv, AnswerInv, ViewInv, HeldInv, Moves, Outstanding,
                Unsettled, Touches
  <2>2. ClosedInv'
    BY <1>4, ClosedMeans, ClosedMeansNext DEF vars, IInv, Open, Outstanding
  <2> QED BY <2>1, <2>2 DEF IInv
<1> QED BY <1>1, <1>2, <1>3, <1>4 DEF Next

LEMMA Invariant == Spec => []IInv
BY InitInv, NextInv, PTL DEF Spec
-----------------------------------------------------------------------------
(* Types; and whoever waits for a refetch has one under way.               *)
THEOREM TypeCorrect == Spec => []TypeOK
<1>1. IInv => TypeOK
  BY DEF IInv
<1> QED BY <1>1, Invariant, PTL

(* A card or a board that takes a click shows what the server holds,       *)
(* unless somebody drags, regenerates or loses the refetch, or what was    *)
(* clicked before has been unmounted since.                                *)
THEOREM CardsShowStored == Spec => []EnabledShowsStored
<1>1. IInv => EnabledShowsStored
  <2> SUFFICES ASSUME IInv, ~unsure, NEW i \in Items, TakesClick(i),
                      \A m \in Mutations : Outstanding(m) =>
                        muts[m].kind \in OfCard \cup OfBoard /\ (muts[m].item = i => muts[m].held)
               PROVE  view[i] = server[i]
    BY DEF EnabledShowsStored
  <2>1. view \notin {NoData, NoGuide}
    BY DEF TakesClick, Present
  <2>2. ASSUME NEW m \in Mutations, Outstanding(m), Touches(muts[m], i)
        PROVE  FALSE
    <3>1. muts[m].item = i /\ muts[m].held /\ HeldBy(muts[m], mode)
      BY <2>2 DEF Touches, IInv, HeldInv
    <3>2. CASE muts[m].kind \in OfCard
      <4>1. mode = "calendar" /\ ~Busy(OfCard, i)
        BY <3>1, <3>2 DEF HeldBy, TakesClick
      <4> QED BY <2>2, <3>1, <3>2, <4>1 DEF Busy
    <3>3. CASE muts[m].kind \in OfBoard
      <4>1. mode = "board" /\ ~Busy(OfBoard, NoItem)
        BY <3>1, <3>3 DEF HeldBy, TakesClick
      <4> QED BY <2>2, <3>1, <3>3, <4>1 DEF Busy
    <3> QED BY <2>2, <3>2, <3>3
  <2> QED BY <2>1, <2>2 DEF IInv, ViewInv
<1> QED BY <1>1, Invariant, PTL

(* The cache is a replica of the server's document: with nothing open it   *)
(* is that document, unless what was generated was missed ...              *)
THEOREM ClosedIsStored == Spec => []Replicated!ClosedIsTrue
<1>1. IInv => Replicated!ClosedIsTrue
  BY DEF IInv, ClosedInv
<1> QED BY <1>1, Invariant, PTL

(* The document changes by the answer to a mutation, outstanding before    *)
(* and after.                                                              *)
LEMMA ServerChanges ==
  ASSUME IInv, [Next]_vars, server' # server
  PROVE  Open /\ Open'
<1>1. PICK m \in Mutations : Respond(m) \/ Lose(m)
  BY DEF Next, User, Regenerate, Generate, CardAction, Swap, Drop, Settle,
         Switch, Refocus, FetchReads, FetchArrives, FetchFails, vars
<1>2. Outstanding(m) /\ Outstanding(m)'
  BY <1>1, RespondKeeps DEF Respond, Accept, Refuse, Lose
<1> QED BY <1>2 DEF Open

(* The view changes by a drop, by the end of a fetch or of a mutation.     *)
LEMMA ViewChanges ==
  ASSUME IInv, [Next]_vars, view' # view
  PROVE  Open \/ Open'
<1>1. \/ FetchArrives
      \/ \E m \in Mutations : Settle(m) \/ \E i \in Items, s \in Slots : Drop(m, i, s)
  BY DEF Next, User, Respond, Regenerate, Generate, CardAction, Swap, Accept, Refuse, Lose,
         Switch, Refocus, FetchReads, FetchFails, vars
<1>2. CASE FetchArrives
  BY <1>2 DEF FetchArrives, Open
<1>3. ASSUME NEW m \in Mutations, Settle(m)
      PROVE  Open
  BY <1>3 DEF Settle, Open
<1>4. ASSUME NEW m \in Mutations, NEW i \in Items, NEW s \in Slots, Drop(m, i, s)
      PROVE  Open'
  BY <1>4, DropFacts DEF Open, Outstanding
<1> QED BY <1>1, <1>2, <1>3, <1>4

(* Something is missed when a mutation joins a fetch, and asked for anew   *)
(* by the next one.                                                        *)
LEMMA MissedChanges ==
  ASSUME IInv, [Next]_vars, missed' # missed
  PROVE  Open' /\ (Open \/ missed' = FALSE)
<1>1. Refocus \/ FetchFails \/ \E m \in Mutations : Settle(m)
  BY DEF Next, User, Respond, Regenerate, Generate, CardAction, Swap, Drop, Accept, Refuse, Lose,
         Switch, FetchReads, FetchArrives, vars
<1>2. CASE Refocus
  <2>1. fetch' = Asked(0) /\ missed' = FALSE /\ Moves \in SUBSET Mutations /\ 0 \in 0..Retries
    BY <1>2 DEF Refocus, Moves, Retries
  <2> QED BY <2>1, AskedFacts DEF Asked, Open
<1>3. CASE FetchFails
  <2>1. fetch \in FetchType /\ fetch # Idle /\ Retried(fetch.failures)
    BY <1>3 DEF FetchFails, IInv, TypeOK
  <2>2. fetch.failures + 1 \in 0..Retries /\ fetch.after \in SUBSET Mutations
    BY <2>1, FetchFacts DEF Retried, Retries
  <2>3. fetch' = [at |-> "asked", failures |-> fetch.failures + 1, after |-> fetch.after]
    BY <1>3, <2>1 DEF FetchFails
  <2> QED BY <2>1, <2>2, <2>3, AskedFacts DEF Open
<1>4. ASSUME NEW m \in Mutations, Settle(m)
      PROVE  Open /\ Open'
  BY <1>4, SettleFacts DEF Open
<1> QED BY <1>1, <1>2, <1>3, <1>4

(* ... and every step is one that a replica may take, or none of its       *)
(* business: it closes on the document only, or with something missed, and *)
(* opens without touching it.                                              *)
LEMMA StepSimulated ==
  ASSUME IInv, [Next]_vars
  PROVE  [Replicated!Next]_(Replicated!vars)
<1>1. IInv'
  BY NextInv
<1>2. /\ server' \in Documents /\ view' \in Documents \cup {NoData}
      /\ Open \in BOOLEAN /\ Open' \in BOOLEAN /\ missed \in BOOLEAN /\ missed' \in BOOLEAN
  BY <1>1 DEF IInv, TypeOK, Open
<1>3. Open' \/ missed' \/ view' = server'
  BY <1>1 DEF IInv, ClosedInv, Replicated!ClosedIsTrue, Open
<1>4. server' = server \/ (Open /\ Open')
  BY ServerChanges
<1>5. missed' = missed \/ (Open' /\ (Open \/ missed' = FALSE))
  BY MissedChanges
<1>6. CASE Open /\ Open'
  BY <1>2, <1>6 DEF Replicated!Next, Replicated!Work, Open
<1>7. CASE Open /\ ~Open'
  BY <1>2, <1>3, <1>4, <1>5, <1>7 DEF Replicated!Next, Replicated!Close, Open
<1>8. CASE ~Open /\ Open'
  BY <1>2, <1>4, <1>5, <1>8 DEF Replicated!Next, Replicated!Open, Open
<1>9. CASE ~Open /\ ~Open'
  <2>1. UNCHANGED <<server, view, Open, missed>>
    BY <1>2, <1>4, <1>5, <1>9, ViewChanges
  <2> QED BY <2>1 DEF Replicated!vars, Open
<1> QED BY <1>6, <1>7, <1>8, <1>9

(* Put together: the safety half of the refinement (GuideReplicated).      *)
THEOREM GuideImplementsReplica ==
  Spec => Replicated!Init /\ [][Replicated!Next]_(Replicated!vars)
<1>1. Init => Replicated!Init
  <2> SUFFICES ASSUME Init
               PROVE  Replicated!Init
    OBVIOUS
  <2>1. IInv /\ fetch # Idle /\ missed = FALSE
    <3>1. fetch = Asked(0) /\ 0 \in 0..Retries /\ Moves \in SUBSET Mutations
      BY DEF Init, Retries, Moves
    <3>2. missed = FALSE
      BY DEF Init
    <3> QED BY <3>1, <3>2, InitInv, AskedFacts DEF Asked
  <2> QED BY <2>1 DEF Replicated!Init, IInv, TypeOK
<1>2. IInv /\ [Next]_vars => [Replicated!Next]_(Replicated!vars)
  BY StepSimulated
<1> QED BY <1>1, <1>2, Invariant, PTL DEF Spec

(* A dropped card stays where it was put until its PATCH is settled: only  *)
(* the rollback of another move, another drop of the card, or an answer to *)
(* a later question takes it from there.                                   *)
Stays(m) ==
  LET q == muts[m]
      In(doc) == Present(doc, q.item) /\ doc[q.item].slot = q.to
  IN  In(view) /\ ~In(view') =>
        \/ FetchArrives /\ m \in fetch.after
        \/ \E n \in Mutations \ {m} :
             \/ Settle(n) /\ muts[n].kind = "move" /\ muts[n].at = "refused"
             \/ \E s \in Slots : Drop(n, q.item, s)

LEMMA StepStays ==
  ASSUME IInv, [Next]_vars, NEW m \in Moves \cap Moves'
  PROVE  Stays(m)
<1>0. m \in Mutations /\ Outstanding(m)
  BY DEF Moves
<1>1. CASE view' = view
  BY <1>1 DEF Stays
<1>2. CASE FetchArrives
  BY <1>2 DEF Stays, FetchArrives, IInv, FetchInv
<1>3. ASSUME NEW n \in Mutations, Settle(n), view' # view
      PROVE  Stays(m)
  <2>1. n # m /\ muts[n].kind = "move" /\ muts[n].at = "refused"
    BY <1>3, SettleFacts
  <2> QED BY <1>3, <2>1 DEF Stays
<1>4. ASSUME NEW n \in Mutations, NEW i \in Items, NEW s \in Slots, Drop(n, i, s)
      PROVE  Stays(m)
  <2>1. n # m /\ view \in Plan /\ view' \in Plan /\ view' = MovedIn(view, i, s)
    BY <1>0, <1>4, DropFacts DEF Outstanding
  <2>2. CASE i = muts[m].item
    BY <1>0, <1>4, <2>1, <2>2 DEF Stays
  <2>3. CASE i # muts[m].item
    <3>1. muts[m].item \in Items
      BY <1>0, MutationFacts DEF IInv, TypeOK, Outstanding, Moves
    <3>2. view'[muts[m].item] = view[muts[m].item]
      BY <2>1, <2>3, <3>1 DEF MovedIn, Plan
    <3>3. Present(view, muts[m].item) => Present(view', muts[m].item)
      BY <2>1, <3>2, GuideCacheAssumption DEF Present, Documents
    <3> QED BY <3>2, <3>3 DEF Stays
  <2> QED BY <2>2, <2>3
<1>5. CASE Next /\ view' # view
  <2>1. \/ FetchArrives
        \/ \E n \in Mutations : Settle(n) \/ \E i \in Items, s \in Slots : Drop(n, i, s)
    BY <1>5 DEF Next, User, Respond, Regenerate, Generate, CardAction, Swap, Accept, Refuse, Lose,
                Switch, Refocus, FetchReads, FetchFails
  <2> QED BY <1>2, <1>3, <1>4, <1>5, <2>1
<1>6. CASE UNCHANGED vars
  BY <1>1, <1>6 DEF vars
<1> QED BY <1>1, <1>5, <1>6

(* A dropped card stays where it was let go until the answer to the drop   *)
(* has been handled: only another move of the user's, another's rollback,  *)
(* or a refetch asked after the drop may take it back.                     *)
THEOREM DroppedCardStays == Spec => DropStays
<1>1. IInv /\ [Next]_vars => [\A m \in Moves \cap Moves' : Stays(m)]_vars
  BY StepStays
<1>2. (\A m \in Moves \cap Moves' : Stays(m)) <=>
        \A m \in Moves \cap Moves' :
          LET q == muts[m]
              In(doc) == Present(doc, q.item) /\ doc[q.item].slot = q.to
          IN  In(view) /\ ~In(view') =>
                \/ FetchArrives /\ m \in fetch.after
                \/ \E n \in Mutations \ {m} :
                     \/ Settle(n) /\ muts[n].kind = "move" /\ muts[n].at = "refused"
                     \/ \E s \in Slots : Drop(n, q.item, s)
  BY DEF Stays
<1> QED BY <1>1, <1>2, Invariant, PTL DEF Spec, DropStays
=============================================================================
