-------------------------- MODULE Scheduler_proofs --------------------------
(***************************************************************************)
(* Theorems about Scheduler, for every input that the callers may hydrate, *)
(* every seed and every AlternateCap: what Generate returns is placed in   *)
(* the windows, clear of itself and of what was kept (the contract that    *)
(* Guides relies on); no episode is repeated, skipped, out of order or     *)
(* early; no usable gap is left; and providers carry what they show.       *)
(***************************************************************************)
EXTENDS Scheduler, FiniteSetTheorems, TLAPS

(* The plan rows that have claimed their place.                            *)
On == IF pass = "keep" THEN Kept \ todo ELSE Plan

(* What a night remembers is what the rows on its plan say.                *)
NightInv(d) ==
  /\ in.days[d].start <= night[d].next
  /\ \A r \in On : r.date = d => /\ r.end <= night[d].next
                                 /\ r.title \in night[d].titles
                                 /\ r.provider \in night[d].providers
  /\ \A t \in night[d].titles : \E r \in On : r.date = d /\ r.title = t
  /\ \A p \in night[d].providers : \E r \in On : r.date = d /\ r.provider = p

TakenInv == taken = {<<r.title, r.ep>> : r \in On}

(* A row that the engine makes, by itself ...                              *)
Timed(p) ==
  LET T == in.titles[p.title] IN
  T.airing /\ p.ep \in DOMAIN T.airs =>
     /\ T.airs[p.ep] <= p.date
     /\ p.pinned => T.airs[p.ep] = p.date

RowOK(p) ==
  /\ p.date \in Dates /\ Enabled(p.date) /\ p.title \in Titles
  /\ p.start \in Nat /\ p.end \in Nat /\ p.start < p.end
  /\ Fits(p, in.days[p.date])
  /\ p.provider \in in.titles[p.title].providers
  /\ p.ep \in Nat \X Nat /\ (in.titles[p.title].movie <=> p.ep = NoEpisode)
  /\ Timed(p)

(* ... and among the others: apart from each of them in time, title and    *)
(* episode, and on a provider of its own only if it has to be.             *)
Apart(p, r) == Compatible(p, r) /\ <<r.title, r.ep>> # <<p.title, p.ep>>

OpensLast(p) ==
  \A r \in Plan :
    /\ r.date = p.date /\ (r.start < p.start \/ r \in Kept)
    /\ r.provider \in in.titles[p.title].providers
    => \E q \in Plan : q # p /\ q.date = p.date /\ q.provider = p.provider

RowsInv ==
  \A p \in placed :
    /\ RowOK(p) /\ OpensLast(p)
    /\ \A r \in Kept : Apart(p, r)
    /\ \A r \in placed \ {p} : Apart(p, r)

StateOK ==
  /\ in \in Inputs
  /\ night \in [Dates -> [next : Nat, titles : SUBSET Nat, providers : SUBSET Nat]]
  /\ taken \subseteq Nat \X (Nat \X Nat)
  /\ count \in [Titles -> Nat]

Core ==
  /\ StateOK
  /\ pass = "keep" => placed = {}
  /\ \A d \in Dates : NightInv(d)
  /\ TakenInv
  /\ RowsInv
-----------------------------------------------------------------------------
(* The input.                                                              *)
LEMMA InputFacts ==
  ASSUME in \in Inputs
  PROVE  /\ IsFiniteSet(Dates) /\ IsFiniteSet(Titles) /\ Dates \subseteq Int /\ Titles \subseteq Nat
         /\ \A d \in Dates : /\ in.days[d].start \in Nat /\ in.days[d].end \in Nat
                             /\ Enabled(d) <=> in.days[d] # NightOff
         /\ \A t \in Titles : TitleOK(in.titles[t])
         /\ \A k \in Kept : /\ KeepOK(k)
                            /\ k.title \in Titles => (in.titles[k.title].movie <=> k.ep = NoEpisode)
BY InputsAssumption DEF InputOK, WindowOK, Dates, Titles, Kept, Enabled

(* Numbers have a least, and episodes a first.                             *)
LEMMA LeastFacts ==
  ASSUME NEW S \in SUBSET Nat, S # {}
  PROVE  Least(S) \in S /\ \A y \in S : Least(S) <= y
<1>1. PICK m \in S : TRUE
  OBVIOUS
<1>2. IsFiniteSet(0..m)
  BY FS_Interval
<1>3. PICK T : T = {0..n : n \in {k \in S : k <= m}}
  OBVIOUS
<1>4. T \subseteq FiniteSubsetsOf(0..m) /\ T # {}
  BY <1>1, <1>2, <1>3, FS_Subset DEF FiniteSubsetsOf
<1>5. \E s \in T : \A y \in T : ~(<<y, s>> \in StrictSubsetOrdering(0..m))
  BY <1>4, WFMin, FS_StrictSubsetOrderingWellFounded
<1>6. PICK x \in {k \in S : k <= m} : \A y \in T : ~(<<y, 0..x>> \in StrictSubsetOrdering(0..m))
  BY <1>3, <1>5
<1>7. ASSUME NEW y \in S
      PROVE  x <= y
  <2>1. SUFFICES ASSUME y < x
                 PROVE  FALSE
    OBVIOUS
  <2>2. y <= m /\ 0..y \in T
    BY <1>3, <2>1
  <2>3. 0..y \subseteq 0..x /\ 0..y # 0..x /\ 0..y \subseteq 0..m /\ 0..x \subseteq 0..m
    <3>1. x \in 0..x /\ x \notin 0..y
      BY <2>1
    <3> QED BY <2>1, <2>2, <3>1
  <2> QED BY <1>6, <2>2, <2>3 DEF StrictSubsetOrdering
<1> QED BY <1>7 DEF Least

LEMMA FirstExists ==
  ASSUME NEW S \in SUBSET (Nat \X Nat), S # {}
  PROVE  \E k \in S : \A l \in S : k = l \/ Earlier(k, l)
<1>1. PICK seasons : seasons = {k[1] : k \in S}
  OBVIOUS
<1>2. seasons \in SUBSET Nat /\ seasons # {}
  BY <1>1
<1>3. PICK s \in seasons : \A y \in seasons : s <= y
  BY <1>2, LeastFacts
<1>4. PICK numbers : numbers = {k[2] : k \in {l \in S : l[1] = s}}
  OBVIOUS
<1>5. numbers \in SUBSET Nat /\ numbers # {}
  BY <1>1, <1>3, <1>4
<1>6. PICK n \in numbers : \A y \in numbers : n <= y
  BY <1>5, LeastFacts
<1>7. PICK k \in S : k[1] = s /\ k[2] = n
  BY <1>4, <1>6
<1>8. ASSUME NEW l \in S
      PROVE  k = l \/ Earlier(k, l)
  <2>1. l[1] \in seasons /\ l \in Nat \X Nat /\ k \in Nat \X Nat
    BY <1>1
  <2>2. s <= l[1]
    BY <1>3, <2>1
  <2>3. l[1] = s => n <= l[2]
    BY <1>4, <1>6
  <2> QED BY <1>7, <2>1, <2>2, <2>3 DEF Earlier
<1> QED BY <1>8
LEMMA EarlierFacts ==
  ASSUME NEW k \in Nat \X Nat, NEW l \in Nat \X Nat
  PROVE  /\ ~(Earlier(k, l) /\ Earlier(l, k)) /\ ~Earlier(k, k)
         /\ k = l \/ Earlier(k, l) \/ Earlier(l, k)
BY DEF Earlier
-----------------------------------------------------------------------------
(* A row for title t on night d.                                           *)
LEMMA RowFacts ==
  ASSUME StateOK, NEW t \in Titles, NEW d \in Dates, HasRoom(t, d), NEW ep, NEW pinned,
         in.titles[t].providers # {}, in.days[d].start <= night[d].next
  PROVE  LET row == Row(t, ep, d, pinned) IN
         /\ row.date = d /\ row.title = t /\ row.ep = ep /\ row.pinned = pinned
         /\ row.start = night[d].next /\ row.start \in Nat /\ row.end \in Nat /\ row.start < row.end
         /\ Enabled(d) /\ Fits(row, in.days[d])
         /\ row.provider \in in.titles[t].providers /\ row.provider \in Nat
         /\ in.titles[t].providers \cap night[d].providers # {}
              => row.provider \in night[d].providers
<1>1. in \in Inputs /\ night[d] \in [next : Nat, titles : SUBSET Nat, providers : SUBSET Nat]
  BY DEF StateOK
<1>2. TitleOK(in.titles[t]) /\ in.days[d].end \in Nat
  BY <1>1, InputFacts
<1>3. in.titles[t].runtime \in Nat \ {0} /\ in.titles[t].providers \subseteq Nat
  BY <1>2 DEF TitleOK
<1>4. PickProvider(t, d) \in in.titles[t].providers
  BY <1>3, LeastFacts DEF PickProvider
<1>5. in.titles[t].providers \cap night[d].providers # {}
        => PickProvider(t, d) \in night[d].providers
  BY <1>3, LeastFacts DEF PickProvider
<1>6. Enabled(d) /\ in.titles[t].runtime <= in.days[d].end - night[d].next
  BY DEF HasRoom, Remaining
<1>7. night[d].next + in.titles[t].runtime \in Nat
      /\ night[d].next < night[d].next + in.titles[t].runtime
      /\ night[d].next + in.titles[t].runtime <= in.days[d].end
  BY <1>1, <1>2, <1>3, <1>6
<1> QED BY <1>1, <1>3, <1>4, <1>5, <1>6, <1>7 DEF Row, Fits

(* Where a pass may put a row.                                             *)
MayPlace(t, ep, d, pinned) ==
  /\ t \in Titles /\ d \in Dates /\ HasRoom(t, d) /\ in.titles[t].providers # {}
  /\ ep \in Nat \X Nat /\ (in.titles[t].movie <=> ep = NoEpisode)
  /\ <<t, ep>> \notin taken /\ t \notin night[d].titles
  /\ LET T == in.titles[t] IN
     T.airing /\ ep \in DOMAIN T.airs => T.airs[ep] <= d /\ (pinned => T.airs[ep] = d)

(* The new row is clear of all that have claimed their place.              *)
LEMMA RowIsApart ==
  ASSUME Core, pass # "keep", NEW t, NEW ep, NEW d, NEW pinned, MayPlace(t, ep, d, pinned),
         NEW row, row = Row(t, ep, d, pinned)
  PROVE  /\ RowOK(row)
         /\ \A r \in Plan : Apart(row, r) /\ Apart(r, row)
         /\ \A r \in Plan : r.date = row.date => r.title # row.title
         /\ row \notin Plan
<1>1. /\ row.date = d /\ row.title = t /\ row.ep = ep /\ row.pinned = pinned
      /\ row.start = night[d].next /\ row.start \in Nat /\ row.end \in Nat /\ row.start < row.end
      /\ Enabled(d) /\ Fits(row, in.days[d])
      /\ row.provider \in in.titles[t].providers
  BY RowFacts DEF Core, NightInv, MayPlace
<1>2. RowOK(row)
  BY <1>1 DEF RowOK, MayPlace, Timed
<1>3. On = Plan /\ NightInv(d)
  BY DEF On, Core, MayPlace
<1>4. ASSUME NEW r \in Plan
      PROVE  /\ r.date = d => r.title # t /\ r.end <= night[d].next
             /\ <<r.title, r.ep>> # <<t, ep>>
  BY <1>3 DEF NightInv, MayPlace, Core, TakenInv
<1>5. ASSUME NEW r \in Plan
      PROVE  Apart(row, r) /\ Apart(r, row)
  <2>1. r.end \in Int
    BY InputFacts DEF Plan, Core, StateOK, KeepOK, RowsInv, RowOK
  <2>2. r.date = d => ~(row.start < r.end)
    BY <1>1, <1>4, <2>1
  <2> QED BY <1>1, <1>4, <2>2 DEF Apart, Compatible, Overlap
<1>6. \A r \in Plan : r.date = row.date => r.title # row.title
  BY <1>1, <1>4
<1> QED BY <1>2, <1>5, <1>6

LEMMA PlaceState ==
  ASSUME Core, pass # "keep", UNCHANGED <<in, pass>>,
         NEW t, NEW ep, NEW d, NEW pinned, MayPlace(t, ep, d, pinned),
         Place(t, ep, d, pinned), NEW row, row = Row(t, ep, d, pinned)
  PROVE  /\ StateOK'
         /\ placed' = placed \cup {row} /\ taken' = taken \cup {<<t, ep>>}
         /\ Kept' = Kept /\ Dates' = Dates /\ Titles' = Titles
         /\ On' = On \cup {row} /\ On = Plan /\ Plan' = Plan \cup {row}
         /\ \A e \in Dates \ {d} : night'[e] = night[e]
         /\ night'[d].next = row.end /\ night'[d].titles = night[d].titles \cup {t}
         /\ night'[d].providers = night[d].providers \cup {row.provider}
<1>1. /\ row.date = d /\ row.title = t /\ row.ep = ep /\ row.end \in Nat /\ row.provider \in Nat
  BY RowFacts DEF Core, NightInv, MayPlace
<1>2. /\ placed' = placed \cup {row} /\ taken' = taken \cup {<<t, ep>>}
      /\ night' = [night EXCEPT ![d] = Occupy(night[d], row.end, t, row.provider)]
      /\ count' = [count EXCEPT ![t] = @ + 1]
  BY DEF Place
<1>3. Kept' = Kept /\ Dates' = Dates /\ Titles' = Titles
  BY DEF Kept, Dates, Titles
<1>4. On' = On \cup {row} /\ On = Plan /\ Plan' = Plan \cup {row}
  BY <1>2, <1>3 DEF On, Plan
<1>5. t \in Titles /\ d \in Dates /\ ep \in Nat \X Nat /\ t \in Nat
  BY InputFacts DEF MayPlace, Core, StateOK
<1>6. night[d] \in [next : Nat, titles : SUBSET Nat, providers : SUBSET Nat]
  BY <1>5 DEF Core, StateOK
<1>7. Occupy(night[d], row.end, t, row.provider)
        \in [next : Nat, titles : SUBSET Nat, providers : SUBSET Nat]
  BY <1>1, <1>5, <1>6 DEF Occupy
<1>8. StateOK'
  BY <1>2, <1>3, <1>5, <1>7 DEF Core, StateOK
<1>9. night'[d] = Occupy(night[d], row.end, t, row.provider)
      /\ \A e \in Dates \ {d} : night'[e] = night[e]
  BY <1>2, <1>5 DEF Core, StateOK
<1> QED BY <1>2, <1>3, <1>4, <1>8, <1>9 DEF Occupy

LEMMA PlaceKeeps ==
  ASSUME Core, pass # "keep", UNCHANGED <<in, pass>>,
         NEW t, NEW ep, NEW d, NEW pinned, MayPlace(t, ep, d, pinned),
         Place(t, ep, d, pinned)
  PROVE  Core'
<1>1. PICK row : row = Row(t, ep, d, pinned)
  OBVIOUS
<1>2. /\ StateOK'
      /\ placed' = placed \cup {row} /\ taken' = taken \cup {<<t, ep>>}
      /\ Kept' = Kept /\ Dates' = Dates /\ Titles' = Titles
      /\ On' = On \cup {row} /\ On = Plan /\ Plan' = Plan \cup {row}
      /\ \A e \in Dates \ {d} : night'[e] = night[e]
      /\ night'[d].next = row.end /\ night'[d].titles = night[d].titles \cup {t}
      /\ night'[d].providers = night[d].providers \cup {row.provider}
  BY <1>1, PlaceState
<1>3. /\ row.date = d /\ row.title = t /\ row.ep = ep
      /\ row.start = night[d].next /\ row.end \in Nat /\ row.start \in Nat /\ row.start < row.end
      /\ in.titles[t].providers \cap night[d].providers # {}
           => row.provider \in night[d].providers
      /\ d \in Dates
  BY <1>1, RowFacts DEF Core, NightInv, MayPlace
<1>4. /\ RowOK(row)
      /\ \A r \in Plan : Apart(row, r) /\ Apart(r, row)
      /\ \A r \in Plan : r.date = row.date => r.title # row.title
      /\ row \notin Plan
  BY <1>1, RowIsApart
<1>5. ASSUME NEW e \in Dates
      PROVE  NightInv(e)'
  <2>1. NightInv(e)
    BY DEF Core
  <2>2. CASE e # d
    BY <1>2, <1>3, <2>1, <2>2 DEF NightInv
  <2>3. CASE e = d
    <3>1. /\ in.days[d].start \in Nat /\ night[d].next \in Nat
          /\ \A r \in Plan : r.date = d => r.end \in Int
      BY <1>3, InputFacts DEF Core, StateOK, KeepOK, RowsInv, RowOK, Plan
    <3>2. in'.days[d].start <= night'[d].next
      BY <1>2, <1>3, <2>1, <2>3, <3>1 DEF NightInv
    <3>3. ASSUME NEW r \in On', r.date = d
          PROVE  /\ r.end <= night'[d].next
                 /\ r.title \in night'[d].titles
                 /\ r.provider \in night'[d].providers
      <4>1. CASE r = row
        BY <1>2, <1>3, <4>1
      <4>2. CASE r \in On
        <5>1. r.end <= night[d].next /\ r.title \in night[d].titles /\ r.provider \in night[d].providers
          BY <2>1, <2>3, <3>3, <4>2 DEF NightInv
        <5>2. r.end \in Int
          BY <1>2, <3>1, <3>3, <4>2
        <5> QED BY <1>2, <1>3, <3>1, <5>1, <5>2
      <4> QED BY <1>2, <4>1, <4>2
    <3>4. \A u \in night'[d].titles : \E r \in On' : r.date = d /\ r.title = u
      BY <1>2, <1>3, <2>1, <2>3 DEF NightInv
    <3>5. \A p \in night'[d].providers : \E r \in On' : r.date = d /\ r.provider = p
      BY <1>2, <1>3, <2>1, <2>3 DEF NightInv
    <3> QED BY <2>3, <3>2, <3>3, <3>4, <3>5 DEF NightInv
  <2> QED BY <2>2, <2>3
<1>6. TakenInv'
  BY <1>2, <1>3 DEF Core, TakenInv
<1>7. OpensLast(row)'
  <2> SUFFICES ASSUME NEW r \in Plan', r.date = d, r.start < row.start \/ r \in Kept,
                      r.provider \in in.titles[t].providers
               PROVE  \E q \in Plan' : q # row /\ q.date = d /\ q.provider = row.provider
    BY <1>2, <1>3 DEF OpensLast
  <2>1. r \in Plan
    BY <1>2, <1>3 DEF Plan
  <2>2. r.provider \in night[d].providers
    BY <1>2, <1>3, <2>1 DEF Core, NightInv
  <2>3. row.provider \in night[d].providers
    BY <1>3, <2>2
  <2>4. PICK q \in Plan : q.date = d /\ q.provider = row.provider
    BY <1>2, <1>3, <2>3 DEF Core, NightInv
  <2> QED BY <1>2, <1>4, <2>4
<1>8. ASSUME NEW p \in placed
      PROVE  /\ RowOK(p)' /\ OpensLast(p)'
             /\ \A r \in Kept' : Apart(p, r)
             /\ \A r \in placed' \ {p} : Apart(p, r)
  <2>1. RowOK(p) /\ OpensLast(p) /\ p \in Plan
    BY DEF Core, RowsInv, Plan
  <2>2. RowOK(p)'
    BY <1>2, <2>1 DEF RowOK, Timed, Enabled
  <2>3. OpensLast(p)'
    <3> SUFFICES ASSUME NEW r \in Plan', r.date = p.date, r.start < p.start \/ r \in Kept,
                        r.provider \in in.titles[p.title].providers
                 PROVE  \E q \in Plan' : q # p /\ q.date = p.date /\ q.provider = p.provider
      BY <1>2 DEF OpensLast
    <3>1. r # row
      <4>1. SUFFICES ASSUME r = row
                     PROVE  FALSE
        OBVIOUS
      <4>2. p.date = d /\ row.start < p.start
        BY <1>3, <1>4, <4>1 DEF Plan
      <4>3. p.end <= row.start /\ p.start < p.end /\ p.end \in Nat /\ p.start \in Nat
        BY <1>2, <1>3, <2>1, <4>2 DEF Core, NightInv, RowOK
      <4> QED BY ONLY <1>3, <4>2, <4>3
    <3>2. r \in Plan
      BY <1>2, <3>1
    <3> QED BY <1>2, <2>1, <3>2 DEF OpensLast
  <2> QED BY <1>2, <1>4, <2>1, <2>2, <2>3 DEF Core, RowsInv
<1>9. RowsInv'
  <2>1. RowOK(row)'
    BY <1>2, <1>4 DEF RowOK, Timed, Enabled
  <2> QED BY <1>2, <1>4, <1>7, <1>8, <2>1 DEF RowsInv, Plan
<1> QED BY <1>2, <1>5, <1>6, <1>9 DEF Core
-----------------------------------------------------------------------------
(* A pass works through what it has to visit; the later passes have not    *)
(* begun.                                                                  *)
PassInv ==
  /\ pass \in Passes
  /\ pass = "keep" => todo \subseteq in.keep
  /\ pass = "airpins" => todo \subseteq AirEpisodes
  /\ pass = "movies" => todo \subseteq Movies
  /\ pass = "fill" => todo \subseteq OpenNights
  /\ pass = "alternates" => todo \subseteq {r \in Plan : r.date \in Dates}
  /\ alts # {} => pass = "done" \/ (pass = "alternates" /\ todo = {})

(* Of a series, what has been filled in comes before all that is left, and *)
(* stands on the nights up to the one that is being filled.                *)
Filled(p) == ~p.pinned /\ ~in.titles[p.title].movie

ViewInv ==
  /\ \A p \in placed : Filled(p) =>
       /\ pass \notin {"keep", "airpins", "movies"}
       /\ pass = "fill" => \A d \in todo : p.date <= d
       /\ \A k \in Unplaced(p.title) : Earlier(p.ep, k)
  /\ InViewingOrder

(* What a pass has visited is as the pass leaves it, from then on.         *)
Appointed(a) ==
  LET d == in.titles[a[1]].airs[a[2]] IN
  d \in Dates /\ HasRoom(a[1], d) => a[1] \in night[d].titles \/ <<a[1], a[2]>> \in taken

Shown(t) == <<t, NoEpisode>> \in taken \/ \A d \in Dates : ~HasRoom(t, d)

Full(d) ==
  \A t \in Titles :
    LET T == in.titles[t] IN
    HasRoom(t, d) /\ T.providers # {} /\ ~T.airing /\ ~T.movie
      => t \in night[d].titles \/ Unplaced(t) = {}

Visited(p, work) == work \ (IF pass = p THEN todo ELSE {})

GoalInv ==
  /\ pass # "keep" => \A a \in Visited("airpins", AirEpisodes) : Appointed(a)
  /\ pass \notin {"keep", "airpins"} => \A t \in Visited("movies", Movies) : Shown(t)
  /\ pass \notin {"keep", "airpins", "movies"} =>
       \A d \in Visited("fill", OpenNights) : Full(d)

(* The alternates, which come last.                                        *)
OfferOK(a) ==
  /\ a.date \in Dates /\ a.end <= in.days[a.date].end
  /\ \E p \in Plan : p.date = a.date /\ p.start = a.start
  /\ \A p \in Plan : /\ p.date = a.date => p.title # a.title
                     /\ p.title = a.title => p.ep # a.ep
  /\ a.provider = a.slot.provider => in.titles[a.title].providers = {a.slot.provider}
  /\ Cardinality({b \in alts : b.slot = a.slot}) <= AlternateCap

AltsInv == \A a \in alts : OfferOK(a)

IInv == Core /\ PassInv /\ ViewInv /\ GoalInv /\ AltsInv
-----------------------------------------------------------------------------
(* What the steps have in common.  Claims only grow, and room only         *)
(* shrinks.                                                                *)
Grows ==
  /\ in' = in /\ taken \subseteq taken'
  /\ \A d \in Dates : /\ night[d].titles \subseteq night'[d].titles
                      /\ \A t \in Titles : HasRoom(t, d)' => HasRoom(t, d)

LEMMA Static ==
  ASSUME in' = in
  PROVE  /\ AirEpisodes' = AirEpisodes /\ Movies' = Movies /\ OpenNights' = OpenNights
         /\ Kept' = Kept /\ Dates' = Dates /\ Titles' = Titles
         /\ \A t : EpisodesAhead(t)' = EpisodesAhead(t)
BY DEF AirEpisodes, Movies, OpenNights, Kept, Dates, Titles, EpisodesAhead, Enabled

LEMMA GrowsFacts ==
  ASSUME Grows
  PROVE  /\ \A t : Unplaced(t)' \subseteq Unplaced(t)
         /\ \A a \in AirEpisodes : Appointed(a) => Appointed(a)'
         /\ \A t \in Titles : Shown(t) => Shown(t)'
         /\ \A d \in Dates : Full(d) => Full(d)'
<1>1. /\ in' = in /\ taken \subseteq taken' /\ Dates' = Dates /\ Titles' = Titles
      /\ \A t : EpisodesAhead(t)' = EpisodesAhead(t)
  BY Static DEF Grows
<1>2. \A d \in Dates : /\ night[d].titles \subseteq night'[d].titles
                       /\ \A t \in Titles : HasRoom(t, d)' => HasRoom(t, d)
  BY DEF Grows
<1>3. \A t : Unplaced(t)' \subseteq Unplaced(t)
  BY <1>1 DEF Unplaced
<1>4. \A a \in AirEpisodes : a[1] \in Titles
  BY SMTT(30) DEF AirEpisodes
<1>5. \A a \in AirEpisodes : Appointed(a) => Appointed(a)'
  BY <1>1, <1>2, <1>4 DEF Appointed
<1>6. \A t \in Titles : Shown(t) => Shown(t)'
  BY <1>1, <1>2 DEF Shown
<1>7. \A d \in Dates : Full(d) => Full(d)'
  BY <1>1, <1>2, <1>3 DEF Full
<1> QED BY <1>3, <1>5, <1>6, <1>7

LEMMA PlaceGrows ==
  ASSUME Core, pass # "keep", UNCHANGED <<in, pass>>,
         NEW t, NEW ep, NEW d, NEW pinned, MayPlace(t, ep, d, pinned), Place(t, ep, d, pinned)
  PROVE  Grows
<1>1. PICK row : row = Row(t, ep, d, pinned)
  OBVIOUS
<1>2. /\ taken' = taken \cup {<<t, ep>>}
      /\ \A e \in Dates \ {d} : night'[e] = night[e]
      /\ night'[d].next = row.end /\ night'[d].titles = night[d].titles \cup {t}
      /\ d \in Dates /\ t \in Titles
  BY <1>1, PlaceState DEF MayPlace
<1>3. row.start = night[d].next /\ row.start \in Nat /\ row.end \in Nat /\ row.start < row.end
  BY <1>1, RowFacts DEF MayPlace, Core, NightInv
<1>4. ASSUME NEW e \in Dates, NEW u \in Titles, HasRoom(u, e)'
      PROVE  HasRoom(u, e)
  <2>1. CASE e # d
    BY <1>2, <1>4, <2>1 DEF HasRoom, Remaining, Enabled
  <2>2. CASE e = d
    <3>1. in.days[d].end \in Int /\ in.titles[u].runtime \in Int
      BY <1>2, <1>4, InputFacts DEF Core, StateOK, TitleOK
    <3>2. in.titles[u].runtime <= in.days[d].end - row.end /\ Enabled(e)
      BY <1>2, <1>4, <2>2 DEF HasRoom, Remaining, Enabled
    <3>3. in.titles[u].runtime <= in.days[d].end - night[d].next
      BY ONLY <1>3, <3>1, <3>2
    <3> QED BY <2>2, <3>2, <3>3 DEF HasRoom, Remaining
  <2> QED BY <2>1, <2>2
<1> QED BY <1>2, <1>4 DEF Grows

LEMMA NothingGrows ==
  ASSUME in' = in, PlaceNothing
  PROVE  Grows
BY DEF PlaceNothing, Grows, HasRoom, Remaining, Enabled

LEMMA NothingKeeps ==
  ASSUME Core, in' = in, PlaceNothing, On' = On, pass' = "keep" => pass = "keep"
  PROVE  Core'
<1>1. /\ Kept' = Kept /\ Dates' = Dates /\ Titles' = Titles
      /\ UNCHANGED <<in, night, taken, count, placed>>
  BY Static DEF PlaceNothing
<1>2. Plan' = Plan
  BY <1>1 DEF Plan
<1>3. \A d \in Dates : NightInv(d)'
  BY <1>1 DEF Core, NightInv
<1>4. RowsInv'
  BY <1>1, <1>2 DEF Core, RowsInv, RowOK, OpensLast, Timed, Enabled
<1>5. StateOK' /\ TakenInv'
  BY <1>1 DEF Core, StateOK, TakenInv
<1> QED BY <1>1, <1>3, <1>4, <1>5 DEF Core
-----------------------------------------------------------------------------
(* The passes that do not fill in.                                         *)
LEMMA PlaceViewKeeps ==
  ASSUME Core, ViewInv, UNCHANGED <<in, pass>>, pass \in {"airpins", "movies"},
         NEW t, NEW ep, NEW d, NEW pinned, MayPlace(t, ep, d, pinned), Place(t, ep, d, pinned),
         pinned \/ in.titles[t].movie
  PROVE  ViewInv'
<1>1. PICK row : row = Row(t, ep, d, pinned)
  OBVIOUS
<1>2. placed' = placed \cup {row} /\ row.pinned = pinned /\ row.title = t /\ row.ep = ep
  BY <1>1, PlaceState, RowFacts DEF MayPlace, Core, NightInv
<1>3. \A p \in placed' : ~Filled(p)'
  BY <1>2 DEF ViewInv, Filled
<1>4. Core'
  BY PlaceKeeps
<1>5. ASSUME NEW p \in placed', NEW q \in placed', p.title = q.title, p.date < q.date,
             ~p.pinned, ~q.pinned
      PROVE  FALSE
  <2>1. in'.titles[p.title].movie /\ in'.titles[q.title].movie
    BY <1>3, <1>5 DEF Filled
  <2>2. RowOK(p)' /\ RowOK(q)' /\ (p # q => Apart(p, q))
    BY <1>4 DEF Core, RowsInv
  <2>3. p.date \in Int
    BY <1>4, <2>2, InputFacts, Static DEF RowOK, Core, StateOK
  <2>4. p # q
    BY <1>5, <2>3
  <2>5. p.ep = NoEpisode /\ q.ep = NoEpisode
    BY <2>1, <2>2 DEF RowOK
  <2> QED BY <1>5, <2>2, <2>4, <2>5 DEF Apart
<1> QED BY <1>3, <1>5 DEF ViewInv, InViewingOrder

LEMMA NothingViewKeeps ==
  ASSUME ViewInv, in' = in, PlaceNothing, todo' \subseteq todo, pass' = pass
  PROVE  ViewInv'
<1>1. \A t : EpisodesAhead(t)' = EpisodesAhead(t)
  BY Static
<1> QED BY <1>1 DEF ViewInv, PlaceNothing, Filled, Unplaced, InViewingOrder

LEMMA KeepRowKeeps ==
  ASSUME IInv, KeepRow
  PROVE  IInv'
<1>1. PICK k \in todo :
        /\ todo' = todo \ {k}
        /\ night' = IF k.plan /\ k.date \in Dates
                    THEN [night EXCEPT ![k.date] =
                            Occupy(night[k.date], IF k.end > night[k.date].next THEN k.end
                                                  ELSE night[k.date].next,
                                   k.title, k.provider)]
                    ELSE night
        /\ taken' = IF k.plan THEN taken \cup {<<k.title, k.ep>>} ELSE taken
        /\ count' = IF k.plan /\ k.title \in Titles
                    THEN [count EXCEPT ![k.title] = @ + 1] ELSE count
  BY DEF KeepRow
<1>2. /\ pass = "keep" /\ pass' = "keep" /\ UNCHANGED <<in, placed, alts>>
      /\ todo \subseteq in.keep /\ placed = {} /\ alts = {}
      /\ Kept' = Kept /\ Dates' = Dates /\ Titles' = Titles
  BY Static DEF KeepRow, IInv, PassInv, Core
<1>3. On' = IF k.plan THEN On \cup {k} ELSE On
  BY <1>1, <1>2 DEF On, Kept
<1>4. k.plan => KeepOK(k) /\ k \in Kept
  BY <1>1, <1>2, InputFacts DEF Kept, IInv, Core, StateOK
<1>5. StateOK /\ (\A d \in Dates : NightInv(d)) /\ TakenInv
  BY DEF IInv, Core
<1>6. ASSUME k.plan, k.date \in Dates
      PROVE  /\ \A d \in Dates' : NightInv(d)'
             /\ night' \in [Dates' -> [next : Nat, titles : SUBSET Nat, providers : SUBSET Nat]]
  <2>1. PICK end : end = IF k.end > night[k.date].next THEN k.end ELSE night[k.date].next
    OBVIOUS
  <2>2. /\ k.title \in Nat /\ k.provider \in Nat /\ k.end \in Nat
        /\ night[k.date] \in [next : Nat, titles : SUBSET Nat, providers : SUBSET Nat]
    BY <1>4, <1>5, <1>6 DEF KeepOK, StateOK
  <2>3. end \in Nat /\ k.end <= end /\ night[k.date].next <= end
    BY <2>1, <2>2
  <2>4. night' = [night EXCEPT ![k.date] = Occupy(night[k.date], end, k.title, k.provider)]
    BY <1>1, <1>6, <2>1
  <2>5. Occupy(night[k.date], end, k.title, k.provider)
          \in [next : Nat, titles : SUBSET Nat, providers : SUBSET Nat]
    BY <2>2, <2>3 DEF Occupy
  <2>6. /\ night' \in [Dates' -> [next : Nat, titles : SUBSET Nat, providers : SUBSET Nat]]
        /\ night'[k.date].next = end /\ night'[k.date].titles = night[k.date].titles \cup {k.title}
        /\ night'[k.date].providers = night[k.date].providers \cup {k.provider}
        /\ \A e \in Dates \ {k.date} : night'[e] = night[e]
    BY <1>2, <1>5, <1>6, <2>4, <2>5 DEF StateOK, Occupy
  <2>7. ASSUME NEW e \in Dates
        PROVE  NightInv(e)'
    <3>1. NightInv(e)
      BY <1>5
    <3>2. CASE e # k.date
      BY <1>2, <1>3, <1>6, <2>6, <3>1, <3>2 DEF NightInv
    <3>3. CASE e = k.date
      <4>1. /\ in.days[e].start \in Nat
            /\ \A r \in On : r.end \in Nat
        BY <1>2, InputFacts DEF IInv, Core, StateOK, On, KeepOK
      <4>2. in'.days[e].start <= night'[e].next
        BY <1>2, <2>2, <2>3, <2>6, <3>1, <3>3, <4>1 DEF NightInv
      <4>3. \A r \in On' : r.date = e => /\ r.end <= night'[e].next
                                         /\ r.title \in night'[e].titles
                                         /\ r.provider \in night'[e].providers
        BY <1>3, <1>6, <2>2, <2>3, <2>6, <3>1, <3>3, <4>1 DEF NightInv
      <4>4. /\ \A t \in night'[e].titles : \E r \in On' : r.date = e /\ r.title = t
            /\ \A p \in night'[e].providers : \E r \in On' : r.date = e /\ r.provider = p
        BY <1>3, <1>6, <2>6, <3>1, <3>3 DEF NightInv
      <4> QED BY <4>2, <4>3, <4>4 DEF NightInv
    <3> QED BY <3>2, <3>3
  <2> QED BY <1>2, <2>6, <2>7
<1>7. ASSUME ~(k.plan /\ k.date \in Dates)
      PROVE  /\ \A d \in Dates' : NightInv(d)'
             /\ night' \in [Dates' -> [next : Nat, titles : SUBSET Nat, providers : SUBSET Nat]]
  <2>1. night' = night
    BY <1>1, <1>7
  <2> QED BY <1>2, <1>3, <1>5, <1>7, <2>1 DEF NightInv, StateOK
<1>8. (\A d \in Dates' : NightInv(d)') /\ night' \in
        [Dates' -> [next : Nat, titles : SUBSET Nat, providers : SUBSET Nat]]
  BY <1>2, <1>5, <1>6, <1>7 DEF StateOK
<1>9. taken' \subseteq Nat \X (Nat \X Nat) /\ TakenInv'
  BY <1>1, <1>3, <1>4, <1>5 DEF TakenInv, StateOK, KeepOK
<1>10. count' \in [Titles' -> Nat]
  BY <1>1, <1>2, <1>5 DEF StateOK
<1>11. Core'
  BY <1>2, <1>5, <1>8, <1>9, <1>10 DEF Core, StateOK, RowsInv
<1>12. PassInv' /\ ViewInv' /\ GoalInv' /\ AltsInv'
  BY <1>1, <1>2 DEF PassInv, Passes, ViewInv, InViewingOrder, GoalInv, AltsInv
<1> QED BY <1>11, <1>12 DEF IInv

(* A turn of a pass that places keeps what it has reached so far, and what *)
(* the other passes have reached.                                          *)
LEMMA TurnGoals ==
  ASSUME IInv, Grows, pass' = pass, todo' \subseteq todo,
         \A x \in todo \ todo' :
           /\ pass = "airpins" => Appointed(x)'
           /\ pass = "movies" => Shown(x)'
           /\ pass = "fill" => Full(x)'
  PROVE  GoalInv'
<1>1. /\ AirEpisodes' = AirEpisodes /\ Movies' = Movies /\ OpenNights' = OpenNights
      /\ GoalInv /\ Movies \subseteq Titles /\ OpenNights \subseteq Dates
  BY Static DEF IInv, Grows, Movies, OpenNights
<1>2. ASSUME pass # "keep", NEW a \in Visited("airpins", AirEpisodes)'
      PROVE  Appointed(a)'
  <2>1. a \in Visited("airpins", AirEpisodes) => Appointed(a)'
    BY <1>1, <1>2, GrowsFacts DEF GoalInv, Visited
  <2> QED BY <1>1, <2>1 DEF Visited
<1>3. ASSUME pass \notin {"keep", "airpins"}, NEW t \in Visited("movies", Movies)'
      PROVE  Shown(t)'
  <2>1. t \in Visited("movies", Movies) => Shown(t)'
    BY <1>1, <1>3, GrowsFacts DEF GoalInv, Visited
  <2> QED BY <1>1, <2>1 DEF Visited
<1>4. ASSUME pass \notin {"keep", "airpins", "movies"}, NEW d \in Visited("fill", OpenNights)'
      PROVE  Full(d)'
  <2>1. d \in Visited("fill", OpenNights) => Full(d)'
    BY <1>1, <1>4, GrowsFacts DEF GoalInv, Visited
  <2> QED BY <1>1, <2>1 DEF Visited
<1> QED BY <1>2, <1>3, <1>4 DEF GoalInv

(* passAirPins, passMovies.                                                *)
LEMMA AirPinKeeps ==
  ASSUME IInv, AirPin
  PROVE  IInv'
<1>1. PICK a \in todo :
        /\ todo' = todo \ {a}
        /\ IF Pinnable(a[1], a[2], in.titles[a[1]].airs[a[2]])
           THEN Place(a[1], a[2], in.titles[a[1]].airs[a[2]], TRUE) ELSE PlaceNothing
  BY DEF AirPin
<1>2. /\ pass = "airpins" /\ pass' = pass /\ UNCHANGED <<in, alts>> /\ alts = {}
      /\ todo \subseteq AirEpisodes /\ Core /\ ViewInv
      /\ AirEpisodes' = AirEpisodes
  BY Static DEF AirPin, IInv, PassInv
<1>3. PICK t, ep, d : t = a[1] /\ ep = a[2] /\ d = in.titles[a[1]].airs[a[2]]
  OBVIOUS
<1>4. /\ a = <<t, ep>> /\ t \in Titles /\ ep \in DOMAIN in.titles[t].airs
      /\ ~in.titles[t].movie /\ in.titles[t].airing /\ in.titles[t].providers # {}
      /\ d = in.titles[t].airs[ep]
  BY <1>1, <1>2, <1>3 DEF AirEpisodes
<1>5. ep \in (Nat \ {0}) \X (Nat \ {0})
  BY <1>2, <1>4, InputFacts DEF TitleOK, Core, StateOK
<1>7. PassInv' /\ AltsInv'
  BY <1>1, <1>2 DEF IInv, PassInv, Passes, AltsInv
<1>8. CASE Pinnable(t, ep, d)
  <2>1. Place(t, ep, d, TRUE)
    BY <1>1, <1>3, <1>8
  <2>2. MayPlace(t, ep, d, TRUE)
    <3>1. ep \in Nat \X Nat /\ ep # NoEpisode
      BY <1>5 DEF NoEpisode
    <3>2. in.titles[t].airs[ep] <= d
      <4>1. d \in Int
        BY <1>2, <1>8, InputFacts DEF Pinnable, Core, StateOK
      <4> QED BY <1>4, <4>1
    <3> QED BY <1>4, <1>8, <3>1, <3>2 DEF Pinnable, MayPlace
  <2>3. Core' /\ Grows /\ ViewInv'
    BY <1>2, <2>1, <2>2, PlaceKeeps, PlaceGrows, PlaceViewKeeps
  <2>4. Appointed(a)'
    <3>1. <<t, ep>> \in taken'
      BY <2>1 DEF Place
    <3> QED BY <1>4, <3>1 DEF Appointed
  <2>5. GoalInv'
    BY <1>1, <1>2, <2>3, <2>4, TurnGoals
  <2> QED BY <1>7, <2>3, <2>5 DEF IInv
<1>9. CASE ~Pinnable(t, ep, d)
  <2>1. PlaceNothing
    BY <1>1, <1>3, <1>9
  <2>2. On' = On
    BY <1>2, <2>1, Static DEF On, Plan, PlaceNothing
  <2>3. Core' /\ Grows /\ ViewInv'
    BY <1>1, <1>2, <2>1, <2>2, NothingKeeps, NothingGrows, NothingViewKeeps
  <2>4. Appointed(a)
    BY <1>4, <1>9 DEF Appointed, Pinnable
  <2>5. GoalInv'
    BY <1>1, <1>2, <2>3, <2>4, GrowsFacts, TurnGoals
  <2> QED BY <1>7, <2>3, <2>5 DEF IInv
<1> QED BY <1>8, <1>9

(* Of the nights with room for a movie one has the most left.              *)
LEMMA LongestExists ==
  ASSUME StateOK, NEW t \in Titles, NEW n \in Dates, HasRoom(t, n)
  PROVE  Longest(t) # {}
<1>1. PICK R : R = {d \in Dates : HasRoom(t, d)}
  OBVIOUS
<1>2. IsFiniteSet(R) /\ n \in R /\ \A d \in R : Remaining(d) \in Int
  <2>1. IsFiniteSet(Dates) /\ \A d \in Dates : in.days[d].end \in Nat
    BY InputFacts DEF StateOK
  <2>2. \A d \in Dates : night[d].next \in Nat
    BY DEF StateOK
  <2>3. R \in SUBSET Dates
    BY <1>1
  <2> QED BY <1>1, <2>1, <2>2, <2>3, FS_Subset DEF Remaining
<1> DEFINE More(d) == {e \in R : Remaining(e) > Remaining(d)}
<1>3. \A d \in R : IsFiniteSet(More(d)) /\ Cardinality(More(d)) \in Nat
  BY <1>2, FS_Subset, FS_CardinalityType
<1>4. PICK sizes : sizes = {Cardinality(More(d)) : d \in R}
  OBVIOUS
<1>5. sizes \in SUBSET Nat /\ sizes # {}
  BY <1>2, <1>3, <1>4
<1>6. PICK least \in sizes : \A y \in sizes : least <= y
  BY <1>5, LeastFacts
<1>7. PICK d \in R : least = Cardinality(More(d))
  BY <1>4, <1>6
<1>8. ASSUME NEW e \in R, Remaining(e) > Remaining(d)
      PROVE  FALSE
  <2>1. More(e) \subseteq More(d) /\ e \in More(d) /\ e \notin More(e)
    BY <1>2, <1>8
  <2>2. Cardinality(More(e)) <= Cardinality(More(d)) /\ Cardinality(More(e)) # Cardinality(More(d))
    BY <1>3, <2>1, FS_Subset
  <2>3. Cardinality(More(d)) <= Cardinality(More(e))
    BY <1>4, <1>6, <1>7
  <2>4. Cardinality(More(e)) \in Nat /\ Cardinality(More(d)) \in Nat
    BY <1>3
  <2> QED BY ONLY <2>2, <2>3, <2>4
<1>9. d \in Longest(t)
  BY <1>1, <1>2, <1>8 DEF Longest
<1> QED BY <1>9

LEMMA MovieTurnKeeps ==
  ASSUME IInv, MovieTurn
  PROVE  IInv'
<1>1. PICK t \in todo :
        /\ todo' = todo \ {t}
        /\ IF <<t, NoEpisode>> \notin taken /\ Longest(t) # {}
           THEN \E d \in Longest(t) : Place(t, NoEpisode, d, FALSE)
           ELSE PlaceNothing
  BY DEF MovieTurn
<1>2. /\ pass = "movies" /\ pass' = pass /\ UNCHANGED <<in, alts>> /\ alts = {}
      /\ todo \subseteq Movies /\ Core /\ ViewInv
      /\ Movies' = Movies
  BY Static DEF MovieTurn, IInv, PassInv
<1>3. t \in Titles /\ in.titles[t].movie /\ in.titles[t].providers # {}
  BY <1>1, <1>2 DEF Movies
<1>4. PassInv' /\ AltsInv'
  BY <1>1, <1>2 DEF IInv, PassInv, Passes, AltsInv
<1>5. CASE <<t, NoEpisode>> \notin taken /\ Longest(t) # {}
  <2>1. PICK d \in Longest(t) : Place(t, NoEpisode, d, FALSE)
    BY <1>1, <1>5
  <2>2. MayPlace(t, NoEpisode, d, FALSE)
    <3>1. d \in Dates /\ HasRoom(t, d)
      BY DEF Longest
    <3>2. t \notin night[d].titles
      <4>1. SUFFICES ASSUME t \in night[d].titles
                     PROVE  FALSE
        OBVIOUS
      <4>2. PICK r \in Plan : r.title = t
        BY <1>2, <3>1, <4>1 DEF Core, NightInv, On
      <4>3. r.ep = NoEpisode
        BY <1>2, <1>3, <4>2, InputFacts DEF Plan, Core, StateOK, RowsInv, RowOK
      <4>4. <<t, NoEpisode>> \in taken
        BY <1>2, <4>2, <4>3 DEF Core, TakenInv, On
      <4> QED BY <1>5, <4>4
    <3>3. NoEpisode \in Nat \X Nat
      BY DEF NoEpisode
    <3>4. NoEpisode \notin DOMAIN in.titles[t].airs
      BY <1>2, <1>3, InputFacts DEF TitleOK, Core, StateOK, NoEpisode
    <3> QED BY <1>3, <1>5, <3>1, <3>2, <3>3, <3>4 DEF MayPlace
  <2>3. Core' /\ Grows /\ ViewInv'
    BY <1>2, <1>3, <2>1, <2>2, PlaceKeeps, PlaceGrows, PlaceViewKeeps
  <2>4. Shown(t)'
    BY <2>1 DEF Place, Shown
  <2>5. GoalInv'
    BY <1>1, <1>2, <2>3, <2>4, TurnGoals
  <2> QED BY <1>4, <2>3, <2>5 DEF IInv
<1>6. CASE ~(<<t, NoEpisode>> \notin taken /\ Longest(t) # {})
  <2>1. PlaceNothing
    BY <1>1, <1>6
  <2>2. On' = On
    BY <1>2, <2>1, Static DEF On, Plan, PlaceNothing
  <2>3. Core' /\ Grows /\ ViewInv'
    BY <1>1, <1>2, <2>1, <2>2, NothingKeeps, NothingGrows, NothingViewKeeps
  <2>4. Shown(t)
    BY <1>2, <1>3, <1>6, LongestExists DEF Shown, Core
  <2>5. GoalInv'
    BY <1>1, <1>2, <1>3, <2>3, <2>4, GrowsFacts, TurnGoals
  <2> QED BY <1>4, <2>3, <2>5 DEF IInv
<1> QED BY <1>5, <1>6
-----------------------------------------------------------------------------
(* passFill: an unclaimed episode remains exactly if there is a next one,  *)
(* which comes before all the others.                                      *)
LEMMA AheadFacts ==
  ASSUME in \in Inputs, NEW t \in Titles, NEW k \in EpisodesAhead(t)
  PROVE  k \in Nat \X Nat /\ k # NoEpisode
<1>1. PICK s \in DOMAIN in.titles[t].seasons :
        \E e \in 1..in.titles[t].seasons[s] : k = <<s, e>>
  BY DEF EpisodesAhead
<1>2. s \in Nat \ {0} /\ in.titles[t].seasons[s] \in Nat
  BY InputFacts DEF TitleOK
<1>3. PICK e \in Nat : k = <<s, e>>
  BY <1>1, <1>2
<1> QED BY <1>2, <1>3 DEF NoEpisode

LEMMA NextEpisodeFacts ==
  ASSUME in \in Inputs, NEW t \in Titles
  PROVE  /\ NextEpisode(t) = {} => Unplaced(t) = {}
         /\ \A k \in NextEpisode(t) :
              /\ k \in Nat \X Nat /\ k # NoEpisode /\ <<t, k>> \notin taken
              /\ \A l \in Unplaced(t) : k = l \/ Earlier(k, l)
         /\ \A k, l \in NextEpisode(t) : k = l
<1>1. Unplaced(t) \in SUBSET (Nat \X Nat) /\ \A k \in Unplaced(t) : k # NoEpisode
  BY AheadFacts DEF Unplaced
<1>2. NextEpisode(t) = {} => Unplaced(t) = {}
  BY <1>1, FirstExists DEF NextEpisode
<1>3. \A k, l \in NextEpisode(t) : k = l
  BY <1>1, EarlierFacts DEF NextEpisode
<1> QED BY <1>1, <1>2, <1>3 DEF NextEpisode, Unplaced

LEMMA CandidateFacts ==
  ASSUME in \in Inputs, NEW d \in Dates, NEW c \in Candidates(d)
  PROVE  /\ MayPlace(c[1], c[2], d, FALSE) /\ c[1] \in Titles /\ ~in.titles[c[1]].movie
         /\ \A l \in Unplaced(c[1]) : c[2] = l \/ Earlier(c[2], l)
         /\ c[2] \in Unplaced(c[1])
<1>1. PICK t \in Titles : \E n \in NextEpisode(t) : c = <<t, n>>
  BY DEF Candidates
<1>2. PICK k \in NextEpisode(t) : c = <<t, k>>
  BY <1>1
<1>3. /\ ~in.titles[t].movie /\ in.titles[t].providers # {}
      /\ t \notin night[d].titles /\ HasRoom(t, d) /\ Schedulable(t, k, d)
  BY <1>2 DEF Candidates
<1>4. /\ k \in Nat \X Nat /\ k # NoEpisode /\ <<t, k>> \notin taken
      /\ \A l \in Unplaced(t) : k = l \/ Earlier(k, l)
  BY NextEpisodeFacts
<1>5. MayPlace(t, k, d, FALSE)
  BY <1>3, <1>4 DEF MayPlace, Schedulable
<1>6. k \in Unplaced(t)
  BY DEF NextEpisode
<1> QED BY <1>2, <1>3, <1>4, <1>5, <1>6

LEMMA FillViewKeeps ==
  ASSUME IInv, pass = "fill", UNCHANGED <<in, pass, todo>>,
         NEW d \in todo, \A e \in todo : d <= e,
         NEW c \in Candidates(d), Place(c[1], c[2], d, FALSE)
  PROVE  ViewInv'
<1>1. PICK t, k : t = c[1] /\ k = c[2]
  OBVIOUS
<1>2. /\ d \in Dates /\ Core /\ ViewInv /\ in \in Inputs
  BY DEF IInv, PassInv, OpenNights, Core, StateOK
<1>3. /\ MayPlace(t, k, d, FALSE) /\ t \in Titles /\ ~in.titles[t].movie
      /\ \A l \in Unplaced(t) : k = l \/ Earlier(k, l)
      /\ k \in Unplaced(t) /\ Place(t, k, d, FALSE)
  BY <1>1, <1>2, CandidateFacts
<1>4. PICK row : row = Row(t, k, d, FALSE)
  OBVIOUS
<1>5. /\ placed' = placed \cup {row} /\ taken' = taken \cup {<<t, k>>}
      /\ row.pinned = FALSE /\ row.title = t /\ row.ep = k /\ row.date = d
  BY <1>4, <1>3 DEF Place, Row
<1>6. Grows /\ Core'
  BY <1>2, <1>3, PlaceGrows, PlaceKeeps
<1>7. \A u : Unplaced(u)' \subseteq Unplaced(u)
  BY <1>6, GrowsFacts
<1>8. ASSUME NEW p \in placed', Filled(p)'
      PROVE  \A e \in todo : p.date <= e
  BY <1>2, <1>5, <1>8 DEF ViewInv, Filled
<1>9. ASSUME NEW p \in placed', Filled(p)', NEW l \in Unplaced(p.title)'
      PROVE  Earlier(p.ep, l)
  <2>1. CASE p \in placed
    BY <1>2, <1>7, <1>9, <2>1 DEF ViewInv, Filled
  <2>2. CASE p = row
    <3>1. l \in Unplaced(t) /\ <<t, l>> \notin taken'
      BY <1>5, <1>7, <1>9, <2>2 DEF Unplaced
    <3> QED BY <1>3, <1>5, <2>2, <3>1
  <2> QED BY <1>5, <2>1, <2>2
<1>10. ASSUME NEW p \in placed', NEW q \in placed', p.title = q.title, p.date < q.date,
              ~p.pinned, ~q.pinned
       PROVE  Earlier(p.ep, q.ep)
  <2>1. p.date \in Int /\ q.date \in Int /\ d \in Int
    BY <1>2, <1>6, InputFacts, Static DEF Core, RowsInv, RowOK
  <2>2. CASE p \in placed /\ q \in placed
    BY <1>2, <1>10, <2>2 DEF ViewInv, InViewingOrder
  <2>3. CASE p \in placed /\ q = row
    <3>1. Filled(p) /\ p.title = t /\ q.ep = k
      BY <1>3, <1>5, <1>10, <2>3 DEF Filled
    <3> QED BY <1>2, <1>3, <2>3, <3>1 DEF ViewInv
  <2>4. CASE p = row
    <3>1. Filled(q)'
      BY <1>3, <1>5, <1>10, <2>4 DEF Filled
    <3>2. q.date <= d
      BY <1>8, <3>1
    <3> QED BY <1>5, <1>10, <2>1, <2>4, <3>2
  <2> QED BY <1>5, <2>2, <2>3, <2>4
<1> QED BY <1>8, <1>9, <1>10 DEF ViewInv, InViewingOrder

LEMMA FillNightKeeps ==
  ASSUME IInv, FillNight
  PROVE  IInv'
<1>1. PICK d \in todo :
        /\ \A e \in todo : d <= e
        /\ IF Candidates(d) = {}
           THEN todo' = todo \ {d} /\ PlaceNothing
           ELSE todo' = todo /\ \E c \in Best(d) : Place(c[1], c[2], d, FALSE)
  BY DEF FillNight
<1>2. /\ pass = "fill" /\ pass' = pass /\ UNCHANGED <<in, alts>> /\ alts = {}
      /\ todo \subseteq OpenNights /\ Core /\ ViewInv /\ in \in Inputs
      /\ d \in Dates /\ OpenNights' = OpenNights
  BY Static DEF FillNight, IInv, PassInv, OpenNights, Core, StateOK
<1>3. AltsInv' /\ PassInv'
  BY <1>1, <1>2 DEF IInv, PassInv, Passes, AltsInv
<1>4. CASE Candidates(d) = {}
  <2>1. PlaceNothing /\ todo' = todo \ {d}
    BY <1>1, <1>4
  <2>2. On' = On
    BY <1>2, <2>1, Static DEF On, Plan, PlaceNothing
  <2>3. Core' /\ Grows /\ ViewInv'
    BY <1>2, <2>1, <2>2, NothingKeeps, NothingGrows, NothingViewKeeps
  <2>4. Full(d)
    <3> SUFFICES ASSUME NEW t \in Titles, HasRoom(t, d), in.titles[t].providers # {},
                        ~in.titles[t].airing, ~in.titles[t].movie, t \notin night[d].titles
                 PROVE  Unplaced(t) = {}
      BY DEF Full
    <3>1. ASSUME NEW k \in NextEpisode(t)
          PROVE  FALSE
      <4>1. <<t, k>> \in Candidates(d)
        BY DEF Candidates, Schedulable
      <4> QED BY <1>4, <4>1
    <3> QED BY <1>2, <3>1, NextEpisodeFacts
  <2>5. GoalInv'
    BY <1>2, <2>1, <2>3, <2>4, GrowsFacts, TurnGoals
  <2> QED BY <1>3, <2>3, <2>5 DEF IInv
<1>5. CASE Candidates(d) # {}
  <2>1. todo' = todo
    BY <1>1, <1>5
  <2>2. PICK c \in Candidates(d) : Place(c[1], c[2], d, FALSE)
    BY <1>1, <1>5 DEF Best
  <2>3. MayPlace(c[1], c[2], d, FALSE)
    BY <1>2, CandidateFacts
  <2>4. Core' /\ Grows
    BY <1>2, <2>2, <2>3, PlaceKeeps, PlaceGrows
  <2>5. ViewInv'
    BY <1>1, <1>2, <2>1, <2>2, FillViewKeeps
  <2>6. GoalInv'
    BY <1>2, <2>1, <2>4, TurnGoals
  <2> QED BY <1>3, <2>4, <2>5, <2>6 DEF IInv
<1> QED BY <1>4, <1>5
-----------------------------------------------------------------------------
(* passAlternates.  A slot's offers, of which there is one for each title. *)
LEMMA OfferFacts ==
  ASSUME in \in Inputs, NEW p, NEW a \in Offers(p)
  PROVE  /\ a.slot = p /\ a.date = p.date /\ a.start = p.start
         /\ a.end <= in.days[p.date].end
         /\ a.title \in Titles /\ a.title \notin night[p.date].titles
         /\ <<a.title, a.ep>> \notin taken
         /\ a.provider = p.provider => in.titles[a.title].providers = {p.provider}
<1>1. PICK x \in UNION {{<<u, n>> : n \in AlternateEpisode(u)} : u \in Titles} :
        /\ a = [slot |-> p, date |-> p.date, start |-> p.start,
                end |-> p.start + in.titles[x[1]].runtime,
                title |-> x[1], ep |-> x[2], provider |-> OtherProvider(x[1], p.provider)]
        /\ in.titles[x[1]].providers # {}
        /\ p.start + in.titles[x[1]].runtime <= in.days[p.date].end
        /\ x[1] \notin night[p.date].titles
  BY DEF Offers
<1>2. PICK t \in Titles : \E n \in AlternateEpisode(t) : x = <<t, n>>
  OBVIOUS
<1>3. PICK k \in AlternateEpisode(t) : x = <<t, k>>
  BY <1>2
<1>4. <<t, k>> \notin taken
  <2>1. k \in NextEpisode(t) => <<t, k>> \notin taken
    BY NextEpisodeFacts
  <2> QED BY <1>3, <2>1 DEF AlternateEpisode
<1>5. PICK carriers : carriers = in.titles[t].providers
  OBVIOUS
<1>6. carriers \in SUBSET Nat /\ carriers # {}
  BY <1>1, <1>3, <1>5, InputFacts DEF TitleOK
<1>7. OtherProvider(t, p.provider) = p.provider => carriers = {p.provider}
  <2>1. carriers \ {p.provider} # {} => Least(carriers \ {p.provider}) \in carriers \ {p.provider}
    BY <1>6, LeastFacts
  <2> QED BY <1>5, <1>6, <2>1 DEF OtherProvider
<1> QED BY <1>1, <1>3, <1>4, <1>5, <1>7

LEMMA OneOfferPerTitle ==
  ASSUME in \in Inputs, NEW p, NEW a \in Offers(p), NEW b \in Offers(p), a.title = b.title
  PROVE  a = b
<1>1. PICK x \in UNION {{<<u, n>> : n \in AlternateEpisode(u)} : u \in Titles} :
        a = [slot |-> p, date |-> p.date, start |-> p.start,
             end |-> p.start + in.titles[x[1]].runtime,
             title |-> x[1], ep |-> x[2], provider |-> OtherProvider(x[1], p.provider)]
  BY DEF Offers
<1>2. PICK y \in UNION {{<<u, n>> : n \in AlternateEpisode(u)} : u \in Titles} :
        b = [slot |-> p, date |-> p.date, start |-> p.start,
             end |-> p.start + in.titles[y[1]].runtime,
             title |-> y[1], ep |-> y[2], provider |-> OtherProvider(y[1], p.provider)]
  BY DEF Offers
<1>3. PICK t \in Titles : \E n \in AlternateEpisode(t) : x = <<t, n>>
  OBVIOUS
<1>4. PICK u \in Titles : \E n \in AlternateEpisode(u) : y = <<u, n>>
  OBVIOUS
<1>5. t = u
  BY <1>1, <1>2, <1>3, <1>4
<1>6. \A k, l \in AlternateEpisode(t) : k = l
  BY NextEpisodeFacts DEF AlternateEpisode
<1> QED BY <1>1, <1>2, <1>3, <1>4, <1>5, <1>6

(* Each offer of the shortlist has a rank of its own below AlternateCap.   *)
LEMMA ShortlistBounded ==
  ASSUME in \in Inputs, NEW p
  PROVE  Cardinality(Shortlist(p)) <= AlternateCap
<1>1. PICK offers : offers = Offers(p)
  OBVIOUS
<1>2. /\ \A a \in offers : a.title \in Titles /\ a.title \in Nat
      /\ \A a, b \in offers : a.title = b.title => a = b
  BY <1>1, OfferFacts, OneOfferPerTitle, InputFacts
<1>3. IsFiniteSet(offers)
  <2>1. PICK f : f = [a \in offers |-> a.title]
    OBVIOUS
  <2>2. f \in Injection(offers, Titles)
    BY <1>2, <2>1 DEF Injection, IsInjective
  <2> QED BY <2>2, FS_Injection, InputFacts
<1> DEFINE Before(a) == {b \in offers : Preferred(b, a)}
<1>4. \A a \in offers : IsFiniteSet(Before(a)) /\ Cardinality(Before(a)) \in Nat
  BY <1>3, FS_Subset, FS_CardinalityType
<1>5. ASSUME NEW a \in offers, NEW b \in offers, Preferred(a, b)
      PROVE  Cardinality(Before(a)) # Cardinality(Before(b))
  <2>1. Before(a) \subseteq Before(b)
    BY <1>2, <1>5 DEF Preferred
  <2>2. a \in Before(b) /\ a \notin Before(a)
    BY <1>2, <1>5 DEF Preferred
  <2> QED BY <1>4, <2>1, <2>2, FS_Subset
<1>6. \A a, b \in offers : a = b \/ Preferred(a, b) \/ Preferred(b, a)
  BY <1>2 DEF Preferred
<1>7. PICK rank : rank = [a \in Shortlist(p) |-> Cardinality(Before(a))]
  OBVIOUS
<1>8. Shortlist(p) \subseteq offers /\ \A a \in Shortlist(p) : Cardinality(Before(a)) < AlternateCap
  BY <1>1 DEF Shortlist
<1> HIDE DEF Before
<1>9. rank \in [Shortlist(p) -> 0..(AlternateCap - 1)]
  <2>1. \A a \in Shortlist(p) : Cardinality(Before(a)) \in 0..(AlternateCap - 1)
    BY <1>4, <1>8, CapAssumption
  <2> QED BY <1>7, <2>1
<1>10. rank \in Injection(Shortlist(p), 0..(AlternateCap - 1))
  <2>1. \A a, b \in Shortlist(p) : rank[a] = rank[b] => a = b
    BY <1>5, <1>6, <1>7, <1>8
  <2> QED BY <1>9, <2>1 DEF Injection, IsInjective
<1>11. /\ IsFiniteSet(0..(AlternateCap - 1))
       /\ Cardinality(0..(AlternateCap - 1)) = AlternateCap
  <2>1. AlternateCap - 1 \in Int /\ 0 \in Int
    BY CapAssumption
  <2>2. IsFiniteSet(0..(AlternateCap - 1))
        /\ Cardinality(0..(AlternateCap - 1))
             = IF 0 > AlternateCap - 1 THEN 0 ELSE (AlternateCap - 1) - 0 + 1
    BY <2>1, FS_Interval
  <2> QED BY <2>2, CapAssumption
<1> QED BY <1>10, <1>11, FS_Injection

LEMMA OfferAlternatesKeeps ==
  ASSUME IInv, OfferAlternates
  PROVE  IInv'
<1>1. /\ pass = "alternates" /\ pass' = pass /\ in' = in /\ PlaceNothing /\ todo' = {}
      /\ alts' = UNION {Shortlist(p) : p \in todo}
      /\ todo \subseteq {r \in Plan : r.date \in Dates} /\ in \in Inputs
  BY DEF OfferAlternates, IInv, PassInv, Core, StateOK
<1>2. On = Plan /\ On' = On /\ Plan' = Plan /\ Dates' = Dates /\ placed' = placed
  BY <1>1, Static DEF On, Plan, PlaceNothing
<1>3. Core' /\ Grows /\ ViewInv'
  BY <1>1, <1>2, NothingKeeps, NothingGrows, NothingViewKeeps DEF IInv
<1>4. PassInv'
  BY <1>1 DEF PassInv, Passes
<1>5. GoalInv'
  BY <1>1, <1>3, TurnGoals
<1>6. ASSUME NEW a \in alts'
      PROVE  OfferOK(a)'
  <2>1. PICK p \in todo : a \in Shortlist(p)
    BY <1>1
  <2>2. a \in Offers(p) /\ p \in Plan /\ p.date \in Dates
    BY <1>1, <2>1 DEF Shortlist
  <2>3. /\ a.slot = p /\ a.date = p.date /\ a.start = p.start
        /\ a.end <= in.days[p.date].end
        /\ a.title \in Titles /\ a.title \notin night[p.date].titles
        /\ <<a.title, a.ep>> \notin taken
        /\ a.provider = p.provider => in.titles[a.title].providers = {p.provider}
    BY <1>1, <2>2, OfferFacts
  <2>4. \A r \in Plan : /\ r.date = a.date => r.title # a.title
                        /\ r.title = a.title => r.ep # a.ep
    BY <1>2, <2>2, <2>3 DEF IInv, Core, NightInv, TakenInv
  <2>5. {b \in alts' : b.slot = a.slot} = Shortlist(p)
    <3>1. \A q : \A b \in Shortlist(q) : b.slot = q
      BY <1>1, OfferFacts DEF Shortlist
    <3> QED BY <1>1, <2>1, <2>3, <3>1
  <2>6. Cardinality({b \in alts' : b.slot = a.slot}) <= AlternateCap
    BY <1>1, <2>5, ShortlistBounded
  <2> QED BY <1>1, <1>2, <2>2, <2>3, <2>4, <2>6 DEF OfferOK
<1> QED BY <1>3, <1>4, <1>5, <1>6 DEF IInv, AltsInv
-----------------------------------------------------------------------------
(* From one pass to the next.  When the kept rows have made their claims   *)
(* all of the plan has, and when a pass has nothing left to visit it has   *)
(* visited all of its work.                                                *)
LEMMA NextPassKeeps ==
  ASSUME IInv, NextPass
  PROVE  IInv'
<1>1. /\ pass # "done" /\ todo = {} /\ pass' = Following[pass] /\ todo' = Work(Following[pass])
      /\ PlaceNothing /\ in' = in /\ alts' = alts /\ pass \in Passes
  BY DEF NextPass, IInv, PassInv
<1>2. /\ pass = "keep" => pass' = "airpins" /\ todo' = AirEpisodes
      /\ pass = "airpins" => pass' = "movies" /\ todo' = Movies
      /\ pass = "movies" => pass' = "fill" /\ todo' = OpenNights
      /\ pass = "fill" => pass' = "alternates" /\ todo' = {r \in Plan : r.date \in Dates}
      /\ pass = "alternates" => pass' = "done" /\ todo' = {}
  BY <1>1 DEF Following, Work
<1>3. pass \in {"keep", "airpins", "movies", "fill", "alternates"}
  BY <1>1 DEF Passes
<1>4. pass' # "keep" /\ pass' \in Passes
  BY <1>2, <1>3 DEF Passes
<1>5. /\ AirEpisodes' = AirEpisodes /\ Movies' = Movies /\ OpenNights' = OpenNights
      /\ Kept' = Kept /\ Dates' = Dates /\ Titles' = Titles
      /\ \A t : EpisodesAhead(t)' = EpisodesAhead(t)
      /\ placed' = placed /\ taken' = taken /\ night' = night
  BY <1>1, Static DEF PlaceNothing
<1>6. Plan' = Plan /\ On' = Plan
  BY <1>4, <1>5 DEF Plan, On
<1>7. On = Plan
  BY <1>1 DEF IInv, Core, On, Plan
<1>8. Core' /\ Grows
  BY <1>1, <1>4, <1>6, <1>7, NothingKeeps, NothingGrows DEF IInv
<1>9. PassInv'
  BY <1>1, <1>2, <1>3, <1>4, <1>5, <1>6 DEF IInv, PassInv
<1>10. ViewInv'
  <2>1. InViewingOrder'
    BY <1>1, <1>5 DEF IInv, ViewInv, InViewingOrder
  <2>2. ASSUME NEW p \in placed', Filled(p)'
        PROVE  /\ pass' \notin {"keep", "airpins", "movies", "fill"}
               /\ \A k \in Unplaced(p.title)' : Earlier(p.ep, k)
    <3>1. p \in placed /\ Filled(p) /\ Unplaced(p.title)' = Unplaced(p.title)
      BY <1>1, <1>5, <2>2 DEF Filled, Unplaced
    <3>2. pass \notin {"keep", "airpins", "movies"}
      BY <3>1 DEF IInv, ViewInv
    <3>3. \A k \in Unplaced(p.title) : Earlier(p.ep, k)
      BY <3>1 DEF IInv, ViewInv
    <3> QED BY <1>2, <1>3, <3>1, <3>2, <3>3
  <2> QED BY <2>1, <2>2 DEF ViewInv
<1>11. GoalInv'
  <2>1. ASSUME pass' # "keep", NEW a \in Visited("airpins", AirEpisodes)'
        PROVE  Appointed(a)'
    <3>1. a \in AirEpisodes /\ pass # "keep"
      BY <1>2, <1>5, <2>1 DEF Visited
    <3>2. Appointed(a)
      BY <1>1, <3>1 DEF IInv, GoalInv, Visited
    <3> QED BY <1>8, <3>1, <3>2, GrowsFacts
  <2>2. ASSUME pass' \notin {"keep", "airpins"}, NEW t \in Visited("movies", Movies)'
        PROVE  Shown(t)'
    <3>1. t \in Movies /\ pass \notin {"keep", "airpins"}
      BY <1>2, <1>5, <2>2 DEF Visited
    <3>2. Shown(t) /\ t \in Titles
      BY <1>1, <3>1 DEF IInv, GoalInv, Visited, Movies
    <3> QED BY <1>8, <3>2, GrowsFacts
  <2>3. ASSUME pass' \notin {"keep", "airpins", "movies"}, NEW d \in Visited("fill", OpenNights)'
        PROVE  Full(d)'
    <3>1. d \in OpenNights /\ pass \notin {"keep", "airpins", "movies"}
      BY <1>2, <1>5, <2>3 DEF Visited
    <3>2. Full(d) /\ d \in Dates
      BY <1>1, <3>1 DEF IInv, GoalInv, Visited, OpenNights
    <3> QED BY <1>8, <3>2, GrowsFacts
  <2> QED BY <2>1, <2>2, <2>3 DEF GoalInv
<1>12. AltsInv'
  BY <1>1, <1>5, <1>6 DEF IInv, AltsInv, OfferOK
<1> QED BY <1>8, <1>9, <1>10, <1>11, <1>12 DEF IInv

LEMMA InitInv ==
  ASSUME Init
  PROVE  IInv
<1>1. /\ in \in Inputs /\ pass = "keep" /\ todo = in.keep /\ taken = {} /\ placed = {} /\ alts = {}
      /\ night = [d \in Dates |-> [next |-> in.days[d].start, titles |-> {}, providers |-> {}]]
      /\ count = [t \in Titles |-> 0] /\ On = {}
  BY DEF Init, On, Kept
<1>2. StateOK
  BY <1>1, InputFacts DEF StateOK
<1>3. ASSUME NEW d \in Dates
      PROVE  NightInv(d)
  <2>1. in.days[d].start \in Nat
    BY <1>1, InputFacts
  <2> QED BY <1>1, <2>1 DEF NightInv
<1>4. Core
  BY <1>1, <1>2, <1>3 DEF Core, TakenInv, RowsInv
<1> QED BY <1>1, <1>4 DEF IInv, PassInv, Passes, ViewInv, InViewingOrder, GoalInv, AltsInv

LEMMA StutterInv ==
  ASSUME IInv, UNCHANGED vars
  PROVE  IInv'
<1>1. /\ in' = in /\ PlaceNothing /\ pass' = pass /\ todo' = todo /\ alts' = alts
      /\ placed' = placed
  BY DEF vars, PlaceNothing
<1>2. /\ AirEpisodes' = AirEpisodes /\ Movies' = Movies /\ OpenNights' = OpenNights
      /\ On' = On /\ Plan' = Plan /\ Dates' = Dates
  BY <1>1, Static DEF On, Plan
<1>3. Core' /\ Grows /\ ViewInv'
  BY <1>1, <1>2, NothingKeeps, NothingGrows, NothingViewKeeps DEF IInv
<1>4. GoalInv'
  BY <1>1, <1>3, TurnGoals
<1>5. PassInv' /\ AltsInv'
  BY <1>1, <1>2 DEF IInv, PassInv, AltsInv, OfferOK
<1> QED BY <1>3, <1>4, <1>5 DEF IInv

(* The engine keeps its invariant, whatever the input and the seed.        *)
THEOREM Invariance == Spec => []IInv
<1>1. Init => IInv
  BY InitInv
<1>2. IInv /\ [Next]_vars => IInv'
  BY KeepRowKeeps, AirPinKeeps, MovieTurnKeeps, FillNightKeeps, OfferAlternatesKeeps,
     NextPassKeeps, StutterInv DEF Next
<1> QED BY <1>1, <1>2, PTL DEF Spec
-----------------------------------------------------------------------------
(* The state is as the passes expect it.                                   *)
THEOREM TypeCorrect == Spec => []TypeOK
<1>1. IInv => TypeOK
  <2> SUFFICES ASSUME IInv
               PROVE  TypeOK
    OBVIOUS
  <2>1. StateOK /\ PassInv
    BY DEF IInv, Core
  <2>2. \A p \in placed : /\ p.date \in Dates /\ p.title \in Titles
                          /\ p.start \in Nat /\ p.end \in Nat
    BY DEF IInv, Core, RowsInv, RowOK
  <2> QED BY <2>1, <2>2 DEF TypeOK, StateOK, PassInv, OpenNights
<1> QED BY <1>1, Invariance, PTL

(* What Generate returns can be put on the calendar as it is: each new row *)
(* is in its night's window and clear of all others, kept ones included,   *)
(* and each alternate is one.  The proofs about Guides rest on it.         *)
THEOREM ContractKept == Spec => []KeepsContract
<1>1. IInv => KeepsContract
  <2> SUFFICES ASSUME IInv
               PROVE  Generation(placed, alts, Kept, in.days)
    BY DEF KeepsContract
  <2>1. WellPlaced(placed, Kept, in.days)
    BY DEF IInv, Core, RowsInv, RowOK, Apart, WellPlaced, Dates, Enabled
  <2>2. ASSUME NEW a \in alts
        PROVE  /\ a.date \in DOMAIN in.days /\ a.end <= in.days[a.date].end
               /\ \E p \in placed \cup Kept : p.date = a.date /\ p.start = a.start
               /\ \A p \in placed \cup Kept : p.date = a.date => p.title # a.title
    BY DEF IInv, AltsInv, OfferOK, Plan, Dates
  <2> QED BY <2>1, <2>2 DEF Generation
<1> QED BY <1>1, Invariance, PTL

(* The viewer of a series meets each of its episodes once, skips none that *)
(* is still ahead, and meets them in order, night after night.             *)
THEOREM EpisodesAreSound == Spec => []EpisodesSound
<1>1. IInv => EpisodesSound
  <2> SUFFICES ASSUME IInv
               PROVE  EpisodesSound
    OBVIOUS
  <2>1. EpisodeOnce
    BY DEF IInv, Core, RowsInv, Apart, Plan, EpisodeOnce
  <2>2. NoEpisodeSkipped
    <3> SUFFICES ASSUME NEW p \in placed, ~p.pinned, ~in.titles[p.title].movie,
                        NEW k \in EpisodesAhead(p.title), Earlier(k, p.ep)
                 PROVE  \E r \in Plan : r.title = p.title /\ r.ep = k
      BY DEF NoEpisodeSkipped
    <3>1. p.title \in Titles /\ p.ep \in Nat \X Nat /\ in \in Inputs
      BY DEF IInv, Core, StateOK, RowsInv, RowOK
    <3>2. k \in Nat \X Nat
      BY <3>1, AheadFacts
    <3>3. ~Earlier(p.ep, k)
      BY <3>1, <3>2, EarlierFacts
    <3>4. k \notin Unplaced(p.title)
      BY <3>3 DEF IInv, ViewInv, Filled
    <3>5. <<p.title, k>> \in taken
      BY <3>4 DEF Unplaced
    <3> QED BY <3>5 DEF IInv, Core, TakenInv, On, Plan
  <2> QED BY <2>1, <2>2 DEF IInv, ViewInv, EpisodesSound
<1> QED BY <1>1, Invariance, PTL

(* No episode is planned before it airs, and one that airs on a night of   *)
(* the guide that has room for it is on the plan.                          *)
THEOREM AiringIsSound == Spec => []AiringSound
<1>1. IInv => AiringSound
  <2> SUFFICES ASSUME IInv
               PROVE  AiringSound
    OBVIOUS
  <2>1. AiringRule
    BY DEF IInv, Core, RowsInv, RowOK, Timed, AiringRule
  <2>2. AppointmentKept
    <3> SUFFICES ASSUME pass = "done", NEW a \in AirEpisodes,
                        NEW d, d = in.titles[a[1]].airs[a[2]],
                        d \in Dates, HasRoom(a[1], d), a[1] \notin night[d].titles
                 PROVE  \E r \in Plan : r.title = a[1] /\ r.ep = a[2]
      BY DEF AppointmentKept, HasRoom
    <3>1. Appointed(a)
      BY SMTT(30) DEF IInv, GoalInv, Visited
    <3>2. <<a[1], a[2]>> \in taken
      BY <3>1 DEF Appointed
    <3> QED BY <3>2, SMTT(30) DEF IInv, Core, TakenInv, On
  <2> QED BY <2>1, <2>2 DEF AiringSound
<1> QED BY <1>1, Invariance, PTL

(* The greedy passes leave no gap that a title of the rotation could fill. *)
THEOREM PlanFills == Spec => []PlanIsFull
<1>1. IInv => PlanIsFull
  <2> SUFFICES ASSUME IInv, pass = "done", NEW d \in Dates, NEW t \in Titles,
                      Enabled(d), in.titles[t].runtime <= Remaining(d),
                      in.titles[t].providers # {}, ~in.titles[t].airing
               PROVE  IF in.titles[t].movie THEN <<t, NoEpisode>> \in taken
                      ELSE t \in night[d].titles \/ Unplaced(t) = {}
    BY DEF PlanIsFull
  <2>1. HasRoom(t, d) /\ d \in OpenNights
    BY DEF HasRoom, OpenNights
  <2>2. CASE in.titles[t].movie
    <3>1. Shown(t)
      BY <2>2 DEF IInv, GoalInv, Visited, Movies
    <3> QED BY <2>1, <2>2, <3>1 DEF Shown
  <2>3. CASE ~in.titles[t].movie
    <3>1. Full(d)
      BY <2>1 DEF IInv, GoalInv, Visited
    <3> QED BY <2>1, <2>3, <3>1 DEF Full
  <2> QED BY <2>2, <2>3
<1> QED BY <1>1, Invariance, PTL

(* A title is shown where it can be watched, a new provider is opened only *)
(* when the plan has none that would do, and an alternate is a real one.   *)
THEOREM ProvidersAreSound == Spec => []ProvidersSound
<1>1. IInv => ProvidersSound
  <2> SUFFICES ASSUME IInv
               PROVE  ProvidersSound
    OBVIOUS
  <2>1. ProviderCarries
    <3> SUFFICES ASSUME NEW p \in placed
                 PROVE  /\ p.provider \in in.titles[p.title].providers
                        /\ OpensLast(p)
      BY DEF ProviderCarries, OpensLast
    <3> QED BY DEF IInv, Core, RowsInv, RowOK
  <2>2. AlternatesSound
    BY DEF IInv, AltsInv, OfferOK, AlternatesSound
  <2> QED BY <2>1, <2>2 DEF ProvidersSound
<1> QED BY <1>1, Invariance, PTL
=============================================================================
