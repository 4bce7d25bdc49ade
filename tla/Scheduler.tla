------------------------------ MODULE Scheduler ------------------------------
(***************************************************************************)
(* The guide engine, guide.Generate of api/internal/guide/guide.go: five   *)
(* greedy passes over one input.  A step of the specification is one turn  *)
(* of a pass's outer loop.  The engine breaks ties with a seeded rng; here *)
(* a tie is a nondeterministic choice, so what is shown holds for every    *)
(* seed.                                                                   *)
(*                                                                         *)
(* An input is a record                                                    *)
(*   days    [date -> window]        the nights of the guide               *)
(*   titles  [id -> title]           the user's rotation                   *)
(*   keep    a set of rows with ids  what a regenerate leaves in place     *)
(* a title is [movie, runtime, providers, airing, pointer, seasons, airs], *)
(* where seasons maps a season to its number of episodes and airs maps an  *)
(* episode to its known air date.  Dates are integers, consecutive dates   *)
(* being consecutive days; an episode is a pair <<season, number>>.        *)
(***************************************************************************)
EXTENDS PlanContract, FiniteSets

CONSTANTS Inputs,        \* the inputs the callers may hydrate
          AlternateCap   \* alternates offered per plan row (3 in the code)

NoEpisode == <<0, 0>>    \* the season and episode of a movie's row

Earlier(k, l) == k[1] < l[1] \/ (k[1] = l[1] /\ k[2] < l[2])

WindowOK(w) == /\ w.start \in Nat /\ w.end \in Nat
               /\ w = NightOff \/ w.start < w.end

TitleOK(t) == /\ t.movie \in BOOLEAN /\ t.airing \in BOOLEAN
              /\ t.runtime \in Nat \ {0}
              /\ t.providers \subseteq Nat
              /\ t.pointer \in (Nat \ {0}) \X (Nat \ {0})
              /\ t.seasons \in [DOMAIN t.seasons -> Nat]
              /\ DOMAIN t.seasons \subseteq Nat \ {0}
              /\ DOMAIN t.airs \subseteq (Nat \ {0}) \X (Nat \ {0})
              /\ t.airs \in [DOMAIN t.airs -> Int]

KeepOK(k) == /\ k.date \in Int /\ k.start \in Nat /\ k.end \in Nat
             /\ k.title \in Nat /\ k.provider \in Nat
             /\ k.ep \in Nat \X Nat
             /\ k.plan \in BOOLEAN

(* A window comes from prefs.Windows, a title from store.GuideInputTitles, *)
(* a kept row from guide_items: its title is a movie exactly when it       *)
(* carries no episode.                                                     *)
InputOK(i) ==
  /\ IsFiniteSet(DOMAIN i.days) /\ IsFiniteSet(DOMAIN i.titles)
  /\ DOMAIN i.days \subseteq Int /\ \A d \in DOMAIN i.days : WindowOK(i.days[d])
  /\ DOMAIN i.titles \subseteq Nat /\ \A t \in DOMAIN i.titles : TitleOK(i.titles[t])
  /\ \A k \in i.keep :
        /\ KeepOK(k)
        /\ k.title \in DOMAIN i.titles =>
              (i.titles[k.title].movie <=> k.ep = NoEpisode)

ASSUME InputsAssumption == \A i \in Inputs : InputOK(i)
ASSUME CapAssumption == AlternateCap \in Nat

VARIABLES
  in,      \* the input of this call
  pass,    \* the pass that is running
  todo,    \* what the running pass has still to visit
  night,   \* per date: next free minute, titles and providers on the plan
  taken,   \* <<title, episode>> pairs the plan has claimed
  count,   \* per title of the rotation: rows on the plan
  placed,  \* the rows the engine has put on the plan
  alts     \* the alternates, with the plan row each one is offered beside

vars == <<in, pass, todo, night, taken, count, placed, alts>>

Passes == {"keep", "airpins", "movies", "fill", "alternates", "done"}

Dates  == DOMAIN in.days
Titles == DOMAIN in.titles
Kept   == {k \in in.keep : k.plan}
Plan   == Kept \cup placed

Enabled(d)   == in.days[d] # NightOff
Remaining(d) == in.days[d].end - night[d].next
FitsWindow(t, d) ==   \* the night's whole window, whatever is on its plan
  Enabled(d) /\ in.titles[t].runtime <= in.days[d].end - in.days[d].start

HasRoomToSpare(t, d) == Enabled(d) /\ in.titles[t].runtime < Remaining(d)   \* < for <=

HasRoom(t, d) == Enabled(d) /\ in.titles[t].runtime <= Remaining(d)

Least(S) == CHOOSE x \in S : \A y \in S : x <= y

(* A provider already on tonight's plan, else the lowest id.               *)
PickLowestProvider(t, d) == Least(in.titles[t].providers)   \* tonight's ignored

PickProvider(t, d) ==
  LET tonight == in.titles[t].providers \cap night[d].providers
  IN  IF tonight # {} THEN Least(tonight) ELSE Least(in.titles[t].providers)

Row(t, ep, d, pinned) ==
  [date |-> d, start |-> night[d].next,
   end |-> night[d].next + in.titles[t].runtime,
   title |-> t, ep |-> ep, provider |-> PickProvider(t, d), pinned |-> pinned]

(* The end of a night's plan moves to `end`, with one more title.          *)
Occupy(n, end, t, p) ==
  [next |-> end, titles |-> n.titles \cup {t}, providers |-> n.providers \cup {p}]

Place(t, ep, d, pinned) ==
  LET row == Row(t, ep, d, pinned) IN
  /\ placed' = placed \cup {row}
  /\ night' = [night EXCEPT ![d] = Occupy(@, row.end, t, row.provider)]
  /\ taken' = taken \cup {<<t, ep>>}
  /\ count' = [count EXCEPT ![t] = @ + 1]

PlaceNothing == UNCHANGED <<night, taken, count, placed>>
-----------------------------------------------------------------------------
(* passKeep: a kept plan row claims its time, title, provider and episode; *)
(* one that is not a plan row claims nothing.                              *)
KeepRow ==
  /\ pass = "keep"
  /\ \E k \in todo :
       /\ \A l \in todo : k.date < l.date \/ (k.date = l.date /\ k.start <= l.start)
       /\ todo' = todo \ {k}
       /\ night' = IF k.plan /\ k.date \in Dates
                   THEN [night EXCEPT ![k.date] =
                           Occupy(@, IF k.end > @.next THEN k.end ELSE @.next,
                                  k.title, k.provider)]
                   ELSE night
       /\ taken' = IF k.plan THEN taken \cup {<<k.title, k.ep>>} ELSE taken
       /\ count' = IF k.plan /\ k.title \in Titles
                   THEN [count EXCEPT ![k.title] = @ + 1] ELSE count
  /\ UNCHANGED <<in, pass, placed, alts>>

(* passAirPins: an episode at or after the pointer goes to its air night,  *)
(* unless it is on the plan, the night is full or already has the series.  *)
AirEpisodes ==
  {a \in UNION {{<<t, k>> : k \in DOMAIN in.titles[t].airs} : t \in Titles} :
     LET t == in.titles[a[1]] IN
     ~t.movie /\ t.airing /\ t.providers # {} /\ ~Earlier(a[2], t.pointer)}

VisitedBefore(a, b) == a[1] < b[1] \/ (a[1] = b[1] /\ Earlier(a[2], b[2]))

Pinnable(t, ep, d) ==
  /\ <<t, ep>> \notin taken
  /\ d \in Dates
  /\ HasRoom(t, d)
  /\ t \notin night[d].titles

AirPin ==
  /\ pass = "airpins"
  /\ \E a \in todo :
       LET t == a[1]  ep == a[2]  d == in.titles[t].airs[ep] IN
       /\ \A b \in todo \ {a} : VisitedBefore(a, b)
       /\ todo' = todo \ {a}
       /\ IF Pinnable(t, ep, d) THEN Place(t, ep, d, TRUE) ELSE PlaceNothing
  /\ UNCHANGED <<in, pass, alts>>

(* passMovies: each movie once, on a night with the most time left.        *)
Movies == {t \in Titles : in.titles[t].movie /\ in.titles[t].providers # {}}

Longest(t) == {d \in Dates : /\ HasRoom(t, d)
                             /\ \A e \in Dates : HasRoom(t, e) => Remaining(e) <= Remaining(d)}

MovieTurn ==
  /\ pass = "movies"
  /\ \E t \in todo :
       /\ \A u \in todo : t <= u
       /\ todo' = todo \ {t}
       /\ IF <<t, NoEpisode>> \notin taken /\ Longest(t) # {}
          THEN \E d \in Longest(t) : Place(t, NoEpisode, d, FALSE)
          ELSE PlaceNothing
  /\ UNCHANGED <<in, pass, alts>>
-----------------------------------------------------------------------------
(* nextEpisode walks from the pointer through the seasons that are known,  *)
(* stopping at the first season that is not.                               *)
EpisodesAhead(t) ==
  LET T == in.titles[t] IN
  {k \in UNION {{<<s, e>> : e \in 1..T.seasons[s]} : s \in DOMAIN T.seasons} :
     /\ ~Earlier(k, T.pointer)
     /\ \A s \in T.pointer[1]..k[1] : s \in DOMAIN T.seasons}

Unplaced(t) == {k \in EpisodesAhead(t) : <<t, k>> \notin taken}

(* The next episode, as a set of one, or of none when t is exhausted.      *)
EpisodeAfterClaims(t) ==   \* goes on after the last claimed episode, over any gap
  LET later == {k \in Unplaced(t) : \A c \in taken : c[1] = t => Earlier(c[2], k)} IN
  {k \in later : \A l \in later : k = l \/ Earlier(k, l)}

NextEpisode(t) == {k \in Unplaced(t) : \A l \in Unplaced(t) : k = l \/ Earlier(k, l)}

(* The airing rule: an episode known to air later waits.                   *)
SchedulableDayBefore(t, ep, d) ==   \* off by one
  LET T == in.titles[t] IN
  (T.airing /\ ep \in DOMAIN T.airs) => T.airs[ep] <= d + 1

Schedulable(t, ep, d) ==
  LET T == in.titles[t] IN
  (T.airing /\ ep \in DOMAIN T.airs) => T.airs[ep] <= d

(* passFill: what may still go on night d, and how well it would do there. *)
Candidates(d) ==
  {c \in UNION {{<<t, k>> : k \in NextEpisode(t)} : t \in Titles} :
     LET T == in.titles[c[1]] IN
     /\ ~T.movie /\ T.providers # {}
     /\ c[1] \notin night[d].titles
     /\ HasRoom(c[1], d)
     /\ Schedulable(c[1], c[2], d)}

Score(t, d) ==
  -2 * count[t]
  - (IF d - 1 \in Dates /\ t \in night[d - 1].titles THEN 3 ELSE 0)
  + (IF in.titles[t].providers \cap night[d].providers # {} THEN 2 ELSE 0)

Best(d) == {c \in Candidates(d) : \A b \in Candidates(d) : Score(b[1], d) <= Score(c[1], d)}

FillWithoutBreak ==   \* the inner loop never leaves a night
  /\ pass = "fill"
  /\ \E d \in todo :
       /\ \A e \in todo : d <= e
       /\ todo' = todo /\ \E c \in Best(d) : Place(c[1], c[2], d, FALSE)
  /\ UNCHANGED <<in, pass, alts>>

FillNight ==
  /\ pass = "fill"
  /\ \E d \in todo :
       /\ \A e \in todo : d <= e
       /\ IF Candidates(d) = {}
          THEN todo' = todo \ {d} /\ PlaceNothing
          ELSE todo' = todo /\ \E c \in Best(d) : Place(c[1], c[2], d, FALSE)
  /\ UNCHANGED <<in, pass, alts>>
-----------------------------------------------------------------------------
(* passAlternates: what else a plan row's slot could show, on another      *)
(* provider if there is one; nothing is claimed by an alternate.           *)
OtherProvider(t, p) ==
  LET others == in.titles[t].providers \ {p}
  IN  IF others # {} THEN Least(others) ELSE Least(in.titles[t].providers)

AlternateEpisode(t) == IF ~in.titles[t].movie THEN NextEpisode(t)
                       ELSE IF <<t, NoEpisode>> \in taken THEN {} ELSE {NoEpisode}

Offers(p) ==
  {[slot |-> p, date |-> p.date, start |-> p.start,
    end |-> p.start + in.titles[c[1]].runtime,
    title |-> c[1], ep |-> c[2], provider |-> OtherProvider(c[1], p.provider)] :
      c \in {x \in UNION {{<<t, k>> : k \in AlternateEpisode(t)} : t \in Titles} :
               LET T == in.titles[x[1]] IN
               /\ x[1] # p.title /\ T.providers # {}
               /\ p.start + T.runtime <= in.days[p.date].end
               /\ x[1] \notin night[p.date].titles
               /\ T.movie \/ Schedulable(x[1], x[2], p.date)}}

(* Offers on another provider come first, then by title id.                *)
Preferred(a, b) ==
  LET same(o) == o.provider = o.slot.provider IN
  (~same(a) /\ same(b)) \/ (same(a) = same(b) /\ a.title < b.title)

Shortlist(p) == {a \in Offers(p) : Cardinality({b \in Offers(p) : Preferred(b, a)}) < AlternateCap}

OfferAlternates ==
  /\ pass = "alternates" /\ todo # {}
  /\ alts' = UNION {Shortlist(p) : p \in todo}
  /\ todo' = {}
  /\ PlaceNothing
  /\ UNCHANGED <<in, pass>>
-----------------------------------------------------------------------------
Following == [keep |-> "airpins", airpins |-> "movies", movies |-> "fill",
              fill |-> "alternates", alternates |-> "done"]

AllNights == Dates   \* disabled nights too

OpenNights == {d \in Dates : Enabled(d)}

Work(p) == CASE p = "airpins"    -> AirEpisodes
             [] p = "movies"     -> Movies
             [] p = "fill"       -> OpenNights
             [] p = "alternates" -> {r \in Plan : r.date \in Dates}
             [] p = "done"       -> {}

NextPass ==
  /\ pass # "done" /\ todo = {}
  /\ pass' = Following[pass]
  /\ todo' = Work(Following[pass])
  /\ PlaceNothing
  /\ UNCHANGED <<in, alts>>

Init ==
  /\ in \in Inputs
  /\ pass = "keep"
  /\ todo = in.keep
  /\ night = [d \in Dates |-> [next |-> in.days[d].start, titles |-> {}, providers |-> {}]]
  /\ taken = {}
  /\ count = [t \in Titles |-> 0]
  /\ placed = {}
  /\ alts = {}

Next == KeepRow \/ AirPin \/ MovieTurn \/ FillNight \/ OfferAlternates \/ NextPass

Spec == Init /\ [][Next]_vars /\ WF_vars(Next)
-----------------------------------------------------------------------------
(* What the guide promises.                                                *)

(* The state's types, pass by pass.                                        *)
TypeOK ==
  /\ in \in Inputs
  /\ pass \in Passes
  /\ night \in [Dates -> [next : Nat, titles : SUBSET Nat, providers : SUBSET Nat]]
  /\ taken \subseteq Nat \X (Nat \X Nat)
  /\ count \in [Titles -> Nat]
  /\ \A p \in placed : p.date \in Dates /\ p.title \in Titles /\ p.start \in Nat /\ p.end \in Nat
  /\ pass = "keep" => todo \subseteq in.keep
  /\ pass = "airpins" => todo \subseteq AirEpisodes
  /\ pass = "movies" => todo \subseteq Movies
  /\ pass = "fill" => todo \subseteq {d \in Dates : Enabled(d)}
  /\ pass = "alternates" => todo \subseteq Plan

(* The contract of PlanContract, on which Guides relies.  Above all, every *)
(* new row fits its night's window and neither overlaps nor repeats the    *)
(* title of another row of the night, kept rows included, wherever the     *)
(* user has moved those (hard constraints 1 and 2 of the engine design).   *)
KeepsContract == Generation(placed, alts, Kept, in.days)

(* No episode and no movie is planned twice, not even when a kept row of   *)
(* another night already shows it (passKeep's claims, markPlaced).         *)
EpisodeOnce ==
  \A p \in placed : \A r \in Plan :
     r # p => <<r.title, r.ep>> # <<p.title, p.ep>>

(* A filled-in episode never runs ahead of the viewer: every episode from  *)
(* the pointer up to it is on the plan too (nextEpisode's walk).           *)
NoEpisodeSkipped ==
  \A p \in placed :
     ~p.pinned /\ ~in.titles[p.title].movie =>
        \A k \in EpisodesAhead(p.title) :
           Earlier(k, p.ep) => \E r \in Plan : r.title = p.title /\ r.ep = k

(* Filled-in episodes of a series follow the calendar, whatever rows were  *)
(* kept or pinned in between (passFill's night order).                     *)
InViewingOrder ==
  \A p, q \in placed :
     /\ p.title = q.title /\ p.date < q.date
     /\ ~p.pinned /\ ~q.pinned
     => Earlier(p.ep, q.ep)

(* The viewer meets every episode once, none skipped, in viewing order.    *)
EpisodesSound == EpisodeOnce /\ NoEpisodeSkipped /\ InViewingOrder

(* An airing episode with a known air date is never planned before it, and *)
(* an air pin sits on the air night itself (hard constraint 3).            *)
AiringRule ==
  \A p \in placed :
     LET T == in.titles[p.title] IN
     T.airing /\ p.ep \in DOMAIN T.airs =>
        /\ T.airs[p.ep] <= p.date
        /\ p.pinned => T.airs[p.ep] = p.date

(* Appointment TV: an episode that airs on a night of the guide is on the  *)
(* plan, unless its series already has that night or the night is full.    *)
AppointmentKept ==
  pass = "done" =>
    \A a \in AirEpisodes :
      LET d == in.titles[a[1]].airs[a[2]] IN
      d \in Dates /\ Enabled(d) /\ in.titles[a[1]].runtime <= Remaining(d) =>
         \/ a[1] \in night[d].titles
         \/ \E r \in Plan : r.title = a[1] /\ r.ep = a[2]

(* Both halves of the airing rule: never early, and on the night if it can *)
(* be (hard constraint 3 and the air pins of the engine design).           *)
AiringSound == AiringRule /\ AppointmentKept

(* The greedy passes leave no usable gap: a title with a provider that     *)
(* would still fit a night is on it, or has nothing left to show.  Airing  *)
(* series are excepted: their next episode may be waiting for its date.    *)
PlanIsFull ==
  pass = "done" =>
    \A d \in Dates : \A t \in Titles :
      LET T == in.titles[t] IN
      Enabled(d) /\ T.runtime <= Remaining(d) /\ T.providers # {} /\ ~T.airing =>
        IF T.movie THEN <<t, NoEpisode>> \in taken
        ELSE t \in night[d].titles \/ Unplaced(t) = {}

(* An alternate is a real alternative: an episode that no night's plan     *)
(* shows, on the slot's own provider only if its title has no other; and a *)
(* slot has at most AlternateCap of them.                                  *)
AlternatesSound ==
  \A a \in alts :
    /\ \A r \in Plan : r.title = a.title => r.ep # a.ep
    /\ a.provider = a.slot.provider => in.titles[a.title].providers = {a.slot.provider}
    /\ Cardinality({b \in alts : b.slot = a.slot}) <= AlternateCap

(* A title is shown only on a provider that carries it in the region; and  *)
(* a new row that opens a provider of its own, with no other row of the    *)
(* night on it, had to: no kept or earlier row's provider carries its      *)
(* title (pickProvider).                                                   *)
ProviderCarries ==
  \A p \in placed :
    LET carriers == in.titles[p.title].providers IN
    /\ p.provider \in carriers
    /\ \A r \in Plan :
         (r.date = p.date /\ (r.start < p.start \/ r \in Kept)) =>
            (r.provider \in carriers => \E q \in Plan : /\ q # p
                                                        /\ q.date = p.date
                                                        /\ q.provider = p.provider)

(* What a row or an alternate names can be watched where it says.          *)
ProvidersSound == ProviderCarries /\ AlternatesSound

(* Every call returns: each turn of each pass uses something up.           *)
Returns == <>(pass = "done")
=============================================================================
