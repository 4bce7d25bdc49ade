---------------------- MODULE SettingsAutosave_proofs ----------------------
(***************************************************************************)
(* Theorems about SettingsAutosave, for any days, regions, slider, stored  *)
(* documents, number of saves in flight, edits, losses and visits.         *)
(***************************************************************************)
EXTENDS SettingsAutosave, TLAPS

(* The mounted form: its timer runs when the debounce says so, nothing is  *)
(* attempted that the user has not touched, and what is sent is valid.     *)
FormInv ==
  /\ form # NoForm => /\ timer = Debounce(form, last, flights)
                      /\ form # last \/ Mine(flights) # {} => touched
  /\ wanted # NoForm => Valid(wanted)
  /\ \A s \in InFlight(flights) : Valid(flights[s].doc)

(* As long as nothing has crossed: one save is in flight at a time, and    *)
(* succeeds; with none, the store is what was last attempted; and what the *)
(* user wanted is in the form, or in the last save.                        *)
SyncInv ==
  ~crossed =>
    /\ \A s, u \in InFlight(flights) : s = u
    /\ \A s \in InFlight(flights) : /\ flights[s].at # "failed"
                                    /\ flights[s].at = "saved" => stored = flights[s].doc
    /\ form # NoForm =>
         /\ InFlight(flights) = Mine(flights)
         /\ wanted # NoForm => form = wanted
         /\ InFlight(flights) = {} => Seed(stored) = last
    /\ form = NoForm /\ wanted # NoForm =>
         /\ InFlight(flights) = {} => Seed(stored) = wanted
         /\ \A s \in InFlight(flights) : flights[s].doc = wanted

(* The types of what these are about.                                      *)
FormType ==
  /\ stored \in Docs
  /\ timer \in BOOLEAN /\ touched \in BOOLEAN /\ crossed \in BOOLEAN
  /\ IF form = NoForm THEN last = NoForm ELSE form \in Forms /\ last \in Forms
  /\ wanted \in Forms \cup {NoForm}
  /\ timer => form # NoForm
  /\ flights \in [Saves -> Flight \cup {Idle}]
  /\ form = NoForm => Mine(flights) = {}

FormOK == FormType /\ FormInv /\ SyncInv

IInv == TypeOK /\ FormInv /\ SyncInv
-----------------------------------------------------------------------------
LEMMA DivBounds ==
  ASSUME NEW x \in Nat, NEW y \in Nat \ {0}
  PROVE  /\ x \div y \in Nat
         /\ y * (x \div y) <= x
         /\ x < y * (x \div y) + y
BY SMT

LEMMA TimesMonotonic ==
  ASSUME NEW a \in Nat, NEW b \in Nat, NEW c \in Nat, a <= b
  PROVE  a * c <= b * c /\ a * c \in Nat
BY SMT

LEMMA Multiples ==
  ASSUME NEW x \in Nat, NEW y \in Nat \ {0}, x % y = 0
  PROVE  \E k \in Nat : x = k * y
BY SMT
-----------------------------------------------------------------------------
(* A thumb stands on the track, at whatever minute its time is.            *)
LEMMA ToDisplayOnTrack ==
  ASSUME NEW m \in Int
  PROVE  ToDisplay(m) \in TrackMin..TrackMax
<1> DEFINE D == TrackMax - TrackMin
           a == Clamp(m, TrackMin, TrackMax) - TrackMin
           q == (2 * a + Step) \div (2 * Step)
<1>1. TrackMin \in Nat /\ TrackMax \in Nat /\ Step \in Nat \ {0} /\ D \in Nat /\ D % Step = 0
  BY SettingsAssumption DEF Stops
<1>2. a \in 0..D
  BY <1>1 DEF Clamp
<1> HIDE DEF D, a
<1>3. PICK k \in Nat : D = k * Step
  BY <1>1, Multiples
<1>4. /\ q \in Nat
      /\ (2 * Step) * q <= 2 * a + Step
  <2>1. 2 * a + Step \in Nat /\ 2 * Step \in Nat \ {0}
    BY <1>1, <1>2
  <2> QED BY <2>1, DivBounds
<1> HIDE DEF q
<1>5. q <= k
  <2> SUFFICES ASSUME k + 1 <= q
               PROVE  FALSE
    BY <1>3, <1>4
  <2>1. (k + 1) * (2 * Step) <= q * (2 * Step)
    BY <1>1, <1>3, <1>4, TimesMonotonic
  <2>2. (k + 1) * (2 * Step) = 2 * D + 2 * Step /\ q * (2 * Step) = (2 * Step) * q
    BY <1>1, <1>3, <1>4
  <2> QED BY <1>1, <1>2, <1>4, <2>1, <2>2
<1>6. q * Step <= D /\ q * Step \in Nat
  BY <1>1, <1>3, <1>4, <1>5, TimesMonotonic
<1>7. ToDisplay(m) = q * Step + TrackMin
  BY DEF ToDisplay, q, a
<1> QED BY <1>1, <1>6, <1>7 DEF D

LEMMA ParsedIsMinute ==
  ASSUME NEW t \in Times \cup {Empty}
  PROVE  ParseHHMM(t) \in Int
BY SettingsAssumption DEF ParseHHMM, Times, Stops

(* What a slide makes of a window: minutes of the day, in order.           *)
Slid(w, thumb, stop) ==
  LET pair == IF thumb = "start"
              THEN ClampPair(stop, ToDisplay(ParseHHMM(w.end)), "start")
              ELSE ClampPair(ToDisplay(ParseHHMM(w.start)), stop, "end")
  IN  [w EXCEPT !.start = ToHHMM(pair[1]), !.end = ToHHMM(pair[2])]

LEMMA SlidIsValid ==
  ASSUME NEW w \in Windows, NEW thumb \in {"start", "end"}, NEW stop \in Stops
  PROVE  Slid(w, thumb, stop) \in Windows /\ WindowValid(Slid(w, thumb, stop))
<1>1. /\ TrackMin \in Nat /\ TrackMax \in Nat /\ Step \in Nat /\ Step > 1
      /\ TrackMin + Step < TrackMax /\ stop \in TrackMin..TrackMax
      /\ Empty \notin Int
  BY SettingsAssumption DEF Stops
<1>2. /\ ToDisplay(ParseHHMM(w.start)) \in TrackMin..TrackMax
      /\ ToDisplay(ParseHHMM(w.end)) \in TrackMin..TrackMax
  BY ParsedIsMinute, ToDisplayOnTrack DEF Windows
<1> DEFINE pair == IF thumb = "start"
                   THEN ClampPair(stop, ToDisplay(ParseHHMM(w.end)), "start")
                   ELSE ClampPair(ToDisplay(ParseHHMM(w.start)), stop, "end")
<1>3. /\ pair[1] \in TrackMin..TrackMax /\ pair[2] \in TrackMin..TrackMax
      /\ pair[1] + Step <= pair[2]
  <2>1. CASE thumb = "start"
    BY <1>1, <1>2, <2>1 DEF ClampPair, Clamp
  <2>2. CASE thumb = "end"
    BY <1>1, <1>2, <2>2 DEF ClampPair, Clamp
  <2> QED BY <2>1, <2>2
<1> HIDE DEF pair
<1>4. /\ ToHHMM(pair[1]) \in Times /\ ToHHMM(pair[2]) \in Times
      /\ ToHHMM(pair[1]) < ToHHMM(pair[2])
  BY <1>1, <1>3 DEF ToHHMM, Times
<1>5. Slid(w, thumb, stop) = [w EXCEPT !.start = ToHHMM(pair[1]), !.end = ToHHMM(pair[2])]
  BY DEF Slid, pair
<1>6. Slid(w, thumb, stop) \in Windows
  BY <1>4, <1>5 DEF Windows
<1>7. Slid(w, thumb, stop).start = ToHHMM(pair[1]) /\ Slid(w, thumb, stop).end = ToHHMM(pair[2])
  BY <1>5 DEF Windows
<1>8. Empty \notin Times
  BY <1>1 DEF Times
<1> QED BY <1>4, <1>6, <1>7, <1>8 DEF WindowValid

LEMMA SeedIsForm ==
  /\ \A doc \in Docs : Seed(doc) \in Forms
  /\ \A f \in Forms : f \in Docs /\ Seed(f) = f
<1>1. DefaultWindow \in Windows /\ Missing \notin Windows
  BY SettingsAssumption
<1>2. ASSUME NEW doc \in Docs
      PROVE  Seed(doc) \in Forms
  BY <1>1 DEF Seed, Docs, Forms
<1>3. ASSUME NEW f \in Forms
      PROVE  f \in Docs /\ Seed(f) = f
  <2>1. f.windows \in [Days -> Windows] /\ f.region \in Regions
        /\ f = [region |-> f.region, windows |-> f.windows]
    BY DEF Forms
  <2>2. f \in Docs
    BY <2>1 DEF Docs
  <2>3. [d \in Days |-> IF f.windows[d] = Missing THEN DefaultWindow ELSE f.windows[d]] = f.windows
    BY <1>1, <2>1
  <2> QED BY <2>1, <2>2, <2>3 DEF Seed
<1> QED BY <1>2, <1>3

(* The server accepts what the form holds valid.                           *)
LEMMA ValidIsValidated ==
  ASSUME NEW f \in Forms, Valid(f)
  PROVE  Validate(f)
BY SettingsAssumption DEF Forms, Windows, Valid, WindowValid, Validate

(* What an edit makes of the form.                                         *)
LEMMA WindowSet ==
  ASSUME NEW f \in Forms, NEW d \in Days, NEW w \in Windows
  PROVE  /\ [f EXCEPT !.windows[d] = w] \in Forms
         /\ [f EXCEPT !.windows[d] = w].windows[d] = w
<1>1. [f.windows EXCEPT ![d] = w] \in [Days -> Windows]
  BY DEF Forms
<1> QED BY <1>1 DEF Forms
-----------------------------------------------------------------------------
(* The saves in flight, when one more is sent, or the form goes away.      *)
LEMMA NoFormIsNone == NoForm \notin Docs /\ NoForm \notin Forms /\ Idle \notin Flight
BY SentinelAssumption, SeedIsForm

OneMore(new, fl, s, doc) ==
  /\ new \in [Saves -> Flight \cup {Idle}]
  /\ InFlight(new) = InFlight(fl) \cup {s}
  /\ \A u \in Saves \ {s} : new[u] = fl[u]
  /\ new[s].doc = doc /\ new[s].at = "sent"

OneMoreMine(new, fl, s) == Mine(new) = Mine(fl) \cup {s}

LEMMA SentFacts ==
  ASSUME NEW fl \in [Saves -> Flight \cup {Idle}], NEW s \in Saves, fl[s] = Idle,
         NEW doc \in Forms
  PROVE  /\ OneMore(Sent(fl, s, doc, TRUE), fl, s, doc)
         /\ OneMore(Sent(fl, s, doc, FALSE), fl, s, doc)
         /\ OneMoreMine(Sent(fl, s, doc, TRUE), fl, s)
         /\ Mine(Sent(fl, s, doc, FALSE)) = Mine(fl)
<1>1. ASSUME NEW mine \in BOOLEAN
      PROVE  LET new == Sent(fl, s, doc, mine) IN
             /\ OneMore(new, fl, s, doc)
             /\ new[s].mine = mine
  <2> DEFINE save == [doc |-> doc, at |-> "sent", mine |-> mine]
  <2>1. save \in Flight /\ save # Idle
    BY SentinelAssumption DEF Flight
  <2> QED BY <2>1 DEF Sent, OneMore, InFlight
<1>2. OneMore(Sent(fl, s, doc, TRUE), fl, s, doc) /\ Sent(fl, s, doc, TRUE)[s].mine
  BY <1>1
<1>3. OneMore(Sent(fl, s, doc, FALSE), fl, s, doc) /\ ~Sent(fl, s, doc, FALSE)[s].mine
  BY <1>1
<1> QED BY <1>2, <1>3, ZenonT(40) DEF OneMore, OneMoreMine, InFlight, Mine

LEMMA OrphanedFacts ==
  ASSUME NEW fl \in [Saves -> Flight \cup {Idle}]
  PROVE  /\ Orphaned(fl) \in [Saves -> Flight \cup {Idle}]
         /\ InFlight(Orphaned(fl)) = InFlight(fl) /\ Mine(Orphaned(fl)) = {}
         /\ \A s \in InFlight(fl) : /\ Orphaned(fl)[s].doc = fl[s].doc
                                    /\ Orphaned(fl)[s].at = fl[s].at
         /\ \A s \in Saves : Orphaned(fl)[s] = Idle <=> fl[s] = Idle
<1>1. ASSUME NEW s \in Saves, fl[s] # Idle
      PROVE  /\ Orphaned(fl)[s] \in Flight /\ Orphaned(fl)[s] # Idle
             /\ Orphaned(fl)[s].doc = fl[s].doc /\ Orphaned(fl)[s].at = fl[s].at
             /\ Orphaned(fl)[s].mine = FALSE
  BY <1>1, SentinelAssumption DEF Orphaned, Flight
<1>2. \A s \in Saves : fl[s] = Idle => Orphaned(fl)[s] = Idle
  BY DEF Orphaned
<1>3. Orphaned(fl) \in [Saves -> Flight \cup {Idle}]
  BY <1>1, <1>2 DEF Orphaned
<1> QED BY <1>1, <1>2, <1>3 DEF InFlight, Mine
-----------------------------------------------------------------------------
(* The form is mounted and unmounted.                                      *)
LEMMA MountKeeps ==
  ASSUME FormOK, form = NoForm, NEW doc \in Docs, MountForm(doc), UNCHANGED <<stored, wanted>>
  PROVE  FormOK' /\ form' # NoForm
<1>1. /\ form' = Seed(doc) /\ last' = Seed(doc) /\ Seed(doc) \in Forms
      /\ flights' = flights /\ touched' = FALSE
      /\ timer' = FALSE
      /\ crossed' = (crossed \/ SeedIsStale(doc, flights))
  BY SeedIsForm DEF MountForm, FirstAttempted, Debounce
<1>2. Mine(flights) = {} /\ form' # NoForm
  BY <1>1, NoFormIsNone DEF FormOK, FormType
<1>3. FormType'
  BY <1>1, <1>2 DEF FormOK, FormType
<1>4. FormInv'
  BY <1>1, <1>2 DEF FormOK, FormInv, Debounce
<1>5. SyncInv'
  <2> SUFFICES ASSUME ~crossed'
               PROVE  SyncInv'
    BY DEF SyncInv
  <2>1. ~crossed /\ InFlight(flights) = {} /\ doc = stored
    BY <1>1 DEF SeedIsStale
  <2>2. wanted # NoForm => Seed(stored) = wanted
    BY <2>1 DEF FormOK, SyncInv
  <2> QED BY <1>1, <1>2, <2>1, <2>2 DEF SyncInv
<1> QED BY <1>2, <1>3, <1>4, <1>5 DEF FormOK

LEMMA UnmountKeeps ==
  ASSUME FormOK, form # NoForm, UnmountForm, UNCHANGED <<stored, wanted>>
  PROVE  FormOK' /\ form' = NoForm
<1>0. /\ form' = NoForm /\ last' = NoForm /\ timer' = FALSE /\ touched' = FALSE
      /\ form \in Forms /\ flights \in [Saves -> Flight \cup {Idle}] /\ crossed \in BOOLEAN
      /\ crossed' = (crossed \/ (Flush(form, last) /\ InFlight(flights) # {})
                             \/ \E s \in Mine(flights) : flights[s].doc # form)
  BY DEF UnmountForm, FormOK, FormType
<1>1. CASE Flush(form, last)
  <2>1. PICK s \in Saves : flights[s] = Idle /\ flights' = Sent(Orphaned(flights), s, form, FALSE)
    BY <1>1 DEF UnmountForm
  <2>2. Valid(form)
    BY <1>1 DEF Flush
  <2>3. /\ flights' \in [Saves -> Flight \cup {Idle}] /\ Mine(flights') = {}
        /\ InFlight(flights') = InFlight(flights) \cup {s}
        /\ \A u \in InFlight(flights) : flights'[u].doc = flights[u].doc
        /\ flights'[s].doc = form /\ flights'[s].at = "sent"
    <3>1. Orphaned(flights) \in [Saves -> Flight \cup {Idle}] /\ Orphaned(flights)[s] = Idle
      BY <1>0, <2>1, OrphanedFacts
    <3>2. \A u \in InFlight(flights) : u \in Saves \ {s}
      BY <2>1 DEF InFlight
    <3>3. /\ flights' \in [Saves -> Flight \cup {Idle}]
          /\ Mine(flights') = Mine(Orphaned(flights))
          /\ InFlight(flights') = InFlight(Orphaned(flights)) \cup {s}
          /\ \A u \in Saves \ {s} : flights'[u] = Orphaned(flights)[u]
          /\ flights'[s].doc = form /\ flights'[s].at = "sent"
      <4>1. form \in Forms
        BY <1>0
      <4>2. /\ OneMore(Sent(Orphaned(flights), s, form, FALSE), Orphaned(flights), s, form)
            /\ Mine(Sent(Orphaned(flights), s, form, FALSE)) = Mine(Orphaned(flights))
        BY <3>1, <4>1, SentFacts
      <4> QED BY <2>1, <4>2 DEF OneMore
    <3> QED BY <1>0, <3>2, <3>3, OrphanedFacts
  <2>4. FormType'
    BY <1>0, <2>3 DEF FormOK, FormType
  <2>5. FormInv'
    BY <1>0, <2>2, <2>3 DEF FormOK, FormInv
  <2>6. SyncInv'
    <3> SUFFICES ASSUME ~crossed'
                 PROVE  SyncInv'
      BY DEF SyncInv
    <3>1. ~crossed /\ InFlight(flights) = {} /\ InFlight(flights') = {s}
      BY <1>0, <1>1, <2>3
    <3>2. wanted # NoForm => form = wanted
      BY <3>1 DEF FormOK, SyncInv
    <3> QED BY <1>0, <2>3, <3>1, <3>2 DEF SyncInv
  <2> QED BY <1>0, <2>4, <2>5, <2>6 DEF FormOK
<1>2. CASE ~Flush(form, last)
  <2>1. flights' = Orphaned(flights)
    BY <1>2 DEF UnmountForm
  <2>2. /\ flights' \in [Saves -> Flight \cup {Idle}] /\ Mine(flights') = {}
        /\ InFlight(flights') = InFlight(flights)
        /\ \A u \in InFlight(flights) : /\ flights'[u].doc = flights[u].doc
                                        /\ flights'[u].at = flights[u].at
    BY <1>0, <2>1, OrphanedFacts
  <2>3. FormType'
    BY <1>0, <2>2 DEF FormOK, FormType
  <2>4. FormInv'
    BY <1>0, <2>2 DEF FormOK, FormInv
  <2>5. SyncInv'
    <3> SUFFICES ASSUME ~crossed'
                 PROVE  SyncInv'
      BY DEF SyncInv
    <3>1. /\ ~crossed /\ InFlight(flights) = Mine(flights)
          /\ \A s \in InFlight(flights) : flights[s].doc = form
      BY <1>0 DEF FormOK, SyncInv
    <3>2. ASSUME wanted # NoForm
          PROVE  /\ InFlight(flights) = {} => Seed(stored) = wanted
                 /\ \A s \in InFlight(flights) : flights[s].doc = wanted
      <4>1. form = wanted /\ Valid(form)
        BY <3>1, <3>2 DEF FormOK, SyncInv, FormInv
      <4>2. form = last
        BY <1>2, <4>1 DEF Flush
      <4> QED BY <3>1, <4>1, <4>2 DEF FormOK, SyncInv
    <3> QED BY <1>0, <2>2, <3>1, <3>2 DEF FormOK, SyncInv
  <2> QED BY <1>0, <2>3, <2>4, <2>5 DEF FormOK
<1> QED BY <1>1, <1>2

LEMMA KeepKeeps ==
  ASSUME FormOK, KeepForm, UNCHANGED <<stored, wanted>>
  PROVE  FormOK' /\ form' = form
BY DEF KeepForm, FormOK, FormType, FormInv, SyncInv
-----------------------------------------------------------------------------
(* The user edits it, and it saves itself.                                 *)
LEMMA EditKeeps ==
  ASSUME FormOK, NEW f \in Forms, Edit(f)
  PROVE  FormOK' /\ form' # NoForm /\ UNCHANGED <<stored, cached, fetch, failed, onPage>>
<1>1. /\ form # NoForm /\ form' = f /\ touched' = TRUE /\ timer' = Debounce(f, last, flights)
      /\ wanted' = IF Valid(f) THEN f ELSE NoForm
      /\ UNCHANGED <<stored, cached, fetch, failed, onPage, last, flights, crossed>>
      /\ f # NoForm
  BY NoFormIsNone DEF Edit
<1>2. FormType'
  BY <1>1 DEF FormOK, FormType, Debounce
<1>3. FormInv'
  BY <1>1 DEF FormOK, FormInv
<1>4. SyncInv'
  BY <1>1 DEF FormOK, SyncInv
<1> QED BY <1>1, <1>2, <1>3, <1>4 DEF FormOK

LEMMA EditsMakeForms ==
  ASSUME FormOK
  PROVE  /\ SetRegion => \E f \in Forms : Edit(f)
         /\ \A d \in Days :
              /\ Toggle(d) => \E f \in Forms : Edit(f)
              /\ ApplyToAllDays(d) => \E f \in Forms : Edit(f)
              /\ \A t \in {"start", "end"}, m \in Stops :
                   Slide(d, t, m) =>
                     Edit([form EXCEPT !.windows[d] = Slid(form.windows[d], t, m)])
                       /\ form \in Forms
<1>1. form # NoForm => form \in Forms
  BY DEF FormOK, FormType
<1>2. SetRegion => \E f \in Forms : Edit(f)
  BY <1>1 DEF SetRegion, Forms
<1>3. ASSUME NEW d \in Days, Toggle(d)
      PROVE  \E f \in Forms : Edit(f)
  <2>1. form \in Forms /\ Edit([form EXCEPT !.windows[d] =
                                  [form.windows[d] EXCEPT !.enabled = ~@]])
    BY <1>1, <1>3 DEF Toggle, SetWindow
  <2>2. [form.windows[d] EXCEPT !.enabled = ~@] \in Windows
    BY <2>1 DEF Forms, Windows
  <2> QED BY <2>1, <2>2, WindowSet
<1>4. ASSUME NEW d \in Days, ApplyToAllDays(d)
      PROVE  \E f \in Forms : Edit(f)
  <2> DEFINE w  == form.windows[d]
             ws == [e \in Days |-> [form.windows[e] EXCEPT !.start = w.start, !.end = w.end]]
  <2>1. form \in Forms /\ Edit([form EXCEPT !.windows = ws])
    BY <1>1, <1>4 DEF ApplyToAllDays
  <2>2. ASSUME NEW e \in Days
        PROVE  [form.windows[e] EXCEPT !.start = w.start, !.end = w.end] \in Windows
    BY <2>1 DEF Forms, Windows
  <2>3. ws \in [Days -> Windows]
    BY <2>2
  <2> HIDE DEF ws
  <2>4. [form EXCEPT !.windows = ws] \in Forms
    BY <2>1, <2>3 DEF Forms
  <2> QED BY <2>1, <2>4
<1>5. ASSUME NEW d \in Days, NEW t \in {"start", "end"}, NEW m \in Stops, Slide(d, t, m)
      PROVE  Edit([form EXCEPT !.windows[d] = Slid(form.windows[d], t, m)]) /\ form \in Forms
  BY <1>1, <1>5 DEF Slide, Slid, SetWindow
<1> QED BY <1>2, <1>3, <1>4, <1>5

LEMMA SlideMakesForm ==
  ASSUME FormOK, NEW d \in Days, NEW t \in {"start", "end"}, NEW m \in Stops, Slide(d, t, m)
  PROVE  /\ \E f \in Forms : Edit(f)
         /\ WindowValid(form'.windows[d])
<1> DEFINE w == Slid(form.windows[d], t, m)
<1>1. form \in Forms /\ Edit([form EXCEPT !.windows[d] = w])
  BY EditsMakeForms
<1>2. w \in Windows /\ WindowValid(w)
  BY <1>1, SlidIsValid DEF Forms
<1> HIDE DEF w
<1>3. form' = [form EXCEPT !.windows[d] = w]
  BY <1>1 DEF Edit
<1> QED BY <1>1, <1>2, <1>3, WindowSet

LEMMA TimerKeeps ==
  ASSUME FormOK, TimerFires
  PROVE  FormOK' /\ form' = form
<1>1. PICK s \in Saves : flights[s] = Idle /\ flights' = Sent(flights, s, form, TRUE)
  BY DEF TimerFires
<1>2. /\ form # NoForm /\ form \in Forms /\ timer' = FALSE
      /\ flights \in [Saves -> Flight \cup {Idle}]
      /\ crossed' = (crossed \/ InFlight(flights) # {})
      /\ UNCHANGED <<stored, form, last, touched, wanted>>
      /\ Mine(flights) = {} /\ Valid(form) /\ form # last
      /\ touched
  BY DEF TimerFires, FormOK, FormType, FormInv, Debounce
<1>3. /\ OneMore(Sent(flights, s, form, TRUE), flights, s, form)
      /\ OneMoreMine(Sent(flights, s, form, TRUE), flights, s)
  <2>1. flights \in [Saves -> Flight \cup {Idle}]
    BY <1>2
  <2>2. flights[s] = Idle
    BY <1>1
  <2>3. form \in Forms
    BY <1>2
  <2> QED BY ONLY <2>1, <2>2, <2>3, SentFacts
<1>4. /\ flights' \in [Saves -> Flight \cup {Idle}]
      /\ Mine(flights') = {s} /\ InFlight(flights') = InFlight(flights) \cup {s}
      /\ \A u \in InFlight(flights) : flights'[u] = flights[u]
      /\ flights'[s].doc = form /\ flights'[s].at = "sent"
  BY <1>1, <1>2, <1>3 DEF OneMore, OneMoreMine, InFlight
<1>5. FormType'
  BY <1>2, <1>4 DEF FormOK, FormType
<1>6. FormInv'
  BY <1>2, <1>4 DEF FormOK, FormInv, Debounce
<1>7. SyncInv'
  BY <1>2, <1>4 DEF FormOK, SyncInv
<1> QED BY <1>2, <1>5, <1>6, <1>7 DEF FormOK
-----------------------------------------------------------------------------
(* What becomes of the saves.                                              *)
LEMMA AnsweredFacts ==
  ASSUME flights \in [Saves -> Flight \cup {Idle}],
         NEW s \in Saves, flights[s] # Idle, NEW at \in {"sent", "saved", "failed"}, Answered(s, at)
  PROVE  /\ flights' \in [Saves -> Flight \cup {Idle}]
         /\ Mine(flights') = Mine(flights) /\ InFlight(flights') = InFlight(flights)
         /\ \A u \in Saves \ {s} : flights'[u] = flights[u]
         /\ flights'[s].doc = flights[s].doc /\ flights'[s].at = at
<1>1. /\ flights[s] \in Flight /\ flights'[s] = [flights[s] EXCEPT !.at = at]
      /\ \A u \in Saves \ {s} : flights'[u] = flights[u]
  BY DEF Answered
<1>2. /\ flights'[s] \in Flight /\ flights'[s].doc = flights[s].doc /\ flights'[s].at = at
      /\ flights'[s].mine = flights[s].mine /\ flights'[s] # Idle
  BY <1>1, SentinelAssumption DEF Flight
<1>3. flights' \in [Saves -> Flight \cup {Idle}]
  BY <1>2 DEF Answered
<1> QED BY <1>1, <1>2, <1>3 DEF Mine, InFlight

LEMMA PatchKeeps ==
  ASSUME FormOK, NEW s \in Saves, PatchMe(s)
  PROVE  FormOK' /\ form' = form
<1>1. /\ flights \in [Saves -> Flight \cup {Idle}] /\ flights[s] # Idle /\ flights[s].at = "sent"
      /\ flights[s] \in Flight /\ s \in InFlight(flights)
      /\ UNCHANGED <<form, last, timer, touched, wanted>>
  BY DEF PatchMe, page, FormOK, FormType, InFlight
<1>2. flights[s].doc \in Forms /\ Valid(flights[s].doc) /\ Validate(flights[s].doc)
  BY <1>1, ValidIsValidated DEF FormOK, FormInv, Flight
<1>3. stored' = flights[s].doc /\ Answered(s, "saved") /\ UNCHANGED crossed
  BY <1>2 DEF PatchMe
<1>4. /\ flights' \in [Saves -> Flight \cup {Idle}]
      /\ Mine(flights') = Mine(flights) /\ InFlight(flights') = InFlight(flights)
      /\ \A u \in Saves \ {s} : flights'[u] = flights[u]
      /\ flights'[s].doc = flights[s].doc /\ flights'[s].at = "saved"
  BY <1>1, <1>3, AnsweredFacts
<1>5. FormType'
  BY <1>1, <1>2, <1>3, <1>4, SeedIsForm DEF FormOK, FormType
<1>6. FormInv'
  BY <1>1, <1>4 DEF FormOK, FormInv, Debounce, InFlight
<1>7. SyncInv'
  <2> SUFFICES ASSUME ~crossed
               PROVE  SyncInv'
    BY <1>3 DEF SyncInv
  <2>1. InFlight(flights) = {s}
    BY <1>1 DEF FormOK, SyncInv
  <2> QED BY <1>1, <1>3, <1>4, <2>1 DEF FormOK, SyncInv
<1> QED BY <1>1, <1>5, <1>6, <1>7 DEF FormOK

LEMMA LoseKeeps ==
  ASSUME FormOK, NEW s \in Saves, Lose(s)
  PROVE  FormOK' /\ form' = form
<1>1. /\ flights \in [Saves -> Flight \cup {Idle}] /\ flights[s] # Idle
      /\ UNCHANGED <<stored, form, last, timer, touched, wanted>>
      /\ Answered(s, "failed") /\ crossed' = TRUE
  BY DEF Lose, page, FormOK, FormType
<1>2. /\ flights' \in [Saves -> Flight \cup {Idle}]
      /\ Mine(flights') = Mine(flights) /\ InFlight(flights') = InFlight(flights)
      /\ \A u \in InFlight(flights) : flights'[u].doc = flights[u].doc
  BY <1>1, AnsweredFacts DEF InFlight
<1>3. FormType'
  BY <1>1, <1>2 DEF FormOK, FormType
<1>4. FormInv'
  BY <1>1, <1>2 DEF FormOK, FormInv, Debounce
<1> QED BY <1>1, <1>3, <1>4 DEF FormOK, SyncInv

LEMMA SettleKeeps ==
  ASSUME FormOK, NEW s \in Saves, SaveSettles(s)
  PROVE  FormOK' /\ form' = form
<1>1. /\ flights \in [Saves -> Flight \cup {Idle}] /\ flights[s] # Idle /\ flights[s] \in Flight
      /\ flights' = [flights EXCEPT ![s] = Idle] /\ flights[s].at \in {"saved", "failed"}
      /\ UNCHANGED <<stored, form, touched, wanted, crossed>>
      /\ flights[s].doc \in Forms
      /\ s \in InFlight(flights)
  BY DEF SaveSettles, FormOK, FormType, Flight, InFlight
<1>2. /\ flights' \in [Saves -> Flight \cup {Idle}]
      /\ InFlight(flights') = InFlight(flights) \ {s} /\ Mine(flights') = Mine(flights) \ {s}
      /\ \A u \in InFlight(flights') : flights'[u] = flights[u]
  BY <1>1 DEF InFlight, Mine
<1>3. CASE flights[s].mine
  <2>1. /\ last' = flights[s].doc /\ timer' = Debounce(form, last', flights')
        /\ s \in Mine(flights) /\ form # NoForm /\ touched
    BY <1>1, <1>3 DEF SaveSettles, DebounceAfter, Mine, FormOK, FormType, FormInv
  <2>2. FormType'
    BY <1>1, <1>2, <2>1 DEF FormOK, FormType, Debounce
  <2>3. FormInv'
    BY <1>1, <1>2, <2>1 DEF FormOK, FormInv, InFlight
  <2>4. SyncInv'
    <3> SUFFICES ASSUME ~crossed
                 PROVE  SyncInv'
      BY <1>1 DEF SyncInv
    <3>1. InFlight(flights) = {s} /\ stored = flights[s].doc
      BY <1>1 DEF FormOK, SyncInv
    <3>2. Seed(stored) = last'
      BY <1>1, <2>1, <3>1, SeedIsForm
    <3> QED BY <1>1, <1>2, <2>1, <3>1, <3>2 DEF FormOK, SyncInv
  <2> QED BY <1>1, <2>2, <2>3, <2>4 DEF FormOK
<1>4. CASE ~flights[s].mine
  <2>1. UNCHANGED <<last, timer>> /\ Mine(flights') = Mine(flights)
    BY <1>1, <1>2, <1>4 DEF SaveSettles, Mine
  <2>2. FormType'
    BY <1>1, <1>2, <2>1 DEF FormOK, FormType
  <2>3. FormInv'
    BY <1>1, <1>2, <2>1 DEF FormOK, FormInv, InFlight, Debounce
  <2>4. SyncInv'
    <3> SUFFICES ASSUME ~crossed
                 PROVE  SyncInv'
      BY <1>1 DEF SyncInv
    <3>1. /\ InFlight(flights) = {s} /\ stored = flights[s].doc /\ form = NoForm
          /\ Seed(stored) = stored
      BY <1>1, <1>4, SeedIsForm DEF FormOK, SyncInv, Mine
    <3> QED BY <1>1, <1>2, <3>1 DEF FormOK, SyncInv
  <2> QED BY <1>1, <2>2, <2>3, <2>4 DEF FormOK
<1> QED BY <1>3, <1>4
-----------------------------------------------------------------------------
LEMMA InitInv == Init => IInv
<1> SUFFICES ASSUME Init
             PROVE  IInv
  OBVIOUS
<1>1. /\ stored \in Docs /\ cached = NoData /\ fetch = Idle /\ failed = FALSE /\ onPage = FALSE
      /\ form = NoForm /\ last = NoForm /\ timer = FALSE /\ touched = FALSE
      /\ flights = [s \in Saves |-> Idle] /\ wanted = NoForm /\ crossed = FALSE
  BY SettingsAssumption DEF Init
<1>2. InFlight(flights) = {} /\ Mine(flights) = {}
  BY <1>1 DEF InFlight, Mine
<1>3. TypeOK
  BY <1>1, <1>2 DEF TypeOK
<1>4. FormInv
  BY <1>1, <1>2 DEF FormInv
<1>5. SyncInv
  BY <1>1, <1>2 DEF SyncInv
<1> QED BY <1>3, <1>4, <1>5 DEF IInv

(* The page: it has a form exactly when it has data and no error.          *)
PageType ==
  /\ cached \in Docs \cup {NoData} /\ fetch \in Docs \cup {Idle, Asked}
  /\ failed \in BOOLEAN /\ onPage \in BOOLEAN
  /\ form = NoForm <=> ~(onPage /\ cached # NoData /\ ~failed)

LEMMA InvParts == IInv <=> PageType /\ FormOK
BY DEF IInv, TypeOK, PageType, FormOK, FormType

LEMMA InvPartsNext == PageType' /\ FormOK' => IInv'
BY DEF IInv, TypeOK, PageType, FormOK, FormType

LEMMA VisitKeeps ==
  ASSUME IInv, Enter \/ Refocus \/ Leave
  PROVE  IInv'
<1>1. PageType /\ FormOK
  BY InvParts
<1>2. CASE Enter
  <2>1. /\ onPage = FALSE /\ onPage' = TRUE /\ form = NoForm /\ fetch' \in {fetch, Asked}
        /\ UNCHANGED <<stored, cached, failed, wanted>>
    BY <1>1, <1>2 DEF Enter, PageType
  <2>2. CASE cached # NoData /\ ~failed
    <3>1. cached \in Docs /\ MountForm(cached)
      BY <1>1, <1>2, <2>2 DEF Enter, PageType
    <3>2. FormOK' /\ form' # NoForm
      BY <1>1, <2>1, <3>1, MountKeeps
    <3>3. PageType'
      BY <1>1, <2>1, <2>2, <3>2 DEF PageType
    <3> QED BY <3>2, <3>3, InvPartsNext
  <2>3. CASE ~(cached # NoData /\ ~failed)
    <3>1. KeepForm
      BY <1>2, <2>3 DEF Enter
    <3>2. FormOK' /\ form' = form
      BY <1>1, <2>1, <3>1, KeepKeeps
    <3>3. PageType'
      BY <1>1, <2>1, <2>3, <3>2 DEF PageType
    <3> QED BY <3>2, <3>3, InvPartsNext
  <2> QED BY <2>2, <2>3
<1>3. CASE Refocus
  <2>1. KeepForm /\ UNCHANGED <<stored, wanted>>
    BY <1>3 DEF Refocus, KeepForm
  <2>2. FormOK' /\ form' = form
    BY <1>1, <2>1, KeepKeeps
  <2>3. PageType'
    BY <1>1, <1>3, <2>2 DEF Refocus, PageType
  <2> QED BY <2>2, <2>3, InvPartsNext
<1>4. CASE Leave
  <2>1. onPage' = FALSE /\ UNCHANGED <<stored, cached, fetch, failed, wanted>>
    BY <1>4 DEF Leave
  <2>2. FormOK' /\ form' = NoForm
    <3>1. CASE form # NoForm
      BY <1>1, <1>4, <2>1, <3>1, UnmountKeeps DEF Leave
    <3>2. CASE form = NoForm
      BY <1>1, <1>4, <2>1, <3>2, KeepKeeps DEF Leave
    <3> QED BY <3>1, <3>2
  <2>3. PageType'
    BY <1>1, <2>1, <2>2 DEF PageType
  <2> QED BY <2>2, <2>3, InvPartsNext
<1> QED BY <1>2, <1>3, <1>4

LEMMA FetchKeeps ==
  ASSUME IInv, FetchReads \/ FetchArrives \/ FetchFails
  PROVE  IInv'
<1>1. PageType /\ FormOK
  BY InvParts
<1>2. CASE FetchReads
  <2>1. KeepForm /\ UNCHANGED <<stored, cached, failed, onPage, wanted>> /\ fetch' = stored
    BY <1>2 DEF FetchReads, page, KeepForm
  <2>2. FormOK' /\ form' = form
    BY <1>1, <2>1, KeepKeeps
  <2>3. PageType'
    BY <1>1, <2>1, <2>2 DEF PageType, FormOK, FormType
  <2> QED BY <2>2, <2>3, InvPartsNext
<1>3. CASE FetchArrives
  <2>1. /\ fetch \in Docs /\ fetch # NoData /\ cached' = fetch /\ failed' = FALSE /\ fetch' = Idle
        /\ UNCHANGED <<stored, onPage, wanted>>
    BY <1>1, <1>3, SentinelAssumption DEF FetchArrives, PageType
  <2>2. CASE onPage /\ form = NoForm
    <3>1. MountForm(fetch) /\ form = NoForm
      BY <1>3, <2>2 DEF FetchArrives
    <3>2. FormOK' /\ form' # NoForm
      BY <1>1, <2>1, <3>1, MountKeeps
    <3>3. PageType'
      BY <1>1, <2>1, <2>2, <3>2 DEF PageType
    <3> QED BY <3>2, <3>3, InvPartsNext
  <2>3. CASE ~(onPage /\ form = NoForm)
    <3>1. KeepForm
      BY <1>3, <2>3 DEF FetchArrives
    <3>2. FormOK' /\ form' = form
      BY <1>1, <2>1, <3>1, KeepKeeps
    <3>3. PageType'
      BY <1>1, <2>1, <2>3, <3>2 DEF PageType
    <3> QED BY <3>2, <3>3, InvPartsNext
  <2> QED BY <2>2, <2>3
<1>4. CASE FetchFails
  <2>1. failed' = TRUE /\ fetch' = Idle /\ UNCHANGED <<stored, cached, onPage, wanted>>
    BY <1>4 DEF FetchFails
  <2>2. FormOK' /\ form' = NoForm
    <3>1. CASE form # NoForm
      BY <1>1, <1>4, <2>1, <3>1, UnmountKeeps DEF FetchFails
    <3>2. CASE form = NoForm
      BY <1>1, <1>4, <2>1, <3>2, KeepKeeps DEF FetchFails
    <3> QED BY <3>1, <3>2
  <2>3. PageType'
    BY <1>1, <2>1, <2>2 DEF PageType
  <2> QED BY <2>2, <2>3, InvPartsNext
<1> QED BY <1>2, <1>3, <1>4

(* The user's edits, all of them forms again.                              *)
Edits ==
  \/ SetRegion
  \/ \E d \in Days : \/ Toggle(d) \/ ApplyToAllDays(d)
                     \/ \E t \in {"start", "end"}, m \in Stops : Slide(d, t, m)

LEMMA EditsKeep ==
  ASSUME IInv, Edits
  PROVE  IInv' /\ UNCHANGED flights
<1>1. PageType /\ FormOK
  BY InvParts
<1>2. PICK f \in Forms : Edit(f)
  BY <1>1, EditsMakeForms, SlideMakesForm DEF Edits
<1>3. /\ FormOK' /\ form' # NoForm /\ form # NoForm
      /\ UNCHANGED <<stored, cached, fetch, failed, onPage, flights>>
  BY <1>1, <1>2, EditKeeps DEF Edit
<1>4. PageType'
  BY <1>1, <1>3 DEF PageType
<1> QED BY <1>3, <1>4, InvPartsNext

LEMMA SavesKeep ==
  ASSUME IInv, TimerFires \/ \E s \in Saves : PatchMe(s) \/ Lose(s) \/ SaveSettles(s)
  PROVE  IInv'
<1>1. PageType /\ FormOK
  BY InvParts
<1>2. FormOK' /\ form' = form
  BY <1>1, TimerKeeps, PatchKeeps, LoseKeeps, SettleKeeps
<1>3. UNCHANGED <<cached, failed, onPage>> /\ fetch' \in {fetch, Asked}
  BY DEF TimerFires, PatchMe, Lose, SaveSettles, page
<1>4. PageType'
  BY <1>1, <1>2, <1>3 DEF PageType
<1> QED BY <1>2, <1>4, InvPartsNext

LEMMA NextParts ==
  Next <=> \/ Enter \/ Refocus \/ Leave
           \/ FetchReads \/ FetchArrives \/ FetchFails
           \/ Edits
           \/ TimerFires \/ \E s \in Saves : PatchMe(s) \/ Lose(s) \/ SaveSettles(s)
BY DEF Next, User, Edits

LEMMA NextInv == IInv /\ [Next]_vars => IInv'
<1> SUFFICES ASSUME IInv, [Next]_vars
             PROVE  IInv'
  OBVIOUS
<1>1. CASE Next
  BY <1>1, NextParts, VisitKeeps, FetchKeeps, EditsKeep, SavesKeep
<1>2. CASE UNCHANGED vars
  BY <1>2 DEF vars, IInv, TypeOK, FormInv, SyncInv
<1> QED BY <1>1, <1>2

LEMMA Invariant == Spec => []IInv
BY InitInv, NextInv, PTL DEF Spec
-----------------------------------------------------------------------------
(* Types; and a form is there exactly when SettingsBody shows one.         *)
THEOREM TypeCorrect == Spec => []TypeOK
<1>1. IInv => TypeOK
  BY DEF IInv
<1> QED BY <1>1, Invariant, PTL

(* No valid edit is lost to the debounce, to leaving the page, to a save   *)
(* in flight or to a refetch, as long as nothing has crossed.              *)
THEOREM EditsSaved == Spec => []SavedIsWanted
<1>1. ASSUME IInv, InFlight(flights) = {}, ~timer, ~crossed, wanted # NoForm
      PROVE  Seed(stored) = wanted
  <2>1. CASE form = NoForm
    BY <1>1, <2>1 DEF IInv, SyncInv
  <2>2. CASE form # NoForm
    <3>1. form = wanted /\ Seed(stored) = last
      BY <1>1, <2>2 DEF IInv, SyncInv
    <3>2. Mine(flights) = {} /\ Valid(form)
      BY <1>1, <3>1 DEF IInv, FormInv, Mine, InFlight
    <3>3. form = last
      BY <1>1, <2>2, <3>2 DEF IInv, FormInv, Debounce
    <3> QED BY <3>1, <3>3
  <2> QED BY <2>1, <2>2
<1>2. IInv => SavedIsWanted
  BY <1>1 DEF SavedIsWanted
<1> QED BY <1>2, Invariant, PTL

(* A save that begins is the timer's or the flush's.                       *)
SendSound(s) ==
  flights[s] = Idle /\ flights'[s] # Idle =>
    /\ touched
    /\ Validate(flights'[s].doc)
    /\ flights'[s].mine => Mine(flights) = {}

LEMMA UnmountSends ==
  ASSUME IInv, form # NoForm, UnmountForm, NEW s \in Saves,
         flights[s] = Idle, flights'[s] # Idle
  PROVE  SendSound(s)
<1>1. form \in Forms /\ flights \in [Saves -> Flight \cup {Idle}]
  BY DEF IInv, TypeOK
<1>2. Orphaned(flights) \in [Saves -> Flight \cup {Idle}] /\ Orphaned(flights)[s] = Idle
  BY <1>1, OrphanedFacts
<1>3. PICK u \in Saves : Flush(form, last) /\ flights' = Sent(Orphaned(flights), u, form, FALSE)
  BY <1>2 DEF UnmountForm
<1>4. u = s
  BY <1>2, <1>3 DEF Sent
<1>5. flights'[s] = [doc |-> form, at |-> "sent", mine |-> FALSE]
  BY <1>2, <1>3, <1>4 DEF Sent
<1>6. touched /\ Valid(form)
  BY <1>3 DEF Flush, IInv, FormInv
<1>7. Validate(form)
  BY <1>1, <1>6, ValidIsValidated
<1> QED BY <1>5, <1>6, <1>7 DEF SendSound

LEMMA TimerSends ==
  ASSUME IInv, TimerFires, NEW s \in Saves, flights[s] = Idle, flights'[s] # Idle
  PROVE  SendSound(s)
<1>1. form \in Forms /\ flights \in [Saves -> Flight \cup {Idle}]
  BY DEF TimerFires, IInv, TypeOK
<1>2. PICK u \in Saves : flights' = Sent(flights, u, form, TRUE)
  BY DEF TimerFires
<1>3. u = s
  BY <1>1, <1>2 DEF Sent
<1>4. flights'[s] = [doc |-> form, at |-> "sent", mine |-> TRUE]
  BY <1>1, <1>2, <1>3 DEF Sent
<1>5. Mine(flights) = {} /\ Valid(form) /\ touched
  BY DEF TimerFires, IInv, TypeOK, FormInv, Debounce
<1>6. Validate(form)
  BY <1>1, <1>5, ValidIsValidated
<1> QED BY <1>4, <1>5, <1>6 DEF SendSound

LEMMA StepSends ==
  ASSUME IInv, Next, NEW s \in Saves
  PROVE  SendSound(s)
<1> SUFFICES ASSUME flights[s] = Idle, flights'[s] # Idle
             PROVE  SendSound(s)
  BY DEF SendSound
<1>1. flights' # flights
  OBVIOUS
<1>2. CASE Enter \/ Refocus \/ FetchReads \/ FetchArrives
  BY <1>1, <1>2 DEF Enter, Refocus, FetchReads, FetchArrives, MountForm, KeepForm
<1>3. CASE Leave \/ FetchFails
  BY <1>1, <1>3, UnmountSends DEF Leave, FetchFails, KeepForm
<1>4. CASE Edits
  BY <1>1, <1>4, EditsKeep
<1>5. CASE TimerFires
  BY <1>5, TimerSends
<1>6. ASSUME NEW u \in Saves, PatchMe(u) \/ Lose(u) \/ SaveSettles(u)
      PROVE  FALSE
  <2>1. flights \in [Saves -> Flight \cup {Idle}] /\ flights[u] # Idle
    BY <1>6 DEF IInv, TypeOK, PatchMe, Lose, SaveSettles
  <2>2. s # u
    BY <2>1
  <2>3. flights'[s] = flights[s]
    BY <1>6, <2>1, <2>2 DEF PatchMe, Lose, SaveSettles, Answered
  <2> QED BY <2>3
<1> QED BY <1>2, <1>3, <1>4, <1>5, <1>6, NextParts

(* Nothing is saved that nobody has touched; what is sent the server       *)
(* accepts; and only the flush goes out beside another save of the form.   *)
THEOREM SavesAreSound == Spec => SavesSound
<1>1. IInv /\ [Next]_vars => [\A s \in Saves : SendSound(s)]_vars
  BY StepSends
<1>2. (\A s \in Saves : SendSound(s)) <=>
        \A s \in Saves : flights[s] = Idle /\ flights'[s] # Idle =>
          /\ touched
          /\ Validate(flights'[s].doc)
          /\ flights'[s].mine => Mine(flights) = {}
  BY DEF SendSound
<1> QED BY <1>1, <1>2, Invariant, PTL DEF Spec, SavesSound

(* A slide makes its day valid, whatever it starts from.                   *)
THEOREM SlidesAreValid == Spec => SlideMakesValid
<1>1. IInv => \A d \in Days, t \in {"start", "end"}, m \in Stops :
                Slide(d, t, m) => WindowValid(form'.windows[d])
  BY InvParts, SlideMakesForm
<1> QED BY <1>1, Invariant, PTL DEF Spec, SlideMakesValid
=============================================================================
