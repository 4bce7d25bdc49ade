-------------------------- MODULE SettingsAutosave --------------------------
(***************************************************************************)
(* The settings page (web app/settings): a form over the user's region and *)
(* viewing windows that saves itself, 600 ms after the last edit, one save *)
(* at a time, and once more when it unmounts; the cached user (["me"])     *)
(* that it is seeded from; the window slider; and PATCH /v1/me behind it   *)
(* (httpserver/me.go, prefs.Validate, store.UpdateUserPrefs).              *)
(*                                                                         *)
(* Times are minutes; a stored time may be missing its text (Empty), and   *)
(* TrackMax, midnight, is stored as the minute before it.  Saves in flight *)
(* reach the server in any order.  A query that fails does so after its    *)
(* retries, as one step.                                                   *)
(***************************************************************************)
EXTENDS Integers

CONSTANTS
  Days, Regions,
  TrackMin, TrackMax, Step,   \* the slider's stops; the gap it keeps is a step
  DefaultWindow,
  FirstDocs,                  \* documents the store may begin with
  Saves,                      \* saves in flight at a time
  MaxEdits, MaxFaults, MaxVisits,
  Empty, Missing, NoData, NoForm, Idle, Asked

Times   == 0..(TrackMax - 1)
Stops   == {m \in TrackMin..TrackMax : (m - TrackMin) % Step = 0}
Windows == [enabled : BOOLEAN, start : Times \cup {Empty}, end : Times \cup {Empty}]
Docs    == [region : Regions, windows : [Days -> Windows \cup {Missing}]]
Forms   == [region : Regions, windows : [Days -> Windows]]
Flight  == [doc : Forms, at : {"sent", "saved", "failed"}, mine : BOOLEAN]

ASSUME SettingsAssumption ==
  /\ TrackMin \in Nat /\ TrackMax \in Stops /\ Step \in Nat \ {0, 1} /\ TrackMin + Step < TrackMax
  /\ DefaultWindow \in Windows /\ FirstDocs \subseteq Docs
  /\ MaxEdits \in Nat /\ MaxFaults \in Nat /\ MaxVisits \in Nat
  /\ Empty \notin Int /\ Missing \notin Windows
ASSUME SentinelAssumption ==
  /\ {NoData, NoForm, Idle, Asked} \cap Docs = {} /\ Idle # Asked
  /\ Idle \notin Flight

VARIABLES
  stored,    \* users.region and users.schedule_prefs
  cached,    \* the query's data, or NoData
  fetch,     \* the query's fetch: Asked, the answer to come, or Idle
  failed,    \* the last fetch failed
  onPage,    \* the settings page is open
  form,      \* the mounted form's state, or NoForm
  last,      \* lastAttempted of the mounted form
  timer,     \* the debounce is running
  flights,   \* [Saves -> [doc, at, mine] or Idle]; mine: sent by the mounted form
  touched,   \* the mounted form has been edited
  wanted,    \* the form as the user last left it, if it was valid then
  crossed,   \* a save failed, two overlapped, the form went away with an edit beyond its
             \* save in flight, or one was seeded with less than was saved
  edits, faults, visits

vars == <<stored, cached, fetch, failed, onPage, form, last, timer, flights, touched,
          wanted, crossed, edits, faults, visits>>
page == <<onPage, form, last, timer, touched, visits>>
-----------------------------------------------------------------------------
(* The form's boundary (WindowSlider): midnight has no HH:MM of its own.   *)
ParseHHMM(t) == IF t = TrackMax - 1 THEN TrackMax ELSE IF t = Empty THEN TrackMin ELSE t
ToHHMMPlain(m) == m   \* midnight as 24:00

ToHHMM(m) == IF m = TrackMax THEN TrackMax - 1 ELSE m

Clamp(m, low, high) == IF m < low THEN low ELSE IF m > high THEN high ELSE m

(* Where the thumb stands: at the nearest stop, halves up.                 *)
ToDisplay(m) ==
  ((2 * (Clamp(m, TrackMin, TrackMax) - TrackMin) + Step) \div (2 * Step)) * Step + TrackMin

(* A thumb that is moved pushes the other one ahead of it.                 *)
ClampPairTogether(start, end, changed) ==   \* the thumbs may meet
  IF changed = "start" THEN <<Clamp(start, TrackMin, TrackMax), Clamp(end, start, TrackMax)>>
  ELSE <<Clamp(start, TrackMin, end), Clamp(end, TrackMin, TrackMax)>>

ClampPair(start, end, changed) ==
  IF changed = "start"
  THEN LET s == Clamp(start, TrackMin, TrackMax - Step)
       IN  <<s, IF end < s + Step THEN s + Step ELSE end>>
  ELSE LET e == Clamp(end, TrackMin + Step, TrackMax)
       IN  <<IF start > e - Step THEN e - Step ELSE start, e>>

(* initialForm: a day that the stored document lacks gets the default.     *)
Seed(doc) == [doc EXCEPT !.windows =
                [d \in Days |-> IF doc.windows[d] = Missing THEN DefaultWindow ELSE doc.windows[d]]]

(* invalidDays, and the server's rule that it anticipates (Validate).      *)
WindowValid(w) == w.start # Empty /\ w.end # Empty /\ w.start < w.end

Valid(f) == \A d \in Days : WindowValid(f.windows[d])

Validate(doc) ==
  \A d \in Days : /\ doc.windows[d] # Missing
                  /\ doc.windows[d].start \in Times /\ doc.windows[d].end \in Times
                  /\ doc.windows[d].start < doc.windows[d].end
-----------------------------------------------------------------------------
Mine(fl)  == {s \in Saves : fl[s] # Idle /\ fl[s].mine}
InFlight(fl) == {s \in Saves : fl[s] # Idle}

(* The effect that runs the debounce, after a render that changed the form *)
(* or ended a save: it waits for a save in flight, for a valid form, and   *)
(* for one that differs from what was last attempted.                      *)
Debounce(f, l, fl) == Mine(fl) = {} /\ Valid(f) /\ f # l

Sent(fl, s, doc, mine) == [fl EXCEPT ![s] = [doc |-> doc, at |-> "sent", mine |-> mine]]
Orphaned(fl) == [s \in Saves |-> IF fl[s] = Idle THEN Idle ELSE [fl[s] EXCEPT !.mine = FALSE]]

(* What is seeded into a form is all that was saved: nothing in flight,    *)
(* and the cache as the store.                                             *)
SeedIsStale(doc, fl) == InFlight(fl) # {} \/ doc # stored

(* SettingsBody shows the form when it has data and no error: here it is   *)
(* mounted, and comes up with what is cached ...                           *)
FirstAttemptedRaw(doc) == doc   \* the stored document, not the form made of it

FirstAttempted(doc) == Seed(doc)

MountForm(doc) ==
  /\ form' = Seed(doc) /\ last' = FirstAttempted(doc)
  /\ timer' = Debounce(form', last', flights) /\ touched' = FALSE
  /\ crossed' = (crossed \/ SeedIsStale(doc, flights))
  /\ UNCHANGED flights

(* ... and here unmounted, which sends what no save has attempted.         *)
FlushNever(f, l) == FALSE   \* the queued save dropped with the timer

Flush(f, l) == Valid(f) /\ f # l

UnmountForm ==
  /\ form' = NoForm /\ last' = NoForm /\ timer' = FALSE /\ touched' = FALSE
  /\ IF Flush(form, last)
     THEN \E s \in Saves : flights[s] = Idle /\ flights' = Sent(Orphaned(flights), s, form, FALSE)
     ELSE flights' = Orphaned(flights)
  /\ crossed' = (crossed \/ (Flush(form, last) /\ InFlight(flights) # {})
                         \/ \E s \in Mine(flights) : flights[s].doc # form)

KeepForm == UNCHANGED <<form, last, timer, touched, flights, crossed>>
-----------------------------------------------------------------------------
(* Opening the page refetches the user, behind what is cached.             *)
Enter ==
  /\ ~onPage /\ visits < MaxVisits
  /\ onPage' = TRUE /\ visits' = visits + 1
  /\ fetch' = IF fetch = Idle THEN Asked ELSE fetch
  /\ IF cached # NoData /\ ~failed THEN MountForm(cached) ELSE KeepForm
  /\ UNCHANGED <<stored, cached, failed, wanted, edits, faults>>

(* So does coming back to its window.                                      *)
Refocus ==
  /\ onPage /\ fetch = Idle
  /\ visits < MaxVisits /\ visits' = visits + 1
  /\ fetch' = Asked
  /\ UNCHANGED <<stored, cached, failed, onPage, form, last, timer, touched, flights,
                 wanted, crossed, edits, faults>>

Leave ==
  /\ onPage
  /\ onPage' = FALSE
  /\ IF form # NoForm THEN UnmountForm ELSE KeepForm
  /\ UNCHANGED <<stored, cached, fetch, failed, wanted, edits, faults, visits>>

FetchReads ==
  /\ fetch = Asked
  /\ fetch' = stored
  /\ UNCHANGED <<stored, cached, failed, page, flights, wanted, crossed, edits, faults>>

FetchArrives ==
  /\ fetch \notin {Idle, Asked}
  /\ cached' = fetch /\ failed' = FALSE /\ fetch' = Idle
  /\ IF onPage /\ form = NoForm THEN MountForm(fetch) ELSE KeepForm
  /\ UNCHANGED <<stored, onPage, wanted, edits, faults, visits>>

(* A refetch that fails takes the form away, until one succeeds.           *)
FetchFails ==
  /\ fetch # Idle
  /\ faults < MaxFaults /\ faults' = faults + 1
  /\ failed' = TRUE /\ fetch' = Idle
  /\ IF form # NoForm THEN UnmountForm ELSE KeepForm
  /\ UNCHANGED <<stored, cached, onPage, wanted, edits, visits>>
-----------------------------------------------------------------------------
Edit(f) ==
  /\ form # NoForm /\ f # form
  /\ edits < MaxEdits /\ edits' = edits + 1
  /\ form' = f /\ touched' = TRUE
  /\ timer' = Debounce(f, last, flights)
  /\ wanted' = IF Valid(f) THEN f ELSE NoForm
  /\ UNCHANGED <<stored, cached, fetch, failed, onPage, last, flights, crossed, faults, visits>>

SetWindow(d, w) == Edit([form EXCEPT !.windows[d] = w])

SetRegion == form # NoForm /\ \E r \in Regions : Edit([form EXCEPT !.region = r])

Toggle(d) ==
  form # NoForm /\ SetWindow(d, [form.windows[d] EXCEPT !.enabled = ~@])

(* A thumb of an enabled day is moved to a stop.                           *)
Slide(d, thumb, stop) ==
  /\ form # NoForm /\ form.windows[d].enabled
  /\ LET w     == form.windows[d]
         start == ToDisplay(ParseHHMM(w.start))
         end   == ToDisplay(ParseHHMM(w.end))
         pair  == IF thumb = "start" THEN ClampPair(stop, end, "start")
                  ELSE ClampPair(start, stop, "end")
     IN  /\ stop # IF thumb = "start" THEN start ELSE end
         /\ SetWindow(d, [w EXCEPT !.start = ToHHMM(pair[1]), !.end = ToHHMM(pair[2])])

ApplyToAllDays(d) ==
  /\ form # NoForm
  /\ LET w == form.windows[d] IN
     Edit([form EXCEPT !.windows =
             [e \in Days |-> [form.windows[e] EXCEPT !.start = w.start, !.end = w.end]]])

TimerFires ==
  /\ timer /\ timer' = FALSE
  /\ \E s \in Saves : flights[s] = Idle /\ flights' = Sent(flights, s, form, TRUE)
  /\ crossed' = (crossed \/ InFlight(flights) # {})
  /\ UNCHANGED <<stored, cached, fetch, failed, onPage, form, last, touched, wanted,
                 edits, faults, visits>>
-----------------------------------------------------------------------------
(* PATCH /v1/me: 422 for what does not validate.                           *)
Answered(s, at) == flights' = [flights EXCEPT ![s].at = at]

PatchMe(s) ==
  /\ flights[s] # Idle /\ flights[s].at = "sent"
  /\ IF Validate(flights[s].doc)
     THEN stored' = flights[s].doc /\ Answered(s, "saved") /\ UNCHANGED crossed
     ELSE Answered(s, "failed") /\ crossed' = TRUE /\ UNCHANGED stored
  /\ UNCHANGED <<cached, fetch, failed, page, wanted, edits, faults>>

(* The request or its answer is lost.                                      *)
Lose(s) ==
  /\ flights[s] # Idle /\ flights[s].at # "failed"
  /\ faults < MaxFaults /\ faults' = faults + 1
  /\ Answered(s, "failed") /\ crossed' = TRUE
  /\ UNCHANGED <<stored, cached, fetch, failed, page, wanted, edits>>

(* onSuccess, which asks for the user anew if the page is there to show    *)
(* it, or onError; either way the save counts as attempted, and the        *)
(* debounce sees whether the form has moved on.                            *)
DebounceAfterNone(f, l, fl) == FALSE   \* the effect does not depend on isPending

DebounceAfter(f, l, fl) == Debounce(f, l, fl)

SaveSettles(s) ==
  /\ flights[s] # Idle /\ flights[s].at \in {"saved", "failed"}
  /\ flights' = [flights EXCEPT ![s] = Idle]
  /\ IF flights[s].mine
     THEN last' = flights[s].doc /\ timer' = DebounceAfter(form, last', flights')
     ELSE UNCHANGED <<last, timer>>
  /\ fetch' = IF flights[s].at = "saved" /\ onPage THEN Asked ELSE fetch
  /\ UNCHANGED <<stored, cached, failed, onPage, form, touched, wanted, crossed,
                 edits, faults, visits>>
-----------------------------------------------------------------------------
Init ==
  /\ stored \in FirstDocs
  /\ cached = NoData /\ fetch = Idle /\ failed = FALSE
  /\ onPage = FALSE /\ form = NoForm /\ last = NoForm
  /\ timer = FALSE /\ touched = FALSE
  /\ flights = [s \in Saves |-> Idle]
  /\ wanted = NoForm /\ crossed = FALSE
  /\ edits = 0 /\ faults = 0 /\ visits = 0

User ==
  \/ Enter \/ Refocus \/ Leave \/ SetRegion
  \/ \E d \in Days : \/ Toggle(d) \/ ApplyToAllDays(d)
                     \/ \E t \in {"start", "end"}, m \in Stops : Slide(d, t, m)

Next ==
  \/ User \/ TimerFires \/ FetchReads \/ FetchArrives \/ FetchFails
  \/ \E s \in Saves : PatchMe(s) \/ Lose(s) \/ SaveSettles(s)

(* Timers fire, requests are answered, answers handled.                    *)
Fairness ==
  /\ WF_vars(TimerFires)
  /\ \A s \in Saves : WF_vars(PatchMe(s)) /\ WF_vars(SaveSettles(s))

Spec == Init /\ [][Next]_vars /\ Fairness
-----------------------------------------------------------------------------
(* Types; and a form is there exactly when SettingsBody shows one.         *)
TypeOK ==
  /\ stored \in Docs /\ cached \in Docs \cup {NoData}
  /\ fetch \in Docs \cup {Idle, Asked}
  /\ failed \in BOOLEAN /\ onPage \in BOOLEAN
  /\ timer \in BOOLEAN /\ touched \in BOOLEAN /\ crossed \in BOOLEAN
  /\ form = NoForm <=> ~(onPage /\ cached # NoData /\ ~failed)
  /\ IF form = NoForm THEN last = NoForm ELSE form \in Forms /\ last \in Forms
  /\ wanted \in Forms \cup {NoForm}
  /\ timer => form # NoForm
  /\ flights \in [Saves -> Flight \cup {Idle}]
  /\ form = NoForm => Mine(flights) = {}

(* A slide makes its day valid, whatever legacy window it starts from and  *)
(* however far the thumb pushes the other one, past midnight included      *)
(* (WindowSlider.tsx:54).                                                  *)
SlideMakesValid ==
  [][\A d \in Days, t \in {"start", "end"}, m \in Stops :
       Slide(d, t, m) => WindowValid(form'.windows[d])]_form

(* Whatever legacy document the form was seeded from, and however the      *)
(* thumbs are pushed about: it saves nothing of what nobody has touched,   *)
(* though defaults and stops may make it differ from what is stored; what  *)
(* it sends the server accepts, the form's check agreeing with             *)
(* prefs.Validate; and an edit waits for the save in flight, unless it is  *)
(* flushed (SettingsBody.tsx:133).                                         *)
SavesSound ==
  [][\A s \in Saves : flights[s] = Idle /\ flights'[s] # Idle =>
       /\ touched
       /\ Validate(flights'[s].doc)
       /\ flights'[s].mine => Mine(flights) = {}]_vars

(* No edit is lost to the debounce, to leaving the page in the middle of   *)
(* it, to a save in flight, or to a refetch that takes the form away: when *)
(* nothing is in flight and no timer runs, the store has the form as the   *)
(* user last left it, if that was valid.  That is unless a save failed,    *)
(* two saves overlapped (the flush does not wait), a form went away with   *)
(* an edit beyond its save in flight, or one came up with less than was    *)
(* saved (the cache behind a save): see README, Divergences.               *)
SavedIsWanted ==
  InFlight(flights) = {} /\ ~timer /\ ~crossed /\ wanted # NoForm
    => Seed(stored) = wanted

(* A valid edit is attempted, sooner or later, without another edit        *)
(* (SettingsBody.tsx:128).                                                 *)
Unsaved == form # NoForm /\ Valid(form) /\ form # last

EditsAttempted == Unsaved ~> ~Unsaved
=============================================================================
