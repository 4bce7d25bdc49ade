----------------------------- MODULE PosterTint -----------------------------
(***************************************************************************)
(* The colours that the guide's cards take from their posters, and the     *)
(* plates that logos get (web app/guide/posterTint.ts): two stores with    *)
(* one orchestration, resolveCached, of which keys are the titles and the  *)
(* providers, and the hooks that read them, usePosterHue and useLogoPlate. *)
(*                                                                         *)
(* An image is loaded, sampled and, if that fails, replaced by a fallback. *)
(* Promises settle in steps between which anything else may run; a hook    *)
(* renders in one step and runs its effect in a later one.                 *)
(***************************************************************************)
EXTENDS Integers

CONSTANTS
  Titles, Providers,   \* titles by id
  Hues, Plates,        \* what sampling may find
  NoPlate, TextPlate,
  Cards, Chips,        \* the components that call the hooks
  MaxRenders,          \* renders with new props and unmounts, of all components
  Idle, Gone, Waiting

Keys    == Titles \cup Providers
Readers == Cards \cup Chips

ASSUME TintAssumption ==
  /\ Titles \subseteq Nat /\ Hues \subseteq 0..359 /\ Titles \cap Providers = {}
  /\ Cards \cap Chips = {} /\ MaxRenders \in Nat
  /\ Waiting \notin Nat \cup Plates \cup {TextPlate}
  /\ Idle \notin Nat \cup Plates \cup {TextPlate, Waiting}
  /\ Gone \notin Keys

VARIABLES
  cache,     \* [Keys -> a value, or Waiting]: ResolutionStore.cache
  inFlight,  \* [Keys -> Idle, Waiting for the sample, or the value that the
             \* promise is about to settle with]: ResolutionStore.inFlight
  hook,      \* [Readers -> [key, src, shown, due, calls], or Gone]
  samples,   \* [Keys -> how often extract was called]
  renders

vars == <<cache, inFlight, hook, samples, renders>>

(* titleId * 2654435761 % 360: the multiplier is 241 modulo 360.          *)
HashHue(id) == ((id % 360) * 241) % 360

(* Shown before there is a value; cached if there is none to be had.       *)
Default  == [k \in Keys |-> IF k \in Titles THEN HashHue(k) ELSE NoPlate]
Fallback == [k \in Keys |-> IF k \in Titles THEN HashHue(k) ELSE TextPlate]

(* What dominantHue makes of a poster and classifyPlate of a logo, if the  *)
(* image loads and has enough colour.                                      *)
Extracts == [k \in Keys |-> IF k \in Titles THEN Hues ELSE Plates]

Cached(k) == cache[k] # Waiting

Peek(k) == IF Cached(k) THEN cache[k] ELSE Default[k]
-----------------------------------------------------------------------------
(* resolveCached: the promise it returns is Waiting or has its value.      *)
Call(k, value) == [key |-> k, value |-> value]

JoinsNever(k) == FALSE   \* no in-flight map

Joins(k) == inFlight[k] # Idle

ResolveCached(k, src) ==
  [call  |-> Call(k, IF Cached(k) THEN cache[k]
                     ELSE IF ~Joins(k) /\ ~src THEN Fallback[k] ELSE Waiting),
   store |-> IF ~Cached(k) /\ ~Joins(k) /\ ~src THEN Fallback[k] ELSE cache[k],
   start |-> ~Cached(k) /\ ~Joins(k) /\ src]

(* The hook renders, for the first time or with new props.  For another    *)
(* key it shows at once what the cache has for it.                         *)
ShownAfter(r, k) ==
  IF hook[r] = Gone \/ hook[r].key # k THEN Peek(k) ELSE hook[r].shown

(* The effect depends on the key and on the path.                          *)
Due(r) == TRUE

Render(r, k, src) ==
  /\ renders < MaxRenders /\ renders' = renders + 1
  /\ hook[r] # Gone => <<hook[r].key, hook[r].src>> # <<k, src>>
  /\ hook' = [hook EXCEPT ![r] =
                [key |-> k, src |-> src, shown |-> ShownAfter(r, k), due |-> Due(r),
                 calls |-> IF hook[r] = Gone THEN {} ELSE hook[r].calls]]
  /\ UNCHANGED <<cache, inFlight, samples>>

Unmount(r) ==
  /\ hook[r] # Gone
  /\ renders < MaxRenders /\ renders' = renders + 1
  /\ hook' = [hook EXCEPT ![r] = Gone]
  /\ UNCHANGED <<cache, inFlight, samples>>

(* The effect: the cleanup of the one before cancels its call.             *)
CancelledNone(calls) == calls

Cancelled(calls) == {}

Effect(r) ==
  /\ hook[r] # Gone /\ hook[r].due
  /\ LET k == hook[r].key
         result == ResolveCached(k, hook[r].src)
     IN  /\ hook' = [hook EXCEPT ![r].due = FALSE,
                                 ![r].calls = Cancelled(@) \cup {result.call}]
         /\ cache' = [cache EXCEPT ![k] = result.store]
         /\ inFlight' = IF result.start THEN [inFlight EXCEPT ![k] = Waiting] ELSE inFlight
         /\ samples' = IF result.start THEN [samples EXCEPT ![k] = @ + 1] ELSE samples
  /\ UNCHANGED renders
-----------------------------------------------------------------------------
(* The image is sampled, or is not: either way the key has its value ...   *)
FallbackUncached(k, v) == cache   \* a failure is not cached

FallbackCached(k, v) == [cache EXCEPT ![k] = v]

Settle(k) ==
  /\ inFlight[k] = Waiting
  /\ \/ \E v \in Extracts[k] :
          cache' = [cache EXCEPT ![k] = v] /\ inFlight' = [inFlight EXCEPT ![k] = v]
     \/ /\ cache' = FallbackCached(k, Fallback[k])
        /\ inFlight' = [inFlight EXCEPT ![k] = Fallback[k]]
  /\ UNCHANGED <<hook, samples, renders>>

(* ... and, once the in-flight entry is deleted, whoever waits gets it.    *)
Answered(calls, k) == {IF c = Call(k, Waiting) THEN Call(k, inFlight[k]) ELSE c : c \in calls}

Finally(k) ==
  /\ inFlight[k] \notin {Idle, Waiting}
  /\ inFlight' = [inFlight EXCEPT ![k] = Idle]
  /\ hook' = [r \in Readers |-> IF hook[r] = Gone THEN Gone
                                ELSE [hook[r] EXCEPT !.calls = Answered(@, k)]]
  /\ UNCHANGED <<cache, samples, renders>>

(* The hook's callback: of the key it called for, whichever it shows now.  *)
Deliver(r) ==
  /\ hook[r] # Gone
  /\ \E c \in hook[r].calls :
       /\ c.value # Waiting
       /\ hook' = [hook EXCEPT ![r].shown = c.value, ![r].calls = @ \ {c}]
  /\ UNCHANGED <<cache, inFlight, samples, renders>>
-----------------------------------------------------------------------------
Init ==
  /\ cache = [k \in Keys |-> Waiting]
  /\ inFlight = [k \in Keys |-> Idle]
  /\ hook = [r \in Readers |-> Gone]
  /\ samples = [k \in Keys |-> 0]
  /\ renders = 0

KeysOf(r) == IF r \in Cards THEN Titles ELSE Providers

Next ==
  \/ \E r \in Readers : \/ Unmount(r) \/ Effect(r) \/ Deliver(r)
                        \/ \E k \in KeysOf(r), src \in BOOLEAN : Render(r, k, src)
  \/ \E k \in Keys : Settle(k) \/ Finally(k)

(* Effects run, images load or fail, promises call back.                   *)
Fairness ==
  /\ \A r \in Readers : WF_vars(Effect(r)) /\ WF_vars(Deliver(r))
  /\ \A k \in Keys : WF_vars(Settle(k)) /\ WF_vars(Finally(k))

Spec == Init /\ [][Next]_vars /\ Fairness
-----------------------------------------------------------------------------
Values == [k \in Keys |-> Extracts[k] \cup {Fallback[k]}]

AnyValue == Hues \cup Plates \cup {Fallback[k] : k \in Keys}

Hook == [key : Keys, src : BOOLEAN, shown : AnyValue \cup {Default[k] : k \in Keys},
         due : BOOLEAN, calls : SUBSET [key : Keys, value : AnyValue \cup {Waiting}]]

ASSUME GoneAssumption == Gone \notin Hook

(* Types; and whoever waits, waits for a promise that is there.            *)
TypeOK ==
  /\ cache \in [Keys -> AnyValue \cup {Waiting}]
  /\ inFlight \in [Keys -> AnyValue \cup {Waiting, Idle}]
  /\ \A k \in Keys : cache[k] \in Values[k] \cup {Waiting}
  /\ hook \in [Readers -> Hook \cup {Gone}]
  /\ samples \in [Keys -> Nat]
  /\ \A r \in Readers : hook[r] # Gone =>
       \A c \in hook[r].calls : c.value = Waiting => inFlight[c.key] # Idle

(* "a second call, concurrent or later, never re-invokes" extract: one     *)
(* image is sampled per key, also when sampling fails (posterTint.ts:220). *)
SampledOnce == \A k \in Keys : samples[k] <= 1

(* A card with no effect to run and no answer to come shows the value of   *)
(* its key: the cards of a title agree (posterTint.ts:270), however their  *)
(* renders, their effects and the sampling interleave.                     *)
SettledAgree ==
  \A r \in Readers :
    hook[r] # Gone /\ ~hook[r].due /\ hook[r].calls = {} => hook[r].shown = cache[hook[r].key]

(* What SingleFlight sees of the components.                               *)
Reading == [r \in Readers |-> IF hook[r] = Gone THEN Gone ELSE hook[r].key]
Showing == [r \in Readers |-> IF hook[r] = Gone THEN Gone ELSE hook[r].shown]

Flight == INSTANCE SingleFlight WITH
  Outcomes <- Values, Unknown <- Waiting, Nothing <- Gone,
  value <- cache, reading <- Reading, shown <- Showing

(* The stores and the hooks are a single flight per key: one value each,   *)
(* and a card that stays with its title comes to show it                   *)
(* (posterTint.ts:220, usePosterHue.ts:31).                                *)
TintsSettle == Flight!Spec
=============================================================================
