------------------------- MODULE PosterTint_proofs -------------------------
(***************************************************************************)
(* Theorems about PosterTint, for any titles, providers, components and    *)
(* number of renders, and whatever sampling finds.                         *)
(***************************************************************************)
EXTENDS PosterTint, TLAPS

(* A key's promise and its cache entry: it is sampled once because there   *)
(* is a promise or a value from then on, and a promise that is settled has *)
(* left its value in the cache.                                            *)
KeyInv ==
  \A k \in Keys :
    /\ samples[k] <= 1
    /\ inFlight[k] = Idle /\ ~Cached(k) => samples[k] = 0
    /\ inFlight[k] = Waiting => ~Cached(k)
    /\ inFlight[k] \notin {Idle, Waiting} => inFlight[k] = cache[k]

(* A hook's answers are what the cache holds; once its effect has run they *)
(* are for its key, and with none to come it shows its value.              *)
HookInv ==
  \A r \in Readers : hook[r] # Gone =>
    /\ \A c \in hook[r].calls : c.value # Waiting => c.value = cache[c.key]
    /\ ~hook[r].due =>
         /\ \A c \in hook[r].calls : c.key = hook[r].key
         /\ hook[r].calls = {} =>
              Cached(hook[r].key) /\ hook[r].shown = cache[hook[r].key]

IInv == TypeOK /\ KeyInv /\ HookInv
-----------------------------------------------------------------------------
LEMMA HashHueType == \A k \in Titles : HashHue(k) \in 0..359
BY TintAssumption DEF HashHue

(* No value is taken for a promise, or for the want of one.                *)
LEMMA ValuesAreNone ==
  ASSUME NEW k \in Keys
  PROVE  /\ Fallback[k] \in Values[k] /\ Extracts[k] \subseteq Values[k]
         /\ Values[k] \subseteq AnyValue
         /\ Waiting \notin Values[k] /\ Idle \notin Values[k] /\ Idle # Waiting
<1>1. Fallback[k] = IF k \in Titles THEN HashHue(k) ELSE TextPlate
  BY DEF Fallback
<1>2. Extracts[k] = IF k \in Titles THEN Hues ELSE Plates
  BY DEF Extracts
<1>3. Values[k] = Extracts[k] \cup {Fallback[k]}
  BY DEF Values
<1>4. Fallback[k] \in Nat \cup {TextPlate}
  BY <1>1, HashHueType
<1>5. Extracts[k] \subseteq Nat \cup Plates
  BY <1>2, TintAssumption
<1>6. Values[k] \subseteq AnyValue
  BY <1>2, <1>3 DEF AnyValue
<1> QED BY <1>3, <1>4, <1>5, <1>6, TintAssumption

LEMMA ShownType ==
  ASSUME TypeOK, NEW r \in Readers, NEW k \in Keys
  PROVE  ShownAfter(r, k) \in AnyValue \cup {Default[l] : l \in Keys}
<1>1. Peek(k) \in AnyValue \cup {Default[l] : l \in Keys}
  BY DEF TypeOK, Peek, Cached
<1>2. hook[r] # Gone => hook[r].shown \in AnyValue \cup {Default[l] : l \in Keys}
  BY DEF TypeOK, Hook
<1> QED BY <1>1, <1>2 DEF ShownAfter
-----------------------------------------------------------------------------
LEMMA InitInv == Init => IInv
<1> SUFFICES ASSUME Init PROVE IInv
  OBVIOUS
<1>1. TypeOK
  BY DEF Init, TypeOK
<1>2. KeyInv
  BY ValuesAreNone DEF Init, KeyInv, Cached
<1>3. HookInv
  BY DEF Init, HookInv
<1> QED BY <1>1, <1>2, <1>3 DEF IInv

LEMMA RenderStep ==
  ASSUME IInv, NEW r \in Readers, NEW k \in KeysOf(r), NEW src \in BOOLEAN, Render(r, k, src)
  PROVE  IInv'
<1> DEFINE new == [key |-> k, src |-> src, shown |-> ShownAfter(r, k), due |-> Due(r),
                   calls |-> IF hook[r] = Gone THEN {} ELSE hook[r].calls]
<1>1. k \in Keys
  BY DEF KeysOf, Keys
<1>2. hook' = [hook EXCEPT ![r] = new] /\ UNCHANGED <<cache, inFlight, samples>>
  BY DEF Render
<1>3. new \in Hook
  BY <1>1, ShownType DEF IInv, TypeOK, Hook, Due
<1>4. hook'[r] = new /\ \A q \in Readers \ {r} : hook'[q] = hook[q]
  BY <1>2 DEF IInv, TypeOK
<1>5. TypeOK'
  BY <1>2, <1>3, <1>4 DEF IInv, TypeOK
<1>6. KeyInv'
  BY <1>2 DEF IInv, KeyInv, Cached
<1>7. HookInv'
  BY <1>2, <1>4 DEF IInv, HookInv, Cached, Due
<1> QED BY <1>5, <1>6, <1>7 DEF IInv

LEMMA UnmountStep ==
  ASSUME IInv, NEW r \in Readers, Unmount(r)
  PROVE  IInv'
<1>1. hook' = [hook EXCEPT ![r] = Gone] /\ UNCHANGED <<cache, inFlight, samples>>
  BY DEF Unmount
<1>2. TypeOK'
  BY <1>1 DEF IInv, TypeOK
<1>3. KeyInv'
  BY <1>1 DEF IInv, KeyInv, Cached
<1>4. HookInv'
  BY <1>1 DEF IInv, TypeOK, HookInv, Cached
<1> QED BY <1>2, <1>3, <1>4 DEF IInv
-----------------------------------------------------------------------------
(* What an effect finds of its key decides between three cases.            *)
LEMMA EffectCases ==
  ASSUME IInv, NEW r \in Readers, Effect(r)
  PROVE  LET k == hook[r].key IN
         /\ k \in Keys
         /\ \/ /\ Cached(k) \/ Joins(k)
               /\ UNCHANGED <<cache, inFlight, samples>>
               /\ hook' = [hook EXCEPT ![r].due = FALSE,
                              ![r].calls = {Call(k, IF Cached(k) THEN cache[k] ELSE Waiting)}]
            \/ /\ ~Cached(k) /\ ~Joins(k)
               /\ cache' = [cache EXCEPT ![k] = Fallback[k]]
               /\ UNCHANGED <<inFlight, samples>>
               /\ hook' = [hook EXCEPT ![r].due = FALSE, ![r].calls = {Call(k, Fallback[k])}]
            \/ /\ ~Cached(k) /\ ~Joins(k)
               /\ UNCHANGED cache
               /\ inFlight' = [inFlight EXCEPT ![k] = Waiting]
               /\ samples' = [samples EXCEPT ![k] = @ + 1]
               /\ hook' = [hook EXCEPT ![r].due = FALSE, ![r].calls = {Call(k, Waiting)}]
<1> DEFINE k == hook[r].key
           result == ResolveCached(k, hook[r].src)
<1>1. k \in Keys
  BY DEF Effect, IInv, TypeOK, Hook
<1>2. /\ hook' = [hook EXCEPT ![r].due = FALSE, ![r].calls = {result.call}]
      /\ cache' = [cache EXCEPT ![k] = result.store]
      /\ inFlight' = IF result.start THEN [inFlight EXCEPT ![k] = Waiting] ELSE inFlight
      /\ samples' = IF result.start THEN [samples EXCEPT ![k] = @ + 1] ELSE samples
  BY DEF Effect, Cancelled
<1>3. cache = [cache EXCEPT ![k] = cache[k]]
  BY <1>1 DEF IInv, TypeOK
<1>4. CASE Cached(k) \/ Joins(k)
  <2>1. /\ result.call = Call(k, IF Cached(k) THEN cache[k] ELSE Waiting)
        /\ result.store = cache[k] /\ ~result.start
    BY <1>4 DEF ResolveCached
  <2> QED BY <1>1, <1>2, <1>3, <1>4, <2>1
<1>5. CASE ~Cached(k) /\ ~Joins(k) /\ ~hook[r].src
  <2>1. /\ result.call = Call(k, Fallback[k])
        /\ result.store = Fallback[k] /\ ~result.start
    BY <1>5 DEF ResolveCached
  <2> QED BY <1>1, <1>2, <1>5, <2>1
<1>6. CASE ~Cached(k) /\ ~Joins(k) /\ hook[r].src
  <2>1. result.call = Call(k, Waiting) /\ result.store = cache[k] /\ result.start
    BY <1>6 DEF ResolveCached
  <2> QED BY <1>1, <1>2, <1>3, <1>6, <2>1
<1> QED BY <1>4, <1>5, <1>6

(* The hook's own part of an effect's step.                                *)
LEMMA HookAfterEffect ==
  ASSUME IInv, NEW r \in Readers, hook[r] # Gone, NEW k, k = hook[r].key,
         NEW v \in AnyValue \cup {Waiting},
         hook' = [hook EXCEPT ![r].due = FALSE, ![r].calls = {Call(k, v)}]
  PROVE  /\ hook' \in [Readers -> Hook \cup {Gone}] /\ hook'[r] \in Hook
         /\ hook'[r].shown = hook[r].shown
         /\ hook'[r].calls = {[key |-> k, value |-> v]}
         /\ hook'[r].key = k /\ hook'[r].due = FALSE
         /\ \A q \in Readers \ {r} : hook'[q] = hook[q]
<1>1. hook \in [Readers -> Hook \cup {Gone}] /\ hook[r] \in Hook
  BY DEF IInv, TypeOK
<1>2. k \in Keys /\ {Call(k, v)} \in SUBSET [key : Keys, value : AnyValue \cup {Waiting}]
  BY <1>1 DEF Hook, Call
<1>3. hook'[r] = [hook[r] EXCEPT !.due = FALSE, !.calls = {Call(k, v)}]
  BY <1>1
<1>4. /\ hook'[r] \in Hook /\ hook'[r].key = k /\ hook'[r].due = FALSE
      /\ hook'[r].calls = {Call(k, v)} /\ hook'[r].shown = hook[r].shown
  BY <1>1, <1>2, <1>3 DEF Hook
<1> QED BY <1>1, <1>4 DEF Call

LEMMA EffectStep ==
  ASSUME IInv, NEW r \in Readers, Effect(r)
  PROVE  IInv'
<1> DEFINE k == hook[r].key
<1>1. k \in Keys /\ hook[r] # Gone
  BY EffectCases DEF Effect
<1> HIDE DEF k
<1>2. CASE /\ Cached(k) \/ Joins(k)
           /\ UNCHANGED <<cache, inFlight, samples>>
           /\ hook' = [hook EXCEPT ![r].due = FALSE,
                          ![r].calls = {Call(k, IF Cached(k) THEN cache[k] ELSE Waiting)}]
  <2>1. PICK v \in AnyValue \cup {Waiting} :
           /\ v = Waiting => inFlight[k] # Idle
           /\ v # Waiting => v = cache[k] /\ Cached(k)
           /\ hook' = [hook EXCEPT ![r].due = FALSE, ![r].calls = {Call(k, v)}]
    BY <1>1, <1>2 DEF IInv, TypeOK, Cached, Joins
  <2>2. /\ hook' \in [Readers -> Hook \cup {Gone}]
        /\ hook'[r].calls = {[key |-> k, value |-> v]}
        /\ hook'[r].key = k /\ hook'[r].due = FALSE
        /\ \A q \in Readers \ {r} : hook'[q] = hook[q]
    <3>1. v \in AnyValue \cup {Waiting}
      OBVIOUS
    <3>2. hook' = [hook EXCEPT ![r].due = FALSE, ![r].calls = {Call(k, v)}]
      BY <2>1
    <3>3. k = hook[r].key
      BY DEF k
    <3> QED BY <1>1, <3>1, <3>2, <3>3, HookAfterEffect, ZenonT(40)
  <2>3. TypeOK'
    <3>1. ASSUME NEW q \in Readers, hook'[q] # Gone, NEW c \in hook'[q].calls, c.value = Waiting
          PROVE  inFlight[c.key] # Idle
      <4>1. CASE q = r
        BY <2>1, <2>2, <3>1, <4>1
      <4>2. CASE q # r
        BY <2>2, <3>1, <4>2 DEF IInv, TypeOK
      <4> QED BY <4>1, <4>2
    <3> QED BY <1>2, <2>2, <3>1 DEF IInv, TypeOK
  <2>4. KeyInv'
    BY <1>2 DEF IInv, KeyInv, Cached
  <2>5. HookInv'
    BY <1>2, <2>1, <2>2 DEF IInv, HookInv, Cached
  <2> QED BY <2>3, <2>4, <2>5 DEF IInv
<1>3. CASE /\ ~Cached(k) /\ ~Joins(k)
           /\ cache' = [cache EXCEPT ![k] = Fallback[k]]
           /\ UNCHANGED <<inFlight, samples>>
           /\ hook' = [hook EXCEPT ![r].due = FALSE, ![r].calls = {Call(k, Fallback[k])}]
  <2>1. /\ Fallback[k] \in Values[k] /\ Fallback[k] \in AnyValue
        /\ Fallback[k] \notin {Waiting, Idle} /\ Idle # Waiting
    BY <1>1, ValuesAreNone
  <2>2. /\ hook' \in [Readers -> Hook \cup {Gone}]
        /\ hook'[r].calls = {[key |-> k, value |-> Fallback[k]]}
        /\ hook'[r].key = k /\ hook'[r].due = FALSE
        /\ \A q \in Readers \ {r} : hook'[q] = hook[q]
    <3>1. PICK v \in AnyValue \cup {Waiting} : v = Fallback[k]
      BY <2>1
    <3>2. hook' = [hook EXCEPT ![r].due = FALSE, ![r].calls = {Call(k, v)}]
      BY <1>3, <3>1
    <3>3. k = hook[r].key
      BY DEF k
    <3>4. /\ hook' \in [Readers -> Hook \cup {Gone}]
          /\ hook'[r].calls = {[key |-> k, value |-> v]}
          /\ hook'[r].key = k /\ hook'[r].due = FALSE
          /\ \A q \in Readers \ {r} : hook'[q] = hook[q]
      BY <1>1, <3>2, <3>3, HookAfterEffect, ZenonT(40)
    <3> QED BY <3>1, <3>4
  <2>3. cache'[k] = Fallback[k] /\ \A l \in Keys : cache'[l] = cache[l] \/ (l = k /\ ~Cached(l))
    BY <1>1, <1>3 DEF IInv, TypeOK
  <2>4. TypeOK'
    <3>1. ASSUME NEW q \in Readers, hook'[q] # Gone, NEW c \in hook'[q].calls, c.value = Waiting
          PROVE  inFlight[c.key] # Idle
      <4>1. CASE q = r
        BY <2>1, <2>2, <3>1, <4>1
      <4>2. CASE q # r
        BY <2>2, <3>1, <4>2 DEF IInv, TypeOK
      <4> QED BY <4>1, <4>2
    <3>2. cache' \in [Keys -> AnyValue \cup {Waiting}]
      BY <1>1, <1>3, <2>1 DEF IInv, TypeOK
    <3>3. \A l \in Keys : cache'[l] \in Values[l] \cup {Waiting}
      BY <2>1, <2>3 DEF IInv, TypeOK
    <3> QED BY <1>3, <2>2, <3>1, <3>2, <3>3 DEF IInv, TypeOK
  <2>5. KeyInv'
    BY <1>1, <1>3, <2>1, <2>3 DEF IInv, KeyInv, Cached, Joins
  <2>6. HookInv'
    <3>1. ASSUME NEW q \in Readers \ {r}, hook[q] # Gone
          PROVE  hook[q].key \in Keys /\ \A c \in hook[q].calls : c.key \in Keys
      BY <3>1 DEF IInv, TypeOK, Hook
    <3>2. ASSUME NEW q \in Readers \ {r}, hook[q] # Gone
          PROVE  /\ \A c \in hook[q].calls : c.value # Waiting => c.value = cache'[c.key]
                 /\ ~hook[q].due =>
                      /\ \A c \in hook[q].calls : c.key = hook[q].key
                      /\ hook[q].calls = {} =>
                           cache'[hook[q].key] # Waiting /\ hook[q].shown = cache'[hook[q].key]
      <4>1. ASSUME NEW c \in hook[q].calls, c.value # Waiting
            PROVE  c.value = cache'[c.key]
        BY <2>3, <3>1, <3>2, <4>1 DEF IInv, HookInv, Cached
      <4>2. ASSUME ~hook[q].due, hook[q].calls = {}
            PROVE  cache'[hook[q].key] # Waiting /\ hook[q].shown = cache'[hook[q].key]
        BY <2>3, <3>1, <3>2, <4>2 DEF IInv, HookInv, Cached
      <4> QED BY <3>2, <4>1, <4>2 DEF IInv, HookInv
    <3>3. \A c \in hook'[r].calls : c.key = hook'[r].key /\ c.value = cache'[c.key]
      BY <2>2, <2>3
    <3>4. hook'[r].calls # {}
      BY <2>2
    <3>5. ASSUME NEW q \in Readers, hook'[q] # Gone
          PROVE  /\ \A c \in hook'[q].calls : c.value # Waiting => c.value = cache'[c.key]
                 /\ ~hook'[q].due =>
                      /\ \A c \in hook'[q].calls : c.key = hook'[q].key
                      /\ hook'[q].calls = {} =>
                           cache'[hook'[q].key] # Waiting /\ hook'[q].shown = cache'[hook'[q].key]
      <4>1. CASE q = r
        BY <3>3, <3>4, <4>1
      <4>2. CASE q # r
        BY <2>2, <3>2, <3>5, <4>2
      <4> QED BY <4>1, <4>2
    <3> QED BY <3>5 DEF HookInv, Cached
  <2> QED BY <2>4, <2>5, <2>6 DEF IInv
<1>4. CASE /\ ~Cached(k) /\ ~Joins(k)
           /\ UNCHANGED cache
           /\ inFlight' = [inFlight EXCEPT ![k] = Waiting]
           /\ samples' = [samples EXCEPT ![k] = @ + 1]
           /\ hook' = [hook EXCEPT ![r].due = FALSE, ![r].calls = {Call(k, Waiting)}]
  <2>1. Idle # Waiting
    BY <1>1, ValuesAreNone
  <2>2. /\ hook' \in [Readers -> Hook \cup {Gone}]
        /\ hook'[r].calls = {[key |-> k, value |-> Waiting]}
        /\ hook'[r].key = k /\ hook'[r].due = FALSE
        /\ \A q \in Readers \ {r} : hook'[q] = hook[q]
    BY <1>1, <1>4, HookAfterEffect DEF k
  <2>3. /\ inFlight'[k] = Waiting /\ samples'[k] = samples[k] + 1
        /\ \A l \in Keys \ {k} : inFlight'[l] = inFlight[l] /\ samples'[l] = samples[l]
    BY <1>1, <1>4 DEF IInv, TypeOK
  <2>4. samples[k] = 0 /\ samples \in [Keys -> Nat]
    BY <1>1, <1>4 DEF IInv, KeyInv, TypeOK, Joins
  <2>5. TypeOK'
    <3>1. ASSUME NEW q \in Readers \ {r}, hook[q] # Gone, NEW c \in hook[q].calls
          PROVE  c.key \in Keys
      BY <3>1 DEF IInv, TypeOK, Hook
    <3>2. ASSUME NEW q \in Readers, hook'[q] # Gone, NEW c \in hook'[q].calls, c.value = Waiting
          PROVE  inFlight'[c.key] # Idle
      <4>1. CASE q = r
        BY <2>1, <2>2, <2>3, <3>2, <4>1
      <4>2. CASE q # r
        BY <2>1, <2>2, <2>3, <3>1, <3>2, <4>2 DEF IInv, TypeOK
      <4> QED BY <4>1, <4>2
    <3>3. inFlight' \in [Keys -> AnyValue \cup {Waiting, Idle}] /\ samples' \in [Keys -> Nat]
      BY <1>1, <1>4, <2>4 DEF IInv, TypeOK
    <3> QED BY <1>4, <2>2, <3>2, <3>3 DEF IInv, TypeOK
  <2>6. KeyInv'
    BY <1>1, <1>4, <2>1, <2>3, <2>4 DEF IInv, KeyInv, Cached
  <2>7. HookInv'
    BY <1>4, <2>2 DEF IInv, HookInv, Cached
  <2> QED BY <2>5, <2>6, <2>7 DEF IInv
<1> QED BY <1>2, <1>3, <1>4, EffectCases DEF k
-----------------------------------------------------------------------------
LEMMA SettleStep ==
  ASSUME IInv, NEW k \in Keys, Settle(k)
  PROVE  IInv'
<1>1. PICK v \in Values[k] : /\ cache' = [cache EXCEPT ![k] = v]
                             /\ inFlight' = [inFlight EXCEPT ![k] = v]
  BY ValuesAreNone DEF Settle, FallbackCached
<1>2. inFlight[k] = Waiting /\ ~Cached(k) /\ UNCHANGED <<hook, samples>>
  BY DEF Settle, IInv, KeyInv
<1>3. v \in AnyValue /\ v \notin {Waiting, Idle} /\ Idle # Waiting
  BY <1>1, ValuesAreNone
<1>4. /\ cache'[k] = v /\ inFlight'[k] = v
      /\ \A l \in Keys \ {k} : cache'[l] = cache[l] /\ inFlight'[l] = inFlight[l]
  BY <1>1 DEF IInv, TypeOK
<1>5. ASSUME NEW r \in Readers, hook[r] # Gone
      PROVE  hook[r].key \in Keys /\ \A c \in hook[r].calls : c.key \in Keys
  BY <1>5 DEF IInv, TypeOK, Hook
<1>6. TypeOK'
  BY <1>1, <1>2, <1>3, <1>4, <1>5 DEF IInv, TypeOK
<1>7. KeyInv'
  BY <1>2, <1>3, <1>4 DEF IInv, KeyInv, Cached
<1>8. HookInv'
  BY <1>2, <1>3, <1>4, <1>5 DEF IInv, HookInv, Cached
<1> QED BY <1>6, <1>7, <1>8 DEF IInv

LEMMA FinallyStep ==
  ASSUME IInv, NEW k \in Keys, Finally(k)
  PROVE  IInv'
<1>1. /\ inFlight[k] \notin {Idle, Waiting} /\ inFlight[k] = cache[k]
      /\ UNCHANGED <<cache, samples>>
  BY DEF Finally, IInv, KeyInv
<1>2. inFlight'[k] = Idle /\ \A l \in Keys \ {k} : inFlight'[l] = inFlight[l]
  BY DEF Finally, IInv, TypeOK
<1>3. cache[k] \in AnyValue /\ cache[k] # Waiting /\ inFlight' \in [Keys -> AnyValue \cup {Waiting, Idle}]
  BY <1>1 DEF Finally, IInv, TypeOK
<1>4. ASSUME NEW r \in Readers, hook[r] # Gone
      PROVE  /\ hook[r] \in Hook
             /\ hook'[r] = [hook[r] EXCEPT !.calls = Answered(hook[r].calls, k)]
             /\ hook'[r] \in Hook
             /\ hook'[r].key = hook[r].key /\ hook'[r].due = hook[r].due
             /\ hook'[r].shown = hook[r].shown
             /\ hook'[r].calls = Answered(hook[r].calls, k)
  <2>1. hook[r] \in Hook /\ hook'[r] = [hook[r] EXCEPT !.calls = Answered(hook[r].calls, k)]
    BY <1>4 DEF Finally, IInv, TypeOK
  <2>2. Answered(hook[r].calls, k) \in SUBSET [key : Keys, value : AnyValue \cup {Waiting}]
    BY <1>1, <1>3, <2>1 DEF Answered, Call, Hook
  <2> QED BY <2>1, <2>2 DEF Hook
<1>5. \A r \in Readers : hook[r] = Gone => hook'[r] = Gone
  BY DEF Finally
<1>6. hook' \in [Readers -> Hook \cup {Gone}]
  BY <1>4, <1>5 DEF Finally
<1>7. ASSUME NEW r \in Readers, hook[r] # Gone, NEW c \in hook'[r].calls
      PROVE  \/ c \in hook[r].calls /\ ~(c.key = k /\ c.value = Waiting)
             \/ /\ c.key = k /\ c.value = cache[k]
                /\ \E d \in hook[r].calls : d.key = k
  <2>1. PICK d \in hook[r].calls :
           c = IF d = Call(k, Waiting) THEN Call(k, cache[k]) ELSE d
    <3>1. c \in Answered(hook[r].calls, k)
      BY <1>4, <1>7
    <3> QED BY <1>1, <3>1 DEF Answered
  <2>2. d \in [key : Keys, value : AnyValue \cup {Waiting}]
    BY <1>4, <1>7 DEF Hook
  <2>3. CASE d = Call(k, Waiting)
    BY <2>1, <2>3 DEF Call
  <2>4. CASE d # Call(k, Waiting)
    BY <2>1, <2>2, <2>4 DEF Call
  <2> QED BY <2>3, <2>4
<1>8. ASSUME NEW r \in Readers, hook[r] # Gone, hook'[r].calls = {}
      PROVE  hook[r].calls = {}
  <2>1. Answered(hook[r].calls, k) = {}
    BY <1>4, <1>8
  <2>2. \A c \in hook[r].calls :
           (IF c = Call(k, Waiting) THEN Call(k, inFlight[k]) ELSE c) \in Answered(hook[r].calls, k)
    BY DEF Answered
  <2> QED BY <2>1, <2>2
<1>9. TypeOK'
  <2>1. ASSUME NEW r \in Readers, hook'[r] # Gone, NEW c \in hook'[r].calls, c.value = Waiting
        PROVE  inFlight'[c.key] # Idle
    <3>1. hook[r] # Gone
      BY <1>5, <2>1
    <3>2. c \in hook[r].calls /\ c.key # k
      BY <1>3, <1>7, <2>1, <3>1
    <3>3. c.key \in Keys
      BY <1>4, <3>1, <3>2 DEF Hook
    <3> QED BY <1>2, <2>1, <3>1, <3>2, <3>3 DEF IInv, TypeOK
  <2> QED BY <1>1, <1>3, <1>6, <2>1 DEF IInv, TypeOK
<1>10. KeyInv'
  <2>1. Idle # Waiting
    BY ValuesAreNone
  <2> QED BY <1>1, <1>2, <1>3, <2>1 DEF IInv, KeyInv, Cached
<1>11. HookInv'
  <2> SUFFICES ASSUME NEW r \in Readers, hook'[r] # Gone
               PROVE  /\ \A c \in hook'[r].calls : c.value # Waiting => c.value = cache[c.key]
                      /\ ~hook[r].due =>
                           /\ \A c \in hook'[r].calls : c.key = hook[r].key
                           /\ hook'[r].calls = {} =>
                                Cached(hook[r].key) /\ hook[r].shown = cache[hook[r].key]
    BY <1>1, <1>4, <1>5 DEF HookInv, Cached
  <2>1. hook[r] # Gone
    BY <1>5
  <2> QED BY <1>7, <1>8, <2>1 DEF IInv, HookInv
<1> QED BY <1>9, <1>10, <1>11 DEF IInv

LEMMA DeliverStep ==
  ASSUME IInv, NEW r \in Readers, Deliver(r)
  PROVE  IInv'
<1>1. PICK c \in hook[r].calls :
        c.value # Waiting /\ hook' = [hook EXCEPT ![r].shown = c.value, ![r].calls = @ \ {c}]
  BY DEF Deliver
<1>2. hook[r] # Gone /\ hook[r] \in Hook /\ UNCHANGED <<cache, inFlight, samples>>
  BY DEF Deliver, IInv, TypeOK
<1>3. c \in [key : Keys, value : AnyValue \cup {Waiting}] /\ c.value = cache[c.key]
  BY <1>1, <1>2 DEF Hook, IInv, HookInv
<1>4. hook'[r] = [hook[r] EXCEPT !.shown = c.value, !.calls = hook[r].calls \ {c}]
      /\ \A q \in Readers \ {r} : hook'[q] = hook[q]
  BY <1>1 DEF IInv, TypeOK
<1>5. /\ hook'[r] \in Hook /\ hook'[r].calls = hook[r].calls \ {c}
      /\ hook'[r].key = hook[r].key /\ hook'[r].due = hook[r].due
      /\ hook'[r].shown = c.value
  <2>1. /\ c.value \in AnyValue
        /\ hook[r].calls \ {c} \in SUBSET [key : Keys, value : AnyValue \cup {Waiting}]
    BY <1>1, <1>2, <1>3 DEF Hook
  <2> QED BY <1>2, <1>4, <2>1 DEF Hook
<1>6. TypeOK'
  BY <1>1, <1>2, <1>4, <1>5 DEF IInv, TypeOK
<1>7. KeyInv'
  BY <1>2 DEF IInv, KeyInv, Cached
<1>8. HookInv'
  <2>1. ASSUME ~hook[r].due
        PROVE  Cached(hook[r].key) /\ c.value = cache[hook[r].key]
    BY <1>1, <1>2, <1>3, <2>1 DEF IInv, HookInv, Cached
  <2>2. ASSUME NEW q \in Readers, hook'[q] # Gone
        PROVE  /\ \A d \in hook'[q].calls : d.value # Waiting => d.value = cache[d.key]
               /\ ~hook'[q].due =>
                    /\ \A d \in hook'[q].calls : d.key = hook'[q].key
                    /\ hook'[q].calls = {} =>
                         Cached(hook'[q].key) /\ hook'[q].shown = cache[hook'[q].key]
    <3>1. CASE q = r
      BY <1>2, <1>5, <2>1, <3>1 DEF IInv, HookInv
    <3>2. CASE q # r
      BY <1>4, <2>2, <3>2 DEF IInv, HookInv
    <3> QED BY <3>1, <3>2
  <2> QED BY <1>2, <2>2 DEF HookInv, Cached
<1> QED BY <1>6, <1>7, <1>8 DEF IInv

LEMMA StutterStep ==
  ASSUME IInv, UNCHANGED vars
  PROVE  IInv'
BY DEF IInv, TypeOK, KeyInv, HookInv, Cached, vars

LEMMA NextStep == IInv /\ [Next]_vars => IInv'
BY RenderStep, UnmountStep, EffectStep, SettleStep, FinallyStep, DeliverStep, StutterStep DEF Next

(* The cache, the promises and the hooks keep their types, and whoever     *)
(* waits, waits for a promise that is there (resolveCached).               *)
THEOREM TypeCorrect == Spec => []TypeOK
<1>1. IInv => TypeOK
  BY DEF IInv
<1> QED BY InitInv, NextStep, <1>1, PTL DEF Spec

(* No image is sampled twice, however many cards ask, whenever they ask    *)
(* and whether or not sampling works (posterTint.ts:220).                  *)
THEOREM SampledAtMostOnce == Spec => []SampledOnce
<1>1. IInv => SampledOnce
  BY DEF IInv, KeyInv, SampledOnce
<1> QED BY InitInv, NextStep, <1>1, PTL DEF Spec

(* A card with no effect to run and no answer to come shows its title's    *)
(* value (usePosterHue.ts:31).                                             *)
THEOREM CardsAgree == Spec => []SettledAgree
<1>1. IInv => SettledAgree
  BY DEF IInv, HookInv, SettledAgree
<1> QED BY InitInv, NextStep, <1>1, PTL DEF Spec
-----------------------------------------------------------------------------
(* The refinement: what a step changes of what is read and shown.          *)
LEMMA ReadingAt ==
  ASSUME TypeOK, NEW r \in Readers, hook[r] # Gone
  PROVE  Reading[r] = hook[r].key /\ Showing[r] = hook[r].shown /\ Reading[r] # Gone
<1>1. hook[r].key \in Keys
  BY DEF TypeOK, Hook
<1> QED BY <1>1, TintAssumption DEF Reading, Showing

LEMMA OneHookChanges ==
  ASSUME TypeOK, NEW r \in Readers, NEW h, h # Gone, hook' = [hook EXCEPT ![r] = h]
  PROVE  /\ Reading' = [Reading EXCEPT ![r] = h.key]
         /\ Showing' = [Showing EXCEPT ![r] = h.shown]
<1>1. hook'[r] = h /\ \A q \in Readers \ {r} : hook'[q] = hook[q]
  BY DEF TypeOK
<1>2. Reading'[r] = h.key /\ \A q \in Readers \ {r} : Reading'[q] = Reading[q]
  BY <1>1 DEF Reading
<1>3. Showing'[r] = h.shown /\ \A q \in Readers \ {r} : Showing'[q] = Showing[q]
  BY <1>1 DEF Showing
<1>4. Reading' = [q \in Readers |-> Reading'[q]] /\ Reading = [q \in Readers |-> Reading[q]]
  BY DEF Reading
<1>5. Showing' = [q \in Readers |-> Showing'[q]] /\ Showing = [q \in Readers |-> Showing[q]]
  BY DEF Showing
<1>6. Reading' = [Reading EXCEPT ![r] = h.key]
  BY <1>2, <1>4
<1>7. Showing' = [Showing EXCEPT ![r] = h.shown]
  BY <1>3, <1>5
<1> QED BY <1>6, <1>7

LEMMA InitImplements == Init => Flight!Init
BY DEF Init, Flight!Init, Reading, Showing

LEMMA RenderImplements ==
  ASSUME IInv, NEW r \in Readers, NEW k \in KeysOf(r), NEW src \in BOOLEAN, Render(r, k, src)
  PROVE  k \in Keys /\ Flight!Read(r, k)
<1> DEFINE new == [key |-> k, src |-> src, shown |-> ShownAfter(r, k), due |-> Due(r),
                   calls |-> IF hook[r] = Gone THEN {} ELSE hook[r].calls]
<1>1. k \in Keys /\ TypeOK
  BY DEF KeysOf, Keys, IInv
<1>2. hook' = [hook EXCEPT ![r] = new] /\ UNCHANGED cache
  BY DEF Render
<1>3. new \in Hook
  BY <1>1, ShownType DEF TypeOK, Hook, Due
<1>4. new # Gone /\ new.key = k /\ new.shown = ShownAfter(r, k)
  BY <1>3, GoneAssumption
<1>5. /\ Reading' = [Reading EXCEPT ![r] = k]
      /\ Showing' = [Showing EXCEPT ![r] = ShownAfter(r, k)]
  <2> HIDE DEF new
  <2>1. /\ Reading' = [Reading EXCEPT ![r] = new.key]
        /\ Showing' = [Showing EXCEPT ![r] = new.shown]
    BY <1>1, <1>2, <1>4, OneHookChanges
  <2> QED BY <1>4, <2>1
<1>6. CASE hook[r] = Gone \/ hook[r].key # k
  <2>1. ShownAfter(r, k) = IF k \in Flight!Known THEN cache[k] ELSE Default[k]
    BY <1>1, <1>6 DEF ShownAfter, Peek, Cached, Flight!Known
  <2> QED BY <1>1, <1>2, <1>5, <2>1 DEF Flight!Read
<1>7. CASE hook[r] # Gone /\ hook[r].key = k
  <2>1. Reading[r] = k /\ Showing[r] = ShownAfter(r, k)
    BY <1>1, <1>7, ReadingAt DEF ShownAfter
  <2>2. Showing' = Showing
    BY <1>5, <2>1 DEF Showing
  <2> QED BY <1>1, <1>2, <1>5, <2>1, <2>2 DEF Flight!Read
<1> QED BY <1>6, <1>7

LEMMA UnmountImplements ==
  ASSUME IInv, NEW r \in Readers, Unmount(r)
  PROVE  Flight!Leave(r)
<1>1. hook \in [Readers -> Hook \cup {Gone}] /\ UNCHANGED cache
      /\ hook' = [hook EXCEPT ![r] = Gone]
  BY DEF Unmount, IInv, TypeOK
<1>2. Reading' = [Reading EXCEPT ![r] = Gone]
  BY <1>1 DEF Reading
<1>3. Showing' = [Showing EXCEPT ![r] = Gone]
  BY <1>1 DEF Showing
<1> QED BY <1>1, <1>2, <1>3 DEF Flight!Leave

(* Of an effect only the fallback of a card without a poster is seen.      *)
LEMMA EffectImplements ==
  ASSUME IInv, NEW r \in Readers, Effect(r)
  PROVE  (\E k \in Keys : Flight!Resolve(k)) \/ UNCHANGED Flight!vars
<1> DEFINE k == hook[r].key
<1>1. TypeOK /\ hook[r] # Gone /\ hook[r] \in Hook /\ k \in Keys
  BY DEF IInv, Effect, TypeOK, Hook
<1>2. PICK v \in AnyValue \cup {Waiting} :
        hook' = [hook EXCEPT ![r].due = FALSE, ![r].calls = {Call(k, v)}]
  <2>1. cache[k] \in AnyValue \cup {Waiting} /\ Fallback[k] \in AnyValue
    BY <1>1, ValuesAreNone DEF TypeOK
  <2> QED BY <2>1, EffectCases
<1>3. UNCHANGED <<Reading, Showing>>
  <2>1. /\ hook'[r] \in Hook /\ hook'[r].key = hook[r].key /\ hook'[r].shown = hook[r].shown
        /\ \A q \in Readers \ {r} : hook'[q] = hook[q]
    BY <1>1, <1>2, HookAfterEffect
  <2>2. hook'[r] # Gone
    BY <2>1, GoneAssumption
  <2> QED BY <1>1, <2>1, <2>2 DEF Reading, Showing
<1>4. CASE UNCHANGED cache
  BY <1>3, <1>4 DEF Flight!vars
<1>5. CASE ~Cached(k) /\ cache' = [cache EXCEPT ![k] = Fallback[k]]
  BY <1>1, <1>3, <1>5, ValuesAreNone DEF Flight!Resolve, Flight!Known, Cached
<1> QED BY <1>4, <1>5, EffectCases

LEMMA SettleImplements ==
  ASSUME IInv, NEW k \in Keys, Settle(k)
  PROVE  Flight!Resolve(k)
<1>1. PICK v \in Values[k] : cache' = [cache EXCEPT ![k] = v]
  BY ValuesAreNone DEF Settle, FallbackCached
<1>2. ~Cached(k) /\ UNCHANGED <<Reading, Showing>>
  BY DEF Settle, IInv, KeyInv, Reading, Showing
<1> QED BY <1>1, <1>2 DEF Flight!Resolve, Flight!Known, Cached

LEMMA FinallyImplements ==
  ASSUME IInv, NEW k \in Keys, Finally(k)
  PROVE  UNCHANGED Flight!vars
<1>1. ASSUME NEW r \in Readers, hook[r] # Gone
      PROVE  /\ hook'[r] # Gone /\ hook'[r].key = hook[r].key
             /\ hook'[r].shown = hook[r].shown
  <2>1. hook[r] \in Hook /\ hook'[r] = [hook[r] EXCEPT !.calls = Answered(hook[r].calls, k)]
    BY <1>1 DEF Finally, IInv, TypeOK
  <2>2. hook'[r].key = hook[r].key /\ hook'[r].shown = hook[r].shown
    BY <2>1 DEF Hook
  <2>3. Answered(hook[r].calls, k) \in SUBSET [key : Keys, value : AnyValue \cup {Waiting}]
    <3>1. inFlight[k] \in AnyValue
      BY DEF Finally, IInv, TypeOK
    <3> QED BY <2>1, <3>1 DEF Answered, Call, Hook
  <2>4. hook'[r] \in Hook
    BY <2>1, <2>3 DEF Hook
  <2> QED BY <2>2, <2>4, GoneAssumption
<1>2. \A r \in Readers : hook[r] = Gone => hook'[r] = Gone
  BY DEF Finally
<1>3. UNCHANGED cache
  BY DEF Finally
<1> QED BY <1>1, <1>2, <1>3 DEF Flight!vars, Reading, Showing

LEMMA DeliverImplements ==
  ASSUME IInv, NEW r \in Readers, Deliver(r)
  PROVE  Flight!Show(r)
<1>1. PICK c \in hook[r].calls :
        c.value # Waiting /\ hook' = [hook EXCEPT ![r].shown = c.value, ![r].calls = @ \ {c}]
  BY DEF Deliver
<1>2. hook[r] # Gone /\ hook[r] \in Hook /\ UNCHANGED cache /\ TypeOK
  BY DEF Deliver, IInv, TypeOK
<1>3. c.key \in Keys /\ c.value \in AnyValue /\ c.value = cache[c.key]
  BY <1>1, <1>2 DEF Hook, IInv, HookInv
<1> DEFINE h == [hook[r] EXCEPT !.shown = c.value, !.calls = hook[r].calls \ {c}]
<1>4. hook' = [hook EXCEPT ![r] = h]
  BY <1>1, <1>2 DEF TypeOK
<1>5. h \in Hook /\ h.key = hook[r].key /\ h.shown = c.value
  <2>1. hook[r].calls \ {c} \in SUBSET [key : Keys, value : AnyValue \cup {Waiting}]
    BY <1>2 DEF Hook
  <2> QED BY <1>2, <1>3, <2>1 DEF Hook
<1>6. h # Gone
  BY <1>5, GoneAssumption
<1> HIDE DEF h
<1>a. /\ Reading' = [Reading EXCEPT ![r] = h.key]
      /\ Showing' = [Showing EXCEPT ![r] = h.shown]
  BY <1>2, <1>4, <1>6, OneHookChanges
<1>7. /\ Reading' = [Reading EXCEPT ![r] = Reading[r]]
      /\ Showing' = [Showing EXCEPT ![r] = c.value]
  BY <1>2, <1>5, <1>a, ReadingAt
<1>8. Reading' = Reading /\ Reading[r] # Gone
  BY <1>2, <1>7, ReadingAt DEF Reading
<1> QED BY <1>1, <1>2, <1>3, <1>7, <1>8 DEF Flight!Show, Flight!Known

LEMMA StepImplements == IInv /\ [Next]_vars => [Flight!Next]_(Flight!vars)
<1> SUFFICES ASSUME IInv, [Next]_vars
             PROVE  [Flight!Next]_(Flight!vars)
  OBVIOUS
<1>1. CASE UNCHANGED vars
  BY <1>1 DEF vars, Flight!vars, Reading, Showing
<1> QED BY <1>1, RenderImplements, UnmountImplements, EffectImplements, SettleImplements,
           FinallyImplements, DeliverImplements DEF Next, Flight!Next

(* The safety of SingleFlight: a key gets one value, once, and whatever is *)
(* shown is a default or such a value (resolveCached, usePosterHue).       *)
THEOREM TintsAreOneFlight == Spec => Flight!Init /\ [][Flight!Next]_(Flight!vars)
BY InitInv, NextStep, InitImplements, StepImplements, PTL DEF Spec
=============================================================================
