---------------------------- MODULE SingleFlight ----------------------------
(***************************************************************************)
(* What the poster tints promise (web app/guide/posterTint.ts): a key gets *)
(* one value for the life of the page, and everybody who reads the key     *)
(* comes to show it, showing meanwhile a default or a value that some key  *)
(* has.                                                                    *)
(***************************************************************************)
CONSTANTS
  Keys, Readers,
  Default,    \* [Keys -> what is shown of a key without a value]
  Outcomes,   \* [Keys -> the values that it may get]
  Unknown, Nothing

VARIABLES value, reading, shown

vars == <<value, reading, shown>>

Known == {k \in Keys : value[k] # Unknown}

Init ==
  /\ value = [k \in Keys |-> Unknown]
  /\ reading = [r \in Readers |-> Nothing]
  /\ shown = [r \in Readers |-> Nothing]

Resolve(k) ==
  /\ k \notin Known
  /\ \E v \in Outcomes[k] : value' = [value EXCEPT ![k] = v]
  /\ UNCHANGED <<reading, shown>>

Read(r, k) ==
  /\ reading' = [reading EXCEPT ![r] = k]
  /\ \/ shown' = [shown EXCEPT ![r] = IF k \in Known THEN value[k] ELSE Default[k]]
     \/ reading[r] = k /\ UNCHANGED shown
  /\ UNCHANGED value

Show(r) ==
  /\ reading[r] # Nothing
  /\ \E k \in Known : shown' = [shown EXCEPT ![r] = value[k]]
  /\ UNCHANGED <<value, reading>>

Leave(r) ==
  /\ reading' = [reading EXCEPT ![r] = Nothing]
  /\ shown' = [shown EXCEPT ![r] = Nothing]
  /\ UNCHANGED value

Next ==
  \/ \E k \in Keys : Resolve(k)
  \/ \E r \in Readers : \/ Show(r) \/ Leave(r)
                        \/ \E k \in Keys : Read(r, k)

(* A reader that stays with a key has its value shown in the end.          *)
Settled(r) ==
  reading[r] # Nothing => reading[r] \in Known /\ shown[r] = value[reading[r]]

Settles(r) == []<>Settled(r) \/ []<><<reading'[r] # reading[r]>>_vars

Spec == Init /\ [][Next]_vars /\ \A r \in Readers : Settles(r)
-----------------------------------------------------------------------------
(* Whoever reads shows the default of some key or the value that it has.   *)
ShowsSomeKeys ==
  \A r \in Readers :
    reading[r] # Nothing =>
      \E k \in Keys : shown[r] = Default[k] \/ (k \in Known /\ shown[r] = value[k])
=============================================================================
