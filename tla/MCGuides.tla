------------------------------ MODULE MCGuides ------------------------------
(* Two days, two titles, evenings of two slots: room for a kept row and a  *)
(* new one, and for two rows that collide if either is planned blindly.    *)
EXTENDS Guides, TLC

CONSTANTS short, long, r1, r2

SmallDates   == 1..2
ThreeDates   == 1..3
SmallTitles  == {short, long}
SmallRuntime == (short :> 1) @@ (long :> 2)
Evenings     == [d \in ThreeDates |-> [start |-> 0, end |-> 2]]

NewRow(d, s, t, plan) ==
  [date |-> d, start |-> s, end |-> s + SmallRuntime[t], title |-> t,
   plan |-> plan, pinned |-> FALSE]

Pinned(row) == [row EXCEPT !.pinned = TRUE]

(* A run of evenings: rows that collide if either is planned blindly.      *)
OneRowPlans == {{}, {NewRow(1, 0, long, TRUE)}, {NewRow(1, 1, short, TRUE)}}

(* Pins, an alternate beside a row, and rows on both nights.               *)
VariedPlans ==
  {{},
   {NewRow(1, 0, short, TRUE), Pinned(NewRow(2, 0, long, TRUE))},
   {NewRow(1, 1, short, TRUE), NewRow(1, 1, long, FALSE)},
   {NewRow(2, 1, short, TRUE)}}

Body(d, s, t, p) == [date |-> d, start |-> s, title |-> t, pinned |-> p]

(* A pin does to a regenerate what a watched mark does.                    *)
MoveOnly == {Body(2, 1, Unset, Unset)}

AnyEdit == {Body(Unset, Unset, Unset, FALSE), Body(2, Unset, Unset, Unset),
            Body(1, 1, Unset, Unset), Body(Unset, Unset, long, Unset)}

Anonymous == Permutations(Requests)
=============================================================================
