---------------------------- MODULE MCGuideCache ----------------------------
(* Two cards, two columns.                                                 *)
EXTENDS GuideCache, TLC

CONSTANTS a, b, s1, s2, m1, m2

At(slot) == [slot |-> slot, mark |-> FALSE]

SmallGuides == {NoGuide, (a :> At(s1)) @@ (b :> At(s1))}

OwnColumns == [s \in Slots |-> s]
=============================================================================
