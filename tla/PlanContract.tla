---------------------------- MODULE PlanContract ----------------------------
(***************************************************************************)
(* What the guide engine (api/internal/guide) promises about the rows it   *)
(* adds to a plan, and what the store (api/internal/store/guides.go) may   *)
(* rely on when it inserts them.  Scheduler shows that the engine keeps    *)
(* the promise; Guides assumes it of every generation it inserts.          *)
(*                                                                         *)
(* A plan row is a record with at least the fields                         *)
(*   date, start, end, title                                               *)
(* where start and end count minutes from midnight of the row's date.      *)
(***************************************************************************)
EXTENDS Integers

Overlap(a, b) == a.date = b.date /\ a.start < b.end /\ b.start < a.end

(* Two rows one night can hold: disjoint in time, and not the same title.  *)
Compatible(a, b) == ~Overlap(a, b) /\ ~(a.date = b.date /\ a.title = b.title)

(* A viewing window, in minutes; the zero window is a night off.           *)
NightOff == [start |-> 0, end |-> 0]

Fits(row, window) == window.start <= row.start /\ row.end <= window.end

(* The rows of `new` sit in the windows of their nights, clear of each     *)
(* other and of the rows of `kept` around which they were planned.         *)
WellPlaced(new, kept, windows) ==
  \A n \in new :
     /\ n.date \in DOMAIN windows
     /\ windows[n.date] # NightOff
     /\ Fits(n, windows[n.date])
     /\ \A r \in kept : Compatible(n, r)
     /\ \A m \in new \ {n} : Compatible(n, m)

(* A generation: the new plan rows are well placed; each alternate is      *)
(* offered at the start of a plan row, ends inside the night's window, and *)
(* shows something that the night's plan does not.                         *)
Generation(plan, alternates, kept, windows) ==
  /\ WellPlaced(plan, kept, windows)
  /\ \A a \in alternates :
       LET tonight == {p \in plan \cup kept : p.date = a.date} IN
       /\ a.date \in DOMAIN windows /\ a.end <= windows[a.date].end
       /\ \E p \in tonight : p.start = a.start
       /\ \A p \in tonight : p.title # a.title
=============================================================================
