------------------------------ MODULE Replica ------------------------------
(***************************************************************************)
(* What a client's copy of a document on the server promises: while there  *)
(* is something open (a request, a question, a failure nobody has got      *)
(* over) the copy may show anything, what the user hopes for included; it  *)
(* is open no more only when the copy is the document, unless a change was *)
(* missed, for which the answer came too early; and it does not stay open  *)
(* for ever.                                                               *)
(***************************************************************************)
CONSTANTS Documents, Copies

VARIABLES truth, copy, open, missed

vars == <<truth, copy, open, missed>>

Init == truth \in Documents /\ copy \in Copies /\ open = TRUE /\ missed = FALSE

Open ==
  /\ ~open /\ open' = TRUE
  /\ copy' \in Copies /\ missed' \in {missed, FALSE}
  /\ UNCHANGED truth

Work ==
  /\ open /\ open' = TRUE
  /\ truth' \in Documents /\ copy' \in Copies /\ missed' \in BOOLEAN

Close ==
  /\ open /\ open' = FALSE
  /\ copy' = truth \/ (missed /\ copy' \in Copies)
  /\ UNCHANGED <<truth, missed>>

Next == Open \/ Work \/ Close

Spec == Init /\ [][Next]_vars /\ WF_vars(Close)

(* A closed copy is the document.                                          *)
ClosedIsTrue == ~open /\ ~missed => copy = truth
=============================================================================
