----------------------------- MODULE MCSettings -----------------------------
(* Two days, a slider of three stops (two hours of which the last is       *)
(* midnight), and the documents that a user may come with.                 *)
EXTENDS SettingsAutosave, TLC

CONSTANTS mon, tue, us, gb, p1, p2

Window(start, end) == [enabled |-> TRUE, start |-> start, end |-> end]

Stored(m, t) == [region |-> us, windows |-> (mon :> m) @@ (tue :> t)]

SmallDefault == Window(4, 7)

(* A day as the server makes it and a day missing; off the track and off its  *)
(* stops; with a time missing.                                             *)
SmallDocs == {Stored(SmallDefault, Missing), Stored(Window(1, 3), Window(5, 7)),
              Stored(SmallDefault, Window(Empty, 6))}
=============================================================================
