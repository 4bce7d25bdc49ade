---------------------------- MODULE MCScheduler ----------------------------
(* Small inputs for the engine: two or three nights, a movie, a series     *)
(* with a backlog and a series that is airing, and kept rows where a user  *)
(* may have left them, outside the guide's nights included.                *)
EXTENDS Scheduler, TLC

Movie(provs) ==
  [movie |-> TRUE, runtime |-> 2, providers |-> provs, airing |-> FALSE,
   pointer |-> <<1, 1>>, seasons |-> <<>>, airs |-> <<>>]

Series(provs, pointer, seasons) ==
  [movie |-> FALSE, runtime |-> 1, providers |-> provs, airing |-> FALSE,
   pointer |-> pointer, seasons |-> seasons, airs |-> <<>>]

Airing(provs, airs) ==
  [movie |-> FALSE, runtime |-> 1, providers |-> provs, airing |-> TRUE,
   pointer |-> <<1, 2>>, seasons |-> <<3>>, airs |-> airs]

Evening == [start |-> 1, end |-> 3]
Weekend == [start |-> 1, end |-> 5]

Calendars == {<<Evening, Evening>>, <<Weekend, Evening>>, <<Evening, NightOff, Weekend>>,
              <<NightOff, Evening>>}

AirDates == {<<>>, (<<1, 2>> :> 2), (<<1, 2>> :> 1) @@ (<<1, 3>> :> 2), (<<1, 3>> :> 1),
             (<<1, 2>> :> 3) @@ (<<1, 3>> :> 3)}

Rotations ==
  {(1 :> Movie(m)) @@ (2 :> Series(p, k, s)) @@ (3 :> Airing({2}, a)) :
     m \in {{}, {2}}, p \in {{1}, {1, 2}}, k \in {<<1, 1>>, <<1, 2>>},
     s \in {<<1, 1>>, <<3>>}, a \in AirDates}

KeptRow(d, s, e, t, ep) ==
  [id |-> 1, date |-> d, start |-> s, end |-> e, title |-> t, ep |-> ep, provider |-> 2,
   pinned |-> FALSE, plan |-> TRUE]

Keeps == {{},
          {KeptRow(2, 1, 2, 2, <<1, 2>>)},
          {KeptRow(1, 2, 3, 3, <<1, 3>>), KeptRow(2, 0, 2, 1, NoEpisode)},
          {KeptRow(1, 2, 3, 7, <<1, 1>>), KeptRow(1, 1, 4, 2, <<1, 1>>)},
          {KeptRow(1, 1, 2, 2, <<1, 1>>), [KeptRow(1, 1, 2, 2, <<1, 1>>) EXCEPT !.id = 2]},
          {KeptRow(9, 1, 2, 2, <<1, 1>>), [KeptRow(1, 1, 2, 3, <<1, 2>>) EXCEPT !.plan = FALSE]}}

SmallInputs == {[days |-> c, titles |-> r, keep |-> k] :
                  c \in Calendars, r \in Rotations, k \in Keeps}

=============================================================================
