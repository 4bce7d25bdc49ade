-------------------------- MODULE MCWatchTracking --------------------------
(* Movies and a short series; items are the rows of one guide  *)
(* unless two of them share an episode, as the rows of two guides do.      *)
EXTENDS WatchTracking, TLC

CONSTANTS film, show, extra, i1, i2, i3, i4, r1, r2

Row(t, ep) == [title |-> t, ep |-> ep]

(* Every episode of a two-season series, and a movie.                      *)
WholeSeries == [i \in {i1, i2, i3, i4} |->
                  CASE i = i1 -> Row(show, <<1, 1>>) [] i = i2 -> Row(show, <<1, 2>>)
                    [] i = i3 -> Row(show, <<2, 1>>) [] i = i4 -> Row(film, NoEpisode)]
TwoSeasons == {<<2, 1>>}

(* Two guides that both begin at the first episode.                        *)
TwoGuides == [i \in Items |-> Row(show, <<1, 1>>)]

(* A table that grows, one that loses its last season, one not ingested.   *)
ChangingSeasons == {<<2>>, <<1, 1>>, <<>>}

SecondEpisode == {<<1, 2>>}

(* What the proofs about marks and unmarks assume, WatchPointer is.        *)
ASSUME OneGuideAssumption == ~Swaps => OneGuide /\ SeasonsRest

Anonymous == Permutations(Requests)
=============================================================================
