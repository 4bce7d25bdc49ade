----------------------------- MODULE MCIngest -----------------------------
EXTENDS Ingest, TLC

CONSTANTS us, gb, p1, r1, r2, e1, s1, s2

Edition(s, airing, imdb) == [seasons |-> s, airing |-> airing, imdb |-> imdb]

(* A series that TMDB first lists with two seasons and airing, and later   *)
(* with its seasons merged and ended, or the other way round.              *)
AiringOrEnded == {Edition((s1 :> 1) @@ (s2 :> 1), TRUE, TRUE),
                  Edition((s1 :> 2) @@ (s2 :> NoRow), FALSE, TRUE)}

(* Two titles that TMDB leaves as they are: a series on the air, seen in   *)
(* one region and streaming nowhere, and one that has ended, seen in both, *)
(* which TVMaze does not list.                                             *)
EitherTitle == {Edition((s1 :> 1), airing, TRUE) : airing \in BOOLEAN}

TitleStays == UNCHANGED tmdb

AiringOrStreaming ==
  IF tmdb.airing
  THEN \A r \in Requests : reqs[r] # Idle =>
         /\ reqs[r].region = us
         /\ reqs[r].at = "delete providers" => Stored(reqs[r].got) = {}
  ELSE Stored(tvmaze) = {}

Anonymous == Permutations(Requests)
=============================================================================
