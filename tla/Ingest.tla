------------------------------ MODULE Ingest ------------------------------
(***************************************************************************)
(* The ingestion of one title: EnsureTitle (ingest/ingest.go), which every *)
(* GET of a title page runs, over its rows in titles, title_seasons,       *)
(* title_providers and title_airings (store/titles.go).  TMDB and TVMaze   *)
(* change as they please, calls to them fail, and requests for the title   *)
(* run side by side, in any number of instances.                           *)
(*                                                                         *)
(* Time is counted in midnights.  Stamps are ages, a little more than the  *)
(* TTL standing for everything older and for the epoch, and air dates are  *)
(* days from today, -2 standing for everything before yesterday.           *)
(*                                                                         *)
(* A movie is a title whose metadata has no seasons and does not air.      *)
(***************************************************************************)
EXTENDS Integers

CONSTANTS
  Catalog,       \* what TMDB may say: records [seasons, airing, imdb]
  Seasons,       \* season numbers
  Episodes,      \* the episodes that TVMaze may give a date
  Horizon,       \* days ahead that TVMaze gives dates for
  Regions,
  Providers,     \* the streaming providers that TMDB may list
  MetadataTTL, ProvidersTTL, AiringsTTL,
  Requests,      \* EnsureTitle calls in flight at a time
  Absent, Idle, NoRow

Dates == (-2)..Horizon
Table(keys, values) == [keys -> values \cup {NoRow}]

ASSUME CatalogAssumption ==
  Catalog \subseteq [seasons : Table(Seasons, Nat), airing : BOOLEAN, imdb : BOOLEAN]
ASSUME TTLAssumption ==
  MetadataTTL \in Nat /\ ProvidersTTL \in Nat /\ AiringsTTL \in Nat /\ Horizon \in Nat

Epoch(ttl) == ttl + 1

Row == [meta : Catalog, linked : BOOLEAN, metaAge : 0..Epoch(MetadataTTL),
        provAge : 0..Epoch(ProvidersTTL), airAge : 0..Epoch(AiringsTTL)]

(* The keys of title_providers.                                            *)
Offers == Regions \X Providers

Points == {"metadata", "upsert", "seasons", "insert seasons",
           "providers", "delete providers", "insert providers",
           "airings", "delete airings", "insert airings"}

HeldRow == [meta : Catalog, linked : BOOLEAN, providersDue : BOOLEAN, airingsDue : BOOLEAN]

Call == [at : Points, region : Regions, row : HeldRow \cup {Absent}, imdb : BOOLEAN,
         got : Catalog \cup Table(Episodes, Dates) \cup Table(Offers, {0, 1}) \cup {NoRow},
         doomed : SUBSET (Seasons \cup Episodes \cup Offers), crossed : BOOLEAN]

ASSUME SentinelAssumption ==
  NoRow \notin Int /\ Absent \notin Row \cup HeldRow /\ Idle \notin Call

VARIABLES
  tmdb,       \* TMDB's answer for the title
  tvmaze,     \* TVMaze's: [Episodes -> Dates or NoRow]
  title,      \* the titles row, or Absent; meta is what it has from TMDB
  seasons,    \* title_seasons
  providers,  \* title_providers: [Offers -> age of the answer it is from, or NoRow]
  stamper,    \* region of the call that last set the providers' stamp
  airings,    \* title_airings
  reqs,       \* [Requests -> an EnsureTitle call, or Idle]
  quiet       \* midnights since TMDB or TVMaze last changed

upstream == <<tmdb, tvmaze, quiet>>
vars == <<tmdb, tvmaze, title, seasons, providers, stamper, airings, reqs, quiet>>

(* How far back quiet counts: as far as the properties look.               *)
QuietBound == IF MetadataTTL > AiringsTTL THEN MetadataTTL + 1 ELSE AiringsTTL + 2

(* How old a row of title_providers may grow and be told apart.            *)
RowsBound == ProvidersTTL + 2

Older(age, ttl) == IF age > ttl THEN age ELSE age + 1

Stored(table) == {k \in DOMAIN table : table[k] # NoRow}
Future(dates) == {e \in Stored(dates) : dates[e] >= 0}

(* The call r is at the given point; it goes on, or returns.               *)
At(r, point)  == reqs[r] # Idle /\ reqs[r].at = point
GoTo(r, call) == reqs' = [reqs EXCEPT ![r] = call]
Return(r)     == GoTo(r, Idle)
-----------------------------------------------------------------------------
(* What a call holds of the row that it has read, or last written, to its  *)
(* end.  Whether a class is due is decided with the row, a moment before   *)
(* the code compares the stamp it holds.                                   *)
Held(row) ==
  IF row = Absent THEN Absent
  ELSE [meta |-> row.meta, linked |-> row.linked,
        providersDue |-> row.provAge > ProvidersTTL, airingsDue |-> row.airAge > AiringsTTL]

(* GetTitleByTMDB, and what is to be done about the metadata.              *)
Begin(r, region) ==
  /\ reqs[r] = Idle
  /\ GoTo(r, [at |-> IF title = Absent \/ title.metaAge > MetadataTTL
                     THEN "metadata" ELSE "providers",
              region |-> region, row |-> Held(title), imdb |-> FALSE,
              got |-> NoRow, doomed |-> {}, crossed |-> FALSE])
  /\ UNCHANGED <<upstream, title, seasons, providers, stamper, airings>>

(* fetchMetadata.  Without a row to serve its failure ends the call (Stop).*)
FetchMetadataOrNothing(r) ==   \* a failure served without a row
  /\ At(r, "metadata")
  /\ \/ GoTo(r, [reqs[r] EXCEPT !.at = "upsert", !.got = tmdb])
     \/ GoTo(r, [reqs[r] EXCEPT !.at = "providers"])
  /\ UNCHANGED <<upstream, title, seasons, providers, stamper, airings>>

FetchMetadata(r) ==
  /\ At(r, "metadata")
  /\ \/ GoTo(r, [reqs[r] EXCEPT !.at = "upsert", !.got = tmdb])
     \/ reqs[r].row # Absent /\ GoTo(r, [reqs[r] EXCEPT !.at = "providers"])
  /\ UNCHANGED <<upstream, title, seasons, providers, stamper, airings>>

(* UpsertTitle: a TVMaze id that is not given is left as it is.            *)
UpsertedUnlinked(meta, linked) ==   \* without COALESCE
  IF title = Absent
  THEN [meta |-> meta, linked |-> linked, metaAge |-> 0,
        provAge |-> Epoch(ProvidersTTL), airAge |-> Epoch(AiringsTTL)]
  ELSE [title EXCEPT !.meta = meta, !.linked = linked, !.metaAge = 0]

Upserted(meta, linked) ==
  IF title = Absent
  THEN [meta |-> meta, linked |-> linked, metaAge |-> 0,
        provAge |-> Epoch(ProvidersTTL), airAge |-> Epoch(AiringsTTL)]
  ELSE [title EXCEPT !.meta = meta, !.linked = @ \/ linked, !.metaAge = 0]

UpsertTitle(r) ==
  /\ At(r, "upsert")
  /\ title' = Upserted(reqs[r].got, FALSE)
  /\ GoTo(r, [reqs[r] EXCEPT !.at = "seasons", !.row = Held(title'), !.imdb = reqs[r].got.imdb])
  /\ UNCHANGED <<upstream, seasons, providers, stamper, airings>>
-----------------------------------------------------------------------------
(* Replacing the rows of a table is a transaction in two steps: a DELETE,  *)
(* which sees the rows committed so far, and INSERTs that overwrite.  The  *)
(* rows that another call commits in between survive, and are no longer    *)
(* those the DELETE saw.                                                   *)
Replaced(table, doomed, rows) ==
  [k \in DOMAIN table |-> IF k \in Stored(rows) THEN rows[k]
                          ELSE IF k \in doomed THEN NoRow ELSE table[k]]

Inserted(r, rows, after) ==
  [q \in Requests |-> IF q = r THEN after
                      ELSE IF At(q, reqs[r].at)
                      THEN [reqs[q] EXCEPT !.doomed = @ \ Stored(rows)] ELSE reqs[q]]

DoomedSeasonsNone(q) == {}   \* no DELETE

DoomedSeasons(q) == Stored(seasons)

DeleteSeasons(r) ==
  /\ At(r, "seasons")
  /\ GoTo(r, [reqs[r] EXCEPT !.at = "insert seasons", !.doomed = DoomedSeasons(r)])
  /\ UNCHANGED <<upstream, title, seasons, providers, stamper, airings>>

InsertSeasons(r) ==
  /\ At(r, "insert seasons")
  /\ LET rows == reqs[r].got.seasons
     IN  /\ seasons' = Replaced(seasons, reqs[r].doomed, rows)
         /\ reqs' = Inserted(r, rows,
                      [reqs[r] EXCEPT !.at = "providers", !.got = NoRow, !.doomed = {}])
  /\ UNCHANGED <<upstream, title, providers, stamper, airings>>
-----------------------------------------------------------------------------
(* The providers class: one stamp, and rows per region.  What the rows say *)
(* is not told apart, only how long ago TMDB was asked.                    *)
SkipProviders(r) ==
  /\ At(r, "providers") /\ ~reqs[r].row.providersDue
  /\ GoTo(r, [reqs[r] EXCEPT !.at = "airings"])
  /\ UNCHANGED <<upstream, title, seasons, providers, stamper, airings>>

(* WatchProviders for the region of the caller; a failure writes nothing.  *)
FetchProvidersOnce(r) ==   \* a failure stamped, not to be retried
  /\ At(r, "providers") /\ reqs[r].row.providersDue
  /\ \/ /\ \E listed \in SUBSET ({reqs[r].region} \X Providers) :
             GoTo(r, [reqs[r] EXCEPT !.at = "delete providers",
                        !.got = [o \in Offers |-> IF o \in listed THEN 0 ELSE NoRow]])
        /\ UNCHANGED <<title, stamper>>
     \/ /\ GoTo(r, [reqs[r] EXCEPT !.at = "airings"])
        /\ title' = [title EXCEPT !.provAge = 0]
        /\ stamper' = reqs[r].region
  /\ UNCHANGED <<upstream, seasons, providers, airings>>

FetchProviders(r) ==
  /\ At(r, "providers") /\ reqs[r].row.providersDue
  /\ \/ \E listed \in SUBSET ({reqs[r].region} \X Providers) :
          GoTo(r, [reqs[r] EXCEPT !.at = "delete providers",
                     !.got = [o \in Offers |-> IF o \in listed THEN 0 ELSE NoRow]])
     \/ GoTo(r, [reqs[r] EXCEPT !.at = "airings"])
  /\ UNCHANGED <<upstream, title, seasons, providers, stamper, airings>>

DoomedProviders(q) == {o \in Stored(providers) : o[1] = reqs[q].region}

DeleteProviders(r) ==
  /\ At(r, "delete providers")
  /\ GoTo(r, [reqs[r] EXCEPT !.at = "insert providers", !.doomed = DoomedProviders(r)])
  /\ UNCHANGED <<upstream, title, seasons, providers, stamper, airings>>

(* ON CONFLICT DO NOTHING: a row that the DELETE did not see stays as is.  *)
(* That calls which list a provider in common wait for each other at its   *)
(* row of the dictionary is left out, which only allows more.              *)
Unopposed(table, doomed, rows) ==
  [o \in Offers |-> IF o \in Stored(table) \ doomed THEN NoRow ELSE rows[o]]

(* The stamp is set as the transaction ends; now() is when it began, which *)
(* only lets the stamp look older.                                         *)
InsertProviders(r) ==
  /\ At(r, "insert providers")
  /\ LET rows == Unopposed(providers, reqs[r].doomed, reqs[r].got)
     IN  /\ providers' = Replaced(providers, reqs[r].doomed, rows)
         /\ reqs' = Inserted(r, rows, [reqs[r] EXCEPT !.at = "airings", !.got = NoRow, !.doomed = {}])
  /\ title' = [title EXCEPT !.provAge = 0]
  /\ stamper' = reqs[r].region
  /\ UNCHANGED <<upstream, seasons, airings>>
-----------------------------------------------------------------------------
(* ensureAirings.  The TVMaze id is looked up by an IMDB id that only this *)
(* call's own metadata carries, and stored by writing the row held back;   *)
(* the lookup always finds the same show.                                  *)
MayLinkAnyRow(q) == q.row.meta.airing /\ ~q.row.linked   \* an IMDB id kept in the row

MayLink(q) == q.row.meta.airing /\ ~q.row.linked /\ q.imdb
Due(q)     == q.row.meta.airing /\ q.row.linked /\ q.row.airingsDue

LinkTitle(r) ==
  /\ At(r, "airings") /\ MayLink(reqs[r])
  /\ title' = Upserted(reqs[r].row.meta, TRUE)
  /\ GoTo(r, [reqs[r] EXCEPT !.row = Held(title')])
  /\ UNCHANGED <<upstream, seasons, providers, stamper, airings>>

LeaveAirings(r) ==
  /\ At(r, "airings") /\ ~MayLink(reqs[r]) /\ ~Due(reqs[r])
  /\ Return(r)
  /\ UNCHANGED <<upstream, title, seasons, providers, stamper, airings>>

FetchEpisodes(r) ==
  /\ At(r, "airings") /\ Due(reqs[r])
  /\ GoTo(r, [reqs[r] EXCEPT !.at = "delete airings", !.got = tvmaze])
  /\ UNCHANGED <<upstream, title, seasons, providers, stamper, airings>>

(* Only what airs today or later is replaced, by today's date when the     *)
(* answer is there.                                                        *)
OnOrAfterAny(dates) == Stored(dates)   \* no date filter

OnOrAfterTomorrow(dates) == {e \in Stored(dates) : dates[e] > 0}   \* off by one

OnOrAfter(dates) == Future(dates)

DeleteAirings(r) ==
  /\ At(r, "delete airings")
  /\ LET got == reqs[r].got
     IN  GoTo(r, [reqs[r] EXCEPT !.at = "insert airings", !.doomed = OnOrAfter(airings),
                    !.got = [e \in Episodes |-> IF e \in Future(got) THEN got[e] ELSE NoRow]])
  /\ UNCHANGED <<upstream, title, seasons, providers, stamper, airings>>

InsertAirings(r) ==
  /\ At(r, "insert airings")
  /\ airings' = Replaced(airings, reqs[r].doomed, reqs[r].got)
  /\ title' = [title EXCEPT !.airAge = 0]
  /\ reqs' = Inserted(r, reqs[r].got, Idle)
  /\ UNCHANGED <<upstream, seasons, providers, stamper>>
-----------------------------------------------------------------------------
(* The call ends early: a call or a statement of it fails, the client      *)
(* disconnects, or the instance stops.  What is committed stays.           *)
Stop(r) ==
  /\ reqs[r] # Idle
  /\ Return(r)
  /\ UNCHANGED <<upstream, title, seasons, providers, stamper, airings>>

(* TMDB and TVMaze change their minds.                                     *)
Publish ==
  /\ tmdb' \in Catalog \ {tmdb}
  /\ quiet' = 0
  /\ UNCHANGED <<tvmaze, title, seasons, providers, stamper, airings, reqs>>

PublishDate ==
  /\ \E e \in Episodes, d \in (0..Horizon) \cup {NoRow} :
       tvmaze[e] # d /\ tvmaze' = [tvmaze EXCEPT ![e] = d]
  /\ quiet' = 0
  /\ UNCHANGED <<tmdb, title, seasons, providers, stamper, airings, reqs>>

(* Midnight.  No call lives from one to the next (clients time out after   *)
(* ten seconds), so it sees at most one.                                   *)
Nearer(dates) ==
  [e \in DOMAIN dates |-> IF e \in Stored(dates) /\ dates[e] > -2 THEN dates[e] - 1 ELSE dates[e]]

Aged(row) ==
  IF row = Absent THEN Absent
  ELSE [row EXCEPT !.metaAge = Older(@, MetadataTTL), !.provAge = Older(@, ProvidersTTL),
                   !.airAge = Older(@, AiringsTTL)]

Waited(ages) == [o \in Offers |-> IF ages[o] = NoRow THEN NoRow ELSE Older(ages[o], RowsBound)]

AgedCall(q) ==
  IF q = Idle THEN Idle
  ELSE [q EXCEPT !.crossed = TRUE,
                 !.got = IF q.at \in {"delete airings", "insert airings"} THEN Nearer(@)
                         ELSE IF q.at \in {"delete providers", "insert providers"} THEN Waited(@)
                         ELSE @]

Tick ==
  /\ \A r \in Requests : reqs[r] # Idle => ~reqs[r].crossed
  /\ title' = Aged(title)
  /\ providers' = Waited(providers)
  /\ tvmaze' = Nearer(tvmaze)
  /\ airings' = Nearer(airings)
  /\ reqs' = [r \in Requests |-> AgedCall(reqs[r])]
  /\ quiet' = Older(quiet, QuietBound)
  /\ UNCHANGED <<tmdb, seasons, stamper>>
-----------------------------------------------------------------------------
Init ==
  /\ tmdb \in Catalog
  /\ tvmaze \in [Episodes -> (0..Horizon) \cup {NoRow}]
  /\ title = Absent
  /\ seasons = [s \in Seasons |-> NoRow]
  /\ providers = [o \in Offers |-> NoRow]
  /\ stamper = NoRow
  /\ airings = [e \in Episodes |-> NoRow]
  /\ reqs = [r \in Requests |-> Idle]
  /\ quiet = 0

Serve(r) ==
  \/ FetchMetadata(r) \/ UpsertTitle(r) \/ DeleteSeasons(r) \/ InsertSeasons(r)
  \/ SkipProviders(r) \/ FetchProviders(r) \/ DeleteProviders(r) \/ InsertProviders(r)
  \/ LinkTitle(r) \/ LeaveAirings(r) \/ FetchEpisodes(r)
  \/ DeleteAirings(r) \/ InsertAirings(r)
  \/ Stop(r)

Next ==
  \/ \E r \in Requests : Serve(r) \/ \E g \in Regions : Begin(r, g)
  \/ Publish \/ PublishDate \/ Tick

(* Every call is over sooner or later, finished or not: it has no loop, and *)
(* its requests to TMDB and TVMaze time out.  Stop may end it anywhere, so *)
(* that is weak fairness of Stop.                                          *)
Spec == Init /\ [][Next]_vars /\ \A r \in Requests : WF_vars(Stop(r))
-----------------------------------------------------------------------------
(* The variables have their types, only a stored title has rows in the     *)
(* other tables, and a call that is past the metadata has a row to serve:  *)
(* EnsureTitle dereferences it from there on (ingest.go:115).              *)
TypeOK ==
  /\ tmdb \in Catalog /\ tvmaze \in Table(Episodes, Dates)
  /\ title \in Row \cup {Absent}
  /\ seasons \in Table(Seasons, Nat) /\ airings \in Table(Episodes, Dates)
  /\ providers \in Table(Offers, 0..(RowsBound + 1))
  /\ stamper \in Regions \cup {NoRow}
  /\ title = Absent => Stored(seasons) \cup Stored(airings) \cup Stored(providers) = {}
  /\ reqs \in [Requests -> Call \cup {Idle}]
  /\ \A r \in Requests :
       reqs[r] # Idle /\ reqs[r].at \notin {"metadata", "upsert"}
         => title # Absent /\ reqs[r].row # Absent
  /\ quiet \in 0..(QuietBound + 1)

(* A row whose metadata is within its TTL says what TMDB has said no       *)
(* earlier than the midnight before the stamp, whatever calls overlap: the *)
(* stamp is never renewed for metadata that was not.  ensureAirings writes *)
(* back the row it holds, stamp and all (ingest.go:178).                   *)
MetadataTimely ==
  title # Absent /\ title.metaAge <= MetadataTTL /\ quiet > title.metaAge + 1
    => title.meta = tmdb

(* The dates from today on, of a series whose airings are within their     *)
(* TTL, are TVMaze's of no earlier than two midnights before the stamp:    *)
(* one for the call that set it, one for a call whose rows it left         *)
(* standing (ReplaceFutureAirings, titles.go:195).                         *)
AiringsTimely ==
  title # Absent /\ title.airAge <= AiringsTTL /\ quiet > title.airAge + 2
    => /\ Future(airings) = Future(tvmaze)
       /\ \A e \in Future(airings) : airings[e] = tvmaze[e]

(* The TVMaze id, once stored, is never lost: neither to a refresh that    *)
(* skipped the lookup, nor to one that began before it (titles.go:86).     *)
LinkKept == [][title # Absent /\ title.linked => title'.linked]_title

(* What aired before yesterday is never forgotten and never moved within   *)
(* the past; it may be given a new date (titles.go:188).  The engine tells *)
(* back catalog from episodes to come by it (guide.go:346).                *)
PastAiringsKept ==
  [][\A e \in Episodes : airings[e] = -2 =>
       airings'[e] = -2 \/ (e \in Stored(airings') /\ airings'[e] >= -1)]_airings

(* What a failure between UpsertTitle and ReplaceSeasons, or two calls     *)
(* replacing the seasons at once, has left in disagreement is repaired:    *)
(* once TMDB rests and as long as refreshes go through, the seasons and    *)
(* the metadata come to be those of TMDB, and stay so.                     *)
SeasonsRepaired ==
  <>[][FALSE]_tmdb /\ []<><<\E r \in Requests : InsertSeasons(r)>>_vars
    => <>[](title # Absent /\ title.meta = tmdb /\ seasons = tmdb.seasons)

(* Where the providers' stamp is within its TTL, the rows of the region    *)
(* that was stamped are from answers no earlier than two midnights before  *)
(* the stamp: one for the call that set it, one for an overlapping call of *)
(* the region whose rows it left standing (ReplaceProviders, titles.go:150).*)
(* Of the other regions the stamp says nothing (ingest.go:116).            *)
ProvidersStamped ==
  title # Absent /\ title.provAge <= ProvidersTTL
    => /\ stamper \in Regions
       /\ \A o \in Stored(providers) : o[1] = stamper => providers[o] <= title.provAge + 2
=============================================================================
