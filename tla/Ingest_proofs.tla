--------------------------- MODULE Ingest_proofs ----------------------------
(***************************************************************************)
(* Theorems about Ingest, for any catalog, seasons, episodes, horizon,     *)
(* regions, TTLs and number of calls in flight: types, and with them that  *)
(* a call always has the row it dereferences; that no class is taken for   *)
(* fresher than it is; that the TVMaze id and what aired are kept.         *)
(***************************************************************************)
EXTENDS Ingest, TLAPS

(* A call has seen as many midnights.                                      *)
Seen(q) == IF q.crossed THEN 1 ELSE 0

(* The two tables say the same of today and later.                         *)
Agree(dates, others) ==
  Future(dates) = Future(others) /\ \A e \in Future(dates) : dates[e] = others[e]

(* What a call holds of TMDB's answer and TVMaze's is up to date, if these *)
(* have not changed since the midnight before the last one it has seen     *)
(* (or, if it has seen none, since the last).                              *)
MetaInv(r) ==
  LET q == reqs[r] IN
  /\ q.at \in {"upsert", "seasons", "insert seasons"} => q.got \in Catalog
  /\ q.at = "upsert" /\ quiet > Seen(q) => q.got = tmdb
  /\ q.row # Absent => title # Absent
  /\ q.imdb => q.row # Absent /\ (quiet > Seen(q) => q.row.meta = tmdb)

FetchedInv(r) ==
  LET q == reqs[r] IN
  /\ q.at \in {"delete airings", "insert airings"} => q.got \in Table(Episodes, Dates)
  /\ q.at = "delete airings" /\ quiet > Seen(q) => q.got = tvmaze
  /\ q.at = "insert airings" /\ quiet > Seen(q) => Agree(q.got, tvmaze)

(* Neither the rows it is going to insert nor those that it deletes are    *)
(* from before yesterday; and a row that it leaves standing is from a call *)
(* that has seen one midnight more at most.                                *)
RowsInv(r) ==
  LET q == reqs[r] IN
  q.at = "insert airings" =>
    /\ \A e \in Stored(q.got) : q.got[e] + Seen(q) >= 0
    /\ \A e \in q.doomed \cap Stored(airings) : airings[e] + Seen(q) >= 0
    /\ quiet > Seen(q) + 1 => \A e \in Future(airings) \ q.doomed : airings[e] = tvmaze[e]

(* So it is with providers, whose rows have an age: what a call is going to *)
(* insert is no older than the midnights it has seen, and a row of its     *)
(* region that it leaves standing is older by one at most.                 *)
OfferInv(r) ==
  LET q == reqs[r] IN
  /\ q.at \in {"delete providers", "insert providers"} =>
       q.got \in Table(Offers, {0, 1}) /\ \A o \in Stored(q.got) : q.got[o] <= Seen(q)
  /\ q.at = "insert providers" =>
       \A o \in Stored(providers) \ q.doomed : o[1] = q.region => providers[o] <= Seen(q) + 1

CallInv(r) == MetaInv(r) /\ FetchedInv(r) /\ RowsInv(r) /\ OfferInv(r)

CallsInv == \A r \in Requests : reqs[r] # Idle => CallInv(r)

Timely == MetadataTimely /\ ProvidersStamped /\ AiringsTimely

IInv == TypeOK /\ CallsInv /\ Timely
-----------------------------------------------------------------------------
(* Tables of dates.                                                        *)
LEMMA Numbers ==
  /\ NoRow \notin Int /\ Dates \subseteq Int /\ Horizon \in Nat
  /\ \A d \in Dates : d >= -2 /\ d <= Horizon
  /\ \A d \in Int : d >= -2 /\ d <= Horizon => d \in Dates
BY SentinelAssumption, TTLAssumption DEF Dates

LEMMA TableFacts ==
  ASSUME NEW keys, NEW values, NEW table \in Table(keys, values), NoRow \notin values
  PROVE  /\ DOMAIN table = keys /\ Stored(table) \subseteq keys
         /\ \A k \in keys : /\ k \in Stored(table) <=> table[k] # NoRow
                            /\ k \in Stored(table) <=> table[k] \in values
BY DEF Table, Stored

LEMMA DateFacts ==
  ASSUME NEW dates \in Table(Episodes, Dates)
  PROVE  /\ Future(dates) \subseteq Stored(dates) /\ Stored(dates) \subseteq Episodes
         /\ \A e \in Episodes : e \in Stored(dates) <=> dates[e] # NoRow
         /\ \A e \in Stored(dates) : dates[e] \in Int /\ dates[e] \in Dates
         /\ \A e \in Episodes : e \in Future(dates) <=> e \in Stored(dates) /\ dates[e] >= 0
<1>1. NoRow \notin Dates /\ Dates \subseteq Int
  BY Numbers
<1>2. /\ DOMAIN dates = Episodes /\ Stored(dates) \subseteq Episodes
      /\ \A e \in Episodes : /\ e \in Stored(dates) <=> dates[e] # NoRow
                             /\ e \in Stored(dates) <=> dates[e] \in Dates
  BY <1>1, TableFacts
<1>3. ASSUME NEW e \in Stored(dates)
      PROVE  dates[e] \in Int /\ dates[e] \in Dates
  <2>1. e \in Episodes
    BY <1>2
  <2>2. dates[e] \in Dates
    BY <1>2, <2>1
  <2> QED BY <1>1, <2>2
<1>4. \A e \in Episodes : e \in Future(dates) <=> e \in Stored(dates) /\ dates[e] >= 0
  BY DEF Future
<1>5. Future(dates) \subseteq Stored(dates)
  BY DEF Future
<1> QED BY <1>2, <1>3, <1>4, <1>5

LEMMA SameDate ==
  ASSUME NEW a \in Table(Episodes, Dates), NEW b \in Table(Episodes, Dates),
         NEW e \in Episodes, a[e] = b[e]
  PROVE  /\ e \in Stored(a) <=> e \in Stored(b)
         /\ e \in Future(a) <=> e \in Future(b)
         /\ e \in Stored(a) => a[e] \in Int
BY DateFacts

LEMMA NearerFacts ==
  ASSUME NEW dates \in Table(Episodes, Dates)
  PROVE  /\ Nearer(dates) \in Table(Episodes, Dates) /\ Stored(Nearer(dates)) = Stored(dates)
         /\ \A e \in Stored(dates) :
              Nearer(dates)[e] = IF dates[e] > -2 THEN dates[e] - 1 ELSE dates[e]
<1>1. DOMAIN dates = Episodes
  BY DEF Table
<1>2. ASSUME NEW e \in Episodes
      PROVE  /\ Nearer(dates)[e] \in Dates \cup {NoRow}
             /\ Nearer(dates)[e] # NoRow <=> dates[e] # NoRow
             /\ e \in Stored(dates) =>
                  Nearer(dates)[e] = IF dates[e] > -2 THEN dates[e] - 1 ELSE dates[e]
  <2>1. CASE e \in Stored(dates)
    <3>1. dates[e] \in Dates /\ dates[e] \in Int /\ dates[e] >= -2 /\ dates[e] <= Horizon
      BY <2>1, DateFacts, Numbers
    <3>2. Nearer(dates)[e] = IF dates[e] > -2 THEN dates[e] - 1 ELSE dates[e]
      BY <1>1, <2>1 DEF Nearer
    <3>3. Nearer(dates)[e] \in Int /\ Nearer(dates)[e] >= -2 /\ Nearer(dates)[e] <= Horizon
      <4>1. ASSUME NEW d \in Int, d >= -2, d <= Horizon
            PROVE  LET n == IF d > -2 THEN d - 1 ELSE d IN n \in Int /\ n >= -2 /\ n <= Horizon
        BY <4>1, TTLAssumption
      <4> QED BY <3>1, <3>2, <4>1
    <3>4. Nearer(dates)[e] \in Dates /\ Nearer(dates)[e] # NoRow
      BY <3>3, Numbers
    <3> QED BY <2>1, <3>2, <3>4, DateFacts
  <2>2. CASE e \notin Stored(dates)
    BY <1>1, <2>2, DateFacts DEF Nearer
  <2> QED BY <2>1, <2>2
<1>3. Nearer(dates) \in Table(Episodes, Dates)
  BY <1>1, <1>2 DEF Nearer, Table
<1>4. Stored(Nearer(dates)) = Stored(dates)
  BY <1>2, <1>3, DateFacts
<1> QED BY <1>2, <1>3, <1>4, DateFacts

LEMMA FutureNearer ==
  ASSUME NEW dates \in Table(Episodes, Dates)
  PROVE  \A e \in Future(Nearer(dates)) : e \in Future(dates) /\ Nearer(dates)[e] = dates[e] - 1
<1> SUFFICES ASSUME NEW e \in Future(Nearer(dates))
             PROVE  e \in Future(dates) /\ Nearer(dates)[e] = dates[e] - 1
  OBVIOUS
<1>1. e \in Stored(dates) /\ Nearer(dates)[e] >= 0
  BY NearerFacts DEF Future
<1>2. /\ Nearer(dates)[e] = IF dates[e] > -2 THEN dates[e] - 1 ELSE dates[e]
      /\ dates[e] \in Int
  BY <1>1, NearerFacts, DateFacts
<1> QED BY <1>1, <1>2 DEF Future

LEMMA AgreeNearer ==
  ASSUME NEW a \in Table(Episodes, Dates), NEW b \in Table(Episodes, Dates), Agree(a, b)
  PROVE  Agree(Nearer(a), Nearer(b))
<1>1. ASSUME NEW x \in Table(Episodes, Dates), NEW y \in Table(Episodes, Dates), Agree(x, y),
             NEW e \in Future(Nearer(x))
      PROVE  e \in Future(Nearer(y)) /\ Nearer(x)[e] = Nearer(y)[e]
  <2>1. e \in Future(x) /\ Nearer(x)[e] = x[e] - 1 /\ Nearer(x)[e] >= 0
    BY FutureNearer DEF Future
  <2>2. e \in Future(y) /\ y[e] = x[e] /\ x[e] \in Int
    BY <1>1, <2>1, DateFacts DEF Agree
  <2>3. e \in Stored(Nearer(y)) /\ Nearer(y)[e] = y[e] - 1
    BY <2>1, <2>2, NearerFacts, DateFacts
  <2> QED BY <2>1, <2>2, <2>3 DEF Future
<1>2. Agree(b, a)
  BY DEF Agree
<1> QED BY <1>1, <1>2 DEF Agree

-----------------------------------------------------------------------------
(* The calls.                                                              *)
LEMMA CallFacts ==
  ASSUME TypeOK, NEW r \in Requests, reqs[r] # Idle
  PROVE  /\ reqs[r] \in Call
         /\ reqs[r].at \notin {"metadata", "upsert"} =>
              title # Absent /\ title \in Row /\ reqs[r].row # Absent /\ reqs[r].row \in HeldRow
BY DEF TypeOK, Call

LEMMA HeldFacts ==
  ASSUME NEW row \in Row
  PROVE  Held(row) \in HeldRow /\ Held(row) # Absent /\ Held(row).meta = row.meta
<1>1. row # Absent
  BY SentinelAssumption
<1>2. Held(row) = [meta |-> row.meta, linked |-> row.linked,
                   providersDue |-> row.provAge > ProvidersTTL,
                   airingsDue |-> row.airAge > AiringsTTL]
  BY <1>1 DEF Held
<1>3. Held(row) \in HeldRow
  BY <1>2 DEF Row, HeldRow
<1> QED BY <1>2, <1>3, SentinelAssumption

LEMMA UpsertedFacts ==
  ASSUME title \in Row \cup {Absent}, NEW meta \in Catalog, NEW linked \in BOOLEAN
  PROVE  /\ Upserted(meta, linked) \in Row /\ Upserted(meta, linked) # Absent
         /\ Upserted(meta, linked).meta = meta /\ Upserted(meta, linked).metaAge = 0
         /\ title # Absent => /\ Upserted(meta, linked).airAge = title.airAge
                              /\ Upserted(meta, linked).provAge = title.provAge
                              /\ title.linked => Upserted(meta, linked).linked
         /\ title = Absent => /\ Upserted(meta, linked).airAge > AiringsTTL
                              /\ Upserted(meta, linked).provAge > ProvidersTTL
<1>1. CASE title = Absent
  <2>1. Upserted(meta, linked) =
          [meta |-> meta, linked |-> linked, metaAge |-> 0,
           provAge |-> Epoch(ProvidersTTL), airAge |-> Epoch(AiringsTTL)]
    BY <1>1 DEF Upserted
  <2> QED BY <1>1, <2>1, TTLAssumption, SentinelAssumption DEF Row, Epoch
<1>2. CASE title # Absent
  <2>1. Upserted(meta, linked) = [title EXCEPT !.meta = meta, !.linked = @ \/ linked, !.metaAge = 0]
    BY <1>2 DEF Upserted
  <2>2. title \in Row /\ title.linked \in BOOLEAN
    BY <1>2 DEF Row
  <2>3. (title.linked \/ linked) \in BOOLEAN /\ (title.linked => (title.linked \/ linked))
    BY <2>2
  <2>4. Upserted(meta, linked) \in Row
    <3>1. 0 \in 0..Epoch(MetadataTTL)
      BY TTLAssumption DEF Epoch
    <3>2. PICK either \in BOOLEAN : either = (title.linked \/ linked)
      BY <2>3
    <3>3. Upserted(meta, linked) = [title EXCEPT !.meta = meta, !.linked = either, !.metaAge = 0]
      BY <2>1, <3>2
    <3> QED BY <2>2, <3>1, <3>3 DEF Row
  <2> QED BY <1>2, <2>1, <2>2, <2>3, <2>4, SentinelAssumption DEF Row
<1> QED BY <1>1, <1>2

(* Nothing that is said of a call changes.                                 *)
LEMMA CallKept ==
  ASSUME UNCHANGED <<upstream, providers, airings>>, title # Absent => title' # Absent,
         NEW r, CallInv(r), reqs'[r] = reqs[r]
  PROVE  CallInv(r)'
BY DEF upstream, CallInv, MetaInv, FetchedInv, RowsInv, OfferInv, Agree, Future, Stored, Seen

(* One call goes on to what q is, over whatever row it has written.        *)
LEMMA GoKeeps ==
  ASSUME TypeOK, CallsInv, NEW r \in Requests, NEW q \in Call \cup {Idle}, GoTo(r, q),
         UNCHANGED <<upstream, seasons, providers, stamper, airings>>,
         title' \in Row \cup {Absent}, title # Absent => title' # Absent,
         q # Idle => CallInv(r)',
         q # Idle /\ q.at \notin {"metadata", "upsert"} => title' # Absent /\ q.row # Absent
  PROVE  TypeOK' /\ CallsInv'
<1>1. /\ reqs' = [reqs EXCEPT ![r] = q] /\ reqs \in [Requests -> Call \cup {Idle}]
      /\ UNCHANGED <<tmdb, tvmaze, quiet>>
  BY DEF GoTo, TypeOK, upstream
<1>2. reqs'[r] = q /\ \A x \in Requests \ {r} : reqs'[x] = reqs[x]
  BY <1>1
<1>3. reqs' \in [Requests -> Call \cup {Idle}]
  BY <1>1
<1>4. TypeOK'
  BY <1>1, <1>2, <1>3 DEF TypeOK
<1>5. ASSUME NEW x \in Requests, reqs'[x] # Idle
      PROVE  CallInv(x)'
  BY <1>2, <1>5, CallKept DEF CallsInv
<1> QED BY <1>4, <1>5 DEF CallsInv
-----------------------------------------------------------------------------
(* The steps of a call that write nothing but the row in titles, if that.  *)
LEMMA GoesOn ==
  ASSUME TypeOK, CallsInv, NEW r \in Requests, NEW q \in Call \cup {Idle}, GoTo(r, q),
         UNCHANGED <<upstream, title, seasons, providers, stamper, airings>>,
         q # Idle => CallInv(r)',
         q # Idle /\ q.at \notin {"metadata", "upsert"} => title # Absent /\ q.row # Absent
  PROVE  TypeOK' /\ CallsInv'
<1>1. title \in Row \cup {Absent}
  BY DEF TypeOK
<1> QED BY <1>1, GoKeeps

LEMMA Goes ==
  ASSUME TypeOK, NEW r \in Requests, NEW q, GoTo(r, q)
  PROVE  reqs'[r] = q
BY DEF TypeOK, GoTo

LEMMA ReturnKeeps ==
  ASSUME TypeOK, CallsInv, NEW r \in Requests, Return(r),
         UNCHANGED <<upstream, title, seasons, providers, stamper, airings>>
  PROVE  TypeOK' /\ CallsInv'
BY GoesOn DEF Return

LEMMA BeginKeeps ==
  ASSUME TypeOK, CallsInv, NEW r \in Requests, NEW region \in Regions, Begin(r, region)
  PROVE  TypeOK' /\ CallsInv' /\ UNCHANGED title
<1> DEFINE q == [at |-> IF title = Absent \/ title.metaAge > MetadataTTL
                       THEN "metadata" ELSE "providers",
                 region |-> region, row |-> Held(title), imdb |-> FALSE,
                 got |-> NoRow, doomed |-> {}, crossed |-> FALSE]
<1>1. GoTo(r, q) /\ UNCHANGED <<upstream, title, seasons, providers, stamper, airings>>
  BY DEF Begin
<1>2. /\ Held(title) \in HeldRow \cup {Absent}
      /\ title # Absent => Held(title) # Absent
  BY HeldFacts DEF TypeOK, Held
<1>3. q \in Call
  BY <1>2 DEF Call, Points
<1>4. q.at \notin {"metadata", "upsert"} => title # Absent /\ q.row # Absent
  BY <1>2
<1>5. q.at \in {"metadata", "providers"} /\ ~q.imdb /\ (q.row # Absent => title # Absent)
  BY DEF Held
<1> HIDE DEF q
<1>6. CallInv(r)'
  BY <1>1, <1>5, Goes DEF CallInv, MetaInv, FetchedInv, RowsInv, OfferInv
<1> QED BY <1>1, <1>3, <1>4, <1>6, GoesOn

LEMMA FetchMetadataKeeps ==
  ASSUME TypeOK, CallsInv, NEW r \in Requests, FetchMetadata(r)
  PROVE  TypeOK' /\ CallsInv' /\ UNCHANGED title
<1>1. /\ reqs[r] # Idle /\ reqs[r].at = "metadata" /\ reqs[r] \in Call /\ CallInv(r)
      /\ tmdb \in Catalog
      /\ UNCHANGED <<upstream, title, seasons, providers, stamper, airings>>
  BY CallFacts DEF FetchMetadata, At, CallsInv, TypeOK
<1>2. CASE GoTo(r, [reqs[r] EXCEPT !.at = "upsert", !.got = tmdb])
  <2>1. PICK q : q = [reqs[r] EXCEPT !.at = "upsert", !.got = tmdb]
    OBVIOUS
  <2>2. q \in Call /\ q.at = "upsert" /\ q.got = tmdb /\ q.imdb = reqs[r].imdb /\ q.row = reqs[r].row
        /\ q.crossed = reqs[r].crossed
    BY <1>1, <2>1 DEF Call, Points
  <2>3. GoTo(r, q) /\ reqs'[r] = q
    BY <1>2, <2>1, Goes
  <2>4. CallInv(r)'
    BY <1>1, <2>2, <2>3 DEF CallInv, MetaInv, FetchedInv, RowsInv, OfferInv, Seen, upstream
  <2> QED BY <1>1, <2>2, <2>3, <2>4, GoesOn
<1>3. CASE reqs[r].row # Absent /\ GoTo(r, [reqs[r] EXCEPT !.at = "providers"])
  <2>1. PICK q : q = [reqs[r] EXCEPT !.at = "providers"]
    OBVIOUS
  <2>2. q \in Call /\ q.at = "providers" /\ q.imdb = reqs[r].imdb /\ q.row = reqs[r].row
        /\ q.crossed = reqs[r].crossed
    BY <1>1, <2>1 DEF Call, Points
  <2>3. GoTo(r, q) /\ reqs'[r] = q
    BY <1>3, <2>1, Goes
  <2>4. CallInv(r)'
    BY <1>1, <2>2, <2>3 DEF CallInv, MetaInv, FetchedInv, RowsInv, OfferInv, Seen, upstream
  <2>5. title # Absent
    BY <1>1, <1>3 DEF CallInv, MetaInv
  <2> QED BY <1>1, <1>3, <2>2, <2>3, <2>4, <2>5, GoesOn
<1> QED BY <1>1, <1>2, <1>3 DEF FetchMetadata
(* Only the stamps of the row it has written are at stake then.            *)
LEMMA TimelyKept ==
  ASSUME Timely, UNCHANGED <<upstream, title, providers, stamper, airings>>
  PROVE  Timely'
BY DEF Timely, MetadataTimely, ProvidersStamped, AiringsTimely, upstream, Future, Stored

LEMMA UpsertTimely ==
  ASSUME TypeOK, Timely, NEW meta \in Catalog, NEW linked \in BOOLEAN,
         title' = Upserted(meta, linked), UNCHANGED <<upstream, providers, stamper, airings>>,
         quiet > 1 => meta = tmdb
  PROVE  Timely'
<1>1. /\ title \in Row \cup {Absent} /\ quiet \in Int /\ UNCHANGED <<tmdb, tvmaze, quiet>>
  BY TTLAssumption DEF TypeOK, upstream, QuietBound
<1>2. /\ title'.meta = meta /\ title'.metaAge = 0
      /\ title # Absent => title'.airAge = title.airAge /\ title'.provAge = title.provAge
      /\ title = Absent => title'.airAge > AiringsTTL /\ title'.provAge > ProvidersTTL
  BY <1>1, UpsertedFacts
<1>3. title' \in Row
  BY <1>1, UpsertedFacts
<1>4. MetadataTimely'
  BY <1>1, <1>2 DEF MetadataTimely
<1>5. CASE title # Absent
  BY <1>1, <1>2, <1>4, <1>5
     DEF Timely, ProvidersStamped, AiringsTimely, Future, Stored
<1>6. CASE title = Absent
  <2>1. title'.airAge \in Int /\ title'.provAge \in Int
    BY <1>3, TTLAssumption DEF Row, Epoch
  <2>2. ~(title'.airAge <= AiringsTTL) /\ ~(title'.provAge <= ProvidersTTL)
    BY <1>2, <1>6, <2>1, TTLAssumption
  <2> QED BY <1>4, <2>2 DEF Timely, ProvidersStamped, AiringsTimely
<1> QED BY <1>5, <1>6

LEMMA UpsertTitleKeeps ==
  ASSUME IInv, NEW r \in Requests, UpsertTitle(r)
  PROVE  IInv'
<1>1. /\ reqs[r] # Idle /\ reqs[r].at = "upsert" /\ reqs[r] \in Call /\ CallInv(r)
      /\ TypeOK /\ CallsInv /\ Timely /\ title \in Row \cup {Absent}
      /\ title' = Upserted(reqs[r].got, FALSE)
      /\ UNCHANGED <<upstream, seasons, providers, stamper, airings>>
  BY CallFacts DEF IInv, UpsertTitle, At, CallsInv, TypeOK
<1>2. /\ reqs[r].got \in Catalog /\ reqs[r].got.imdb \in BOOLEAN
      /\ quiet > Seen(reqs[r]) => reqs[r].got = tmdb
  BY <1>1, CatalogAssumption DEF CallInv, MetaInv
<1>3. /\ title' \in Row /\ title' # Absent /\ Held(title') \in HeldRow /\ Held(title') # Absent
      /\ Held(title').meta = reqs[r].got
  BY <1>1, <1>2, UpsertedFacts, HeldFacts
<1>4. PICK q : q = [reqs[r] EXCEPT !.at = "seasons", !.row = Held(title'), !.imdb = reqs[r].got.imdb]
  OBVIOUS
<1>5. q \in Call /\ q.at = "seasons" /\ q.got = reqs[r].got /\ q.row = Held(title')
      /\ q.crossed = reqs[r].crossed
  BY <1>1, <1>2, <1>3, <1>4 DEF Call, Points
<1>6. GoTo(r, q) /\ reqs'[r] = q
  BY <1>1, <1>4, Goes DEF UpsertTitle
<1>7. CallInv(r)'
  BY <1>1, <1>2, <1>3, <1>5, <1>6 DEF CallInv, MetaInv, FetchedInv, RowsInv, OfferInv, Seen, upstream
<1>8. TypeOK' /\ CallsInv'
  BY <1>1, <1>3, <1>5, <1>6, <1>7, GoKeeps
<1>9. quiet > 1 => reqs[r].got = tmdb
  <2>1. quiet \in Int
    BY <1>1, TTLAssumption DEF TypeOK, QuietBound
  <2> QED BY <1>2, <2>1 DEF Seen
<1>10. Timely'
  BY <1>1, <1>2, <1>9, UpsertTimely
<1> QED BY <1>8, <1>10 DEF IInv

LEMMA DeleteSeasonsKeeps ==
  ASSUME TypeOK, CallsInv, NEW r \in Requests, DeleteSeasons(r)
  PROVE  TypeOK' /\ CallsInv' /\ UNCHANGED <<upstream, title, seasons, providers, stamper, airings>>
<1>1. /\ reqs[r] # Idle /\ reqs[r].at = "seasons" /\ reqs[r] \in Call /\ CallInv(r)
      /\ title # Absent /\ reqs[r].row # Absent
      /\ UNCHANGED <<upstream, title, seasons, providers, stamper, airings>>
  BY CallFacts DEF DeleteSeasons, At, CallsInv, TypeOK
<1>2. PICK q : q = [reqs[r] EXCEPT !.at = "insert seasons", !.doomed = DoomedSeasons(r)]
  OBVIOUS
<1>3. /\ q \in Call /\ q.imdb = reqs[r].imdb /\ q.row = reqs[r].row /\ q.crossed = reqs[r].crossed
      /\ q.at = "insert seasons" /\ q.got = reqs[r].got
  <2>1. DoomedSeasons(r) \in SUBSET (Seasons \cup Episodes \cup Offers)
    <3>1. seasons \in Table(Seasons, Nat) /\ NoRow \notin Nat
      BY SentinelAssumption DEF TypeOK
    <3> QED BY <3>1, TableFacts DEF DoomedSeasons
  <2> QED BY <1>1, <1>2, <2>1 DEF Call, Points
<1>4. GoTo(r, q) /\ reqs'[r] = q
  BY <1>2, Goes DEF DeleteSeasons
<1>5. CallInv(r)'
  BY <1>1, <1>3, <1>4 DEF CallInv, MetaInv, FetchedInv, RowsInv, OfferInv, Seen, upstream
<1> QED BY <1>1, <1>3, <1>4, <1>5, GoesOn

LEMMA SkipProvidersKeeps ==
  ASSUME TypeOK, CallsInv, NEW r \in Requests, SkipProviders(r)
  PROVE  TypeOK' /\ CallsInv' /\ UNCHANGED <<upstream, title, seasons, providers, stamper, airings>>
<1>1. /\ reqs[r] # Idle /\ reqs[r].at = "providers" /\ reqs[r] \in Call /\ CallInv(r)
      /\ title # Absent /\ reqs[r].row # Absent
      /\ UNCHANGED <<upstream, title, seasons, providers, stamper, airings>>
  BY CallFacts DEF SkipProviders, At, CallsInv, TypeOK
<1>2. PICK q : q = [reqs[r] EXCEPT !.at = "airings"]
  OBVIOUS
<1>3. /\ q \in Call /\ q.imdb = reqs[r].imdb /\ q.row = reqs[r].row /\ q.crossed = reqs[r].crossed
      /\ q.at = "airings"
  BY <1>1, <1>2 DEF Call, Points
<1>4. GoTo(r, q) /\ reqs'[r] = q
  BY <1>2, Goes DEF SkipProviders
<1>5. CallInv(r)'
  BY <1>1, <1>3, <1>4 DEF CallInv, MetaInv, FetchedInv, RowsInv, OfferInv, Seen, upstream
<1> QED BY <1>1, <1>3, <1>4, <1>5, GoesOn

LEMMA FetchEpisodesKeeps ==
  ASSUME TypeOK, CallsInv, NEW r \in Requests, FetchEpisodes(r)
  PROVE  TypeOK' /\ CallsInv' /\ UNCHANGED <<upstream, title, seasons, providers, stamper, airings>>
<1>1. /\ reqs[r] # Idle /\ reqs[r].at = "airings" /\ reqs[r] \in Call /\ CallInv(r)
      /\ title # Absent /\ reqs[r].row # Absent /\ tvmaze \in Table(Episodes, Dates)
      /\ UNCHANGED <<upstream, title, seasons, providers, stamper, airings>>
  BY CallFacts DEF FetchEpisodes, At, CallsInv, TypeOK
<1>2. PICK q : q = [reqs[r] EXCEPT !.at = "delete airings", !.got = tvmaze]
  OBVIOUS
<1>3. /\ q \in Call /\ q.imdb = reqs[r].imdb /\ q.row = reqs[r].row /\ q.crossed = reqs[r].crossed
      /\ q.at = "delete airings" /\ q.got = tvmaze
  BY <1>1, <1>2 DEF Call, Points
<1>4. GoTo(r, q) /\ reqs'[r] = q
  BY <1>2, Goes DEF FetchEpisodes
<1>5. CallInv(r)'
  BY <1>1, <1>3, <1>4 DEF CallInv, MetaInv, FetchedInv, RowsInv, OfferInv, Seen, upstream
<1> QED BY <1>1, <1>3, <1>4, <1>5, GoesOn

LEMMA FetchProvidersKeeps ==
  ASSUME TypeOK, CallsInv, NEW r \in Requests, FetchProviders(r)
  PROVE  TypeOK' /\ CallsInv' /\ UNCHANGED <<upstream, title, seasons, providers, stamper, airings>>
<1>1. /\ reqs[r] # Idle /\ reqs[r].at = "providers" /\ reqs[r] \in Call /\ CallInv(r)
      /\ title # Absent /\ reqs[r].row # Absent
      /\ UNCHANGED <<upstream, title, seasons, providers, stamper, airings>>
  BY CallFacts DEF FetchProviders, At, CallsInv, TypeOK
<1>2. CASE \E listed \in SUBSET ({reqs[r].region} \X Providers) :
             GoTo(r, [reqs[r] EXCEPT !.at = "delete providers",
                        !.got = [o \in Offers |-> IF o \in listed THEN 0 ELSE NoRow]])
  <2>1. PICK listed \in SUBSET ({reqs[r].region} \X Providers) :
               GoTo(r, [reqs[r] EXCEPT !.at = "delete providers",
                          !.got = [o \in Offers |-> IF o \in listed THEN 0 ELSE NoRow]])
    BY <1>2
  <2>2. PICK got : got = [o \in Offers |-> IF o \in listed THEN 0 ELSE NoRow]
    OBVIOUS
  <2>3. got \in Table(Offers, {0, 1}) /\ \A o \in Stored(got) : got[o] = 0
    BY <2>2 DEF Table, Stored
  <2>4. PICK q : q = [reqs[r] EXCEPT !.at = "delete providers", !.got = got]
    OBVIOUS
  <2>5. /\ q \in Call /\ q.imdb = reqs[r].imdb /\ q.row = reqs[r].row /\ q.crossed = reqs[r].crossed
        /\ q.at = "delete providers" /\ q.got = got
    BY <1>1, <2>3, <2>4 DEF Call, Points
  <2>6. GoTo(r, q) /\ reqs'[r] = q
    BY <2>1, <2>2, <2>4, Goes
  <2>7. \A o \in Stored(got) : got[o] <= Seen(q)
    BY <2>3 DEF Seen
  <2>8. MetaInv(r)' /\ FetchedInv(r)' /\ RowsInv(r)'
    BY <1>1, <2>5, <2>6 DEF CallInv, MetaInv, FetchedInv, RowsInv, Seen, upstream
  <2>9. OfferInv(r)'
    BY <2>3, <2>5, <2>6, <2>7 DEF OfferInv
  <2>10. CallInv(r)'
    BY <2>8, <2>9 DEF CallInv
  <2> QED BY <1>1, <2>5, <2>6, <2>10, GoesOn
<1>3. CASE GoTo(r, [reqs[r] EXCEPT !.at = "airings"])
  <2>1. PICK q : q = [reqs[r] EXCEPT !.at = "airings"]
    OBVIOUS
  <2>2. /\ q \in Call /\ q.imdb = reqs[r].imdb /\ q.row = reqs[r].row /\ q.crossed = reqs[r].crossed
        /\ q.at = "airings"
    BY <1>1, <2>1 DEF Call, Points
  <2>3. GoTo(r, q) /\ reqs'[r] = q
    BY <1>3, <2>1, Goes
  <2>4. CallInv(r)'
    BY <1>1, <2>2, <2>3 DEF CallInv, MetaInv, FetchedInv, RowsInv, OfferInv, Seen, upstream
  <2> QED BY <1>1, <2>2, <2>3, <2>4, GoesOn
<1> QED BY <1>1, <1>2, <1>3 DEF FetchProviders

(* Nothing of its region is left standing as yet.                          *)
LEMMA DeleteProvidersKeeps ==
  ASSUME TypeOK, CallsInv, NEW r \in Requests, DeleteProviders(r)
  PROVE  TypeOK' /\ CallsInv' /\ UNCHANGED <<upstream, title, seasons, providers, stamper, airings>>
<1>1. /\ reqs[r] # Idle /\ reqs[r].at = "delete providers" /\ reqs[r] \in Call /\ CallInv(r)
      /\ title # Absent /\ reqs[r].row # Absent
      /\ UNCHANGED <<upstream, title, seasons, providers, stamper, airings>>
  BY CallFacts DEF DeleteProviders, At, CallsInv, TypeOK
<1>2. PICK q : q = [reqs[r] EXCEPT !.at = "insert providers", !.doomed = DoomedProviders(r)]
  OBVIOUS
<1>3. DoomedProviders(r) \in SUBSET Offers
  BY DEF TypeOK, DoomedProviders, Table, Stored
<1>4. /\ q \in Call /\ q.imdb = reqs[r].imdb /\ q.row = reqs[r].row /\ q.crossed = reqs[r].crossed
      /\ q.at = "insert providers" /\ q.got = reqs[r].got /\ q.region = reqs[r].region
      /\ q.doomed = DoomedProviders(r)
  BY <1>1, <1>2, <1>3 DEF Call, Points
<1>5. GoTo(r, q) /\ reqs'[r] = q
  BY <1>2, Goes DEF DeleteProviders
<1>6. MetaInv(r)' /\ FetchedInv(r)' /\ RowsInv(r)'
  BY <1>1, <1>4, <1>5 DEF CallInv, MetaInv, FetchedInv, RowsInv, Seen, upstream
<1>7. OfferInv(r)'
  <2>1. ~\E o \in Stored(providers) \ DoomedProviders(r) : o[1] = reqs[r].region
    BY DEF DoomedProviders
  <2> QED BY <1>1, <1>4, <1>5, <2>1 DEF CallInv, OfferInv, Seen
<1>8. CallInv(r)'
  BY <1>6, <1>7 DEF CallInv
<1> QED BY <1>1, <1>4, <1>5, <1>8, GoesOn

LEMMA LinkTitleKeeps ==
  ASSUME IInv, NEW r \in Requests, LinkTitle(r)
  PROVE  IInv'
<1>1. /\ reqs[r] # Idle /\ reqs[r].at = "airings" /\ reqs[r] \in Call /\ CallInv(r)
      /\ TypeOK /\ CallsInv /\ Timely
      /\ title # Absent /\ title \in Row /\ reqs[r].row \in HeldRow /\ reqs[r].imdb
      /\ title' = Upserted(reqs[r].row.meta, TRUE)
      /\ UNCHANGED <<upstream, seasons, providers, stamper, airings>>
  BY CallFacts DEF IInv, LinkTitle, MayLink, At, CallsInv, TypeOK
<1>2. /\ reqs[r].row.meta \in Catalog
      /\ quiet > Seen(reqs[r]) => reqs[r].row.meta = tmdb
  BY <1>1 DEF CallInv, MetaInv, HeldRow
<1>3. /\ title' \in Row /\ title' # Absent /\ Held(title') \in HeldRow /\ Held(title') # Absent
      /\ Held(title').meta = reqs[r].row.meta
  BY <1>1, <1>2, UpsertedFacts, HeldFacts
<1>4. PICK q : q = [reqs[r] EXCEPT !.row = Held(title')]
  OBVIOUS
<1>5. q \in Call /\ q.at = "airings" /\ q.row = Held(title') /\ q.crossed = reqs[r].crossed
  BY <1>1, <1>3, <1>4 DEF Call, Points
<1>6. GoTo(r, q) /\ reqs'[r] = q
  BY <1>1, <1>4, Goes DEF LinkTitle
<1>7. CallInv(r)'
  BY <1>1, <1>2, <1>3, <1>5, <1>6 DEF CallInv, MetaInv, FetchedInv, RowsInv, OfferInv, Seen, upstream
<1>8. TypeOK' /\ CallsInv'
  BY <1>1, <1>3, <1>5, <1>6, <1>7, GoKeeps
<1>9. quiet > 1 => reqs[r].row.meta = tmdb
  <2>1. quiet \in Int
    BY <1>1, TTLAssumption DEF TypeOK, QuietBound
  <2> QED BY <1>2, <2>1 DEF Seen
<1>10. Timely'
  BY <1>1, <1>2, <1>9, UpsertTimely
<1> QED BY <1>8, <1>10 DEF IInv

(* What airs today or later, of what TVMaze has said.                      *)
Upcoming(got) == [e \in Episodes |-> IF e \in Future(got) THEN got[e] ELSE NoRow]

LEMMA UpcomingFacts ==
  ASSUME NEW got \in Table(Episodes, Dates)
  PROVE  /\ Upcoming(got) \in Table(Episodes, Dates)
         /\ Agree(Upcoming(got), got) /\ Stored(Upcoming(got)) = Future(got)
<1>1. ASSUME NEW e \in Episodes
      PROVE  /\ Upcoming(got)[e] \in Dates \cup {NoRow}
             /\ Upcoming(got)[e] # NoRow <=> e \in Future(got)
             /\ e \in Future(got) => Upcoming(got)[e] = got[e] /\ got[e] >= 0
  BY DateFacts DEF Upcoming
<1>2. Upcoming(got) \in Table(Episodes, Dates)
  BY <1>1 DEF Upcoming, Table
<1>3. Stored(Upcoming(got)) = Future(got)
  BY <1>1, <1>2, DateFacts
<1>4. Future(Upcoming(got)) = Future(got)
  BY <1>1, <1>3, DateFacts DEF Future
<1> QED BY <1>1, <1>2, <1>3, <1>4, DateFacts DEF Agree

LEMMA DeleteAiringsKeeps ==
  ASSUME TypeOK, CallsInv, NEW r \in Requests, DeleteAirings(r)
  PROVE  TypeOK' /\ CallsInv' /\ UNCHANGED <<upstream, title, seasons, providers, stamper, airings>>
<1>1. /\ reqs[r] # Idle /\ reqs[r].at = "delete airings" /\ reqs[r] \in Call /\ CallInv(r)
      /\ title # Absent /\ reqs[r].row # Absent /\ airings \in Table(Episodes, Dates)
      /\ UNCHANGED <<upstream, title, seasons, providers, stamper, airings>>
  BY CallFacts DEF DeleteAirings, At, CallsInv, TypeOK
<1>2. reqs[r].got \in Table(Episodes, Dates) /\ (quiet > Seen(reqs[r]) => reqs[r].got = tvmaze)
  BY <1>1 DEF CallInv, FetchedInv
<1>3. PICK q : q = [reqs[r] EXCEPT !.at = "insert airings", !.doomed = OnOrAfter(airings),
                      !.got = Upcoming(reqs[r].got)]
  OBVIOUS
<1>4. Upcoming(reqs[r].got) \in Table(Episodes, Dates) /\ OnOrAfter(airings) \in SUBSET Episodes
  BY <1>1, <1>2, UpcomingFacts, DateFacts DEF OnOrAfter
<1>5. /\ q \in Call /\ q.imdb = reqs[r].imdb /\ q.row = reqs[r].row /\ q.crossed = reqs[r].crossed
      /\ q.at = "insert airings" /\ q.got = Upcoming(reqs[r].got) /\ q.doomed = Future(airings)
  BY <1>1, <1>3, <1>4 DEF Call, Points, OnOrAfter
<1>6. GoTo(r, q) /\ reqs'[r] = q
  BY <1>3, Goes DEF DeleteAirings, Upcoming
<1>7. MetaInv(r)'
  BY <1>1, <1>5, <1>6 DEF CallInv, MetaInv, Seen, upstream
<1>8. FetchedInv(r)'
  BY <1>1, <1>2, <1>4, <1>5, <1>6, UpcomingFacts DEF FetchedInv, Seen, upstream
<1>9. RowsInv(r)'
  <2>1. Seen(q) \in {0, 1}
    BY DEF Seen
  <2>2. ASSUME NEW e \in Stored(q.got)
        PROVE  q.got[e] + Seen(q) >= 0
    <3>1. e \in Future(reqs[r].got) /\ q.got[e] = reqs[r].got[e]
      <4>1. e \in Future(reqs[r].got)
        BY <1>2, <1>5, UpcomingFacts
      <4>2. e \in Episodes
        BY <1>2, <4>1, DateFacts
      <4> QED BY <1>5, <4>1, <4>2 DEF Upcoming
    <3>2. reqs[r].got[e] \in Int /\ reqs[r].got[e] >= 0
      BY <1>2, <3>1, DateFacts DEF Future
    <3> QED BY <2>1, <3>1, <3>2
  <2>3. ASSUME NEW e \in q.doomed \cap Stored(airings)
        PROVE  airings[e] + Seen(q) >= 0
    <3>1. airings[e] \in Int /\ airings[e] >= 0
      BY <1>1, <1>5, DateFacts DEF Future
    <3> QED BY <2>1, <3>1
  <2> QED BY <1>1, <1>5, <1>6, <2>2, <2>3 DEF RowsInv
<1>10. CallInv(r)'
  BY <1>5, <1>6, <1>7, <1>8, <1>9 DEF CallInv, OfferInv
<1> QED BY <1>1, <1>5, <1>6, <1>10, GoesOn
-----------------------------------------------------------------------------
(* The steps that replace rows, under the other calls that are replacing   *)
(* them.                                                                   *)
LEMMA ReplacedFacts ==
  ASSUME NEW keys, NEW values, NoRow \notin values,
         NEW table \in Table(keys, values), NEW rows \in Table(keys, values), NEW doomed
  PROVE  /\ Replaced(table, doomed, rows) \in Table(keys, values)
         /\ \A k \in keys : /\ k \in Stored(rows) => Replaced(table, doomed, rows)[k] = rows[k]
                            /\ k \notin Stored(rows) /\ k \in doomed
                                 => Replaced(table, doomed, rows)[k] = NoRow
                            /\ k \notin Stored(rows) /\ k \notin doomed
                                 => Replaced(table, doomed, rows)[k] = table[k]
<1>1. DOMAIN table = keys /\ DOMAIN rows = keys
  BY DEF Table
<1>2. ASSUME NEW k \in keys
      PROVE  /\ Replaced(table, doomed, rows)[k] = IF k \in Stored(rows) THEN rows[k]
                                                  ELSE IF k \in doomed THEN NoRow ELSE table[k]
             /\ Replaced(table, doomed, rows)[k] \in values \cup {NoRow}
  BY <1>1 DEF Replaced, Table, Stored
<1>3. Replaced(table, doomed, rows) \in Table(keys, values)
  BY <1>1, <1>2 DEF Replaced, Table
<1> QED BY <1>2, <1>3

(* Another call is as it was, but that it does not see the new rows.       *)
SameCall(x) ==
  /\ reqs'[x] \in Call /\ reqs'[x] # Idle
  /\ reqs'[x].at = reqs[x].at /\ reqs'[x].row = reqs[x].row /\ reqs'[x].imdb = reqs[x].imdb
  /\ reqs'[x].region = reqs[x].region /\ reqs'[x].got = reqs[x].got /\ reqs'[x].crossed = reqs[x].crossed

LEMMA InsertedFacts ==
  ASSUME TypeOK, NEW r \in Requests, NEW after \in Call \cup {Idle}, NEW rows,
         reqs' = Inserted(r, rows, after)
  PROVE  /\ reqs' \in [Requests -> Call \cup {Idle}] /\ reqs'[r] = after
         /\ \A x \in Requests \ {r} :
              /\ reqs'[x] = Idle <=> reqs[x] = Idle
              /\ reqs[x] # Idle =>
                   /\ SameCall(x)
                   /\ reqs'[x].doomed = IF reqs[x].at = reqs[r].at
                                        THEN reqs[x].doomed \ Stored(rows) ELSE reqs[x].doomed
<1>1. reqs'[r] = after
  BY DEF Inserted
<1>2. ASSUME NEW x \in Requests \ {r}, reqs[x] = Idle
      PROVE  reqs'[x] = Idle
  BY <1>2 DEF Inserted, At
<1>3. ASSUME NEW x \in Requests \ {r}, reqs[x] # Idle
      PROVE  /\ SameCall(x)
             /\ reqs'[x].doomed = IF reqs[x].at = reqs[r].at
                                  THEN reqs[x].doomed \ Stored(rows) ELSE reqs[x].doomed
  <2>1. reqs[x] \in Call
    BY <1>3 DEF TypeOK
  <2>2. CASE reqs[x].at = reqs[r].at
    <3>1. reqs'[x] = [reqs[x] EXCEPT !.doomed = reqs[x].doomed \ Stored(rows)]
      BY <1>3, <2>2 DEF Inserted, At
    <3>2. reqs'[x] \in Call
      BY <2>1, <3>1 DEF Call
    <3>3. reqs'[x] # Idle
      BY <3>2, SentinelAssumption
    <3> QED BY <2>1, <2>2, <3>1, <3>2, <3>3 DEF Call, SameCall
  <2>3. CASE reqs[x].at # reqs[r].at
    <3>1. reqs'[x] = reqs[x]
      BY <1>3, <2>3 DEF Inserted, At
    <3> QED BY <1>3, <2>1, <2>3, <3>1 DEF SameCall
  <2> QED BY <2>2, <2>3
<1>4. reqs' \in [Requests -> Call \cup {Idle}]
  <2>1. \A x \in Requests : reqs'[x] \in Call \cup {Idle}
    BY <1>1, <1>2, <1>3 DEF SameCall
  <2>2. reqs' = [x \in Requests |-> reqs'[x]]
    BY DEF Inserted
  <2> QED BY <2>1, <2>2
<1> QED BY <1>1, <1>2, <1>3, <1>4 DEF SameCall

LEMMA InsertSeasonsKeeps ==
  ASSUME TypeOK, CallsInv, NEW r \in Requests, InsertSeasons(r)
  PROVE  TypeOK' /\ CallsInv' /\ UNCHANGED <<upstream, title, providers, stamper, airings>>
<1>1. /\ reqs[r] # Idle /\ reqs[r].at = "insert seasons" /\ reqs[r] \in Call /\ CallInv(r)
      /\ title # Absent /\ reqs[r].row # Absent /\ seasons \in Table(Seasons, Nat)
      /\ UNCHANGED <<upstream, title, providers, stamper, airings>>
  BY CallFacts DEF InsertSeasons, At, CallsInv, TypeOK
<1>2. PICK q : q = [reqs[r] EXCEPT !.at = "providers", !.got = NoRow, !.doomed = {}]
  OBVIOUS
<1>3. PICK rows : rows = reqs[r].got.seasons
  OBVIOUS
<1>4. rows \in Table(Seasons, Nat) /\ NoRow \notin Nat
  <2>1. reqs[r].got \in Catalog
    BY <1>1 DEF CallInv, MetaInv
  <2>2. rows \in Table(Seasons, Nat)
    BY <1>3, <2>1, CatalogAssumption
  <2> QED BY <2>2, SentinelAssumption
<1>5. seasons' = Replaced(seasons, reqs[r].doomed, rows) /\ reqs' = Inserted(r, rows, q)
  BY <1>2, <1>3 DEF InsertSeasons
<1>6. seasons' \in Table(Seasons, Nat)
  BY <1>1, <1>4, <1>5, ReplacedFacts
<1>7. /\ q \in Call /\ q.imdb = reqs[r].imdb /\ q.row = reqs[r].row /\ q.crossed = reqs[r].crossed
      /\ q.at = "providers" /\ q # Idle
  BY <1>1, <1>2, SentinelAssumption, ZenonT(40) DEF Call, Points
<1>8. /\ reqs' \in [Requests -> Call \cup {Idle}] /\ reqs'[r] = q
      /\ \A x \in Requests \ {r} :
           /\ reqs'[x] = Idle <=> reqs[x] = Idle
           /\ reqs[x] # Idle =>
                /\ SameCall(x)
                /\ reqs'[x].doomed = IF reqs[x].at = reqs[r].at
                                     THEN reqs[x].doomed \ Stored(rows) ELSE reqs[x].doomed
  BY <1>5, <1>7, InsertedFacts, ZenonT(40)
<1>9. TypeOK'
  BY <1>1, <1>6, <1>7, <1>8 DEF TypeOK, SameCall, upstream
<1>10. CallInv(r)'
  BY <1>1, <1>7, <1>8 DEF CallInv, MetaInv, FetchedInv, RowsInv, OfferInv, Seen, upstream
<1>11. ASSUME NEW x \in Requests \ {r}, reqs'[x] # Idle
       PROVE  CallInv(x)'
  <2>1. reqs[x] # Idle /\ SameCall(x) /\ CallInv(x)
    BY <1>8, <1>11 DEF CallsInv
  <2>2. MetaInv(x)' /\ FetchedInv(x)'
    BY <1>1, <2>1 DEF CallInv, MetaInv, FetchedInv, Seen, SameCall, upstream
  <2>3. reqs[x].at = "insert airings" => reqs'[x].doomed = reqs[x].doomed
    BY <1>1, <1>8, <2>1
  <2>4. RowsInv(x)'
    BY <1>1, <2>1, <2>3 DEF CallInv, RowsInv, Seen, SameCall, upstream
  <2>5. reqs[x].at = "insert providers" => reqs'[x].doomed = reqs[x].doomed
    BY <1>1, <1>8, <2>1
  <2>6. OfferInv(x)'
    BY <1>1, <2>1, <2>5 DEF CallInv, OfferInv, Seen, SameCall
  <2> QED BY <2>2, <2>4, <2>6 DEF CallInv
<1> QED BY <1>1, <1>9, <1>10, <1>11 DEF CallsInv

(* What the transaction makes of the rows of title_providers.              *)
LEMMA UnopposedFacts ==
  ASSUME NEW doomed, NEW got \in Table(Offers, {0, 1}), \A o \in Stored(got) : got[o] <= 1
  PROVE  /\ Unopposed(providers, doomed, got) \in Table(Offers, {0, 1})
         /\ \A o \in Stored(Unopposed(providers, doomed, got)) :
              o \in Offers /\ Unopposed(providers, doomed, got)[o] \in {0, 1}
<1>1. \A o \in Offers : Unopposed(providers, doomed, got)[o] \in {0, 1} \cup {NoRow}
  BY DEF Unopposed, Table
<1>2. Unopposed(providers, doomed, got) \in Table(Offers, {0, 1})
  BY <1>1 DEF Unopposed, Table
<1>3. NoRow \notin {0, 1}
  BY SentinelAssumption
<1> QED BY <1>2, <1>3, TableFacts

LEMMA InsertProvidersFacts ==
  ASSUME IInv, NEW r \in Requests, InsertProviders(r)
  PROVE  /\ reqs[r] # Idle /\ reqs[r].at = "insert providers" /\ CallInv(r) /\ reqs[r] \in Call
         /\ title # Absent /\ title \in Row /\ reqs[r].row # Absent
         /\ title' = [title EXCEPT !.provAge = 0] /\ stamper' = reqs[r].region
         /\ UNCHANGED <<tmdb, tvmaze, quiet, seasons, airings>>
         /\ providers' \in Table(Offers, 0..(RowsBound + 1))
         /\ \E rows \in Table(Offers, {0, 1}) :
              /\ reqs' = Inserted(r, rows, [reqs[r] EXCEPT !.at = "airings", !.got = NoRow, !.doomed = {}])
              /\ \A o \in Stored(providers') :
                   \/ o \in Stored(rows) /\ providers'[o] \in {0, 1}
                   \/ o \notin Stored(rows) /\ o \in Stored(providers) \ reqs[r].doomed
                        /\ providers'[o] = providers[o]
<1>1. /\ reqs[r] # Idle /\ reqs[r].at = "insert providers" /\ CallInv(r) /\ reqs[r] \in Call
      /\ title # Absent /\ title \in Row /\ reqs[r].row # Absent
      /\ title' = [title EXCEPT !.provAge = 0] /\ stamper' = reqs[r].region
      /\ UNCHANGED <<tmdb, tvmaze, quiet, seasons, airings>>
      /\ providers \in Table(Offers, 0..(RowsBound + 1))
  BY CallFacts DEF IInv, InsertProviders, At, CallsInv, TypeOK, upstream
<1>2. reqs[r].got \in Table(Offers, {0, 1})
  BY <1>1 DEF CallInv, OfferInv
<1>3. PICK rows : rows = Unopposed(providers, reqs[r].doomed, reqs[r].got)
  OBVIOUS
<1>4. rows \in Table(Offers, {0, 1}) /\ \A o \in Stored(rows) : o \in Offers /\ rows[o] \in {0, 1}
  <2>1. NoRow \notin {0, 1}
    BY SentinelAssumption
  <2>2. \A o \in Stored(reqs[r].got) : reqs[r].got[o] <= 1
    BY <1>2, <2>1, TableFacts
  <2> QED BY <1>2, <1>3, <2>2, UnopposedFacts
<1>5. /\ providers' = Replaced(providers, reqs[r].doomed, rows)
      /\ reqs' = Inserted(r, rows, [reqs[r] EXCEPT !.at = "airings", !.got = NoRow, !.doomed = {}])
  BY <1>3 DEF InsertProviders
<1>6. rows \in Table(Offers, 0..(RowsBound + 1)) /\ NoRow \notin 0..(RowsBound + 1)
  <2>1. {0, 1} \subseteq 0..(RowsBound + 1)
    BY TTLAssumption DEF RowsBound
  <2> QED BY <1>4, <2>1, SentinelAssumption DEF Table
<1>7. /\ providers' \in Table(Offers, 0..(RowsBound + 1))
      /\ \A o \in Offers :
           /\ o \in Stored(rows) => providers'[o] = rows[o]
           /\ o \notin Stored(rows) /\ o \in reqs[r].doomed => providers'[o] = NoRow
           /\ o \notin Stored(rows) /\ o \notin reqs[r].doomed => providers'[o] = providers[o]
  <2>1. providers \in Table(Offers, 0..(RowsBound + 1))
    BY <1>1
  <2>2. PICK doomed : doomed = reqs[r].doomed
    OBVIOUS
  <2>3. PICK made : made = Replaced(providers, doomed, rows)
    OBVIOUS
  <2>4. /\ made \in Table(Offers, 0..(RowsBound + 1))
        /\ \A o \in Offers :
             /\ o \in Stored(rows) => made[o] = rows[o]
             /\ o \notin Stored(rows) /\ o \in doomed => made[o] = NoRow
             /\ o \notin Stored(rows) /\ o \notin doomed => made[o] = providers[o]
    <3>1. PICK values : values = 0..(RowsBound + 1)
      OBVIOUS
    <3>2. NoRow \notin values /\ providers \in Table(Offers, values) /\ rows \in Table(Offers, values)
      BY <1>6, <2>1, <3>1
    <3>3. /\ made \in Table(Offers, values)
          /\ \A o \in Offers :
               /\ o \in Stored(rows) => made[o] = rows[o]
               /\ o \notin Stored(rows) /\ o \in doomed => made[o] = NoRow
               /\ o \notin Stored(rows) /\ o \notin doomed => made[o] = providers[o]
      BY ONLY <2>3, <3>2, ReplacedFacts
    <3> QED BY ONLY <3>1, <3>3
  <2>5. providers' = made
    BY <1>5, <2>2, <2>3
  <2> QED BY ONLY <2>2, <2>4, <2>5
<1>8. ASSUME NEW o \in Stored(providers')
      PROVE  \/ o \in Stored(rows) /\ providers'[o] \in {0, 1}
             \/ o \notin Stored(rows) /\ o \in Stored(providers) \ reqs[r].doomed
                  /\ providers'[o] = providers[o]
  <2>1. o \in Offers /\ providers'[o] # NoRow
    BY <1>7 DEF Stored, Table
  <2>2. CASE o \in Stored(rows)
    BY <1>4, <1>7, <2>1, <2>2
  <2>3. CASE o \notin Stored(rows)
    <3>1. o \notin reqs[r].doomed /\ providers'[o] = providers[o]
      BY ONLY <1>7, <2>1, <2>3
    <3>2. o \in Stored(providers)
      BY <1>1, <2>1, <3>1 DEF Stored, Table
    <3> QED BY <2>3, <3>1, <3>2
  <2> QED BY <2>2, <2>3
<1> QED BY <1>1, <1>4, <1>5, <1>7, <1>8

(* The rows of the region are those of the call, or left standing by it.   *)
LEMMA InsertProvidersTimely ==
  ASSUME IInv, NEW r \in Requests, InsertProviders(r)
  PROVE  Timely'
<1>1. /\ title'.meta = title.meta /\ title'.metaAge = title.metaAge
      /\ title'.airAge = title.airAge /\ title'.provAge = 0
      /\ UNCHANGED <<tmdb, tvmaze, quiet, airings>> /\ title # Absent
  BY InsertProvidersFacts DEF Row
<1>2. MetadataTimely' /\ AiringsTimely'
  BY <1>1 DEF IInv, Timely, MetadataTimely, AiringsTimely, Future, Stored
<1>3. stamper' \in Regions
  BY InsertProvidersFacts DEF Call
<1>4. ASSUME NEW o \in Stored(providers'), o[1] = stamper'
      PROVE  providers'[o] <= 2
  <2>1. CASE providers'[o] \in {0, 1}
    BY <2>1
  <2>2. CASE o \in Stored(providers) \ reqs[r].doomed /\ providers'[o] = providers[o]
    <3>1. /\ reqs[r].at = "insert providers" /\ CallInv(r) /\ o[1] = reqs[r].region
          /\ providers \in Table(Offers, 0..(RowsBound + 1))
      BY <1>4, InsertProvidersFacts DEF IInv, TypeOK
    <3>2. providers[o] <= Seen(reqs[r]) + 1
      BY <2>2, <3>1 DEF CallInv, OfferInv
    <3>3. providers[o] \in Int
      <4>1. o \in Offers /\ providers[o] # NoRow
        BY <2>2, <3>1 DEF Stored, Table
      <4>2. providers[o] \in 0..(RowsBound + 1)
        BY ONLY <3>1, <4>1 DEF Table
      <4> QED BY <4>2
    <3>4. PICK n \in Int : n = providers[o]
      BY <3>3
    <3>5. Seen(reqs[r]) \in {0, 1} /\ n <= Seen(reqs[r]) + 1
      BY <3>2, <3>4 DEF Seen
    <3>6. n <= 2
      BY ONLY <3>5, n \in Int
    <3> QED BY <2>2, <3>4, <3>6
  <2> QED BY <2>1, <2>2, InsertProvidersFacts
<1>5. ProvidersStamped'
  BY <1>1, <1>3, <1>4 DEF ProvidersStamped
<1> QED BY <1>2, <1>5 DEF Timely

LEMMA InsertProvidersKeeps ==
  ASSUME IInv, NEW r \in Requests, InsertProviders(r)
  PROVE  IInv'
<1>1. /\ reqs[r] # Idle /\ reqs[r].at = "insert providers" /\ CallInv(r) /\ reqs[r] \in Call
      /\ title # Absent /\ title \in Row /\ reqs[r].row # Absent
      /\ title' = [title EXCEPT !.provAge = 0] /\ stamper' = reqs[r].region
      /\ UNCHANGED <<tmdb, tvmaze, quiet, seasons, airings>>
      /\ providers' \in Table(Offers, 0..(RowsBound + 1))
  BY InsertProvidersFacts
<1>2. PICK q : q = [reqs[r] EXCEPT !.at = "airings", !.got = NoRow, !.doomed = {}]
  OBVIOUS
<1>3. PICK rows \in Table(Offers, {0, 1}) :
        /\ reqs' = Inserted(r, rows, q)
        /\ \A o \in Stored(providers') :
             \/ o \in Stored(rows) /\ providers'[o] \in {0, 1}
             \/ o \notin Stored(rows) /\ o \in Stored(providers) \ reqs[r].doomed
                  /\ providers'[o] = providers[o]
  BY <1>2, InsertProvidersFacts
<1>4. /\ q \in Call /\ q.imdb = reqs[r].imdb /\ q.row = reqs[r].row /\ q.crossed = reqs[r].crossed
      /\ q.at = "airings" /\ q # Idle
  BY <1>1, <1>2, SentinelAssumption, ZenonT(40) DEF Call, Points
<1>5. /\ reqs' \in [Requests -> Call \cup {Idle}] /\ reqs'[r] = q
      /\ \A x \in Requests \ {r} :
           /\ reqs'[x] = Idle <=> reqs[x] = Idle
           /\ reqs[x] # Idle =>
                /\ SameCall(x)
                /\ reqs'[x].doomed = IF reqs[x].at = reqs[r].at
                                     THEN reqs[x].doomed \ Stored(rows) ELSE reqs[x].doomed
  <2>1. TypeOK /\ q \in Call \cup {Idle} /\ reqs' = Inserted(r, rows, q)
    BY <1>3, <1>4 DEF IInv
  <2> QED BY <2>1, InsertedFacts
<1>6. title' \in Row /\ title' # Absent
  <2>1. 0 \in 0..Epoch(ProvidersTTL)
    BY TTLAssumption DEF Epoch
  <2>2. title' \in Row
    BY <1>1, <2>1 DEF Row
  <2> QED BY <2>2, SentinelAssumption
<1>7. TypeOK'
  <2>1. \A x \in Requests : reqs'[x] # Idle /\ reqs'[x].at \notin {"metadata", "upsert"} =>
          reqs'[x].row # Absent
    BY <1>1, <1>4, <1>5 DEF IInv, TypeOK, SameCall
  <2>2. stamper' \in Regions
    BY <1>1 DEF Call
  <2> QED BY <1>1, <1>5, <1>6, <2>1, <2>2 DEF IInv, TypeOK
<1>8. CallInv(r)'
  BY <1>1, <1>4, <1>5, <1>6 DEF CallInv, MetaInv, FetchedInv, RowsInv, OfferInv, Seen
<1>9. ASSUME NEW x \in Requests \ {r}, reqs'[x] # Idle
      PROVE  CallInv(x)'
  <2>1. reqs[x] # Idle /\ SameCall(x) /\ CallInv(x)
    BY <1>5, <1>9 DEF IInv, CallsInv
  <2>2. MetaInv(x)' /\ FetchedInv(x)'
    BY <1>1, <1>6, <2>1 DEF CallInv, MetaInv, FetchedInv, Seen, SameCall
  <2>3. reqs[x].at = "insert airings" => reqs'[x].doomed = reqs[x].doomed
    BY <1>1, <1>5, <2>1
  <2>4. RowsInv(x)'
    BY <1>1, <2>1, <2>3 DEF CallInv, RowsInv, Seen, SameCall
  <2>5. ASSUME reqs[x].at = "insert providers", NEW o \in Stored(providers') \ reqs'[x].doomed,
               o[1] = reqs[x].region
        PROVE  providers'[o] <= Seen(reqs[x]) + 1
    <3>1. CASE providers'[o] \in {0, 1}
      BY <3>1 DEF Seen
    <3>2. CASE o \notin Stored(rows) /\ o \in Stored(providers) /\ providers'[o] = providers[o]
      <4>1. o \notin reqs[x].doomed
        BY <1>1, <1>5, <2>1, <2>5, <3>2
      <4> QED BY <2>1, <2>5, <3>2, <4>1 DEF CallInv, OfferInv
    <3> QED BY <1>3, <3>1, <3>2
  <2>6. OfferInv(x)'
    BY <2>1, <2>5 DEF CallInv, OfferInv, Seen, SameCall
  <2> QED BY <2>2, <2>4, <2>6 DEF CallInv
<1>10. Timely'
  BY InsertProvidersTimely
<1> QED BY <1>7, <1>8, <1>9, <1>10 DEF IInv, CallsInv

(* What the transaction makes of the rows of a call's series.              *)
Overwritten(r) ==
  \A e \in Episodes :
    /\ e \in Stored(reqs[r].got) => airings'[e] = reqs[r].got[e]
    /\ e \notin Stored(reqs[r].got) /\ e \in reqs[r].doomed => airings'[e] = NoRow
    /\ e \notin Stored(reqs[r].got) /\ e \notin reqs[r].doomed => airings'[e] = airings[e]

Tables(r) ==
  /\ reqs[r].got \in Table(Episodes, Dates) /\ tvmaze \in Table(Episodes, Dates)
  /\ airings \in Table(Episodes, Dates) /\ airings' \in Table(Episodes, Dates)

LEMMA InsertAiringsFacts ==
  ASSUME IInv, NEW r \in Requests, InsertAirings(r)
  PROVE  /\ reqs[r] # Idle /\ reqs[r].at = "insert airings" /\ CallInv(r)
         /\ title # Absent /\ title \in Row /\ title' = [title EXCEPT !.airAge = 0]
         /\ UNCHANGED <<tmdb, tvmaze, quiet, seasons, providers, stamper>>
         /\ quiet \in Int /\ Tables(r) /\ Overwritten(r)
<1>1. /\ reqs[r] # Idle /\ reqs[r].at = "insert airings" /\ CallInv(r)
      /\ title # Absent /\ title \in Row /\ airings \in Table(Episodes, Dates)
      /\ tvmaze \in Table(Episodes, Dates)
      /\ UNCHANGED <<tmdb, tvmaze, quiet, seasons, providers, stamper>>
      /\ title' = [title EXCEPT !.airAge = 0]
      /\ airings' = Replaced(airings, reqs[r].doomed, reqs[r].got)
  BY CallFacts DEF IInv, InsertAirings, At, CallsInv, TypeOK, upstream
<1>2. reqs[r].got \in Table(Episodes, Dates)
  BY <1>1 DEF CallInv, FetchedInv
<1>3. NoRow \notin Dates
  BY Numbers
<1>4. airings' \in Table(Episodes, Dates)
  BY <1>1, <1>2, <1>3, ReplacedFacts
<1>5. Overwritten(r)
  <2> SUFFICES ASSUME NEW e \in Episodes
               PROVE  /\ e \in Stored(reqs[r].got) => airings'[e] = reqs[r].got[e]
                      /\ e \notin Stored(reqs[r].got) /\ e \in reqs[r].doomed
                           => airings'[e] = NoRow
                      /\ e \notin Stored(reqs[r].got) /\ e \notin reqs[r].doomed
                           => airings'[e] = airings[e]
    BY DEF Overwritten
  <2>1. airings \in Table(Episodes, Dates)
    BY <1>1
  <2>2. airings' = Replaced(airings, reqs[r].doomed, reqs[r].got)
    BY <1>1
  <2> QED BY ONLY <1>2, <1>3, <2>1, <2>2, ReplacedFacts
<1>6. quiet \in Int
  BY TTLAssumption DEF IInv, TypeOK, QuietBound
<1>7. Tables(r)
  BY <1>1, <1>2, <1>4 DEF Tables
<1> QED BY <1>1, <1>5, <1>6, <1>7

LEMMA SeenIsOne == \A q : Seen(q) \in {0, 1}
BY DEF Seen

LEMMA InsertAiringsTimely ==
  ASSUME IInv, NEW r \in Requests, InsertAirings(r)
  PROVE  Timely'
<1>1. /\ title'.meta = title.meta /\ title'.metaAge = title.metaAge
      /\ title'.provAge = title.provAge /\ title'.airAge = 0
      /\ UNCHANGED <<tmdb, tvmaze, quiet, providers, stamper>> /\ quiet \in Int
      /\ title # Absent
  BY InsertAiringsFacts DEF Row
<1>2. MetadataTimely' /\ ProvidersStamped'
  BY <1>1 DEF IInv, Timely, MetadataTimely, ProvidersStamped
<1>3. ASSUME quiet > 2
      PROVE  Agree(airings', tvmaze)
  <2>1. quiet > Seen(reqs[r]) + 1 /\ quiet > Seen(reqs[r])
    BY <1>1, <1>3, SeenIsOne
  <2>2. /\ Agree(reqs[r].got, tvmaze)
        /\ \A e \in Future(airings) \ reqs[r].doomed : airings[e] = tvmaze[e]
    <3>1. reqs[r].at = "insert airings" /\ CallInv(r)
      BY InsertAiringsFacts
    <3> QED BY <2>1, <3>1 DEF CallInv, FetchedInv, RowsInv, OfferInv
  <2>3. Tables(r)
    BY InsertAiringsFacts
  <2>4. Overwritten(r)
    BY InsertAiringsFacts
  <2>5. ASSUME NEW e \in Episodes
        PROVE  /\ e \in Future(airings') => airings'[e] = tvmaze[e]
               /\ e \in Future(airings') <=> e \in Future(tvmaze)
    <3>1. CASE e \in Stored(reqs[r].got)
      <4>1. airings'[e] = reqs[r].got[e]
        BY <2>4, <3>1 DEF Overwritten
      <4>2. e \in Future(airings') <=> e \in Future(reqs[r].got)
        BY <2>3, <4>1, SameDate DEF Tables
      <4> QED BY <2>2, <4>1, <4>2 DEF Agree
    <3>2. CASE e \notin Stored(reqs[r].got)
      <4>1. e \notin Future(tvmaze)
        BY <2>2, <3>2 DEF Agree, Future
      <4>2. CASE e \in reqs[r].doomed
        <5>1. airings'[e] = NoRow
          BY <2>4, <3>2, <4>2 DEF Overwritten
        <5>2. e \notin Future(airings')
          BY <2>3, <5>1, DateFacts DEF Tables
        <5> QED BY <4>1, <5>2
      <4>3. CASE e \notin reqs[r].doomed
        <5>1. airings'[e] = airings[e]
          BY <2>4, <3>2, <4>3 DEF Overwritten
        <5>2. e \in Future(airings') => e \in Future(airings) /\ airings[e] = tvmaze[e]
          BY <2>2, <2>3, <4>3, <5>1, SameDate DEF Tables
        <5>3. e \in Future(airings') => e \in Future(tvmaze)
          BY <2>3, <5>2, SameDate DEF Tables
        <5> QED BY <4>1, <5>3
      <4> QED BY <4>2, <4>3
    <3> QED BY <3>1, <3>2
  <2>6. Future(airings') \subseteq Episodes /\ Future(tvmaze) \subseteq Episodes
    BY <2>3, DateFacts DEF Tables
  <2> QED BY <2>5, <2>6 DEF Agree
<1>4. AiringsTimely'
  BY <1>1, <1>3 DEF AiringsTimely, Agree, Future, Stored
<1> QED BY <1>2, <1>4 DEF Timely

(* Another call that is replacing the rows.                                *)
LEMMA OtherCallsRows ==
  ASSUME IInv, NEW r \in Requests, InsertAirings(r), NEW x \in Requests, CallInv(x),
         reqs[x].at = "insert airings", NEW doomed,
         doomed = reqs[x].doomed \ Stored(reqs[r].got)
  PROVE  /\ \A e \in doomed \cap Stored(airings') : airings'[e] + Seen(reqs[x]) >= 0
         /\ quiet > Seen(reqs[x]) + 1 => \A e \in Future(airings') \ doomed : airings'[e] = tvmaze[e]
<1>1. /\ \A e \in reqs[x].doomed \cap Stored(airings) : airings[e] + Seen(reqs[x]) >= 0
      /\ quiet > Seen(reqs[x]) + 1 =>
           \A e \in Future(airings) \ reqs[x].doomed : airings[e] = tvmaze[e]
  BY DEF CallInv, RowsInv
<1>2. Tables(r)
  BY InsertAiringsFacts
<1>3. Overwritten(r)
  BY InsertAiringsFacts
<1>4. ASSUME NEW e \in doomed \cap Stored(airings')
      PROVE  airings'[e] + Seen(reqs[x]) >= 0
  <2>1. e \in Episodes /\ airings'[e] # NoRow
    BY <1>2, DateFacts DEF Tables
  <2>2. airings'[e] = airings[e]
    BY <1>3, <2>1 DEF Overwritten
  <2>3. e \in Stored(airings)
    BY <1>2, <2>1, <2>2, SameDate DEF Tables
  <2> QED BY <1>1, <2>2, <2>3
<1>5. ASSUME quiet > Seen(reqs[x]) + 1, NEW e \in Future(airings') \ doomed
      PROVE  airings'[e] = tvmaze[e]
  <2>1. e \in Episodes
    BY <1>2, DateFacts DEF Tables
  <2>2. CASE e \in Stored(reqs[r].got)
    <3>1. airings'[e] = reqs[r].got[e]
      BY <1>3, <2>1, <2>2 DEF Overwritten
    <3>2. e \in Future(reqs[r].got)
      BY <1>2, <2>1, <3>1, SameDate DEF Tables
    <3>3. quiet > Seen(reqs[r])
      <4>1. quiet \in Int
        BY InsertAiringsFacts
      <4>2. Seen(reqs[r]) \in {0, 1} /\ Seen(reqs[x]) \in {0, 1}
        BY SeenIsOne
      <4>3. quiet > Seen(reqs[x]) + 1
        BY <1>5
      <4> QED BY ONLY <4>1, <4>2, <4>3
    <3>4. Agree(reqs[r].got, tvmaze)
      BY <3>3, InsertAiringsFacts DEF CallInv, FetchedInv
    <3> QED BY <3>1, <3>2, <3>4 DEF Agree
  <2>3. CASE e \notin Stored(reqs[r].got)
    <3>1. e \notin reqs[x].doomed
      BY <2>3
    <3>2. airings'[e] = airings[e] \/ airings'[e] = NoRow
      BY <1>3, <2>1, <2>3 DEF Overwritten
    <3>3. airings'[e] = airings[e]
      BY <1>2, <2>1, <3>2, DateFacts DEF Tables
    <3>4. e \in Future(airings)
      BY <1>2, <2>1, <3>3, SameDate DEF Tables
    <3> QED BY <1>1, <1>5, <3>1, <3>3, <3>4
  <2> QED BY <2>2, <2>3
<1> QED BY <1>4, <1>5

LEMMA InsertAiringsKeeps ==
  ASSUME IInv, NEW r \in Requests, InsertAirings(r)
  PROVE  IInv'
<1>1. PICK rows : rows = reqs[r].got
  OBVIOUS
<1>2. reqs' = Inserted(r, rows, Idle) /\ TypeOK /\ CallsInv
  BY <1>1 DEF InsertAirings, IInv
<1>3. /\ reqs' \in [Requests -> Call \cup {Idle}] /\ reqs'[r] = Idle
      /\ \A x \in Requests \ {r} :
           /\ reqs'[x] = Idle <=> reqs[x] = Idle
           /\ reqs[x] # Idle =>
                /\ SameCall(x)
                /\ reqs'[x].doomed = IF reqs[x].at = reqs[r].at
                                     THEN reqs[x].doomed \ Stored(rows) ELSE reqs[x].doomed
  BY <1>2, InsertedFacts
<1>4. /\ title \in Row /\ title # Absent /\ title' = [title EXCEPT !.airAge = 0]
      /\ UNCHANGED <<tmdb, tvmaze, quiet, seasons, providers, stamper>>
      /\ reqs[r].at = "insert airings"
  BY InsertAiringsFacts
<1>5. title' \in Row /\ title' # Absent
  <2>1. 0 \in 0..Epoch(AiringsTTL)
    BY TTLAssumption DEF Epoch
  <2>2. title' \in Row
    BY <1>4, <2>1 DEF Row
  <2> QED BY <2>2, SentinelAssumption
<1>6. TypeOK'
  <2>1. airings' \in Table(Episodes, Dates)
    BY InsertAiringsFacts DEF Tables
  <2>2. \A x \in Requests : reqs'[x] # Idle =>
          reqs[x] # Idle /\ reqs'[x].at = reqs[x].at /\ reqs'[x].row = reqs[x].row
    BY <1>3 DEF SameCall
  <2> QED BY <1>2, <1>3, <1>4, <1>5, <2>1, <2>2 DEF TypeOK
<1>7. ASSUME NEW x \in Requests, reqs'[x] # Idle
      PROVE  CallInv(x)'
  <2>1. x # r /\ reqs[x] # Idle /\ SameCall(x) /\ CallInv(x)
    BY <1>2, <1>3, <1>7 DEF CallsInv
  <2>2. MetaInv(x)' /\ FetchedInv(x)'
    BY <1>4, <1>5, <2>1 DEF CallInv, MetaInv, FetchedInv, Seen, SameCall
  <2>3. RowsInv(x)'
    <3> SUFFICES ASSUME reqs[x].at = "insert airings"
                 PROVE  RowsInv(x)'
      BY <2>1 DEF RowsInv, SameCall
    <3>1. reqs'[x].doomed = reqs[x].doomed \ Stored(rows)
      BY <1>3, <1>4, <2>1
    <3>2. /\ \A e \in reqs'[x].doomed \cap Stored(airings') : airings'[e] + Seen(reqs[x]) >= 0
          /\ quiet > Seen(reqs[x]) + 1 =>
               \A e \in Future(airings') \ reqs'[x].doomed : airings'[e] = tvmaze[e]
      BY <1>1, <2>1, <3>1, OtherCallsRows
    <3> QED BY <1>4, <2>1, <3>2 DEF CallInv, RowsInv, Seen, SameCall
  <2>4. reqs[x].at = "insert providers" => reqs'[x].doomed = reqs[x].doomed
    BY <1>3, <1>4, <2>1
  <2>5. OfferInv(x)'
    BY <1>4, <2>1, <2>4 DEF CallInv, OfferInv, Seen, SameCall
  <2> QED BY <2>2, <2>3, <2>5 DEF CallInv
<1>8. Timely'
  BY InsertAiringsTimely
<1> QED BY <1>6, <1>7, <1>8 DEF IInv, CallsInv
-----------------------------------------------------------------------------
(* TMDB and TVMaze change: nothing is said of what follows yet.            *)
LEMMA PublishKeeps ==
  ASSUME IInv, Publish \/ PublishDate
  PROVE  IInv'
<1>1. /\ quiet' = 0 /\ UNCHANGED <<title, seasons, providers, stamper, airings, reqs>>
      /\ TypeOK /\ CallsInv /\ Timely
  BY DEF Publish, PublishDate, IInv
<1>2. tmdb' \in Catalog /\ tvmaze' \in Table(Episodes, Dates)
  <2>1. CASE Publish
    BY <2>1 DEF Publish, IInv, TypeOK
  <2>2. CASE PublishDate
    <3>1. PICK e \in Episodes, d \in (0..Horizon) \cup {NoRow} : tvmaze' = [tvmaze EXCEPT ![e] = d]
      BY <2>2 DEF PublishDate
    <3>2. d \in Dates \cup {NoRow}
      BY Numbers
    <3>3. tvmaze \in Table(Episodes, Dates)
      BY DEF IInv, TypeOK
    <3> QED BY <2>2, <3>1, <3>2, <3>3 DEF Table, PublishDate, IInv, TypeOK
  <2> QED BY <2>1, <2>2
<1>3. TypeOK'
  <2>1. 0 \in 0..(QuietBound + 1)
    BY TTLAssumption DEF QuietBound
  <2> QED BY <1>1, <1>2, <2>1 DEF TypeOK
<1>4. ASSUME NEW r \in Requests, reqs[r] # Idle
      PROVE  CallInv(r)'
  <2>1. CallInv(r) /\ ~(quiet' > Seen(reqs[r])) /\ ~(quiet' > Seen(reqs[r]) + 1)
    BY <1>1, <1>4 DEF CallsInv, Seen
  <2> QED BY <1>1, <2>1 DEF CallInv, MetaInv, FetchedInv, RowsInv, OfferInv, Seen
<1>5. Timely'
  <2>1. ASSUME title # Absent
        PROVE  ~(0 > title.metaAge + 1) /\ ~(0 > title.airAge + 2)
    <3>1. title.metaAge \in Nat /\ title.airAge \in Nat
      BY <1>1, <2>1, TTLAssumption DEF TypeOK, Row, Epoch
    <3> QED BY <3>1
  <2> QED BY <1>1, <2>1 DEF Timely, MetadataTimely, ProvidersStamped, AiringsTimely
<1> QED BY <1>1, <1>3, <1>4, <1>5 DEF IInv, CallsInv

(* Midnight.                                                               *)
LEMMA OlderFacts ==
  ASSUME NEW ttl \in Nat, NEW age \in 0..(ttl + 1)
  PROVE  /\ Older(age, ttl) \in 0..(ttl + 1) /\ Older(age, ttl) \in Int
         /\ Older(age, ttl) <= age + 1
         /\ Older(age, ttl) <= ttl => age <= ttl /\ Older(age, ttl) = age + 1
BY DEF Older

LEMMA TickFacts ==
  ASSUME IInv, Tick
  PROVE  /\ tvmaze \in Table(Episodes, Dates) /\ airings \in Table(Episodes, Dates)
         /\ tvmaze' = Nearer(tvmaze) /\ airings' = Nearer(airings)
         /\ quiet \in Int /\ quiet' \in Int /\ quiet' <= quiet + 1
         /\ quiet' \in 0..(QuietBound + 1)
         /\ UNCHANGED <<tmdb, seasons, stamper>>
         /\ title' = Aged(title) /\ providers' = Waited(providers)
<1>1. QuietBound \in Nat /\ quiet \in 0..(QuietBound + 1)
  BY TTLAssumption DEF IInv, TypeOK, QuietBound
<1>2. quiet' = Older(quiet, QuietBound)
  BY DEF Tick
<1> QED BY <1>1, <1>2, OlderFacts DEF Tick, IInv, TypeOK

LEMMA AgedFacts ==
  ASSUME NEW row \in Row
  PROVE  /\ Aged(row) \in Row /\ Aged(row) # Absent /\ Aged(row).meta = row.meta
         /\ Aged(row).linked = row.linked
         /\ Aged(row).metaAge = Older(row.metaAge, MetadataTTL)
         /\ Aged(row).provAge = Older(row.provAge, ProvidersTTL)
         /\ Aged(row).airAge = Older(row.airAge, AiringsTTL)
<1>1. /\ row # Absent /\ row.metaAge \in 0..(MetadataTTL + 1) /\ row.provAge \in 0..(ProvidersTTL + 1)
      /\ row.airAge \in 0..(AiringsTTL + 1)
  BY SentinelAssumption DEF Row, Epoch
<1>2. PICK m \in 0..(MetadataTTL + 1) : m = Older(row.metaAge, MetadataTTL)
  BY <1>1, TTLAssumption, OlderFacts
<1>3. PICK p \in 0..(ProvidersTTL + 1) : p = Older(row.provAge, ProvidersTTL)
  BY <1>1, TTLAssumption, OlderFacts
<1>4. PICK a \in 0..(AiringsTTL + 1) : a = Older(row.airAge, AiringsTTL)
  BY <1>1, TTLAssumption, OlderFacts
<1>5. Aged(row) = [row EXCEPT !.metaAge = m, !.provAge = p, !.airAge = a]
  BY <1>1, <1>2, <1>3, <1>4 DEF Aged
<1>6. Aged(row) \in Row
  BY <1>2, <1>3, <1>4, <1>5 DEF Row, Epoch
<1> QED BY <1>2, <1>3, <1>4, <1>5, <1>6, SentinelAssumption DEF Row

LEMMA WaitedFacts ==
  ASSUME NEW ages \in Table(Offers, 0..(RowsBound + 1))
  PROVE  /\ Waited(ages) \in Table(Offers, 0..(RowsBound + 1)) /\ Stored(Waited(ages)) = Stored(ages)
         /\ \A o \in Stored(ages) :
              /\ ages[o] \in Int /\ ages[o] >= 0 /\ Waited(ages)[o] \in Int
              /\ Waited(ages)[o] <= ages[o] + 1
              /\ ages[o] = 0 => Waited(ages)[o] = 1
<1>1. RowsBound \in Nat /\ RowsBound >= 2 /\ NoRow \notin Int
  BY TTLAssumption, SentinelAssumption DEF RowsBound
<1>2. ASSUME NEW o \in Offers
      PROVE  /\ Waited(ages)[o] \in (0..(RowsBound + 1)) \cup {NoRow}
             /\ Waited(ages)[o] # NoRow <=> ages[o] # NoRow
             /\ ages[o] # NoRow =>
                  /\ ages[o] \in Int /\ ages[o] >= 0 /\ Waited(ages)[o] \in Int
                  /\ Waited(ages)[o] <= ages[o] + 1
                  /\ ages[o] = 0 => Waited(ages)[o] = 1
  <2>1. CASE ages[o] = NoRow
    BY <2>1 DEF Waited
  <2>2. CASE ages[o] # NoRow
    <3>1. ages[o] \in 0..(RowsBound + 1)
      BY <2>2 DEF Table
    <3>2. PICK age \in 0..(RowsBound + 1) : age = ages[o]
      BY <3>1
    <3>3. Waited(ages)[o] = Older(age, RowsBound)
      BY <2>2, <3>2 DEF Waited
    <3>4. /\ Older(age, RowsBound) \in 0..(RowsBound + 1) /\ Older(age, RowsBound) \in Int
          /\ Older(age, RowsBound) <= age + 1
      BY <1>1, OlderFacts
    <3>5. age = 0 => Older(age, RowsBound) = 1
      BY <1>1 DEF Older
    <3>6. age \in Int /\ age >= 0
      OBVIOUS
    <3> QED BY <1>1, <2>2, <3>2, <3>3, <3>4, <3>5, <3>6
  <2> QED BY <2>1, <2>2
<1>3. DOMAIN ages = Offers /\ DOMAIN Waited(ages) = Offers
  BY DEF Table, Waited
<1>4. Waited(ages) \in Table(Offers, 0..(RowsBound + 1))
  BY <1>2 DEF Waited, Table
<1>5. Stored(Waited(ages)) = Stored(ages)
  BY <1>2, <1>3 DEF Stored
<1> QED BY <1>2, <1>3, <1>4, <1>5 DEF Stored

(* What midnight makes of what a call has fetched.                         *)
GotAfter(q) ==
  IF q.at \in {"delete airings", "insert airings"} THEN Nearer(q.got)
  ELSE IF q.at \in {"delete providers", "insert providers"} THEN Waited(q.got) ELSE q.got

LEMMA WaitedGot ==
  ASSUME NEW got \in Table(Offers, {0, 1}), \A o \in Stored(got) : got[o] <= 0
  PROVE  /\ Waited(got) \in Table(Offers, {0, 1})
         /\ \A o \in Stored(Waited(got)) : Waited(got)[o] <= 1
<1>1. {0, 1} \subseteq 0..(RowsBound + 1) /\ NoRow \notin {0, 1}
  BY TTLAssumption, SentinelAssumption DEF RowsBound
<1>2. got \in Table(Offers, 0..(RowsBound + 1))
  BY <1>1 DEF Table
<1>3. \A o \in Stored(got) : got[o] = 0
  BY <1>1, TableFacts
<1>4. \A o \in Stored(got) : Waited(got)[o] = 1
  BY <1>2, <1>3, WaitedFacts
<1>5. Stored(Waited(got)) = Stored(got) /\ Waited(got) \in Table(Offers, 0..(RowsBound + 1))
  BY <1>2, WaitedFacts
<1>6. \A o \in Offers : Waited(got)[o] \in {0, 1} \cup {NoRow}
  BY <1>4, <1>5 DEF Stored, Table
<1> QED BY <1>4, <1>5, <1>6 DEF Table

LEMMA AgedCallFacts ==
  ASSUME IInv, Tick, NEW r \in Requests, reqs[r] # Idle
  PROVE  /\ reqs'[r] \in Call /\ reqs'[r] # Idle /\ reqs'[r].region = reqs[r].region
         /\ reqs'[r].at = reqs[r].at /\ reqs'[r].row = reqs[r].row /\ reqs'[r].imdb = reqs[r].imdb
         /\ reqs'[r].doomed = reqs[r].doomed
         /\ reqs'[r].got = GotAfter(reqs[r])
         /\ Seen(reqs'[r]) = 1 /\ Seen(reqs[r]) = 0
<1>1. reqs[r] \in Call /\ ~reqs[r].crossed /\ CallInv(r)
  BY CallFacts DEF IInv, Tick, CallsInv
<1>2. PICK got : got = GotAfter(reqs[r])
  OBVIOUS
<1>3. reqs'[r] = [reqs[r] EXCEPT !.crossed = TRUE, !.got = got]
  BY <1>2 DEF Tick, AgedCall, GotAfter
<1>4. got \in Catalog \cup Table(Episodes, Dates) \cup Table(Offers, {0, 1}) \cup {NoRow}
  <2>1. CASE reqs[r].at \in {"delete airings", "insert airings"}
    <3>1. reqs[r].got \in Table(Episodes, Dates)
      BY <1>1, <2>1 DEF CallInv, FetchedInv
    <3> QED BY <1>2, <2>1, <3>1, NearerFacts DEF GotAfter
  <2>2. CASE reqs[r].at \in {"delete providers", "insert providers"}
    <3>1. reqs[r].got \in Table(Offers, {0, 1}) /\ \A o \in Stored(reqs[r].got) : reqs[r].got[o] <= 0
      BY <1>1, <2>2 DEF CallInv, OfferInv, Seen
    <3>2. Waited(reqs[r].got) \in Table(Offers, {0, 1})
      BY <3>1, WaitedGot
    <3> QED BY <1>2, <2>2, <3>2 DEF GotAfter
  <2>3. CASE reqs[r].at \notin {"delete airings", "insert airings",
                                 "delete providers", "insert providers"}
    BY <1>1, <1>2, <2>3 DEF GotAfter, Call
  <2> QED BY <2>1, <2>2, <2>3
<1>5. reqs'[r] \in Call
  BY <1>1, <1>3, <1>4 DEF Call
<1>6. reqs'[r] # Idle
  BY <1>5, SentinelAssumption
<1>7. Seen(reqs'[r]) = 1 /\ Seen(reqs[r]) = 0
  BY <1>1, <1>3 DEF Call, Seen
<1> QED BY <1>1, <1>2, <1>3, <1>5, <1>6, <1>7 DEF Call

(* A date that is not past yet is yesterday's at worst.                     *)
LEMMA NearerByOne ==
  ASSUME NEW dates \in Table(Episodes, Dates), NEW e \in Stored(dates), dates[e] >= 0
  PROVE  /\ e \in Stored(Nearer(dates)) /\ Nearer(dates)[e] = dates[e] - 1
         /\ Nearer(dates)[e] + 1 >= 0
<1>1. PICK d \in Int : d = dates[e]
  BY DateFacts
<1>2. Nearer(dates)[e] = IF d > -2 THEN d - 1 ELSE d
  BY <1>1, NearerFacts
<1>3. d >= 0
  BY <1>1
<1>4. Nearer(dates)[e] = d - 1 /\ Nearer(dates)[e] + 1 >= 0
  BY ONLY <1>2, <1>3, d \in Int
<1> QED BY <1>1, <1>4, NearerFacts

LEMMA TickCalls ==
  ASSUME IInv, Tick, title # Absent => title' # Absent, NEW r \in Requests, reqs[r] # Idle
  PROVE  CallInv(r)'
<1>1. quiet' > 1 => quiet > 0
  BY TickFacts
<1>2. quiet' > 2 => quiet > 1
  BY TickFacts
<1>3. CallInv(r) /\ Seen(reqs'[r]) = 1 /\ Seen(reqs[r]) = 0
  BY AgedCallFacts DEF IInv, CallsInv
<1>4. /\ tvmaze \in Table(Episodes, Dates) /\ airings \in Table(Episodes, Dates)
      /\ tvmaze' = Nearer(tvmaze) /\ airings' = Nearer(airings) /\ tmdb' = tmdb
  BY TickFacts
<1>5. /\ reqs'[r].at = reqs[r].at /\ reqs'[r].row = reqs[r].row /\ reqs'[r].imdb = reqs[r].imdb
      /\ reqs'[r].doomed = reqs[r].doomed /\ reqs'[r].region = reqs[r].region
      /\ reqs'[r].got = IF reqs[r].at \in {"delete airings", "insert airings"} THEN Nearer(reqs[r].got)
                        ELSE IF reqs[r].at \in {"delete providers", "insert providers"}
                        THEN Waited(reqs[r].got) ELSE reqs[r].got
  BY AgedCallFacts DEF GotAfter
<1>6. reqs[r].at \in {"delete airings", "insert airings"} => reqs[r].got \in Table(Episodes, Dates)
  BY <1>3 DEF CallInv, FetchedInv
<1>7. MetaInv(r)'
  BY <1>1, <1>3, <1>4, <1>5 DEF CallInv, MetaInv
<1>8. FetchedInv(r)'
  <2>1. reqs[r].at = "delete airings" /\ quiet' > 1 => reqs'[r].got = tvmaze'
    BY <1>1, <1>3, <1>4, <1>5 DEF CallInv, FetchedInv
  <2>2. reqs[r].at = "insert airings" /\ quiet' > 1 => Agree(reqs'[r].got, tvmaze')
    <3> SUFFICES ASSUME reqs[r].at = "insert airings", quiet' > 1
                 PROVE  Agree(reqs'[r].got, tvmaze')
      OBVIOUS
    <3>1. Agree(reqs[r].got, tvmaze)
      BY <1>1, <1>3 DEF CallInv, FetchedInv
    <3> QED BY <1>4, <1>5, <1>6, <3>1, AgreeNearer
  <2>3. reqs[r].at \in {"delete airings", "insert airings"} => reqs'[r].got \in Table(Episodes, Dates)
    BY <1>5, <1>6, NearerFacts
  <2> QED BY <1>3, <1>5, <2>1, <2>2, <2>3 DEF FetchedInv
<1>9. RowsInv(r)'
  <2> SUFFICES ASSUME reqs[r].at = "insert airings"
               PROVE  RowsInv(r)'
    BY <1>5 DEF RowsInv
  <2>1. /\ \A e \in Stored(reqs[r].got) : reqs[r].got[e] + Seen(reqs[r]) >= 0
        /\ \A e \in reqs[r].doomed \cap Stored(airings) : airings[e] + Seen(reqs[r]) >= 0
        /\ quiet > Seen(reqs[r]) + 1 =>
             \A e \in Future(airings) \ reqs[r].doomed : airings[e] = tvmaze[e]
    BY <1>3 DEF CallInv, RowsInv
  <2>2. /\ reqs'[r].got = Nearer(reqs[r].got) /\ reqs[r].got \in Table(Episodes, Dates)
        /\ reqs'[r].doomed = reqs[r].doomed /\ reqs'[r].at = "insert airings"
    BY <1>5, <1>6
  <2>3. ASSUME NEW dates \in Table(Episodes, Dates), NEW e \in Stored(dates),
               dates[e] + Seen(reqs[r]) >= 0
        PROVE  dates[e] >= 0
    <3>1. PICK d \in Int : d = dates[e]
      BY DateFacts
    <3>2. d + Seen(reqs[r]) >= 0 /\ Seen(reqs[r]) = 0
      BY <1>3, <2>3, <3>1
    <3>3. d >= 0
      BY ONLY <3>2, d \in Int
    <3> QED BY <3>1, <3>3
  <2>4. \A e \in Stored(Nearer(reqs[r].got)) : Nearer(reqs[r].got)[e] + 1 >= 0
    BY <2>1, <2>2, <2>3, NearerByOne, NearerFacts
  <2>5. \A e \in reqs[r].doomed \cap Stored(Nearer(airings)) : Nearer(airings)[e] + 1 >= 0
    BY <1>4, <2>1, <2>3, NearerByOne, NearerFacts
  <2>6. ASSUME quiet' > 2, NEW e \in Future(airings') \ reqs[r].doomed
        PROVE  airings'[e] = tvmaze'[e]
    <3>1. e \in Future(airings) /\ airings'[e] = airings[e] - 1
      BY <1>4, FutureNearer
    <3>2. quiet > Seen(reqs[r]) + 1
      BY ONLY <1>2, <1>3, <2>6
    <3>3. airings[e] = tvmaze[e]
      BY <2>1, <2>6, <3>1, <3>2
    <3>4. e \in Episodes /\ e \in Stored(airings) /\ airings[e] >= 0
      BY <1>4, <3>1, DateFacts
    <3>5. e \in Stored(tvmaze) /\ tvmaze[e] >= 0
      BY <1>4, <3>3, <3>4, SameDate
    <3>6. tvmaze'[e] = tvmaze[e] - 1
      BY <1>4, <3>5, NearerByOne
    <3> QED BY <3>1, <3>3, <3>6
  <2>7. (quiet' > Seen(reqs'[r]) + 1) => quiet' > 2
    BY ONLY <1>3
  <2> QED BY <1>3, <1>4, <2>2, <2>4, <2>5, <2>6, <2>7 DEF RowsInv
<1>10. OfferInv(r)'
  <2>1. ASSUME reqs[r].at \in {"delete providers", "insert providers"}
        PROVE  /\ reqs'[r].got \in Table(Offers, {0, 1})
               /\ \A o \in Stored(reqs'[r].got) : reqs'[r].got[o] <= 1
    <3>1. reqs[r].got \in Table(Offers, {0, 1}) /\ \A o \in Stored(reqs[r].got) : reqs[r].got[o] <= 0
      BY <1>3, <2>1 DEF CallInv, OfferInv
    <3>2. reqs'[r].got = Waited(reqs[r].got)
      BY <1>5, <2>1
    <3> QED BY <3>1, <3>2, WaitedGot
  <2>2. ASSUME reqs[r].at = "insert providers", NEW o \in Stored(providers') \ reqs[r].doomed,
               o[1] = reqs[r].region
        PROVE  providers'[o] <= 1 + 1
    <3>1. providers \in Table(Offers, 0..(RowsBound + 1)) /\ providers' = Waited(providers)
      BY TickFacts DEF IInv, TypeOK
    <3>2. o \in Stored(providers)
      BY <3>1, WaitedFacts
    <3>3. providers[o] <= Seen(reqs[r]) + 1
      BY <1>3, <2>2, <3>2 DEF CallInv, OfferInv
    <3>4. providers[o] \in Int /\ Waited(providers)[o] \in Int /\ Waited(providers)[o] <= providers[o] + 1
      BY <3>1, <3>2, WaitedFacts
    <3>5. PICK a \in Int, b \in Int : a = providers[o] /\ b = Waited(providers)[o]
      BY <3>4
    <3>6. a <= 0 + 1 /\ b <= a + 1
      BY <1>3, <3>3, <3>4, <3>5
    <3>7. b <= 1 + 1
      BY ONLY <3>6, a \in Int, b \in Int
    <3> QED BY <3>1, <3>5, <3>7
  <2> QED BY <1>3, <1>5, <2>1, <2>2 DEF OfferInv
<1> QED BY <1>7, <1>8, <1>9, <1>10 DEF CallInv
(* A row that is within its TTL after midnight was before it, a day        *)
(* younger.                                                                *)
LEMMA TickTimely ==
  ASSUME IInv, Tick, title # Absent
  PROVE  Timely'
<1>1. /\ title \in Row /\ title' = Aged(title) /\ stamper' = stamper
      /\ providers \in Table(Offers, 0..(RowsBound + 1)) /\ providers' = Waited(providers)
  BY TickFacts DEF IInv, TypeOK
<1>2. /\ title'.meta = title.meta
      /\ title'.metaAge = Older(title.metaAge, MetadataTTL)
      /\ title'.provAge = Older(title.provAge, ProvidersTTL)
      /\ title'.airAge = Older(title.airAge, AiringsTTL)
  BY <1>1, AgedFacts
<1>3. /\ title.metaAge \in 0..(MetadataTTL + 1) /\ title.metaAge \in Int
      /\ title.provAge \in 0..(ProvidersTTL + 1) /\ title.airAge \in 0..(AiringsTTL + 1)
      /\ title.airAge \in Int
  BY <1>1, TTLAssumption DEF Row, Epoch
<1>4. quiet \in Int /\ quiet' \in Int /\ quiet' <= quiet + 1 /\ tmdb' = tmdb
  BY TickFacts
<1>5. MetadataTimely'
  <2> SUFFICES ASSUME title'.metaAge <= MetadataTTL, quiet' > title'.metaAge + 1
               PROVE  title'.meta = tmdb'
    BY DEF MetadataTimely
  <2>1. title.metaAge <= MetadataTTL /\ title'.metaAge = title.metaAge + 1
    <3>1. Older(title.metaAge, MetadataTTL) <= MetadataTTL
      BY <1>2
    <3>2. MetadataTTL \in Nat /\ title.metaAge \in 0..(MetadataTTL + 1)
      BY <1>3, TTLAssumption
    <3>3. /\ title.metaAge <= MetadataTTL
          /\ Older(title.metaAge, MetadataTTL) = title.metaAge + 1
      BY ONLY <3>1, <3>2, OlderFacts
    <3> QED BY ONLY <1>2, <3>3
  <2>2. quiet > title.metaAge + 1
    BY ONLY <1>3, <1>4, <2>1, quiet' > title'.metaAge + 1
  <2> QED BY <1>2, <1>4, <2>1, <2>2 DEF IInv, Timely, MetadataTimely
<1>6. ProvidersStamped'
  <2> SUFFICES ASSUME title'.provAge <= ProvidersTTL
               PROVE  /\ stamper' \in Regions
                      /\ \A o \in Stored(providers') :
                           o[1] = stamper' => providers'[o] <= title'.provAge + 2
    BY DEF ProvidersStamped
  <2>1. title.provAge <= ProvidersTTL /\ title'.provAge = title.provAge + 1
    <3>1. Older(title.provAge, ProvidersTTL) <= ProvidersTTL
      BY <1>2
    <3>2. ProvidersTTL \in Nat /\ title.provAge \in 0..(ProvidersTTL + 1)
      BY <1>3, TTLAssumption
    <3>3. /\ title.provAge <= ProvidersTTL
          /\ Older(title.provAge, ProvidersTTL) = title.provAge + 1
      BY ONLY <3>1, <3>2, OlderFacts
    <3> QED BY ONLY <1>2, <3>3
  <2>2. /\ stamper \in Regions
        /\ \A o \in Stored(providers) : o[1] = stamper => providers[o] <= title.provAge + 2
    BY <2>1 DEF IInv, Timely, ProvidersStamped
  <2>3. ASSUME NEW o \in Stored(providers'), o[1] = stamper'
        PROVE  providers'[o] <= title'.provAge + 2
    <3>1. o \in Stored(providers)
      BY <1>1, WaitedFacts
    <3>2. providers[o] \in Int /\ Waited(providers)[o] \in Int /\ Waited(providers)[o] <= providers[o] + 1
      BY <1>1, <3>1, WaitedFacts
    <3>3. PICK a \in Int, b \in Int, p \in Int :
                 a = providers[o] /\ b = Waited(providers)[o] /\ p = title.provAge
      BY <1>3, <3>2
    <3>4. a <= p + 2 /\ b <= a + 1
      BY <1>1, <2>2, <2>3, <3>1, <3>2, <3>3
    <3>5. b <= (p + 1) + 2
      BY ONLY <3>4, a \in Int, b \in Int, p \in Int
    <3> QED BY <1>1, <2>1, <3>3, <3>5
  <2> QED BY <1>1, <2>2, <2>3
<1>7. AiringsTimely'
  <2> SUFFICES ASSUME title'.airAge <= AiringsTTL, quiet' > title'.airAge + 2
               PROVE  Agree(airings', tvmaze')
    BY DEF AiringsTimely, Agree
  <2>1. title.airAge <= AiringsTTL /\ title'.airAge = title.airAge + 1
    BY <1>2, <1>3, OlderFacts, TTLAssumption, ZenonT(40)
  <2>2. quiet > title.airAge + 2
    BY ONLY <1>3, <1>4, <2>1, quiet' > title'.airAge + 2
  <2>3. Agree(airings, tvmaze)
    BY <2>1, <2>2 DEF IInv, Timely, AiringsTimely, Agree
  <2> QED BY <2>3, TickFacts, AgreeNearer
<1> QED BY <1>5, <1>6, <1>7 DEF Timely

LEMMA TickKeeps ==
  ASSUME IInv, Tick
  PROVE  IInv'
<1>1. /\ title \in Row \cup {Absent} /\ title' = Aged(title)
      /\ providers \in Table(Offers, 0..(RowsBound + 1)) /\ providers' = Waited(providers)
      /\ reqs \in [Requests -> Call \cup {Idle}]
      /\ UNCHANGED <<tmdb, seasons, stamper>>
  BY TickFacts DEF IInv, TypeOK
<1>2. /\ title' \in Row \cup {Absent}
      /\ title' = Absent <=> title = Absent
  <2>1. CASE title = Absent
    BY <1>1, <2>1 DEF Aged
  <2>2. CASE title # Absent
    BY <1>1, <2>2, AgedFacts
  <2> QED BY <2>1, <2>2
<1>3. /\ airings' \in Table(Episodes, Dates) /\ tvmaze' \in Table(Episodes, Dates)
      /\ Stored(airings') = Stored(airings)
  BY TickFacts, NearerFacts
<1>4. /\ providers' \in Table(Offers, 0..(RowsBound + 1))
      /\ Stored(providers') = Stored(providers)
  BY <1>1, WaitedFacts
<1>5. ASSUME NEW r \in Requests
      PROVE  /\ reqs'[r] \in Call \cup {Idle}
             /\ reqs'[r] = Idle <=> reqs[r] = Idle
             /\ reqs[r] # Idle => reqs'[r].at = reqs[r].at /\ reqs'[r].row = reqs[r].row
  <2>1. CASE reqs[r] = Idle
    BY <2>1 DEF Tick, AgedCall
  <2>2. CASE reqs[r] # Idle
    BY <2>2, AgedCallFacts
  <2> QED BY <2>1, <2>2
<1>6. reqs' \in [Requests -> Call \cup {Idle}]
  <2>1. reqs' = [r \in Requests |-> AgedCall(reqs[r])]
    BY DEF Tick
  <2> QED BY <1>5, <2>1
<1>7. TypeOK'
  <2>1. quiet' \in 0..(QuietBound + 1)
    BY TickFacts
  <2>2. title' = Absent => Stored(seasons') \cup Stored(airings') \cup Stored(providers') = {}
    BY <1>1, <1>2, <1>3, <1>4 DEF IInv, TypeOK
  <2>3. \A r \in Requests :
          reqs'[r] # Idle /\ reqs'[r].at \notin {"metadata", "upsert"}
            => title' # Absent /\ reqs'[r].row # Absent
    BY <1>2, <1>5 DEF IInv, TypeOK
  <2>4. tmdb' \in Catalog /\ seasons' \in Table(Seasons, Nat) /\ stamper' \in Regions \cup {NoRow}
    BY <1>1 DEF IInv, TypeOK
  <2> QED BY <1>2, <1>3, <1>4, <1>6, <2>1, <2>2, <2>3, <2>4 DEF TypeOK
<1>8. CallsInv'
  BY <1>2, <1>5, TickCalls DEF CallsInv
<1>9. Timely'
  <2>1. CASE title = Absent
    BY <1>2, <2>1 DEF Timely, MetadataTimely, ProvidersStamped, AiringsTimely
  <2> QED BY <2>1, TickTimely
<1> QED BY <1>7, <1>8, <1>9 DEF IInv
-----------------------------------------------------------------------------
LEMMA InitInv == Init => IInv
<1> SUFFICES ASSUME Init
             PROVE  IInv
  OBVIOUS
<1>1. TypeOK
  <2>1. tvmaze \in Table(Episodes, Dates)
    <3>1. (0..Horizon) \subseteq Dates
      BY Numbers
    <3> QED BY <3>1 DEF Init, Table
  <2>2. 0 \in 0..(QuietBound + 1)
    BY TTLAssumption DEF QuietBound
  <2> QED BY <2>1, <2>2 DEF Init, TypeOK, Table, Stored
<1>2. CallsInv
  BY DEF Init, CallsInv
<1>3. Timely
  BY DEF Init, Timely, MetadataTimely, ProvidersStamped, AiringsTimely
<1> QED BY <1>1, <1>2, <1>3 DEF IInv

LEMMA ServeKeeps ==
  ASSUME IInv, NEW r \in Requests, Serve(r)
  PROVE  IInv'
<1>1. TypeOK /\ CallsInv /\ Timely
  BY DEF IInv
<1>2. CASE FetchMetadata(r)
  BY <1>1, <1>2, FetchMetadataKeeps, TimelyKept DEF IInv, FetchMetadata
<1>3. CASE UpsertTitle(r)
  BY <1>3, UpsertTitleKeeps
<1>4. CASE DeleteSeasons(r)
  BY <1>1, <1>4, DeleteSeasonsKeeps, TimelyKept DEF IInv
<1>5. CASE InsertSeasons(r)
  BY <1>1, <1>5, InsertSeasonsKeeps, TimelyKept DEF IInv
<1>6. CASE SkipProviders(r)
  BY <1>1, <1>6, SkipProvidersKeeps, TimelyKept DEF IInv
<1>7. CASE FetchProviders(r)
  BY <1>1, <1>7, FetchProvidersKeeps, TimelyKept DEF IInv
<1>14. CASE DeleteProviders(r)
  BY <1>1, <1>14, DeleteProvidersKeeps, TimelyKept DEF IInv
<1>15. CASE InsertProviders(r)
  BY <1>15, InsertProvidersKeeps
<1>8. CASE LinkTitle(r)
  BY <1>8, LinkTitleKeeps
<1>9. CASE LeaveAirings(r)
  BY <1>1, <1>9, ReturnKeeps, TimelyKept DEF IInv, LeaveAirings
<1>10. CASE FetchEpisodes(r)
  BY <1>1, <1>10, FetchEpisodesKeeps, TimelyKept DEF IInv
<1>11. CASE DeleteAirings(r)
  BY <1>1, <1>11, DeleteAiringsKeeps, TimelyKept DEF IInv
<1>12. CASE InsertAirings(r)
  BY <1>12, InsertAiringsKeeps
<1>13. CASE Stop(r)
  BY <1>1, <1>13, ReturnKeeps, TimelyKept DEF IInv, Stop
<1> QED BY <1>2, <1>3, <1>4, <1>5, <1>6, <1>7, <1>8, <1>9, <1>10, <1>11, <1>12, <1>13,
           <1>14, <1>15 DEF Serve

LEMMA NextInv == IInv /\ [Next]_vars => IInv'
<1> SUFFICES ASSUME IInv, [Next]_vars
             PROVE  IInv'
  OBVIOUS
<1>1. TypeOK /\ CallsInv /\ Timely
  BY DEF IInv
<1>2. ASSUME NEW r \in Requests, Serve(r)
      PROVE  IInv'
  BY <1>2, ServeKeeps
<1>3. ASSUME NEW r \in Requests, NEW g \in Regions, Begin(r, g)
      PROVE  IInv'
  BY <1>1, <1>3, BeginKeeps, TimelyKept DEF IInv, Begin
<1>4. CASE Publish \/ PublishDate
  BY <1>4, PublishKeeps
<1>5. CASE Tick
  BY <1>5, TickKeeps
<1>6. CASE UNCHANGED vars
  <2>1. UNCHANGED <<upstream, title, seasons, providers, stamper, airings>> /\ UNCHANGED reqs
    BY <1>6 DEF vars, upstream
  <2>2. CallsInv'
    BY <1>1, <2>1, CallKept DEF CallsInv
  <2>3. TypeOK'
    BY <1>1, <2>1 DEF TypeOK, upstream, Stored
  <2>4. Timely'
    BY <1>1, <2>1, TimelyKept
  <2> QED BY <2>2, <2>3, <2>4 DEF IInv
<1> QED BY <1>2, <1>3, <1>4, <1>5, <1>6 DEF Next

(* The inductive invariant.                                                *)
THEOREM Invariance == Spec => []IInv
<1>1. Init => IInv
  BY InitInv
<1>2. IInv /\ [Next]_vars => IInv'
  BY NextInv
<1> QED BY <1>1, <1>2, PTL DEF Spec
-----------------------------------------------------------------------------
(* The variables keep their types, only a stored title has rows in the     *)
(* other tables, and a call has a row wherever it dereferences one.        *)
THEOREM TypeCorrect == Spec => []TypeOK
<1>1. IInv => TypeOK
  BY DEF IInv
<1> QED BY <1>1, Invariance, PTL

(* Metadata within its TTL is no older than its stamp says, less the       *)
(* midnight that the call may have crossed.  Overlapping calls, failures   *)
(* at any point and rows written back do not make it look fresher.         *)
THEOREM MetadataIsTimely == Spec => []MetadataTimely
<1>1. IInv => MetadataTimely
  BY DEF IInv, Timely
<1> QED BY <1>1, Invariance, PTL

(* Within the providers' TTL, the rows of the region last stamped are no   *)
(* older than the stamp says, less the two midnights that the call which   *)
(* set it and one whose rows it left may have crossed between TMDB's       *)
(* answer and their commits.                                               *)
THEOREM ProvidersAreStamped == Spec => []ProvidersStamped
<1>1. IInv => ProvidersStamped
  BY DEF IInv, Timely
<1> QED BY <1>1, Invariance, PTL

(* Airings within their TTL are TVMaze's dates of the stamp, less the two  *)
(* midnights that the call and one whose rows it left may have crossed.    *)
THEOREM AiringsAreTimely == Spec => []AiringsTimely
<1>1. IInv => AiringsTimely
  BY DEF IInv, Timely
<1> QED BY <1>1, Invariance, PTL

(* The steps that write the row.                                           *)
LEMMA LinkStep ==
  ASSUME IInv, [Next]_vars, title # Absent, title.linked
  PROVE  title' = title \/ title'.linked
<1>1. title \in Row
  BY DEF IInv, TypeOK
<1>2. ASSUME NEW r \in Requests, Serve(r)
      PROVE  title' = title \/ title'.linked
  <2>1. CASE UpsertTitle(r)
    <3>1. /\ reqs[r] # Idle /\ reqs[r].at = "upsert" /\ CallInv(r)
          /\ title' = Upserted(reqs[r].got, FALSE)
      BY <2>1 DEF IInv, UpsertTitle, At, CallsInv
    <3>2. reqs[r].got \in Catalog
      BY <3>1 DEF CallInv, MetaInv
    <3> QED BY <1>1, <3>1, <3>2, UpsertedFacts
  <2>2. CASE LinkTitle(r)
    <3>1. /\ reqs[r].row \in HeldRow /\ title' = Upserted(reqs[r].row.meta, TRUE)
      BY <2>2, CallFacts DEF IInv, LinkTitle, At
    <3>2. reqs[r].row.meta \in Catalog
      BY <3>1 DEF HeldRow
    <3> QED BY <1>1, <3>1, <3>2, UpsertedFacts
  <2>3. CASE InsertProviders(r)
    BY <1>1, <2>3 DEF InsertProviders, Row
  <2>4. CASE InsertAirings(r)
    BY <1>1, <2>4 DEF InsertAirings, Row
  <2>5. CASE UNCHANGED title
    BY <2>5
  <2> QED BY <1>2, <2>1, <2>2, <2>3, <2>4, <2>5
     DEF Serve, FetchMetadata, DeleteSeasons, InsertSeasons, SkipProviders, FetchProviders,
         DeleteProviders, LeaveAirings, FetchEpisodes, DeleteAirings, Stop
<1>3. CASE Tick
  <2>1. title' = Aged(title)
    BY <1>3 DEF Tick
  <2> QED BY <1>1, <2>1, AgedFacts
<1>4. CASE UNCHANGED title
  BY <1>4
<1> QED BY <1>2, <1>3, <1>4 DEF Next, Begin, Publish, PublishDate, vars

(* A title that is linked to TVMaze stays linked: UpsertTitle keeps the id *)
(* that the row has, whatever the caller has read.                         *)
THEOREM LinkIsKept == Spec => LinkKept
<1>1. IInv /\ [Next]_vars => [title # Absent /\ title.linked => title'.linked]_title
  BY LinkStep
<1> QED BY <1>1, Invariance, PTL DEF Spec, LinkKept

(* The DELETE takes no row that was past when it ran, and the INSERTs      *)
(* carry no date that was past when the answer came.                       *)
LEMMA PastStep ==
  ASSUME IInv, [Next]_vars, NEW e \in Episodes, airings[e] = -2
  PROVE  airings'[e] = -2 \/ (e \in Stored(airings') /\ airings'[e] >= -1)
<1>1. airings \in Table(Episodes, Dates) /\ e \in Stored(airings)
  <2>1. airings \in Table(Episodes, Dates) /\ -2 # NoRow
    BY Numbers DEF IInv, TypeOK
  <2> QED BY <2>1, DateFacts
<1>2. ASSUME NEW r \in Requests, InsertAirings(r)
      PROVE  airings'[e] = -2 \/ (e \in Stored(airings') /\ airings'[e] >= -1)
  <2>1. Tables(r) /\ RowsInv(r) /\ reqs[r].at = "insert airings"
    BY <1>2, InsertAiringsFacts DEF CallInv
  <2>2. Overwritten(r)
    BY <1>2, InsertAiringsFacts
  <2>3. Seen(reqs[r]) \in {0, 1}
    BY SeenIsOne
  <2>4. CASE e \in Stored(reqs[r].got)
    <3>1. PICK d \in Int : d = reqs[r].got[e]
      BY <2>1, <2>4, DateFacts DEF Tables
    <3>2. d + Seen(reqs[r]) >= 0
      BY <2>1, <2>4, <3>1 DEF RowsInv
    <3>3. d >= -1
      BY ONLY <2>3, <3>2, d \in Int
    <3>4. airings'[e] = d
      BY <2>2, <2>4, <3>1 DEF Overwritten
    <3>5. e \in Stored(airings')
      BY <2>1, <3>4, Numbers, DateFacts DEF Tables
    <3> QED BY <3>3, <3>4, <3>5
  <2>5. CASE e \notin Stored(reqs[r].got)
    <3>1. e \notin reqs[r].doomed
      <4>1. SUFFICES ASSUME e \in reqs[r].doomed
                     PROVE  FALSE
        OBVIOUS
      <4>2. airings[e] + Seen(reqs[r]) >= 0
        BY <1>1, <2>1, <4>1 DEF RowsInv
      <4>3. -2 + Seen(reqs[r]) >= 0
        BY <4>2
      <4> QED BY ONLY <2>3, <4>3
    <3> QED BY <2>2, <2>5, <3>1 DEF Overwritten
  <2> QED BY <2>4, <2>5
<1>3. CASE Tick
  <2>1. airings'[e] = IF -2 > -2 THEN -2 - 1 ELSE -2
    BY <1>1, <1>3, TickFacts, NearerFacts
  <2> QED BY <2>1
<1>4. CASE UNCHANGED airings
  BY <1>4
<1> QED BY <1>2, <1>3, <1>4
   DEF Next, Serve, FetchMetadata, UpsertTitle, DeleteSeasons, InsertSeasons, SkipProviders,
       FetchProviders, DeleteProviders, InsertProviders, LinkTitle, LeaveAirings, FetchEpisodes, DeleteAirings, Stop,
       Begin, Publish, PublishDate, vars

(* What aired before yesterday is kept where it is, or given a date of     *)
(* yesterday or later, whichever calls overlap and whatever fails.         *)
THEOREM PastIsKept == Spec => PastAiringsKept
<1>1. IInv /\ [Next]_vars =>
        [\A e \in Episodes : airings[e] = -2 =>
           airings'[e] = -2 \/ (e \in Stored(airings') /\ airings'[e] >= -1)]_airings
  BY PastStep
<1> QED BY <1>1, Invariance, PTL DEF Spec, PastAiringsKept
=============================================================================
