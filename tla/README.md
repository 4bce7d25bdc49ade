# Lineup: a TLA+ verification project

Lineup plans evenings. A user keeps a *rotation* of movies and series; the API
(Go, `api/`) generates a *guide* of up to fourteen nights from it, which the
user then pins, moves, swaps, deletes and marks as watched, and may regenerate.
The web client (Next.js, `web/`) shows it. This directory holds TLA+ modules of
the parts where order, concurrency or a long history can go wrong, the TLC runs
that check them, and proofs in TLAPS.

Contents: [inventory](#inventory), [what is hard](#what-is-hard),
[modules](#modules), [runs](#runs), [divergences](#divergences),
[proofs](#proofs), [not modelled](#not-modelled), [plan](#plan).

## Inventory

| Component | Code | State | Operations | Talks to |
|---|---|---|---|---|
| Guide engine | `api/internal/guide` | none (one call) | `Generate`: keep, air-pin, movie, fill, alternate passes | called by the guide handlers |
| Guides | `httpserver/guides.go`, `store/guides.go` | `guides`, `guide_items` | create, regenerate, move / swap / pin, delete, mark, unmark, current | engine, preferences, entries |
| Entries and watch tracking | `httpserver/entries.go`, `store/entries.go`, `store/guides.go` | `user_titles`: status, episode pointer; `guide_items.watched` | PATCH entry, shelves, mark, unmark, swap | guides, season tables |
| Title ingestion | `ingest/ingest.go`, `store/titles.go` | `titles` with three refresh stamps, seasons, providers per region, airings | `EnsureTitle`, `Replace*` | TMDB, TVMaze |
| API clients | `tmdb/`, `tvmaze/` | rate limiter | `get` with one retry | the network |
| Preferences, users, auth | `prefs/`, `store/users.go`, `httpserver/{auth,me}.go`, `fbauth/` | `users` | upsert on sign-in, PATCH /me | Firebase |
| Schema | `store/migrations`, `store/migrate.go` | all tables | migrate at start | Postgres |
| Web: guide cache | `web/src/app/guide/{GuideBody,GenerateBar,useGuideItem*}` | the query `["guide"]`, mutations outstanding | fetch with retries, refetch, optimistic move and rollback, toggle, remove, swap, (re)generate | the API |
| Web: guide layout and drag | `web/src/lib/guide.ts`, `web/src/app/guide/{CalendarView,BoardView,DayColumn,GridDragPreview,GridItemCard}` | clock, hour height, view, selected date, drag in progress | columns, board, time grid, packing; drag, drop, swap | the cache |
| Web: poster tint | `web/src/app/guide/{posterTint,usePosterHue,ProviderChip}` | hues by title, logo plates by provider, samples in flight | resolve once, peek, join | the cards |
| Web: settings | `web/src/app/settings` | form, last attempted save, the query `["me"]` | edits, debounced save, flush at unmount, slider | the API |
| Other pages, wiring, infrastructure | the rest | the entry's own queries | routing, rendering, single requests, deployment | the API |

They interact in three ways. By calls: a create or a regenerate reads the
guide, the preferences and the rotation, calls the engine in memory, and opens
a transaction for what came back. By shared rows: ingestion, entries and guides
read and write the same titles, season tables and pointers, from any number of
API instances. By requests: the web client issues them concurrently, and lets
its own cache run ahead of the answers.

What makes each one correct:

* engine: every new row fits its night, clear of all other rows; no episode is
  planned twice or skipped; airing episodes wait for their date; a night is not
  left with a usable gap; the call returns;
* guides: what is past when a request is made does not change by it; a regenerate
  keeps what the user has touched; unedited rows of a guide stay compatible;
  guides of one user do not share a day;
* watch tracking: the pointer is where the watched episodes have brought it and
  moves back only on request; the rotation stays within its cap;
* ingestion: what is stamped fresh is fresh; the TVMaze id and past air dates are
  never lost; what a failure has left half done is repaired;
* guide cache: whatever is shown in advance, rolled back or lost, the page comes to
  show what the server holds; what the user has just dropped does not jump back;
* guide layout: no card hides another or part of itself; a drop lands where it was
  let go, on the grid, and where the preview said; past days stay as they are;
* poster tint: one sample per title, one colour for all its cards;
* settings: what the user has left valid is saved, once, in order, and only that.

## What is hard

`PROJECT.json` lists the hazards with their lines. In short:

* creates and regenerates read in one place and write in another, with a
  computation and other requests in between (`httpserver/guides.go:147-215`);
* the rotation cap is a count in one statement and a write in another;
* marks and unmarks of many items, swaps, PATCHes and refreshes of the season
  table all act on one pointer, and *parked on the finale* looks like *moved
  past the episode before it*;
* the engine must plan around rows that a user may have put anywhere;
* calls of `EnsureTitle` for one title overlap; each holds a row it has read, writes
  to four tables in separate statements and transactions, and may fail or be cut off
  between any two of them, at midnight too;
* the cache entry of the guide is written by fetches, by drops and by rollbacks to
  snapshots taken earlier, in any order; a drop cancels the refetch others wait for;
* a drag outlives renders: the guide, the window, the scale and the day may change
  under it;
* the settings form may go away at any moment: in the middle of the debounce, of a
  save, or because a background refetch has failed;
* hooks render, run effects and get answers in steps of their own, for keys that
  change in between.

## Modules

```
                    PlanContract
        (keeps) |                  | (relies on)
            Scheduler            Guides         WatchTracking         Ingest
             |     |             |    |            |     |            |    |
 MCScheduler |     | *  MCGuides |    | *  MCW...  |     | * MCIngest |    | *

     Replica           SingleFlight      SettingsAutosave      GuideLayout
        | (implements)      | (implements)    |     |               |
   GuideCache          PosterTint  MCSettings |     | *         Calendar
    |      |            |     |                                  |     |
    | MC.. | *          | MC. | *                       MCCalendar     | *

   * = <module>_proofs
```

Each module has its own part of the state. `Ingest` and `WatchTracking` share the
season table: the former says how a table comes to be stored, the latter lets any
table be stored at any time. `Ingest`'s air dates and seasons reach the engine as
its input, which `Scheduler` takes to be anything (`InputOK`). `GuideCache` says
when the guide that the page renders changes; `Calendar` renders any guide at any
time. `GuideCache`'s server is `Guides` as a client sees it: each request takes
effect once, or not at all, and a regenerate leaves any rows around those it keeps.

### PlanContract

The interface of engine and store: `Generation(plan, alternates, kept,
windows)` says when rows are a legal answer of the engine. `Scheduler` shows
that the engine's rows satisfy it (`KeepsContract`, checked and proved); `Guides` lets
a generation return *any* rows that satisfy it, and so depends on nothing else the engine
does. A row counts minutes from its date's midnight. The zero window is a night
off, as in `guide.Window`.

### Scheduler: `guide.Generate`

| Variable | Code |
|---|---|
| `in` | the `Input`, less the seed |
| `pass`, `todo` | where `Generate` is, and what the running loop has still to visit |
| `night` | `dayState.nextMin`, `.series`, `.providers` by date |
| `taken` | `placedEps` and `moviePlaced` (a movie claims `NoEpisode`) |
| `count` | `placedCount` |
| `placed`, `alts` | what `out` has gained besides the kept rows |

A step is one turn of a pass's outer loop: `KeepRow`, `AirPin`, `MovieTurn`,
`FillNight` (one placement, or leaving the night), `OfferAlternates`, and
`NextPass`. Nothing outside the call can observe less than the whole call; the
steps exist so that the loops can be followed. The visiting orders are the
code's; kept rows that tie in the sort are taken in any order. The rng only
breaks ties, so each tie is a choice (`Longest`, `Best`) and what is shown
holds for every seed. `nextEpisode`'s loop is written as the first of the
unclaimed episodes ahead (`NextEpisode`), and the alternates, which do not
influence each other, as one step. `passAlternates` visits the slots in order
only to order its output, which `Generate` sorts anyway.

`Spec` has weak fairness of `Next`: the call is a sequential function that runs
on until it returns.

`InputOK` is what the engine may be given, and all that is assumed of it: finite maps of
nights and titles, windows that are off or not empty, titles with a runtime and a
pointer, and kept rows anywhere.

### Guides: one user's `guides` and `guide_items`

| Variable | Code |
|---|---|
| `today` | the UTC date a handler reads from its clock |
| `guides`, `items` | the tables; an item keeps `date`, `start_min`, `end_min`, `title_id`, `is_plan`, `pinned`, `edited`, `watched` |
| `reqs` | creates, regenerates and PATCHes between what they read and their commit |
| `stamp` | the identity sequences: next guide id and tag of a batch of items |

Which steps are atomic follows from the transactions, under Postgres's READ
COMMITTED:

* `StartCreate` / `FinishCreate`. The rows are generated before the transaction
  opens; the snapshot of its DELETE fixes which guides go (`doomed`), and a
  guide that another create commits later is not seen by it. The rest shows at
  commit. A guide's id and `created_at` are drawn in the transaction, so
  "newest" is the order in which creates have drawn them, here the tag.
* `StartRegenerate` / `FinishRegenerate`. The guide, its items and the clock are
  read first, with nothing but local code after the items are read and before
  the clock is; if the guide disappears between the two SELECTs of
  `GuideWithItems`, the regenerate sees no items and later finds no guide,
  which is also what the model's request does. `ReplaceUnkeptItems` locks the
  guide's row, so that two of them for one guide, or one and a create that
  replaces the guide, run one after the other: its delete and insert are one
  step, and do nothing when the guide is gone.
* `StartPatch` / `FinishPatch`. The handler fixes its `today`, may wait for
  `SwapTitle`'s query, and then for the row's lock; the transaction that takes it is
  one step, which checks the item it finds then against the day fixed before.
* `DeleteItem`, `SetWatched`: one transaction that locks the item's row, one step.
* `Abandon`: the client disconnects or the instance stops before the commit.

`handleRegenerate` drops from the engine's output every row that equals a kept
row as a value (`kept[it]`). That never drops a new row: a new plan row is clear
of the kept ones, and a new alternate carries no flag and lies on a night that is
not past, where a kept row is flagged or past. What the engine is given and returns
is abstracted by `Generates`: any set in `Plans` that honours the contract
around the rows kept.

That every item has its guide is the schema's doing (`ON DELETE CASCADE`), here that of
`FinishCreate` and of the test in `FinishRegenerate`. It is no property of its own, only a part
of the inductive invariant.

Left out: other users (every statement is scoped by `user_id`), seeds,
providers, episodes, `GuideLookups`.

### WatchTracking: `user_titles` and the watched flags

| Variable | Code |
|---|---|
| `entry` | `user_titles`: `status`, `pointer_season`, `pointer_episode`, or no row |
| `item` | `guide_items`: `title_id`, `season`, `episode`, `watched`, or no row |
| `counts` | `title_seasons` |
| `reqs` | PATCHes after the count and before the upsert; swaps after `SwapTitle` and before the UPDATE |
| `returned` | not in the code: what unmarks have put back into the rotation, which counts nothing there |

`MarkItemWatched` and `UnmarkItemWatched` are one transaction each, which locks
the item and then the entry, and one step here. `Schedule` and `Unschedule` are
the guide's side of it: a generation inserts rows of the rotation at or after
the pointer (`nextEpisode`), a delete, regenerate or create removes them. They
are more liberal than the engine, which only strengthens what is shown.
Ratings, favorites and `watched_at` are left out: nothing reads them back into a
decision.

### Ingest: `EnsureTitle`

One title, because no statement of `EnsureTitle` touches two.

| Variable | Code |
|---|---|
| `tmdb`, `tvmaze` | what the two services would answer now (external) |
| `title` | the `titles` row: `meta` for the columns from TMDB, `linked` for a `tvmaze_id`, the ages of the three stamps |
| `seasons`, `airings` | `title_seasons`, `title_airings` |
| `providers` | `title_providers`, by region and provider: how long ago TMDB gave the answer that the row is from |
| `stamper` | not in the code: the region of the call that last set `providers_refreshed_at` |
| `reqs` | calls of `EnsureTitle`: where each is, the row it holds, the IMDB id from its own metadata, what it has fetched, what its DELETE has seen |
| `quiet` | not in the code: midnights since TMDB or TVMaze last changed, for the properties |

A step is a fetch, an upsert, or half of a replacing transaction. `ReplaceSeasons`,
`ReplaceProviders` and `ReplaceFutureAirings` lock nothing in common before their INSERTs, so
under READ COMMITTED two of them can overlap: the rows that one commits after the other's
DELETE has looked survive it, unless overwritten (`Replaced`, `Inserted`). The INSERTs of
providers do not overwrite (`ON CONFLICT DO NOTHING`), so that an older row may stay
(`Unopposed`). Two of them that list a provider in common do wait for each other, at its row of
the dictionary; leaving that out only allows more. A stamp is set at the commit; the code's
`now()` is when the transaction began, which only lets it look older. A TVMaze lookup and the
upsert after it are one step, as its answer does not change.
`Stop` is every way for a call to end early: an upstream failure with nothing to
fall back on, a failing statement, a disconnect, a crash; none of them undoes what
is committed.

Time is counted in midnights: a TTL of `n` is stale at the `n+1`st. Air dates are
relative to today. A call sees at most one midnight. Spec states weak fairness of `Stop` for
each call, that is, that a call ends: it has no loop, and each of its few requests to
TMDB and TVMaze is given up after ten seconds (`tmdb.go:61`, `tvmaze.go:62`). That
title pages go on being opened, and TMDB goes on answering, is no promise of the code; it
is a premise of `SeasonsRepaired`.

Left out: the names and logos of providers, the wording of errors, search, and
`GetTitleFull`, which only reads.

### GuideCache: the query `["guide"]`, an implementation of Replica

| Variable | Code |
|---|---|
| `server` | the guide as the API would serve it: `NoGuide`, or for each item a place (`slot`) and one flag (`mark`) |
| `view`, `failed` | the query's `data` and `error`; a 404 without data is the document `NoGuide` |
| `fetch` | the query's fetch: asked or answered, with its failures so far |
| `muts` | mutations outstanding: on the way, answered, or waiting for their refetch; `previous` is the rollback's snapshot, `held` whether the component that sent it still knows (`isPending`) |
| `unsure` | not in the code: something nobody waits for has happened since the last answer |
| `missed` | not in the code: the fetch that a mutation has joined had its answer before |
| `mode` | `GuideView`'s view: the cards of the calendar, or the board |
| `fetch.after` | not in the code: the moves that were outstanding when the fetch was asked |

The mark stands for a flag that a click flips (watched, pinned) or for which of
two titles an alternate has put there. A fetch is answered with what the server
holds at some moment between question and answer. `Lose` loses a request or its
answer; a fetch that fails is repeated twice (`retry`), and then leaves the old
data. `Settle` is `onError` and `onSettled`: a refused move restores its
snapshot; all of them invalidate, which replaces a fetch in flight. Without data,
however, TanStack Query has nothing to go on showing, and joins the fetch in flight
(`Joins`), even if its answer was given before the mutation took effect (`missed`). `onSettled`
of the card's actions and of the swap returns the promise of that refetch, so
that they stay pending until it is over; that of moves, regenerate and generate
does not. `Drop` cancels fetches (`cancelQueries`), with the waits for them: the promise of
a fetch that is cancelled in favour of another one follows the other, and that of one cancelled
for good is over.

A button is disabled while a mutation of its component is pending (`Busy`). What is mounted anew
knows of no mutation sent before (`held`): a card that a drop, a rollback or an answer puts into
another column, or takes away and brings back (`CardGone`); every card and the board in a `Switch`
between calendar and board; the generate form when "Loading" takes its place (`FormGone`).

`Replica` is what this promises of a copy: it may show anything while something
is open, and closes only as the document, which it does in the end.
`GuideReplicated` is that `GuideCache` implements it, fairness included: an
action that ends with nothing outstanding leaves `view = server`, and with at
most two losses (`MaxFaults`, which is what two retries can take) that comes about;
only a generate that has been `missed` may leave the page without it (Divergences).
`EnabledShowsStored` speaks of what takes a click (`TakesClick`). It names its exceptions: an
unsettled drag, regenerate or lost refetch (`unsure`), and an earlier click whose component has been
unmounted since (`held`). Each of them is needed: without it the run fails.

### GuideLayout and Calendar: the guide page

`GuideLayout` has the mappers of `lib/guide.ts` as operators (`Columns`,
`Board`, `Layout`, `Window`, `DayOfGrid`) and the arithmetic of a drag
(`DropStart`, `GhostStart`, `NowLine`). A sort is `Sorted`, of a set by a strict total
order: an evening's picks are positions of the payload, so that the sort by start is stable
(`Sooner`), and a day's are items, which their ids tell apart (`LayoutBefore`). `Packing`
places one item after another in layout order (`Place`),
where the code collects a cluster and flushes it; positions are minutes,
where the code has factors of an hour's height. `Snap15` rounds a fraction
exactly, halves up, as `Math.round`; the heights are chosen so that an hour is a
whole number of pixels (`ScaleAssumption`). `GuidesAssumption` is the shape of a guide of the
API; an item lasts, because the store gives those that TMDB has no runtime for a default,
and its id is a primary key. `NoCell` is no id (`NoCellAssumption`).

| Variable of `Calendar` | Code |
|---|---|
| `guide`, `today` | the props of `GuideView`: the cached guide, and `todayLocal()` at that render |
| `clock` | the time that `CalendarView`'s minute tick reads |
| `height`, `hourPx` | the viewport, and `hourPxRef` |
| `view`, `chosen` | `GuideView`'s view, `BoardView`'s `selectedDate` |
| `drag` | `active` with dnd-kit's delta and the preview's time; `since`, `settled` are for the properties |
| `drops` | bounds the optimistic moves that the guide carries |
| `sent` | the PATCH sent by the last step |

A card's box (`CardTop`, `CardBottom`) is as high as its pick is long at the scale of the moment,
but at least `MinItemPx`; its columns are parts of the day's width, less a gap of 4 px that is
left out.

`Receive` is any change of the cached guide, in the middle of a drag too. A drop
renders the optimistic move at once. The column under the pointer is dnd-kit's
to say, among those that are not past, or none.

### SettingsAutosave: the settings page and PATCH /v1/me

| Variable | Code |
|---|---|
| `stored` | `users.region`, `users.schedule_prefs` |
| `cached`, `fetch`, `failed` | the query `["me"]` |
| `form`, `last`, `timer` | `SettingsForm`'s `form`, `lastAttempted`, the debounce |
| `flights` | PATCHes; `mine` while the form that sent them is mounted |
| `onPage`, `visits`, `edits`, `faults` | navigation, and bounds |
| `touched`, `wanted`, `crossed` | not in the code: what the properties speak of |

Every edit (`SetRegion`, `Toggle`, `Slide`, `ApplyToAllDays`) restarts the
debounce through the effect's conditions (`Debounce`). Leaving the page, or a
refetch that fails, unmounts the form and flushes it (`UnmountForm`). Requests
reach the server in any order. `PatchMe` validates as `prefs.Validate` does. A time in a stored
document is taken to be empty or a minute of the day (`Docs`). A text that is neither, such as
"24:00", is outside what is modelled, and the agreement of the form's checks with `Validate` is
not shown of it.

### PosterTint: posterTint.ts and its hooks, an implementation of SingleFlight

| Variable | Code |
|---|---|
| `cache`, `inFlight` | the two `ResolutionStore`s as one over titles and providers; an in-flight promise is waiting, or settled and about to be deleted |
| `hook` | `usePosterHue` / `useLogoPlate` of each component: the key and path of its last render, what it shows, whether its effect is due, calls not cancelled |
| `samples` | not in the code: calls of `extract` |

A render and its effect are two steps, as in React, and promises call back in
steps of their own. What the canvas finds is any hue, or a failure. `SingleFlight`
says what remains of it: a key gets one value, readers show a default or a value,
and a reader that stays with a key comes to show its value.

## Runs

`tlc -workers 2 -config X.cfg M`, each under three minutes. Deadlock is not
checked in `MCScheduler` (the call returns), in `MCGuides` (everything may be
deleted and all ids spent: `MaxStamp`) and in the four of the web client (a
closed page, spent bounds).

| Run | Question | Distinct states |
|---|---|---|
| `Scheduler` (`MCScheduler.cfg`) | does the engine keep its promises? | 28,152 |
| `GuidesConcurrent` | two creates or regenerates in flight, over edits | 446,684 |
| `GuidesSequential` | one at a time, three days, every kind of edit, over midnights | 1,616,499 |
| `GuidesOverlap` | two creates for the same days (fails, see Divergences) | |
| `WatchPointer` | every order of marks and unmarks of a series | 16,044 |
| `WatchRaces` | swaps, PATCHes at the cap, refreshed season tables | 2,483,193 |
| `IngestMetadata` | refreshes of metadata and seasons that overlap and fail | 1,235,568 |
| `IngestAirings` | replacements of air dates and of providers over midnights | 3,258,268 |
| `Calendar` | drags, swaps and midnights over a page that re-renders | 294,428 |
| `GuideCache` | is the cached guide a replica of the server's? | 388,324 |
| `Settings` | is every valid edit saved, and nothing else? | 647,664 |
| `PosterTint` | is it one sample and one colour per title? | 196,804 |

What each property says is in the comment before it; those whose name ends in
`Sound`, `Timely`, `Shown` or `Land` are made of named parts, each with a comment of its own.
The bounds and why they are enough:

* `MCScheduler`: every combination of four calendars (two or three nights, one
  of them off, windows of two and four slots), rotations of a movie, a series
  and an airing series (providers shared and disjoint, the pointer in and past a
  season, the air date before, on, after the night or unknown) and six sets of
  kept rows (in the way, out of the window, overlapping each other, duplicates
  of an episode, of a title that has left the rotation, of a night outside the
  guide, alternates). `AlternateCap` is 1 where the code has 3, so that there is
  something to cut off. A conflict in the engine involves one night, its
  neighbour, and at most three titles.
* `MCGuides`: evenings of two slots and titles of one and two, so that a kept
  row and a new one fit exactly, and rows planned blindly collide. A conflict
  needs two requests and one edit between them; `GuidesConcurrent` has three
  creates or regenerates, and any number of PATCHes, two requests at a time.
  `GuidesSequential` has one request at a time, and three days, so that two midnights may pass
  under it. Permuting the request slots is
  a symmetry: they are only compared for equality, and the temporal
  properties are all of the form `[][A]_vars`.
* `MCWatchTracking`: two seasons (two episodes and one), which is every branch of
  `nextPointer`; `WatchRaces` changes the table to one that is longer, lacks the
  last season, or is empty. Its cap is 1 with three titles, so that two PATCHes
  in flight overshoot it and an unmark adds to that.
* `MCIngest`: two calls at a time and any number of them one after the other. A TTL
  matters only as within or past, so that TTLs of none and one midnight do; the metadata's is the
  longer one in `IngestMetadata`, as in the code. `IngestMetadata` has two editions of a series, one
  airing with two seasons, one ended with one longer season, so that a season table can grow,
  shrink and mix, and no air dates or providers. `IngestAirings` has two titles that TMDB leaves as they are
  (`TitleStays`, `AiringOrStreaming`). One is on the air, with one episode and
  dates up to three days ahead, so that a date is still to come when `AiringsTimely`
  first applies, three midnights after it was published. The other has ended and is seen in two
  regions, so that a row of either may outlive a replacement of its own region and of the other.
  Metadata, air dates and providers interact only through whether the title airs, which
  `IngestMetadata` varies; the theorems have no such split.
* `MCCalendar`: four guides of two nights. Between them: a long pick over two
  short ones that touch and one apart; a pick of a quarter of an hour, lower than a card may
  be, that touches the next; a pick that runs past midnight; starts and
  runtimes off the quarter hour; alternates beside, before and after a pick of
  their hour; two picks of one provider in an hour; a guide of nothing but an
  alternate. Two heights, one of which is under the floor of 56 px for some of the
  windows; offsets that leave the window at either end, and one of 14 px, which is a
  quarter of an hour at one scale and not at the other. One optimistic move at a
  time; every guide may arrive again after it.
* `MCGuideCache`: two items, two slots and two operations at a time, in two
  columns, over guides with none, one and two items or none at all, and any number of switches
  between calendar and board; two losses,
  which is as many as the retries can take.
* `MCSettings`: two days and two regions; a track of three stops; documents that
  are whole, lack a day, have an empty text, an end before the start, or times off
  the stops and off the track. Two edits, two visits or refocusings and one loss: a
  conflict is between an edit, a save in flight and a change of page.
* `MCPosterTint`: two titles and a provider, two cards and a chip, four renders or
  unmounts: a card that changes its title while another waits for the same one.

Fairness is stated where something is to come about, and of nothing but what the
program or the browser does by itself:

* `Scheduler`: the call runs on until it returns.
* `IngestMetadata`, `IngestAirings`: a call of `EnsureTitle` ends.
* `GuideCache`: requests are answered, by an answer or a loss, and answers are handled. Users
  do nothing they do not want to, and losses have no fairness.
* `Settings`: timers fire, requests are answered, answers are handled.
* `PosterTint`: effects run after renders, images load or fail, promises call back.

## Divergences

`GuidesOverlap` is expected to fail, on a property taken from a comment: a create
"atomically replaces" overlapping guides (`store/guides.go:241`), but of two at once
both survive.

More that the modelling has shown, each without a run of its own:

* `CurrentGuide` "returns the newest guide still covering today"
  (`store/guides.go:304`); its query takes the newest that has not ended, which may not
  have begun.
* A later mark is said to leave the pointer to itself (`store/guides.go:564`), but not
  when the pointer is parked on the finale: the unmark of the episode before the
  finale then moves it back, although the finale is still watched.
* An unmark "mirrors the pointer/status writes" of the mark (`store/guides.go:557`); it
  also writes where its mark wrote nothing.
* An unmark puts a title back into the rotation without counting it
  (`store/guides.go:650`), so the cap of ten is not one. `RotationBounded` is of the rest.
* Failed classes "retry next hit" (`ingest/ingest.go:163`); a TVMaze lookup that failed
  waits until the metadata expires, thirty days, since only a metadata fetch
  yields the IMDB id that the lookup needs (`ingest.go:170`).
* The stamp of the providers is shared by all regions (`ingest.go:116`): where one region
  has just been fetched, another, never fetched, counts as fresh, for up to
  seven days. `ProvidersStamped` is of the region that was stamped last. Of that one, too, the
  stamp can be set over rows of an answer of two midnights before.
* The comment in `guide/guide.go:335-346` takes an episode without an air date for back catalog,
  because the table only ever gains future episodes; `ReplaceFutureAirings` also drops a date
  that TVMaze has withdrawn. It says, too, that airings refresh daily; they refresh when
  someone opens the title page.
* What is past for a PATCH is fixed before `SwapTitle`'s query and the row's lock
  (`httpserver/guides.go:260`): one that was sent before midnight and commits after it moves an
  item of the day that has just ended, or into that day. `PastIsImmutable` is relative to the
  request's own day, as it is for a regenerate.
* The comment in `handleRegenerate` that touched items are kept "regardless" does not hold
  for items touched while it is in flight; those touched *before* are safe, and that is
  proved (`TouchedBeforeStays`).
* The engine design of 2026-07-08 (lines 97-99) does not schedule an airing episode
  without a known air date, the code does. `AiringRule`, a part of `AiringSound`, states the code's rule.
* The preview "can never disagree with where the item lands"
  (`GridDragPreview.tsx:33`): it does when the guide or the scale changes after the card's
  last move, because the pill is computed on moves only. `LandsAsTold`, a part of `DropsLand`, excepts that.
* Columns are packed by time, and "touching edges do NOT overlap" (`guide.ts:229`), while a card is
  never lower than 22 px (`GridItemCard.tsx:56`): at 56 px an hour a pick of less than 23.6 minutes
  hangs over the one that begins as it ends, or out of the grid. `NoCardCovered` and `NoCardCutOff`,
  parts of `CardsShown`, except exactly that.
* "Numbered cards are your evening" (`BoardView.tsx:134`): a second pick of one provider in
  one hour has a number and no card (`guide.ts:143`). `BoardShowsPicks`, a part of `BoardSound`,
  states what holds.
* The board's selected date is chosen when it opens and may lie outside a guide
  that arrives later; the board is then empty under the first day's heading.
* "Avoiding a stale-hue flash" (`usePosterHue.ts:19`): an answer for the title shown before can still
  arrive between the render with the new one and the effect that cancels it; the effect's
  own call then puts it right, which is what `SettledAgree` says.
* The flush (`SettingsBody.tsx:164`) is "a data-loss fix" with three gaps, which `SavedIsWanted`
  excepts by `crossed`. It does not wait for a save in flight, and the server may apply it
  first. An edit that goes back to what was last *attempted* while a save of
  something else is in flight is not flushed, since it equals the last attempt. And a
  page reopened before its refetch has arrived is seeded from the cache of before the
  save, so that its next edit saves the old values of everything else.
* While the guide is `NoGuide`, a refetch on focus shows "Loading" in place of the form,
  which comes back without knowing of the request it has sent (`GuideBody.tsx:102`); a
  second generate may then be sent, the case of `GuidesOverlap`.

* `GenerateBar` invalidates to have its guide shown (`GenerateBar.tsx:51`), but while a fetch
  is in flight without data (after a refetch on focus) that joins it: if its 404 was
  given before the guide was made, the page goes on offering to generate until it asks again. `Replica`
  has this exception as `missed`.
* `onSettled` returns its promise so that a card is not clicked on a stale state
  (`useGuideItemMutations.ts:28-38`). A switch between calendar and board and back, or a change of
  the card's column, mounts it anew, and it takes a click at once (`GuideBody.tsx:82`).

## Proofs

`tlapm M_proofs.tla` checks the theorems about `M`, for every value of its constants.
Assumed are the `ASSUME`s of the module: the types of the constants, and
that the marks which stand for "none" or "idle" are none of the values they are told apart
from. Each proof is of an inductive invariant `IInv` (of `TypeOK` with it), which TLC
had checked on the constants of the module's runs before it was proved. Every
theorem of the form `Spec => []P` or `Spec => P` below names the property `P` that a run checks
on a small instance, unless it says otherwise.

### Scheduler

Whatever the input, the seed and `AlternateCap`:

* `TypeCorrect`: `TypeOK`
* `ContractKept`: `KeepsContract`, the contract under which `Guides` is proved
* `EpisodesAreSound`: `EpisodesSound`
* `AiringIsSound`: `AiringSound`
* `PlanFills`: `PlanIsFull`
* `ProvidersAreSound`: `ProvidersSound`

No property of the plan is inductive, because the passes decide on `night` and `taken` and
the properties speak of rows. `Core` ties them: a night's `next` is at or after the end
of every row that has claimed its place (`On`: in the keep pass, the kept rows visited),
its titles and providers are those of its rows, and `taken` is what all rows
show (`NightInv`, `TakenInv`). It says of every new row that it is right in itself and apart
from each other row (`RowsInv`). That a row opens a provider only when it must is kept although
rows follow it, because a row placed later on a night starts later
(`OpensLast`). The other parts follow the order of the passes. `PassInv`: a pass has
a part of its work to do, and alternates come last. `ViewInv`: while nights are filled in
order, what is filled in of a series comes before everything still unclaimed of it, from
which viewing order and the absence of gaps follow. `GoalInv`: what a pass has
visited is as it leaves it (an air date has its episode or no room, a movie its night or
none, a night no candidate), and remains so, since claims grow and room shrinks (`Grows`).
`AltsInv`: the alternates are as promised of the finished plan; that a slot has at most
`AlternateCap` of them is by the injection of an offer to its rank (`ShortlistBounded`).

### Guides

For every calendar, preferences, set of plans and edits, number of requests and `MaxStamp`:

* `TypeCorrect`: `TypeOK`
* `UneditedStaysCompatible`: `UneditedCompatible`
* `TouchedBeforeStays`: `TouchedBeforeIsKept`
* `PastStays`: `PastIsImmutable`, with any midnights and other requests in the middle of a PATCH or
  regenerate
* `GuidesAreDisjoint`: `GuidesDisjoint`, as long as no two creates are in flight together
  (`OneCreate`); without that it is false (Divergences)

`UneditedCompatible` is not inductive: a regenerate inserts rows that were
planned around a state it read earlier. The invariant `IInv` says what makes it
so. The rows a request carries satisfy the contract around the rows it saw
(`RowsCompatible`); the tag of a request in flight belongs to no item and no
other request, and ids only grow (`TagsFresh`, `SeenFresh`); and an item that a
regenerate saw, is still there and is unedited, was unedited then, in the same
place and with the same title (`SeenOK`). The last is the heart of it. When the
regenerate commits, every surviving row is one it kept, hence one it planned
around; whatever was inserted meanwhile is deleted; and a row that has since
moved is edited, and outside the claim.

`GuidesAreDisjoint` rests on `CreatesSee`: a create in flight shares no day with a guide that
it does not delete. The commit of another create is all that could change that.

The contract this assumes of the engine is part of `Guides` (`Generates`), and
`ContractKept` proves it of the engine.

### WatchTracking

For any titles, season tables, cap, PATCHes and number of requests:

* `TypeCorrect`: `TypeOK`
* `PointerMovesBack`: `PointerMovesBackOnRequest`
* `RotationIsBounded`: `RotationBounded`
* `WatchedStaysBehind`: `WatchedBehindPointer`, and `PointerStaysSound`: `PointerSound`, both
  under `OneGuide` and `SeasonsRest`

The bound on the rotation is not inductive, because a PATCH that has been
counted and not yet written is in no table. `ClaimedBound` counts its title with those that
are in the rotation by their own admission (`Claimed`): a check admits only below the cap, and
the PATCHes between their check and their write are at most as many as there are requests.
Titles that an unmark returns are outside the count (`returned`).

`OneGuide` (nothing but marks and unmarks moves a pointer; no swaps; no
episode twice) and `SeasonsRest` (one season table without holes or empty seasons)
are what the `WatchPointer` run instantiates, which TLC
confirms (`OneGuideAssumption` of `MCWatchTracking`). Without them both properties are false of the code,
as PATCHes, swaps and refreshes put a pointer anywhere; `WatchRaces` does not check
them. The invariant adds that the items present are their slots' own rows and
belong to titles with entries (`OwnRows`).

### Ingest

For any catalog, seasons, episodes, horizon, regions, providers, TTLs and number of calls in flight:

* `TypeCorrect`: `TypeOK`
* `MetadataIsTimely`: `MetadataTimely`
* `ProvidersAreStamped`: `ProvidersStamped`
* `AiringsAreTimely`: `AiringsTimely`
* `LinkIsKept`: `LinkKept`
* `PastIsKept`: `PastAiringsKept`

What a stamp promises depends on what was in the calls' hands when they wrote. The
invariant (`CallsInv`) says how old that may be. What a call holds of TMDB's or TVMaze's
answer is theirs of the last midnight it has seen, or later (`MetaInv`, `FetchedInv`): if
they have not changed since, it agrees with theirs now. And of two replacements
that overlap, a row which one leaves standing comes from a call that has seen one midnight more
at most (`RowsInv` of air dates, `OfferInv` of providers); this is where the second midnight in
`AiringsTimely` and `ProvidersStamped` comes from.

### GuideCache

For any items, slots, columns, first documents, mutations outstanding at a time, operations and
losses:

* `TypeCorrect`: `TypeOK` (no run lists it; with it, whoever waits for a refetch has one)
* `CardsShowStored`: `EnabledShowsStored`, with its exceptions
* `DroppedCardStays`: `DropStays`
* `ClosedIsStored` and `GuideImplementsReplica`: every step is a step of `Replica` or a
  stutter, the safety half of `GuideReplicated`

The invariant is about three copies of the document. A fetch was asked after every move that
is outstanding, since a drop cancels the older ones (`FetchInv`). Its answer is the server's document
still, but for the items that unsettled mutations touch and unless a mutation joined it late
(`AnswerInv`), and so is the view, but for
what outstanding ones touch, unless something that nobody waits for has happened
(`ViewInv`). What a mounted card or board has sent, it has sent in the present mode (`HeldInv`), so
that a component that is not busy has nothing outstanding that is still held. With nothing open there is no exception left, and the view is the document
(`ClosedInv`).

### SettingsAutosave

For any days, regions, slider, stored documents, number of saves in flight, edits, losses and
visits:

* `TypeCorrect`: `TypeOK`
* `EditsSaved`: `SavedIsWanted`
* `SavesAreSound`: `SavesSound`
* `SlidesAreValid`: `SlideMakesValid`

`FormInv`: the timer runs exactly when the debounce's conditions hold, what is sent is valid,
and nothing is attempted before the form is touched. `SyncInv`: as long as nothing has
crossed, at most one save is in flight and will succeed, with none the store is
what was attempted last, and what the user wants is in the form or in that save.

### Calendar

For any guides of the API, days, minutes, heights, offsets of a drag and number of optimistic
moves:

* `PastStaysLocked`: `PastDaysLocked`
* `DropsAreTrue`: `DropsLand`
* `NowLineIsRight`: `NowCrossesWhatIsOn`, for a guide whose picks are on the clock, that is, begin
  on their day and are over by the end of the next
* `DropsStayOnTheClock`: a drop keeps them there (no run lists it)
* `CardsAreShown`: `CardsShown`, and before it `WindowIsRight`: `WindowFits`, the part of it that
  speaks of the window
* `BoardIsSound`: `BoardSound`
* `SortedIsASort`: what `Sorted` returns, for any finite set and strict total order on it

The state is typed (`PageInv`), and a drag holds an item of the API's shape, on a day that was
not past when it was picked up, with the preview's time that of its offset, if it
has moved since the last render (`DragInv`). For drags and the now line the rest is arithmetic. `WindowFacts`: the window is whole hours
around all picks. `DropFacts`: snapping to quarters of an hour and clamping to the window finds the
nearest slot, although the distances are products of minutes and pixels.

That cards neither cover nor narrow each other, for any number of picks, is an induction over the
packing, whose invariant is `PackInv`. What is placed stands in one column of one cluster
(`PackOnce`); clusters follow one another in time (`PackApart`); `ends` has the
last end of each column of the cluster that is still open (`PackEnds`); two items of one column do not
overlap (`PackSingle`); and where an item begins, one runs in every column before its own
(`PackStacked`), because a column is opened only if none is free. Items come by start, so what
runs in a column still runs when the next begins. Where the item in a cluster's last column begins, the
running items and the columns then are one to one (`CardsWide`). From columns to boxes it is
arithmetic: different parts of one width do not meet (`PartsApart`), and down the grid boxes
stand as their times do, unless one is raised (`BoxFacts`). `DayPacked` does the
induction with a set of numbers (`CountingUp`) instead of the library's theorem, whose
hypothesis is an operator; `PackingFacts` shows in the same way that the recursive function
`Packing` exists, and so that it satisfies its equation. The board rests on `ByStartFacts`: an evening
has every pick once, in the order of starts.

The API keeps picks on the clock as far as titles are shorter than a day (a PATCH has a start
of `0..1440`). So do drops, except in one case: an item that has become longer or shorter under the drag, by a swap in
another tab, is given the room that it took when it was picked up (`LengthKept`).

### PosterTint

For any titles, providers, components, number of renders and whatever sampling finds:

* `SampledAtMostOnce`: `SampledOnce`
* `CardsAgree`: `SettledAgree`
* `TintsAreOneFlight`: `Spec => Flight!Init /\ [][Flight!Next]_(Flight!vars)`, the
  safety half of `TintsSettle`

Its invariant has two parts. For a key (`KeyInv`): once it is sampled there is a
promise or a value from then on, and a promise that is settled has left its value in
the cache, so deleting it in `finally` loses nothing. For a hook (`HookInv`): an answer
in hand is what the cache holds, and once the effect has run every answer to come is
for the hook's present key.

### Only model-checked

* Liveness, which is out of the prover's reach: `Returns`, `SeasonsRepaired`,
  `EditsAttempted`, and the liveness halves of `GuideReplicated` and `TintsSettle`.

Every invariant of a passing run, and every action property, is stated by a theorem.

## Not modelled

* The clients of TMDB and TVMaze: one retry each; planned.
* Signing in, migrations, configuration, deployment: no state of their own, or a
  library's.
* The other pages of the web client. Shelves, search and the title page show what the
  API returns; their mutations are single requests followed by a refetch, and the
  server's side of them is `WatchTracking`.
* Of the guide page: labels, colours and styles, keyboard coordinates, and dnd-kit's
  collision detection, which is a free choice of column; the pixel arithmetic of a
  sampled image, which is a free choice of hue; a drag under which the guide loses all its
  picks, which takes the grid away.
* Queries of TanStack Query are modelled from how the pages use them: one entry at a
  time, without its garbage collection, and without changes of the signed-in user.

## Plan

1. `PlanContract`, `Scheduler`, `Guides`, `WatchTracking`, `Ingest`: done.
2. `GuideCache` with `Replica`, `SettingsAutosave`, `GuideLayout` and `Calendar`, `PosterTint`
   with `SingleFlight`: done.
3. Proofs: `Guides`, `PosterTint`, `WatchTracking`, `SettingsAutosave`, `GuideCache`, `Ingest`,
   `Scheduler`, `Calendar`: done.
4. `ApiClient`: one retry, Retry-After and its clamp, the deadline. Both clients
   as instances.
5. `Lineup`: `Guides` and `WatchTracking` composed over the items they share, with
   the engine's contract; an abstract guide (a set of nights, a set of things
   seen) which it implements.
