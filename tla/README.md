# Verification of stophammer in TLA+

stophammer indexes music feeds. One **primary** node accepts crawler submissions
and operator requests, keeps its tables in SQLite, and writes a signed, numbered
event for each change. **Community** nodes replay that event log into tables of
their own, from pushes and from a fallback poll. This directory models the parts
whose correctness depends on the order in which things happen: replication, the
push peers, reconcile, the identity and the content of a feed record, and the reads
that a client makes while all of it changes.

| module | what it models | source |
| --- | --- | --- |
| `Replication` | event log, push, poll, apply transaction, cursor, restarts | `db.rs`, `api.rs`, `apply.rs`, `community.rs` |
| `PrefixReplica` | abstract: a replica serves a growing prefix of the log | - |
| `Peers` | registration, subscriber cache, deliveries, eviction | `api.rs`, `db.rs`, `main.rs` |
| `Reconcile` | `POST /sync/reconcile` and a client of its contract | `api.rs`, `db.rs`, `sync.rs` |
| `FeedMove` | how a record changes its URL | `api.rs` `move_target`, `db.rs` `write_feed_move` |
| `FeedLifecycle` | admission, retirement, holds, blocks, crawl cache | `api.rs` `handle_ingest_feed`, `db.rs`, `blocks.rs` |
| `GuidChange` | a source that declares another GUID: pending row, decision, transition | `api.rs`, `db.rs`, `apply.rs` |
| `FeedContent`, `MCFeedContent` | rows, lists, tracks, copies and search rows of a record; diff events and their apply | `db.rs` `ingest_transaction`, `build_diff_events`, `api.rs`, `apply.rs` |
| `PublisherLinks` | links between albums and publishers, resolved at read time | `query.rs`, `db.rs` `resolve_listed_feed` |
| `ArtistNames`, `MCArtistNames` | the artist list in memory over changing tables | `query.rs` `ArtistNameCache` |
| `LiveItems` | selection of live items, now and upcoming views | `live.rs`, `query.rs` |
| `Pages`, `MCPages` | the list routes, read page by page | `query.rs`, `search.rs`, `db.rs` |
| `ReplicationProofs`, `FeedMoveProofs`, `FeedLifecycleProofs`, `GuidChangeProofs`, `FeedContentProofs`, `ArtistNamesProofs`, `PagesProofs` | the theorems about the module each extends | - |
| `SyncProofs` | the theorems about `Peers` and about `Reconcile` | - |

`PROJECT.json` gives the source lines of every definition, the runs, the mutants,
the hazards and the findings.

## 1. Inventory

### Components, state, operations

* **Event log** (`db.rs`, `event.rs`, `schema.sql`). State: the `events` table and
  the feed, track and claim tables. Operations: an ingest writes a diff of rows and
  their events in one transaction (`ingest_transaction`); retirement, track removal,
  blocks and relocation write one or a few. `seq` is `MAX(seq)+1` inside the
  transaction. Correct when readers see committed rows only, rows and events agree,
  and a rollback leaves no trace.
* **Apply** (`apply.rs`). One transaction per batch under the writer lock: for each
  event insert the event row or stop at a duplicate, then the effect; raise the
  cursor once; commit. Correct when cursor, event rows and tables appear together.
* **Push handler and poll loop** (`community.rs`). State: persisted cursor, in-memory
  `last_seq`, time of the last push. The loop polls when pushes have been silent,
  drains pages, and moves `last_seq`. Correct when nothing is skipped for ever.
* **Push fan-out and peers** (`api.rs`, `db.rs`). State: table `peer_nodes`, cache
  `push_subscribers`, one delivery per batch and peer. Correct when table and cache
  agree and every delivery ends.
* **Reconcile** (`api.rs`, `sync.rs`). Two reads with three caps; pages.
* **Ingest and feed identity** (`api.rs`, `db.rs`, `ingest.rs`, `verify.rs`,
  `verifiers/`). A read phase checks blocks, moves and content hash on a reader
  connection; a write phase classifies and writes under the writer lock. State:
  `feeds`, `feed_left_urls`, `feed_move_state`, `retired_source_holds`,
  `feed_blocks`, `source_gone_answers`, `feed_crawl_cache`, `feed_guid_changes`,
  `feed_copies`. Correct when a record moves only as its source says, a retired GUID
  comes back only through its source, and a gone source is retired.
* **Operator actions** (`api.rs`): retire, block, unblock, release, relocate, resolve
  a copy, decide a GUID change.
* **Record content** (`db.rs`, `apply.rs`, `search.rs`). State: feed row, lists, tracks
  with routes, copies, search rows. An ingest writes the whole body and signs events
  for what a comparison finds changed. Correct when a node that has only the events has
  the same tables, and when the search rows follow the medium.
* **Query API** (`query.rs`). Publisher links are computed at each read, from either
  side; the artist list is kept in memory and rebuilt; lists are paged by a cursor that
  names the place of a row. Correct when the routes agree with each other, the copy in
  memory catches up, and a client that follows the cursors misses no row.
* **Live events** (`live.rs`): which items of a body become rows, and the views over them.
* **SSE registry**, **migrations**, **signing**, **fetch guard**, **TLS**, **OpenAPI**:
  not modelled (section 9).

### Interactions and what is hard

The primary's commits reach a node over two paths at once, a push task per commit
(unordered, lossy, retried) and the poll. Both end in `apply_events`, which is
serialised by the writer lock. Reader connections see committed rows at another time
than the writer. Handlers read in one phase and write in another; some writes follow
the commit they belong to. Processes restart between any two of these. The clock
drives push silence, gone answers and the wait after a return. A reader makes several
reads for one answer and several requests for one list, with commits between any two.
What is not compared is not replicated. The hazards that follow are listed, with their
lines and the properties that cover them, in `PROJECT.json`; where the code does not do what
one would want, the hazard has a note and section 7 an observation.

## 2. Replication

`log`, `tables`, `committed` and `ptx` are the primary: the event rows, the content of
the tables after each row, how much readers see, and the open ingest. An ingest is
`BeginIngest`, one `IngestRow` per event in the order of `build_diff_events`, and
`CommitIngest` or `RollbackIngest`; retirement and track removal are one step.
`FanOut` hands the batch to `net`. On the node, `OpenTx`, `ApplyRow`, `CommitApply` and
`AbortApply` are `apply_events`; `PushArrives`, `PushFails` and `PushTimeout` the push
path; `PollStart` to `PollAdvance` the poll loop; `Restart` loses memory, not the
database.

Abstractions. An event is its sequence number, and the content of a table row is the
number of the event that wrote it. The many row families replaced as a whole (routes,
remote items, live events, source claims) are members of `Families`. Signatures always
verify. Search index and scores are written in the same transaction and left out.

Runs:

* `push` (1 feed, 1 track, 3 events, 2 attempts, pages and push limit of 2, one abort,
  one restart): the cursor is always an earned one, every served row was written by a
  recorded event about it, no row is without its feed, sync state only grows, and a
  repeated delivery changes nothing. Three events are the fewest in which a gap, a
  duplicate and a later event exist together; two attempts let a batch that was applied
  come again.
* `poll` (5 events, one row family, restart, no push, no abort): the node refines
  `PrefixReplica` with the mapping `hist` = committed tables, `view` = the node's
  tables, `at` = its cursor; it skips only what it recorded; it catches up and its
  tables converge. Five events are more than one drain of two pages of two.

Fairness (`FairSpec`): weak for the poll loop's own steps, the apply task and the
push timeout, which the runtime schedules and the clock ends; strong for `PollFetch`,
because a request that is repeated for ever is answered some time. Nothing is assumed
of the primary, of pushes, aborts or restarts. No run of `Replication` disables the
deadlock check: the poll loop can always take a step.

## 3. Peers and Reconcile

`Peers` keeps the `peer_nodes` rows (`table`, `failures`), the `cache`, the registrations
under way (`regs`) and the state of every delivery (`task`). Writing the table and
filling the cache are two steps, as in `handle_sync_register`. `CountFailure` is
`handle_push_failure` with its two statements: the count is written (`WriteCount`) and read
back for the comparison (`Evict`); with failing statements either may be missing, and a count
that cannot be read back is taken for 0 (`MissCount`). History variables: `blame`, which
deliveries were counted since the last reset, and `missed`, the nodes whose spent count was
not read back. The run `peers` (2 nodes,
2 starts of nodes, 2 batches, 2 attempts, 1 slot, threshold 3, failing statements, one
restart) shows that pushed nodes have rows; that no failed delivery and no success keeps
or brings back a node whose count is spent (`SpentNodesAreEvicted`, a property of steps:
section 7 has the registration and the unread count that may); that an eviction stands on at least half the
threshold of failed deliveries; and that every delivery ends. With two batches a
rejecting delivery and another failure reach the threshold of 3; two starts are one for
each node or a node that starts twice. Fairness: spawned tasks run, and each attempt has
a timeout. Deadlock checking is off: the bounded run ends.

`Reconcile` has the handler's two reads (`ReadRefs`, `ReadEvents`) as separate steps
with commits between them. The repository has no client, so the client follows the
comment in `sync.rs`; it is marked external. The run `reconcile` (caps 3 refs, 2 events,
3 entries, log of 5) shows that a session ends and delivers its first window. The caps
keep the order of the real ones (refs above events) and the log passes both. Fairness:
the node keeps asking, the handler answers, and an answer sent again and again arrives.
Its specification is `SessionSpec` (`FairSessions` with the fairness), so that one module
of proofs can extend both `Peers` and `Reconcile`.

## 4. Feed records

`FeedMove` follows one record. `offers` are the submissions that the URLs give rise to:
source URL, canonical URL, whether all hops of the redirect are permanent, and the
`itunes:new-feed-url` tag and self link of the body. `Decision` is `move_target`;
`Ingest` is the write phase up to the commit and `FinishIngest` the three statements
after it, with `Crash` between any two. `Relocate` is the operator. `age` is the time
since the last return. History variables: `visited`, `recent`, `stated`.

* `move` (2 URLs, submissions of any content at any time, one relocation, one crash,
  waits 1, 2, 4 and a reset after 6): the left URLs are exactly the URLs the record had;
  a mirror body takes a record back only if the current source has newly asked for it;
  in the time of the longest wait there are no more returns than the growing wait
  allows. The numbers keep base < limit < reset and reach the limit of the wait.
* `move_loop` (3 URLs, every combination of tags, self links and redirects, all fixed):
  the record stops moving. Three URLs give circles that pass through a third URL.
  No fairness is needed: the property says moves cannot go on for ever.

`FeedLifecycle` follows one GUID. A submission is verified in one step (`Verify`,
`NoChange`) and written in a later one (`Admit`, `Replace`, `Update`, `Move`), with all other
actions between them. `Drop` is any rejection that writes nothing here. `others` are the URLs
that records of other GUIDs have, which come and go at any time (`OtherRecord`); they decide
the class of a submission. `Replace` is the GuidChange arm, in which the followed GUID takes
the place of another record: it looks neither at the hold nor at `podcast:block`, and its
second transaction may fail after the other record is retired. `Superseded` is the same
change the other way round. Whether a body moves the record, and whether a change is
approved, are free here (`FeedMove`, `GuidChange`). `retired` is what the event log says for
`fill_retired_source_holds`. History variables: `answers`, `owner`.

* `lifecycle` (2 URLs, 1 submission under way, one seeded block, two units until a gone
  source retires): record, hold and gone rows agree; a held GUID returns through its URL,
  or by `Replace` and in no other way (section 7); a release lasts over restarts; one gone answer never retires; a source that stays gone
  loses its record. Two URLs separate the source from another one. Fairness: the crawler
  keeps reporting and time passes. The run allows any number of restarts, blocks and
  operator actions.

Deadlock checking is off in both: a bounded clock and a full set of submissions may
leave nothing to do.

`GuidChange` follows several GUIDs that compete for the source URLs. `change` is
`feed_guid_changes`, `links` is `feed_guid_supersessions`, `ingest` is the submission
that holds the writer lock. The transition is two transactions in the code, so
`Transition` and `AdmitChanged` are two actions, with `Crash` and `InsertFails` between
them; the return to the old GUID is likewise `ReturnToGuid` and then the update. `fits` says
whether the `CHECK` constraints of the tables take the body, which nothing asks before the
insert: `InsertFails` is a third record at the URL or a body that does not fit. `Refuse` is
the track limit or a build step, before the transition. `node`
is a community node that applies each event of a transaction in order. Which of several
rows a decision names, and whether a body repeats the cached hash, are free.

* `guid_change` (3 GUIDs, 2 URLs, one GUID the UUIDv5 of one URL, 5 bounded steps): a
  record is retired for another GUID only if that is the UUIDv5 of the URL or the last
  decision on this URL and this GUID was approve; once the old GUID is retired, only a crash
  or store error, a third record at the URL or a body that does not fit keeps the new one
  out; the node has the same records, links and open
  questions. Three GUIDs let a third one come between a decision and its use; two URLs
  let a relocation or a second record take the URL. No fairness.

`FeedContent` follows the tables of one record on the primary (`main`) and on a node
(`node`). A list is one value, of which 0 is the empty one; `fields` is what the code
compares, `built` what it does not, `pay` the routes of a track. `AllEvents` and
`ChangedEvents` are the two halves of `build_diff_events`, as the events about each row;
`ApplyAll` applies the events about one row and `ApplyEach` goes through the lists, the
tracks or the URLs row by row, in one fixed order. An ingest is `ApplyIngest`: feed row,
lists, tracks, removals. Every writer (`Admit`, `Update`, `Move`, `Mirror`, the operator
actions) applies its events to the node in the step that commits. `SyncReadModels` is the
search index. `judged` and `seen` are history: what
the operator decided on, and what the URL of a copy sent last.

* `content` (3 URLs, 1 track, 2 lists, 7 bodies that differ in one thing each, at most
  1 copy and 2 bounded steps): a node has the feed row, lists, tracks, copies,
  observations and blocks of the primary; both search indexes hold what the medium calls
  for; copy rows are bounded; a decision on a copy holds only for the body it was made
  on. One copy with three URLs reaches the limit; seven bodies cover each comparison,
  an emptied list, a removed track and every change of medium. No fairness.
* `track_routes`: section 7.

## 5. Reads

`PublisherLinks` has no state: `Resolve` is `resolve_listed_feed`, `MusicToPublisher` and
`PublisherToMusic` are the two directions of a link, `Row` and `Rows` what a feed's answer
shows, `FeedsNaming` and `DistinctArtists` the two searches that begin at the named feed.
`ArtistNames` puts the tables under it. A request takes the lock, reads the highest event
number and uses or rebuilds the list; `ReadPublishers`, `ReadFacts`, `ReadMusic` and `ReadRows`
are the reads of a build and writes commit between them. `ArtistList` is the reference:
the list of tables that stand still.

* `names` (3 feeds, 3 URLs, every combination of publisher and album bodies, with and
  without URL observations, one write, restart or failed build; an album has a real artist,
  the text "Unknown Artist" as its author, or that text as the placeholder for none): a list
  whose marker is the current number is the reference list, and when the writes stop the list
  catches up, both up to the text "Unknown Artist" among the artists of a publisher
  (`KnownList`, section 7).
  The album's view of a link and the publisher's agree, the searches find what the views
  show, and credit is mutual when no feed names another twice. The tables a node may open
  are all of `MCStart`, so each of them meets each write. Fairness: clients keep asking, the
  blocking task runs, time passes. Deadlock checking is off: with the list current and
  the writes spent nothing is left to do.

`LiveItems` selects the live rows of a body and puts them in views. `Pages` is one walk of a
client over one route: `query` are its parameters, `walk` the request under way with the
cursor it came with, `table` the rows. `Place` is what the cursor of the route says of a
row, `Follows` the SQL condition on it, `Orders` the sequences that the ORDER BY of the route
allows: rows that it does not tell apart (tracks with one `created_at` and one track GUID)
come in any of their orders. Routes with one read are `OneRead`; the others have
an action for each read: the named routes, the search in two statements, the copy records
one GUID at a time, and the filtered list with its batches and its scan limit. `stable` is
history: rows that matched since the walk began, with their key unchanged and a place of
their own.

* `pages` (3 rows, 2 dates and no date, page sizes 1 and 2, batches of 2, scan limit 3, one
  write at any moment, a clock of 5 for the live views): every stable row is given, the
  pages go forward, the walk ends, and a live row without a relay link leaves the now view.
  All tables of three rows are initial, so any row may stand on either side of a page
  break; a scan limit of 3 with batches of 2 ends a scan inside a batch. Fairness: the
  client follows the cursor and the handler answers. Deadlock checking is off: a walk that
  ended stays ended.

## 6. Proofs

Each theorem below holds for all values of the constants that satisfy the assumptions of
its module (`ConstantsAssumption`, `PeersAssumption`, ...): any sets of feeds, nodes, URLs
and GUIDs, any caps, delays and bounds. The assumptions say that the bounds are natural
numbers, that "none" is no value of the sets, and what the code's own constants have in
common: the reconcile cap on refs is above that on events, and the return waits have
base <= limit <= reset with enough doublings to reach the limit.

Each module has an inductive invariant, proved of `Init` and of every action; the theorem
follows from it. TLC has checked each of them on the run's instance. Why the property
alone is not inductive is the argument of the proof:

| module | theorems | inductive invariant |
| --- | --- | --- |
| `ReplicationProofs` | `TypeCorrect`, `StoreSafe`, `CursorEarned`, `RowsRecordedAlways`, `NeverOrphaned`, `SyncStateGrows`, `RedeliveryHarmless` | `TypeOK /\ InRange /\ StoreInv` |
| | `PollSkipsNothing`, `PollRefinesPrefixReplica` | `... /\ PollIInv`, for a node without pushes and aborts |
| `SyncProofs` | `PushedNodesAreRegistered`, `EvictionsAreBacked`, `SpentNodesStayEvicted` | `PeersIInv` |
| | `SessionsAreComplete`, `SessionsMoveOn` | `ReconcileIInv`, with `AnswerMovesOn` for the second |
| `FeedLifecycleProofs` | `RowsMatch`, `HeldGuidIsKept`, `ReleasesLast`, `OneAnswerIsNotEnough` | `LifecycleIInv` |
| `GuidChangeProofs` | `NodesAnswerAlike`, `ChangesAreApproved`, `ChangesReplace` | `GuidIInv` |
| `FeedMoveProofs` | `HistoryIsKept`, `ReturnsAreStatedAnew`, `ReturnsStayRare` | `MoveIInv` |
| `ArtistNamesProofs` | `SameSeqStaysCurrent`, `LinksAlwaysAgree`, `CreditStaysMutual` | `NamesIInv` |
| `FeedContentProofs` | `NodesHaveTheTables`, `IndexesFollow`, `CopiesStayBounded`, `ResolutionsAreForTheirBody` | `ContentIInv` |
| `PagesProofs` | `NothingIsMissed`, `PagesStayForward`, `UnrelayedRowsLeave`, `CursorsMoveOn` | `PagesIInv` |

*Replication.* `TypeOK` is not inductive: a step that applies event `n` reads `log[n]`, and
a rollback shortens `log`. `InRange` says that the numbers in every batch, page,
transaction and in `rlog` are committed ones, so a rollback never takes away a row that is
still named; `CommittedRowsStay` is the key lemma. `StoreInv` says of the node's open
transaction what the invariants say of its database; commit carries the facts over, abort
and crash keep the old ones. `EffectRecorded` and `EffectNoOrphans` state what one event
does to both facts.

The refinement has the hypothesis `PollOnly` (no subscription, no aborts), because with a
push or an abort it is false (section 7). `TablesAreEffects` says that the primary's tables
after row `n` are the effect of row `n` on those after `n - 1`, also inside an open ingest;
`NodeIsPrefix` that the node holds exactly the rows up to its cursor and the tables after
them; `PageIsNext` that the page under way continues there and that its transaction is a
prefix in the same sense. `RowsHaveTheirFeed` is needed because an event about a track
without its feed has no effect. A step of the poll loop is then a stutter or one step of
`PrefixReplica` to a later place in `hist`, and a commit on the primary only extends `hist`.

*Peers.* An eviction by a delivery task rests on counts made by others. `CountsAreBacked`
bounds the failure count of a node by its counted deliveries, of which those that are over
may count twice; `BlamedAreEnding` keeps a delivery that is still trying from being among
them, so each further count adds one that was not there; `LaterBatchesIdle` does so for
batches to come. A count that was written and not read back is in `missed`, and the step that
reads one back, resets it or restarts the primary takes it out. `StoredHaveRows` carries the row of a registration from its first step to
its second. `TryingHasAttempts` bounds the attempts.

*Reconcile.* `RefsAreOfRequest` and `AnswerIsComplete` carry what the first read saw to the
answer, although the log grows between the reads and the node gets pushes; `PassedIsHeld`
says that the node holds the first page once its cursor has passed it. `SessionsMoveOn` is
the part of `SessionEnds` that is a property of steps: a page with more to come moves
`since_seq`, because its refs begin at the cursor and are at least two. It has one
exception, which TLC finds when it is left out: when events are committed between the two
reads, the count of events may say that the page is full while the refs end at the cursor,
and the node asks from the same point again.

*FeedLifecycle.* `OwnerHasHold` ties the history variable that names the keeping URL to the
hold row that a submission checked earlier meets; `GoneWasCounted` does so for gone rows. The
hold stops `Admit` only; `Replace` needs no fact about it, because the record it removes from
`others` is what the property asks for.

*GuidChange.* `RowsHaveTheVerdict` ties a decided row to the last decision on its URL and GUID,
`CheckedIsApproved` carries it from the check into the submission that is under way, and
`ReturnedHasRecord` keeps the record a return relies on. For the node, each kind of event
has a lemma about its effect (`UpsertedEffect` ... `SupersededEffect`) and one that the two
sides stay alike.

*FeedMove.* `UrlIsVisited`, `UnchangedIsFirst` and `ArrivalIsFirst` describe the history of a
record that never moved and of one that arrived; `TailIsSingle`, `TailWasHeard` and
`StoredWasHeard` follow a declaration from the body through the statements after the commit.
`ReturnsAreSpaced` says that a return with `k` younger ones is `Base * (2^k - 1)` older than
the last one; `SpacedAreRare` counts them. Powers of two are proved as the number of
subsets, and the greatest number of a finite set by the least-number principle.

*ArtistNames.* A build reads the tables in several steps while writes commit. Two tables are
`Alike` when they differ only in how a title came to its artist, on which no link depends. A
list does, in one text: an artist counts unless it is the placeholder, and a body whose source
is the placeholder has the artist "Unknown Artist", so tables that are alike give lists that
are equal up to that text (`AlikeFacts`, `AlikeReads`). A write without an event leaves tables
that are alike (`WritesKeep`), and one with an event moves the number, so the build's marker
is old. `ReadsAreCurrent` says what
each finished read has found while the marker is current. The agreement of the views rests
on `NamedParts` and `AlbumParts`: what a row of either side shows in terms of the first
entry that resolves to a feed.

*FeedContent.* The events of an ingest are a recursion over rows. `ReplayParts` gives the
tables after each row, and a fact that the first tables have and every row keeps holds of
the last: `CountUp`, which shows that there is no least row at which it fails. Along a
family of rows that fact is "the rows passed so far have their new value, the others their
old one, and nothing else has changed": `ListsReplay`, `TracksReplay`, `GoneReplay` and
`ObsReplay`. `IngestReplay` puts them together for a first ingest and for a changed body;
this is where the comparisons of `build_diff_events` are needed, because a row without an
event has to have its new value already. That sentence is about the node, while the
comparisons read the primary's row: `RecAlike` says that the two records differ only in
what no comparison reads (`built`, and the routes of a track). It says field by field what
the equality of `Carried` says of the whole records (`CarriedAlike`).
The indexes follow because each of the events ends in `SyncReadModels` (`SyncParts`).
For copies, `CopiesCounted` is the bound with the record on both sides, and `CopiesAreSeen`
ties each copy row to the last body of its URL and its resolution to the last decision; a
body that is not written because nothing changed is then the body of the row. The sets of
URLs, tracks and lists are assumed finite, as they are in a body and in a database.

*Pages.* `stable` is defined by what the writes left alone since the walk began, a page by the
tables of its moment, and several routes read twice in between. `PagesIInv` has a part for
each thing that must survive from one read to the next:

* `GivenIsBehind`: no row given is after the cursor, so what the next statement selects
  follows all of it. For the filtered list, whose position moves with every row examined,
  `ScanIsOrdered` says it of the rows kept, the position and the batch in hand.
* `NothingLost`, by `StillDue`: a stable row that was not given stands after the cursor, and
  what the request has gathered so far has it. A search may gather a full page of feeds and
  one more, all before the row (`Crowded`); then the merged page is cut before the row as
  well. `CrowdParts` is that count: more rows than the limit before a place put the end of
  the page before it.
* `EntriesAreTied`: two entries at one place are one row, on all routes but the tracks of an
  artist. There a page may end between two rows of one place, and the place of its own that
  `stable` asks for is needed.
* `LiveRowsAllowed`: every live row passed the ban when it was written. The theorem about the
  now view needs nothing else.
* `RecordsAreOnce` and `StepsOfRoute` bound what a request holds.

`Orders` is a set of sequences, so no fact about a sorting algorithm is needed: `OrdersParts`
says that each of them has every row once and none after a row it precedes, and the order of
places is proved total and transitive for each route, dates that are missing included
(`Transitive`, `Total`, `FollowsParts` for the two forms in which the SQL writes it). Each
action has a lemma of its own; `AnswerKeeps` and `ScanKeeps` are what they share, `WriteKeeps`
is shared by the writes and the clock. The rows are assumed finite, the batch and the
two largest limits positive, as the constants of the code are, and a body's live items to be
of its feed.

`CursorsMoveOn` is the part of `WalkEnds` that is a property of steps. A new request has a
cursor past all rows given before it. It is also past the position before it, except in the
filtered list, where a full page goes back from the last row examined to the last row kept;
such a page has given rows.

Only model-checked is liveness, and with it fairness: `CatchesUp` and `TablesConverge`, the ends
of deliveries, sessions and walks, `LoopsStop`, `GoneForGoodIsRetired`, and the list in memory
catching up. The prover has no rule for `ENABLED`. Every invariant and every property of
steps that a passing run checks is a theorem.

## 7. Where the code and its documents disagree

The run `track_routes` must be violated: a body that changes only the payment routes or
the value time splits of a track is written on the primary, but `track_fields_changed`
(`db.rs:3524`) compares neither, and no other event carries them. Community nodes keep
the old routes until another field of the track changes. `event.rs:29` says of
`TrackUpserted` "A track was created or its metadata/payment routes changed."

Observations, met while modelling and without a run of their own:

*Replication*

* A push moves the persisted cursor past a batch that never arrived; after a restart
  the poll loop begins above the gap (`community.rs:188`) and never asks for it, although
  `docs/operations.md:879` says "No data is lost". `CatchesUp` is therefore checked without push.
* A track event delivered before its feed event fails on the foreign key, but its event
  row stays (`apply.rs:83`); every later delivery is a duplicate.
* A page whose transaction failed as a whole moves the poll cursor like a page of
  duplicates (`community.rs:269`). The run `poll` therefore has no aborts.
* `TrackRemoved` rows of an ingest are not fanned out (`api.rs:3957`); they arrive by
  poll.
* An upsert pushed after the retirement that follows it brings the feed back on the node.
* A delivery with rejected events counts as two failures; a success recorded after an
  eviction leaves a node listed as active and not pushed; a node registers only at its
  own start.
* A registration writes its row and fills the cache in two steps (`handle_sync_register`).
  When the count of the node is spent between them, the eviction comes first and the cache
  entry after it: the node is pushed with a spent count until its next failure.
* After a count is written it is read back with `unwrap_or(0)` (`api.rs:4578-4584`). When that
  statement fails at the threshold, the node keeps its cache entry until a later failure is
  read back or the primary restarts.
* The failure count is per public key (`api.rs:4439`): a delivery that fails at a URL its node
  has replaced in the meantime is counted against the new registration.
* Reconcile pages by the larger cap, so events between the caps are skipped after the
  first window; `unknown_to_us` compares with the page only.

*Feed records*

* The crawl cache survives a retirement, an unblock and a release
  (`verifiers/content_hash.rs:52`), so an unchanged body is answered `no_change` and the GUID
  stays out; ADR 0053 says an unblock takes effect "with no changed body".
* An unchanged body does not reset the count of gone answers (`api.rs:2786`); ADR 0067 says
  a body between the two answers resets it.
* The block check is in the read phase (`api.rs:2714`); a block made before the write phase
  does not stop the submission.
* The GuidChange arm (`api.rs:3265`) admits a GUID without a look at its hold or at
  `podcast:block`, and the admission deletes the hold (`db.rs:6868`). A held GUID thus returns
  through a URL that is not its own when a record of another GUID is there and the change is
  approved or the GUID is the UUIDv5 of that URL. ADR 0079 says "A submission for a held GUID
  from a URL that is not the held URL writes no row." When the second transaction of such a
  change fails, the next submission finds no other record, is a new feed, and is refused by
  the hold. `HeldGuidReturnsThroughItsUrl` names this way back.
* The comment before the transition of a GUID change (`api.rs:3921`) says "Every check that can
  still reject the submission ... has already passed by this point". The `CHECK` constraints
  have not: a live item with the status `Live` (`live.rs:83` takes it, `api.rs:3533` stores it as
  it is, `schema.sql:212` refuses it) or a negative split fails `ingest_transaction` when the
  old GUID is already retired, and every later submission of that body fails too. The URL is
  without a record until the body changes.
* A relocation keeps gone answers of the old URL, and a relocation to a URL whose body
  is cached does not record that body's declarations.
* A crash between an ingest and its declarations leaves the older declarations in force
  (ADR 0083 accepts this); `ReturnIsStatedAnew` is stated for runs up to the crash.
* The transition of a GUID change is two transactions, ADR 0052 says one. A return to
  the old GUID with an unchanged body leaves the pending row. The pending row of a node
  may keep an older old GUID, so `NodeAnswersAlike` compares the new GUID and the decision.
  A link to a replacing GUID is never replaced itself (`INSERT OR IGNORE`).
* The feed columns `last_build_date`, `episode_count`, `newest_item_at`, `oldest_item_at` and
  `release_artist_source` and the `rel` of a track's remote items are not compared, so they
  may stay old on nodes (`built` in `FeedContent`, excluded by `Carried`).
* A move or an operator change to a URL that has a copy row leaves that row. Removing a
  track does not score its feed again.

*Reads*

* Two tracks with one track GUID in two feeds and one `created_at` have the same cursor in
  the artist's tracks: a page that ends between them skips the second. `NothingMissed` is
  stated for rows with a place of their own.
* The rank of every search hit moves with any write to the index, so "key unchanged" is a
  strong condition for the search route.
* A live status is compared without regard to case when items are selected, but the
  table's `CHECK` is not; `Live` fails the whole ingest (`PassesCheck`), although `live.rs:80`
  says such a status "must never reach the insert".
* A live row with a relay link that does not confirm and with no end stays in the now
  view until its feed changes it.
* `derive_release_artist` (`api.rs:823`) gives an author with the literal text "Unknown Artist"
  the source `itunes_author`, and a body without any author the same text with the source
  `placeholder`. Only the second is left out of a publisher's artists (`query.rs:1848`), and
  `feed_fields_changed` (`db.rs:3505`) does not compare the source. A body that goes from one to
  the other changes the artist list without an event, and the list in memory keeps the old
  answer for that text until the next event.
* A feed that is retired between a batch and the look at its links is kept by
  `two_way_links=none`.
* A feed that names another twice with different roles may be credited by one side only.
* `is_name_level_release` takes a link to any held feed for a publisher link.

## 8. Assumptions shared by the modules

The writer lock makes each transaction one step unless a module splits it; readers see
committed states only. Events are signed by the primary and verify. A node in
`GuidChange` and `FeedContent` applies events in log order; `Replication` is about the
delivery. Names, texts, hashes and digests are values that are equal or not.

In every module but `Replication` the type invariant is checked as a part of the invariant
that is named for the module: `PeersInv`, `ReconcileInv`, `MoveInv`, `LifecycleInv`, `GuidInv`,
`ContentInv`, `NamesInv` and `PagesInv` are `TypeOK` (`SessionTypeOK` in `Reconcile`) and the
relation that the sections above describe. `LinksAgree` is the three statements about one link from several routes.

## 9. Not modelled

* **SSE registry**: a notification channel beside the tables; no record depends on it.
* **Migrations**: SQL text run at start, before any handler, a transaction each.
* **Signing**, **fetch guard**, **TLS**, **OpenAPI**: cryptography, validation without state,
  I/O with an external service, a static document.
* **Ranking and quality scores**: real numbers; a rank is a free key in `Pages`.
* **Verifiers** other than the content hash: a free rejection in `FeedLifecycle`.
* **Pages over the artist list in memory**, and the routes for one record: the first read
  one immutable copy per request, the second have no state between requests.
* **A restore of the primary**: sequence numbers at or below the nodes' cursors would be
  used again; the code has no rule for it.

## 10. What is left to prove

No safety property of a run. What a liveness argument would use of single steps is proved for
the sessions and the walks (`SessionsMoveOn`, `CursorsMoveOn`); that these steps are taken, and
that a bounded number of them ends the session or the walk, is left to TLC.
