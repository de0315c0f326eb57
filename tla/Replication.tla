---------------------------- MODULE Replication ----------------------------
(***************************************************************************)
(* Event-log replication from the primary node to one community node.      *)
(*                                                                         *)
(* The primary writes its tables and appends one event row per change in   *)
(* one SQLite transaction (db.rs ingest_transaction, delete_feed_with_     *)
(* event, delete_track_with_event).  After the commit it pushes rows to    *)
(* the community node (api.rs fan_out_push_inner).  The community node     *)
(* also polls GET /sync/events when no push arrived for a while            *)
(* (community.rs run_community_sync).  Both paths end in apply.rs          *)
(* apply_events: one transaction under the writer lock.                    *)
(*                                                                         *)
(* An event is named by its sequence number: event_id is unique and a row  *)
(* is never renumbered.  The content of a table row is abstracted to the   *)
(* sequence number of the event that wrote it, 0 when the row is absent.   *)
(***************************************************************************)
EXTENDS Naturals, Sequences, FiniteSets

CONSTANTS
    Feeds,          \* feed GUIDs
    Tracks,         \* track GUIDs a feed can list
    Families,       \* feed-level row families: routes, remote items, live events, source claims
    NoChild,        \* the child of an event that is about the feed itself
    MaxLog,         \* bound on the events the primary commits
    PageLimit,      \* the limit of GET /sync/events that poll_once sends
    MaxDrainPages,  \* pages one drain may fetch before it sleeps
    MaxPushEvents,  \* largest batch POST /sync/push accepts
    PushAttempts,   \* PUSH_MAX_ATTEMPTS
    Subscribed,     \* whether the primary pushes to this node
    MaxAborts,      \* bound on failed apply transactions
    MaxRestarts     \* bound on restarts of the community node

ASSUME ConstantsAssumption ==
    /\ NoChild \notin Tracks \cup Families
    /\ Tracks \cap Families = {}
    /\ MaxLog \in Nat /\ MaxAborts \in Nat /\ MaxRestarts \in Nat
    /\ PageLimit \in Nat \ {0} /\ MaxDrainPages \in Nat \ {0}
    /\ MaxPushEvents \in Nat \ {0} /\ PushAttempts \in Nat \ {0}
    /\ Subscribed \in BOOLEAN

VARIABLES
    log,        \* primary: the events table, rows of the open transaction included
    tables,     \* primary: tables[n] is the content of the tables after row n
    committed,  \* primary: the rows a reader sees are log[1..committed]
    ptx,        \* primary: the open ingest transaction (writer lock held)
    net,        \* push batches the primary still tries to deliver
    rlog,       \* community node: the events it has recorded (event_id is unique)
    rdb,        \* community node: its tables
    cursor,     \* community node: the persisted "primary_sync_cursor"
    last_seq,   \* community node: the cursor of the poll loop, in memory
    quiet,      \* community node: no push within PUSH_TIMEOUT_SECS
    poll,       \* community node: the poll loop
    tx,         \* community node: the apply transaction (writer lock held)
    aborts, restarts

primaryVars == <<log, tables, committed, ptx>>
storeVars == <<rlog, rdb, cursor>>
vars == <<log, tables, committed, ptx, net, rlog, rdb, cursor, last_seq,
          quiet, poll, tx, aborts, restarts>>

-----------------------------------------------------------------------------
(* Events and their effect on the tables *)

Children == Tracks \cup Families

Event == [type : {"FeedUpserted", "FeedRetired", "TrackUpserted", "TrackRemoved",
                  "RowsReplaced", "RowsEmptied"},
          feed : Feeds, child : Children \cup {NoChild}]

\* The content of a node's tables
Tables == [feeds : [Feeds -> Nat], child : [Feeds -> [Children -> Nat]]]

NoTables == [feeds |-> [f \in Feeds |-> 0],
             child |-> [f \in Feeds |-> [c \in Children |-> 0]]]

FeedEvent(type, f) == [type |-> type, feed |-> f, child |-> NoChild]
ChildEvent(type, f, c) == [type |-> type, feed |-> f, child |-> c]

\* Mutant: foreign keys are not enforced on the connection
ForeignKeyFails_Off(db, e) == FALSE

\* The feed_guid foreign key: a row of a feed that is absent cannot be written.
\* An empty replacement only deletes rows.
ForeignKeyFails(db, e) ==
    e.type \in {"TrackUpserted", "RowsReplaced"} /\ db.feeds[e.feed] = 0

\* The match of apply_single_event_inner on the payload of row n
Effect(db, e, n) ==
    [feeds |-> [db.feeds EXCEPT ![e.feed] =
                  IF e.type = "FeedUpserted" THEN n
                  ELSE IF e.type = "FeedRetired" THEN 0 ELSE @],
     child |-> [db.child EXCEPT ![e.feed] = [c \in Children |->
                  IF \/ e.type = "FeedRetired"
                     \/ e.type \in {"TrackRemoved", "RowsEmptied"} /\ c = e.child
                  THEN 0
                  ELSE IF e.type \in {"TrackUpserted", "RowsReplaced"} /\ c = e.child
                  THEN n ELSE @[c]]]]

TablesAt(n) == IF n = 0 THEN NoTables ELSE tables[n]

-----------------------------------------------------------------------------
(* Primary *)

NoIngest == [open |-> FALSE, rows |-> {}, push |-> {}]

\* build_diff_events emits the feed row, the row families, then the tracks;
\* ingest_transaction appends the TrackRemoved rows of stale tracks last.
Rank(e) == CASE e.type = "FeedUpserted" -> 0
             [] e.type \in {"RowsReplaced", "RowsEmptied"} -> 1
             [] e.type = "TrackUpserted" -> 2
             [] OTHER -> 3

\* events_for_fanout is taken from the diff rows, before ingest_transaction
\* appends the removals, so zipping it with the returned seqs drops those.
FannedOut(e) == e.type # "TrackRemoved"

\* The rows of one ingest of feed f: changed (the feed row differs or is new),
\* the families replaced and emptied, the tracks written and the stale ones.
IngestRows(f, changed, replaced, emptied, written, stale) ==
    (IF changed THEN {FeedEvent("FeedUpserted", f)} ELSE {})
    \cup {ChildEvent("RowsReplaced", f, c) : c \in replaced}
    \cup {ChildEvent("RowsEmptied", f, c) : c \in emptied}
    \cup {ChildEvent("TrackUpserted", f, c) : c \in written}
    \cup {ChildEvent("TrackRemoved", f, c) : c \in stale}

\* handle_ingest_feed takes the writer lock and diffs the submission against
\* the stored feed.
BeginIngest(f) ==
    /\ ~ptx.open
    /\ LET db == TablesAt(Len(log))
           present == {c \in Children : db.child[f][c] # 0}
       IN \E changed \in {b \in BOOLEAN : b \/ db.feeds[f] # 0},
            replaced \in SUBSET Families,
            written \in SUBSET Tracks,
            emptied \in SUBSET (present \cap Families),
            stale \in SUBSET (present \cap Tracks) :
            /\ replaced \cap emptied = {} /\ written \cap stale = {}
            /\ LET rows == IngestRows(f, changed, replaced, emptied, written, stale)
               IN /\ rows # {} /\ Len(log) + Cardinality(rows) <= MaxLog
                  /\ ptx' = [open |-> TRUE, rows |-> rows, push |-> {}]
    /\ UNCHANGED <<log, tables, committed, net, rlog, rdb, cursor, last_seq,
                   quiet, poll, tx, aborts, restarts>>

\* One row of the open transaction: seq = MAX(seq) + 1
IngestRow(e) ==
    /\ ptx.open /\ e \in ptx.rows
    /\ \A o \in ptx.rows : Rank(e) <= Rank(o)
    /\ LET n == Len(log) + 1 IN
       /\ log' = Append(log, e)
       /\ tables' = Append(tables, Effect(TablesAt(Len(log)), e, n))
       /\ ptx' = [ptx EXCEPT !.rows = @ \ {e},
                             !.push = IF FannedOut(e) THEN @ \cup {n} ELSE @]
    /\ UNCHANGED <<committed, net, rlog, rdb, cursor, last_seq, quiet, poll, tx,
                   aborts, restarts>>

\* fan_out_push: the batch that one commit hands to the delivery task
FanOut(evs) ==
    net' = IF Subscribed /\ evs # {}
           THEN net \cup {[evs |-> evs, left |-> PushAttempts]} ELSE net

CommitIngest ==
    /\ ptx.open /\ ptx.rows = {}
    /\ committed' = Len(log)
    /\ FanOut(ptx.push)
    /\ ptx' = NoIngest
    /\ UNCHANGED <<log, tables, rlog, rdb, cursor, last_seq, quiet, poll, tx,
                   aborts, restarts>>

\* Mutant: the event rows are dropped, the table writes stay
RollbackIngest_KeepsTables ==
    /\ ptx.open
    /\ log' = SubSeq(log, 1, committed)
    /\ ptx' = NoIngest
    /\ UNCHANGED <<tables, committed, net, rlog, rdb, cursor, last_seq, quiet, poll, tx,
                   aborts, restarts>>

\* A database error or a crash inside the transaction: SQLite drops its rows,
\* and their sequence numbers are given out again.
RollbackIngest ==
    /\ ptx.open
    /\ log' = SubSeq(log, 1, committed)
    /\ tables' = SubSeq(tables, 1, committed)
    /\ ptx' = NoIngest
    /\ UNCHANGED <<committed, net, rlog, rdb, cursor, last_seq, quiet, poll, tx,
                   aborts, restarts>>

\* One-row transactions: handle_retire_feed and handle_remove_track
CommitOne(e) ==
    /\ ~ptx.open /\ Len(log) < MaxLog
    /\ log' = Append(log, e)
    /\ tables' = Append(tables, Effect(TablesAt(Len(log)), e, Len(log) + 1))
    /\ committed' = Len(log) + 1
    /\ FanOut({Len(log) + 1})
    /\ UNCHANGED <<ptx, rlog, rdb, cursor, last_seq, quiet, poll, tx, aborts, restarts>>

RetireFeed(f) ==
    TablesAt(Len(log)).feeds[f] # 0 /\ CommitOne(FeedEvent("FeedRetired", f))

RemoveTrack(f, t) ==
    TablesAt(Len(log)).child[f][t] # 0 /\ CommitOne(ChildEvent("TrackRemoved", f, t))

\* A primary restart loses the deliveries that are under way.
PrimaryRestart ==
    /\ ~ptx.open /\ net # {}
    /\ net' = {}
    /\ UNCHANGED <<log, tables, committed, ptx, rlog, rdb, cursor, last_seq, quiet,
                   poll, tx, aborts, restarts>>

-----------------------------------------------------------------------------
(* Community node: the apply transaction *)

NoTx == [src |-> "none", batch |-> [evs |-> {}, left |-> 0], todo |-> {},
         rlog |-> {}, db |-> NoTables, max |-> 0, applied |-> FALSE, dup |-> FALSE]

OpenTx(src, batch, evs) ==
    tx' = [src |-> src, batch |-> batch, todo |-> evs, rlog |-> rlog, db |-> rdb,
           max |-> 0, applied |-> FALSE, dup |-> FALSE]

\* Mutant: the effect is applied before the duplicate check
ApplyRow_EffectFirst(n) ==
    /\ tx.src # "none" /\ n \in tx.todo
    /\ \A m \in tx.todo : n <= m
    /\ tx' = [tx EXCEPT !.todo = @ \ {n}, !.rlog = @ \cup {n}, !.max = n, !.applied = TRUE,
                        !.db = IF ForeignKeyFails(@, log[n]) THEN @ ELSE Effect(@, log[n], n)]
    /\ UNCHANGED <<log, tables, committed, ptx, net, rlog, rdb, cursor, last_seq,
                   quiet, poll, aborts, restarts>>

\* Mutant: a page is applied newest first
ApplyRow_NewestFirst(n) ==
    /\ tx.src # "none" /\ n \in tx.todo
    /\ \A m \in tx.todo : n >= m
    /\ tx' = [tx EXCEPT !.todo = @ \ {n}, !.rlog = @ \cup {n}, !.applied = TRUE,
                        !.max = IF n > @ THEN n ELSE @,
                        !.db = IF n \in tx.rlog \/ ForeignKeyFails(@, log[n])
                               THEN @ ELSE Effect(@, log[n], n)]
    /\ UNCHANGED <<log, tables, committed, ptx, net, rlog, rdb, cursor, last_seq,
                   quiet, poll, aborts, restarts>>

\* apply_single_event_inner on row n inside the batch transaction.  The event
\* row goes in first; an error after it rolls nothing back, the batch goes on.
ApplyRow(n) ==
    /\ tx.src # "none" /\ n \in tx.todo
    /\ \A m \in tx.todo : n <= m
    /\ LET e == log[n]
           raised == IF n > tx.max THEN n ELSE tx.max
           rest == tx.todo \ {n}
       IN tx' = IF n \in tx.rlog
                THEN [tx EXCEPT !.todo = rest, !.max = raised, !.dup = TRUE]
                ELSE IF ForeignKeyFails(tx.db, e)
                THEN [tx EXCEPT !.todo = rest, !.rlog = @ \cup {n}]
                ELSE [tx EXCEPT !.todo = rest, !.rlog = @ \cup {n},
                                !.db = Effect(@, e, n), !.max = raised, !.applied = TRUE]
    /\ UNCHANGED <<log, tables, committed, ptx, net, rlog, rdb, cursor, last_seq,
                   quiet, poll, aborts, restarts>>

\* Mutant: the cursor is overwritten
Raise_Overwrites(old, new) == new

\* upsert_node_sync_state keeps the larger cursor
Raise(old, new) == IF new > old THEN new ELSE old

\* Where the answer of apply_events goes: the poll loop goes on to move its
\* cursor; the push handler answers the primary, and that answer may time out.
Answer(applied, dup) ==
    \/ /\ tx.src = "poll"
       /\ poll' = [poll EXCEPT !.pc = "applied", !.applied = applied]
       /\ UNCHANGED <<net, quiet>>
    \/ /\ tx.src = "push"
       /\ quiet' = (quiet /\ ~(applied \/ dup))
       /\ \/ net' = net
          \/ /\ tx.batch.left > 1
             /\ net' = net \cup {[tx.batch EXCEPT !.left = @ - 1]}
       /\ UNCHANGED poll

\* The cursor moves once per batch, in the same transaction
CommitApply ==
    /\ tx.src # "none" /\ tx.todo = {}
    /\ rlog' = tx.rlog /\ rdb' = tx.db
    /\ cursor' = Raise(cursor, tx.max)
    /\ Answer(tx.applied, tx.dup)
    /\ tx' = NoTx
    /\ UNCHANGED <<log, tables, committed, ptx, last_seq, aborts, restarts>>

\* Mutant: the cursor is written outside the transaction
AbortApply_KeepsCursor ==
    /\ tx.src # "none" /\ aborts < MaxAborts
    /\ Answer(FALSE, FALSE)
    /\ tx' = NoTx /\ aborts' = aborts + 1
    /\ cursor' = Raise(cursor, tx.max)
    /\ UNCHANGED <<log, tables, committed, ptx, rlog, rdb, last_seq, restarts>>

\* Mutant: the table writes are made outside the transaction
AbortApply_KeepsTables ==
    /\ tx.src # "none" /\ aborts < MaxAborts
    /\ Answer(FALSE, FALSE)
    /\ tx' = NoTx /\ aborts' = aborts + 1
    /\ rdb' = tx.db
    /\ UNCHANGED <<log, tables, committed, ptx, rlog, cursor, last_seq, restarts>>

\* A failed transaction (undecodable payload, I/O error, panic): everything is
\* rolled back and every event of the batch counts as rejected.
AbortApply ==
    /\ tx.src # "none" /\ aborts < MaxAborts
    /\ Answer(FALSE, FALSE)
    /\ tx' = NoTx /\ aborts' = aborts + 1
    /\ UNCHANGED <<log, tables, committed, ptx, rlog, rdb, cursor, last_seq, restarts>>

-----------------------------------------------------------------------------
(* Community node: POST /sync/push *)

\* An attempt reaches the node and the handler gets the writer lock.
\* Deliveries are independent tasks, so batches arrive in any order.  A batch
\* above the limit is answered 400 and never applied.
PushArrives(b) ==
    /\ b \in net /\ tx.src = "none"
    /\ Cardinality(b.evs) <= MaxPushEvents
    /\ net' = net \ {b}
    /\ OpenTx("push", b, b.evs)
    /\ UNCHANGED <<log, tables, committed, ptx, rlog, rdb, cursor, last_seq, quiet,
                   poll, aborts, restarts>>

\* An attempt fails before the node applies anything; after the last one the
\* primary gives the batch up.
PushFails(b) ==
    /\ b \in net
    /\ net' = (net \ {b}) \cup (IF b.left > 1 THEN {[b EXCEPT !.left = @ - 1]} ELSE {})
    /\ UNCHANGED <<log, tables, committed, ptx, rlog, rdb, cursor, last_seq, quiet,
                   poll, tx, aborts, restarts>>

\* PUSH_TIMEOUT_SECS pass without a push
PushTimeout ==
    /\ ~quiet
    /\ quiet' = TRUE
    /\ UNCHANGED <<log, tables, committed, ptx, net, rlog, rdb, cursor, last_seq,
                   poll, tx, aborts, restarts>>

-----------------------------------------------------------------------------
(* Community node: the poll loop *)

Sleeping == [pc |-> "sleep", upto |-> 0, applied |-> FALSE, pages |-> 0]

PollStart ==
    /\ poll.pc = "sleep" /\ quiet
    /\ poll' = [Sleeping EXCEPT !.pc = "drain"]
    /\ UNCHANGED <<log, tables, committed, ptx, net, rlog, rdb, cursor, last_seq,
                   quiet, tx, aborts, restarts>>

\* handle_sync_events: next_seq of the page after a cursor is the last seq of the
\* page, the cursor itself when the page is empty; has_more when the page is full.
NextSeq(after) ==
    IF committed <= after THEN after
    ELSE IF committed < after + PageLimit THEN committed ELSE after + PageLimit
HasMore(after, next) == next = after + PageLimit

\* poll_once answered.  The page is last_seq+1..upto, read from committed rows.
PollFetch ==
    /\ poll.pc = "drain"
    /\ LET next == NextSeq(last_seq) IN
       poll' = IF next > last_seq
               THEN [poll EXCEPT !.pc = "fetched", !.upto = next]
               ELSE Sleeping
    /\ UNCHANGED <<log, tables, committed, ptx, net, rlog, rdb, cursor, last_seq,
                   quiet, tx, aborts, restarts>>

PollError ==
    /\ poll.pc = "drain"
    /\ poll' = Sleeping
    /\ UNCHANGED <<log, tables, committed, ptx, net, rlog, rdb, cursor, last_seq,
                   quiet, tx, aborts, restarts>>

PollApply ==
    /\ poll.pc = "fetched" /\ tx.src = "none"
    /\ OpenTx("poll", NoTx.batch, (last_seq + 1)..poll.upto)
    /\ poll' = [poll EXCEPT !.pc = "applying"]
    /\ UNCHANGED <<log, tables, committed, ptx, net, rlog, rdb, cursor, last_seq,
                   quiet, aborts, restarts>>

\* Mutant: the next page starts one event too late
PollAdvance_OffByOne ==
    /\ poll.pc = "applied"
    /\ last_seq' = Raise(last_seq, poll.upto) + 1
    /\ poll' = Sleeping
    /\ UNCHANGED <<log, tables, committed, ptx, net, rlog, rdb, cursor, quiet, tx,
                   aborts, restarts>>

\* Mutant: a page of duplicates does not move the cursor
PollAdvance_StuckOnDuplicates ==
    /\ poll.pc = "applied"
    /\ last_seq' = IF poll.applied THEN Raise(last_seq, cursor) ELSE last_seq
    /\ poll' = Sleeping
    /\ UNCHANGED <<log, tables, committed, ptx, net, rlog, rdb, cursor, quiet, tx,
                   aborts, restarts>>

\* The cursor of the next page: the persisted cursor, read again after the
\* transaction (or kept when that read fails), if the page applied anything;
\* else the primary's next_seq.
PollAdvance ==
    /\ poll.pc = "applied"
    /\ last_seq' \in IF poll.applied THEN {Raise(last_seq, cursor), last_seq}
                     ELSE {Raise(last_seq, poll.upto)}
    /\ poll' = IF HasMore(last_seq, poll.upto) /\ poll.pages + 1 < MaxDrainPages
               THEN [Sleeping EXCEPT !.pc = "drain", !.pages = poll.pages + 1]
               ELSE Sleeping
    /\ UNCHANGED <<log, tables, committed, ptx, net, rlog, rdb, cursor, quiet, tx,
                   aborts, restarts>>

\* The process ends and starts again: memory is lost, an open transaction is
\* rolled back, and the poll loop begins at the persisted cursor (at 0 when that
\* read fails).  The push that was being handled fails and may be retried.
Restart ==
    /\ restarts < MaxRestarts
    /\ restarts' = restarts + 1
    /\ last_seq' \in {cursor, 0}
    /\ quiet' = TRUE /\ poll' = Sleeping /\ tx' = NoTx
    /\ net' = IF tx.src = "push" /\ tx.batch.left > 1
              THEN net \cup {[tx.batch EXCEPT !.left = @ - 1]} ELSE net
    /\ UNCHANGED <<log, tables, committed, ptx, rlog, rdb, cursor, aborts>>

-----------------------------------------------------------------------------
Init ==
    /\ log = <<>> /\ tables = <<>> /\ committed = 0 /\ ptx = NoIngest
    /\ net = {}
    /\ rlog = {} /\ rdb = NoTables /\ cursor = 0
    /\ last_seq = 0 /\ quiet = TRUE /\ poll = Sleeping /\ tx = NoTx
    /\ aborts = 0 /\ restarts = 0

PrimaryNext ==
    \/ \E f \in Feeds : BeginIngest(f) \/ RetireFeed(f)
    \/ \E f \in Feeds, t \in Tracks : RemoveTrack(f, t)
    \/ \E e \in ptx.rows : IngestRow(e)
    \/ CommitIngest \/ RollbackIngest \/ PrimaryRestart

PushNext == \E b \in net : PushArrives(b) \/ PushFails(b)

ApplyNext == \/ \E n \in tx.todo : ApplyRow(n)
             \/ CommitApply

PollNext == PollStart \/ PollFetch \/ PollError \/ PollApply \/ PollAdvance

Next == PrimaryNext \/ PushNext \/ ApplyNext \/ AbortApply \/ PollNext
        \/ PushTimeout \/ Restart

Spec == Init /\ [][Next]_vars

\* The runtime keeps scheduling the poll task and the blocking apply task, the
\* sleep and the push timeout end, and a request is answered infinitely often
\* when it is sent infinitely often.  Nothing is assumed of the primary.
Fairness ==
    /\ WF_vars(PollStart) /\ SF_vars(PollFetch) /\ WF_vars(PollApply)
    /\ WF_vars(ApplyNext) /\ WF_vars(PollAdvance) /\ WF_vars(PushTimeout)

FairSpec == Spec /\ Fairness

-----------------------------------------------------------------------------
(* Properties *)

Batch == [evs : SUBSET Nat, left : Nat]
IngestTx == [open : BOOLEAN, rows : SUBSET Event, push : SUBSET Nat]
PollLoop == [pc : {"sleep", "drain", "fetched", "applying", "applied"},
             upto : Nat, applied : BOOLEAN, pages : Nat]
ApplyTx == [src : {"none", "push", "poll"}, batch : Batch, todo : SUBSET Nat,
            rlog : SUBSET Nat, db : Tables, max : Nat, applied : BOOLEAN, dup : BOOLEAN]

\* The types of the variables, the primary's log and tables row for row
TypeOK ==
    /\ log \in Seq(Event) /\ tables \in Seq(Tables) /\ Len(tables) = Len(log)
    /\ committed \in 0..Len(log) /\ ptx \in IngestTx
    /\ net \in SUBSET Batch
    /\ rlog \in SUBSET Nat /\ rdb \in Tables /\ cursor \in Nat /\ last_seq \in Nat
    /\ quiet \in BOOLEAN /\ poll \in PollLoop /\ tx \in ApplyTx
    /\ aborts \in Nat /\ restarts \in Nat

(* A community node never records an event the primary has not committed, and  *)
(* its persisted cursor is always the seq of an event it has recorded: a crash, *)
(* an aborted batch or a rolled-back ingest never leaves the cursor ahead of    *)
(* the rows it stands for (apply_events writes both in one transaction).        *)
CursorIsEarned ==
    /\ rlog \subseteq 1..committed
    /\ cursor = 0 \/ cursor \in rlog

\* Each row of db was written by an event of l that is recorded and about that row
RowsRecorded(l, db, recorded) ==
    \A f \in Feeds :
        /\ db.feeds[f] # 0 =>
             /\ db.feeds[f] \in recorded
             /\ l[db.feeds[f]].type = "FeedUpserted" /\ l[db.feeds[f]].feed = f
        /\ \A c \in Children : db.child[f][c] # 0 =>
             /\ db.child[f][c] \in recorded
             /\ l[db.child[f][c]].type \in {"TrackUpserted", "RowsReplaced"}
             /\ l[db.child[f][c]].feed = f /\ l[db.child[f][c]].child = c

NoOrphans(db) ==
    \A f \in Feeds, c \in Children : db.child[f][c] # 0 => db.feeds[f] # 0

(* Every row a community node serves was written by a recorded event that is    *)
(* about that row: no step leaves an effect without its event row (the batch    *)
(* transaction), whatever is lost, repeated, reordered or rolled back.          *)
RowsComeFromRecordedEvents == RowsRecorded(log, rdb, rlog)

(* A community node never serves a track or a feed-level row of a feed it does  *)
(* not hold, even when the feed's own event was lost or arrives later.          *)
NoOrphanRows == NoOrphans(rdb)

(* A delivery of events that are all recorded already changes no table: a late  *)
(* retry cannot bring a retired feed back (ADR 0016, insert_event_idempotent).  *)
RedeliveryChangesNothing == [][rdb' # rdb => rlog' # rlog]_vars

(* The sync state only grows: no step, a restart or a batch of old events       *)
(* included, moves the persisted cursor back or forgets a recorded event        *)
(* (upsert_node_sync_state keeps the larger seq).                               *)
SyncStateOnlyGrows == [][cursor <= cursor' /\ rlog \subseteq rlog']_vars

(* With the poll loop alone, a node serves the primary's tables after a growing *)
(* prefix of the committed log: pages are contiguous and applied in one step.   *)
Prefix == INSTANCE PrefixReplica WITH
    Empty <- NoTables, hist <- SubSeq(tables, 1, committed), view <- rdb, at <- cursor
RefinesPrefixReplica == Prefix!Spec

(* With the poll loop alone, the events the node skips when it asks for the     *)
(* next page are events it has recorded (community.rs 266: "All events were     *)
(* duplicates").                                                                *)
PollSkipsOnlyRecorded == \A n \in 1..last_seq : n \in rlog

(* The fallback poll brings the node to the primary's state: from some point    *)
(* on it holds every committed event (operations.md: "catch up automatically    *)
(* via the fallback poll").                                                     *)
CatchesUp == <>[](rlog = 1..committed)

(* The same, for the tables: the node ends up serving what the primary holds.   *)
TablesConverge == <>[](~ptx.open => rdb = TablesAt(committed))
=============================================================================
