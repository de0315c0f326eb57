------------------------- MODULE ReplicationProofs -------------------------
(***************************************************************************)
(* Machine-checked proofs about Replication, for every value of its        *)
(* constants.                                                              *)
(***************************************************************************)
EXTENDS Replication, TLAPS

-----------------------------------------------------------------------------
(* The operators *)

\* The empty tables are tables
LEMMA NoTablesType == NoTables \in Tables
BY DEF NoTables, Tables

\* The events an ingest or an admin handler builds are events
LEMMA EventTypes ==
    /\ \A f \in Feeds : FeedEvent("FeedUpserted", f) \in Event
                        /\ FeedEvent("FeedRetired", f) \in Event
    /\ \A f \in Feeds, c \in Children :
         \A ty \in {"TrackUpserted", "TrackRemoved", "RowsReplaced", "RowsEmptied"} :
            ChildEvent(ty, f, c) \in Event
BY DEF FeedEvent, ChildEvent, Event

\* The effect of an event on tables gives tables
LEMMA EffectType ==
    ASSUME NEW db \in Tables, NEW e \in Event, NEW n \in Nat
    PROVE  Effect(db, e, n) \in Tables
BY DEF Effect, Tables, Event

\* The rows of an ingest are events
LEMMA IngestRowsType ==
    ASSUME NEW f \in Feeds, NEW changed \in BOOLEAN,
           NEW replaced \in SUBSET Families, NEW emptied \in SUBSET Families,
           NEW written \in SUBSET Tracks, NEW stale \in SUBSET Tracks
    PROVE  IngestRows(f, changed, replaced, emptied, written, stale) \in SUBSET Event
BY EventTypes DEF IngestRows, Children

\* The tables after a row of the log are tables
LEMMA TablesAtType ==
    ASSUME TypeOK, NEW n \in 0..Len(log)
    PROVE  TablesAt(n) \in Tables
BY NoTablesType DEF TablesAt, TypeOK

-----------------------------------------------------------------------------
(* Type correctness *)

\* One attempt less keeps a batch a batch
LEMMA BatchLess == \A b \in Batch : b.left > 1 => [b EXCEPT !.left = @ - 1] \in Batch
BY DEF Batch

\* The states of the poll loop that the actions build
LEMMA PollLoopTypes ==
    /\ Sleeping \in PollLoop
    /\ \A p \in Nat : [Sleeping EXCEPT !.pc = "drain", !.pages = p] \in PollLoop
    /\ [Sleeping EXCEPT !.pc = "drain"] \in PollLoop
BY DEF Sleeping, PollLoop

\* No transaction is an apply transaction of no source
LEMMA NoTxType == NoTx \in ApplyTx /\ NoTx.batch \in Batch
BY NoTablesType DEF NoTx, Batch, ApplyTx

\* A new apply transaction has its type
LEMMA OpenTxType ==
    ASSUME TypeOK, NEW src \in {"push", "poll"}, NEW b \in Batch, NEW evs \in SUBSET Nat,
           OpenTx(src, b, evs)
    PROVE  tx' \in ApplyTx
BY DEF OpenTx, TypeOK, ApplyTx

\* Answering the poll loop or the primary keeps their types
LEMMA AnswerType ==
    ASSUME TypeOK, NEW applied \in BOOLEAN, NEW dup \in BOOLEAN, Answer(applied, dup)
    PROVE  net' \in SUBSET Batch /\ quiet' \in BOOLEAN /\ poll' \in PollLoop
<1>1. tx.batch \in Batch
  BY DEF TypeOK, ApplyTx
<1>2. CASE tx.src = "poll"
  BY <1>2 DEF Answer, TypeOK, PollLoop
<1>3. CASE tx.src = "push"
  BY <1>1, <1>3, BatchLess DEF Answer, TypeOK
<1> QED BY <1>2, <1>3 DEF Answer

\* Applying one row keeps the type of the transaction
LEMMA ApplyRowType ==
    ASSUME TypeOK, NEW n \in tx.todo, n \in 1..Len(log), ApplyRow(n)
    PROVE  tx' \in ApplyTx
<1>1. log[n] \in Event /\ tx.db \in Tables /\ n \in Nat /\ tx \in ApplyTx
  BY DEF TypeOK, ApplyTx
<1>2. Effect(tx.db, log[n], n) \in Tables
  BY <1>1, EffectType
<1> QED BY <1>1, <1>2 DEF ApplyRow, ApplyTx

-----------------------------------------------------------------------------
(* Every seq a node handles is one the primary committed *)

InRange ==
    /\ rlog \subseteq 1..committed
    /\ \A b \in net : b.evs \subseteq 1..committed
    /\ ptx.push \subseteq 1..Len(log)
    /\ poll.upto <= committed
    /\ tx.todo \subseteq 1..committed
    /\ tx.rlog \subseteq 1..committed
    /\ tx.batch.evs \subseteq 1..committed

\* A case for each action of Next: what a step lemma has to look at
LEMMA NextCases ==
    ASSUME [Next]_vars
    PROVE  \/ \E f \in Feeds : BeginIngest(f)
           \/ \E e \in ptx.rows : IngestRow(e)
           \/ \E f \in Feeds : RetireFeed(f)
           \/ \E f \in Feeds, t \in Tracks : RemoveTrack(f, t)
           \/ CommitIngest \/ RollbackIngest \/ PrimaryRestart
           \/ \E b \in net : PushArrives(b)
           \/ \E b \in net : PushFails(b)
           \/ \E n \in tx.todo : ApplyRow(n)
           \/ CommitApply \/ AbortApply
           \/ PollStart \/ PollFetch \/ PollError \/ PollApply \/ PollAdvance
           \/ PushTimeout \/ Restart
           \/ UNCHANGED vars
BY DEF Next, PrimaryNext, PushNext, ApplyNext, PollNext

\* Every action keeps the type invariant
LEMMA TypeStep == TypeOK /\ InRange /\ [Next]_vars => TypeOK'
<1> SUFFICES ASSUME TypeOK, InRange, [Next]_vars PROVE TypeOK'
  OBVIOUS
<1>0. Len(log) \in Nat /\ committed \in Nat /\ TablesAt(Len(log)) \in Tables
  BY TablesAtType DEF TypeOK
<1>1. ASSUME NEW f \in Feeds, BeginIngest(f) PROVE TypeOK'
  <2> DEFINE present == {c \in Children : TablesAt(Len(log)).child[f][c] # 0}
  <2>1. PICK changed \in BOOLEAN, replaced \in SUBSET Families, written \in SUBSET Tracks,
             emptied \in SUBSET (present \cap Families),
             stale \in SUBSET (present \cap Tracks) :
             ptx' = [open |-> TRUE, push |-> {},
                     rows |-> IngestRows(f, changed, replaced, emptied, written, stale)]
    BY <1>1 DEF BeginIngest
  <2>2. emptied \in SUBSET Families /\ stale \in SUBSET Tracks
    OBVIOUS
  <2>3. IngestRows(f, changed, replaced, emptied, written, stale) \in SUBSET Event
    BY <2>2, IngestRowsType
  <2>4. ptx' \in IngestTx
    BY <2>1, <2>3 DEF IngestTx
  <2> QED BY <1>1, <2>4 DEF BeginIngest, TypeOK
<1>2. ASSUME NEW e \in ptx.rows, IngestRow(e) PROVE TypeOK'
  <2>1. e \in Event /\ ptx \in IngestTx
    BY DEF TypeOK, IngestTx
  <2>2. Effect(TablesAt(Len(log)), e, Len(log) + 1) \in Tables
    BY <1>0, <2>1, EffectType
  <2>3. ptx' \in IngestTx
    <3>1. PICK p \in {ptx.push, ptx.push \cup {Len(log) + 1}} :
             ptx' = [ptx EXCEPT !.rows = @ \ {e}, !.push = p]
      BY <1>2 DEF IngestRow
    <3>2. p \in SUBSET Nat /\ ptx.rows \ {e} \in SUBSET Event
      BY <1>0, <2>1 DEF IngestTx
    <3> QED BY <2>1, <3>1, <3>2 DEF IngestTx
  <2>4. /\ log' \in Seq(Event) /\ tables' \in Seq(Tables)
        /\ Len(log') = Len(log) + 1 /\ Len(tables') = Len(log')
    BY <1>0, <1>2, <2>1, <2>2 DEF IngestRow, TypeOK
  <2>5. committed' \in 0..Len(log')
    BY <1>0, <1>2, <2>4 DEF IngestRow, TypeOK
  <2> QED BY <1>2, <2>3, <2>4, <2>5 DEF IngestRow, TypeOK
<1>3. ASSUME NEW e \in Event, CommitOne(e) PROVE TypeOK'
  <2>1. Effect(TablesAt(Len(log)), e, Len(log) + 1) \in Tables
    BY <1>0, EffectType
  <2>2. net' \in SUBSET Batch
    BY <1>0, <1>3, ConstantsAssumption DEF CommitOne, FanOut, Batch, TypeOK
  <2>3. /\ log' \in Seq(Event) /\ tables' \in Seq(Tables)
        /\ Len(log') = Len(log) + 1 /\ Len(tables') = Len(log')
        /\ committed' \in 0..Len(log')
    BY <1>0, <1>3, <2>1 DEF CommitOne, TypeOK
  <2> QED BY <1>3, <2>2, <2>3 DEF CommitOne, TypeOK
<1>4. ASSUME CommitIngest PROVE TypeOK'
  <2>1. net' \in SUBSET Batch
    BY <1>4, ConstantsAssumption DEF CommitIngest, FanOut, Batch, TypeOK, IngestTx
  <2>2. ptx' \in IngestTx
    BY <1>4 DEF CommitIngest, NoIngest, IngestTx
  <2> QED BY <1>0, <1>4, <2>1, <2>2 DEF CommitIngest, TypeOK
<1>5. ASSUME RollbackIngest PROVE TypeOK'
  <2>1. ptx' \in IngestTx
    BY <1>5 DEF RollbackIngest, NoIngest, IngestTx
  <2>2. /\ log' \in Seq(Event) /\ tables' \in Seq(Tables)
        /\ Len(log') = committed /\ Len(tables') = committed
    BY <1>0, <1>5 DEF RollbackIngest, TypeOK
  <2> QED BY <1>0, <1>5, <2>1, <2>2 DEF RollbackIngest, TypeOK
<1>6. ASSUME PrimaryRestart PROVE TypeOK'
  BY <1>6 DEF PrimaryRestart, TypeOK
<1>7. ASSUME NEW b \in net, PushArrives(b) PROVE TypeOK'
  <2>1. b \in Batch /\ b.evs \in SUBSET Nat
    BY DEF TypeOK, Batch
  <2>2. tx' \in ApplyTx
    BY <1>7, <2>1, OpenTxType DEF PushArrives
  <2> QED BY <1>7, <2>2 DEF PushArrives, TypeOK
<1>8. ASSUME NEW b \in net, PushFails(b) PROVE TypeOK'
  <2>1. net' \in SUBSET Batch
    BY <1>8, BatchLess DEF PushFails, TypeOK
  <2> QED BY <1>8, <2>1 DEF PushFails, TypeOK
<1>9. ASSUME NEW n \in tx.todo, ApplyRow(n) PROVE TypeOK'
  <2>1. n \in 1..Len(log)
    BY <1>0 DEF InRange, TypeOK
  <2>2. tx' \in ApplyTx
    BY <1>9, <2>1, ApplyRowType
  <2> QED BY <1>9, <2>2 DEF ApplyRow, TypeOK
<1>10. ASSUME CommitApply PROVE TypeOK'
  <2>1. tx.applied \in BOOLEAN /\ tx.dup \in BOOLEAN
        /\ tx.rlog \in SUBSET Nat /\ tx.db \in Tables /\ tx.max \in Nat
    BY DEF TypeOK, ApplyTx
  <2>2. net' \in SUBSET Batch /\ quiet' \in BOOLEAN /\ poll' \in PollLoop
    BY <1>10, <2>1, AnswerType DEF CommitApply
  <2>3. cursor' \in Nat
    BY <1>10, <2>1 DEF CommitApply, Raise, TypeOK
  <2> QED BY <1>10, <2>1, <2>2, <2>3, NoTxType DEF CommitApply, TypeOK
<1>11. ASSUME AbortApply PROVE TypeOK'
  <2>1. net' \in SUBSET Batch /\ quiet' \in BOOLEAN /\ poll' \in PollLoop
    BY <1>11, AnswerType DEF AbortApply
  <2> QED BY <1>11, <2>1, NoTxType DEF AbortApply, TypeOK
<1>12. ASSUME PollStart \/ PollError \/ PushTimeout PROVE TypeOK'
  BY <1>12, PollLoopTypes DEF PollStart, PollError, PushTimeout, TypeOK
<1>13. ASSUME PollFetch PROVE TypeOK'
  <2>1. NextSeq(last_seq) \in Nat
    BY <1>0, ConstantsAssumption DEF NextSeq, TypeOK
  <2>2. poll' \in PollLoop
    BY <1>13, <2>1, PollLoopTypes DEF PollFetch, TypeOK, PollLoop
  <2> QED BY <1>13, <2>2 DEF PollFetch, TypeOK
<1>14. ASSUME PollApply PROVE TypeOK'
  <2>1. (last_seq + 1)..poll.upto \in SUBSET Nat
    BY DEF TypeOK, PollLoop
  <2>2. tx' \in ApplyTx
    BY <1>14, <2>1, OpenTxType, NoTxType DEF PollApply
  <2>3. poll' \in PollLoop
    BY <1>14 DEF PollApply, TypeOK, PollLoop
  <2> QED BY <1>14, <2>2, <2>3 DEF PollApply, TypeOK
<1>15. ASSUME PollAdvance PROVE TypeOK'
  <2>1. poll.pages + 1 \in Nat /\ poll.upto \in Nat
    BY DEF TypeOK, PollLoop
  <2>2. poll' \in PollLoop
    BY <1>15, <2>1, PollLoopTypes DEF PollAdvance
  <2>3. last_seq' \in Nat
    BY <1>15, <2>1 DEF PollAdvance, Raise, TypeOK
  <2> QED BY <1>15, <2>2, <2>3 DEF PollAdvance, TypeOK
<1>16. ASSUME Restart PROVE TypeOK'
  <2>1. tx.batch \in Batch
    BY DEF TypeOK, ApplyTx
  <2>2. net' \in SUBSET Batch
    BY <1>16, <2>1, BatchLess DEF Restart, TypeOK
  <2>3. last_seq' \in Nat
    BY <1>16 DEF Restart, TypeOK
  <2>4. /\ quiet' \in BOOLEAN /\ poll' \in PollLoop /\ tx' \in ApplyTx /\ restarts' \in Nat
        /\ UNCHANGED <<log, tables, committed, ptx, rlog, rdb, cursor, aborts>>
    <3>1. quiet' = TRUE /\ poll' = Sleeping /\ tx' = NoTx /\ restarts' = restarts + 1
      BY <1>16, Zenon DEF Restart
    <3>2. UNCHANGED <<log, tables, committed, ptx, rlog, rdb, cursor, aborts>>
      BY <1>16, Zenon DEF Restart
    <3>3. quiet' \in BOOLEAN /\ poll' \in PollLoop /\ tx' \in ApplyTx
      BY <3>1, PollLoopTypes, NoTxType, Zenon
    <3>4. restarts' \in Nat
      BY <3>1 DEF TypeOK
    <3> QED BY <3>2, <3>3, <3>4
  <2> QED BY <2>2, <2>3, <2>4 DEF TypeOK
<1>17. ASSUME UNCHANGED vars PROVE TypeOK'
  BY <1>17 DEF vars, TypeOK
<1>18. ASSUME NEW f \in Feeds, RetireFeed(f) PROVE TypeOK'
  BY <1>3, <1>18, EventTypes DEF RetireFeed
<1>19. ASSUME NEW f \in Feeds, NEW t \in Tracks, RemoveTrack(f, t) PROVE TypeOK'
  BY <1>3, <1>19, EventTypes DEF RemoveTrack, Children
<1> QED
  BY NextCases, <1>1, <1>2, <1>4, <1>5, <1>6, <1>7, <1>8, <1>9, <1>10, <1>11, <1>12,
     <1>13, <1>14, <1>15, <1>16, <1>17, <1>18, <1>19

\* A committed row keeps its place and its content in every step
LEMMA CommittedRowsStay ==
    ASSUME TypeOK, [Next]_vars, NEW n \in 1..committed
    PROVE  log'[n] = log[n] /\ n \in 1..committed'
<1>0. Len(log) \in Nat /\ committed \in Nat /\ committed <= Len(log) /\ n \in 1..Len(log)
  BY DEF TypeOK
<1>1. ASSUME NEW e \in ptx.rows, IngestRow(e) PROVE log'[n] = log[n] /\ committed' = committed
  <2>1. log' = Append(log, e) /\ committed' = committed
    BY <1>1 DEF IngestRow
  <2> QED BY <1>0, <2>1 DEF TypeOK
<1>2. ASSUME NEW e, CommitOne(e) PROVE log'[n] = log[n] /\ committed' = Len(log) + 1
  <2>1. log' = Append(log, e) /\ committed' = Len(log) + 1
    BY <1>2 DEF CommitOne
  <2> QED BY <1>0, <2>1 DEF TypeOK
<1>3. ASSUME RollbackIngest PROVE log'[n] = log[n] /\ committed' = committed
  <2>1. log' = SubSeq(log, 1, committed) /\ committed' = committed
    BY <1>3 DEF RollbackIngest
  <2> QED BY <1>0, <2>1 DEF TypeOK
<1>4. ASSUME CommitIngest PROVE log'[n] = log[n] /\ committed' = Len(log)
  BY <1>4 DEF CommitIngest
<1>5. ASSUME NEW f \in Feeds, RetireFeed(f) PROVE log'[n] = log[n] /\ committed' = Len(log) + 1
  BY <1>2, <1>5 DEF RetireFeed
<1>6. ASSUME NEW f \in Feeds, NEW t \in Tracks, RemoveTrack(f, t)
      PROVE  log'[n] = log[n] /\ committed' = Len(log) + 1
  BY <1>2, <1>6 DEF RemoveTrack
<1>7. CASE UNCHANGED <<log, committed>>
  BY <1>7
<1> QED
  <2>1. \/ \E e \in ptx.rows : IngestRow(e)
        \/ \E f \in Feeds : RetireFeed(f)
        \/ \E f \in Feeds, t \in Tracks : RemoveTrack(f, t)
        \/ RollbackIngest \/ CommitIngest
        \/ UNCHANGED <<log, committed>>
    BY NextCases DEF BeginIngest, PrimaryRestart, PushArrives, PushFails, ApplyRow, CommitApply,
       AbortApply, PollStart, PollFetch, PollError, PollApply, PollAdvance, PushTimeout,
       Restart, vars
  <2> QED BY <2>1, <1>0, <1>1, <1>3, <1>4, <1>5, <1>6, <1>7

\* Every action keeps the seqs a node handles within the committed log
LEMMA RangeStep == TypeOK /\ InRange /\ [Next]_vars => InRange'
<1> SUFFICES ASSUME TypeOK, InRange, [Next]_vars PROVE InRange'
  OBVIOUS
<1>0. Len(log) \in Nat /\ committed \in Nat /\ committed <= Len(log)
  BY DEF TypeOK
<1>1. ASSUME NEW f \in Feeds, BeginIngest(f) PROVE InRange'
  BY <1>1 DEF BeginIngest, InRange
<1>2. ASSUME NEW e \in ptx.rows, IngestRow(e) PROVE InRange'
  <2>1. Len(log') = Len(log) + 1
    BY <1>2 DEF IngestRow, TypeOK
  <2>2. ptx.push \subseteq 1..Len(log) /\ ptx \in IngestTx
    BY DEF InRange, TypeOK
  <2>3. PICK p \in {ptx.push, ptx.push \cup {Len(log) + 1}} :
             ptx' = [ptx EXCEPT !.rows = @ \ {e}, !.push = p]
    BY <1>2 DEF IngestRow
  <2>4. ptx'.push \subseteq 1..Len(log')
    BY <1>0, <2>1, <2>2, <2>3 DEF IngestTx
  <2> QED BY <1>2, <2>4 DEF IngestRow, InRange
<1>3. ASSUME NEW e, CommitOne(e) PROVE InRange'
  <2>1. Len(log') = Len(log) + 1 /\ committed' = Len(log) + 1
    BY <1>3 DEF CommitOne, TypeOK
  <2>2. \A b \in net' : b.evs \subseteq 1..committed'
    BY <1>0, <1>3, <2>1 DEF CommitOne, FanOut, InRange
  <2> QED BY <1>0, <1>3, <2>1, <2>2 DEF CommitOne, InRange, TypeOK, PollLoop
<1>4. ASSUME CommitIngest PROVE InRange'
  <2>1. \A b \in net' : b.evs \subseteq 1..committed'
    BY <1>0, <1>4 DEF CommitIngest, FanOut, InRange
  <2> QED BY <1>0, <1>4, <2>1 DEF CommitIngest, NoIngest, InRange, TypeOK, PollLoop
<1>5. ASSUME RollbackIngest PROVE InRange'
  BY <1>5 DEF RollbackIngest, NoIngest, InRange
<1>6. ASSUME PrimaryRestart PROVE InRange'
  BY <1>6 DEF PrimaryRestart, InRange
<1>7. ASSUME NEW b \in net, PushArrives(b) PROVE InRange'
  BY <1>7 DEF PushArrives, OpenTx, InRange
<1>8. ASSUME NEW b \in net, PushFails(b) PROVE InRange'
  <2>1. b \in Batch /\ b.evs \subseteq 1..committed
    BY DEF TypeOK, InRange
  <2>2. [b EXCEPT !.left = @ - 1].evs = b.evs
    BY <2>1 DEF Batch
  <2> QED BY <1>8, <2>1, <2>2 DEF PushFails, InRange
<1>9. ASSUME NEW n \in tx.todo, ApplyRow(n) PROVE InRange'
  <2>1. /\ tx \in ApplyTx /\ n \in 1..committed
        /\ tx.todo \subseteq 1..committed /\ tx.rlog \subseteq 1..committed
        /\ tx.batch.evs \subseteq 1..committed
    BY DEF TypeOK, InRange
  <2>2. /\ tx'.todo \subseteq 1..committed /\ tx'.rlog \subseteq 1..committed
        /\ tx'.batch.evs \subseteq 1..committed
    BY <1>9, <2>1 DEF ApplyRow, ApplyTx
  <2> QED BY <1>9, <2>2 DEF ApplyRow, InRange
<1>10. ASSUME NEW a, NEW d, Answer(a, d)
       PROVE  (\A b \in net' : b.evs \subseteq 1..committed) /\ poll'.upto = poll.upto
  <2>1. tx.batch \in Batch /\ tx.batch.evs \subseteq 1..committed
    BY DEF TypeOK, ApplyTx, InRange
  <2>2. [tx.batch EXCEPT !.left = @ - 1].evs = tx.batch.evs
    BY <2>1 DEF Batch
  <2>3. CASE tx.src = "poll"
    BY <1>10, <2>3 DEF Answer, InRange, TypeOK, PollLoop
  <2>4. CASE tx.src = "push"
    BY <1>10, <2>1, <2>2, <2>4 DEF Answer, InRange
  <2> QED BY <1>10, <2>3, <2>4 DEF Answer
<1>11. ASSUME tx' = NoTx
       PROVE  tx'.todo = {} /\ tx'.rlog = {} /\ tx'.batch.evs = {}
  BY <1>11 DEF NoTx
<1>12. ASSUME CommitApply PROVE InRange'
  BY <1>10, <1>11, <1>12 DEF CommitApply, InRange
<1>13. ASSUME AbortApply PROVE InRange'
  BY <1>10, <1>11, <1>13 DEF AbortApply, InRange
<1>14. ASSUME PollStart \/ PollError \/ PushTimeout PROVE InRange'
  BY <1>0, <1>14 DEF PollStart, PollError, PushTimeout, Sleeping, InRange
<1>15. ASSUME PollFetch PROVE InRange'
  <2>1. NextSeq(last_seq) > last_seq => NextSeq(last_seq) <= committed
    BY <1>0, ConstantsAssumption DEF NextSeq, TypeOK
  <2>2. poll'.upto <= committed
    BY <1>0, <1>15, <2>1 DEF PollFetch, Sleeping, TypeOK, PollLoop
  <2> QED BY <1>15, <2>2 DEF PollFetch, InRange
<1>16. ASSUME PollApply PROVE InRange'
  <2>1. (last_seq + 1)..poll.upto \subseteq 1..committed
    BY <1>0 DEF TypeOK, InRange, PollLoop
  <2>2. poll'.upto = poll.upto
    BY <1>16 DEF PollApply, TypeOK, PollLoop
  <2>3. tx'.todo \subseteq 1..committed /\ tx'.rlog = rlog /\ tx'.batch.evs = {}
    BY <1>16, <2>1 DEF PollApply, OpenTx, NoTx
  <2> QED BY <1>16, <2>2, <2>3 DEF PollApply, InRange
<1>17. ASSUME PollAdvance PROVE InRange'
  <2>1. poll'.upto = 0
    BY <1>17 DEF PollAdvance, Sleeping
  <2> QED BY <1>0, <1>17, <2>1 DEF PollAdvance, InRange
<1>18. ASSUME Restart PROVE InRange'
  <2>1. tx.batch \in Batch /\ tx.batch.evs \subseteq 1..committed
    BY DEF TypeOK, ApplyTx, InRange
  <2>2. [tx.batch EXCEPT !.left = @ - 1].evs = tx.batch.evs
    BY <2>1 DEF Batch
  <2>3. \A b \in net' : b.evs \subseteq 1..committed
    BY <1>18, <2>1, <2>2 DEF Restart, InRange
  <2>4. poll'.upto = 0 /\ UNCHANGED <<log, committed, ptx, rlog>> /\ tx' = NoTx
    BY <1>18 DEF Restart, Sleeping
  <2> QED BY <1>0, <1>11, <2>3, <2>4 DEF InRange
<1>19. ASSUME UNCHANGED vars PROVE InRange'
  BY <1>19 DEF vars, InRange
<1>20. ASSUME NEW f \in Feeds, RetireFeed(f) PROVE InRange'
  BY <1>3, <1>20 DEF RetireFeed
<1>21. ASSUME NEW f \in Feeds, NEW t \in Tracks, RemoveTrack(f, t) PROVE InRange'
  BY <1>3, <1>21 DEF RemoveTrack
<1> QED
  BY NextCases, <1>1, <1>2, <1>4, <1>5, <1>6, <1>7, <1>8, <1>9, <1>12, <1>13, <1>14,
     <1>15, <1>16, <1>17, <1>18, <1>19, <1>20, <1>21

\* The initial state has its types and handles no seq
LEMMA InitInv == Init => TypeOK /\ InRange
<1> SUFFICES ASSUME Init PROVE TypeOK /\ InRange
  OBVIOUS
<1>1. ptx \in IngestTx
  BY DEF Init, NoIngest, IngestTx
<1>2. TypeOK
  <2>1. log = <<>> /\ tables = <<>> /\ committed = 0 /\ rlog = {} /\ cursor = 0
        /\ last_seq = 0 /\ aborts = 0 /\ restarts = 0 /\ net = {}
    BY Zenon DEF Init
  <2>2. quiet \in BOOLEAN /\ poll \in PollLoop /\ tx \in ApplyTx /\ rdb \in Tables
    BY NoTablesType, NoTxType, PollLoopTypes, Zenon DEF Init
  <2> QED BY <1>1, <2>1, <2>2 DEF TypeOK
<1>3. InRange
  BY DEF Init, InRange, NoIngest, NoTx, Sleeping
<1> QED BY <1>2, <1>3

\* Type correctness of the whole system: every reachable state of the primary,
\* the deliveries and the community node has its type, and every seq the node
\* handles names a committed row.
THEOREM TypeCorrect == Spec => [](TypeOK /\ InRange)
<1>1. TypeOK /\ InRange /\ [Next]_vars => (TypeOK /\ InRange)'
  BY TypeStep, RangeStep
<1> QED BY InitInv, <1>1, PTL DEF Spec

-----------------------------------------------------------------------------
(* The community node's store *)

StoreInv ==
    /\ cursor = 0 \/ cursor \in rlog
    /\ RowsRecorded(log, rdb, rlog) /\ NoOrphans(rdb)
    /\ RowsRecorded(log, tx.db, tx.rlog) /\ NoOrphans(tx.db)
    /\ tx.src # "none" => rlog \subseteq tx.rlog
    /\ tx.src # "none" /\ tx.rlog = rlog => tx.db = rdb
    /\ tx.max = 0 \/ tx.max \in tx.rlog

\* Recorded rows stay recorded when the log keeps them and more is recorded
LEMMA RowsRecordedStay ==
    ASSUME NEW l, NEW l2, NEW db \in Tables, NEW rec, NEW rec2,
           RowsRecorded(l, db, rec), rec \subseteq rec2, \A n \in rec : l2[n] = l[n]
    PROVE  RowsRecorded(l2, db, rec2)
BY DEF RowsRecorded

\* An event that is recorded and does not break a foreign key keeps the rows recorded
LEMMA EffectRecorded ==
    ASSUME NEW l, NEW db \in Tables, NEW rec, NEW n \in Nat, l[n] \in Event,
           RowsRecorded(l, db, rec)
    PROVE  RowsRecorded(l, Effect(db, l[n], n), rec \cup {n})
<1> DEFINE e == l[n]
           after == Effect(db, e, n)
<1>1. e.feed \in Feeds
  BY DEF Event
<1> SUFFICES ASSUME NEW f \in Feeds
             PROVE /\ after.feeds[f] # 0 =>
                        /\ after.feeds[f] \in rec \cup {n}
                        /\ l[after.feeds[f]].type = "FeedUpserted"
                        /\ l[after.feeds[f]].feed = f
                   /\ \A c \in Children : after.child[f][c] # 0 =>
                        /\ after.child[f][c] \in rec \cup {n}
                        /\ l[after.child[f][c]].type \in {"TrackUpserted", "RowsReplaced"}
                        /\ l[after.child[f][c]].feed = f /\ l[after.child[f][c]].child = c
  BY DEF RowsRecorded
<1>2. after.feeds[f] = IF f = e.feed /\ e.type = "FeedUpserted" THEN n
                       ELSE IF f = e.feed /\ e.type = "FeedRetired" THEN 0 ELSE db.feeds[f]
  BY <1>1 DEF Effect, Tables
<1>3. \A c \in Children : after.child[f][c] \in {0, db.child[f][c]}
        \/ (/\ after.child[f][c] = n /\ f = e.feed /\ c = e.child
            /\ e.type \in {"TrackUpserted", "RowsReplaced"})
  BY <1>1 DEF Effect, Tables
<1> QED BY <1>2, <1>3 DEF RowsRecorded

\* An event whose foreign key holds leaves no orphan
LEMMA EffectNoOrphans ==
    ASSUME NEW db \in Tables, NEW e \in Event, NEW n \in Nat \ {0},
           NoOrphans(db), ~ForeignKeyFails(db, e)
    PROVE  NoOrphans(Effect(db, e, n))
<1>1. e.feed \in Feeds
  BY DEF Event
<1> SUFFICES ASSUME NEW f \in Feeds, NEW c \in Children,
                    Effect(db, e, n).child[f][c] # 0
             PROVE  Effect(db, e, n).feeds[f] # 0
  BY DEF NoOrphans
<1>2. CASE f # e.feed
  BY <1>1, <1>2 DEF Effect, Tables, NoOrphans
<1>3. CASE f = e.feed
  <2>1. e.type # "FeedRetired"
    BY <1>3 DEF Effect, Tables
  <2>2. CASE e.type = "FeedUpserted"
    BY <1>3, <2>2 DEF Effect, Tables
  <2>3. CASE e.type \in {"TrackUpserted", "RowsReplaced"}
    BY <1>3, <2>3 DEF Effect, Tables, ForeignKeyFails
  <2>4. CASE e.type \in {"TrackRemoved", "RowsEmptied"}
    BY <1>3, <2>4 DEF Effect, Tables, NoOrphans
  <2> QED BY <2>1, <2>2, <2>3, <2>4 DEF Event
<1> QED BY <1>2, <1>3

\* What a step does to the store: one row of a transaction, a commit, the end or the
\* start of a transaction, or nothing
LEMMA StoreCases ==
    ASSUME TypeOK, [Next]_vars
    PROVE  \/ \E n \in tx.todo : ApplyRow(n)
           \/ CommitApply
           \/ tx' = NoTx /\ UNCHANGED <<rlog, rdb, cursor>>
           \/ UNCHANGED <<rlog, rdb, cursor>>
              /\ \E src \in {"push", "poll"}, b \in Batch, evs \in SUBSET Nat : OpenTx(src, b, evs)
           \/ UNCHANGED <<rlog, rdb, cursor, tx>>
<1>1. ASSUME NEW b \in net, PushArrives(b)
      PROVE  UNCHANGED <<rlog, rdb, cursor>> /\ b \in Batch /\ b.evs \in SUBSET Nat
             /\ OpenTx("push", b, b.evs)
  BY <1>1 DEF PushArrives, TypeOK, Batch
<1>2. ASSUME PollApply
      PROVE  UNCHANGED <<rlog, rdb, cursor>> /\ (last_seq + 1)..poll.upto \in SUBSET Nat
             /\ OpenTx("poll", NoTx.batch, (last_seq + 1)..poll.upto)
  BY <1>2 DEF PollApply, TypeOK, PollLoop
<1>3. ASSUME AbortApply \/ Restart PROVE tx' = NoTx /\ UNCHANGED <<rlog, rdb, cursor>>
  BY <1>3 DEF AbortApply, Restart
<1>4. ASSUME \/ \E f \in Feeds : BeginIngest(f)
             \/ \E e \in ptx.rows : IngestRow(e)
             \/ \E f \in Feeds : RetireFeed(f)
             \/ \E f \in Feeds, t \in Tracks : RemoveTrack(f, t)
             \/ CommitIngest \/ RollbackIngest \/ PrimaryRestart
             \/ \E b \in net : PushFails(b)
             \/ PollStart \/ PollFetch \/ PollError \/ PollAdvance \/ PushTimeout
             \/ UNCHANGED vars
      PROVE  UNCHANGED <<rlog, rdb, cursor, tx>>
  BY <1>4 DEF BeginIngest, IngestRow, RetireFeed, RemoveTrack, CommitOne, CommitIngest,
     RollbackIngest, PrimaryRestart, PushFails, PollStart, PollFetch, PollError,
     PollAdvance, PushTimeout, vars
<1> QED BY NextCases, NoTxType, <1>1, <1>2, <1>3, <1>4

\* Every action keeps the store invariant
LEMMA StoreStep == TypeOK /\ InRange /\ StoreInv /\ [Next]_vars => StoreInv'
<1> SUFFICES ASSUME TypeOK, InRange, StoreInv, [Next]_vars PROVE StoreInv'
  OBVIOUS
<1>0. rdb \in Tables /\ tx \in ApplyTx /\ tx.db \in Tables
  BY DEF TypeOK, ApplyTx
<1>1. /\ \A n \in rlog : log'[n] = log[n]
      /\ \A n \in tx.rlog : log'[n] = log[n]
  BY CommittedRowsStay DEF InRange
<1>2. RowsRecorded(log', rdb, rlog)
  BY <1>0, <1>1, RowsRecordedStay DEF StoreInv
<1>3. RowsRecorded(log', tx.db, tx.rlog)
  BY <1>0, <1>1, RowsRecordedStay DEF StoreInv
<1>4. /\ RowsRecorded(log', NoTables, {}) /\ NoOrphans(NoTables)
  BY DEF RowsRecorded, NoOrphans, NoTables
<1>5. /\ NoTx.db = NoTables /\ NoTx.rlog = {} /\ NoTx.src = "none" /\ NoTx.max = 0
  BY DEF NoTx
<1>6. CASE UNCHANGED <<rlog, rdb, cursor, tx>>
  BY <1>2, <1>3, <1>6 DEF StoreInv
<1>7. ASSUME NEW src, NEW b, NEW evs, OpenTx(src, b, evs), UNCHANGED <<rlog, rdb, cursor>>
      PROVE  StoreInv'
  <2>1. tx'.rlog = rlog /\ tx'.db = rdb /\ tx'.max = 0
    BY <1>7 DEF OpenTx
  <2> QED BY <1>2, <1>7, <2>1 DEF StoreInv
<1>8. CASE tx' = NoTx /\ UNCHANGED <<rlog, rdb, cursor>>
  BY <1>2, <1>4, <1>5, <1>8 DEF StoreInv
<1>9. ASSUME NEW n \in tx.todo, ApplyRow(n) PROVE StoreInv'
  <2>1. /\ n \in Nat \ {0} /\ log[n] \in Event /\ UNCHANGED <<log, rlog, rdb, cursor>>
    BY <1>9 DEF ApplyRow, InRange, TypeOK
  <2>2. CASE n \in tx.rlog
    <3>1. /\ tx'.rlog = tx.rlog /\ tx'.db = tx.db /\ tx'.src = tx.src
          /\ tx'.max \in {n, tx.max}
      BY <1>0, <1>9, <2>2 DEF ApplyRow, ApplyTx
    <3> QED BY <1>2, <1>3, <2>1, <2>2, <3>1 DEF StoreInv
  <2>3. CASE n \notin tx.rlog /\ ForeignKeyFails(tx.db, log[n])
    <3>1. /\ tx'.rlog = tx.rlog \cup {n} /\ tx'.db = tx.db /\ tx'.src = tx.src
          /\ tx'.max = tx.max
      BY <1>0, <1>9, <2>3 DEF ApplyRow, ApplyTx
    <3>2. RowsRecorded(log', tx'.db, tx'.rlog)
      BY <1>0, <1>3, <3>1, RowsRecordedStay
    <3>3. tx'.rlog # rlog'
      BY <1>9, <2>1, <2>3, <3>1 DEF StoreInv, ApplyRow
    <3> QED BY <1>2, <2>1, <3>1, <3>2, <3>3 DEF StoreInv
  <2>4. CASE n \notin tx.rlog /\ ~ForeignKeyFails(tx.db, log[n])
    <3>1. /\ tx'.rlog = tx.rlog \cup {n} /\ tx'.db = Effect(tx.db, log[n], n)
          /\ tx'.src = tx.src /\ tx'.max \in {n, tx.max}
      BY <1>0, <1>9, <2>4 DEF ApplyRow, ApplyTx
    <3>2. RowsRecorded(log', tx'.db, tx'.rlog)
      BY <1>0, <2>1, <3>1, EffectRecorded DEF StoreInv
    <3>3. NoOrphans(tx'.db)
      BY <1>0, <2>1, <2>4, <3>1, EffectNoOrphans DEF StoreInv
    <3>4. tx'.rlog # rlog'
      BY <1>9, <2>1, <2>4, <3>1 DEF StoreInv, ApplyRow
    <3> QED BY <1>2, <2>1, <3>1, <3>2, <3>3, <3>4 DEF StoreInv
  <2> QED BY <2>2, <2>3, <2>4
<1>10. ASSUME CommitApply PROVE StoreInv'
  <2>1. /\ rlog' = tx.rlog /\ rdb' = tx.db /\ tx' = NoTx /\ tx.src # "none"
        /\ cursor' \in {cursor, tx.max}
    BY <1>10 DEF CommitApply, Raise
  <2>2. cursor' = 0 \/ cursor' \in rlog'
    BY <2>1 DEF StoreInv
  <2> QED BY <1>3, <1>4, <1>5, <2>1, <2>2 DEF StoreInv
<1> QED BY <1>6, <1>7, <1>8, <1>9, <1>10, StoreCases

\* The store of the initial state is empty
LEMMA InitStore == Init => StoreInv
BY DEF Init, StoreInv, RowsRecorded, NoOrphans, NoTables, NoTx

\* The invariant from which the safety theorems follow
THEOREM StoreSafe == Spec => [](TypeOK /\ InRange /\ StoreInv)
<1>1. TypeOK /\ InRange /\ StoreInv /\ [Next]_vars => (TypeOK /\ InRange /\ StoreInv)'
  BY TypeStep, RangeStep, StoreStep
<1> QED BY InitInv, InitStore, <1>1, PTL DEF Spec

\* The persisted cursor of a community node never runs ahead of the rows it stands
\* for, and the node records committed events only, whatever is lost, repeated,
\* reordered, aborted or restarted.
THEOREM CursorEarned == Spec => []CursorIsEarned
<1>1. TypeOK /\ InRange /\ StoreInv => CursorIsEarned
  BY DEF InRange, StoreInv, CursorIsEarned
<1> QED BY StoreSafe, <1>1, PTL

\* Every row a community node serves has its recorded event.
THEOREM RowsRecordedAlways == Spec => []RowsComeFromRecordedEvents
<1>1. TypeOK /\ InRange /\ StoreInv => RowsComeFromRecordedEvents
  BY DEF StoreInv, RowsComeFromRecordedEvents
<1> QED BY StoreSafe, <1>1, PTL

\* A community node never serves a row of a feed it does not hold.
THEOREM NeverOrphaned == Spec => []NoOrphanRows
<1>1. TypeOK /\ InRange /\ StoreInv => NoOrphanRows
  BY DEF StoreInv, NoOrphanRows
<1> QED BY StoreSafe, <1>1, PTL

\* No step moves the persisted cursor back or forgets a recorded event.
THEOREM SyncStateGrows == Spec => SyncStateOnlyGrows
<1>1. TypeOK /\ InRange /\ StoreInv /\ [Next]_vars
      => [cursor <= cursor' /\ rlog \subseteq rlog']_vars
  <2> SUFFICES ASSUME TypeOK, InRange, StoreInv, [Next]_vars
               PROVE  cursor <= cursor' /\ rlog \subseteq rlog'
    OBVIOUS
  <2>1. cursor \in Nat /\ tx.max \in Nat
    BY DEF TypeOK, ApplyTx
  <2>2. ASSUME CommitApply PROVE cursor <= cursor' /\ rlog \subseteq rlog'
    BY <2>1, <2>2 DEF CommitApply, Raise, StoreInv
  <2>3. ASSUME NEW n \in tx.todo, ApplyRow(n) PROVE UNCHANGED <<rlog, cursor>>
    BY <2>3 DEF ApplyRow
  <2> QED BY StoreCases, <2>1, <2>2, <2>3
<1> QED BY StoreSafe, <1>1, PTL DEF Spec, SyncStateOnlyGrows

\* A batch of recorded events changes no table, however late it is repeated.
THEOREM RedeliveryHarmless == Spec => RedeliveryChangesNothing
<1>1. TypeOK /\ InRange /\ StoreInv /\ [Next]_vars => [rdb' # rdb => rlog' # rlog]_vars
  <2> SUFFICES ASSUME TypeOK, InRange, StoreInv, [Next]_vars, rlog' = rlog PROVE rdb' = rdb
    OBVIOUS
  <2>1. ASSUME CommitApply PROVE rdb' = rdb
    BY <2>1 DEF CommitApply, StoreInv
  <2>2. ASSUME NEW n \in tx.todo, ApplyRow(n) PROVE rdb' = rdb
    BY <2>2 DEF ApplyRow
  <2> QED BY StoreCases, <2>1, <2>2
<1> QED BY StoreSafe, <1>1, PTL DEF Spec, RedeliveryChangesNothing

-----------------------------------------------------------------------------
(* The poll loop alone: no push, no failed transaction *)

PollOnly == ~Subscribed /\ MaxAborts = 0

\* A row that needs its feed comes after the row that writes the feed
RowsHaveTheirFeed ==
    /\ ~ptx.open => ptx.rows = {}
    /\ \A e \in ptx.rows :
         /\ e.type # "FeedRetired"
         /\ e.type \in {"TrackUpserted", "RowsReplaced"} =>
              \/ TablesAt(Len(log)).feeds[e.feed] # 0
              \/ FeedEvent("FeedUpserted", e.feed) \in ptx.rows

\* The tables of the primary are the effects of its log, and no row of the log
\* lacks its feed
TablesAreEffects ==
    \A n \in 1..Len(log) :
        /\ tables[n] = Effect(TablesAt(n - 1), log[n], n)
        /\ ~ForeignKeyFails(TablesAt(n - 1), log[n])

\* The node holds the events up to its cursor and the tables after them
NodeIsPrefix ==
    /\ net = {} /\ aborts = 0
    /\ rlog = 1..cursor /\ rdb = TablesAt(cursor)
    /\ last_seq <= cursor

\* The open transaction has the page up to row k
TxIsPrefix(k) ==
    /\ tx.todo = (k + 1)..poll.upto
    /\ tx.rlog = 1..Raise(cursor, k) /\ tx.db = TablesAt(Raise(cursor, k))
    /\ tx.max = IF k = last_seq THEN 0 ELSE k

\* The poll loop and its transaction
PageIsNext ==
    /\ tx.src \in {"none", "poll"}
    /\ tx.src = "poll" <=> poll.pc = "applying"
    /\ poll.pc \in {"fetched", "applying", "applied"} => poll.upto > last_seq
    /\ poll.pc = "applying" => \E k \in last_seq..poll.upto : TxIsPrefix(k)
    /\ poll.pc = "applied" => poll.upto <= cursor

PollIInv == RowsHaveTheirFeed /\ TablesAreEffects /\ NodeIsPrefix /\ PageIsNext

\* What a step does to the primary
LEMMA PrimaryCases ==
    ASSUME [Next]_vars
    PROVE  \/ \E f \in Feeds : BeginIngest(f)
           \/ \E e \in ptx.rows : IngestRow(e)
           \/ \E e \in Event : CommitOne(e) /\ e.type \in {"FeedRetired", "TrackRemoved"}
           \/ CommitIngest \/ RollbackIngest
           \/ UNCHANGED <<log, tables, committed, ptx>>
<1>1. ASSUME NEW f \in Feeds, RetireFeed(f)
      PROVE  \E e \in Event : CommitOne(e) /\ e.type \in {"FeedRetired", "TrackRemoved"}
  <2>1. FeedEvent("FeedRetired", f).type = "FeedRetired"
    BY DEF FeedEvent
  <2>2. FeedEvent("FeedRetired", f) \in Event /\ CommitOne(FeedEvent("FeedRetired", f))
    BY <1>1, EventTypes DEF RetireFeed
  <2> QED BY <2>1, <2>2
<1>2. ASSUME NEW f \in Feeds, NEW t \in Tracks, RemoveTrack(f, t)
      PROVE  \E e \in Event : CommitOne(e) /\ e.type \in {"FeedRetired", "TrackRemoved"}
  <2>1. ChildEvent("TrackRemoved", f, t).type = "TrackRemoved"
    BY DEF ChildEvent
  <2>2. /\ ChildEvent("TrackRemoved", f, t) \in Event
        /\ CommitOne(ChildEvent("TrackRemoved", f, t))
    BY <1>2, EventTypes DEF RemoveTrack, Children
  <2> QED BY <2>1, <2>2
<1>3. ASSUME \/ PrimaryRestart
             \/ \E b \in net : PushArrives(b)
             \/ \E b \in net : PushFails(b)
             \/ \E n \in tx.todo : ApplyRow(n)
             \/ CommitApply \/ AbortApply
             \/ PollStart \/ PollFetch \/ PollError \/ PollApply \/ PollAdvance
             \/ PushTimeout \/ Restart
             \/ UNCHANGED vars
      PROVE  UNCHANGED <<log, tables, committed, ptx>>
  BY <1>3 DEF PrimaryRestart, PushArrives, PushFails, ApplyRow, CommitApply, AbortApply,
     PollStart, PollFetch, PollError, PollApply, PollAdvance, PushTimeout, Restart, vars
<1> QED BY NextCases, <1>1, <1>2, <1>3

\* A new row leaves the tables after the earlier rows alone
LEMMA AppendTables ==
    ASSUME TypeOK, NEW x \in Tables, tables' = Append(tables, x)
    PROVE  /\ \A n \in 0..Len(log) : TablesAt(n)' = TablesAt(n)
           /\ \A n \in Nat : n = Len(log) + 1 => TablesAt(n)' = x
BY DEF TypeOK, TablesAt

\* A rollback leaves the tables after the committed rows alone
LEMMA RollbackTables ==
    ASSUME TypeOK, RollbackIngest
    PROVE  \A n \in 0..committed : TablesAt(n)' = TablesAt(n)
<1>1. tables' = SubSeq(tables, 1, committed)
  BY DEF RollbackIngest
<1> QED BY <1>1 DEF TypeOK, TablesAt

\* Every step leaves the tables after the committed rows alone
LEMMA CommittedTablesStay ==
    ASSUME TypeOK, [Next]_vars
    PROVE  /\ \A n \in 0..committed : TablesAt(n)' = TablesAt(n)
           /\ committed <= committed' /\ committed' \in 0..Len(log')
<1>0. committed \in 0..Len(log) /\ Len(log) \in Nat /\ TablesAt(Len(log)) \in Tables
  BY TablesAtType DEF TypeOK
<1>1. ASSUME NEW e \in ptx.rows, IngestRow(e) PROVE
         /\ \A n \in 0..committed : TablesAt(n)' = TablesAt(n)
         /\ committed' = committed /\ Len(log') = Len(log) + 1
  <2>1. e \in Event
    BY DEF TypeOK, IngestTx
  <2>2. Effect(TablesAt(Len(log)), e, Len(log) + 1) \in Tables
    BY <1>0, <2>1, EffectType
  <2>3. \A n \in 0..Len(log) : TablesAt(n)' = TablesAt(n)
    BY <1>1, <2>2, AppendTables DEF IngestRow
  <2> QED BY <1>0, <1>1, <2>3 DEF IngestRow, TypeOK
<1>2. ASSUME NEW e \in Event, CommitOne(e) PROVE
         /\ \A n \in 0..committed : TablesAt(n)' = TablesAt(n)
         /\ committed' = Len(log) + 1 /\ Len(log') = Len(log) + 1
  <2>1. Effect(TablesAt(Len(log)), e, Len(log) + 1) \in Tables
    BY <1>0, EffectType
  <2>2. \A n \in 0..Len(log) : TablesAt(n)' = TablesAt(n)
    BY <1>2, <2>1, AppendTables DEF CommitOne
  <2> QED BY <1>0, <1>2, <2>2 DEF CommitOne, TypeOK
<1>3. ASSUME RollbackIngest PROVE
         /\ \A n \in 0..committed : TablesAt(n)' = TablesAt(n)
         /\ committed' = committed /\ Len(log') = committed
  BY <1>0, <1>3, RollbackTables DEF RollbackIngest, TypeOK
<1>4. ASSUME CommitIngest PROVE
         /\ \A n \in 0..committed : TablesAt(n)' = TablesAt(n)
         /\ committed' = Len(log) /\ log' = log
  BY <1>4 DEF CommitIngest, TablesAt
<1>5. ASSUME UNCHANGED <<log, tables, committed>> PROVE
         /\ \A n \in 0..committed : TablesAt(n)' = TablesAt(n)
         /\ committed' = committed /\ log' = log
  BY <1>5 DEF TablesAt
<1>6. ASSUME NEW f \in Feeds, BeginIngest(f) PROVE UNCHANGED <<log, tables, committed>>
  BY <1>6 DEF BeginIngest
<1> QED BY <1>0, <1>1, <1>2, <1>3, <1>4, <1>5, <1>6, PrimaryCases

\* A row that has its feed extends the effects of the log
LEMMA AppendEffect ==
    ASSUME TypeOK, TablesAreEffects, NEW e \in Event,
           log' = Append(log, e),
           tables' = Append(tables, Effect(TablesAt(Len(log)), e, Len(log) + 1)),
           ~ForeignKeyFails(TablesAt(Len(log)), e)
    PROVE  TablesAreEffects'
<1> DEFINE x == Effect(TablesAt(Len(log)), e, Len(log) + 1)
<1>0. Len(log) \in Nat /\ TablesAt(Len(log)) \in Tables
  BY TablesAtType DEF TypeOK
<1>1. x \in Tables
  BY <1>0, EffectType
<1>2. \A n \in 0..Len(log) : TablesAt(n)' = TablesAt(n)
  BY <1>1, AppendTables
<1>3. Len(log') = Len(log) + 1
  BY DEF TypeOK
<1>4. ASSUME NEW n \in 1..Len(log')
      PROVE  tables'[n] = Effect(TablesAt(n - 1)', log'[n], n)
             /\ ~ForeignKeyFails(TablesAt(n - 1)', log'[n])
  <2>1. CASE n = Len(log) + 1
    <3>1. log'[n] = e /\ tables'[n] = x
      BY <1>0, <1>1, <2>1 DEF TypeOK
    <3>2. n - 1 = Len(log) /\ n - 1 \in 0..Len(log)
      BY <1>0, <2>1
    <3>3. TablesAt(n - 1)' = TablesAt(Len(log))
      BY <1>2, <3>2
    <3> QED BY <2>1, <3>1, <3>3
  <2>2. CASE n # Len(log) + 1
    <3>1. n \in 1..Len(log) /\ n - 1 \in 0..Len(log)
      BY <1>0, <1>3, <2>2
    <3>2. log'[n] = log[n] /\ tables'[n] = tables[n]
      BY <1>0, <1>1, <3>1 DEF TypeOK
    <3>3. TablesAt(n - 1)' = TablesAt(n - 1)
      BY <1>2, <3>1
    <3> QED BY <3>1, <3>2, <3>3 DEF TablesAreEffects
  <2> QED BY <2>1, <2>2
<1> QED BY <1>4 DEF TablesAreEffects

\* Every step of the primary writes rows that have their feed
LEMMA PrimaryStep ==
    ASSUME TypeOK, RowsHaveTheirFeed, TablesAreEffects, [Next]_vars
    PROVE  RowsHaveTheirFeed' /\ TablesAreEffects'
<1> DEFINE db == TablesAt(Len(log))
<1>0. Len(log) \in Nat /\ committed \in 0..Len(log) /\ db \in Tables /\ ptx \in IngestTx
  BY TablesAtType DEF TypeOK
<1>1. ASSUME NEW f \in Feeds, BeginIngest(f) PROVE RowsHaveTheirFeed' /\ TablesAreEffects'
  <2> DEFINE present == {c \in Children : db.child[f][c] # 0}
  <2>1. PICK changed \in {b \in BOOLEAN : b \/ db.feeds[f] # 0},
             replaced \in SUBSET Families, written \in SUBSET Tracks,
             emptied \in SUBSET (present \cap Families),
             stale \in SUBSET (present \cap Tracks) :
             ptx' = [open |-> TRUE, push |-> {},
                     rows |-> IngestRows(f, changed, replaced, emptied, written, stale)]
    BY <1>1 DEF BeginIngest
  <2> DEFINE rows == IngestRows(f, changed, replaced, emptied, written, stale)
  <2>2. ptx'.open /\ ptx'.rows = rows /\ UNCHANGED <<log, tables>>
    BY <1>1, <2>1 DEF BeginIngest
  <2>3. \A e \in rows : e.type # "FeedRetired" /\ e.feed = f
    BY DEF IngestRows, FeedEvent, ChildEvent
  <2>4. changed => FeedEvent("FeedUpserted", f) \in rows
    BY DEF IngestRows
  <2>5. db.feeds[f] # 0 \/ FeedEvent("FeedUpserted", f) \in rows
    BY <2>4
  <2> HIDE DEF rows
  <2>6. TablesAt(Len(log))' = db
    BY <2>2 DEF TablesAt
  <2> QED BY <2>2, <2>3, <2>5, <2>6 DEF RowsHaveTheirFeed, TablesAreEffects, TablesAt
<1>2. ASSUME NEW e \in ptx.rows, IngestRow(e) PROVE RowsHaveTheirFeed' /\ TablesAreEffects'
  <2> DEFINE x == Effect(db, e, Len(log) + 1)
  <2>1. /\ e \in Event /\ e.feed \in Feeds /\ e.type # "FeedRetired" /\ ptx.open
        /\ log' = Append(log, e) /\ tables' = Append(tables, x)
        /\ \A o \in ptx.rows : Rank(e) <= Rank(o)
    BY <1>0, <1>2 DEF IngestRow, IngestTx, RowsHaveTheirFeed, Event
  <2>2. ptx'.open = ptx.open /\ ptx'.rows = ptx.rows \ {e}
    BY <1>0, <1>2 DEF IngestRow, IngestTx
  <2>3. ~ForeignKeyFails(db, e)
    <3> SUFFICES ASSUME e.type \in {"TrackUpserted", "RowsReplaced"}
                 PROVE  db.feeds[e.feed] # 0
      BY DEF ForeignKeyFails
    <3>1. Rank(e) \in {1, 2}
      BY DEF Rank
    <3>2. Rank(FeedEvent("FeedUpserted", e.feed)) = 0
      BY DEF Rank, FeedEvent
    <3>3. FeedEvent("FeedUpserted", e.feed) \notin ptx.rows
      BY <2>1, <3>1, <3>2
    <3> QED BY <3>3 DEF RowsHaveTheirFeed
  <2>4. TablesAreEffects'
    BY <2>1, <2>3, AppendEffect
  <2>5. x \in Tables
    BY <1>0, <2>1, EffectType
  <2>6. TablesAt(Len(log))' = x
    <3>1. Len(log') = Len(log) + 1 /\ tables'[Len(log) + 1] = x
      BY <2>1, <2>5 DEF TypeOK
    <3> QED BY <1>0, <3>1 DEF TablesAt
  <2>7. \A f \in Feeds : x.feeds[f] = IF f = e.feed /\ e.type = "FeedUpserted"
                                      THEN Len(log) + 1 ELSE db.feeds[f]
    BY <1>0, <2>1 DEF Effect, Tables
  <2> HIDE DEF x
  <2>8. ASSUME NEW o \in ptx'.rows, o.type \in {"TrackUpserted", "RowsReplaced"}
        PROVE  \/ x.feeds[o.feed] # 0
               \/ FeedEvent("FeedUpserted", o.feed) \in ptx'.rows
    <3>1. o \in ptx.rows /\ o.feed \in Feeds
      BY <1>0, <2>2 DEF IngestTx, Event
    <3>2. \/ db.feeds[o.feed] # 0
          \/ FeedEvent("FeedUpserted", o.feed) \in ptx.rows
      BY <2>8, <3>1 DEF RowsHaveTheirFeed
    <3>3. CASE e = FeedEvent("FeedUpserted", o.feed)
      BY <1>0, <2>7, <3>1, <3>3 DEF FeedEvent
    <3>4. CASE e # FeedEvent("FeedUpserted", o.feed)
      BY <1>0, <2>2, <2>7, <3>1, <3>2, <3>4
    <3> QED BY <3>3, <3>4
  <2>9. RowsHaveTheirFeed'
    <3>1. \A o \in ptx'.rows : o.type # "FeedRetired"
      BY <2>2 DEF RowsHaveTheirFeed
    <3> QED BY <2>1, <2>2, <2>6, <2>8, <3>1 DEF RowsHaveTheirFeed
  <2> QED BY <2>4, <2>9
<1>3. ASSUME NEW e \in Event, CommitOne(e), e.type \in {"FeedRetired", "TrackRemoved"}
      PROVE  RowsHaveTheirFeed' /\ TablesAreEffects'
  <2>1. /\ log' = Append(log, e) /\ tables' = Append(tables, Effect(db, e, Len(log) + 1))
        /\ ptx' = ptx /\ ~ptx.open
    BY <1>3 DEF CommitOne
  <2>2. ~ForeignKeyFails(db, e)
    BY <1>3 DEF ForeignKeyFails
  <2> QED BY <2>1, <2>2, AppendEffect DEF RowsHaveTheirFeed
<1>4. CASE CommitIngest
  BY <1>4 DEF CommitIngest, NoIngest, RowsHaveTheirFeed, TablesAreEffects, TablesAt
<1>5. CASE RollbackIngest
  <2>1. /\ \A n \in 0..committed : TablesAt(n)' = TablesAt(n)
        /\ log' = SubSeq(log, 1, committed) /\ tables' = SubSeq(tables, 1, committed)
        /\ ptx' = NoIngest
    BY <1>5, RollbackTables DEF RollbackIngest
  <2>2. Len(log') = committed
    BY <1>0, <2>1 DEF TypeOK
  <2>3. ASSUME NEW n \in 1..Len(log')
        PROVE  tables'[n] = Effect(TablesAt(n - 1)', log'[n], n)
               /\ ~ForeignKeyFails(TablesAt(n - 1)', log'[n])
    <3>1. n \in 1..Len(log) /\ n - 1 \in 0..committed
      BY <1>0, <2>2
    <3>2. log'[n] = log[n] /\ tables'[n] = tables[n]
      BY <1>0, <2>1, <2>2 DEF TypeOK
    <3>3. TablesAt(n - 1)' = TablesAt(n - 1)
      BY <2>1, <3>1
    <3> QED BY <3>1, <3>2, <3>3 DEF TablesAreEffects
  <2>4. RowsHaveTheirFeed'
    BY <2>1 DEF NoIngest, RowsHaveTheirFeed
  <2> QED BY <2>3, <2>4 DEF TablesAreEffects
<1>6. CASE UNCHANGED <<log, tables, committed, ptx>>
  BY <1>6 DEF RowsHaveTheirFeed, TablesAreEffects, TablesAt
<1> QED BY <1>1, <1>2, <1>3, <1>4, <1>5, <1>6, PrimaryCases

\* What a step does to the node when there is no push and no failed transaction
LEMMA NodeCases ==
    ASSUME PollOnly, TypeOK, NodeIsPrefix, PageIsNext, [Next]_vars
    PROVE  /\ net' = {} /\ aborts' = 0
           /\ \/ \E n \in tx.todo : ApplyRow(n)
              \/ CommitApply
              \/ PollStart \/ PollFetch \/ PollError \/ PollApply \/ PollAdvance \/ Restart
              \/ UNCHANGED <<rlog, rdb, cursor, last_seq, poll, tx>>
<1>1. net = {} /\ aborts = 0 /\ ~Subscribed /\ tx.src # "push" /\ MaxAborts = 0
  BY DEF NodeIsPrefix, PageIsNext, PollOnly
<1>2. ~AbortApply
  BY <1>1 DEF AbortApply
<1>3. ASSUME \/ \E f \in Feeds : BeginIngest(f)
             \/ \E e \in ptx.rows : IngestRow(e)
             \/ \E f \in Feeds : RetireFeed(f)
             \/ \E f \in Feeds, t \in Tracks : RemoveTrack(f, t)
             \/ CommitIngest \/ RollbackIngest \/ PrimaryRestart
             \/ PushTimeout \/ UNCHANGED vars
      PROVE  net' = {} /\ aborts' = 0 /\ UNCHANGED <<rlog, rdb, cursor, last_seq, poll, tx>>
  BY <1>1, <1>3 DEF BeginIngest, IngestRow, RetireFeed, RemoveTrack, CommitOne, CommitIngest,
     RollbackIngest, PrimaryRestart, FanOut, PushTimeout, vars
<1>4. ASSUME \/ \E n \in tx.todo : ApplyRow(n)
             \/ PollStart \/ PollFetch \/ PollError \/ PollApply \/ PollAdvance
      PROVE  net' = {} /\ aborts' = 0
  BY <1>1, <1>4 DEF ApplyRow, PollStart, PollFetch, PollError, PollApply, PollAdvance
<1>5. ASSUME CommitApply PROVE net' = {} /\ aborts' = 0
  BY <1>1, <1>5 DEF CommitApply, Answer
<1>6. ASSUME Restart PROVE net' = {} /\ aborts' = 0
  <2>1. net' = net /\ aborts' = aborts
    BY <1>1, <1>6, Zenon DEF Restart
  <2> QED BY <1>1, <2>1
<1> QED BY NextCases, <1>1, <1>2, <1>3, <1>4, <1>5, <1>6

\* The node and the poll loop keep to a prefix of the committed log
LEMMA NodeStep ==
    ASSUME PollOnly, TypeOK, InRange, TablesAreEffects, NodeIsPrefix, PageIsNext, [Next]_vars
    PROVE  NodeIsPrefix' /\ PageIsNext'
<1>0. /\ Len(log) \in Nat /\ committed \in 0..Len(log) /\ cursor \in Nat /\ last_seq \in Nat
      /\ poll \in PollLoop /\ poll.upto \in Nat /\ poll.upto <= committed
      /\ tx \in ApplyTx /\ Len(tables) = Len(log)
  BY DEF TypeOK, InRange, PollLoop
<1>1. net' = {} /\ aborts' = 0
  BY NodeCases
<1>2. /\ rlog = 1..cursor /\ rdb = TablesAt(cursor) /\ last_seq <= cursor
      /\ tx.src \in {"none", "poll"} /\ (tx.src = "poll" <=> poll.pc = "applying")
  BY DEF NodeIsPrefix, PageIsNext
<1>3. cursor \in 0..committed
  <2>1. cursor # 0 => cursor \in rlog
    BY <1>0, <1>2
  <2> QED BY <1>0, <2>1 DEF InRange
<1>4. \A n \in 0..committed : TablesAt(n)' = TablesAt(n)
  BY CommittedTablesStay
<1>5. ASSUME UNCHANGED <<rlog, rdb, cursor>>, last_seq' <= cursor PROVE NodeIsPrefix'
  <2>1. rdb' = TablesAt(cursor)'
    BY <1>2, <1>3, <1>4, <1>5 DEF TablesAt
  <2> QED BY <1>1, <1>2, <1>5, <2>1 DEF NodeIsPrefix
<1>6. CASE UNCHANGED <<rlog, rdb, cursor, last_seq, poll, tx>>
  <2>1. NodeIsPrefix'
    BY <1>2, <1>5, <1>6
  <2>2. ASSUME NEW k \in last_seq..poll.upto, TxIsPrefix(k) PROVE TxIsPrefix(k)'
    <3>1. Raise(cursor, k) \in 0..committed
      BY <1>0, <1>3 DEF Raise
    <3>2. TablesAt(Raise(cursor, k))' = TablesAt(Raise(cursor, k))
      BY <1>4, <1>6, <3>1 DEF TablesAt, Raise
    <3> QED BY <1>6, <2>2, <3>2 DEF TxIsPrefix
  <2>3. PageIsNext'
    BY <1>6, <2>2 DEF PageIsNext
  <2> QED BY <2>1, <2>3
<1>7. ASSUME NEW n \in tx.todo, ApplyRow(n) PROVE NodeIsPrefix' /\ PageIsNext'
  <2>1. /\ poll.pc = "applying" /\ poll.upto > last_seq
        /\ UNCHANGED <<log, tables, committed, rlog, rdb, cursor, last_seq, poll>>
        /\ \A m \in tx.todo : n <= m
    BY <1>2, <1>7 DEF ApplyRow, PageIsNext
  <2>2. PICK k \in last_seq..poll.upto : TxIsPrefix(k)
    BY <2>1 DEF PageIsNext
  <2>3. n = k + 1 /\ n \in 1..committed /\ n <= poll.upto /\ k \in Nat
        /\ tx.todo \ {n} = (n + 1)..poll.upto /\ n \in last_seq..poll.upto
    <3>1. tx.todo = (k + 1)..poll.upto /\ k \in Nat
      BY <1>0, <2>2 DEF TxIsPrefix
    <3>2. n >= k + 1 /\ n <= poll.upto /\ n \in Nat /\ k + 1 \in tx.todo
      BY <1>0, <3>1
    <3>3. n = k + 1
      BY <2>1, <3>1, <3>2
    <3> QED BY <1>0, <3>1, <3>2, <3>3
  <2>4. n \in tx.rlog <=> n <= cursor
    BY <1>0, <2>2, <2>3 DEF TxIsPrefix, Raise
  <2>5. tx.max = (IF k = last_seq THEN 0 ELSE k) /\ tx.max < n
    BY <1>0, <2>2, <2>3 DEF TxIsPrefix
  <2>6. /\ tx'.todo = tx.todo \ {n} /\ tx'.src = tx.src /\ tx'.max = n
        /\ tx'.rlog = 1..Raise(cursor, n) /\ tx'.db = TablesAt(Raise(cursor, n))
    <3>1. CASE n <= cursor
      <4>1. tx' = [tx EXCEPT !.todo = tx.todo \ {n}, !.max = n, !.dup = TRUE]
        BY <1>0, <1>7, <2>3, <2>4, <2>5, <3>1 DEF ApplyRow
      <4>2. Raise(cursor, k) = cursor /\ Raise(cursor, n) = cursor
        BY <1>0, <2>3, <3>1 DEF Raise
      <4> QED BY <1>0, <2>2, <4>1, <4>2 DEF TxIsPrefix, ApplyTx
    <3>2. CASE ~(n <= cursor)
      <4>1. Raise(cursor, k) = k /\ Raise(cursor, n) = n /\ n \in 1..Len(log) /\ n - 1 = k
        BY <1>0, <2>3, <3>2 DEF Raise
      <4>2. tx.db = TablesAt(n - 1) /\ tx.rlog = 1..k
        BY <2>2, <4>1 DEF TxIsPrefix
      <4>3. ~ForeignKeyFails(tx.db, log[n]) /\ Effect(tx.db, log[n], n) = tables[n]
        BY <4>1, <4>2 DEF TablesAreEffects
      <4>4. tx' = [tx EXCEPT !.todo = tx.todo \ {n}, !.rlog = @ \cup {n},
                             !.db = Effect(@, log[n], n), !.max = n, !.applied = TRUE]
        BY <1>0, <1>7, <2>3, <2>4, <2>5, <3>2, <4>3 DEF ApplyRow
      <4>5. tables[n] = TablesAt(n) /\ 1..n = (1..k) \cup {n}
        BY <1>0, <2>3 DEF TablesAt
      <4>6. /\ tx'.todo = tx.todo \ {n} /\ tx'.src = tx.src /\ tx'.max = n
            /\ tx'.rlog = tx.rlog \cup {n} /\ tx'.db = Effect(tx.db, log[n], n)
        BY <1>0, <4>4 DEF ApplyTx
      <4> QED BY <4>1, <4>2, <4>3, <4>5, <4>6
    <3> QED BY <3>1, <3>2
  <2>7. TxIsPrefix(n)'
    <3>1. Raise(cursor, n)' = Raise(cursor, n) /\ TablesAt(Raise(cursor, n))' = TablesAt(Raise(cursor, n))
      BY <2>1 DEF Raise, TablesAt
    <3>2. n # last_seq /\ n # last_seq'
      BY <1>0, <2>1, <2>3
    <3> QED BY <2>1, <2>3, <2>6, <3>1, <3>2 DEF TxIsPrefix
  <2>8. PageIsNext'
    BY <1>2, <2>1, <2>3, <2>6, <2>7 DEF PageIsNext
  <2>9. NodeIsPrefix'
    BY <1>2, <1>5, <2>1
  <2> QED BY <2>8, <2>9
<1>8. CASE CommitApply
  <2>1. /\ poll.pc = "applying" /\ poll.upto > last_seq /\ tx.todo = {}
        /\ rlog' = tx.rlog /\ rdb' = tx.db /\ cursor' = Raise(cursor, tx.max)
        /\ tx' = NoTx /\ last_seq' = last_seq /\ UNCHANGED tables
    BY <1>2, <1>8 DEF CommitApply, PageIsNext
  <2>2. poll'.pc = "applied" /\ poll'.upto = poll.upto
    BY <1>0, <1>2, <1>8, <2>1 DEF CommitApply, Answer, PollLoop
  <2>3. PICK k \in last_seq..poll.upto : TxIsPrefix(k)
    BY <2>1 DEF PageIsNext
  <2>4. k = poll.upto
    <3> SUFFICES ASSUME k # poll.upto PROVE FALSE
      OBVIOUS
    <3>1. k + 1 \in (k + 1)..poll.upto
      BY <1>0
    <3> QED BY <2>1, <2>3, <3>1 DEF TxIsPrefix
  <2>5. tx.max = poll.upto /\ tx.rlog = 1..cursor' /\ tx.db = TablesAt(Raise(cursor, k))
        /\ cursor' = Raise(cursor, k)
    BY <1>0, <2>1, <2>3, <2>4 DEF TxIsPrefix
  <2>6. cursor' >= poll.upto /\ last_seq' <= cursor'
    BY <1>0, <1>2, <2>1, <2>4, <2>5 DEF Raise
  <2>7. rdb' = TablesAt(cursor)'
    BY <2>1, <2>5 DEF TablesAt
  <2>8. NodeIsPrefix'
    BY <1>1, <2>1, <2>5, <2>6, <2>7 DEF NodeIsPrefix
  <2>9. PageIsNext'
    BY <2>1, <2>2, <2>6 DEF PageIsNext, NoTx
  <2> QED BY <2>8, <2>9
<1>9. CASE PollStart \/ PollError
  <2>1. /\ poll'.pc \in {"sleep", "drain"} /\ poll.pc # "applying"
        /\ UNCHANGED <<rlog, rdb, cursor, last_seq, tx>>
    BY <1>9 DEF PollStart, PollError, Sleeping
  <2> QED BY <1>2, <1>5, <2>1 DEF PageIsNext
<1>10. CASE PollFetch
  <2>1. poll.pc = "drain" /\ UNCHANGED <<rlog, rdb, cursor, last_seq, tx>>
    BY <1>10 DEF PollFetch
  <2>2. \/ poll'.pc = "fetched" /\ poll'.upto > last_seq
        \/ poll'.pc = "sleep"
    BY <1>0, <1>10 DEF PollFetch, Sleeping, PollLoop
  <2> QED BY <1>2, <1>5, <2>1, <2>2 DEF PageIsNext
<1>11. CASE PollApply
  <2>1. /\ poll.pc = "fetched" /\ poll.upto > last_seq
        /\ UNCHANGED <<rlog, rdb, cursor, last_seq, tables>>
    BY <1>11 DEF PollApply, PageIsNext
  <2>2. poll'.pc = "applying" /\ poll'.upto = poll.upto
    BY <1>0, <1>11 DEF PollApply, PollLoop
  <2>3. /\ tx'.src = "poll" /\ tx'.todo = (last_seq + 1)..poll.upto
        /\ tx'.rlog = rlog /\ tx'.db = rdb /\ tx'.max = 0
    BY <1>11 DEF PollApply, OpenTx
  <2>4. Raise(cursor, last_seq) = cursor
    BY <1>0, <1>2 DEF Raise
  <2>5. ASSUME NEW k \in Nat, k = last_seq PROVE TxIsPrefix(k)'
    <3>1. Raise(cursor, k)' = cursor /\ TablesAt(Raise(cursor, k))' = TablesAt(cursor)
      BY <2>1, <2>4, <2>5 DEF Raise, TablesAt
    <3> QED BY <1>2, <2>1, <2>2, <2>3, <2>5, <3>1 DEF TxIsPrefix
  <2>6. \E k \in last_seq'..poll'.upto : TxIsPrefix(k)'
    BY <1>0, <2>1, <2>2, <2>5
  <2>7. PageIsNext'
    BY <2>1, <2>2, <2>3, <2>6 DEF PageIsNext
  <2> QED BY <1>2, <1>5, <2>1, <2>7
<1>12. CASE PollAdvance
  <2>1. /\ poll.pc = "applied" /\ poll.upto <= cursor
        /\ UNCHANGED <<rlog, rdb, cursor, tx>>
        /\ poll'.pc \in {"sleep", "drain"}
    BY <1>12 DEF PollAdvance, PageIsNext, Sleeping
  <2>2. last_seq' <= cursor
    BY <1>0, <1>2, <1>12, <2>1 DEF PollAdvance, Raise
  <2> QED BY <1>2, <1>5, <2>1, <2>2 DEF PageIsNext
<1>13. CASE Restart
  <2>1. /\ poll' = Sleeping /\ tx' = NoTx /\ UNCHANGED <<rlog, rdb, cursor>>
        /\ last_seq' \in {cursor, 0}
    BY <1>13, Zenon DEF Restart
  <2>2. poll'.pc = "sleep" /\ tx'.src = "none" /\ last_seq' <= cursor
    BY <1>0, <2>1 DEF Sleeping, NoTx
  <2> QED BY <1>5, <2>1, <2>2 DEF PageIsNext
<1> QED BY <1>6, <1>7, <1>8, <1>9, <1>10, <1>11, <1>12, <1>13, NodeCases

\* The first state of the primary and of a node without pushes
LEMMA InitPoll == Init => PollIInv
<1> SUFFICES ASSUME Init PROVE PollIInv
  OBVIOUS
<1>1. RowsHaveTheirFeed /\ TablesAreEffects
  BY DEF Init, NoIngest, RowsHaveTheirFeed, TablesAreEffects
<1>2. NodeIsPrefix
  BY DEF Init, NodeIsPrefix, TablesAt
<1>3. PageIsNext
  BY DEF Init, PageIsNext, NoTx, Sleeping
<1> QED BY <1>1, <1>2, <1>3 DEF PollIInv

\* Without pushes and failed transactions the node always holds a prefix
THEOREM PollInvariant == PollOnly => (Spec => [](TypeOK /\ InRange /\ PollIInv))
<1> SUFFICES ASSUME PollOnly PROVE Spec => [](TypeOK /\ InRange /\ PollIInv)
  OBVIOUS
<1>1. TypeOK /\ InRange /\ PollIInv /\ [Next]_vars => (TypeOK /\ InRange /\ PollIInv)'
  BY TypeStep, RangeStep, PrimaryStep, NodeStep DEF PollIInv
<1>2. Init => TypeOK /\ InRange /\ PollIInv
  BY InitInv, InitPoll
<1> QED BY <1>1, <1>2, PTL DEF Spec

\* The events below the cursor of the next page are recorded (community.rs
\* run_community_sync, when a page is all duplicates or its cursor is read again)
THEOREM PollSkipsNothing == PollOnly => (Spec => []PollSkipsOnlyRecorded)
<1> SUFFICES ASSUME PollOnly PROVE Spec => []PollSkipsOnlyRecorded
  OBVIOUS
<1>1. TypeOK /\ InRange /\ PollIInv => PollSkipsOnlyRecorded
  BY DEF TypeOK, PollIInv, NodeIsPrefix, PollSkipsOnlyRecorded
<1> QED BY <1>1, PollInvariant, PTL

\* The primary's history that a reader sees
Hist == SubSeq(tables, 1, committed)

\* The beginning of a sequence
LEMMA BeginningParts ==
    ASSUME NEW S, NEW s \in Seq(S), NEW c \in 0..Len(s)
    PROVE  Len(SubSeq(s, 1, c)) = c /\ \A n \in 1..c : SubSeq(s, 1, c)[n] = s[n]
OBVIOUS

\* The history has the tables after each committed row
LEMMA HistParts ==
    ASSUME TypeOK
    PROVE  Len(Hist) = committed /\ \A n \in 1..committed : Hist[n] = tables[n]
<1>1. tables \in Seq(Tables) /\ committed \in 0..Len(tables)
  BY DEF TypeOK
<1> QED BY <1>1, BeginningParts DEF Hist

\* A commit of the primary extends the history, a commit of the node moves it to a
\* longer prefix, and every other step changes neither
LEMMA PrefixStep ==
    ASSUME TypeOK, InRange, PollIInv, PollOnly, TypeOK', NodeIsPrefix', InRange', [Next]_vars
    PROVE  [Prefix!Next]_(Prefix!vars)
<1>0. /\ Len(log) \in Nat /\ committed \in 0..Len(log) /\ Len(tables) = Len(log)
      /\ cursor \in Nat /\ tables \in Seq(Tables)
  BY DEF TypeOK
<1>1. /\ Len(Hist) = committed /\ \A n \in 1..committed : Hist[n] = tables[n]
      /\ Len(Hist') = committed' /\ \A n \in 1..committed' : Hist'[n] = tables'[n]
  <2>1. Len(Hist) = committed /\ \A n \in 1..committed : Hist[n] = tables[n]
    BY HistParts
  <2>2. tables' \in Seq(Tables) /\ committed' \in 0..Len(tables')
    BY DEF TypeOK
  <2>3. Len(Hist') = committed' /\ \A n \in 1..committed' : Hist'[n] = tables'[n]
    BY <2>2, BeginningParts DEF Hist
  <2> QED BY <2>1, <2>3
<1>2. /\ \A n \in 0..committed : TablesAt(n)' = TablesAt(n)
      /\ committed <= committed' /\ committed' \in 0..Len(log')
  BY CommittedTablesStay
<1>3. \A n \in 1..committed : tables'[n] = tables[n]
  BY <1>0, <1>2 DEF TablesAt
<1>4. /\ rdb = TablesAt(cursor) /\ rlog = 1..cursor
      /\ rdb' = TablesAt(cursor)' /\ rlog' = 1..cursor'
  BY DEF PollIInv, NodeIsPrefix
<1>5. cursor \in 0..committed /\ cursor' \in 0..committed'
  <2>1. cursor # 0 => cursor \in rlog
    BY <1>0, <1>4
  <2>2. cursor' \in Nat
    BY DEF TypeOK
  <2>3. cursor' # 0 => cursor' \in rlog'
    BY <1>4, <2>2
  <2>4. rlog \subseteq 1..committed /\ rlog' \subseteq 1..committed'
    BY DEF InRange
  <2> QED BY <1>0, <1>2, <2>1, <2>2, <2>3, <2>4
<1>6. CASE CommitApply
  <2>1. UNCHANGED <<tables, committed, log>>
    BY <1>6 DEF CommitApply
  <2>2. Hist' = Hist
    BY <2>1 DEF Hist
  <2>3. cursor' >= cursor
    BY <1>0, <1>6 DEF CommitApply, Raise, TypeOK, ApplyTx
  <2>4. CASE cursor' = cursor
    <3>1. rdb' = rdb
      BY <1>4, <2>1, <2>4 DEF TablesAt
    <3> QED BY <2>2, <2>4, <3>1 DEF Prefix!vars, Hist
  <2>5. CASE cursor' # cursor
    <3>1. cursor' \in (cursor + 1)..Len(Hist)
      BY <1>0, <1>1, <1>5, <2>1, <2>3, <2>5
    <3>2. rdb' = Hist[cursor']
      BY <1>0, <1>1, <1>4, <2>1, <3>1 DEF TablesAt
    <3>3. Prefix!CatchUp
      BY <2>2, <3>1, <3>2 DEF Prefix!CatchUp, Hist
    <3> QED BY <3>3 DEF Prefix!Next
  <2> QED BY <2>4, <2>5
<1>7. CASE ~CommitApply
  <2>1. UNCHANGED <<rdb, cursor>>
    <3>1. ASSUME NEW n \in tx.todo, ApplyRow(n) PROVE UNCHANGED <<rdb, cursor>>
      BY <3>1 DEF ApplyRow
    <3> QED BY <1>7, <3>1, StoreCases
  <2>2. CASE committed' = committed
    <3>1. Hist' = Hist
      <4>1. tables' \in Seq(Tables) /\ committed' \in 0..Len(tables')
        BY DEF TypeOK
      <4> QED BY <1>0, <1>3, <2>2, <4>1 DEF Hist
    <3> QED BY <2>1, <3>1 DEF Prefix!vars, Hist
  <2>3. CASE committed' # committed
    <3>1. Len(Hist') > Len(Hist)
      BY <1>0, <1>1, <1>2, <2>3
    <3>2. \A n \in 1..Len(Hist) : Hist'[n] = Hist[n]
      BY <1>0, <1>1, <1>2, <1>3
    <3>3. Prefix!Publish
      BY <2>1, <3>1, <3>2 DEF Prefix!Publish, Hist
    <3> QED BY <3>3 DEF Prefix!Next
  <2> QED BY <2>2, <2>3
<1> QED BY <1>6, <1>7

\* Without pushes and failed transactions a node implements PrefixReplica: it
\* serves the tables after a growing prefix of the committed log (apply.rs
\* apply_events, community.rs poll loop), however pages and restarts fall
THEOREM PollRefinesPrefixReplica == PollOnly => (Spec => RefinesPrefixReplica)
<1> SUFFICES ASSUME PollOnly PROVE Spec => RefinesPrefixReplica
  OBVIOUS
<1>1. Init => Prefix!Init
  BY DEF Init, Prefix!Init
<1>2. /\ TypeOK /\ InRange /\ PollIInv
      /\ (TypeOK /\ InRange /\ PollIInv)'
      /\ [Next]_vars
      => [Prefix!Next]_(Prefix!vars)
  BY PrefixStep DEF PollIInv
<1> QED BY <1>1, <1>2, PollInvariant, PTL DEF Spec, RefinesPrefixReplica, Prefix!Spec
=============================================================================
