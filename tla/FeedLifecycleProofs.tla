------------------------ MODULE FeedLifecycleProofs ------------------------
(***************************************************************************)
(* Machine-checked proofs about FeedLifecycle, for every set of URLs and   *)
(* bodies, every seed list, every wait and any number of submissions.      *)
(***************************************************************************)
EXTENDS FeedLifecycle, TLAPS

-----------------------------------------------------------------------------
(* The inductive invariant *)

\* A GUID that is kept for a URL has the active hold that keeps it
OwnerHasHold ==
    owner # None => hold.url = owner /\ ~hold.released

\* A gone row comes from a counted answer
GoneWasCounted == gone # Never => answers >= 1

LifecycleIInv == TypeOK /\ RowsMatchTheRecord /\ OwnerHasHold /\ GoneWasCounted

-----------------------------------------------------------------------------
(* The parts several actions share *)

\* The bounds of the time since the first gone answer
LEMMA NeverType == /\ RetireAfter \in Nat \ {0} /\ Never \in Nat
                   /\ Never = RetireAfter + 1 /\ None \notin Urls /\ Guid \notin Urls
BY LifecycleAssumption DEF Never

\* A submission has two URLs and a body
LEMMA SubmissionParts ==
    ASSUME TypeOK, NEW s \in subs
    PROVE  /\ s \in Submission /\ s.source \in Urls /\ s.canonical \in Urls /\ s.body \in Body
           /\ Own(s) \subseteq Urls
           /\ [s EXCEPT !.verified = TRUE] \in Submission
<1>1. s \in Submission
  BY DEF TypeOK
<1> QED BY <1>1 DEF Submission, Own

\* A record that is retired without a block leaves its GUID held for its URL
LEMMA RetireStep ==
    ASSUME LifecycleIInv, rec # None, RetireUnblocked,
           blocks' = blocks, cache' = cache, subs' \subseteq subs, others' = others
    PROVE  LifecycleIInv'
<1> USE DEF LifecycleIInv
<1>1. TypeOK'
  BY NeverType DEF RetireUnblocked, TypeOK
<1> QED BY <1>1 DEF RetireUnblocked, RowsMatchTheRecord, OwnerHasHold, GoneWasCounted

\* A body that is applied leaves a record without a hold and without gone answers
LEMMA ApplyStep ==
    ASSUME LifecycleIInv, NEW s \in subs, NEW u \in Urls, Apply(s, u), subs' \subseteq subs,
           others' \subseteq others, u \notin others'
    PROVE  LifecycleIInv'
<1> USE DEF LifecycleIInv
<1>1. cache' \in [Urls -> Body \cup {None}]
  BY SubmissionParts DEF Apply, TypeOK
<1>2. TypeOK'
  BY <1>1, NeverType DEF Apply, TypeOK, NoHold
<1> QED BY <1>2 DEF Apply, NoHold, RowsMatchTheRecord, OwnerHasHold, GoneWasCounted

-----------------------------------------------------------------------------
(* Every action keeps the invariant *)

\* A step of a submission
LEMMA IngestStep ==
    ASSUME LifecycleIInv, NEW s \in subs, Ingest(s)
    PROVE  LifecycleIInv'
<1> USE DEF LifecycleIInv
<1>1. CASE Drop(s) \/ NoChange(s)
  BY <1>1 DEF Drop, NoChange, TypeOK, RowsMatchTheRecord, OwnerHasHold, GoneWasCounted
<1>2. CASE Verify(s)
  <2>1. subs' \in SUBSET Submission
    BY <1>2, SubmissionParts DEF Verify, TypeOK
  <2> QED BY <1>2, <2>1 DEF Verify, TypeOK, RowsMatchTheRecord, OwnerHasHold, GoneWasCounted
<1>3. CASE Admit(s)
  <2>1. s.canonical \in Urls
    BY SubmissionParts
  <2>2. s.canonical \notin others' /\ others' = others /\ subs' \subseteq subs
    BY <1>3 DEF Admit, Conflicts, Own
  <2> QED BY <1>3, <2>1, <2>2, ApplyStep DEF Admit
<1>4. CASE Update(s)
  <2>1. rec \in Urls /\ rec # None /\ s.canonical \in Urls
    BY <1>4, SubmissionParts, NeverType DEF Update
  <2>2. subs' \subseteq subs /\ others' = others
    BY <1>4 DEF Update
  <2>3. CASE s.body.block
    BY <1>4, <2>1, <2>2, <2>3, RetireStep DEF Update
  <2>4. CASE ~s.body.block
    <3>1. PICK url \in {rec} \cup (IF s.source = rec THEN {s.canonical} ELSE {}) : Apply(s, url)
      BY <1>4, <2>4 DEF Update
    <3>2. url \in Urls /\ url \notin others
      BY <1>4, <2>1 DEF Update, Conflicts, Own
    <3> QED BY <2>2, <3>1, <3>2, ApplyStep
  <2> QED BY <2>3, <2>4
<1>5. CASE Move(s)
  <2>1. PICK url \in Own(s) : Apply(s, url)
    BY <1>5 DEF Move
  <2>2. url \in Urls /\ url \notin others /\ subs' \subseteq subs /\ others' = others
    BY <1>5, <2>1, SubmissionParts DEF Move, Conflicts
  <2> QED BY <2>1, <2>2, ApplyStep
<1>6. CASE Replace(s)
  <2>1. s.canonical \in Urls
    BY SubmissionParts
  <2>2. others' \subseteq others /\ subs' \subseteq subs
    BY <1>6 DEF Replace
  <2>3. CASE s.canonical \notin others' /\ Apply(s, s.canonical)
    BY <2>1, <2>2, <2>3, ApplyStep
  <2>4. CASE UNCHANGED <<rec, cache, hold, blocks, gone, retired, answers, owner>>
    BY <2>2, <2>4 DEF TypeOK, RowsMatchTheRecord, OwnerHasHold, GoneWasCounted
  <2> QED BY <1>6, <2>3, <2>4 DEF Replace
<1> QED BY <1>1, <1>2, <1>3, <1>4, <1>5, <1>6 DEF Ingest

\* A gone answer of the record's URL, counted or the one that retires
LEMMA GoneReportStep ==
    ASSUME LifecycleIInv, NEW u \in Urls, GoneReport(u)
    PROVE  LifecycleIInv'
<1> USE DEF LifecycleIInv
<1>1. rec # None
  BY NeverType DEF GoneReport
<1>2. CASE gone = RetireAfter
  BY <1>1, <1>2, RetireStep DEF GoneReport
<1>3. CASE gone # RetireAfter
  <2>1. gone' \in 0..Never /\ answers' \in 0..2 /\ answers' >= 1
    BY <1>3, NeverType DEF GoneReport, FirstAnswer, TypeOK
  <2> QED BY <1>1, <1>3, <2>1 DEF GoneReport, TypeOK, RowsMatchTheRecord, OwnerHasHold,
             GoneWasCounted
<1> QED BY <1>2, <1>3

\* What the operator does
LEMMA OperatorStep ==
    ASSUME LifecycleIInv, Operator
    PROVE  LifecycleIInv'
<1> USE DEF LifecycleIInv
<1>1. CASE RetireBlocked
  <2>1. TypeOK'
    BY <1>1, NeverType DEF RetireBlocked, TypeOK
  <2> QED BY <1>1, <2>1 DEF RetireBlocked, RowsMatchTheRecord, OwnerHasHold, GoneWasCounted
<1>2. CASE RetireOnly
  BY <1>2, RetireStep DEF RetireOnly
<1>3. CASE ReleaseHold
  BY <1>3 DEF ReleaseHold, TypeOK, RowsMatchTheRecord, OwnerHasHold, GoneWasCounted
<1>4. ASSUME NEW x \in Urls \cup {Guid}, CreateBlock(x) \/ DeleteBlock(x)
      PROVE  LifecycleIInv'
  BY <1>4 DEF CreateBlock, DeleteBlock, TypeOK, RowsMatchTheRecord, OwnerHasHold, GoneWasCounted
<1>5. ASSUME NEW u \in Urls, Relocate(u) PROVE LifecycleIInv'
  BY <1>5, NeverType DEF Relocate, TypeOK, RowsMatchTheRecord, OwnerHasHold, GoneWasCounted
<1> QED BY <1>1, <1>2, <1>3, <1>4, <1>5 DEF Operator

\* A restart fills in a hold only where none is, released or not
LEMMA RestartStep ==
    ASSUME LifecycleIInv, Restart
    PROVE  LifecycleIInv' /\ (hold.url # None => hold' = hold)
<1> USE DEF LifecycleIInv
<1>1. blocks' \in SUBSET (Urls \cup {Guid})
  BY LifecycleAssumption DEF Restart, TypeOK
<1>2. /\ hold' \in [url : Urls \cup {None}, released : BOOLEAN]
      /\ hold'.released => hold'.url # None
      /\ hold.url # None => hold' = hold
      /\ hold'.url # None => rec = None
  BY DEF Restart, FillHold, TypeOK, RowsMatchTheRecord
<1>3. TypeOK'
  BY <1>1, <1>2 DEF Restart, TypeOK
<1> QED BY <1>2, <1>3 DEF Restart, RowsMatchTheRecord, OwnerHasHold, GoneWasCounted

\* A case for each action of Next
LEMMA LifecycleStep == LifecycleIInv /\ [Next]_vars => LifecycleIInv'
<1> SUFFICES ASSUME LifecycleIInv, [Next]_vars PROVE LifecycleIInv'
  OBVIOUS
<1>1. ASSUME NEW s \in Submission, Submit(s) PROVE LifecycleIInv'
  BY <1>1 DEF Submit, LifecycleIInv, TypeOK, RowsMatchTheRecord, OwnerHasHold, GoneWasCounted
<1>2. CASE Tick
  <2>1. gone' \in 0..Never /\ gone # Never
    BY <1>2, NeverType DEF Tick, LifecycleIInv, TypeOK
  <2> QED BY <1>2, <2>1 DEF Tick, LifecycleIInv, TypeOK, RowsMatchTheRecord, OwnerHasHold,
             GoneWasCounted
<1>3. CASE UNCHANGED vars
  BY <1>3 DEF vars, LifecycleIInv, TypeOK, RowsMatchTheRecord, OwnerHasHold, GoneWasCounted
<1>4. ASSUME NEW u \in Urls, OtherRecord(u) PROVE LifecycleIInv'
  BY <1>4 DEF OtherRecord, LifecycleIInv, TypeOK, RowsMatchTheRecord, OwnerHasHold,
     GoneWasCounted
<1>5. CASE Superseded
  <2>1. hold.url = None
    BY <1>5 DEF Superseded, LifecycleIInv, RowsMatchTheRecord
  <2>2. others' \subseteq Urls \ {None}
    BY <1>5, NeverType DEF Superseded, LifecycleIInv, TypeOK
  <2>3. TypeOK'
    BY <1>5, <2>2, NeverType DEF Superseded, LifecycleIInv, TypeOK
  <2> QED BY <1>5, <2>1, <2>3 DEF Superseded, LifecycleIInv, RowsMatchTheRecord, OwnerHasHold,
             GoneWasCounted
<1> QED BY <1>1, <1>2, <1>3, <1>4, <1>5, IngestStep, GoneReportStep, OperatorStep, RestartStep DEF Next

\* The first state satisfies the inductive invariant
LEMMA LifecycleInit == Init => LifecycleIInv
BY LifecycleAssumption, NeverType
   DEF Init, LifecycleIInv, TypeOK, NoHold, RowsMatchTheRecord, OwnerHasHold, GoneWasCounted

-----------------------------------------------------------------------------
(* The theorems *)

\* The tables of a GUID are well formed; a record never has a hold, and gone
\* answers never outlive their record (ingest_transaction, delete_feed_sql).
THEOREM RowsMatch == Spec => []LifecycleInv
<1>1. LifecycleIInv => LifecycleInv
  BY DEF LifecycleIInv, LifecycleInv
<1> QED BY <1>1, LifecycleInit, LifecycleStep, PTL DEF Spec

\* A GUID retired without a block is admitted again through the URL it had, until
\* the operator releases it; a submission that passed its checks before the
\* retirement is no exception (retired_source_conflict, delete_feed_with_event).
\* The GuidChange arm alone admits it elsewhere, by replacing another GUID.
THEOREM HeldGuidIsKept == Spec => HeldGuidReturnsThroughItsUrl
<1>1. LifecycleIInv /\ [Next]_vars =>
        [owner # None /\ rec = None /\ rec' # None =>
           \E s \in subs \ subs' :
              owner \in Own(s) \/ \E u \in Own(s) : u \in others \ others']_vars
  <2> SUFFICES ASSUME LifecycleIInv, Next, owner # None, rec = None, rec' # None
               PROVE  \E s \in subs \ subs' :
                         owner \in Own(s) \/ \E u \in Own(s) : u \in others \ others'
    OBVIOUS
  <2>1. hold.url = owner /\ ~hold.released
    BY DEF LifecycleIInv, OwnerHasHold
  <2>2. ASSUME NEW s \in subs, Ingest(s)
        PROVE  s \notin subs' /\ (owner \in Own(s) \/ \E u \in Own(s) : u \in others \ others')
    <3>1. CASE Admit(s)
      BY <2>1, <3>1 DEF Admit, HeldElsewhere
    <3>2. CASE Replace(s)
      BY <3>2 DEF Replace
    <3>3. CASE Update(s) \/ Move(s)
      <4>1. None \notin Own(s)
        BY SubmissionParts, NeverType DEF LifecycleIInv
      <4> QED BY <3>3, <4>1 DEF Update, Move
    <3>4. CASE Drop(s) \/ Verify(s) \/ NoChange(s)
      BY <3>4 DEF Drop, Verify, NoChange
    <3> QED BY <2>2, <3>1, <3>2, <3>3, <3>4 DEF Ingest
  <2>3. ASSUME NEW u \in Urls, GoneReport(u) \/ OtherRecord(u) PROVE FALSE
    BY <2>3, NeverType DEF GoneReport, OtherRecord
  <2>4. CASE Operator
    BY <2>4 DEF Operator, RetireBlocked, RetireOnly, ReleaseHold, CreateBlock, DeleteBlock,
       Relocate
  <2>5. CASE Superseded \/ Tick \/ Restart \/ \E s \in Submission : Submit(s)
    BY <2>5 DEF Superseded, Tick, Restart, Submit
  <2> QED BY <2>2, <2>3, <2>4, <2>5 DEF Next
<1> QED BY <1>1, LifecycleInit, LifecycleStep, PTL DEF Spec, HeldGuidReturnsThroughItsUrl

\* A released hold stays as it is until the GUID has a record again, restarts
\* included (fill_retired_source_holds).
THEOREM ReleasesLast == Spec => ReleaseLasts
<1>1. LifecycleIInv /\ [Next]_vars => [(hold.released /\ rec' = None) => hold' = hold]_vars
  <2> SUFFICES ASSUME LifecycleIInv, Next, hold.released, rec' = None
               PROVE  hold' = hold
    OBVIOUS
  <2>0. rec = None /\ hold.url # None /\ owner = None
    BY DEF LifecycleIInv, TypeOK, RowsMatchTheRecord, OwnerHasHold
  <2>1. ASSUME NEW s \in subs, Ingest(s) PROVE hold' = hold
    <3>1. s.canonical \in Urls /\ Own(s) \subseteq Urls
      BY SubmissionParts DEF LifecycleIInv
    <3> QED BY <2>0, <2>1, <3>1, NeverType
            DEF Ingest, Drop, Verify, NoChange, Admit, Replace, Update, Move, Apply
  <2>2. ASSUME NEW u \in Urls, GoneReport(u) PROVE hold' = hold
    BY <2>0, <2>2, NeverType DEF GoneReport
  <2>3. CASE Operator
    BY <2>0, <2>3 DEF Operator, RetireBlocked, RetireOnly, ReleaseHold, CreateBlock,
       DeleteBlock, Relocate
  <2>4. CASE Restart
    BY <2>0, <2>4, RestartStep
  <2>5. CASE Superseded \/ Tick \/ \E s \in Submission : Submit(s)
    BY <2>0, <2>5 DEF Superseded, Tick, Submit
  <2>6. ASSUME NEW u \in Urls, OtherRecord(u) PROVE hold' = hold
    BY <2>6 DEF OtherRecord
  <2> QED BY <2>1, <2>2, <2>3, <2>4, <2>5, <2>6 DEF Next
<1> QED BY <1>1, LifecycleInit, LifecycleStep, PTL DEF Spec, ReleaseLasts

\* No gone answer retires a record unless an earlier one was counted after the
\* last body that was applied (handle_source_gone_report).
THEOREM OneAnswerIsNotEnough == Spec => OneAnswerNeverRetires
<1>1. LifecycleIInv /\ [Next]_vars =>
        [\A u \in Urls : (GoneReport(u) /\ rec' = None) => answers >= 1]_vars
  <2> SUFFICES ASSUME LifecycleIInv, NEW u \in Urls, GoneReport(u), rec' = None
               PROVE  answers >= 1
    OBVIOUS
  <2>1. gone = RetireAfter
    BY NeverType DEF GoneReport
  <2> QED BY <2>1, NeverType DEF LifecycleIInv, GoneWasCounted
<1> QED BY <1>1, LifecycleInit, LifecycleStep, PTL DEF Spec, OneAnswerNeverRetires
=============================================================================
