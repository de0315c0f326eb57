-------------------------- MODULE GuidChangeProofs --------------------------
(***************************************************************************)
(* Machine-checked proofs about GuidChange, for every set of GUIDs and     *)
(* URLs and any number of changes, decisions and crashes.                  *)
(***************************************************************************)
EXTENDS GuidChange, TLAPS

-----------------------------------------------------------------------------
(* The inductive invariant *)

\* The ingest under the writer lock names GUIDs and URLs of the model
IngestTyped ==
    \/ ingest = Idle
    \/ /\ ingest \in [phase : Phases, guid : Guids, held : Guids \cup {None},
                      source : Urls, url : Urls, fits : BOOLEAN]
       /\ ingest.phase # "returned" => ingest.held \in Guids

\* A pending row has the operator's last decision on its URL and its new GUID
RowsHaveTheVerdict ==
    \A u \in Urls : change[u].says # None => verdict[u][change[u].new] = change[u].says

\* A change that waits for its transition was approved, or needs no approval
CheckedIsApproved ==
    ingest.phase = "checked" =>
        \/ GuidOrigin(ingest.guid, ingest.source)
        \/ verdict[ingest.source][ingest.guid] = "approve"

\* A source that returned to its GUID still has its record when the ingest goes on
ReturnedHasRecord ==
    ingest.phase = "returned" => feeds[ingest.guid] \in {ingest.source, ingest.url}

GuidIInv ==
    /\ TypeOK /\ NodeAnswersAlike /\ IngestTyped
    /\ RowsHaveTheVerdict /\ CheckedIsApproved /\ ReturnedHasRecord

-----------------------------------------------------------------------------
(* The operators *)

\* The tables of the primary have their types
LEMMA PrimaryTypes ==
    ASSUME TypeOK
    PROVE  /\ feeds \in [Guids -> Urls \cup {None}] /\ change \in [Urls -> Row]
           /\ links \in [Guids -> Guids \cup {None}] /\ node \in Tables
           /\ node.feeds \in [Guids -> Urls \cup {None}] /\ node.change \in [Urls -> Row]
           /\ node.links \in [Guids -> Guids \cup {None}]
<1>1. [feeds |-> feeds, change |-> change, links |-> links] \in Tables /\ node \in Tables
  BY DEF TypeOK
<1> QED BY <1>1 DEF Tables

\* Rows stay rows under the three writes of feed_guid_changes
LEMMA RowWrites ==
    ASSUME NEW ch \in [Urls -> Row], NEW u \in Urls
    PROVE  /\ DeleteGuidChange(ch, u) \in [Urls -> Row]
           /\ \A o, n \in Guids : UpsertGuidChange(ch, u, o, n) \in [Urls -> Row]
           /\ \A d \in Decisions : SetDecision(ch, u, d) \in [Urls -> Row]
<1>1. NoRow \in Row
  BY DEF Row
<1>2. ch[u] \in Row /\ ch[u].says \in Decisions \cup {None}
  BY DEF Row, NoRow
<1>3. DeleteGuidChange(ch, u) \in [Urls -> Row]
  BY <1>1 DEF DeleteGuidChange
<1>4. ASSUME NEW o \in Guids, NEW n \in Guids
      PROVE  UpsertGuidChange(ch, u, o, n) \in [Urls -> Row]
  <2> DEFINE r == [old |-> o, new |-> n, says |-> IF ch[u].new = n THEN ch[u].says ELSE None]
  <2>1. r \in Row
    BY <1>2 DEF Row
  <2>2. UpsertGuidChange(ch, u, o, n) = [ch EXCEPT ![u] = r]
    BY DEF UpsertGuidChange
  <2> HIDE DEF r
  <2> QED BY <2>1, <2>2
<1>5. ASSUME NEW d \in Decisions PROVE SetDecision(ch, u, d) \in [Urls -> Row]
  <2>1. CASE ch[u] = NoRow
    BY <2>1 DEF SetDecision
  <2>2. CASE ch[u] # NoRow
    <3>1. ch[u] \in [old : Guids, new : Guids, says : Decisions \cup {None}]
      BY <1>2, <2>2 DEF Row
    <3>2. [ch[u] EXCEPT !.says = d] \in Row
      BY <3>1 DEF Row
    <3> QED BY <2>2, <3>2 DEF SetDecision
  <2> QED BY <2>1, <2>2
<1> QED BY <1>3, <1>4, <1>5

\* A link is written once and is one of GUIDs
LEMMA LinkWrites ==
    ASSUME NEW l \in [Guids -> Guids \cup {None}], NEW o \in Guids, NEW n \in Guids
    PROVE  InsertSupersession(l, o, n) \in [Guids -> Guids \cup {None}]
BY DEF InsertSupersession

\* What each event does to the tables of a node
LEMMA UpsertedEffect ==
    ASSUME NEW t \in Tables, NEW g \in Guids, NEW u \in Urls \cup {None}
    PROVE  /\ ApplyEvent(t, Upserted(g, u)) \in Tables
           /\ ApplyEvent(t, Upserted(g, u)).feeds = [t.feeds EXCEPT ![g] = u]
           /\ ApplyEvent(t, Upserted(g, u)).change = t.change
           /\ ApplyEvent(t, Upserted(g, u)).links = t.links
<1>1. ApplyEvent(t, Upserted(g, u)) = [t EXCEPT !.feeds[g] = u]
  BY DEF ApplyEvent, Upserted
<1> QED BY <1>1 DEF Tables

\* A retirement takes the record and nothing else
LEMMA RetiredEffect ==
    ASSUME NEW t \in Tables, NEW g \in Guids
    PROVE  /\ ApplyEvent(t, Retired(g)) \in Tables
           /\ ApplyEvent(t, Retired(g)).feeds = [t.feeds EXCEPT ![g] = None]
           /\ ApplyEvent(t, Retired(g)).change = t.change
           /\ ApplyEvent(t, Retired(g)).links = t.links
<1>1. ApplyEvent(t, Retired(g)) = [t EXCEPT !.feeds[g] = None]
  BY DEF ApplyEvent, Retired
<1> QED BY <1>1 DEF Tables

\* An observation writes the pending row, or deletes it when it is the marker
LEMMA ObservedEffect ==
    ASSUME NEW t \in Tables, NEW u \in Urls, NEW o \in Guids, NEW n \in Guids
    PROVE  /\ ApplyEvent(t, Observed(u, o, n)) \in Tables
           /\ ApplyEvent(t, Observed(u, o, n)).feeds = t.feeds
           /\ ApplyEvent(t, Observed(u, o, n)).change =
                 IF n = o THEN DeleteGuidChange(t.change, u) ELSE UpsertGuidChange(t.change, u, o, n)
           /\ ApplyEvent(t, Observed(u, o, n)).links = t.links
<1> DEFINE ch == IF n = o THEN DeleteGuidChange(t.change, u)
                 ELSE UpsertGuidChange(t.change, u, o, n)
<1>1. ApplyEvent(t, Observed(u, o, n)) = [t EXCEPT !.change = ch]
  BY DEF ApplyEvent, Observed
<1>2. t.change \in [Urls -> Row]
  BY DEF Tables
<1>3. ch \in [Urls -> Row]
  BY <1>2, RowWrites
<1> HIDE DEF ch
<1>4. /\ ApplyEvent(t, Observed(u, o, n)) \in Tables
      /\ ApplyEvent(t, Observed(u, o, n)).feeds = t.feeds
      /\ ApplyEvent(t, Observed(u, o, n)).change = ch
      /\ ApplyEvent(t, Observed(u, o, n)).links = t.links
  BY <1>1, <1>3 DEF Tables
<1> QED BY <1>4 DEF ch

\* A decision is written into the row there is
LEMMA DecidedEffect ==
    ASSUME NEW t \in Tables, NEW u \in Urls, NEW d \in Decisions
    PROVE  /\ ApplyEvent(t, Decided(u, d)) \in Tables
           /\ ApplyEvent(t, Decided(u, d)).feeds = t.feeds
           /\ ApplyEvent(t, Decided(u, d)).change = SetDecision(t.change, u, d)
           /\ ApplyEvent(t, Decided(u, d)).links = t.links
<1>1. ApplyEvent(t, Decided(u, d)) = [t EXCEPT !.change = SetDecision(t.change, u, d)]
  BY DEF ApplyEvent, Decided
<1>2. t.change \in [Urls -> Row]
  BY DEF Tables
<1>3. SetDecision(t.change, u, d) \in [Urls -> Row]
  BY <1>2, RowWrites
<1> QED BY <1>1, <1>3 DEF Tables

\* A supersession writes the first link of a GUID
LEMMA SupersededEffect ==
    ASSUME NEW t \in Tables, NEW o \in Guids, NEW n \in Guids
    PROVE  /\ ApplyEvent(t, Superseded(o, n)) \in Tables
           /\ ApplyEvent(t, Superseded(o, n)).feeds = t.feeds
           /\ ApplyEvent(t, Superseded(o, n)).change = t.change
           /\ ApplyEvent(t, Superseded(o, n)).links = InsertSupersession(t.links, o, n)
<1>1. ApplyEvent(t, Superseded(o, n)) = [t EXCEPT !.links = InsertSupersession(t.links, o, n)]
  BY DEF ApplyEvent, Superseded
<1>2. t.links \in [Guids -> Guids \cup {None}]
  BY DEF Tables
<1>3. InsertSupersession(t.links, o, n) \in [Guids -> Guids \cup {None}]
  BY <1>2, LinkWrites
<1> QED BY <1>1, <1>3 DEF Tables

\* Rows that agree on new GUID and decision
Alike(a, b) == \A v \in Urls : a[v].new = b[v].new /\ a[v].says = b[v].says

\* They still do after one is deleted,
LEMMA AlikeDeleted ==
    ASSUME NEW a \in [Urls -> Row], NEW b \in [Urls -> Row], NEW u \in Urls, Alike(a, b)
    PROVE  Alike(DeleteGuidChange(a, u), DeleteGuidChange(b, u))
BY DEF Alike, DeleteGuidChange

\* after one is written,
LEMMA AlikeUpserted ==
    ASSUME NEW a \in [Urls -> Row], NEW b \in [Urls -> Row], NEW u \in Urls, Alike(a, b),
           NEW o \in Guids, NEW n \in Guids
    PROVE  Alike(UpsertGuidChange(a, u, o, n), UpsertGuidChange(b, u, o, n))
BY DEF Alike, UpsertGuidChange

\* and after one is decided, which the other is too: neither is missing
LEMMA AlikeDecided ==
    ASSUME NEW a \in [Urls -> Row], NEW b \in [Urls -> Row], NEW u \in Urls, Alike(a, b),
           NEW d \in Decisions
    PROVE  Alike(SetDecision(a, u, d), SetDecision(b, u, d))
<1>1. a[u] = NoRow <=> b[u] = NoRow
  BY NoneAssumption DEF Row, NoRow, Alike
<1>2. a[u] # NoRow => /\ a[u] \in [old : Guids, new : Guids, says : Decisions \cup {None}]
                      /\ b[u] \in [old : Guids, new : Guids, says : Decisions \cup {None}]
  BY <1>1 DEF Row
<1> QED BY <1>1, <1>2 DEF SetDecision, Alike

-----------------------------------------------------------------------------
(* The parts several actions share *)

\* The records a step may leave: typed, one per URL, and the same on the node
FeedsKept ==
    /\ feeds' \in [Guids -> Urls \cup {None}]
    /\ \A g, h \in Guids : feeds'[g] = feeds'[h] /\ feeds'[g] # None => g = h
    /\ node'.feeds = feeds'

\* A bounded step stays within its bound
LEMMA ActType ==
    ASSUME TypeOK, Act
    PROVE  acts' \in 0..MaxActs /\ acts' # acts
BY BoundsAssumption DEF Act, TypeOK

\* The record of one GUID takes a free URL, or none, on the primary and the node
LEMMA OneFeedWritten ==
    ASSUME TypeOK, NEW g \in Guids, NEW u \in Urls \cup {None},
           u # None => \A h \in Guids \ {g} : feeds[h] # u,
           feeds' = [feeds EXCEPT ![g] = u], node'.feeds = [feeds EXCEPT ![g] = u]
    PROVE  FeedsKept
<1>1. feeds \in [Guids -> Urls \cup {None}]
  BY PrimaryTypes
<1>2. \A h, k \in Guids : feeds[h] = feeds[k] /\ feeds[h] # None => h = k
  BY DEF TypeOK
<1> QED BY <1>1, <1>2 DEF FeedsKept

\* ingest_transaction: the record takes the URL and the node hears of it
LEMMA ApplyKeeps ==
    ASSUME GuidIInv, NEW g \in Guids, NEW s \in Urls, NEW c \in Urls, NEW u \in Urls,
           Apply(g, s, c, u)
    PROVE  /\ FeedsKept /\ feeds'[g] = u
           /\ node' \in Tables /\ node'.change = node.change /\ node'.links = node.links
           /\ cache' \in [Urls -> Guids \cup {None}] /\ acts' \in 0..MaxActs
<1> USE DEF GuidIInv
<1>1. feeds \in [Guids -> Urls \cup {None}] /\ node \in Tables
  BY PrimaryTypes
<1>2. /\ node' \in Tables /\ node'.change = node.change /\ node'.links = node.links
      /\ node'.feeds = [feeds EXCEPT ![g] = u]
  <2>1. CASE feeds[g] = u
    <3>1. [feeds EXCEPT ![g] = u] = feeds
      BY <1>1, <2>1
    <3> QED BY <1>1, <2>1, <3>1 DEF Apply, NodeAnswersAlike
  <2>2. CASE feeds[g] # u
    <3>1. node' = ApplyEvent(node, Upserted(g, u)) /\ node.feeds = feeds
      BY <2>2 DEF Apply, Sign, NodeAnswersAlike
    <3> QED BY <1>1, <3>1, UpsertedEffect
  <2> QED BY <2>1, <2>2
<1>3. feeds' = [feeds EXCEPT ![g] = u] /\ \A h \in Guids \ {g} : feeds[h] # u
  BY DEF Apply
<1>4. FeedsKept
  BY <1>2, <1>3, OneFeedWritten
<1>5. cache' \in [Urls -> Guids \cup {None}]
  BY DEF Apply, TypeOK
<1>6. acts' \in 0..MaxActs
  BY ActType DEF Apply, TypeOK
<1> QED BY <1>1, <1>2, <1>3, <1>4, <1>5, <1>6

\* What is left to show of a step once its parts are known
LEMMA Assembled ==
    ASSUME FeedsKept, change' \in [Urls -> Row], links' \in [Guids -> Guids \cup {None}],
           node' \in Tables, node'.links = links',
           Alike(node'.change, change'),
           cache' \in [Urls -> Guids \cup {None}],
           verdict' \in [Urls -> [Guids -> Decisions \cup {None}]],
           acts' \in 0..MaxActs, IngestTyped', RowsHaveTheVerdict', CheckedIsApproved',
           ReturnedHasRecord'
    PROVE  GuidIInv'
<1>1. [feeds |-> feeds', change |-> change', links |-> links'] \in Tables
  BY DEF Tables, FeedsKept
<1>2. ingest' = Idle \/ ingest'.phase \in Phases
  BY DEF IngestTyped
<1>3. TypeOK'
  BY <1>1, <1>2 DEF TypeOK, FeedsKept
<1> QED BY <1>3 DEF GuidIInv, NodeAnswersAlike, FeedsKept, Alike

\* No writer: no change waits for its transition
LEMMA IdleParts ==
    ASSUME ingest' = Idle
    PROVE  IngestTyped' /\ CheckedIsApproved' /\ ReturnedHasRecord'
BY DEF IngestTyped, CheckedIsApproved, ReturnedHasRecord, Idle

\* The rows and verdicts stay as they are
LEMMA VerdictsStay ==
    ASSUME RowsHaveTheVerdict, UNCHANGED <<change, verdict>>
    PROVE  RowsHaveTheVerdict'
BY DEF RowsHaveTheVerdict

\* A deleted row has no decision
LEMMA DeletedRow ==
    ASSUME TypeOK, RowsHaveTheVerdict, NEW u \in Urls,
           change' = DeleteGuidChange(change, u), UNCHANGED verdict
    PROVE  RowsHaveTheVerdict'
<1>1. change \in [Urls -> Row]
  BY PrimaryTypes
<1> QED BY <1>1 DEF DeleteGuidChange, RowsHaveTheVerdict, NoRow

-----------------------------------------------------------------------------
(* Every action keeps the inductive invariant *)

\* The record is admitted, updated or moved
LEMMA RecordStep ==
    ASSUME GuidIInv, NEW g \in Guids, NEW s \in Urls, NEW c \in Urls, NEW u \in Urls,
           Apply(g, s, c, u), ingest' = Idle, UNCHANGED <<change, links, verdict>>
    PROVE  GuidIInv'
<1>1. /\ FeedsKept /\ node' \in Tables /\ node'.change = node.change /\ node'.links = node.links
      /\ cache' \in [Urls -> Guids \cup {None}] /\ acts' \in 0..MaxActs
  BY ApplyKeeps
<1>2. /\ change' \in [Urls -> Row] /\ links' \in [Guids -> Guids \cup {None}]
      /\ verdict' \in [Urls -> [Guids -> Decisions \cup {None}]]
  BY PrimaryTypes DEF GuidIInv, TypeOK
<1>3. node'.links = links' /\ Alike(node'.change, change')
  BY <1>1 DEF GuidIInv, NodeAnswersAlike, Alike
<1>4. RowsHaveTheVerdict'
  BY VerdictsStay DEF GuidIInv
<1> QED BY <1>1, <1>2, <1>3, <1>4, IdleParts, Assembled

\* A submission whose GUID is the record's own, or of a URL without another record
LEMMA SubmissionStep ==
    ASSUME GuidIInv, NEW g \in Guids, NEW s \in Urls, NEW c \in Urls,
           Update(g, s, c) \/ Admit(g, s, c) \/ Move(g, s, c)
    PROVE  GuidIInv'
<1>1. CASE Admit(g, s, c)
  BY <1>1, RecordStep DEF Admit, WriterFree
<1>2. CASE Move(g, s, c)
  <2>1. PICK u \in {s, c} : Apply(g, s, c, u)
    BY <1>2 DEF Move
  <2> QED BY <1>2, <2>1, RecordStep DEF Move, WriterFree
<1>3. CASE Update(g, s, c)
  <2>1. PICK u \in {feeds[g]} \cup (IF feeds[g] = s THEN {c} ELSE {}) : Apply(g, s, c, u)
    BY <1>3 DEF Update
  <2>2. feeds[g] \in Urls
    <3>1. CASE IsUpdate(g, s, c)
      BY <3>1 DEF IsUpdate
    <3>2. CASE ingest = Returned(g, s, c, TRUE)
      BY <3>2 DEF GuidIInv, ReturnedHasRecord, Returned, Idle
    <3> QED BY <1>3, <3>1, <3>2 DEF Update
  <2> QED BY <1>3, <2>1, <2>2, RecordStep DEF Update
<1> QED BY <1>1, <1>2, <1>3

\* The pending row of a source URL is written or deleted
LEMMA RowStep ==
    ASSUME GuidIInv, NEW g \in Guids, NEW s \in Urls, NEW c \in Urls,
           ReturnToGuid(g, s, c) \/ Pending(g, s, c)
    PROVE  GuidIInv'
<1> USE DEF GuidIInv
<1>0. /\ change \in [Urls -> Row] /\ node.change \in [Urls -> Row] /\ node \in Tables
      /\ links \in [Guids -> Guids \cup {None}] /\ feeds \in [Guids -> Urls \cup {None}]
      /\ Alike(node.change, change)
  BY PrimaryTypes DEF NodeAnswersAlike, Alike
<1>1. /\ UNCHANGED <<feeds, links, cache, verdict>>
      /\ verdict \in [Urls -> [Guids -> Decisions \cup {None}]]
  BY DEF ReturnToGuid, Pending, TypeOK
<1>2. CASE ReturnToGuid(g, s, c)
  <2>1. change' = DeleteGuidChange(change, s) /\ change' \in [Urls -> Row]
    BY <1>0, <1>2, RowWrites DEF ReturnToGuid
  <2>2. /\ node' \in Tables /\ node'.feeds = feeds /\ node'.links = links
        /\ node'.change = DeleteGuidChange(node.change, s)
    BY <1>0, <1>2, ObservedEffect DEF ReturnToGuid, Sign, NodeAnswersAlike
  <2>3. Alike(node'.change, change')
    BY <1>0, <2>1, <2>2, AlikeDeleted
  <2>4. RowsHaveTheVerdict'
    BY <1>1, <2>1, DeletedRow
  <2>5. PICK fits \in BOOLEAN :
           ingest' = [phase |-> "returned", guid |-> g, held |-> None, source |-> s, url |-> c,
                      fits |-> fits]
    BY <1>2 DEF ReturnToGuid, Returned, Idle
  <2>6. IngestTyped' /\ CheckedIsApproved' /\ ReturnedHasRecord'
    <3>1. feeds[g] \in {s, c}
      BY <1>2 DEF ReturnToGuid, IsUpdate
    <3> QED BY <1>1, <2>5, <3>1 DEF IngestTyped, CheckedIsApproved, ReturnedHasRecord, Phases
  <2>7. FeedsKept
    BY <1>0, <1>1, <2>2 DEF FeedsKept, TypeOK
  <2>8. cache' \in [Urls -> Guids \cup {None}] /\ acts' \in 0..MaxActs
    BY <1>2 DEF ReturnToGuid, TypeOK
  <2> QED BY <1>0, <1>1, <2>1, <2>2, <2>3, <2>4, <2>6, <2>7, <2>8, Assembled
<1>3. CASE Pending(g, s, c)
  <2>1. PICK held \in Guids :
           /\ IsGuidChange(g, s, c, held)
           /\ change' = UpsertGuidChange(change, s, held, g)
           /\ IF change[s].new = g THEN UNCHANGED <<node, acts>>
              ELSE Sign(Observed(s, held, g)) /\ Act
    BY <1>3 DEF Pending
  <2>2. change' \in [Urls -> Row] /\ held # g
    BY <1>0, <2>1, RowWrites DEF IsGuidChange, Conflicting
  <2>3. \A v \in Urls : IF v = s
           THEN /\ change'[v].new = g
                /\ change'[v].says = IF change[v].new = g THEN change[v].says ELSE None
           ELSE change'[v] = change[v]
    BY <1>0, <2>1 DEF UpsertGuidChange
  <2>4. /\ node' \in Tables /\ node'.feeds = feeds /\ node'.links = links
        /\ Alike(node'.change, change')
        /\ acts' \in 0..MaxActs
    <3>1. CASE change[s].new = g
      BY <1>0, <2>1, <2>3, <3>1 DEF NodeAnswersAlike, TypeOK, Alike
    <3>2. CASE change[s].new # g
      <4>1. /\ node' \in Tables /\ node'.feeds = node.feeds /\ node'.links = node.links
            /\ node'.change = UpsertGuidChange(node.change, s, held, g)
        BY <1>0, <2>1, <2>2, <3>2, ObservedEffect DEF Sign
      <4>2. Alike(node'.change, change')
        BY <1>0, <2>1, <4>1, AlikeUpserted
      <4> QED BY <2>1, <3>2, <4>1, <4>2, ActType DEF NodeAnswersAlike
    <3> QED BY <3>1, <3>2
  <2>5. RowsHaveTheVerdict'
    BY <1>1, <2>3 DEF RowsHaveTheVerdict
  <2>6. ingest' = Idle /\ cache' \in [Urls -> Guids \cup {None}]
    BY <1>3 DEF Pending, WriterFree, TypeOK
  <2>7. FeedsKept
    BY <1>0, <1>1, <2>4 DEF FeedsKept, TypeOK
  <2> QED BY <1>0, <1>1, <2>2, <2>4, <2>5, <2>6, <2>7, IdleParts, Assembled
<1> QED BY <1>2, <1>3

\* An approved change, or one to the UUIDv5 of the URL, begins
LEMMA BeginStep ==
    ASSUME GuidIInv, NEW g \in Guids, NEW s \in Urls, NEW c \in Urls, BeginChange(g, s, c)
    PROVE  GuidIInv'
<1> USE DEF GuidIInv
<1>1. PICK held \in Guids, fits \in BOOLEAN :
         ingest' = [phase |-> "checked", guid |-> g, held |-> held, source |-> s, url |-> c,
                    fits |-> fits]
  BY DEF BeginChange
<1>2. IngestTyped' /\ ReturnedHasRecord'
  BY <1>1 DEF IngestTyped, ReturnedHasRecord, Phases
<1>3. GuidOrigin(g, s) \/ verdict[s][g] = "approve"
  <2>1. CASE GuidOrigin(g, s)
    BY <2>1
  <2>2. CASE change[s].new = g /\ change[s].says = "approve"
    <3>1. change[s].says # None
      BY <2>2, NoneAssumption
    <3> QED BY <2>2, <3>1 DEF RowsHaveTheVerdict
  <2> QED BY <2>1, <2>2 DEF BeginChange, MayChange
<1>4. CheckedIsApproved'
  BY <1>1, <1>3 DEF CheckedIsApproved, BeginChange
<1>5. acts' \in 0..MaxActs
  BY ActType DEF BeginChange
<1> QED BY <1>2, <1>4, <1>5 DEF BeginChange, TypeOK, IngestTyped, NodeAnswersAlike,
           RowsHaveTheVerdict

\* The ingest ends without another write: a refusal, a failed insert, a crash
LEMMA EndStep ==
    ASSUME GuidIInv, Refuse \/ InsertFails \/ Crash
    PROVE  GuidIInv'
<1> USE DEF GuidIInv
<1>1. ingest' = Idle /\ UNCHANGED <<feeds, change, links, cache, node, verdict>>
  BY DEF Refuse, InsertFails, Crash
<1>2. acts' \in 0..MaxActs
  BY ActType DEF Refuse, InsertFails, Crash, TypeOK
<1> QED BY <1>1, <1>2, IdleParts DEF TypeOK, NodeAnswersAlike, RowsHaveTheVerdict

\* The first transaction of a change: retire the old GUID, link it, drop the row
LEMMA TransitionStep ==
    ASSUME GuidIInv, Transition
    PROVE  GuidIInv'
<1> USE DEF GuidIInv
<1> DEFINE h == ingest.held
           g == ingest.guid
           s == ingest.source
           t1 == ApplyEvent(node, Retired(h))
           t2 == ApplyEvent(t1, Superseded(h, g))
<1>0. /\ change \in [Urls -> Row] /\ node.change \in [Urls -> Row] /\ node \in Tables
      /\ links \in [Guids -> Guids \cup {None}] /\ feeds \in [Guids -> Urls \cup {None}]
      /\ Alike(node.change, change) /\ node.feeds = feeds /\ node.links = links
  BY PrimaryTypes DEF NodeAnswersAlike, Alike
<1>1. /\ ingest \in [phase : Phases, guid : Guids, held : Guids \cup {None},
                     source : Urls, url : Urls, fits : BOOLEAN]
      /\ ingest.phase = "checked" /\ h \in Guids /\ g \in Guids /\ s \in Urls
  BY DEF Transition, IngestTyped, Idle
<1>2. /\ feeds' = [feeds EXCEPT ![h] = None] /\ links' = InsertSupersession(links, h, g)
      /\ change' = DeleteGuidChange(change, s)
      /\ node' = IF change[s] = NoRow THEN t2 ELSE ApplyEvent(t2, Observed(s, h, h))
      /\ ingest' = [ingest EXCEPT !.phase = "retired"] /\ UNCHANGED <<cache, verdict, acts>>
  BY DEF Transition
<1>3. /\ t1 \in Tables /\ t1.feeds = [feeds EXCEPT ![h] = None]
      /\ t1.change = node.change /\ t1.links = links
  BY <1>0, <1>1, RetiredEffect
<1> HIDE DEF t1
<1>4. /\ t2 \in Tables /\ t2.feeds = [feeds EXCEPT ![h] = None]
      /\ t2.change = node.change /\ t2.links = InsertSupersession(links, h, g)
  BY <1>1, <1>3, SupersededEffect
<1> HIDE DEF t2
<1>5. /\ node' \in Tables /\ node'.feeds = feeds' /\ node'.links = links'
      /\ Alike(node'.change, change')
  <2>1. CASE change[s] = NoRow
    <3>1. change' = change
      BY <1>0, <1>1, <1>2, <2>1 DEF DeleteGuidChange
    <3> QED BY <1>0, <1>2, <1>4, <2>1, <3>1
  <2>2. CASE change[s] # NoRow
    <3>1. /\ node' \in Tables /\ node'.feeds = t2.feeds /\ node'.links = t2.links
          /\ node'.change = DeleteGuidChange(node.change, s)
      BY <1>1, <1>2, <1>4, <2>2, ObservedEffect
    <3>2. Alike(node'.change, change')
      BY <1>0, <1>1, <1>2, <3>1, AlikeDeleted
    <3> QED BY <1>2, <1>4, <3>1, <3>2
  <2> QED BY <2>1, <2>2
<1>6. FeedsKept
  <2>1. node'.feeds = [feeds EXCEPT ![h] = None]
    BY <1>2, <1>5
  <2> QED BY <1>1, <1>2, <2>1, OneFeedWritten
<1>7. change' \in [Urls -> Row] /\ links' \in [Guids -> Guids \cup {None}]
  BY <1>0, <1>1, <1>2, RowWrites, LinkWrites
<1>8. RowsHaveTheVerdict'
  BY <1>1, <1>2, DeletedRow
<1>9. IngestTyped' /\ CheckedIsApproved' /\ ReturnedHasRecord'
  BY <1>1, <1>2 DEF IngestTyped, CheckedIsApproved, ReturnedHasRecord, Phases
<1>10. /\ cache' \in [Urls -> Guids \cup {None}] /\ acts' \in 0..MaxActs
       /\ verdict' \in [Urls -> [Guids -> Decisions \cup {None}]]
  BY <1>2 DEF TypeOK
<1> QED BY <1>5, <1>6, <1>7, <1>8, <1>9, <1>10, Assembled

\* The second transaction: the new GUID is admitted
LEMMA AdmitChangedStep ==
    ASSUME GuidIInv, AdmitChanged
    PROVE  GuidIInv' /\ feeds'[ingest.guid] = ingest.url
<1>1. ingest.guid \in Guids /\ ingest.source \in Urls /\ ingest.url \in Urls
  BY DEF GuidIInv, IngestTyped, AdmitChanged, Idle
<1> QED BY <1>1, RecordStep, ApplyKeeps DEF AdmitChanged

\* The operator decides a row, retires a record or moves it
LEMMA OperatorStep ==
    ASSUME GuidIInv,
           \/ \E g \in Guids : Retire(g) \/ \E d \in Decisions : Decide(g, d)
           \/ \E g \in Guids, u \in Urls : Relocate(g, u)
    PROVE  GuidIInv'
<1> USE DEF GuidIInv
<1>0. /\ change \in [Urls -> Row] /\ node.change \in [Urls -> Row] /\ node \in Tables
      /\ links \in [Guids -> Guids \cup {None}] /\ feeds \in [Guids -> Urls \cup {None}]
      /\ Alike(node.change, change) /\ node.feeds = feeds /\ node.links = links
      /\ cache \in [Urls -> Guids \cup {None}]
      /\ verdict \in [Urls -> [Guids -> Decisions \cup {None}]]
  BY PrimaryTypes DEF NodeAnswersAlike, Alike, TypeOK
<1>1. ASSUME NEW g \in Guids, Retire(g) PROVE GuidIInv'
  <2>1. ingest' = Idle /\ acts' \in 0..MaxActs
    BY <1>1, ActType DEF Retire, WriterFree
  <2>2. /\ node' \in Tables /\ node'.feeds = [feeds EXCEPT ![g] = None]
        /\ node'.change = node.change /\ node'.links = links
    BY <1>0, <1>1, RetiredEffect DEF Retire, Sign
  <2>3. FeedsKept
    BY <1>1, <2>2, OneFeedWritten DEF Retire
  <2>4. UNCHANGED <<change, links, cache, verdict>>
    BY <1>1 DEF Retire
  <2> QED BY <1>0, <2>1, <2>2, <2>3, <2>4, VerdictsStay, IdleParts, Assembled
<1>2. ASSUME NEW g \in Guids, NEW u \in Urls, Relocate(g, u) PROVE GuidIInv'
  <2>1. ingest' = Idle /\ acts' \in 0..MaxActs
    BY <1>2, ActType DEF Relocate, WriterFree
  <2>2. /\ node' \in Tables /\ node'.feeds = [feeds EXCEPT ![g] = u]
        /\ node'.change = node.change /\ node'.links = links
    <3>1. node' = ApplyEvent(node, Upserted(g, u)) /\ u \in Urls \cup {None}
      BY <1>2 DEF Relocate, Sign
    <3>2. node \in Tables /\ node.feeds = feeds /\ node.links = links
      BY <1>0
    <3>3. /\ ApplyEvent(node, Upserted(g, u)) \in Tables
          /\ ApplyEvent(node, Upserted(g, u)).feeds = [node.feeds EXCEPT ![g] = u]
          /\ ApplyEvent(node, Upserted(g, u)).change = node.change
          /\ ApplyEvent(node, Upserted(g, u)).links = node.links
      BY <3>1, <3>2, UpsertedEffect
    <3> QED BY <3>1, <3>2, <3>3
  <2>3. FeedsKept
    BY <1>2, <2>2, OneFeedWritten DEF Relocate
  <2>4. UNCHANGED <<change, links, cache, verdict>>
    BY <1>2 DEF Relocate
  <2> QED BY <1>0, <2>1, <2>2, <2>3, <2>4, VerdictsStay, IdleParts, Assembled
<1>3. ASSUME NEW g \in Guids, NEW d \in Decisions, Decide(g, d) PROVE GuidIInv'
  <2>1. ingest' = Idle /\ acts' \in 0..MaxActs /\ UNCHANGED <<feeds, links, cache>>
    BY <1>3, ActType DEF Decide, WriterFree
  <2>2. PICK u \in Urls : /\ change[u].old = g
                          /\ change' = SetDecision(change, u, d)
                          /\ Sign(Decided(u, d))
                          /\ verdict' = [verdict EXCEPT ![u][change[u].new] = d]
    BY <1>3 DEF Decide
  <2>3. /\ node' \in Tables /\ node'.feeds = feeds /\ node'.links = links
        /\ node'.change = SetDecision(node.change, u, d)
    BY <1>0, <2>2, DecidedEffect DEF Sign
  <2>4. Alike(node'.change, change') /\ change' \in [Urls -> Row]
    <3>1. Alike(SetDecision(node.change, u, d), SetDecision(change, u, d))
      BY <1>0, AlikeDecided
    <3>2. SetDecision(change, u, d) \in [Urls -> Row]
      BY <1>0, RowWrites
    <3> QED BY <2>2, <2>3, <3>1, <3>2
  <2>5. change[u] \in [old : Guids, new : Guids, says : Decisions \cup {None}]
    BY <1>0, <2>2, NoneAssumption DEF Row, NoRow
  <2>6. verdict' \in [Urls -> [Guids -> Decisions \cup {None}]]
    BY <1>0, <2>2, <2>5
  <2>7. RowsHaveTheVerdict'
    <3>1. change' = [change EXCEPT ![u] = [change[u] EXCEPT !.says = d]]
      BY <2>2, <2>5, NoneAssumption DEF SetDecision, NoRow
    <3>2. \A v \in Urls \ {u} : change'[v] = change[v] /\ verdict'[v] = verdict[v]
      BY <1>0, <2>2, <3>1
    <3>3. change'[u].new = change[u].new /\ change'[u].says = d /\ verdict'[u][change[u].new] = d
      BY <1>0, <2>2, <2>5, <3>1
    <3> QED BY <3>2, <3>3 DEF RowsHaveTheVerdict
  <2>8. FeedsKept
    BY <1>0, <2>1, <2>3 DEF FeedsKept, TypeOK
  <2> QED BY <1>0, <2>1, <2>3, <2>4, <2>6, <2>7, <2>8, IdleParts, Assembled
<1> QED BY <1>1, <1>2, <1>3

\* A case for each action of Next
LEMMA GuidStep == GuidIInv /\ [Next]_vars => GuidIInv'
<1> SUFFICES ASSUME GuidIInv, [Next]_vars PROVE GuidIInv'
  OBVIOUS
<1>1. ASSUME UNCHANGED vars PROVE GuidIInv'
  BY <1>1 DEF vars, GuidIInv, TypeOK, NodeAnswersAlike, IngestTyped, RowsHaveTheVerdict,
     CheckedIsApproved, ReturnedHasRecord
<1>2. ASSUME NEW g \in Guids, NEW s \in Urls, NEW c \in Urls, NoChange(g, s, c) PROVE GuidIInv'
  BY <1>1, <1>2 DEF NoChange
<1> QED BY <1>1, <1>2, SubmissionStep, RowStep, BeginStep, EndStep, TransitionStep,
           AdmitChangedStep, OperatorStep DEF Next

\* The first state satisfies the inductive invariant
LEMMA GuidInit == Init => GuidIInv
<1> SUFFICES ASSUME Init PROVE GuidIInv
  OBVIOUS
<1>1. NoRow \in Row
  BY DEF Row
<1>2. TypeOK
  BY <1>1, BoundsAssumption DEF Init, TypeOK, Tables
<1> QED BY <1>2 DEF Init, GuidIInv, NodeAnswersAlike, IngestTyped, RowsHaveTheVerdict,
           CheckedIsApproved, ReturnedHasRecord, Idle, NoRow

-----------------------------------------------------------------------------
(* The theorems *)

\* No two records have one URL, and a community node that applied the events of
\* the changes answers for GUIDs, links and pending rows as the primary does
\* (classify_submission, record_guid_change_*, guid_change_transition, apply.rs).
THEOREM NodesAnswerAlike == Spec => []GuidInv
<1>1. GuidIInv => GuidInv
  BY DEF GuidIInv, GuidInv
<1> QED BY <1>1, GuidInit, GuidStep, PTL DEF Spec

\* A record is replaced only by a GUID the operator approved last for this URL, or
\* by the UUIDv5 of the URL, whatever was declared in between (api.rs GuidChange arm).
THEOREM ChangesAreApproved == Spec => ApprovalIsForThisGuid
<1>1. GuidIInv /\ [Next]_vars =>
        [ingest.phase = "checked" /\ ingest'.phase = "retired" =>
           \/ GuidOrigin(ingest.guid, ingest.source)
           \/ verdict[ingest.source][ingest.guid] = "approve"]_vars
  BY DEF GuidIInv, CheckedIsApproved
<1> QED BY <1>1, GuidInit, GuidStep, PTL DEF Spec, ApprovalIsForThisGuid

\* Once the old GUID is retired the new one replaces it, unless the process stops,
\* the store fails, a third record has the URL or the body breaks a CHECK of the
\* tables (api.rs, the transition before step 11).
THEOREM ChangesReplace == Spec => ChangeReplaces
<1>1. GuidIInv /\ [Next]_vars =>
        [ingest.phase = "retired" /\ ingest'.phase # "retired" =>
           \/ feeds'[ingest.guid] = ingest.url
           \/ acts' # acts
           \/ \E h \in Guids : feeds[h] = ingest.url
           \/ ~ingest.fits]_vars
  <2> SUFFICES ASSUME GuidIInv, Next, ingest.phase = "retired", ingest'.phase # "retired"
               PROVE  \/ feeds'[ingest.guid] = ingest.url
                      \/ acts' # acts
                      \/ \E h \in Guids : feeds[h] = ingest.url
                      \/ ~ingest.fits
    OBVIOUS
  <2>1. ~WriterFree
    BY DEF WriterFree, Idle
  <2>2. ASSUME NEW g \in Guids, NEW s \in Urls, NEW c \in Urls
        PROVE  ~Update(g, s, c)
    BY <2>1 DEF Update, Returned, Idle
  <2>3. AdmitChanged \/ InsertFails \/ Crash
    <3>1. ASSUME NEW g \in Guids, NEW s \in Urls, NEW c \in Urls
          PROVE  /\ ~NoChange(g, s, c) /\ ~ReturnToGuid(g, s, c) /\ ~Update(g, s, c)
                 /\ ~Admit(g, s, c) /\ ~Move(g, s, c) /\ ~Pending(g, s, c)
                 /\ ~BeginChange(g, s, c)
      <4>1. ~NoChange(g, s, c) /\ ~ReturnToGuid(g, s, c)
        BY <2>1 DEF NoChange, ReturnToGuid
      <4>2. ~Admit(g, s, c) /\ ~Move(g, s, c)
        BY <2>1 DEF Admit, Move
      <4>3. ~Pending(g, s, c) /\ ~BeginChange(g, s, c)
        BY <2>1 DEF Pending, BeginChange
      <4> QED BY <2>2, <4>1, <4>2, <4>3
    <3>2. ~Refuse /\ ~Transition
      BY DEF Refuse, Transition
    <3>3. ~\E g \in Guids : Retire(g) \/ \E d \in Decisions : Decide(g, d)
      BY <2>1 DEF Retire, Decide
    <3>4. ~\E g \in Guids, u \in Urls : Relocate(g, u)
      BY <2>1 DEF Relocate
    <3> QED BY <3>1, <3>2, <3>3, <3>4 DEF Next
  <2>4. CASE AdmitChanged
    BY <2>4, AdmitChangedStep
  <2>5. CASE InsertFails
    BY <2>5 DEF InsertFails
  <2>6. CASE Crash
    BY <2>6, ActType DEF Crash, GuidIInv
  <2> QED BY <2>3, <2>4, <2>5, <2>6
<1> QED BY <1>1, GuidInit, GuidStep, PTL DEF Spec, ChangeReplaces
=============================================================================
