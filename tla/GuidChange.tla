------------------------------ MODULE GuidChange ------------------------------
(***************************************************************************)
(* The GUID a source URL declares, and its change (ADR 0052 sections 4 and *)
(* 5).  The primary holds one record per GUID and one pending row per      *)
(* source URL.  A new GUID at the URL of a record waits for the operator,  *)
(* unless it is the UUIDv5 of that URL.  An approved change runs at the    *)
(* next submission: one transaction retires the old GUID and links it to   *)
(* the new one, a second admits the new one.  The writer lock is held over *)
(* both; a crash may come between them.  A community node applies the      *)
(* signed events of each transaction.                                      *)
(*                                                                         *)
(* Time is left out: first_seen and last_seen decide nothing here but the  *)
(* choice of a row in a decision, which is free.  A body is the GUID it    *)
(* declares; whether it repeats the hash of the crawl cache is a choice    *)
(* when the GUID is the cached one.  URL observations and copies, which a  *)
(* mirror without a move writes, are in module FeedContent.                *)
(***************************************************************************)
EXTENDS Naturals, FiniteSets, TLC

CONSTANTS
    Guids, Urls,
    DerivedUrl, DerivedGuid,  \* the one URL whose UUIDv5 is a GUID of the model
    None,
    MaxActs  \* bound: rows opened, changes begun, decisions, retirements, moves, crashes

ASSUME BoundsAssumption == MaxActs \in Nat
ASSUME NoneAssumption == None \notin Guids \cup Urls /\ None \notin {"approve", "reject"}

VARIABLES
    feeds,     \* feeds: the source URL of each GUID's record, None without one
    change,    \* feed_guid_changes: the row of each source URL
    links,     \* feed_guid_supersessions: the GUID that replaced a GUID
    cache,     \* feed_crawl_cache: the GUID of the last body applied per URL
    ingest,    \* the ingest that holds the writer lock
    node,      \* the same three tables of a community node
    verdict,   \* history: the last decision per source URL and new GUID
    acts       \* history: the bounded steps so far

vars == <<feeds, change, links, cache, ingest, node, verdict, acts>>

Decisions == {"approve", "reject"}
NoRow == [old |-> None, new |-> None, says |-> None]
Row == {NoRow} \cup [old : Guids, new : Guids, says : Decisions \cup {None}]
\* fits: the CHECK constraints of the content tables take the body
Idle == [phase |-> "idle", guid |-> None, held |-> None, source |-> None, url |-> None,
         fits |-> TRUE]
Phases == {"checked", "retired", "returned"}
Tables == [feeds : [Guids -> Urls \cup {None}], change : [Urls -> Row],
           links : [Guids -> Guids \cup {None}]]

Init ==
    /\ feeds = [g \in Guids |-> None]
    /\ change = [u \in Urls |-> NoRow]
    /\ links = [g \in Guids |-> None]
    /\ cache = [u \in Urls |-> None]
    /\ ingest = Idle
    /\ node = [feeds |-> feeds, change |-> change, links |-> links]
    /\ verdict = [u \in Urls |-> [g \in Guids |-> None]]
    /\ acts = 0

Act == acts < MaxActs /\ acts' = acts + 1
WriterFree == ingest = Idle

-----------------------------------------------------------------------------
(* Rows *)

\* Mutant: a changed new_guid keeps the decision on the old one
UpsertGuidChange_KeepsDecision(ch, u, o, n) ==
    [ch EXCEPT ![u] = [old |-> o, new |-> n, says |-> @.says]]

\* upsert_guid_change: the decision stays with the GUID it was made about
UpsertGuidChange(ch, u, o, n) ==
    [ch EXCEPT ![u] = [old |-> o, new |-> n, says |-> IF @.new = n THEN @.says ELSE None]]

\* set_guid_change_decision does nothing without a row
SetDecision(ch, u, d) == IF ch[u] = NoRow THEN ch ELSE [ch EXCEPT ![u].says = d]

\* delete_guid_change
DeleteGuidChange(ch, u) == [ch EXCEPT ![u] = NoRow]

\* insert_guid_supersession, INSERT OR IGNORE: the first link of a GUID stays
InsertSupersession(l, o, n) == IF l[o] = None THEN [l EXCEPT ![o] = n] ELSE l

-----------------------------------------------------------------------------
(* Events and their apply on a community node *)

Upserted(g, u) == [type |-> "feed_upserted", guid |-> g, url |-> u]
Retired(g) == [type |-> "feed_retired", guid |-> g]
Observed(u, o, n) == [type |-> "feed_guid_change_observed", url |-> u, old |-> o, new |-> n]
Decided(u, d) == [type |-> "feed_guid_change_decided", url |-> u, says |-> d]
Superseded(o, n) == [type |-> "feed_guid_superseded", old |-> o, new |-> n]

\* apply_event_inner; new = old is the delete marker of a pending row
ApplyEvent(t, e) ==
    CASE e.type = "feed_upserted" -> [t EXCEPT !.feeds[e.guid] = e.url]
      [] e.type = "feed_retired" -> [t EXCEPT !.feeds[e.guid] = None]
      [] e.type = "feed_guid_change_observed" ->
           [t EXCEPT !.change = IF e.new = e.old THEN DeleteGuidChange(@, e.url)
                                ELSE UpsertGuidChange(@, e.url, e.old, e.new)]
      [] e.type = "feed_guid_change_decided" ->
           [t EXCEPT !.change = SetDecision(@, e.url, e.says)]
      [] e.type = "feed_guid_superseded" ->
           [t EXCEPT !.links = InsertSupersession(@, e.old, e.new)]

Sign(e) == node' = ApplyEvent(node, e)

-----------------------------------------------------------------------------
(* Ingest.  g is the declared GUID, s the source URL, c the canonical URL. *)

\* classify_submission
Conflicting(g, s, c) == {h \in Guids \ {g} : feeds[h] \in {s, c}}
IsUpdate(g, s, c) == Conflicting(g, s, c) = {} /\ feeds[g] \in {s, c}
IsMirror(g, s, c) == Conflicting(g, s, c) = {} /\ feeds[g] \notin {None, s, c}
IsNewFeed(g, s, c) == Conflicting(g, s, c) = {} /\ feeds[g] = None
IsGuidChange(g, s, c, held) == held \in Conflicting(g, s, c) /\ feeds[g] = None

\* guid_origin_matches
GuidOrigin(g, u) == u = DerivedUrl /\ g = DerivedGuid

\* The body repeats the cached hash, and no move forces it past the cache: for
\* each class that answers no_change, only the observation is written
NoChange(g, s, c) ==
    /\ WriterFree /\ cache[c] = g
    /\ IsUpdate(g, s, c) \/ IsMirror(g, s, c) \/ IsNewFeed(g, s, c)
    /\ UNCHANGED vars

\* ingest_transaction and the steps after it: the record takes the URL, and a
\* FeedUpserted is signed when that is new.  A crash may lose the cache write.
Apply(g, s, c, u) ==
    /\ \A h \in Guids \ {g} : feeds[h] # u
    /\ feeds' = [feeds EXCEPT ![g] = u]
    /\ IF feeds[g] = u THEN UNCHANGED node ELSE Sign(Upserted(g, u))
    /\ \/ /\ cache' = [cache EXCEPT ![c] = g]
          /\ IF feeds[g] \in {None, u} THEN UNCHANGED acts ELSE Act
       \/ Act /\ UNCHANGED cache

Returned(g, s, c, fits) ==
    [Idle EXCEPT !.phase = "returned", !.guid = g, !.source = s, !.url = c, !.fits = fits]

\* Mutant: the return deletes the row without its marker event
ReturnToGuid_Unsigned(g, s, c) ==
    /\ WriterFree /\ IsUpdate(g, s, c) /\ change[s] # NoRow
    /\ change' = DeleteGuidChange(change, s)
    /\ \E fits \in BOOLEAN : ingest' = Returned(g, s, c, fits)
    /\ UNCHANGED <<feeds, links, cache, node, verdict, acts>>

\* Update case, first transaction: record_guid_change_return_for_ingest
ReturnToGuid(g, s, c) ==
    /\ WriterFree /\ IsUpdate(g, s, c) /\ change[s] # NoRow
    /\ change' = DeleteGuidChange(change, s)
    /\ Sign(Observed(s, g, g))
    /\ \E fits \in BOOLEAN : ingest' = Returned(g, s, c, fits)
    /\ UNCHANGED <<feeds, links, cache, verdict, acts>>

\* Update case: a redirect from the record's own URL may move it
Update(g, s, c) ==
    /\ \/ WriterFree /\ IsUpdate(g, s, c) /\ change[s] = NoRow
       \/ ingest = Returned(g, s, c, TRUE)
    /\ \E u \in {feeds[g]} \cup (IF feeds[g] = s THEN {c} ELSE {}) : Apply(g, s, c, u)
    /\ ingest' = Idle
    /\ UNCHANGED <<change, links, verdict>>

\* NewFeed case, when no hold and no block stops it
Admit(g, s, c) ==
    /\ WriterFree /\ IsNewFeed(g, s, c)
    /\ Apply(g, s, c, c)
    /\ UNCHANGED <<change, links, ingest, verdict>>

\* Mirror case with a trigger: the record moves to a URL of the submission
Move(g, s, c) ==
    /\ WriterFree /\ IsMirror(g, s, c)
    /\ \E u \in {s, c} : Apply(g, s, c, u)
    /\ UNCHANGED <<change, links, ingest, verdict>>

MayChange(g, s) == GuidOrigin(g, s) \/ (change[s].new = g /\ change[s].says = "approve")

\* GuidChange case without a transition: the pending row.  A reject of the same
\* GUID stands and writes nothing.
Pending(g, s, c) ==
    /\ WriterFree /\ ~MayChange(g, s)
    /\ \E held \in Guids :
         /\ IsGuidChange(g, s, c, held)
         /\ ~(change[s].new = g /\ change[s].says = "reject")
         /\ change' = UpsertGuidChange(change, s, held, g)
         /\ IF change[s].new = g THEN UNCHANGED <<node, acts>>
            ELSE Sign(Observed(s, held, g)) /\ Act
    /\ UNCHANGED <<feeds, links, cache, ingest, verdict>>

\* GuidChange case with a transition to come: pending_guid_transition is set
BeginChange(g, s, c) ==
    /\ WriterFree /\ MayChange(g, s) /\ Act
    /\ \E held \in Guids, fits \in BOOLEAN :
         /\ IsGuidChange(g, s, c, held)
         /\ ingest' = [phase |-> "checked", guid |-> g, held |-> held, source |-> s, url |-> c,
                       fits |-> fits]
    /\ UNCHANGED <<feeds, change, links, cache, node, verdict>>

\* Mutant: the submission may still be refused after the transition
Refuse_Late ==
    /\ ingest.phase \in Phases
    /\ ingest' = Idle
    /\ UNCHANGED <<feeds, change, links, cache, node, verdict, acts>>

\* The track limit, or a build step, refuses the submission before the transition
Refuse ==
    /\ ingest.phase \in {"checked", "returned"}
    /\ ingest' = Idle
    /\ UNCHANGED <<feeds, change, links, cache, node, verdict, acts>>

\* guid_change_transition, one transaction
Transition ==
    /\ ingest.phase = "checked"
    /\ feeds' = [feeds EXCEPT ![ingest.held] = None]
    /\ links' = InsertSupersession(links, ingest.held, ingest.guid)
    /\ change' = DeleteGuidChange(change, ingest.source)
    /\ LET swapped == ApplyEvent(ApplyEvent(node, Retired(ingest.held)),
                                 Superseded(ingest.held, ingest.guid)) IN
       node' = IF change[ingest.source] = NoRow THEN swapped
               ELSE ApplyEvent(swapped, Observed(ingest.source, ingest.held, ingest.held))
    /\ ingest' = [ingest EXCEPT !.phase = "retired"]
    /\ UNCHANGED <<cache, verdict, acts>>

\* The second transaction: the new GUID at the canonical URL
AdmitChanged ==
    /\ ingest.phase = "retired" /\ ingest.fits
    /\ Apply(ingest.guid, ingest.source, ingest.url, ingest.url)
    /\ ingest' = Idle
    /\ UNCHANGED <<change, links, verdict>>

\* ingest_transaction fails: feeds.feed_url is UNIQUE and a third record has the
\* canonical URL, or the body breaks a CHECK (a live item whose status is not in
\* lower case, which select_live_items takes; a negative split)
InsertFails ==
    /\ ingest.phase \in {"retired", "returned"}
    /\ \/ ~ingest.fits
       \/ ingest.phase = "retired" /\ \E h \in Guids : feeds[h] = ingest.url
    /\ ingest' = Idle
    /\ UNCHANGED <<feeds, change, links, cache, node, verdict, acts>>

\* The process stops, or the store fails, between two transactions of one ingest
Crash ==
    /\ ingest.phase \in Phases /\ Act
    /\ ingest' = Idle
    /\ UNCHANGED <<feeds, change, links, cache, node, verdict>>

-----------------------------------------------------------------------------
(* Operator *)

\* POST /v1/feeds/{guid}/guid-change for a row that names the GUID as its old one
Decide(g, d) ==
    /\ WriterFree /\ Act
    /\ \E u \in Urls :
         /\ change[u].old = g
         /\ change' = SetDecision(change, u, d)
         /\ Sign(Decided(u, d))
         /\ verdict' = [verdict EXCEPT ![u][change[u].new] = d]
    /\ UNCHANGED <<feeds, links, cache, ingest>>

\* A retirement of any reason but a GUID change: the pending rows stay
Retire(g) ==
    /\ WriterFree /\ feeds[g] # None /\ Act
    /\ feeds' = [feeds EXCEPT ![g] = None]
    /\ Sign(Retired(g))
    /\ UNCHANGED <<change, links, cache, ingest, verdict>>

\* relocate_feed
Relocate(g, u) ==
    /\ WriterFree /\ feeds[g] # None /\ Act
    /\ \A h \in Guids \ {g} : feeds[h] # u
    /\ feeds' = [feeds EXCEPT ![g] = u]
    /\ Sign(Upserted(g, u))
    /\ UNCHANGED <<change, links, cache, ingest, verdict>>

-----------------------------------------------------------------------------
Next ==
    \/ \E g \in Guids, s, c \in Urls :
         \/ NoChange(g, s, c) \/ ReturnToGuid(g, s, c) \/ Update(g, s, c) \/ Admit(g, s, c)
         \/ Move(g, s, c) \/ Pending(g, s, c) \/ BeginChange(g, s, c)
    \/ Refuse \/ Transition \/ AdmitChanged \/ InsertFails \/ Crash
    \/ \E g \in Guids : Retire(g) \/ \E d \in Decisions : Decide(g, d)
    \/ \E g \in Guids, u \in Urls : Relocate(g, u)

Symmetry == Permutations(Guids \ {DerivedGuid})

Spec == Init /\ [][Next]_vars

-----------------------------------------------------------------------------
(* Properties *)

TypeOK ==
    /\ [feeds |-> feeds, change |-> change, links |-> links] \in Tables
    /\ node \in Tables
    /\ cache \in [Urls -> Guids \cup {None}]
    /\ ingest = Idle \/ ingest.phase \in Phases
    /\ verdict \in [Urls -> [Guids -> Decisions \cup {None}]]
    /\ acts \in 0..MaxActs
    /\ \A g, h \in Guids : feeds[g] = feeds[h] /\ feeds[g] # None => g = h

\* The events of the changes carry every write a reader can see: a community node
\* that applied them has the records, the links, and of each pending row the new
\* GUID and the decision of the primary (api.rs record_guid_change_*,
\* guid_change_transition, apply.rs).
NodeAnswersAlike ==
    /\ node.feeds = feeds /\ node.links = links
    /\ \A u \in Urls : node.change[u].new = change[u].new /\ node.change[u].says = change[u].says

\* A record is retired for a GUID that is not the UUIDv5 of its source URL only
\* when the last word of the operator on this URL and this GUID was approve,
\* whatever else the source declared before and after it (api.rs GuidChange arm).
ApprovalIsForThisGuid ==
    [][ingest.phase = "checked" /\ ingest'.phase = "retired" =>
         \/ GuidOrigin(ingest.guid, ingest.source)
         \/ verdict[ingest.source][ingest.guid] = "approve"]_vars

\* A submission that retired the old GUID is not refused any more: only a crash or
\* a store error (which cost an act), a third record at the URL, or a body that
\* breaks a CHECK of the tables keeps the new GUID out.  The comment before the
\* transition (api.rs, before step 11) counts on less: that every check that can
\* reject the submission has passed by then.
ChangeReplaces ==
    [][ingest.phase = "retired" /\ ingest'.phase # "retired" =>
         \/ feeds'[ingest.guid] = ingest.url
         \/ acts' # acts
         \/ \E h \in Guids : feeds[h] = ingest.url
         \/ ~ingest.fits]_vars

\* No two records have one URL (the UNIQUE constraint that classify_submission must
\* not run into), and a node answers for GUIDs and changes as the primary does.
GuidInv == TypeOK /\ NodeAnswersAlike
=============================================================================
