--------------------------- MODULE FeedLifecycle ---------------------------
(***************************************************************************)
(* The life of one feed GUID on the primary: admission, update, retirement *)
(* by the source (podcast:block, a gone source) or by the operator, the    *)
(* hold that keeps a retired GUID for its source, the blocks, the crawl    *)
(* cache, and the restart that seeds blocks and fills holds.               *)
(*                                                                         *)
(* An ingest has two phases (api.rs handle_ingest_feed): it checks blocks  *)
(* and the content hash on a reader connection, and it classifies and      *)
(* writes later, under the writer lock.  Everything else here is one       *)
(* transaction under that lock.  Of the other GUIDs the model keeps the    *)
(* URLs of their records.  Whether a body moves the record is the subject  *)
(* of FeedMove, whether a GUID change is approved that of GuidChange; both *)
(* are a free choice here.                                                 *)
(***************************************************************************)
EXTENDS Naturals, FiniteSets

CONSTANTS
    Urls,
    Guid,           \* the value of a GUID block
    None,
    Revs,           \* contents of a body beside its podcast:block tag
    RetireAfter,    \* SOURCE_GONE_RETIRE_AFTER_SECS
    Seeds,          \* BLOCKED_FEED_GUIDS and BLOCKED_FEED_URLS
    MaxSubs         \* bound on the submissions under way

ASSUME LifecycleAssumption ==
    /\ None \notin Urls /\ Guid \notin Urls /\ Seeds \subseteq Urls \cup {Guid}
    /\ RetireAfter \in Nat \ {0} /\ MaxSubs \in Nat

VARIABLES
    rec,        \* feeds.feed_url of the GUID, None without a record
    others,     \* feeds.feed_url of the records of other GUIDs
    cache,      \* feed_crawl_cache: the body last ingested from each canonical URL
    hold,       \* retired_source_holds: the held URL and whether it was released
    blocks,     \* feed_blocks
    gone,       \* source_gone_answers: time since first_gone_at, at most RetireAfter
    retired,    \* the event log: the URL at the last retirement of the GUID, None
                \* when a GUID change was its reason (HOLD_RETIRE_REASONS)
    subs,       \* submissions under way
    answers,    \* history: counted gone answers since a body was last applied
    owner       \* history: the URL the GUID is kept for

vars == <<rec, others, cache, hold, blocks, gone, retired, subs, answers, owner>>

Body == [rev : Revs, block : BOOLEAN]
Never == RetireAfter + 1    \* gone: no row
NoHold == [url |-> None, released |-> FALSE]

Submission == [source : Urls, canonical : Urls, body : Body, force : BOOLEAN,
               verified : BOOLEAN]
Own(s) == {s.source, s.canonical}

\* find_feed_block
Blocked(s) == blocks \cap ({Guid} \cup Own(s)) # {}

\* ContentHashVerifier
Unchanged(s) == ~s.force /\ cache[s.canonical] = s.body

-----------------------------------------------------------------------------
(* Retirement *)

\* Mutant: the URL to hold is read after the delete
RetireUnblocked_ReadsLate ==
    /\ rec' = None /\ gone' = Never /\ answers' = 0
    /\ hold' = [url |-> rec', released |-> FALSE]
    /\ retired' = rec /\ owner' = rec

\* delete_feed_with_event without blocks: the gone row goes with the record, and
\* a hold keeps the GUID for the URL it had
RetireUnblocked ==
    /\ rec' = None /\ gone' = Never /\ answers' = 0
    /\ hold' = [url |-> rec, released |-> FALSE]
    /\ retired' = rec /\ owner' = rec

-----------------------------------------------------------------------------
(* Ingest *)

Submit(s) ==
    /\ Cardinality(subs) < MaxSubs /\ ~s.verified
    /\ subs' = subs \cup {s}
    /\ UNCHANGED <<rec, others, cache, hold, blocks, gone, retired, answers, owner>>

\* The submission is rejected by a verifier or a limit, as a stale or conflicting
\* one, or its request fails: nothing is written here
Drop(s) ==
    /\ s \in subs
    /\ subs' = subs \ {s}
    /\ UNCHANGED <<rec, others, cache, hold, blocks, gone, retired, answers, owner>>

\* move_target: a body of another URL, or a redirect from the record's own
MayMove(s) ==
    rec # None /\ (rec \notin Own(s) \/ (s.source = rec /\ s.canonical # rec))

\* Read phase.  A move of the record forces the ingest of an unchanged body.
Verify(s) ==
    /\ s \in subs /\ ~s.verified /\ ~Blocked(s)
    /\ Unchanged(s) => MayMove(s)
    /\ subs' = (subs \ {s}) \cup {[s EXCEPT !.verified = TRUE]}
    /\ UNCHANGED <<rec, others, cache, hold, blocks, gone, retired, answers, owner>>

\* Read phase: the hash is the one of the cache.  No content is written.
NoChange(s) ==
    /\ s \in subs /\ ~s.verified /\ ~Blocked(s) /\ Unchanged(s)
    /\ subs' = subs \ {s}
    /\ UNCHANGED <<rec, others, cache, hold, blocks, gone, retired, answers, owner>>

\* Mutant: the ingest transaction leaves the hold
Apply_KeepsHold(s, url) ==
    /\ rec' = url /\ gone' = Never
    /\ answers' = 0 /\ owner' = None
    /\ cache' \in {cache, [cache EXCEPT ![s.canonical] = s.body]}
    /\ UNCHANGED <<blocks, retired, hold>>

\* Mutant: the ingest transaction leaves the gone answers
Apply_KeepsGone(s, url) ==
    /\ rec' = url /\ hold' = NoHold
    /\ answers' = 0 /\ owner' = None
    /\ cache' \in {cache, [cache EXCEPT ![s.canonical] = s.body]}
    /\ UNCHANGED <<blocks, retired, gone>>

\* ingest_transaction for the record at url: a body clears the gone answers and
\* the hold.  The crawl cache is written after it and may be lost in a crash.
Apply(s, url) ==
    /\ rec' = url /\ gone' = Never /\ hold' = NoHold
    /\ answers' = 0 /\ owner' = None
    /\ cache' \in {cache, [cache EXCEPT ![s.canonical] = s.body]}
    /\ UNCHANGED <<blocks, retired>>

\* An active hold of the GUID for another URL: retired_source_conflict
HeldElsewhere(s) == hold.url # None /\ ~hold.released /\ hold.url \notin Own(s)

\* classify_submission: a record of another GUID has a URL of the submission
Conflicts(s) == others \cap Own(s) # {}

\* Write phase, NewFeed arm: the body is admitted at its canonical URL
Admit(s) ==
    /\ s \in subs /\ s.verified /\ rec = None /\ ~Conflicts(s)
    /\ ~HeldElsewhere(s) /\ ~s.body.block
    /\ Apply(s, s.canonical)
    /\ subs' = subs \ {s} /\ UNCHANGED others

\* Write phase, GuidChange arm: the GUID replaces that of the other record.  One
\* transaction retires the other record, the next admits the body; hold and
\* podcast:block are not looked at.  The second may fail, or a crash come first.
Replace(s) ==
    /\ s \in subs /\ s.verified /\ rec = None
    /\ \E u \in others \cap Own(s) : others' = others \ {u}
    /\ \/ s.canonical \notin others' /\ Apply(s, s.canonical)
       \/ UNCHANGED <<rec, cache, hold, blocks, gone, retired, answers, owner>>
    /\ subs' = subs \ {s}

\* Write phase, a body of the record's source: it is applied, with a permanent
\* redirect at its new URL, or retires the record when it has podcast:block
Update(s) ==
    /\ s \in subs /\ s.verified /\ rec \in Own(s) /\ ~Conflicts(s)
    /\ subs' = subs \ {s} /\ UNCHANGED others
    /\ IF s.body.block
       THEN RetireUnblocked /\ UNCHANGED <<cache, blocks>>
       ELSE \E url \in {rec} \cup (IF s.source = rec THEN {s.canonical} ELSE {}) : Apply(s, url)

\* Write phase, a body of another URL that moves the record
Move(s) ==
    /\ s \in subs /\ s.verified /\ rec \notin Own(s) \cup {None} /\ ~Conflicts(s)
    /\ \E url \in Own(s) : Apply(s, url)
    /\ subs' = subs \ {s} /\ UNCHANGED others

-----------------------------------------------------------------------------
(* Records of other GUIDs *)

\* A record of another GUID is admitted at a URL, moves there, or leaves it
OtherRecord(u) ==
    /\ u # rec
    /\ others' = IF u \in others THEN others \ {u} ELSE others \cup {u}
    /\ UNCHANGED <<rec, cache, hold, blocks, gone, retired, subs, answers, owner>>

\* guid_change_transition: another GUID replaces this one at its URL, and is
\* admitted in a second transaction.  The retirement makes no hold.
Superseded ==
    /\ rec # None
    /\ rec' = None /\ gone' = Never /\ answers' = 0
    /\ retired' = None /\ owner' = None
    /\ others' \in {others} \cup {others \cup {u} : u \in Urls}
    /\ UNCHANGED <<cache, hold, blocks, subs>>

-----------------------------------------------------------------------------
(* Gone source *)

\* Mutant: each answer overwrites the time of the first
FirstAnswer_Latest(g) == 0

\* record_source_gone_answer keeps the time of the first answer
FirstAnswer(g) == IF g = Never THEN 0 ELSE g

\* handle_source_gone_report: a counted answer of the record's URL
GoneReport(u) ==
    /\ rec = u /\ u \notin blocks
    /\ IF gone = RetireAfter THEN RetireUnblocked
       ELSE /\ gone' = FirstAnswer(gone)
            /\ answers' = IF answers < 2 THEN answers + 1 ELSE answers
            /\ UNCHANGED <<rec, hold, retired, owner>>
    /\ UNCHANGED <<others, cache, blocks, subs>>

Tick ==
    /\ gone < RetireAfter
    /\ gone' = gone + 1
    /\ UNCHANGED <<rec, others, cache, hold, blocks, retired, subs, answers, owner>>

-----------------------------------------------------------------------------
(* Operator *)

\* DELETE /v1/feeds/{guid}: blocks the GUID and the URL, and then makes no hold
RetireBlocked ==
    /\ rec # None
    /\ rec' = None /\ gone' = Never /\ answers' = 0
    /\ blocks' = blocks \cup {Guid, rec}
    /\ retired' = rec /\ owner' = None
    /\ UNCHANGED <<others, cache, hold, subs>>

\* DELETE /v1/feeds/{guid}?block=false
RetireOnly ==
    /\ rec # None
    /\ RetireUnblocked
    /\ UNCHANGED <<others, cache, blocks, subs>>

CreateBlock(x) ==
    /\ x \notin blocks
    /\ blocks' = blocks \cup {x}
    /\ UNCHANGED <<rec, others, cache, hold, gone, retired, subs, answers, owner>>

DeleteBlock(x) ==
    /\ x \in blocks
    /\ blocks' = blocks \ {x}
    /\ UNCHANGED <<rec, others, cache, hold, gone, retired, subs, answers, owner>>

ReleaseHold ==
    /\ hold.url # None /\ ~hold.released
    /\ hold' = [hold EXCEPT !.released = TRUE] /\ owner' = None
    /\ UNCHANGED <<rec, others, cache, blocks, gone, retired, subs, answers>>

\* relocate_feed: the crawl cache and the gone answers stay as they are
Relocate(u) ==
    /\ rec # None /\ u \notin others
    /\ rec' = u
    /\ UNCHANGED <<others, cache, hold, blocks, gone, retired, subs, answers, owner>>

\* Mutant: a hold is filled in although one was released
FillHold_AfterRelease(bs) == rec = None /\ retired # None /\ Guid \notin bs

\* fill_retired_source_holds: a retired GUID without record, block or hold
FillHold(bs) == rec = None /\ retired # None /\ Guid \notin bs /\ hold.url = None

\* run_primary: seed the blocks, then fill the holds.  Requests under way are lost.
Restart ==
    /\ blocks' = blocks \cup Seeds
    /\ hold' = IF FillHold(blocks') THEN [url |-> retired, released |-> FALSE] ELSE hold
    /\ subs' = {}
    /\ UNCHANGED <<rec, others, cache, gone, retired, answers, owner>>

-----------------------------------------------------------------------------
Init ==
    /\ rec = None /\ others = {} /\ cache = [u \in Urls |-> None]
    /\ hold = NoHold /\ blocks = Seeds /\ gone = Never
    /\ retired = None /\ subs = {} /\ answers = 0 /\ owner = None

Ingest(s) == Drop(s) \/ Verify(s) \/ NoChange(s) \/ Admit(s) \/ Replace(s)
             \/ Update(s) \/ Move(s)

Operator == \/ RetireBlocked \/ RetireOnly \/ ReleaseHold
            \/ \E x \in Urls \cup {Guid} : CreateBlock(x) \/ DeleteBlock(x)
            \/ \E u \in Urls : Relocate(u)

Next == \/ \E s \in Submission : Submit(s)
        \/ \E s \in subs : Ingest(s)
        \/ \E u \in Urls : GoneReport(u)
        \/ \E u \in Urls : OtherRecord(u)
        \/ Superseded \/ Tick \/ Operator \/ Restart

Spec == Init /\ [][Next]_vars

\* The crawler keeps fetching the URL of a record, and time passes
FairSpec == Spec /\ WF_vars(\E u \in Urls : GoneReport(u)) /\ WF_vars(Tick)

-----------------------------------------------------------------------------
(* Properties *)

\* The types of the variables
TypeOK ==
    /\ rec \in Urls \cup {None} /\ others \subseteq Urls \ {rec}
    /\ cache \in [Urls -> Body \cup {None}]
    /\ hold \in [url : Urls \cup {None}, released : BOOLEAN]
    /\ hold.released => hold.url # None
    /\ blocks \in SUBSET (Urls \cup {Guid}) /\ gone \in 0..Never
    /\ retired \in Urls \cup {None} /\ subs \in SUBSET Submission
    /\ answers \in 0..2 /\ owner \in Urls \cup {None}

(* A record never has a hold, and gone answers never outlive their record, in   *)
(* any order of retirements, admissions, releases and restarts.                 *)
RowsMatchTheRecord ==
    /\ hold.url # None => rec = None
    /\ gone # Never => rec # None

(* A GUID that was retired without a block comes back through the URL it had    *)
(* when it was retired, until the operator releases it: not by a submission     *)
(* that was verified before the retirement, and not after a restart (ADR 0079:  *)
(* "A held GUID returns only through its source URL").  The one other way back  *)
(* is the GuidChange arm, which looks at no hold: the record of another GUID at *)
(* a URL of the submission goes in the same ingest.                             *)
HeldGuidReturnsThroughItsUrl ==
    [][owner # None /\ rec = None /\ rec' # None =>
         \E s \in subs \ subs' :
            owner \in Own(s) \/ \E u \in Own(s) : u \in others \ others']_vars

(* A hold the operator released stays released while the GUID is away: neither  *)
(* a restart nor another step takes it back (ADR 0079: "a start after a release *)
(* does not write the hold again").                                             *)
ReleaseLasts == [][(hold.released /\ rec' = None) => hold' = hold]_vars

(* One gone answer never retires a record: since the last body the node         *)
(* applied, an earlier answer was counted (ADR 0067: "One 404 or one 410 never  *)
(* retires a record").                                                          *)
OneAnswerNeverRetires ==
    [][\A u \in Urls : (GoneReport(u) /\ rec' = None) => answers >= 1]_vars

(* A source that is gone for good loses its record, when no body comes any more *)
(* and no URL is blocked: the count of answers cannot get stuck.                *)
GoneForGoodIsRetired ==
    <>[](subs = {} /\ blocks \cap Urls = {}) => []<>(rec = None)

\* The tables are well formed, and hold and gone rows match the record (db.rs
\* ingest_transaction, delete_feed_sql).
LifecycleInv == TypeOK /\ RowsMatchTheRecord
=============================================================================
