------------------------------ MODULE FeedMove ------------------------------
(***************************************************************************)
(* How one record of the primary moves between URLs (api.rs move_target,   *)
(* relocate_feed; db.rs write_feed_move and the functions below it).       *)
(*                                                                         *)
(* A crawler submits what a URL serves: the URL it started from, the URL   *)
(* the redirects led to, and the body there.  Of a body only the           *)
(* itunes:new-feed-url tag and the self link matter here.  A submission    *)
(* that is lost, rejected by a verifier or answered no_change writes       *)
(* nothing this module keeps, so it is a step that does not happen.        *)
(*                                                                         *)
(* Ingest writes the move in one transaction and the declarations of the   *)
(* body after it, statement by statement, under the same writer lock.      *)
(***************************************************************************)
EXTENDS Naturals, FiniteSets

CONSTANTS
    Urls,
    None,               \* no tag, no self link
    SelfLinks,          \* the self links a body may have
    Base, Limit, Reset, \* RETURN_WAIT_BASE_SECS, RETURN_WAIT_LIMIT_SECS, RETURN_COUNT_RESET_SECS
    FixedPages,         \* whether every URL keeps serving what it serves at the start
    Redirects,          \* whether a URL may redirect
    MaxCount,           \* bound on the count of returns; the wait is at its limit by then
    MaxRelocations, MaxCrashes

ASSUME MoveAssumption ==
    /\ None \notin Urls /\ SelfLinks \subseteq Urls \cup {None}
    /\ {Base, Limit, Reset, MaxCount} \subseteq Nat \ {0}
    /\ {MaxRelocations, MaxCrashes} \subseteq Nat
    /\ {FixedPages, Redirects} \subseteq BOOLEAN
    /\ Base <= Limit /\ Limit <= Reset /\ Base * 2^(MaxCount - 1) >= Limit

VARIABLES
    offers,         \* the submissions the URLs give rise to
    url,            \* feeds.feed_url of the record
    declared,       \* feeds.declared_new_feed_url and declared_self_url
    left,           \* feed_left_urls
    arrival,        \* feed_move_state.arrival_tag
    pending,        \* feed_move_state.arrival_pending
    count,          \* feed_move_state.return_count
    age,            \* time since last_return_at, at most Reset
    tail,           \* the ingest that has committed and still writes declarations
    relocations, crashes,
    visited,        \* history: the URLs the record has had
    recent,         \* history: the ages of the returns of the last Limit
    stated          \* history: the tags of the bodies applied since the record came here

recordVars == <<url, declared, left, arrival, pending, count, age>>
vars == <<offers, url, declared, left, arrival, pending, count, age, tail, relocations,
          crashes, visited, recent, stated>>

Body == [tag : Urls \cup {None}, self : SelfLinks]

\* permanent: there is a redirect and every hop of it is 301 or 308
Submission == {s \in [source : Urls, canonical : Urls, permanent : BOOLEAN, body : Body] :
                 s.permanent => s.source # s.canonical}

-----------------------------------------------------------------------------
(* What the URLs serve *)

\* What source serves under fixed pages and redirects
Offer(page, hop, source) ==
    [source |-> source, canonical |-> hop[source].to,
     permanent |-> hop[source].permanent, body |-> page[hop[source].to]]

Hops == {h \in [Urls -> [to : Urls, permanent : BOOLEAN]] : \A u \in Urls :
           /\ h[h[u].to].to = h[u].to
           /\ IF h[u].to = u THEN ~h[u].permanent ELSE Redirects}

Worlds ==
    IF FixedPages
    THEN {{Offer(page, hop, u) : u \in Urls} : page \in [Urls -> Body], hop \in Hops}
    ELSE {{s \in Submission : s.source = s.canonical \/ Redirects}}

-----------------------------------------------------------------------------
(* The decision *)

\* effective_return_count
EffectiveCount(c, a) == IF c > 0 /\ a < Reset THEN c ELSE 0

\* Mutant: the wait does not grow
WaitAfter_Flat(c) == Base

\* return_cooldown_end: the wait doubles with each return, up to Limit
WaitAfter(c) == IF Base * 2^(c - 1) < Limit THEN Base * 2^(c - 1) ELSE Limit
Waiting ==
    LET c == EffectiveCount(count, age) IN c >= 1 /\ age < WaitAfter(c)

Own(s) == {s.source, s.canonical}

\* The URL a trigger names: the stored tag before the stored self link
TriggerUrl(s) ==
    IF declared.tag \in Own(s) THEN declared.tag
    ELSE IF declared.self \in Own(s) THEN declared.self ELSE None

Stay == [moved |-> FALSE, to |-> url, return |-> FALSE]

\* Mutant: the URLs the record has left are not looked at
MirrorMove_NoHistory(s) ==
    IF TriggerUrl(s) = None THEN Stay
    ELSE [moved |-> TRUE, to |-> TriggerUrl(s), return |-> FALSE]

\* A body from a URL that is not the record's moves the record to the URL its
\* source named.  Back to a URL it left only by tag, when the body there has the
\* same tag, the tag is not the one the record arrived with, and no wait is on.
MirrorMove(s) ==
    LET to == TriggerUrl(s) IN
    IF to = None THEN Stay
    ELSE IF to \notin left THEN [moved |-> TRUE, to |-> to, return |-> FALSE]
    ELSE IF to = declared.tag /\ s.body.tag = to /\ arrival # to /\ ~Waiting
    THEN [moved |-> TRUE, to |-> to, return |-> TRUE]
    ELSE Stay

\* A permanent redirect from the record's own URL moves it, back only without a wait
RedirectMove(s) ==
    IF s.source = url /\ s.permanent /\ ~(s.canonical \in left /\ Waiting)
    THEN [moved |-> TRUE, to |-> s.canonical, return |-> s.canonical \in left]
    ELSE Stay

\* classify_submission for a record that exists
IsUpdate(s) == url \in Own(s)

\* move_target
Decision(s) == IF IsUpdate(s) THEN RedirectMove(s) ELSE MirrorMove(s)

-----------------------------------------------------------------------------
(* Actions *)

\* No other writer holds the connection
WriterFree == tail = {}

Bounded(c) == IF c > MaxCount THEN MaxCount ELSE c

\* Mutant: the URL the record comes to stays a left URL
MoveHistory_KeepsNew(d) == left' = left \cup {url}

\* write_feed_move: the old URL is left, the new one is not
MoveHistory(d) == left' = (left \cup {url}) \ {d.to}

\* Mutant: the arrival tag is not stored with the move
ArriveWith_Nothing(s) == arrival' = None /\ pending' = FALSE

\* write_feed_move: the tag of the body that moved the record
ArriveWith(s) == arrival' = s.body.tag /\ pending' = FALSE

\* next_return_values
CountReturn(d) ==
    IF d.return
    THEN /\ count' = Bounded(EffectiveCount(count, age) + 1)
         /\ age' = 0 /\ recent' = recent \cup {0}
    ELSE UNCHANGED <<count, age, recent>>

\* History: the first and the last tag the source has given since the record came
\* to it, and whether a tag between them was another one
Heard(h, tag) ==
    IF ~h.any THEN [any |-> TRUE, first |-> tag, last |-> tag, changed |-> FALSE]
    ELSE [h EXCEPT !.last = tag, !.changed = @ \/ tag # h.first]

Silence == [any |-> FALSE, first |-> None, last |-> None, changed |-> FALSE]

\* The write phase of handle_ingest_feed up to the commit of ingest_transaction.
\* A mirror body that does not move the record writes nothing here.
Ingest(s) ==
    /\ WriterFree /\ s \in offers
    /\ LET d == Decision(s) IN
       /\ IsUpdate(s) \/ d.moved
       /\ url' = d.to
       /\ tail' = tail \cup {[body |-> s.body, moved |-> d.moved]}
       /\ visited' = visited \cup {d.to}
       /\ stated' = Heard(IF d.moved THEN Silence ELSE stated, s.body.tag)
       /\ IF d.moved THEN MoveHistory(d) /\ ArriveWith(s) /\ CountReturn(d)
                     ELSE UNCHANGED <<left, arrival, pending, count, age, recent>>
    /\ UNCHANGED <<offers, declared, relocations, crashes>>

\* The first k statements after the commit: set_declared_self_url,
\* set_feed_move_declarations and, without a move, clear_arrival_tag_unless
Declare(t, k) ==
    /\ declared' = [self |-> IF k >= 1 THEN t.body.self ELSE declared.self,
                    tag |-> IF k >= 2 THEN t.body.tag ELSE declared.tag]
    /\ IF k >= 3 /\ ~t.moved
       THEN /\ arrival' = IF pending \/ arrival = t.body.tag THEN t.body.tag ELSE None
            /\ pending' = FALSE
       ELSE UNCHANGED <<arrival, pending>>
    /\ tail' = tail \ {t}

FinishIngest(t) ==
    /\ t \in tail
    /\ Declare(t, 3)
    /\ UNCHANGED <<offers, url, left, count, age, relocations, crashes, visited, recent, stated>>

\* The process ends, or a statement fails, before the last declaration is written
Crash(t) ==
    /\ t \in tail /\ crashes < MaxCrashes
    /\ crashes' = crashes + 1
    /\ \E k \in 0..2 : Declare(t, k)
    /\ UNCHANGED <<offers, url, left, count, age, relocations, visited, recent, stated>>

\* The operator gives the record a URL (handle_patch_feed, handle_resolve_copy)
Relocate(u) ==
    /\ WriterFree /\ relocations < MaxRelocations
    /\ relocations' = relocations + 1
    /\ url' = u
    /\ declared' = [tag |-> None, self |-> None]
    /\ left' = (left \cup {url}) \ {u}
    /\ arrival' = None /\ pending' = TRUE /\ count' = 0
    /\ visited' = visited \cup {u} /\ recent' = {} /\ stated' = Silence
    /\ UNCHANGED <<offers, age, tail, crashes>>

\* One unit of time
Tick ==
    /\ age < Reset
    /\ age' = age + 1
    /\ recent' = {a + 1 : a \in {r \in recent : r + 1 < Limit}}
    /\ UNCHANGED <<offers, url, declared, left, arrival, pending, count, tail, relocations,
                   crashes, visited, stated>>

\* A record that a NewFeed ingest has just made
Init ==
    /\ offers \in Worlds
    /\ \E s \in offers : /\ url = s.canonical /\ declared = s.body
                         /\ stated = Heard(Silence, s.body.tag)
    /\ left = {} /\ arrival = None /\ pending = FALSE /\ count = 0 /\ age = Reset
    /\ tail = {} /\ relocations = 0 /\ crashes = 0
    /\ visited = {url} /\ recent = {}

Next == \/ \E s \in offers : Ingest(s)
        \/ \E t \in tail : FinishIngest(t) \/ Crash(t)
        \/ \E u \in Urls : Relocate(u)
        \/ Tick

Spec == Init /\ [][Next]_vars

-----------------------------------------------------------------------------
(* Properties *)

\* The types of the variables; one ingest at a time holds the writer lock
TypeOK ==
    /\ offers \in SUBSET Submission /\ url \in Urls
    /\ declared \in [tag : Urls \cup {None}, self : Urls \cup {None}]
    /\ left \in SUBSET Urls /\ arrival \in Urls \cup {None} /\ pending \in BOOLEAN
    /\ count \in 0..MaxCount /\ age \in 0..Reset
    /\ tail \in SUBSET [body : Body, moved : BOOLEAN] /\ Cardinality(tail) <= 1
    /\ relocations \in 0..MaxRelocations /\ crashes \in 0..MaxCrashes
    /\ visited \in SUBSET Urls /\ recent \in SUBSET (0..(Limit - 1))
    /\ stated \in [any : BOOLEAN, first : Urls \cup {None}, last : Urls \cup {None},
                   changed : BOOLEAN]

(* The record's left URLs are exactly the URLs it has had before the current    *)
(* one, across moves, returns, relocations and crashes (db.rs 7344: "a move     *)
(* stores its history in the same transaction, so a crash cannot lose it").     *)
HistoryIsComplete == left = visited \ {url}

(* A body that is not from the record's source takes the record back to a URL   *)
(* it left only if the last body of the current source named that URL, and the  *)
(* source did not already name it in the body the record arrived with and ever  *)
(* since: a tag copied to a new host cannot take a record back (move_target,    *)
(* clear_arrival_tag_unless).  A crash before the declarations are written      *)
(* leaves older ones in force, as ADR 0083 accepts.                             *)
ReturnIsStatedAnew ==
    [][\A s \in offers :
         (Ingest(s) /\ ~IsUpdate(s) /\ url' \in left /\ crashes = 0)
         => /\ stated.any /\ stated.last = url'
            /\ stated.first # url' \/ stated.changed]_vars

\* How often a wait that starts at Base and doubles fits into Limit
ReturnsPerLimit == Cardinality({k \in 0..MaxCount : Base * (2^k - 1) < Limit})

(* Between operator relocations, no stretch of Limit holds more returns than    *)
(* the growing wait allows, whatever mix of tags and redirects asks for them,   *)
(* and however many other moves fall between (ADR 0083: "up to 8 returns in the *)
(* first week").                                                                *)
ReturnsAreRare == Cardinality(recent) <= ReturnsPerLimit

(* When no URL changes what it serves, the record stops moving: tags, self      *)
(* links and redirects that lead in a circle do not move it for ever (ADR 0083: *)
(* "A loop of tags stops").                                                     *)
LoopsStop == <>[][url' = url]_vars

\* The move state is well formed, with one ingest at a time, and the left URLs are
\* the URLs the record had (db.rs write_feed_move).
MoveInv == TypeOK /\ HistoryIsComplete
=============================================================================
