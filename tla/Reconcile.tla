----------------------------- MODULE Reconcile -----------------------------
(***************************************************************************)
(* Set-difference catch-up: POST /sync/reconcile (api.rs                   *)
(* handle_sync_reconcile) and a node that follows the pagination contract  *)
(* of sync.rs: ask with the events it has, apply what it is sent, go on    *)
(* with since_seq = next_seq until has_more is false.                      *)
(*                                                                         *)
(* Primary events are named by their seq.  A node may also hold events     *)
(* that never passed through this primary.  The handler reads the refs and *)
(* the events in two statements outside a transaction, and the primary may *)
(* commit between them.                                                    *)
(***************************************************************************)
EXTENDS Naturals, FiniteSets

CONSTANTS
    MaxRefs,        \* MAX_RECONCILE_REFS
    MaxEvents,      \* MAX_RECONCILE_EVENTS
    MaxHave,        \* MAX_RECONCILE_HAVE
    Foreign,        \* events the primary never had
    MaxLog          \* bound on the primary's log

\* The code has 50 000 refs over 10 000 events
ASSUME CapsAssumption ==
    /\ MaxLog \in Nat /\ MaxHave \in Nat /\ Foreign \cap Nat = {}
    /\ MaxEvents \in Nat \ {0} /\ MaxRefs \in Nat /\ MaxRefs > MaxEvents

VARIABLES
    len,        \* the primary's committed events are 1..len
    held,       \* the events the node holds
    pc,         \* the session of the node
    start,      \* since_seq of the first request
    since,      \* since_seq of the request
    have,       \* the events named in the request
    refs,       \* handler: the refs it read, and the log it read them from
    answer      \* the response

sessionVars == <<len, held, pc, start, since, have, refs, answer>>

NoRefs == [ids |-> {}, truncated |-> FALSE, len |-> 0]
NoAnswer == [send |-> {}, unknown |-> {}, more |-> FALSE, next |-> 0]

AtMost(m, n) == IF m < n THEN m ELSE n

-----------------------------------------------------------------------------
(* The environment *)

Commit ==
    /\ len < MaxLog
    /\ len' = len + 1
    /\ UNCHANGED <<held, pc, start, since, have, refs, answer>>

\* A push or a poll brings an event while the session is under way
Receive(n) ==
    /\ n \notin held
    /\ held' = held \cup {n}
    /\ UNCHANGED <<len, pc, start, since, have, refs, answer>>

-----------------------------------------------------------------------------
(* The session of the node *)

Begin(s) ==
    /\ pc = "idle"
    /\ pc' = "ready" /\ start' = s /\ since' = s
    /\ UNCHANGED <<len, held, have, refs, answer>>

Send ==
    /\ pc = "ready"
    /\ pc' = "sent" /\ have' = held
    /\ UNCHANGED <<len, held, start, since, refs, answer>>

\* The answer is lost: the node asks again
Lost ==
    /\ pc = "answered"
    /\ pc' = "ready" /\ answer' = NoAnswer
    /\ UNCHANGED <<len, held, start, since, have, refs>>

Apply ==
    /\ pc = "answered"
    /\ held' = held \cup answer.send
    /\ pc' = IF answer.more THEN "ready" ELSE "done"
    /\ since' = IF answer.more THEN answer.next ELSE since
    /\ UNCHANGED <<len, start, have, refs, answer>>

-----------------------------------------------------------------------------
(* The handler *)

\* More than MAX_RECONCILE_HAVE entries are answered 400
Refuse ==
    /\ pc = "sent" /\ Cardinality(have) > MaxHave
    /\ pc' = "refused"
    /\ UNCHANGED <<len, held, start, since, have, refs, answer>>

\* get_event_refs_since: seq >= since_seq, at most MaxRefs rows
ReadRefs ==
    /\ pc = "sent" /\ Cardinality(have) <= MaxHave
    /\ LET first == IF since = 0 THEN 1 ELSE since IN
       refs' = [ids |-> first..AtMost(len, first + MaxRefs - 1),
                truncated |-> len > first + MaxRefs - 1, len |-> len]
    /\ pc' = "reading"
    /\ UNCHANGED <<len, held, start, since, have, answer>>

\* Mutant: the page starts one event too late
EventsSince_Late(s) == (s + 2)..AtMost(len, s + 1 + MaxEvents)

\* get_events_since: seq > since_seq, at most MaxEvents rows
EventsSince(s) == (s + 1)..AtMost(len, s + MaxEvents)

\* Mutant: the smallest seq of the refs
NextSince_First(ids) == IF ids = {} THEN since ELSE CHOOSE n \in ids : \A m \in ids : n <= m

\* next_seq: the largest seq of the refs, since_seq without refs
NextSince(ids) == IF ids = {} THEN since ELSE CHOOSE n \in ids : \A m \in ids : m <= n

ReadEvents ==
    /\ pc = "reading"
    /\ LET events == EventsSince(since) IN
       answer' = [send |-> events \cap (refs.ids \ have), unknown |-> have \ refs.ids,
                  more |-> refs.truncated \/ Cardinality(events) >= MaxEvents,
                  next |-> NextSince(refs.ids)]
    /\ pc' = "answered"
    /\ UNCHANGED <<len, held, start, since, have, refs>>

-----------------------------------------------------------------------------
SessionInit ==
    /\ len = 0 /\ held \in SUBSET Foreign
    /\ pc = "idle" /\ start = 0 /\ since = 0 /\ have = {} /\ refs = NoRefs
    /\ answer = NoAnswer

Session == Send \/ Refuse \/ ReadRefs \/ ReadEvents \/ Apply

SessionNext ==
    \/ Commit \/ (\E n \in 1..len : Receive(n))
    \/ (\E s \in 0..len : Begin(s))
    \/ Session \/ Lost

SessionSpec == SessionInit /\ [][SessionNext]_sessionVars

\* The node keeps asking, the handler answers, and an answer that is sent again
\* and again arrives in the end
FairSessions == SessionSpec /\ WF_sessionVars(Session) /\ SF_sessionVars(Apply)

-----------------------------------------------------------------------------
(* Properties *)

Ids == Foreign \cup 1..MaxLog

\* The types of the variables; no cursor the node is given is past the log
SessionTypeOK ==
    /\ len \in 0..MaxLog /\ held \in SUBSET Ids
    /\ pc \in {"idle", "ready", "sent", "reading", "answered", "done", "refused"}
    /\ start \in 0..len /\ since \in 0..len /\ have \in SUBSET held
    /\ refs \in [ids : SUBSET (1..len), truncated : BOOLEAN, len : 0..len]
    /\ answer \in [send : SUBSET (1..len), unknown : SUBSET Ids,
                   more : BOOLEAN, next : 0..len]

(* A session that began ends, although the primary commits and answers get lost *)
(* on the way: a page moves since_seq forward, or events were committed between *)
(* its reads (sync.rs: "callers should loop calling reconcile ... until         *)
(* has_more is false").                                                         *)
SessionEnds == (pc = "ready") ~> (pc \in {"done", "refused"})

(* Once a session is done the node holds every event of the first MaxEvents     *)
(* after the point it asked from that were committed when its last page was     *)
(* read, whatever it held, received or lost on the way, and whatever was        *)
(* committed between the two reads of the handler.                              *)
FirstPageIsComplete ==
    pc = "done" => (start + 1)..AtMost(refs.len, start + MaxEvents) \subseteq held

\* A session is well formed, with no cursor past the log, and its first page is
\* complete (api.rs handle_sync_reconcile).
ReconcileInv == SessionTypeOK /\ FirstPageIsComplete
=============================================================================
