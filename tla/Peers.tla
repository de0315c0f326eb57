------------------------------- MODULE Peers -------------------------------
(***************************************************************************)
(* The push peers of the primary: registration (api.rs                     *)
(* handle_sync_register), the in-memory subscriber cache, the delivery     *)
(* task of each peer and batch (fan_out_push_inner), the failure count in  *)
(* the peer_nodes table and the eviction it leads to (handle_push_failure),*)
(* and the restart of the primary, which seeds the cache from the table.   *)
(*                                                                         *)
(* The table is written under the writer lock, the cache under its own     *)
(* RwLock; delivery tasks and registrations interleave between the two.    *)
(***************************************************************************)
EXTENDS Naturals, FiniteSets

CONSTANTS
    Nodes,          \* community nodes (their public keys)
    Urls,           \* push URLs a node may announce
    None,           \* no row, no entry
    Threshold,      \* MAX_PEER_FAILURES = PUSH_EVICTION_THRESHOLD
    Attempts,       \* PUSH_MAX_ATTEMPTS
    Slots,          \* MAX_CONCURRENT_PUSHES
    StoreErrors,    \* whether a statement on the peer_nodes table may fail
    MaxBatches,     \* bound on the fan-outs
    MaxStarts,      \* bound on the starts of the nodes
    MaxRestarts     \* bound on the restarts of the primary

ASSUME PeersAssumption ==
    /\ None \notin Urls
    /\ {Threshold, Attempts, Slots} \subseteq Nat \ {0}
    /\ {MaxBatches, MaxStarts, MaxRestarts} \subseteq Nat
    /\ StoreErrors \in BOOLEAN

VARIABLES
    table,      \* peer_nodes: the stored push URL of a node, None without a row
    failures,   \* peer_nodes.consecutive_failures
    cache,      \* push_subscribers: the URL the fan-out uses, None when absent
    regs,       \* registrations under way on the primary
    starts,     \* starts of nodes so far (a node registers once per start)
    batches,    \* fan-outs so far
    task,       \* the delivery of each batch to each node
    blame,      \* history: the deliveries counted as failed since the last reset
    missed,     \* history: nodes whose spent count could not be read back
    reboots     \* restarts of the primary

vars == <<table, failures, cache, regs, starts, batches, task, blame, missed, reboots>>

Batches == 1..MaxBatches
Idle == [stage |-> "none", attempt |-> 0]

-----------------------------------------------------------------------------
(* Registration *)

\* register_with_primary, called once when the node starts.  The request passes
\* the token, skew, signature and ownership checks or is refused; the node
\* ignores the outcome.
NodeStart(n, u) ==
    /\ starts < MaxStarts
    /\ starts' = starts + 1
    /\ \/ regs' = regs \cup {[node |-> n, start |-> starts, url |-> u, stored |-> FALSE]}
       \/ regs' = regs
    /\ UNCHANGED <<table, failures, cache, batches, task, blame, missed, reboots>>

\* upsert_peer_node and reset_peer_failures, one write task
StoreRegistration(r) ==
    /\ r \in regs /\ ~r.stored
    /\ table' = [table EXCEPT ![r.node] = r.url]
    /\ failures' = [failures EXCEPT ![r.node] = 0]
    /\ blame' = [blame EXCEPT ![r.node] = {}] /\ missed' = missed \ {r.node}
    /\ regs' = (regs \ {r}) \cup {[r EXCEPT !.stored = TRUE]}
    /\ UNCHANGED <<cache, starts, batches, task, reboots>>

\* The cache entry follows in a step of its own
CacheRegistration(r) ==
    /\ r \in regs /\ r.stored
    /\ cache' = [cache EXCEPT ![r.node] = r.url]
    /\ regs' = regs \ {r}
    /\ UNCHANGED <<table, failures, starts, batches, task, blame, missed, reboots>>

\* Mutant: the cache entry is made although the write failed
FailRegistration_Caches(r) ==
    /\ r \in regs /\ ~r.stored
    /\ regs' = regs \ {r}
    /\ cache' = [cache EXCEPT ![r.node] = r.url]
    /\ UNCHANGED <<table, failures, starts, batches, task, blame, missed, reboots>>

\* The write task fails at its first or its second statement, which are not one
\* transaction: the handler answers 500 and the cache is left alone
FailRegistration(r) ==
    /\ StoreErrors /\ r \in regs /\ ~r.stored
    /\ regs' = regs \ {r}
    /\ table' \in {table, [table EXCEPT ![r.node] = r.url]}
    /\ UNCHANGED <<failures, cache, starts, batches, task, blame, missed, reboots>>

-----------------------------------------------------------------------------
(* Fan-out *)

\* A commit starts one fan-out over a snapshot of the cache
FanOut ==
    /\ batches < MaxBatches
    /\ batches' = batches + 1
    /\ task' = [task EXCEPT ![batches + 1] =
                  [n \in Nodes |-> IF cache[n] # None
                                   THEN [stage |-> "queued", attempt |-> 0] ELSE Idle]]
    /\ UNCHANGED <<table, failures, cache, regs, starts, blame, missed, reboots>>

\* Mutant: a finished delivery keeps its slot
Busy_NeverReleased(b) == {n \in Nodes : task[b][n].stage \notin {"none", "queued"}}

\* The deliveries of a batch that hold a slot
Busy(b) == {n \in Nodes : task[b][n].stage \in {"trying", "rejected", "failed", "succeeded"}}

\* for_each_concurrent runs at most Slots deliveries of a batch; a push URL that
\* is no longer safe is skipped without being counted
StartDelivery(b, n) ==
    /\ task[b][n].stage = "queued" /\ Cardinality(Busy(b)) < Slots
    /\ \E stage \in {"trying", "done"} : task' = [task EXCEPT ![b][n].stage = stage]
    /\ UNCHANGED <<table, failures, cache, regs, starts, batches, blame, missed, reboots>>

\* One HTTP attempt: a 2xx answer ends the loop, with or without rejected events;
\* anything else is tried again until the attempts are used up
Attempt(b, n) ==
    /\ task[b][n].stage = "trying"
    /\ LET k == task[b][n].attempt + 1 IN
       \E stage \in {"succeeded", "rejected", IF k < Attempts THEN "trying" ELSE "failed"} :
          task' = [task EXCEPT ![b][n] = [stage |-> stage, attempt |-> k]]
    /\ UNCHANGED <<table, failures, cache, regs, starts, batches, blame, missed, reboots>>

\* record_push_success updates the row if there is one; a failed update is logged
RecordSuccess(b, n) ==
    /\ task[b][n].stage = "succeeded"
    /\ task' = [task EXCEPT ![b][n].stage = "done"]
    /\ \/ /\ failures' = [failures EXCEPT ![n] = 0]
          /\ blame' = [blame EXCEPT ![n] = {}] /\ missed' = missed \ {n}
       \/ StoreErrors /\ UNCHANGED <<failures, blame, missed>>
    /\ UNCHANGED <<table, cache, regs, starts, batches, reboots>>

\* increment_peer_failures: the count of the node's row, 0 without one
Count(n) == IF table[n] = None THEN 0 ELSE failures[n] + 1

WriteCount(b, n) ==
    /\ failures' = [failures EXCEPT ![n] = Count(n)]
    /\ blame' = IF table[n] = None THEN blame ELSE [blame EXCEPT ![n] = @ \cup {b}]

\* Mutant: a node is evicted one failure too early
Evict_Early(n) ==
    /\ cache' = IF Count(n) >= Threshold - 1 THEN [cache EXCEPT ![n] = None] ELSE cache
    /\ missed' = missed \ {n}

\* Mutant: a node is evicted one failure too late
Evict_Late(n) ==
    /\ cache' = IF Count(n) > Threshold THEN [cache EXCEPT ![n] = None] ELSE cache
    /\ missed' = missed \ {n}

\* The count is read back and compared with PUSH_EVICTION_THRESHOLD
Evict(n) ==
    /\ cache' = IF Count(n) >= Threshold THEN [cache EXCEPT ![n] = None] ELSE cache
    /\ missed' = missed \ {n}

\* The SELECT fails after the count was written: unwrap_or(0) evicts nobody
MissCount(n) ==
    /\ missed' = IF Count(n) >= Threshold THEN missed \cup {n} ELSE missed
    /\ UNCHANGED cache

\* handle_push_failure, under the writer lock: count, read the count back in a
\* second statement, evict.  A count that cannot be written ends it.
CountFailure(b, n) ==
    /\ \/ WriteCount(b, n) /\ Evict(n)
       \/ StoreErrors /\ WriteCount(b, n) /\ MissCount(n)
       \/ StoreErrors /\ UNCHANGED <<failures, blame, missed, cache>>
    /\ UNCHANGED <<table, regs, starts, batches, reboots>>

\* check_push_response_rejections counts a failure and reports the rejections,
\* which leaves the delivery without success ...
CountRejection(b, n) ==
    /\ task[b][n].stage = "rejected"
    /\ task' = [task EXCEPT ![b][n].stage = "failed"]
    /\ CountFailure(b, n)

\* ... and a delivery without success is counted at its end
CountFailed(b, n) ==
    /\ task[b][n].stage = "failed"
    /\ task' = [task EXCEPT ![b][n].stage = "done"]
    /\ CountFailure(b, n)

\* push_subscribers_at_start: every row under the threshold, an empty cache when
\* the table cannot be read.  Deliveries and registrations under way are lost.
PrimaryRestart ==
    /\ reboots < MaxRestarts
    /\ reboots' = reboots + 1
    /\ \/ cache' = [n \in Nodes |-> IF failures[n] < Threshold THEN table[n] ELSE None]
       \/ StoreErrors /\ cache' = [n \in Nodes |-> None]
    /\ regs' = {} /\ missed' = {}
    /\ task' = [b \in Batches |-> [n \in Nodes |->
                  IF b <= batches THEN [task[b][n] EXCEPT !.stage = "done"] ELSE Idle]]
    /\ UNCHANGED <<table, failures, starts, batches, blame>>

-----------------------------------------------------------------------------
Init ==
    /\ table = [n \in Nodes |-> None] /\ failures = [n \in Nodes |-> 0]
    /\ cache = [n \in Nodes |-> None]
    /\ regs = {} /\ starts = 0
    /\ batches = 0 /\ task = [b \in Batches |-> [n \in Nodes |-> Idle]]
    /\ blame = [n \in Nodes |-> {}] /\ missed = {} /\ reboots = 0

Register(r) == StoreRegistration(r) \/ CacheRegistration(r)

Deliver(b, n) == \/ StartDelivery(b, n) \/ Attempt(b, n) \/ RecordSuccess(b, n)
                 \/ CountRejection(b, n) \/ CountFailed(b, n)

Next == \/ \E n \in Nodes, u \in Urls : NodeStart(n, u)
        \/ \E r \in regs : Register(r) \/ FailRegistration(r)
        \/ FanOut
        \/ \E b \in Batches, n \in Nodes : Deliver(b, n)
        \/ PrimaryRestart

Spec == Init /\ [][Next]_vars

\* The runtime runs every spawned task, and each HTTP attempt has a timeout
FairSpec == /\ Spec
            /\ WF_vars(\E r \in regs : Register(r))
            /\ \A b \in Batches, n \in Nodes : WF_vars(Deliver(b, n))

-----------------------------------------------------------------------------
(* Properties *)

Stages == {"none", "queued", "trying", "rejected", "failed", "succeeded", "done"}

\* The types of the variables; a row has at most two counts per counted delivery
TypeOK ==
    /\ table \in [Nodes -> Urls \cup {None}] /\ cache \in [Nodes -> Urls \cup {None}]
    /\ failures \in [Nodes -> 0..(2 * MaxBatches)]
    /\ regs \subseteq [node : Nodes, start : 0..MaxStarts, url : Urls, stored : BOOLEAN]
    /\ starts \in 0..MaxStarts /\ batches \in 0..MaxBatches
    /\ task \in [Batches -> [Nodes -> [stage : Stages, attempt : 0..Attempts]]]
    /\ blame \in [Nodes -> SUBSET Batches] /\ missed \subseteq Nodes
    /\ reboots \in 0..MaxRestarts

(* The primary pushes only to nodes that have a row: a node enters the cache    *)
(* after its registration is stored, and a failed write leaves it out.          *)
PushedNodesHaveRows == \A n \in Nodes : cache[n] # None => table[n] # None

(* While the primary runs, a node leaves the cache only for failures that       *)
(* really happened since its last recorded success or registration: at least    *)
(* half the threshold of deliveries failed (handle_push_failure counts a        *)
(* delivery with rejected events twice).                                        *)
EvictionIsBacked ==
    [][\A n \in Nodes : (cache[n] # None /\ cache'[n] = None /\ reboots' = reboots)
                        => 2 * Cardinality(blame'[n]) >= Threshold]_vars

(* A node with a spent failure count is not brought back into the cache, nor    *)
(* kept in it by a further failure: the failure that reaches the threshold      *)
(* evicts and a restart leaves the node out.  Two things in the code undo it: a *)
(* registration stored before the count was spent, whose cache entry comes      *)
(* after the eviction, and a count that was written and could not be read back, *)
(* until the next one that is (handle_push_failure, get_push_peers,             *)
(* handle_sync_register).                                                       *)
SpentNodesAreEvicted ==
    [][\A n \in Nodes :
         (/\ failures'[n] >= Threshold /\ cache'[n] # None
          /\ failures'[n] # failures[n] \/ cache'[n] # cache[n])
         => \/ \E r \in regs \ regs' : r.node = n /\ r.stored
            \/ n \in missed' /\ cache'[n] = cache[n]]_vars

(* Every delivery ends, whatever the peer answers: a slow or dead peer holds    *)
(* one slot for its attempts only (ADR 0016: "a slow peer cannot block other    *)
(* peers").                                                                     *)
EveryDeliveryEnds ==
    \A b \in Batches, n \in Nodes : (task[b][n].stage = "queued") ~> (task[b][n].stage = "done")

\* The state of the primary's push side is well formed, with no delivery past its
\* attempts, and whoever it pushes to has a peer_nodes row (api.rs
\* handle_sync_register, fan_out_push).
PeersInv == TypeOK /\ PushedNodesHaveRows
=============================================================================
