----------------------------- MODULE SyncProofs -----------------------------
(***************************************************************************)
(* Machine-checked proofs about the two sides of the sync service of the   *)
(* primary: about Peers, for every number of nodes, batches, slots and     *)
(* attempts and every threshold, and about Reconcile, for every length of  *)
(* the log and every caps with more refs than events.                      *)
(***************************************************************************)
EXTENDS Peers, Reconcile, FiniteSetTheorems, TLAPS

-----------------------------------------------------------------------------
(* Peers: the inductive invariant *)

\* A delivery that still tries has an attempt left
TryingHasAttempts ==
    \A b \in Batches, n \in Nodes :
        task[b][n].stage \in {"queued", "trying"} => task[b][n].attempt < Attempts

\* A stored registration has its row, so that its cache entry will have one
StoredHaveRows == \A r \in regs : r.stored => table[r.node] # None

\* A batch that was not fanned out has no deliveries
LaterBatchesIdle == \A b \in Batches, n \in Nodes : b > batches => task[b][n] = Idle

\* A counted delivery is at its last count or over
BlamedAreEnding ==
    \A n \in Nodes : \A b \in blame[n] : task[b][n].stage \in {"failed", "done"}

\* The counted deliveries of a node that are over: none of them counts again
Settled(n) == {b \in blame[n] : task[b][n].stage = "done"}

\* The failure count of a row is made of one count per counted delivery, and a
\* second one only for those that are over
CountsAreBacked ==
    \A n \in Nodes : failures[n] <= Cardinality(blame[n]) + Cardinality(Settled(n))

PeersIInv ==
    /\ TypeOK /\ PushedNodesHaveRows /\ TryingHasAttempts /\ StoredHaveRows
    /\ LaterBatchesIdle /\ BlamedAreEnding /\ CountsAreBacked

-----------------------------------------------------------------------------
(* The operators *)

\* A set of batches is finite and has at most MaxBatches members
LEMMA BatchSets ==
    ASSUME NEW S \in SUBSET Batches
    PROVE  IsFiniteSet(S) /\ Cardinality(S) \in Nat /\ Cardinality(S) <= MaxBatches
<1>1. MaxBatches \in Nat
  BY PeersAssumption
<1>2. IsFiniteSet(Batches) /\ Cardinality(Batches) = MaxBatches
  BY <1>1, FS_Interval DEF Batches
<1> QED BY <1>1, <1>2, FS_Subset, FS_CardinalityType

\* More counted deliveries, or more of them over, back at least as many counts
LEMMA MoreBacking ==
    ASSUME NEW S \in SUBSET Batches, NEW T \in SUBSET S
    PROVE  Cardinality(T) <= Cardinality(S)
BY BatchSets, FS_Subset

\* One delivery more is one more
LEMMA OneMore ==
    ASSUME NEW S \in SUBSET Batches, NEW b \in Batches, b \notin S
    PROVE  Cardinality(S \cup {b}) = Cardinality(S) + 1
BY BatchSets, FS_AddElement

\* A delivery moves to another stage and nothing else of the tasks changes
LEMMA StageMoves ==
    ASSUME TypeOK, NEW b \in Batches, NEW n \in Nodes, NEW stage \in Stages,
           task' = [task EXCEPT ![b][n].stage = stage]
    PROVE  /\ task' \in [Batches -> [Nodes -> [stage : Stages, attempt : 0..Attempts]]]
           /\ \A c \in Batches, m \in Nodes :
                 /\ task'[c][m].attempt = task[c][m].attempt
                 /\ task'[c][m].stage = IF c = b /\ m = n THEN stage ELSE task[c][m].stage
                 /\ (c # b \/ m # n) => task'[c][m] = task[c][m]
<1>1. task \in [Batches -> [Nodes -> [stage : Stages, attempt : 0..Attempts]]]
  BY DEF TypeOK
<1> QED BY <1>1

-----------------------------------------------------------------------------
(* Each action keeps the inductive invariant *)

\* Counts that are backed stay within two per batch
LEMMA BackedIsBounded ==
    ASSUME NEW f \in Nat, NEW S \in SUBSET Batches, NEW T \in SUBSET S,
           f <= Cardinality(S) + Cardinality(T)
    PROVE  f \in 0..(2 * MaxBatches)
<1>1. MaxBatches \in Nat /\ Cardinality(S) \in Nat /\ Cardinality(T) \in Nat
  BY BatchSets, PeersAssumption
<1>2. Cardinality(S) <= MaxBatches /\ Cardinality(T) <= MaxBatches
  BY BatchSets
<1> QED BY <1>1, <1>2

\* A node starts, or its registration is stored, cached or refused
LEMMA RegistrationStep ==
    ASSUME PeersIInv,
           \/ \E n \in Nodes, u \in Urls : NodeStart(n, u)
           \/ \E r \in regs : Register(r) \/ FailRegistration(r)
    PROVE  PeersIInv'
<1> USE DEF PeersIInv
<1>0. MaxStarts \in Nat /\ MaxBatches \in Nat /\ None \notin Urls
  BY PeersAssumption
<1>1. ASSUME NEW n \in Nodes, NEW u \in Urls, NodeStart(n, u) PROVE PeersIInv'
  <2>0. regs' \subseteq [node : Nodes, start : 0..MaxStarts, url : Urls, stored : BOOLEAN]
    <3>1. [node |-> n, start |-> starts, url |-> u, stored |-> FALSE]
             \in [node : Nodes, start : 0..MaxStarts, url : Urls, stored : BOOLEAN]
      BY DEF TypeOK
    <3> QED BY <1>1, <3>1 DEF NodeStart, TypeOK
  <2>1. TypeOK'
    BY <1>0, <1>1, <2>0 DEF NodeStart, TypeOK
  <2>2. StoredHaveRows'
    BY <1>1 DEF NodeStart, StoredHaveRows
  <2> QED BY <1>1, <2>1, <2>2 DEF NodeStart, PushedNodesHaveRows, TryingHasAttempts,
             LaterBatchesIdle, BlamedAreEnding, CountsAreBacked, Settled
<1>2. ASSUME NEW r \in regs, StoreRegistration(r) PROVE PeersIInv'
  <2>1. r \in [node : Nodes, start : 0..MaxStarts, url : Urls, stored : BOOLEAN]
    BY DEF TypeOK
  <2>2. TypeOK'
    <3>1. [r EXCEPT !.stored = TRUE]
             \in [node : Nodes, start : 0..MaxStarts, url : Urls, stored : BOOLEAN]
      BY <2>1
    <3>2. regs' \subseteq [node : Nodes, start : 0..MaxStarts, url : Urls, stored : BOOLEAN]
      BY <1>2, <3>1 DEF StoreRegistration, TypeOK
    <3>3. failures' \in [Nodes -> 0..(2 * MaxBatches)]
      BY <1>0, <1>2, <2>1 DEF StoreRegistration, TypeOK
    <3> QED BY <1>2, <2>1, <3>2, <3>3 DEF StoreRegistration, TypeOK
  <2>3. PushedNodesHaveRows' /\ StoredHaveRows'
    BY <1>0, <1>2, <2>1 DEF StoreRegistration, TypeOK, PushedNodesHaveRows, StoredHaveRows
  <2>4. BlamedAreEnding'
    BY <1>2, <2>1 DEF StoreRegistration, TypeOK, BlamedAreEnding
  <2>5. CountsAreBacked'
    <3> SUFFICES ASSUME NEW n \in Nodes
                 PROVE  failures'[n] <= Cardinality(blame'[n]) + Cardinality(Settled(n)')
      BY DEF CountsAreBacked
    <3>1. CASE n = r.node
      <4>1. failures'[n] = 0 /\ blame'[n] \in SUBSET Batches
            /\ Settled(n)' \in SUBSET Batches
        BY <1>2, <2>1, <3>1 DEF StoreRegistration, TypeOK, Settled
      <4> QED BY <4>1, BatchSets
    <3>2. CASE n # r.node
      <4>1. failures'[n] = failures[n] /\ blame'[n] = blame[n] /\ Settled(n)' = Settled(n)
        BY <1>2, <2>1, <3>2 DEF StoreRegistration, TypeOK, Settled
      <4> QED BY <4>1 DEF CountsAreBacked
    <3> QED BY <3>1, <3>2
  <2> QED BY <1>2, <2>2, <2>3, <2>4, <2>5 DEF StoreRegistration, TryingHasAttempts,
             LaterBatchesIdle
<1>3. ASSUME NEW r \in regs, CacheRegistration(r) PROVE PeersIInv'
  <2>1. r \in [node : Nodes, start : 0..MaxStarts, url : Urls, stored : BOOLEAN]
    BY DEF TypeOK
  <2>2. TypeOK' /\ StoredHaveRows'
    BY <1>3, <2>1 DEF CacheRegistration, TypeOK, StoredHaveRows
  <2>3. PushedNodesHaveRows'
    BY <1>3, <2>1 DEF CacheRegistration, TypeOK, PushedNodesHaveRows, StoredHaveRows
  <2> QED BY <1>3, <2>2, <2>3 DEF CacheRegistration, TryingHasAttempts, LaterBatchesIdle,
             BlamedAreEnding, CountsAreBacked, Settled
<1>4. ASSUME NEW r \in regs, FailRegistration(r) PROVE PeersIInv'
  <2>1. r \in [node : Nodes, start : 0..MaxStarts, url : Urls, stored : BOOLEAN]
    BY DEF TypeOK
  <2>2. /\ table' \in [Nodes -> Urls \cup {None}]
        /\ \A n \in Nodes : table[n] # None => table'[n] # None
    BY <1>0, <1>4, <2>1 DEF FailRegistration, TypeOK
  <2>3. TypeOK'
    BY <1>4, <2>2 DEF FailRegistration, TypeOK
  <2>4. PushedNodesHaveRows' /\ StoredHaveRows'
    BY <1>4, <2>2 DEF FailRegistration, TypeOK, PushedNodesHaveRows, StoredHaveRows
  <2> QED BY <1>4, <2>3, <2>4 DEF FailRegistration, TryingHasAttempts, LaterBatchesIdle,
             BlamedAreEnding, CountsAreBacked, Settled
<1> QED BY <1>1, <1>2, <1>3, <1>4 DEF Register

\* A commit fans out: a batch nobody was blamed for gets its deliveries
LEMMA FanOutStep ==
    ASSUME PeersIInv, FanOut
    PROVE  PeersIInv'
<1> USE DEF PeersIInv
<1>0. MaxBatches \in Nat /\ Attempts \in Nat \ {0} /\ batches \in 0..MaxBatches
  BY PeersAssumption DEF TypeOK
<1>1. batches + 1 \in Batches /\ batches' = batches + 1
  BY <1>0 DEF FanOut, Batches
<1>2. /\ task' \in [Batches -> [Nodes -> [stage : Stages, attempt : 0..Attempts]]]
      /\ \A b \in Batches, n \in Nodes :
            IF b = batches + 1 THEN task'[b][n] \in {Idle, [stage |-> "queued", attempt |-> 0]}
            ELSE task'[b][n] = task[b][n]
  <2>1. task \in [Batches -> [Nodes -> [stage : Stages, attempt : 0..Attempts]]]
    BY DEF TypeOK
  <2>2. [n \in Nodes |-> IF cache[n] # None THEN [stage |-> "queued", attempt |-> 0] ELSE Idle]
           \in [Nodes -> [stage : Stages, attempt : 0..Attempts]]
    BY <1>0 DEF Idle, Stages
  <2> QED BY <1>1, <2>1, <2>2 DEF FanOut
<1>3. TypeOK'
  BY <1>0, <1>1, <1>2 DEF FanOut, TypeOK
<1>4. TryingHasAttempts'
  BY <1>0, <1>2 DEF TryingHasAttempts, Idle
<1>5. LaterBatchesIdle'
  BY <1>0, <1>1, <1>2 DEF LaterBatchesIdle, Batches
<1>6. \A n \in Nodes : batches + 1 \notin blame[n]
  BY <1>0, <1>1 DEF BlamedAreEnding, LaterBatchesIdle, Idle
<1>7. \A n \in Nodes : \A b \in blame[n] : b \in Batches /\ task'[b][n] = task[b][n]
  BY <1>2, <1>6 DEF TypeOK
<1>8. BlamedAreEnding'
  BY <1>7 DEF BlamedAreEnding, FanOut
<1>9. CountsAreBacked'
  <2>1. \A n \in Nodes : Settled(n)' = Settled(n)
    BY <1>7 DEF Settled, FanOut
  <2> QED BY <2>1 DEF CountsAreBacked, FanOut
<1> QED BY <1>3, <1>4, <1>5, <1>8, <1>9 DEF FanOut, PushedNodesHaveRows, StoredHaveRows

\* A delivery that is not counted moves on without touching any count
LEMMA UncountedMove ==
    ASSUME PeersIInv, NEW b \in Batches, NEW n \in Nodes,
           task[b][n].stage \notin {"none", "failed", "done"},
           task' \in [Batches -> [Nodes -> [stage : Stages, attempt : 0..Attempts]]],
           task'[b][n].stage \in {"queued", "trying"} => task'[b][n].attempt < Attempts,
           \A c \in Batches, m \in Nodes : (c # b \/ m # n) => task'[c][m] = task[c][m],
           UNCHANGED batches
    PROVE  /\ TryingHasAttempts' /\ LaterBatchesIdle'
           /\ \A m \in Nodes : \A c \in blame[m] : c \in Batches /\ task'[c][m] = task[c][m]
<1> USE DEF PeersIInv
<1>1. TryingHasAttempts'
  BY DEF TryingHasAttempts
<1>2. LaterBatchesIdle'
  BY DEF LaterBatchesIdle, Idle
<1>3. b \notin blame[n]
  BY DEF BlamedAreEnding
<1> QED BY <1>1, <1>2, <1>3 DEF TypeOK

\* A delivery takes a slot, makes an attempt or ends well
LEMMA DeliveryStep ==
    ASSUME PeersIInv, NEW b \in Batches, NEW n \in Nodes,
           StartDelivery(b, n) \/ Attempt(b, n) \/ RecordSuccess(b, n)
    PROVE  PeersIInv'
<1> USE DEF PeersIInv
<1>0. Attempts \in Nat \ {0} /\ MaxBatches \in Nat
  BY PeersAssumption
<1>1. /\ task[b][n].stage \in {"queued", "trying", "succeeded"}
      /\ task' \in [Batches -> [Nodes -> [stage : Stages, attempt : 0..Attempts]]]
      /\ task'[b][n].stage \in {"queued", "trying"} => task'[b][n].attempt < Attempts
      /\ \A c \in Batches, m \in Nodes : (c # b \/ m # n) => task'[c][m] = task[c][m]
  <2>1. CASE StartDelivery(b, n)
    <3>1. PICK stage \in {"trying", "done"} : task' = [task EXCEPT ![b][n].stage = stage]
      BY <2>1 DEF StartDelivery
    <3>2. stage \in Stages
      BY DEF Stages
    <3>3. /\ task' \in [Batches -> [Nodes -> [stage : Stages, attempt : 0..Attempts]]]
          /\ \A c \in Batches, m \in Nodes :
                /\ task'[c][m].attempt = task[c][m].attempt
                /\ task'[c][m].stage = IF c = b /\ m = n THEN stage ELSE task[c][m].stage
                /\ (c # b \/ m # n) => task'[c][m] = task[c][m]
      BY <3>1, <3>2, StageMoves
    <3>4. task[b][n].stage = "queued" /\ task[b][n].attempt < Attempts
      BY <2>1 DEF StartDelivery, TryingHasAttempts
    <3> QED BY <3>3, <3>4
  <2>2. CASE Attempt(b, n)
    <3> DEFINE k == task[b][n].attempt + 1
    <3>1. PICK stage \in {"succeeded", "rejected", IF k < Attempts THEN "trying" ELSE "failed"} :
             task' = [task EXCEPT ![b][n] = [stage |-> stage, attempt |-> k]]
      BY <2>2 DEF Attempt
    <3>2. task \in [Batches -> [Nodes -> [stage : Stages, attempt : 0..Attempts]]]
          /\ task[b][n].stage = "trying" /\ k \in 0..Attempts
      BY <1>0, <2>2 DEF Attempt, TypeOK, TryingHasAttempts
    <3>3. stage \in Stages /\ (stage = "trying" => k < Attempts) /\ stage # "queued"
      BY DEF Stages
    <3>4. task'[b][n] = [stage |-> stage, attempt |-> k]
      BY <3>1, <3>2
    <3> HIDE DEF k
    <3> QED BY <3>1, <3>2, <3>3, <3>4
  <2>3. CASE RecordSuccess(b, n)
    <3>1. "done" \in Stages /\ task' = [task EXCEPT ![b][n].stage = "done"]
      BY <2>3 DEF RecordSuccess, Stages
    <3>2. /\ task' \in [Batches -> [Nodes -> [stage : Stages, attempt : 0..Attempts]]]
          /\ \A c \in Batches, m \in Nodes :
                /\ task'[c][m].attempt = task[c][m].attempt
                /\ task'[c][m].stage = IF c = b /\ m = n THEN "done" ELSE task[c][m].stage
                /\ (c # b \/ m # n) => task'[c][m] = task[c][m]
      BY <3>1, StageMoves
    <3>3. task[b][n].stage = "succeeded"
      BY <2>3 DEF RecordSuccess
    <3> QED BY <3>2, <3>3
  <2> QED BY <2>1, <2>2, <2>3
<1>2. /\ UNCHANGED <<table, cache, regs, starts, batches, reboots>>
      /\ missed' \in {missed, missed \ {n}}
      /\ \/ UNCHANGED <<failures, blame>>
         \/ failures' = [failures EXCEPT ![n] = 0] /\ blame' = [blame EXCEPT ![n] = {}]
  BY DEF StartDelivery, Attempt, RecordSuccess
<1>3. /\ TryingHasAttempts' /\ LaterBatchesIdle'
      /\ \A m \in Nodes : \A c \in blame[m] : c \in Batches /\ task'[c][m] = task[c][m]
  BY <1>1, <1>2, UncountedMove
<1>4. /\ failures' \in [Nodes -> 0..(2 * MaxBatches)] /\ blame' \in [Nodes -> SUBSET Batches]
      /\ \A m \in Nodes : \/ failures'[m] = failures[m] /\ blame'[m] = blame[m]
                          \/ failures'[m] = 0 /\ blame'[m] = {}
  <2>1. CASE UNCHANGED <<failures, blame>>
    BY <2>1 DEF TypeOK
  <2>2. CASE failures' = [failures EXCEPT ![n] = 0] /\ blame' = [blame EXCEPT ![n] = {}]
    <3>1. 0 \in 0..(2 * MaxBatches) /\ {} \in SUBSET Batches
      BY <1>0
    <3> QED BY <2>2, <3>1 DEF TypeOK
  <2> QED BY <1>2, <2>1, <2>2
<1>5. TypeOK'
  BY <1>1, <1>2, <1>4 DEF TypeOK
<1>6. BlamedAreEnding'
  BY <1>3, <1>4 DEF BlamedAreEnding
<1>7. CountsAreBacked'
  <2> SUFFICES ASSUME NEW m \in Nodes
               PROVE  failures'[m] <= Cardinality(blame'[m]) + Cardinality(Settled(m)')
    BY DEF CountsAreBacked
  <2>1. CASE failures'[m] = failures[m] /\ blame'[m] = blame[m]
    <3>1. Settled(m)' = Settled(m)
      BY <1>3, <2>1 DEF Settled
    <3> QED BY <2>1, <3>1 DEF CountsAreBacked
  <2>2. CASE failures'[m] = 0 /\ blame'[m] = {}
    <3>1. blame'[m] \in SUBSET Batches /\ Settled(m)' \in SUBSET Batches
      BY <2>2 DEF Settled
    <3> QED BY <2>2, <3>1, BatchSets
  <2> QED BY <1>4, <2>1, <2>2
<1> QED BY <1>2, <1>3, <1>5, <1>6, <1>7 DEF PushedNodesHaveRows, StoredHaveRows

\* What one count of a failed delivery does to the node's row and cache entry: an
\* eviction at the threshold, unless the count was not written or not read back
LEMMA CountFailureEffect ==
    ASSUME TypeOK, NEW b \in Batches, NEW n \in Nodes, CountFailure(b, n)
    PROVE  /\ cache' \in [Nodes -> Urls \cup {None}]
           /\ \A m \in Nodes : cache'[m] \in {cache[m], None}
           /\ failures' \in [Nodes -> Nat] /\ blame' \in [Nodes -> SUBSET Batches]
           /\ \A m \in Nodes \ {n} : failures'[m] = failures[m] /\ blame'[m] = blame[m]
                                     /\ cache'[m] = cache[m]
           /\ \/ failures'[n] = failures[n] /\ blame'[n] = blame[n] /\ cache'[n] = cache[n]
              \/ failures'[n] = 0 /\ blame'[n] = blame[n] /\ cache'[n] = cache[n]
              \/ /\ failures'[n] = failures[n] + 1 /\ blame'[n] = blame[n] \cup {b}
                 /\ \/ cache'[n] = IF failures'[n] >= Threshold THEN None ELSE cache[n]
                    \/ cache'[n] = cache[n] /\ (failures'[n] >= Threshold => n \in missed')
           /\ missed' \subseteq Nodes
<1>0. Threshold \in Nat \ {0} /\ MaxBatches \in Nat
  BY PeersAssumption
<1>1. CASE UNCHANGED <<failures, blame, missed, cache>>
  BY <1>0, <1>1 DEF TypeOK
<1>2. CASE WriteCount(b, n) /\ Evict(n)
  <2>1. missed' \subseteq Nodes
    BY <1>2 DEF Evict, TypeOK
  <2>2. CASE table[n] = None
    <3>1. failures' = [failures EXCEPT ![n] = 0] /\ blame' = blame /\ cache' = cache
      BY <1>0, <1>2, <2>2 DEF WriteCount, Count, Evict
    <3> QED BY <1>0, <2>1, <3>1 DEF TypeOK
  <2>3. CASE table[n] # None
    <3>1. /\ failures' = [failures EXCEPT ![n] = failures[n] + 1]
          /\ blame' = [blame EXCEPT ![n] = @ \cup {b}]
          /\ cache' = IF failures[n] + 1 >= Threshold THEN [cache EXCEPT ![n] = None] ELSE cache
      BY <1>2, <2>3 DEF WriteCount, Count, Evict
    <3> QED BY <1>0, <2>1, <3>1 DEF TypeOK
  <2> QED BY <2>2, <2>3
<1>3. CASE WriteCount(b, n) /\ MissCount(n)
  <2>1. missed' \subseteq Nodes /\ cache' = cache
    BY <1>3 DEF MissCount, TypeOK
  <2>2. CASE table[n] = None
    <3>1. failures' = [failures EXCEPT ![n] = 0] /\ blame' = blame
      BY <1>3, <2>2 DEF WriteCount, Count
    <3> QED BY <1>0, <2>1, <3>1 DEF TypeOK
  <2>3. CASE table[n] # None
    <3>1. /\ failures' = [failures EXCEPT ![n] = failures[n] + 1]
          /\ blame' = [blame EXCEPT ![n] = @ \cup {b}]
          /\ failures[n] + 1 >= Threshold => n \in missed'
      BY <1>3, <2>3 DEF WriteCount, Count, MissCount
    <3> QED BY <1>0, <2>1, <3>1 DEF TypeOK
  <2> QED BY <2>2, <2>3
<1> QED BY <1>1, <1>2, <1>3 DEF CountFailure

\* A count of a failed delivery, whichever of its two it is
LEMMA CountStep ==
    ASSUME PeersIInv, NEW b \in Batches, NEW n \in Nodes,
           CountRejection(b, n) \/ CountFailed(b, n)
    PROVE  PeersIInv'
<1> USE DEF PeersIInv
<1>0. MaxBatches \in Nat
  BY PeersAssumption
<1>1. CountFailure(b, n) /\ UNCHANGED <<table, regs, starts, batches, reboots>>
  BY DEF CountRejection, CountFailed, CountFailure
<1>2. PICK stage \in {"failed", "done"} :
         /\ task' = [task EXCEPT ![b][n].stage = stage]
         /\ task[b][n].stage = IF stage = "failed" THEN "rejected" ELSE "failed"
  BY DEF CountRejection, CountFailed
<1>3. stage \in Stages
  BY DEF Stages
<1>4. /\ task' \in [Batches -> [Nodes -> [stage : Stages, attempt : 0..Attempts]]]
      /\ \A c \in Batches, m \in Nodes :
            /\ task'[c][m].attempt = task[c][m].attempt
            /\ task'[c][m].stage = IF c = b /\ m = n THEN stage ELSE task[c][m].stage
            /\ (c # b \/ m # n) => task'[c][m] = task[c][m]
  BY <1>2, <1>3, StageMoves
<1>5. TryingHasAttempts'
  BY <1>4 DEF TryingHasAttempts
<1>6. LaterBatchesIdle'
  BY <1>1, <1>2, <1>4 DEF LaterBatchesIdle, Idle
<1>7. BlamedAreEnding'
  <2> SUFFICES ASSUME NEW m \in Nodes, NEW c \in blame'[m]
               PROVE  task'[c][m].stage \in {"failed", "done"}
    BY DEF BlamedAreEnding
  <2>1. c \in Batches /\ (c \in blame[m] \/ (c = b /\ m = n))
    BY <1>1, CountFailureEffect
  <2> QED BY <1>4, <2>1 DEF BlamedAreEnding
<1>8. PushedNodesHaveRows' /\ StoredHaveRows'
  BY <1>1, CountFailureEffect DEF PushedNodesHaveRows, StoredHaveRows
<1>9. \A m \in Nodes : blame[m] \in SUBSET Batches /\ Settled(m) \in SUBSET blame[m]
                       /\ blame'[m] \in SUBSET Batches /\ Settled(m)' \in SUBSET blame'[m]
                       /\ failures[m] \in Nat /\ failures'[m] \in Nat
  BY <1>0, <1>1, CountFailureEffect DEF TypeOK, Settled
<1>10. CountsAreBacked'
  <2> SUFFICES ASSUME NEW m \in Nodes
               PROVE  failures'[m] <= Cardinality(blame'[m]) + Cardinality(Settled(m)')
    BY DEF CountsAreBacked
  <2>0. /\ Settled(m) \in SUBSET Batches /\ Settled(m)' \in SUBSET Batches
        /\ Cardinality(blame[m]) \in Nat /\ Cardinality(Settled(m)) \in Nat
        /\ Cardinality(blame'[m]) \in Nat /\ Cardinality(Settled(m)') \in Nat
        /\ failures[m] <= Cardinality(blame[m]) + Cardinality(Settled(m))
    <3>1. Settled(m) \in SUBSET Batches /\ Settled(m)' \in SUBSET Batches
      BY <1>9
    <3> QED BY <1>9, <3>1, BatchSets DEF CountsAreBacked
  <2>1. Settled(m) \in SUBSET Settled(m)'
    BY <1>1, <1>2, <1>4, CountFailureEffect DEF Settled, TypeOK
  <2>2. Cardinality(Settled(m)) <= Cardinality(Settled(m)')
    BY <2>0, <2>1, MoreBacking
  <2>3. CASE blame'[m] = blame[m] /\ failures'[m] \in {0, failures[m]}
    BY <1>9, <2>0, <2>2, <2>3
  <2>4. CASE m = n /\ failures'[n] = failures[n] + 1 /\ blame'[n] = blame[n] \cup {b}
    <3>1. CASE b \in blame[n]
      <4>1. stage = "done"
        BY <1>2, <3>1 DEF BlamedAreEnding
      <4>2. b \notin Settled(m) /\ Settled(m)' = Settled(m) \cup {b} /\ blame'[m] = blame[m]
        BY <1>2, <1>4, <1>9, <2>4, <3>1, <4>1 DEF Settled
      <4>3. Cardinality(Settled(m)') = Cardinality(Settled(m)) + 1
        BY <2>0, <4>2, OneMore
      <4>4. failures'[m] = failures[m] + 1 /\ Cardinality(blame'[m]) = Cardinality(blame[m])
        BY <2>4, <4>2
      <4> QED BY <1>9, <2>0, <4>3, <4>4
    <3>2. CASE b \notin blame[n]
      <4>1. Cardinality(blame'[n]) = Cardinality(blame[n]) + 1
        BY <1>9, <2>4, <3>2, OneMore
      <4> QED BY <1>9, <2>0, <2>2, <2>4, <4>1
    <3> QED BY <3>1, <3>2
  <2> QED BY <1>1, <2>3, <2>4, CountFailureEffect
<1>11. failures' \in [Nodes -> 0..(2 * MaxBatches)]
  <2>1. \A m \in Nodes : failures'[m] \in 0..(2 * MaxBatches)
    BY <1>9, <1>10, BackedIsBounded DEF CountsAreBacked
  <2> QED BY <1>1, <2>1, CountFailureEffect
<1>12. TypeOK'
  BY <1>1, <1>4, <1>11, CountFailureEffect DEF TypeOK
<1> QED BY <1>5, <1>6, <1>7, <1>8, <1>10, <1>12

\* The primary restarts: the cache is what the table allows, every delivery is over
LEMMA RestartStep ==
    ASSUME PeersIInv, PrimaryRestart
    PROVE  PeersIInv'
<1> USE DEF PeersIInv
<1>0. MaxBatches \in Nat /\ MaxRestarts \in Nat /\ Attempts \in Nat \ {0}
  BY PeersAssumption
<1>1. /\ task' \in [Batches -> [Nodes -> [stage : Stages, attempt : 0..Attempts]]]
      /\ \A b \in Batches, n \in Nodes :
            IF b <= batches THEN task'[b][n].stage = "done" ELSE task'[b][n] = Idle
  <2>1. \A b \in Batches, n \in Nodes :
           /\ task[b][n] \in [stage : Stages, attempt : 0..Attempts]
           /\ [task[b][n] EXCEPT !.stage = "done"] \in [stage : Stages, attempt : 0..Attempts]
           /\ [task[b][n] EXCEPT !.stage = "done"].stage = "done"
    BY DEF TypeOK, Stages
  <2>2. Idle \in [stage : Stages, attempt : 0..Attempts]
    BY <1>0 DEF Idle, Stages
  <2> QED BY <2>1, <2>2 DEF PrimaryRestart
<1>2. /\ cache' \in [Nodes -> Urls \cup {None}]
      /\ \A n \in Nodes : cache'[n] \in {table[n], None}
  BY DEF PrimaryRestart, TypeOK
<1>3. TypeOK'
  BY <1>0, <1>1, <1>2 DEF PrimaryRestart, TypeOK
<1>4. PushedNodesHaveRows' /\ StoredHaveRows'
  BY <1>2 DEF PrimaryRestart, PushedNodesHaveRows, StoredHaveRows
<1>5. TryingHasAttempts' /\ LaterBatchesIdle'
  <2>1. batches' = batches /\ batches \in Nat /\ Batches \subseteq Nat
    BY <1>0 DEF PrimaryRestart, TypeOK, Batches
  <2> QED BY <1>1, <2>1 DEF TryingHasAttempts, LaterBatchesIdle, Idle
<1>6. \A n \in Nodes : \A b \in blame[n] : b \in Batches /\ task'[b][n].stage = "done"
  <2>1. batches \in Nat /\ Batches \subseteq Nat
    BY <1>0 DEF TypeOK, Batches
  <2> SUFFICES ASSUME NEW n \in Nodes, NEW b \in blame[n]
               PROVE  b \in Batches /\ task'[b][n].stage = "done"
    OBVIOUS
  <2>2. b \in Batches /\ task[b][n].stage # "none"
    BY DEF BlamedAreEnding, TypeOK
  <2>3. b <= batches
    BY <2>1, <2>2 DEF LaterBatchesIdle, Idle
  <2> QED BY <1>1, <2>2, <2>3
<1>7. BlamedAreEnding'
  BY <1>6 DEF PrimaryRestart, BlamedAreEnding
<1>8. CountsAreBacked'
  <2> SUFFICES ASSUME NEW n \in Nodes
               PROVE  failures'[n] <= Cardinality(blame'[n]) + Cardinality(Settled(n)')
    BY DEF CountsAreBacked
  <2>0. failures'[n] = failures[n] /\ failures[n] \in Nat /\ blame'[n] = blame[n]
    BY <1>0 DEF PrimaryRestart, TypeOK
  <2>1. Settled(n)' = blame[n]
    BY <1>6, <2>0 DEF Settled
  <2>2. blame[n] \in SUBSET Batches /\ Settled(n) \in SUBSET blame[n]
    BY DEF TypeOK, Settled
  <2>3. /\ Cardinality(blame[n]) \in Nat /\ Cardinality(Settled(n)) \in Nat
        /\ Cardinality(Settled(n)) <= Cardinality(blame[n])
    BY <2>2, BatchSets, MoreBacking
  <2> QED BY <2>0, <2>1, <2>3 DEF CountsAreBacked
<1> QED BY <1>3, <1>4, <1>5, <1>7, <1>8

\* A case for each action of Next
LEMMA PeersStep == PeersIInv /\ [Next]_vars => PeersIInv'
<1> SUFFICES ASSUME PeersIInv, [Next]_vars PROVE PeersIInv'
  OBVIOUS
<1>1. CASE \/ \E n \in Nodes, u \in Urls : NodeStart(n, u)
           \/ \E r \in regs : Register(r) \/ FailRegistration(r)
  BY <1>1, RegistrationStep
<1>2. CASE FanOut
  BY <1>2, FanOutStep
<1>3. ASSUME NEW b \in Batches, NEW n \in Nodes, Deliver(b, n) PROVE PeersIInv'
  BY <1>3, DeliveryStep, CountStep DEF Deliver
<1>4. CASE PrimaryRestart
  BY <1>4, RestartStep
<1>5. CASE UNCHANGED vars
  BY <1>5 DEF vars, PeersIInv, TypeOK, PushedNodesHaveRows, TryingHasAttempts, StoredHaveRows,
     LaterBatchesIdle, BlamedAreEnding, CountsAreBacked, Settled
<1> QED BY <1>1, <1>2, <1>3, <1>4, <1>5 DEF Next

\* The first state satisfies the inductive invariant
LEMMA PeersInit == Init => PeersIInv
<1> SUFFICES ASSUME Init PROVE PeersIInv
  OBVIOUS
<1>0. /\ MaxBatches \in Nat /\ MaxStarts \in Nat /\ MaxRestarts \in Nat
      /\ Attempts \in Nat \ {0}
  BY PeersAssumption
<1>1. Idle \in [stage : Stages, attempt : 0..Attempts]
  BY <1>0 DEF Idle, Stages
<1>2. TypeOK
  BY <1>0, <1>1 DEF Init, TypeOK
<1>3. CountsAreBacked
  BY FS_EmptySet DEF Init, CountsAreBacked, Settled
<1> QED BY <1>2, <1>3 DEF Init, PeersIInv, PushedNodesHaveRows, TryingHasAttempts,
           StoredHaveRows, LaterBatchesIdle, BlamedAreEnding, Idle

-----------------------------------------------------------------------------
(* The theorems *)

\* The push side of the primary is well formed and whoever it pushes to has a
\* peer_nodes row, whatever registrations, deliveries, failed statements and
\* restarts interleave (handle_sync_register, fan_out_push_inner).
THEOREM PushedNodesAreRegistered == Spec => []PeersInv
<1>1. PeersIInv => PeersInv
  BY DEF PeersIInv, PeersInv
<1> QED BY <1>1, PeersInit, PeersStep, PTL DEF Spec

\* A node is evicted only for failures that happened: when its cache entry goes
\* while the primary runs, at least half the threshold of deliveries have been
\* counted against it since its last success or registration (handle_push_failure).
THEOREM EvictionsAreBacked == Spec => EvictionIsBacked
<1>1. PeersIInv /\ PeersIInv' /\ [Next]_vars =>
        [\A n \in Nodes : (cache[n] # None /\ cache'[n] = None /\ reboots' = reboots)
                          => 2 * Cardinality(blame'[n]) >= Threshold]_vars
  <2> SUFFICES ASSUME PeersIInv, PeersIInv', Next, NEW n \in Nodes,
                      cache[n] # None, cache'[n] = None, reboots' = reboots
               PROVE  2 * Cardinality(blame'[n]) >= Threshold
    BY DEF vars
  <2>0. Threshold \in Nat /\ MaxBatches \in Nat /\ None \notin Urls
    BY PeersAssumption
  <2>1. ~\E m \in Nodes, u \in Urls : NodeStart(m, u)
    BY DEF NodeStart
  <2>2. ~\E r \in regs : Register(r) \/ FailRegistration(r)
    BY <2>0 DEF Register, StoreRegistration, CacheRegistration, FailRegistration, PeersIInv, TypeOK
  <2>3. ~FanOut /\ ~PrimaryRestart
    BY DEF FanOut, PrimaryRestart, PeersIInv, TypeOK
  <2>4. PICK b \in Batches, m \in Nodes : Deliver(b, m)
    BY <2>1, <2>2, <2>3 DEF Next
  <2>5. CountFailure(b, m)
    BY <2>4 DEF Deliver, StartDelivery, Attempt, RecordSuccess, CountRejection, CountFailed
  <2>6. failures'[n] >= Threshold
    BY <2>5, CountFailureEffect DEF PeersIInv
  <2>7. /\ blame'[n] \in SUBSET Batches /\ Settled(n)' \in SUBSET blame'[n]
        /\ failures'[n] \in Nat
        /\ failures'[n] <= Cardinality(blame'[n]) + Cardinality(Settled(n)')
    BY <2>0 DEF PeersIInv, TypeOK, Settled, CountsAreBacked
  <2>8. Cardinality(blame'[n]) \in Nat /\ Cardinality(Settled(n)') \in Nat
        /\ Cardinality(Settled(n)') <= Cardinality(blame'[n])
    BY <2>7, BatchSets, MoreBacking
  <2> QED BY <2>0, <2>6, <2>7, <2>8
<1> QED BY <1>1, PeersInit, PeersStep, PTL DEF Spec, EvictionIsBacked

\* A node with a spent failure count neither stays in the cache through another
\* counted failure nor returns to it, at a restart or otherwise, except by the
\* cache entry of a registration that was stored before, and except that a count
\* which is not read back leaves it there until the next one that is
\* (handle_push_failure, get_push_peers, handle_sync_register).
THEOREM SpentNodesStayEvicted == Spec => SpentNodesAreEvicted
<1>1. PeersIInv /\ [Next]_vars =>
        [\A n \in Nodes :
           (/\ failures'[n] >= Threshold /\ cache'[n] # None
            /\ failures'[n] # failures[n] \/ cache'[n] # cache[n])
           => \/ \E r \in regs \ regs' : r.node = n /\ r.stored
              \/ n \in missed' /\ cache'[n] = cache[n]]_vars
  <2> SUFFICES ASSUME PeersIInv, Next, NEW n \in Nodes,
                      failures'[n] >= Threshold, cache'[n] # None,
                      failures'[n] # failures[n] \/ cache'[n] # cache[n]
               PROVE  \/ \E r \in regs \ regs' : r.node = n /\ r.stored
                      \/ n \in missed' /\ cache'[n] = cache[n]
    BY DEF vars
  <2>0. /\ Threshold \in Nat \ {0} /\ MaxBatches \in Nat
        /\ failures \in [Nodes -> Nat] /\ cache \in [Nodes -> Urls \cup {None}]
        /\ regs \subseteq [node : Nodes, start : 0..MaxStarts, url : Urls, stored : BOOLEAN]
    BY PeersAssumption DEF PeersIInv, TypeOK
  <2>1. ASSUME NEW m \in Nodes, NEW u \in Urls, NodeStart(m, u) PROVE FALSE
    BY <2>1 DEF NodeStart
  <2>2. ASSUME NEW r \in regs, StoreRegistration(r) PROVE FALSE
    BY <2>0, <2>2 DEF StoreRegistration
  <2>3. ASSUME NEW r \in regs, CacheRegistration(r)
        PROVE  \E q \in regs \ regs' : q.node = n /\ q.stored
    <3>1. r.node = n /\ r.stored /\ r \in regs \ regs'
      BY <2>0, <2>3 DEF CacheRegistration
    <3> QED BY <3>1
  <2>4. ASSUME NEW r \in regs, FailRegistration(r) PROVE FALSE
    BY <2>4 DEF FailRegistration
  <2>5. ASSUME FanOut PROVE FALSE
    BY <2>5 DEF FanOut
  <2>6. ASSUME NEW b \in Batches, NEW m \in Nodes, Deliver(b, m)
        PROVE  n \in missed' /\ cache'[n] = cache[n]
    <3>1. CASE StartDelivery(b, m) \/ Attempt(b, m) \/ RecordSuccess(b, m)
      BY <2>0, <3>1 DEF StartDelivery, Attempt, RecordSuccess
    <3>2. CASE CountFailure(b, m)
      BY <2>0, <3>2, CountFailureEffect DEF PeersIInv
    <3> QED BY <2>6, <3>1, <3>2 DEF Deliver, CountRejection, CountFailed
  <2>7. ASSUME PrimaryRestart PROVE FALSE
    BY <2>0, <2>7 DEF PrimaryRestart
  <2> QED BY <2>1, <2>2, <2>3, <2>4, <2>5, <2>6, <2>7 DEF Next, Register
<1> QED BY <1>1, PeersInit, PeersStep, PTL DEF Spec, SpentNodesAreEvicted

-----------------------------------------------------------------------------
(* Reconcile: the inductive invariant *)

\* The first seq a request reads refs from
FirstRef == IF since = 0 THEN 1 ELSE since

\* The node has what its cursor passed over of the first page
PassedIsHeld ==
    /\ start <= since
    /\ (start + 1)..AtMost(since, start + MaxEvents) \subseteq held

\* While the handler works, the refs are those of the request
RefsAreOfRequest ==
    pc = "reading" => /\ refs.ids = FirstRef..AtMost(refs.len, FirstRef + MaxRefs - 1)
                      /\ (since + 1)..AtMost(refs.len, since + MaxEvents) \subseteq refs.ids

\* An answer brings what the node lacks of the page, and a cursor within the refs
AnswerIsComplete ==
    pc = "answered" =>
        /\ (since + 1)..AtMost(refs.len, since + MaxEvents) \subseteq held \cup answer.send
        /\ answer.next = since \/ answer.next \in since..refs.len

ReconcileIInv ==
    /\ SessionTypeOK /\ PassedIsHeld /\ RefsAreOfRequest /\ AnswerIsComplete /\ FirstPageIsComplete

-----------------------------------------------------------------------------
(* The operators *)

\* The refs reach as far as the events of a request do: there are more of them,
\* and they begin no later
LEMMA RefsCoverEvents ==
    ASSUME SessionTypeOK, NEW n \in Nat
    PROVE  (since + 1)..AtMost(n, since + MaxEvents)
              \subseteq FirstRef..AtMost(n, FirstRef + MaxRefs - 1)
<1>1. since \in Nat /\ MaxEvents \in Nat /\ MaxRefs \in Nat /\ MaxRefs > MaxEvents
  BY CapsAssumption DEF SessionTypeOK
<1> QED BY <1>1 DEF FirstRef, AtMost

\* The next cursor is one of the refs, at or after the cursor of the request
LEMMA NextSinceOfRefs ==
    ASSUME SessionTypeOK, NEW hi \in Nat, NEW ids, ids = FirstRef..hi
    PROVE  NextSince(ids) = since \/ NextSince(ids) \in since..hi
<1>1. since \in Nat /\ FirstRef \in Nat /\ since <= FirstRef
  BY CapsAssumption DEF SessionTypeOK, FirstRef
<1>2. CASE ids = {}
  BY <1>2 DEF NextSince
<1>3. CASE ids # {}
  <2>1. hi \in ids /\ \A m \in ids : m <= hi
    BY <1>1, <1>3
  <2>2. NextSince(ids) \in ids
    BY <1>3, <2>1 DEF NextSince
  <2> QED BY <1>1, <2>2
<1> QED BY <1>2, <1>3

-----------------------------------------------------------------------------
(* Type correctness *)

\* Every action keeps the types
LEMMA ReconcileTypeStep == ReconcileIInv /\ [SessionNext]_sessionVars => SessionTypeOK'
<1> SUFFICES ASSUME ReconcileIInv, [SessionNext]_sessionVars PROVE SessionTypeOK'
  OBVIOUS
<1> USE DEF ReconcileIInv
<1>0. /\ MaxLog \in Nat /\ len \in 0..MaxLog /\ MaxEvents \in Nat \ {0} /\ MaxRefs \in Nat
      /\ since \in 0..len /\ start \in 0..len
  BY CapsAssumption DEF SessionTypeOK
<1>1. CASE Commit
  <2>1. len' = len + 1 /\ len' \in 0..MaxLog /\ 0..len \subseteq 0..len' /\ 1..len \subseteq 1..len'
    BY <1>0, <1>1 DEF Commit
  <2>2. /\ refs \in [ids : SUBSET (1..len'), truncated : BOOLEAN, len : 0..len']
        /\ answer \in [send : SUBSET (1..len'), unknown : SUBSET Ids, more : BOOLEAN, next : 0..len']
    BY <2>1 DEF SessionTypeOK
  <2> QED BY <1>1, <2>1, <2>2 DEF Commit, SessionTypeOK
<1>2. ASSUME NEW n \in 1..len, Receive(n) PROVE SessionTypeOK'
  BY <1>0, <1>2 DEF Receive, SessionTypeOK, Ids
<1>3. ASSUME NEW s \in 0..len, Begin(s) PROVE SessionTypeOK'
  BY <1>3 DEF Begin, SessionTypeOK
<1>4. CASE Send
  BY <1>4 DEF Send, SessionTypeOK
<1>5. CASE Refuse
  BY <1>5 DEF Refuse, SessionTypeOK
<1>6. CASE ReadRefs
  <2> DEFINE ids == FirstRef..AtMost(len, FirstRef + MaxRefs - 1)
  <2>1. FirstRef \in Nat \ {0} /\ FirstRef + MaxRefs - 1 \in Nat
    BY <1>0 DEF FirstRef
  <2>2. ids \in SUBSET (1..len)
    BY <1>0, <2>1 DEF AtMost
  <2>3. refs' = [ids |-> ids, truncated |-> len > FirstRef + MaxRefs - 1, len |-> len]
    BY <1>6 DEF ReadRefs, FirstRef
  <2> HIDE DEF ids
  <2>4. refs' \in [ids : SUBSET (1..len), truncated : BOOLEAN, len : 0..len]
    BY <1>0, <2>2, <2>3
  <2> QED BY <1>6, <2>4 DEF ReadRefs, SessionTypeOK
<1>7. CASE ReadEvents
  <2>1. EventsSince(since) \in SUBSET (1..len)
    BY <1>0 DEF EventsSince, AtMost
  <2>2. refs.len \in 0..len /\ refs.ids \in SUBSET (1..len)
    BY DEF SessionTypeOK
  <2>3. NextSince(refs.ids) \in 0..len
    <3> DEFINE hi == AtMost(refs.len, FirstRef + MaxRefs - 1)
    <3>1. hi \in Nat /\ hi <= refs.len
      BY <1>0, <2>2 DEF FirstRef, AtMost
    <3>2. refs.ids = FirstRef..hi
      BY <1>7 DEF ReadEvents, RefsAreOfRequest
    <3> HIDE DEF hi
    <3> QED BY <1>0, <2>2, <3>1, <3>2, NextSinceOfRefs
  <2>4. answer' \in [send : SUBSET (1..len), unknown : SUBSET Ids, more : BOOLEAN, next : 0..len]
    <3>1. PICK e, m : /\ m \in BOOLEAN /\ e \in SUBSET (1..len)
                      /\ answer' = [send |-> e, unknown |-> have \ refs.ids,
                                    more |-> m, next |-> NextSince(refs.ids)]
      <4>1. EventsSince(since) \cap (refs.ids \ have) \in SUBSET (1..len)
        BY <2>1
      <4>2. (refs.truncated \/ Cardinality(EventsSince(since)) >= MaxEvents) \in BOOLEAN
        OBVIOUS
      <4> QED BY <1>7, <4>1, <4>2, Zenon DEF ReadEvents
    <3>2. have \ refs.ids \in SUBSET Ids
      BY DEF SessionTypeOK
    <3> QED BY <2>3, <3>1, <3>2
  <2> QED BY <1>7, <2>4 DEF ReadEvents, SessionTypeOK
<1>8. CASE Apply
  <2>1. answer.send \in SUBSET (1..len) /\ answer.next \in 0..len
    BY DEF SessionTypeOK
  <2>2. held' \in SUBSET Ids /\ held \subseteq held'
    BY <1>0, <1>8, <2>1 DEF Apply, SessionTypeOK, Ids
  <2> QED BY <1>8, <2>1, <2>2 DEF Apply, SessionTypeOK
<1>9. CASE Lost
  <2>1. NoAnswer \in [send : SUBSET (1..len), unknown : SUBSET Ids, more : BOOLEAN, next : 0..len]
    BY <1>0 DEF NoAnswer
  <2> QED BY <1>9, <2>1 DEF Lost, SessionTypeOK
<1>10. CASE UNCHANGED sessionVars
  BY <1>10 DEF sessionVars, SessionTypeOK
<1> QED BY <1>1, <1>2, <1>3, <1>4, <1>5, <1>6, <1>7, <1>8, <1>9, <1>10 DEF SessionNext, Session

-----------------------------------------------------------------------------
(* The first page *)

\* The answer of a page completes the first page as far as the refs were read
LEMMA PageIsHeld ==
    ASSUME ReconcileIInv, pc = "answered", NEW n \in Nat, n = since \/ n <= refs.len
    PROVE  (start + 1)..AtMost(n, start + MaxEvents) \subseteq held \cup answer.send
<1>1. /\ start \in Nat /\ since \in Nat /\ start <= since /\ refs.len \in Nat
      /\ MaxEvents \in Nat
  BY CapsAssumption DEF ReconcileIInv, SessionTypeOK, PassedIsHeld
<1> SUFFICES ASSUME NEW e \in (start + 1)..AtMost(n, start + MaxEvents)
             PROVE  e \in held \cup answer.send
  OBVIOUS
<1>2. e \in Nat /\ start < e /\ e <= n /\ e <= start + MaxEvents
  BY <1>1 DEF AtMost
<1>3. CASE e <= since
  <2>1. e \in (start + 1)..AtMost(since, start + MaxEvents)
    BY <1>1, <1>2, <1>3 DEF AtMost
  <2> QED BY <2>1 DEF ReconcileIInv, PassedIsHeld
<1>4. CASE e > since
  <2>1. e <= refs.len
    BY <1>1, <1>2, <1>4
  <2>2. e \in (since + 1)..AtMost(refs.len, since + MaxEvents)
    BY <1>1, <1>2, <1>4, <2>1 DEF AtMost
  <2> QED BY <2>2 DEF ReconcileIInv, AnswerIsComplete
<1> QED BY <1>1, <1>2, <1>3, <1>4

\* Every action keeps the inductive invariant
LEMMA ReconcileStep == ReconcileIInv /\ [SessionNext]_sessionVars => ReconcileIInv'
<1> SUFFICES ASSUME ReconcileIInv, [SessionNext]_sessionVars PROVE ReconcileIInv'
  OBVIOUS
<1>0. SessionTypeOK'
  BY ReconcileTypeStep
<1> USE DEF ReconcileIInv
<1>a. /\ MaxEvents \in Nat \ {0} /\ MaxRefs \in Nat
      /\ len \in Nat /\ start \in Nat /\ since \in Nat /\ refs.len \in Nat /\ have \subseteq held
  BY CapsAssumption DEF SessionTypeOK
<1>1. CASE Commit
  BY <1>0, <1>1 DEF Commit, PassedIsHeld, RefsAreOfRequest, AnswerIsComplete,
     FirstPageIsComplete, FirstRef
<1>2. ASSUME NEW n \in 1..len, Receive(n) PROVE ReconcileIInv'
  BY <1>0, <1>2 DEF Receive, PassedIsHeld, RefsAreOfRequest, AnswerIsComplete,
     FirstPageIsComplete, FirstRef
<1>3. ASSUME NEW s \in 0..len, Begin(s) PROVE ReconcileIInv'
  <2>1. (s + 1)..AtMost(s, s + MaxEvents) = {} /\ s <= s
    BY <1>a DEF AtMost
  <2> QED BY <1>0, <1>3, <2>1 DEF Begin, PassedIsHeld, RefsAreOfRequest, AnswerIsComplete,
             FirstPageIsComplete
<1>4. CASE Send
  BY <1>0, <1>4 DEF Send, PassedIsHeld, RefsAreOfRequest, AnswerIsComplete, FirstPageIsComplete
<1>5. CASE Refuse
  BY <1>0, <1>5 DEF Refuse, PassedIsHeld, RefsAreOfRequest, AnswerIsComplete, FirstPageIsComplete
<1>6. CASE ReadRefs
  <2>1. /\ refs'.ids = FirstRef..AtMost(len, FirstRef + MaxRefs - 1) /\ refs'.len = len
        /\ UNCHANGED <<since, start, held>> /\ pc' = "reading"
    BY <1>6 DEF ReadRefs, FirstRef
  <2>2. (since + 1)..AtMost(len, since + MaxEvents)
           \subseteq FirstRef..AtMost(len, FirstRef + MaxRefs - 1)
    BY <1>a, RefsCoverEvents
  <2>3. RefsAreOfRequest'
    BY <2>1, <2>2 DEF RefsAreOfRequest, FirstRef
  <2> QED BY <1>0, <2>1, <2>3 DEF PassedIsHeld, AnswerIsComplete, FirstPageIsComplete
<1>7. CASE ReadEvents
  <2>1. /\ answer'.send = EventsSince(since) \cap (refs.ids \ have)
        /\ answer'.next = NextSince(refs.ids)
        /\ pc = "reading" /\ pc' = "answered" /\ UNCHANGED <<len, held, start, since, have, refs>>
    BY <1>7 DEF ReadEvents
  <2>2. answer'.next = since \/ answer'.next \in since..refs.len
    <3> DEFINE hi == AtMost(refs.len, FirstRef + MaxRefs - 1)
    <3>1. hi \in Nat /\ hi <= refs.len
      BY <1>a DEF FirstRef, AtMost
    <3>2. refs.ids = FirstRef..hi
      BY <2>1 DEF RefsAreOfRequest
    <3> HIDE DEF hi
    <3>3. NextSince(refs.ids) = since \/ NextSince(refs.ids) \in since..hi
      BY <3>1, <3>2, NextSinceOfRefs
    <3> QED BY <1>a, <2>1, <3>1, <3>3
  <2>3. (since + 1)..AtMost(refs.len, since + MaxEvents) \subseteq EventsSince(since)
    <3>1. refs.len <= len
      BY DEF SessionTypeOK
    <3> QED BY <1>a, <3>1 DEF EventsSince, AtMost
  <2>4. (since + 1)..AtMost(refs.len, since + MaxEvents) \subseteq held \cup answer'.send
    BY <1>a, <2>1, <2>3 DEF RefsAreOfRequest
  <2>5. AnswerIsComplete'
    BY <2>1, <2>2, <2>4 DEF AnswerIsComplete
  <2> QED BY <1>0, <2>1, <2>5 DEF PassedIsHeld, RefsAreOfRequest, FirstPageIsComplete
<1>8. CASE Apply
  <2>1. /\ pc = "answered" /\ held' = held \cup answer.send /\ UNCHANGED <<len, start, refs, answer>>
        /\ pc' \in {"ready", "done"} /\ since' \in {since, answer.next}
    BY <1>8 DEF Apply
  <2>2. since' \in Nat /\ start <= since' /\ (since' = since \/ since' <= refs.len)
    BY <1>a, <2>1 DEF AnswerIsComplete, PassedIsHeld
  <2>3. PassedIsHeld'
    BY <2>1, <2>2, PageIsHeld DEF PassedIsHeld
  <2>4. FirstPageIsComplete'
    BY <1>a, <2>1, PageIsHeld DEF FirstPageIsComplete
  <2> QED BY <1>0, <2>1, <2>3, <2>4 DEF RefsAreOfRequest, AnswerIsComplete
<1>9. CASE Lost
  BY <1>0, <1>9 DEF Lost, PassedIsHeld, RefsAreOfRequest, AnswerIsComplete, FirstPageIsComplete
<1>10. CASE UNCHANGED sessionVars
  BY <1>0, <1>10 DEF sessionVars, PassedIsHeld, RefsAreOfRequest, AnswerIsComplete,
     FirstPageIsComplete, FirstRef
<1> QED BY <1>1, <1>2, <1>3, <1>4, <1>5, <1>6, <1>7, <1>8, <1>9, <1>10 DEF SessionNext, Session

\* The first state satisfies the inductive invariant
LEMMA ReconcileStart == SessionInit => ReconcileIInv
<1> SUFFICES ASSUME SessionInit PROVE ReconcileIInv
  OBVIOUS
<1>0. MaxLog \in Nat /\ MaxEvents \in Nat
  BY CapsAssumption
<1>1. SessionTypeOK
  BY <1>0 DEF SessionInit, SessionTypeOK, NoRefs, NoAnswer, Ids
<1>2. PassedIsHeld
  BY <1>0 DEF SessionInit, PassedIsHeld, AtMost
<1> QED BY <1>1, <1>2 DEF SessionInit, ReconcileIInv, RefsAreOfRequest, AnswerIsComplete,
           FirstPageIsComplete

-----------------------------------------------------------------------------
(* The theorems *)

\* A reconcile session never has a cursor past the log, and when it is done the
\* node holds every event of the first page that was committed when the last page
\* was read, whatever is committed between the handler's two reads, lost on the
\* way or received from a push (handle_sync_reconcile).
THEOREM SessionsAreComplete == SessionSpec => []ReconcileInv
<1>1. ReconcileIInv => ReconcileInv
  BY DEF ReconcileIInv, ReconcileInv
<1> QED BY <1>1, ReconcileStart, ReconcileStep, PTL DEF SessionSpec

\* The cursor of an answer with more to come is past that of the request, but for
\* an answer whose two reads had commits between them
AnswerMovesOn ==
    pc = "answered" /\ answer.more => answer.next > since \/ refs.len < len

\* A request that follows an answer has a later since_seq
SessionMovesOn ==
    [][Apply /\ answer.more => since' > since \/ refs.len < len]_sessionVars

\* The refs of a full page go past the cursor: they begin at it, and there are at
\* least two of them
LEMMA FullPageMovesOn ==
    ASSUME ReconcileIInv, pc = "reading", refs.len = len,
           refs.truncated => len > FirstRef + MaxRefs - 1,
           refs.truncated \/ Cardinality(EventsSince(since)) >= MaxEvents
    PROVE  NextSince(refs.ids) > since
<1>1. /\ since \in Nat /\ len \in Nat /\ MaxRefs \in Nat /\ MaxEvents \in Nat \ {0}
      /\ MaxRefs > MaxEvents /\ FirstRef \in Nat
      /\ FirstRef = IF since = 0 THEN 1 ELSE since
  BY CapsAssumption DEF ReconcileIInv, SessionTypeOK, FirstRef
<1>2. since < len
  <2>1. CASE refs.truncated
    BY <1>1, <2>1
  <2>2. CASE Cardinality(EventsSince(since)) >= MaxEvents
    <3>1. EventsSince(since) # {}
      BY <1>1, <2>2, FS_EmptySet
    <3>2. PICK n \in (since + 1)..AtMost(len, since + MaxEvents) : TRUE
      BY <3>1 DEF EventsSince
    <3> QED BY <1>1, <3>2 DEF AtMost
  <2> QED BY <2>1, <2>2
<1>3. PICK hi : hi = AtMost(len, FirstRef + MaxRefs - 1)
  OBVIOUS
<1>4. hi \in Nat /\ hi > since /\ hi >= FirstRef
  BY <1>1, <1>2, <1>3 DEF AtMost
<1>5. refs.ids = FirstRef..hi
  BY <1>3 DEF ReconcileIInv, RefsAreOfRequest
<1>6. hi \in refs.ids /\ \A m \in refs.ids : m <= hi
  BY <1>1, <1>4, <1>5
<1>7. NextSince(refs.ids) \in refs.ids /\ hi <= NextSince(refs.ids)
  BY <1>6 DEF NextSince
<1> QED BY <1>1, <1>4, <1>5, <1>7

\* What the handler knows of the refs until it answers
RefsAreCut == pc = "reading" /\ refs.truncated => refs.len > FirstRef + MaxRefs - 1

\* Each step keeps it
LEMMA AnswersMoveOn ==
    ASSUME ReconcileIInv, RefsAreCut, AnswerMovesOn, [SessionNext]_sessionVars
    PROVE  RefsAreCut' /\ AnswerMovesOn'
<1>0. refs.len \in Nat /\ len \in Nat /\ refs.len <= len /\ MaxRefs \in Nat
  BY CapsAssumption DEF ReconcileIInv, SessionTypeOK
<1>1. CASE Commit
  BY <1>0, <1>1 DEF Commit, RefsAreCut, AnswerMovesOn, FirstRef
<1>2. CASE (\E n \in 1..len : Receive(n)) \/ (\E s \in 0..len : Begin(s)) \/ Send \/ Refuse \/ Lost
           \/ Apply \/ UNCHANGED sessionVars
  BY <1>2 DEF Receive, Begin, Send, Refuse, Lost, Apply, sessionVars, RefsAreCut, AnswerMovesOn,
              FirstRef
<1>3. CASE ReadRefs
  <2>1. /\ pc' = "reading" /\ since' = since /\ refs'.len = len
        /\ refs'.truncated <=> len > FirstRef + MaxRefs - 1
    BY <1>3 DEF ReadRefs, FirstRef
  <2> QED BY <2>1 DEF RefsAreCut, AnswerMovesOn, FirstRef
<1>4. CASE ReadEvents
  <2>1. /\ pc = "reading" /\ pc' = "answered" /\ since' = since /\ refs' = refs /\ len' = len
        /\ answer'.more <=> (refs.truncated \/ Cardinality(EventsSince(since)) >= MaxEvents)
        /\ answer'.next = NextSince(refs.ids)
    BY <1>4 DEF ReadEvents
  <2>2. CASE refs.len < len
    BY <2>1, <2>2 DEF RefsAreCut, AnswerMovesOn
  <2>3. CASE refs.len = len
    BY <2>1, <2>3, FullPageMovesOn DEF RefsAreCut, AnswerMovesOn
  <2> QED BY <1>0, <2>2, <2>3
<1> QED BY <1>1, <1>2, <1>3, <1>4 DEF SessionNext, Session

\* A session goes forward: the request after an answer with more to come has a
\* later since_seq, unless events were committed between the two reads of that
\* answer, when the handler may count a full page that its refs do not show yet and
\* the node asks from the same point again (handle_sync_reconcile next_seq).
THEOREM SessionsMoveOn == SessionSpec => SessionMovesOn
<1>1. SessionInit => RefsAreCut /\ AnswerMovesOn
  BY DEF SessionInit, RefsAreCut, AnswerMovesOn
<1>2. AnswerMovesOn /\ [SessionNext]_sessionVars =>
        [Apply /\ answer.more => since' > since \/ refs.len < len]_sessionVars
  BY DEF AnswerMovesOn, Apply
<1> QED BY <1>1, <1>2, ReconcileStart, ReconcileStep, AnswersMoveOn, PTL
        DEF SessionSpec, SessionMovesOn
=============================================================================
