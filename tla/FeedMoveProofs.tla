--------------------------- MODULE FeedMoveProofs ---------------------------
(***************************************************************************)
(* Machine-checked proofs about FeedMove, for every set of URLs, every     *)
(* wait, and any number of relocations and crashes.                        *)
(***************************************************************************)
EXTENDS FeedMove, FiniteSetTheorems, WellFoundedInduction, TLAPS

-----------------------------------------------------------------------------
(* The inductive invariant *)

\* One ingest at a time is between its commit and its declarations
TailIsSingle == tail = {} \/ \E t \in tail : tail = {t}

\* The record has had the URL it has
UrlIsVisited == url \in visited

\* A source that has not changed its tag still gives the first one
UnchangedIsFirst == stated.any /\ ~stated.changed => stated.last = stated.first

\* While an ingest writes, the history already has its body
TailWasHeard ==
    crashes = 0 => \A t \in tail :
        /\ stated.any /\ t.body.tag = stated.last
        /\ t.moved => ~pending
        /\ pending => ~stated.changed

\* Between ingests the stored tag is the last one heard, and there is none only
\* after a relocation
StoredWasHeard ==
    crashes = 0 /\ tail = {} =>
        /\ stated.any <=> ~pending
        /\ declared.tag = IF stated.any THEN stated.last ELSE None

\* The arrival tag of a record that has moved is the tag it has heard ever since
ArrivalIsFirst ==
    crashes = 0 /\ stated.any /\ ~stated.changed /\ left # {} /\ ~pending
        => arrival = stated.first

\* The returns of the last Limit that are younger than r
Younger(r) == {q \in recent : q < r}

\* The last return is the youngest; the count has them all; and a return with k
\* younger ones is Base * (2^k - 1) older than the last, so the waits have doubled
ReturnsAreSpaced ==
    recent # {} =>
        /\ age \in recent
        /\ Cardinality(recent) <= count
        /\ \A r \in recent : r >= age + Base * (2^Cardinality(Younger(r)) - 1)

MoveIInv ==
    /\ TypeOK /\ TailIsSingle /\ HistoryIsComplete /\ UrlIsVisited
    /\ UnchangedIsFirst /\ TailWasHeard /\ StoredWasHeard /\ ArrivalIsFirst
    /\ ReturnsAreSpaced

-----------------------------------------------------------------------------
(* Powers of two and finite sets of numbers *)

\* 2^n is the number of subsets of n elements, which is what the provers know of it
LEMMA PowerIsCount ==
    ASSUME NEW n \in Nat
    PROVE  2^n \in Nat /\ 2^n = Cardinality(SUBSET (1..n)) /\ IsFiniteSet(SUBSET (1..n))
<1>1. IsFiniteSet(1..n) /\ Cardinality(1..n) = n
  BY FS_Interval
<1>2. IsFiniteSet(SUBSET (1..n)) /\ Cardinality(SUBSET (1..n)) = 2^n
  BY <1>1, FS_SUBSET
<1> QED BY <1>2, FS_CardinalityType

\* 2^n grows with n
LEMMA PowerGrows ==
    ASSUME NEW m \in Nat, NEW n \in Nat, m <= n
    PROVE  2^m <= 2^n
<1>1. SUBSET (1..m) \in SUBSET SUBSET (1..n)
  OBVIOUS
<1> QED BY <1>1, PowerIsCount, FS_Subset

\* 2^0 is 1, and every power is at least that
LEMMA PowerOfZero == 2^0 = 1 /\ \A n \in Nat : 2^n >= 1
<1>1. 1..0 = {} /\ SUBSET {} = {{}}
  OBVIOUS
<1>2. 2^0 = 1
  BY <1>1, PowerIsCount, FS_Singleton
<1>3. ASSUME NEW n \in Nat PROVE 2^n >= 1
  <2>1. {} \in SUBSET (1..n)
    OBVIOUS
  <2>2. Cardinality(SUBSET (1..n)) # 0
    BY <2>1, PowerIsCount, FS_EmptySet
  <2> QED BY <2>2, PowerIsCount
<1> QED BY <1>2, <1>3

\* The wait doubles: a subset of 1..(n+1) is one of 1..n, with or without n + 1
LEMMA PowerDoubles ==
    ASSUME NEW n \in Nat
    PROVE  2^(n + 1) = 2 * 2^n
<1> DEFINE S == SUBSET (1..n)
           T == {s \in SUBSET (1..(n + 1)) : n + 1 \in s}
           f == [s \in S |-> s \cup {n + 1}]
<1>1. IsFiniteSet(S) /\ Cardinality(S) = 2^n /\ 2^n \in Nat
  BY PowerIsCount
<1>2. 2^(n + 1) = Cardinality(SUBSET (1..(n + 1)))
  <2>1. n + 1 \in Nat
    OBVIOUS
  <2> HIDE DEF S
  <2> QED BY <2>1, PowerIsCount
<1>3. f \in [S -> T]
  OBVIOUS
<1>4. \A a, b \in S : f[a] = f[b] => a = b
  <2> SUFFICES ASSUME NEW a \in S, NEW b \in S, a \cup {n + 1} = b \cup {n + 1}
               PROVE  a = b
    OBVIOUS
  <2>1. n + 1 \notin a /\ n + 1 \notin b
    OBVIOUS
  <2> QED BY <2>1
<1>5. \A t \in T : \E s \in S : f[s] = t
  <2> SUFFICES ASSUME NEW t \in T PROVE \E s \in S : f[s] = t
    OBVIOUS
  <2>1. t \ {n + 1} \in S
    OBVIOUS
  <2>2. f[t \ {n + 1}] = t
    BY <2>1
  <2> QED BY <2>1, <2>2
<1>6. f \in Bijection(S, T)
  BY <1>3, <1>4, <1>5 DEF Bijection, Injection, Surjection, IsInjective
<1>7. IsFiniteSet(T) /\ Cardinality(T) = 2^n
  BY <1>1, <1>6, FS_Bijection DEF ExistsBijection
<1>8. SUBSET (1..(n + 1)) = S \cup T /\ S \cap T = {}
  OBVIOUS
<1> HIDE DEF S, T
<1>9. Cardinality(S \cup T) = Cardinality(S) + Cardinality(T) - Cardinality(S \cap T)
  BY <1>1, <1>7, FS_Union
<1>10. Cardinality(S \cap T) = 0
  BY <1>8, FS_EmptySet
<1> DEFINE p == 2^n
           q == 2^(n + 1)
<1>11. p \in Nat /\ q = p + p - 0
  BY <1>1, <1>2, <1>7, <1>8, <1>9, <1>10
<1> HIDE DEF p, q
<1>12. q = 2 * p
  BY <1>11
<1> QED BY <1>12 DEF p, q

\* Multiplication by a number keeps the order
LEMMA ProductGrows ==
    ASSUME NEW a \in Nat, NEW b \in Nat, NEW c \in Nat, b <= c
    PROVE  a * b \in Nat /\ a * c \in Nat /\ a * b <= a * c
<1>1. a * c = a * b + a * (c - b) /\ a * (c - b) >= 0
  OBVIOUS
<1> QED BY <1>1

\* A set of numbers with an upper bound has a greatest one
LEMMA GreatestNumber ==
    ASSUME NEW n \in Nat, NEW S \in SUBSET (0..n), S # {}
    PROVE  \E m \in S : \A r \in S : r <= m
<1> DEFINE T == {n - r : r \in S}
<1>1. T \in SUBSET Nat /\ T # {}
  <2>1. \A r \in S : n - r \in Nat
    OBVIOUS
  <2> QED BY <2>1
<1>2. PICK x \in T : \A y \in T : <<y, x>> \notin OpToRel(<, Nat)
  <2> HIDE DEF T
  <2> QED BY <1>1, NatLessThanWellFounded, WFMin
<1>3. \A y \in T : ~(y < x)
  BY <1>1, <1>2 DEF OpToRel
<1>4. PICK m \in S : x = n - m
  OBVIOUS
<1>5. ASSUME NEW r \in S PROVE r <= m
  BY <1>3, <1>4
<1> QED BY <1>5

-----------------------------------------------------------------------------
(* The decision *)

\* What the offers are made of
LEMMA OfferParts ==
    ASSUME TypeOK, NEW s \in offers
    PROVE  /\ s \in Submission /\ s.source \in Urls /\ s.canonical \in Urls
           /\ s.body \in Body /\ s.body.tag \in Urls \cup {None}
           /\ s.body.self \in Urls \cup {None}
           /\ s.permanent \in BOOLEAN /\ Own(s) \subseteq Urls
BY MoveAssumption DEF TypeOK, Submission, Body, Own

\* move_target answers with a URL of the submission, or leaves the record where it
\* is; it returns only to a left URL, and only without a wait
LEMMA DecisionParts ==
    ASSUME TypeOK, NEW s \in offers
    PROVE  /\ Decision(s) \in [moved : BOOLEAN, to : Urls, return : BOOLEAN]
           /\ ~Decision(s).moved => Decision(s).to = url /\ ~Decision(s).return
           /\ Decision(s).return => ~Waiting
           /\ Decision(s).return => Decision(s).moved
<1>1. url \in Urls
  BY DEF TypeOK
<1>2. Stay \in [moved : BOOLEAN, to : Urls, return : BOOLEAN]
      /\ ~Stay.moved /\ Stay.to = url /\ ~Stay.return
  BY <1>1 DEF Stay
<1>3. CASE IsUpdate(s)
  <2>1. Decision(s) = RedirectMove(s)
    BY <1>3 DEF Decision
  <2> QED BY <1>2, <2>1, OfferParts DEF RedirectMove
<1>4. CASE ~IsUpdate(s)
  <2>1. Decision(s) = MirrorMove(s)
    BY <1>4 DEF Decision
  <2>2. TriggerUrl(s) \in Urls \cup {None}
    BY OfferParts DEF TriggerUrl
  <2> QED BY <1>2, <2>1, <2>2 DEF MirrorMove
<1> QED BY <1>3, <1>4

\* A body from elsewhere that takes the record back to a left URL: the stored tag
\* named it and the arrival tag did not
LEMMA MirrorReturn ==
    ASSUME TypeOK, NEW s \in offers, ~IsUpdate(s), Decision(s).moved, Decision(s).to \in left
    PROVE  Decision(s).to = declared.tag /\ arrival # declared.tag /\ declared.tag # None
<1>1. Decision(s) = MirrorMove(s) /\ ~Stay.moved
  BY DEF Decision, Stay
<1>2. None \notin left
  BY MoveAssumption DEF TypeOK
<1> QED BY <1>1, <1>2 DEF MirrorMove

-----------------------------------------------------------------------------
(* Every action keeps the parts of the invariant it can disturb *)

\* What URLs serve at the start are submissions
LEMMA WorldsAreSubmissions ==
    ASSUME NEW w \in Worlds
    PROVE  w \subseteq Submission
<1>1. CASE FixedPages
  <2>1. PICK page \in [Urls -> Body], hop \in Hops : w = {Offer(page, hop, u) : u \in Urls}
    BY <1>1 DEF Worlds
  <2>2. ASSUME NEW u \in Urls PROVE Offer(page, hop, u) \in Submission
    <3>1. hop[u] \in [to : Urls, permanent : BOOLEAN] /\ (hop[u].to = u => ~hop[u].permanent)
      BY <2>1 DEF Hops
    <3>2. page[hop[u].to] \in Body
      BY <2>1, <3>1
    <3> QED BY <3>1, <3>2 DEF Offer, Submission
  <2> QED BY <2>1, <2>2
<1>2. CASE ~FixedPages
  BY <1>2 DEF Worlds
<1> QED BY <1>1, <1>2

\* The record that a NewFeed ingest makes
LEMMA InitHolds == Init => MoveIInv
<1> SUFFICES ASSUME Init PROVE MoveIInv
  OBVIOUS
<1>1. offers \subseteq Submission
  BY WorldsAreSubmissions DEF Init
<1>2. PICK s \in offers : /\ url = s.canonical /\ declared = s.body
                          /\ stated = Heard(Silence, s.body.tag)
  BY DEF Init
<1>3. /\ s.canonical \in Urls /\ s.body.tag \in Urls \cup {None}
      /\ declared \in [tag : Urls \cup {None}, self : Urls \cup {None}]
  BY <1>1, <1>2, MoveAssumption DEF Submission, Body
<1>4. stated = [any |-> TRUE, first |-> declared.tag, last |-> declared.tag, changed |-> FALSE]
  BY <1>2 DEF Heard, Silence
<1>5. TypeOK
  <2>1. Cardinality(tail) <= 1
    BY FS_EmptySet DEF Init
  <2>2. /\ offers \in SUBSET Submission /\ url \in Urls
        /\ declared \in [tag : Urls \cup {None}, self : Urls \cup {None}]
        /\ stated \in [any : BOOLEAN, first : Urls \cup {None}, last : Urls \cup {None},
                       changed : BOOLEAN]
    BY <1>1, <1>2, <1>3, <1>4
  <2>3. /\ left \in SUBSET Urls /\ arrival \in Urls \cup {None} /\ pending \in BOOLEAN
        /\ tail \in SUBSET [body : Body, moved : BOOLEAN]
        /\ visited \in SUBSET Urls /\ recent \in SUBSET (0..(Limit - 1))
    BY <2>2 DEF Init
  <2>4. /\ count \in 0..MaxCount /\ age \in 0..Reset
        /\ relocations \in 0..MaxRelocations /\ crashes \in 0..MaxCrashes
    BY MoveAssumption DEF Init
  <2> QED BY <2>1, <2>2, <2>3, <2>4 DEF TypeOK
<1>6. HistoryIsComplete /\ UrlIsVisited /\ TailIsSingle /\ ReturnsAreSpaced
  BY DEF Init, HistoryIsComplete, UrlIsVisited, TailIsSingle, ReturnsAreSpaced
<1>7. UnchangedIsFirst /\ TailWasHeard /\ StoredWasHeard /\ ArrivalIsFirst
  BY <1>4 DEF Init, UnchangedIsFirst, TailWasHeard, StoredWasHeard, ArrivalIsFirst
<1> QED BY <1>5, <1>6, <1>7 DEF MoveIInv

\* What one more body makes of the history of tags
LEMMA HeardParts ==
    ASSUME NEW h \in [any : BOOLEAN, first : Urls \cup {None}, last : Urls \cup {None},
                      changed : BOOLEAN],
           NEW tag \in Urls \cup {None}
    PROVE  /\ Heard(h, tag) \in [any : BOOLEAN, first : Urls \cup {None},
                                 last : Urls \cup {None}, changed : BOOLEAN]
           /\ Heard(h, tag).any /\ Heard(h, tag).last = tag
           /\ ~h.any => Heard(h, tag).first = tag /\ ~Heard(h, tag).changed
           /\ h.any => /\ Heard(h, tag).first = h.first
                       /\ ~Heard(h, tag).changed => ~h.changed /\ tag = h.first
BY DEF Heard

\* A return keeps the spacing: the wait that is over is as long as all the earlier
\* ones together, and Base more
LEMMA ReturnStep ==
    ASSUME MoveIInv, ~Waiting,
           count' = Bounded(EffectiveCount(count, age) + 1),
           age' = 0, recent' = recent \cup {0}
    PROVE  ReturnsAreSpaced' /\ count' \in 0..MaxCount
<1> USE DEF MoveIInv
<1>1. /\ count \in 0..MaxCount /\ age \in 0..Reset /\ recent \in SUBSET (0..(Limit - 1))
      /\ Base \in Nat /\ Limit \in Nat /\ Reset \in Nat /\ MaxCount \in Nat
      /\ Base > 0 /\ MaxCount > 0 /\ Limit <= Reset
  BY MoveAssumption DEF TypeOK
<1>2. IsFiniteSet(recent) /\ Cardinality(recent) \in Nat
  <2>1. IsFiniteSet(0..(Limit - 1))
    BY <1>1, FS_Interval
  <2> QED BY <1>1, <2>1, FS_Subset, FS_CardinalityType
<1>3. EffectiveCount(count, age) \in 0..MaxCount
  BY <1>1 DEF EffectiveCount
<1>4. count' \in 1..MaxCount
  BY <1>1, <1>3 DEF Bounded
<1>5. CASE recent = {}
  <2>1. recent' = {0} /\ Cardinality(recent') = 1
    BY <1>5, FS_Singleton
  <2>2. \A r \in recent' : Younger(r)' = {} /\ r = 0
    BY <2>1 DEF Younger
  <2>3. \A r \in recent' : 2^Cardinality(Younger(r)') = 1
    BY <2>2, FS_EmptySet, PowerOfZero
  <2>4. \A r \in recent' : r >= age' + Base * (2^Cardinality(Younger(r)') - 1)
    BY <1>1, <2>2, <2>3
  <2> QED BY <1>4, <2>1, <2>4 DEF ReturnsAreSpaced
<1>6. CASE recent # {}
  <2>1. /\ age \in recent /\ Cardinality(recent) <= count
        /\ \A r \in recent : r >= age + Base * (2^Cardinality(Younger(r)) - 1)
    BY <1>6 DEF ReturnsAreSpaced
  <2>2. Cardinality(recent) # 0
    BY <1>2, <1>6, FS_EmptySet
  <2>3. EffectiveCount(count, age) = count /\ count >= 1 /\ age < Limit
    BY <1>1, <1>2, <2>1, <2>2 DEF EffectiveCount
  <2> DEFINE p == 2^(count - 1)
  <2>4. count - 1 \in Nat /\ p \in Nat /\ p >= 1
    <3>1. count - 1 \in Nat
      BY <1>1, <2>3
    <3> QED BY <3>1, PowerIsCount, PowerOfZero
  <2>5. age >= Base * p
    BY <1>1, <2>3, <2>4 DEF Waiting, WaitAfter
  <2> HIDE DEF p
  <2>6. count < MaxCount
    <3> SUFFICES ASSUME count = MaxCount PROVE FALSE
      BY <1>1
    <3>1. Base * p >= Limit
      BY MoveAssumption DEF p
    <3> QED BY <1>1, <2>3, <2>4, <2>5, <3>1
  <2>7. count' = count + 1
    BY <1>1, <2>3, <2>6 DEF Bounded
  <2>8. age > 0
    <3>1. Base * 1 <= Base * p
      BY <1>1, <2>4, ProductGrows
    <3>2. Base * p \in Nat
      BY <1>1, <2>4, ProductGrows
    <3> QED BY <1>1, <2>5, <3>1, <3>2
  <2>9. ASSUME NEW r \in recent PROVE r \in Nat /\ r >= age /\ r # 0
    <3> DEFINE y == 2^Cardinality(Younger(r))
    <3>1. Cardinality(Younger(r)) \in Nat
      BY <1>2, FS_Subset, FS_CardinalityType DEF Younger
    <3>2. y \in Nat /\ y >= 1
      BY <3>1, PowerIsCount, PowerOfZero
    <3>3. r >= age + Base * (y - 1) /\ r \in Nat
      BY <1>1, <2>1
    <3> HIDE DEF y
    <3>4. Base * (y - 1) >= 0
      BY <1>1, <3>2
    <3>5. Base * (y - 1) \in Int
      BY <1>1, <3>2
    <3> QED BY <1>1, <2>8, <3>3, <3>4, <3>5
  <2>10. 0 \notin recent /\ Cardinality(recent') = Cardinality(recent) + 1
    BY <1>2, <2>9, FS_AddElement
  <2>11. ASSUME NEW r \in recent' PROVE r >= age' + Base * (2^Cardinality(Younger(r)') - 1)
    <3>1. CASE r = 0
      <4>1. Younger(r)' = {}
        <5>1. \A q \in recent' : ~(q < 0)
          BY <2>9
        <5> QED BY <3>1, <5>1 DEF Younger
      <4>2. 2^Cardinality(Younger(r)') = 1
        BY <4>1, FS_EmptySet, PowerOfZero
      <4> QED BY <1>1, <3>1, <4>2
    <3>2. CASE r # 0
      <4> DEFINE k == Cardinality(Younger(r))
                 y == 2^k
      <4>1. r \in recent
        BY <3>2
      <4>2. Younger(r)' = Younger(r) \cup {0} /\ 0 \notin Younger(r)
        BY <2>8, <2>9, <2>10, <4>1, <1>1 DEF Younger
      <4>3. IsFiniteSet(Younger(r)) /\ k \in Nat
        BY <1>2, FS_Subset, FS_CardinalityType DEF Younger
      <4>4. Cardinality(Younger(r)') = k + 1
        BY <4>2, <4>3, FS_AddElement
      <4>5. k <= count - 1
        <5>1. Younger(r) \subseteq recent /\ Younger(r) # recent
          BY <1>1, <4>1 DEF Younger
        <5>2. k < Cardinality(recent)
          BY <1>2, <4>3, <5>1, FS_Subset
        <5> QED BY <1>1, <1>2, <2>1, <4>3, <5>2
      <4>6. y \in Nat /\ y >= 1 /\ y <= p /\ 2^(k + 1) = 2 * y
        BY <2>4, <4>3, <4>5, PowerIsCount, PowerOfZero, PowerGrows, PowerDoubles DEF p
      <4>7. r >= age + Base * (y - 1) /\ r \in Nat
        BY <2>1, <2>9, <4>1
      <4> HIDE DEF y
      <4>8. Base * y <= Base * p /\ Base * y \in Nat /\ Base * p \in Nat
        BY <1>1, <2>4, <4>6, ProductGrows
      <4>9. Base * (2 * y - 1) = Base * y + Base * (y - 1) /\ Base * (y - 1) \in Int
        BY <1>1, <4>6
      <4>10. r >= Base * (2 * y - 1)
        BY <1>1, <2>5, <4>7, <4>8, <4>9
      <4>11. 2^Cardinality(Younger(r)') = 2 * y
        BY <4>4, <4>6
      <4> HIDE DEF k
      <4>12. Base * (2 * y - 1) \in Int
        BY <1>1, <4>6
      <4> QED BY <4>10, <4>11, <4>12
    <3> QED BY <3>1, <3>2
  <2>12. age' \in recent' /\ Cardinality(recent') <= count'
    BY <1>1, <1>2, <2>1, <2>7, <2>10
  <2> QED BY <1>4, <2>11, <2>12 DEF ReturnsAreSpaced
<1> QED BY <1>5, <1>6

\* Time passes: the ages grow alike, and the oldest return may drop out
LEMMA TickStep ==
    ASSUME MoveIInv, Tick
    PROVE  ReturnsAreSpaced' /\ recent' \in SUBSET (0..(Limit - 1))
<1> USE DEF MoveIInv
<1>1. /\ age \in 0..Reset /\ recent \in SUBSET (0..(Limit - 1)) /\ count \in 0..MaxCount
      /\ Base \in Nat /\ Limit \in Nat /\ MaxCount \in Nat
  BY MoveAssumption DEF TypeOK
<1>2. age' = age + 1 /\ count' = count
      /\ recent' = {a + 1 : a \in {r \in recent : r + 1 < Limit}}
  BY DEF Tick
<1>3. IsFiniteSet(recent)
  <2>1. IsFiniteSet(0..(Limit - 1))
    BY <1>1, FS_Interval
  <2> QED BY <1>1, <2>1, FS_Subset
<1>4. recent' \in SUBSET (0..(Limit - 1)) /\ \A r \in recent' : r - 1 \in recent /\ r \in Nat
  BY <1>1, <1>2
\* A set of shifted ages is not larger than the set it comes from
<1>5. ASSUME NEW A, NEW B, A \subseteq recent', B \subseteq recent, \A r \in A : r - 1 \in B
      PROVE  IsFiniteSet(A) /\ Cardinality(A) \in Nat /\ Cardinality(B) \in Nat
             /\ Cardinality(A) <= Cardinality(B)
  <2> DEFINE f == [r \in A |-> r - 1]
  <2>1. f \in Injection(A, B)
    <3>1. f \in [A -> B]
      BY <1>5
    <3>2. \A r, q \in A : f[r] = f[q] => r = q
      BY <1>4, <1>5
    <3> QED BY <3>1, <3>2 DEF Injection, IsInjective
  <2>2. IsFiniteSet(B)
    BY <1>3, <1>5, FS_Subset
  <2> HIDE DEF f
  <2>3. IsFiniteSet(A) /\ Cardinality(A) <= Cardinality(B)
    BY <2>1, <2>2, FS_Injection
  <2> QED BY <2>2, <2>3, FS_CardinalityType
<1>6. SUFFICES ASSUME recent' # {} PROVE ReturnsAreSpaced'
  BY <1>4 DEF ReturnsAreSpaced
<1>7. /\ age \in recent /\ Cardinality(recent) <= count
      /\ \A r \in recent : r >= age + Base * (2^Cardinality(Younger(r)) - 1)
  BY <1>4, <1>6 DEF ReturnsAreSpaced
<1>8. Cardinality(recent') <= count'
  BY <1>1, <1>2, <1>4, <1>5, <1>7
<1>9. ASSUME NEW r \in recent'
      PROVE  r >= age' + Base * (2^Cardinality(Younger(r)') - 1) /\ age <= r - 1
  <2> DEFINE k == Cardinality(Younger(r - 1))
             j == Cardinality(Younger(r)')
             y == 2^k
             x == 2^j
  <2>1. Younger(r)' \subseteq recent' /\ Younger(r - 1) \subseteq recent
        /\ \A q \in Younger(r)' : q - 1 \in Younger(r - 1)
    BY <1>4 DEF Younger
  <2>2. j \in Nat /\ k \in Nat /\ j <= k
    BY <1>5, <2>1
  <2>3. x \in Nat /\ y \in Nat /\ x >= 1 /\ y >= 1 /\ x <= y
    BY <2>2, PowerIsCount, PowerOfZero, PowerGrows
  <2>4. r - 1 >= age + Base * (y - 1) /\ r \in Nat
    BY <1>4, <1>7
  <2> HIDE DEF x, y, j, k
  <2>5. Base * (x - 1) <= Base * (y - 1) /\ Base * (x - 1) \in Nat /\ Base * (y - 1) \in Nat
    <3>1. x - 1 \in Nat /\ y - 1 \in Nat /\ x - 1 <= y - 1
      BY <2>3
    <3> QED BY <1>1, <3>1, ProductGrows
  <2>6. r >= age' + Base * (x - 1) /\ age <= r - 1
    BY <1>1, <1>2, <2>4, <2>5
  <2> QED BY <2>6 DEF x, j
<1>10. age' \in recent'
  <2>1. PICK r \in recent' : TRUE
    BY <1>6
  <2>2. r < Limit /\ r \in Nat /\ age <= r - 1
    BY <1>1, <1>4, <1>9
  <2> QED BY <1>1, <1>2, <1>7, <2>2
<1> QED BY <1>8, <1>9, <1>10 DEF ReturnsAreSpaced

\* Nothing of the returns changes
LEMMA SameReturns ==
    ASSUME ReturnsAreSpaced, UNCHANGED <<count, age, recent>>
    PROVE  ReturnsAreSpaced'
BY DEF ReturnsAreSpaced, Younger

\* The write phase of an ingest
LEMMA IngestStep ==
    ASSUME MoveIInv, NEW s \in offers, Ingest(s)
    PROVE  MoveIInv'
<1> USE DEF MoveIInv
<1> DEFINE d == Decision(s)
           t == [body |-> s.body, moved |-> d.moved]
           h == IF d.moved THEN Silence ELSE stated
<1>1. /\ d \in [moved : BOOLEAN, to : Urls, return : BOOLEAN]
      /\ ~d.moved => d.to = url /\ ~d.return
      /\ d.return => ~Waiting /\ d.moved
  BY DecisionParts
<1>2. /\ tail = {} /\ url' = d.to /\ tail' = tail \cup {t} /\ visited' = visited \cup {d.to}
      /\ stated' = Heard(h, s.body.tag)
      /\ UNCHANGED <<offers, declared, relocations, crashes>>
  BY DEF Ingest, WriterFree
<1>3. d.moved => /\ left' = (left \cup {url}) \ {d.to}
                 /\ arrival' = s.body.tag /\ pending' = FALSE /\ CountReturn(d)
  BY DEF Ingest, MoveHistory, ArriveWith
<1>4. ~d.moved => UNCHANGED <<left, arrival, pending, count, age, recent>>
  BY DEF Ingest
<1>5. /\ s.body \in Body /\ s.body.tag \in Urls \cup {None}
  BY OfferParts
<1>6. h \in [any : BOOLEAN, first : Urls \cup {None}, last : Urls \cup {None}, changed : BOOLEAN]
      /\ (d.moved => ~h.any) /\ (~d.moved => h = stated)
  BY <1>1 DEF TypeOK, Silence
<1> HIDE DEF h
<1>7. /\ stated' \in [any : BOOLEAN, first : Urls \cup {None},
                      last : Urls \cup {None}, changed : BOOLEAN]
      /\ stated'.any /\ stated'.last = s.body.tag
      /\ ~h.any => stated'.first = s.body.tag /\ ~stated'.changed
      /\ h.any => /\ stated'.first = h.first
                  /\ ~stated'.changed => ~h.changed /\ s.body.tag = h.first
  BY <1>2, <1>5, <1>6, HeardParts
<1>8. t \in [body : Body, moved : BOOLEAN] /\ t.body = s.body /\ t.moved = d.moved
  BY <1>1, <1>5
<1> HIDE DEF d, t
<1>9. tail' = {t} /\ Cardinality(tail') <= 1
  <2>1. tail' = {t}
    BY <1>2
  <2>2. Cardinality({t}) = 1
    BY FS_Singleton
  <2> QED BY <2>1, <2>2
<1>10. /\ count' \in 0..MaxCount /\ age' \in 0..Reset /\ recent' \in SUBSET (0..(Limit - 1))
       /\ ReturnsAreSpaced'
  <2>1. CASE d.return
    <3>1. /\ count' = Bounded(EffectiveCount(count, age) + 1)
          /\ age' = 0 /\ recent' = recent \cup {0}
      BY <1>1, <1>3, <2>1 DEF CountReturn
    <3> QED BY <1>1, <2>1, <3>1, ReturnStep, MoveAssumption DEF TypeOK
  <2>2. CASE ~d.return
    <3>1. UNCHANGED <<count, age, recent>>
      BY <1>3, <1>4, <2>2 DEF CountReturn
    <3> QED BY <3>1, SameReturns DEF TypeOK
  <2> QED BY <2>1, <2>2
<1>11. TypeOK'
  <2>1. left' \in SUBSET Urls /\ arrival' \in Urls \cup {None} /\ pending' \in BOOLEAN
    BY <1>3, <1>4, <1>5 DEF TypeOK
  <2>2. url' \in Urls /\ visited' \in SUBSET Urls /\ tail' \in SUBSET [body : Body, moved : BOOLEAN]
    BY <1>1, <1>2, <1>8, <1>9 DEF TypeOK
  <2> QED BY <1>2, <1>7, <1>9, <1>10, <2>1, <2>2 DEF TypeOK
<1>12. HistoryIsComplete' /\ UrlIsVisited' /\ TailIsSingle'
  <2>1. UrlIsVisited' /\ TailIsSingle'
    BY <1>2, <1>9 DEF UrlIsVisited, TailIsSingle
  <2>2. CASE d.moved
    BY <1>2, <1>3, <2>1, <2>2 DEF HistoryIsComplete, UrlIsVisited
  <2>3. CASE ~d.moved
    BY <1>1, <1>2, <1>4, <2>1, <2>3 DEF HistoryIsComplete, UrlIsVisited
  <2> QED BY <2>1, <2>2, <2>3
<1>13. UnchangedIsFirst'
  BY <1>6, <1>7 DEF UnchangedIsFirst
<1>14. TailWasHeard'
  <2> SUFFICES ASSUME crashes = 0
               PROVE  /\ t.moved => ~pending'
                      /\ pending' => ~stated'.changed
    BY <1>2, <1>7, <1>8, <1>9 DEF TailWasHeard
  <2> QED BY <1>2, <1>3, <1>4, <1>6, <1>7, <1>8 DEF StoredWasHeard, TypeOK
<1>15. StoredWasHeard'
  BY <1>9 DEF StoredWasHeard
<1>16. ArrivalIsFirst'
  <2>1. CASE d.moved
    BY <1>3, <1>6, <1>7, <2>1 DEF ArrivalIsFirst
  <2>2. CASE ~d.moved
    BY <1>2, <1>4, <1>6, <1>7, <2>2 DEF ArrivalIsFirst, StoredWasHeard, TypeOK
  <2> QED BY <2>1, <2>2
<1> QED BY <1>10, <1>11, <1>12, <1>13, <1>14, <1>15, <1>16

\* The declarations of an ingest, all of them or the ones before a crash
LEMMA DeclareStep ==
    ASSUME MoveIInv, NEW t \in tail, NEW k \in 0..3, Declare(t, k),
           \/ k = 3 /\ crashes' = crashes
           \/ crashes' \in 1..MaxCrashes,
           UNCHANGED <<offers, url, left, count, age, relocations, visited, recent, stated>>
    PROVE  MoveIInv'
<1> USE DEF MoveIInv
<1>1. tail = {t} /\ tail' = {}
  BY DEF Declare, TailIsSingle
<1>2. t \in [body : Body, moved : BOOLEAN] /\ t.body.tag \in Urls \cup {None}
      /\ t.body.self \in Urls \cup {None}
  BY MoveAssumption DEF TypeOK, Body
<1>3. declared' \in [tag : Urls \cup {None}, self : Urls \cup {None}]
  BY <1>2 DEF Declare, TypeOK
<1>4. arrival' \in Urls \cup {None} /\ pending' \in BOOLEAN
  BY <1>2 DEF Declare, TypeOK
<1>5. crashes' \in 0..MaxCrashes /\ Cardinality(tail') <= 1
  BY <1>1, FS_EmptySet, MoveAssumption DEF TypeOK
<1>6. TypeOK'
  BY <1>1, <1>3, <1>4, <1>5 DEF TypeOK
<1>7. /\ TailIsSingle' /\ HistoryIsComplete' /\ UrlIsVisited' /\ UnchangedIsFirst'
      /\ TailWasHeard'
  BY <1>1 DEF TailIsSingle, HistoryIsComplete, UrlIsVisited, UnchangedIsFirst, TailWasHeard
<1>8. ReturnsAreSpaced'
  BY SameReturns
<1>9. StoredWasHeard' /\ ArrivalIsFirst'
  <2> SUFFICES ASSUME crashes' = 0 PROVE StoredWasHeard' /\ ArrivalIsFirst'
    BY DEF StoredWasHeard, ArrivalIsFirst
  <2>1. k = 3 /\ crashes = 0
    BY MoveAssumption
  <2>2. /\ stated.any /\ t.body.tag = stated.last
        /\ t.moved => ~pending
        /\ pending => ~stated.changed
    BY <2>1 DEF TailWasHeard
  <2>3. declared'.tag = t.body.tag
    BY <2>1 DEF Declare
  <2>4. /\ t.moved => UNCHANGED <<arrival, pending>>
        /\ ~t.moved => /\ arrival' = IF pending \/ arrival = t.body.tag THEN t.body.tag ELSE None
                       /\ pending' = FALSE
    BY <2>1 DEF Declare
  <2>5. StoredWasHeard'
    BY <1>1, <2>2, <2>3, <2>4 DEF StoredWasHeard, TypeOK
  <2>6. ArrivalIsFirst'
    BY <2>1, <2>2, <2>4 DEF ArrivalIsFirst, UnchangedIsFirst
  <2> QED BY <2>5, <2>6
<1> QED BY <1>6, <1>7, <1>8, <1>9

\* The operator gives the record a URL
LEMMA RelocateStep ==
    ASSUME MoveIInv, NEW u \in Urls, Relocate(u)
    PROVE  MoveIInv'
<1> USE DEF MoveIInv
<1>1. tail = {} /\ tail' = {} /\ Cardinality(tail') <= 1
  BY FS_EmptySet DEF Relocate, WriterFree
<1>2. /\ stated' = Silence /\ pending' = TRUE /\ declared' = [tag |-> None, self |-> None]
      /\ recent' = {} /\ count' = 0 /\ arrival' = None /\ age' = age
      /\ offers' = offers /\ crashes' = crashes /\ url' = u
      /\ left' = (left \cup {url}) \ {u} /\ visited' = visited \cup {u}
      /\ relocations < MaxRelocations /\ relocations' = relocations + 1
  BY DEF Relocate
<1>3. relocations' \in 0..MaxRelocations
  BY <1>2, MoveAssumption DEF TypeOK
<1>4. TypeOK'
  BY <1>1, <1>2, <1>3, MoveAssumption DEF TypeOK, Silence
<1>5. TailIsSingle' /\ HistoryIsComplete' /\ UrlIsVisited'
  BY <1>1, <1>2 DEF TailIsSingle, HistoryIsComplete, UrlIsVisited
<1>6. /\ UnchangedIsFirst' /\ TailWasHeard' /\ StoredWasHeard' /\ ArrivalIsFirst'
      /\ ReturnsAreSpaced'
  BY <1>1, <1>2 DEF UnchangedIsFirst, TailWasHeard, StoredWasHeard, ArrivalIsFirst,
                    ReturnsAreSpaced, Silence
<1> QED BY <1>4, <1>5, <1>6

\* Every step keeps the invariant
LEMMA NextHolds ==
    ASSUME MoveIInv, [Next]_vars
    PROVE  MoveIInv'
<1>1. CASE \E s \in offers : Ingest(s)
  BY <1>1, IngestStep
<1>2. ASSUME NEW t \in tail, FinishIngest(t) PROVE MoveIInv'
  BY <1>2, DeclareStep DEF FinishIngest
<1>3. ASSUME NEW t \in tail, Crash(t) PROVE MoveIInv'
  <2>1. PICK k \in 0..2 : Declare(t, k)
    BY <1>3 DEF Crash
  <2>2. k \in 0..3 /\ crashes' \in 1..MaxCrashes
    BY <1>3, MoveAssumption DEF Crash, MoveIInv, TypeOK
  <2> QED BY <1>3, <2>1, <2>2, DeclareStep DEF Crash
<1>4. CASE \E u \in Urls : Relocate(u)
  BY <1>4, RelocateStep
<1>5. CASE Tick
  <2>1. ReturnsAreSpaced' /\ recent' \in SUBSET (0..(Limit - 1))
    BY <1>5, TickStep
  <2>2. age' \in 0..Reset
    BY <1>5, MoveAssumption DEF Tick, MoveIInv, TypeOK
  <2> QED BY <1>5, <2>1, <2>2
       DEF Tick, MoveIInv, TypeOK, TailIsSingle, HistoryIsComplete, UrlIsVisited,
           UnchangedIsFirst, TailWasHeard, StoredWasHeard, ArrivalIsFirst
<1>6. CASE UNCHANGED vars
  BY <1>6, SameReturns
     DEF vars, MoveIInv, TypeOK, TailIsSingle, HistoryIsComplete, UrlIsVisited,
         UnchangedIsFirst, TailWasHeard, StoredWasHeard, ArrivalIsFirst
<1> QED BY <1>1, <1>2, <1>3, <1>4, <1>5, <1>6 DEF Next

\* The inductive invariant holds in every state
THEOREM MoveInvariant == Spec => []MoveIInv
<1>1. Init => MoveIInv
  BY InitHolds
<1>2. MoveIInv /\ [Next]_vars => MoveIInv'
  BY NextHolds
<1> QED BY <1>1, <1>2, PTL DEF Spec

-----------------------------------------------------------------------------
(* The properties *)

\* The left URLs of a record are the URLs it had before the current one, whatever
\* moves, returns, relocations and crashes there were (db.rs write_feed_move)
THEOREM HistoryIsKept == Spec => []MoveInv
<1>1. MoveIInv => MoveInv
  BY DEF MoveIInv, MoveInv
<1> QED BY <1>1, MoveInvariant, PTL

\* A body from elsewhere takes a record back only by a tag that its source has
\* newly given (api.rs move_target, db.rs clear_arrival_tag_unless)
THEOREM ReturnsAreStatedAnew == Spec => ReturnIsStatedAnew
<1> DEFINE Return(s) == Ingest(s) /\ ~IsUpdate(s) /\ url' \in left /\ crashes = 0
           Anew == /\ stated.any /\ stated.last = url'
                   /\ stated.first # url' \/ stated.changed
<1>1. ASSUME MoveIInv, NEW s \in offers, Return(s) PROVE Anew
  <2> USE DEF MoveIInv
  <2>1. /\ tail = {} /\ crashes = 0 /\ Decision(s).moved /\ url' = Decision(s).to
        /\ url' \in left /\ ~IsUpdate(s)
    BY <1>1 DEF Ingest, WriterFree
  <2>2. url' = declared.tag /\ arrival # url' /\ url' # None
    BY <1>1, <2>1, MirrorReturn
  <2>3. stated.any /\ ~pending /\ stated.last = url'
    BY <1>1, <2>1, <2>2 DEF StoredWasHeard, TypeOK
  <2> QED BY <1>1, <2>1, <2>2, <2>3 DEF UnchangedIsFirst, ArrivalIsFirst
<1>2. MoveIInv /\ [Next]_vars => [\A s \in offers : Return(s) => Anew]_vars
  BY <1>1
<1> QED BY <1>2, MoveInvariant, PTL DEF Spec, ReturnIsStatedAnew

\* Returns that are spaced by the doubling wait are as few as the wait allows
LEMMA SpacedAreRare == ASSUME MoveIInv PROVE ReturnsAreRare
<1>1. /\ count \in 0..MaxCount /\ age \in 0..Reset /\ recent \in SUBSET (0..(Limit - 1))
      /\ Base \in Nat /\ Limit \in Nat \ {0} /\ MaxCount \in Nat
  BY MoveAssumption DEF MoveIInv, TypeOK
<1> DEFINE K == {k \in 0..MaxCount : Base * (2^k - 1) < Limit}
           N == Cardinality(recent)
<1>2. IsFiniteSet(recent) /\ N \in Nat
  <2>1. IsFiniteSet(0..(Limit - 1))
    BY <1>1, FS_Interval
  <2> QED BY <1>1, <2>1, FS_Subset, FS_CardinalityType
<1>3. IsFiniteSet(K) /\ Cardinality(K) \in Nat
  <2>1. IsFiniteSet(0..MaxCount)
    BY <1>1, FS_Interval
  <2>2. K \in SUBSET (0..MaxCount)
    OBVIOUS
  <2> HIDE DEF K
  <2> QED BY <2>1, <2>2, FS_Subset, FS_CardinalityType
<1>4. CASE recent = {}
  <2>1. N = 0
    BY <1>4, FS_EmptySet
  <2> HIDE DEF K, N
  <2>2. N <= Cardinality(K)
    BY <1>3, <2>1
  <2> QED BY <2>2 DEF ReturnsAreRare, ReturnsPerLimit, K, N
<1>5. CASE recent # {}
  <2>1. /\ age \in recent /\ N <= count
        /\ \A r \in recent : r >= age + Base * (2^Cardinality(Younger(r)) - 1)
    BY <1>5 DEF MoveIInv, ReturnsAreSpaced
  <2>2. PICK m \in recent : \A r \in recent : r <= m
    <3>1. Limit - 1 \in Nat
      BY <1>1
    <3> QED BY <1>1, <1>5, <3>1, GreatestNumber
  <2>3. Younger(m) = recent \ {m}
    <3>1. \A q \in recent : q < m <=> q # m
      BY <1>1, <2>2
    <3> QED BY <3>1 DEF Younger
  <2>4. Cardinality(Younger(m)) = N - 1 /\ N # 0
    BY <1>2, <1>5, <2>3, FS_RemoveElement, FS_EmptySet
  <2> DEFINE y == 2^(N - 1)
  <2>5. N - 1 \in Nat /\ y \in Nat /\ y >= 1
    <3>1. N - 1 \in Nat
      BY <1>2, <2>4
    <3> QED BY <3>1, PowerIsCount, PowerOfZero
  <2>6. m >= age + Base * (y - 1) /\ m < Limit
    BY <1>1, <2>1, <2>2, <2>4
  <2>7. ASSUME NEW k \in 0..(N - 1) PROVE k \in K
    <3> DEFINE x == 2^k
    <3>1. k \in 0..MaxCount /\ k \in Nat /\ k <= N - 1
      BY <1>1, <1>2, <2>1, <2>5
    <3>2. x \in Nat /\ x >= 1 /\ x <= y
      BY <2>5, <3>1, PowerIsCount, PowerOfZero, PowerGrows
    <3> HIDE DEF x, y
    <3>3. Base * (x - 1) <= Base * (y - 1) /\ Base * (x - 1) \in Nat /\ Base * (y - 1) \in Nat
      <4>1. x - 1 \in Nat /\ y - 1 \in Nat /\ x - 1 <= y - 1
        BY <2>5, <3>2
      <4> QED BY <1>1, <4>1, ProductGrows
    <3>4. Base * (x - 1) < Limit
      BY <1>1, <2>2, <2>6, <3>3
    <3> QED BY <3>1, <3>4 DEF x
  <2> HIDE DEF K
  <2>8. 0..(N - 1) \in SUBSET K /\ Cardinality(0..(N - 1)) = N
    <3>1. 0..(N - 1) \in SUBSET K
      BY <2>7
    <3>2. 0 \in Int /\ N - 1 \in Int /\ ~(0 > N - 1) /\ N - 1 - 0 + 1 = N
      BY <1>2, <2>5
    <3> HIDE DEF N
    <3>3. Cardinality(0..(N - 1)) = N - 1 - 0 + 1
      BY <3>2, FS_Interval
    <3> QED BY <3>1, <3>2, <3>3
  <2>9. N <= Cardinality(K)
    BY <1>3, <2>8, FS_Subset
  <2> QED BY <2>9 DEF ReturnsAreRare, ReturnsPerLimit, K
<1> QED BY <1>4, <1>5

\* No stretch of Limit holds more returns than the doubling wait allows (api.rs
\* return_cooldown_end, next_return_values)
THEOREM ReturnsStayRare == Spec => []ReturnsAreRare
<1>1. MoveIInv => ReturnsAreRare
  BY SpacedAreRare
<1> QED BY <1>1, MoveInvariant, PTL
=============================================================================
