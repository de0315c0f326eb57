--------------------------- MODULE PrefixReplica ---------------------------
(***************************************************************************)
(* What replication promises a reader of a community node: the tables it   *)
(* serves are, at every moment, the tables the primary had after some      *)
(* prefix of its committed event log, and that prefix only grows.          *)
(***************************************************************************)
EXTENDS Naturals, Sequences

CONSTANT Empty      \* the tables of a new node

VARIABLES
    hist,   \* hist[n]: the primary's tables after its n-th committed event
    view,   \* the tables the replica serves
    at      \* the length of the prefix the replica has reached

vars == <<hist, view, at>>

Init == hist = <<>> /\ view = Empty /\ at = 0

\* The primary commits: the history is extended, never rewritten
Publish ==
    /\ Len(hist') > Len(hist)
    /\ \A n \in 1..Len(hist) : hist'[n] = hist[n]
    /\ UNCHANGED <<view, at>>

\* The replica moves to a longer prefix in one visible step
CatchUp ==
    /\ \E n \in (at + 1)..Len(hist) : at' = n /\ view' = hist[n]
    /\ UNCHANGED hist

Next == Publish \/ CatchUp

Spec == Init /\ [][Next]_vars
=============================================================================
