----------------------------- MODULE PeerBudget ------------------------------
(***************************************************************************)
(* What the connection limiter of a node promises to the rest of it, with  *)
(* neither mutex, nor swarm, nor callbacks: a budget of Limit + 1 slots    *)
(* and the set of peers that are tracked.  Tracking a peer takes one slot, *)
(* in the same step; releasing a peer gives one slot back, in the same     *)
(* step; forgetting peers gives none back.  PeerLimiter implements this.   *)
(***************************************************************************)
EXTENDS Integers

CONSTANTS Peers, Limit

VARIABLES
    tracked,    \* the peers that hold a slot and can give it back
    used        \* slots in use

Init == tracked = {} /\ used = 0

Track(p) ==
    /\ p \notin tracked
    /\ used <= Limit
    /\ tracked' = tracked \cup {p}
    /\ used' = used + 1

Release(p) ==
    /\ p \in tracked
    /\ tracked' = tracked \ {p}
    /\ used' = used - 1

Forget(S) ==
    /\ tracked' = tracked \ S
    /\ UNCHANGED used

Next ==
    \/ \E p \in Peers : Track(p) \/ Release(p)
    \/ \E S \in SUBSET Peers : Forget(S)

Spec == Init /\ [][Next]_<<tracked, used>>

=============================================================================
