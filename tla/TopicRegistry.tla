---------------------------- MODULE TopicRegistry ----------------------------
(***************************************************************************)
(* What the topic manager of a node promises to its callers, with neither  *)
(* mutex, nor handles, nor pubsub: a topic is absent, joined, or has one   *)
(* listener, and gets from one to the next in single steps; the node takes *)
(* in a content once, and while it is live only on a topic that is not     *)
(* absent; what was taken in is handled at most once.  TopicManager        *)
(* implements this.                                                        *)
(***************************************************************************)
EXTENDS Naturals

CONSTANTS Topics, Listeners, Msgs

VARIABLES
    state,      \* state[t]: "absent", "joined", or the listener of t
    accepted,   \* the contents taken in
    handled,    \* handled[m]: times the handler got m
    closed      \* the node's context is done

vars == <<state, accepted, handled, closed>>

Init ==
    /\ state = [t \in Topics |-> "absent"]
    /\ accepted = {}
    /\ handled = [m \in Msgs |-> 0]
    /\ closed = FALSE

\* Topic t goes from one of the states in From to the state to.
Move(t, From, to) ==
    /\ state[t] \in From
    /\ state' = [state EXCEPT ![t] = to]
    /\ UNCHANGED <<accepted, handled, closed>>

Join(t) == Move(t, {"absent"}, "joined")

Listen(t, l) == Move(t, {"joined"}, l)

\* Leave: a listener goes before its topic does.
Unlisten(t) == Move(t, Listeners, "joined")

Leave(t) == Move(t, {"joined"}, "absent")

Accept(t, m) ==
    /\ m \notin accepted
    /\ state[t] # "absent" \/ closed
    /\ accepted' = accepted \cup {m}
    /\ UNCHANGED <<state, handled, closed>>

Handle(m) ==
    /\ m \in accepted
    /\ handled[m] = 0
    /\ handled' = [handled EXCEPT ![m] = 1]
    /\ UNCHANGED <<state, accepted, closed>>

Close ==
    /\ closed' = TRUE
    /\ UNCHANGED <<state, accepted, handled>>

Next ==
    \/ \E t \in Topics :
        \/ Join(t) \/ Unlisten(t) \/ Leave(t)
        \/ \E l \in Listeners : Listen(t, l)
        \/ \E m \in Msgs : Accept(t, m)
    \/ \E m \in Msgs : Handle(m)
    \/ Close

Spec == Init /\ [][Next]_vars

=============================================================================
