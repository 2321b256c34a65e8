---------------------------- MODULE TopicManager ----------------------------
(***************************************************************************)
(* The topic manager of a node (plans/topology/topic_manager.go), with the *)
(* Listen loop, the message validator and the message id of pubsub.go.     *)
(*                                                                         *)
(* Any goroutine may call Listen, Join, Leave or Publish.  Join, Leave and *)
(* Subscribe hold tm.mutex for their whole length, across several calls    *)
(* into pubsub; Publish only reads tm.topics under it and then uses the    *)
(* handle it read.  A call into pubsub is one turn of pubsub's event loop, *)
(* hence one step, merged with what the caller does under the mutex up to  *)
(* its next call.  Calls that change nothing (Join of a joined topic,      *)
(* Listen on a topic somebody listens to, Publish on an unknown topic,     *)
(* a failing ps.Join) are stuttering steps and are not written down.       *)
(*                                                                         *)
(* pubsub is external.  What is assumed of it: one handle per topic until  *)
(* it is closed; Close fails while the topic has subscriptions, and waits  *)
(* for the Publish calls that are using the handle; a message is marked    *)
(* seen and meets the validators registered at that moment, and reaches    *)
(* later the subscriptions there are by then; a subscription drops         *)
(* messages when its buffer is full, and hands out what it has buffered    *)
(* before it reports that it was cancelled; after its context is done the  *)
(* loop may serve some more calls, and ends.                               *)
(***************************************************************************)
EXTENDS Naturals, Sequences, FiniteSets

CONSTANTS
    Goroutines,     \* the callers; a Listen call is known by its goroutine,
                    \* and so is the one subscription it creates
    Topics,         \* topic names
    Msgs,           \* message contents
    Undecodable,    \* contents that decodeMsg rejects
    Handles,        \* identities of *pubsub.Topic
    BufferSize,     \* bound: messages a subscription buffers (32 in pubsub)
    None

ASSUME TopicsAssumption ==
    /\ Undecodable \subseteq Msgs
    /\ BufferSize \in Nat \ {0}
    /\ None \notin Goroutines \cup Handles
    /\ Goroutines \cap {"absent", "joined"} = {}
    /\ IsFiniteSet(Goroutines) /\ IsFiniteSet(Topics) /\ IsFiniteSet(Handles)
    /\ Cardinality(Handles) > Cardinality(Topics) + Cardinality(Goroutines)

VARIABLES
    mutex,          \* the goroutine that holds tm.mutex for writing
    topics,         \* tm.topics: the handle of a joined topic
    subs,           \* tm.subs: the subscription to a topic
    joined,         \* pubsub: the open handle of a topic
    subscribers,    \* pubsub: the subscriptions to a topic
    validators,     \* pubsub: the topics with a validator
    seen,           \* pubsub: ids of the messages seen
    inFlight,       \* pubsub: messages seen and not delivered yet
    up,             \* pubsub: the event loop runs
    ctx,            \* contexts: "live"; "closed": n.ctx is done;
                    \* "done": its parent, which Listen uses, is done too
    call,           \* call[g]: where the call of goroutine g is
    buffer,         \* buffer[g]: messages waiting in g's subscription
    handled,        \* handled[m]: times msgHandler got m
    errors          \* times errHandler was called

tmVars == <<mutex, topics, subs>>
netVars == <<validators, seen, inFlight, up>>
outVars == <<handled, errors>>
vars == <<tmVars, joined, subscribers, netVars, ctx, call, buffer, outVars>>

Idle == [at |-> "idle"]

Calls ==
    {Idle}
    \cup [at : {"publishing", "sending"}, topic : Topics, msg : Msgs, handle : Handles]
    \cup [at : {"unregistering", "registering"}, topic : Topics, listen : BOOLEAN]
    \cup [at : {"subscribing", "reading", "leaving"}, topic : Topics]

\* A message as pubsub hands it out; checked: msgValidator set ValidatorData.
Deliveries == [topic : Topics, msg : Msgs, checked : BOOLEAN]

Init ==
    /\ mutex = None
    /\ topics = [t \in Topics |-> None]
    /\ subs = [t \in Topics |-> None]
    /\ joined = [t \in Topics |-> None]
    /\ subscribers = [t \in Topics |-> {}]
    /\ validators = {}
    /\ seen = {}
    /\ inFlight = {}
    /\ up = TRUE
    /\ ctx = "live"
    /\ call = [g \in Goroutines |-> Idle]
    /\ buffer = [g \in Goroutines |-> <<>>]
    /\ handled = [m \in Msgs |-> 0]
    /\ errors = 0

At(g, place) == call[g].at = place

Goto(g, c) == call' = [call EXCEPT ![g] = c]

Return(g) == Goto(g, Idle)

\* A call of g that needs the mutex begins.
Lock(g) == At(g, "idle") /\ mutex = None /\ mutex' = g

Unlock == mutex' = None

-----------------------------------------------------------------------------
(* Messages *)

\* Faulty variant: the id depends on the topic too.
MsgIDWithTopic(t, m) == <<t, m>>

\* The id of a message is a hash of its content alone.
msgID(t, m) == m

\* msgValidator, where it is registered, rejects what does not decode.
Accepted(t, m) == t \in validators => m \notin Undecodable

\* pubsub takes in a message it has not seen.
Push(t, m) ==
    /\ seen' = seen \cup {msgID(t, m)}
    /\ inFlight' = IF Accepted(t, m)
                   THEN inFlight \cup {[topic |-> t, msg |-> m, checked |-> t \in validators]}
                   ELSE inFlight

\* A message comes from a peer; only topics subscribed to are looked at.
Receive(t, m) ==
    /\ up
    /\ subscribers[t] # {}
    /\ msgID(t, m) \notin seen
    /\ Push(t, m)
    /\ UNCHANGED <<tmVars, joined, subscribers, validators, up, ctx, call, buffer, outVars>>

\* A message reaches the subscriptions of its topic that have room for it.
Deliver(d) ==
    /\ up
    /\ d \in inFlight
    /\ inFlight' = inFlight \ {d}
    /\ buffer' = [g \in Goroutines |->
            IF g \in subscribers[d.topic] /\ Len(buffer[g]) < BufferSize
            THEN Append(buffer[g], d) ELSE buffer[g]]
    /\ UNCHANGED <<tmVars, joined, subscribers, validators, seen, up, ctx, call, outVars>>

-----------------------------------------------------------------------------
(* Publish *)

\* Faulty variant: an unknown topic is not noticed.
Whatever(t) == TRUE

Found(t) == topics[t] # None

\* The handle is read under the read lock, which is released.
Publish(g, t, m) ==
    /\ At(g, "idle")
    /\ mutex = None
    /\ Found(t)
    /\ Goto(g, [at |-> "publishing", topic |-> t, msg |-> m, handle |-> topics[t]])
    /\ UNCHANGED <<tmVars, joined, subscribers, netVars, ctx, buffer, outVars>>

\* The topic was left since, or the message is a duplicate.
PublishNothing(g) ==
    /\ At(g, "publishing")
    /\ \/ call[g].handle # joined[call[g].topic]
       \/ msgID(call[g].topic, call[g].msg) \in seen
    /\ Return(g)
    /\ UNCHANGED <<tmVars, joined, subscribers, netVars, ctx, buffer, outVars>>

\* Validation sleeps in the caller, which keeps the handle from being closed.
PublishPush(g) ==
    /\ At(g, "publishing")
    /\ call[g].handle = joined[call[g].topic]
    /\ msgID(call[g].topic, call[g].msg) \notin seen
    /\ Push(call[g].topic, call[g].msg)
    /\ Goto(g, [call[g] EXCEPT !.at = "sending"])
    /\ UNCHANGED <<tmVars, joined, subscribers, validators, up, ctx, buffer, outVars>>

PublishReturn(g) ==
    /\ At(g, "sending")
    /\ Return(g)
    /\ UNCHANGED <<tmVars, joined, subscribers, netVars, ctx, buffer, outVars>>

-----------------------------------------------------------------------------
(* Join and Subscribe, and the private join they share *)

Unused(h) ==
    /\ \A t \in Topics : h # topics[t] /\ h # joined[t]
    /\ \A g \in Goroutines : call[g].at \in {"publishing", "sending"} => h # call[g].handle

NewHandle == CHOOSE h \in Handles : Unused(h)

\* Listen on a topic that is joined already.
ListenJoined(g, t) ==
    /\ ctx # "done"
    /\ subs[t] = None
    /\ topics[t] # None
    /\ Lock(g)
    /\ Goto(g, [at |-> "subscribing", topic |-> t])
    /\ UNCHANGED <<topics, subs, joined, subscribers, netVars, ctx, buffer, outVars>>

\* Join, or Listen (listen), of a topic that is not: ps.Join.
Join(g, t, listen) ==
    /\ listen => ctx # "done" /\ subs[t] = None
    /\ topics[t] = None
    /\ Lock(g)
    /\ up
    /\ joined[t] = None
    /\ joined' = [joined EXCEPT ![t] = NewHandle]
    /\ Goto(g, [at |-> "unregistering", topic |-> t, listen |-> listen])
    /\ UNCHANGED <<topics, subs, subscribers, netVars, ctx, buffer, outVars>>

\* Faulty variant: the validator of an earlier join is not removed first.
KeepValidator(t) == UNCHANGED validators

DropValidator(t) == validators' = validators \ {t}

\* An earlier join may have left its validator; errors are ignored.
UnregisterTopicValidator(g) ==
    /\ At(g, "unregistering")
    /\ \/ up /\ DropValidator(call[g].topic)
       \/ ctx # "live" /\ UNCHANGED validators
    /\ Goto(g, [call[g] EXCEPT !.at = "registering"])
    /\ UNCHANGED <<tmVars, joined, subscribers, seen, inFlight, up, ctx, buffer, outVars>>

\* Faulty variant: the validator is never registered.
NoValidator(t) == UNCHANGED validators

AddValidator(t) == t \notin validators /\ validators' = validators \cup {t}

\* The validator is in place and tm.topics gets its entry; Join returns.
RegisterTopicValidator(g) ==
    /\ At(g, "registering")
    /\ up
    /\ AddValidator(call[g].topic)
    /\ topics' = [topics EXCEPT ![call[g].topic] = joined[call[g].topic]]
    /\ IF call[g].listen
       THEN Goto(g, [at |-> "subscribing", topic |-> call[g].topic]) /\ UNCHANGED mutex
       ELSE Return(g) /\ Unlock
    /\ UNCHANGED <<subs, joined, subscribers, seen, inFlight, up, ctx, buffer, outVars>>

\* Faulty variant: the error path forgets the mutex.
RegisterFailsLocked(g) ==
    /\ At(g, "registering")
    /\ ctx # "live" \/ call[g].topic \in validators
    /\ Return(g)
    /\ UNCHANGED <<tmVars, joined, subscribers, netVars, ctx, buffer, outVars>>

\* The error is returned: pubsub keeps the topic, tm.topics does not.
RegisterFails(g) ==
    /\ At(g, "registering")
    /\ ctx # "live" \/ call[g].topic \in validators
    /\ Unlock
    /\ Return(g)
    /\ UNCHANGED <<topics, subs, joined, subscribers, netVars, ctx, buffer, outVars>>

\* topic.Subscribe; Listen enters its loop unless its context is done.
Subscribe(g) ==
    /\ At(g, "subscribing")
    /\ up
    /\ subscribers' = [subscribers EXCEPT ![call[g].topic] = @ \cup {g}]
    /\ subs' = [subs EXCEPT ![call[g].topic] = g]
    /\ Unlock
    /\ IF ctx = "done" THEN Return(g) ELSE Goto(g, [call[g] EXCEPT !.at = "reading"])
    /\ buffer' = [buffer EXCEPT ![g] = <<>>]
    /\ UNCHANGED <<topics, joined, netVars, ctx, outVars>>

SubscribeFails(g) ==
    /\ At(g, "subscribing")
    /\ ctx # "live"
    /\ Unlock
    /\ Return(g)
    /\ UNCHANGED <<topics, subs, joined, subscribers, netVars, ctx, buffer, outVars>>

-----------------------------------------------------------------------------
(* The Listen loop *)

\* sub.Next returns a message, which goes to its handler.
Read(g) ==
    /\ At(g, "reading")
    /\ buffer[g] # <<>>
    /\ LET d == Head(buffer[g]) IN
        IF d.checked
        THEN handled' = [handled EXCEPT ![d.msg] = @ + 1] /\ UNCHANGED errors
        ELSE errors' = errors + 1 /\ UNCHANGED handled
    /\ buffer' = [buffer EXCEPT ![g] = Tail(@)]
    /\ IF ctx = "done" THEN Return(g) ELSE UNCHANGED call
    /\ UNCHANGED <<tmVars, joined, subscribers, netVars, ctx>>

Cancelled(g) == buffer[g] = <<>> /\ g \notin subscribers[call[g].topic]

\* Faulty variants: only the context ends the loop; only Leave does; a topic
\* that was left ends it before the buffer is drained.
OnlyDone(g) == ctx = "done"
OnlyCancelled(g) == Cancelled(g)
Undrained(g) == ctx = "done" \/ g \notin subscribers[call[g].topic]

\* Listen's context is done, or the subscription is cancelled and drained.
Over(g) == ctx = "done" \/ Cancelled(g)

ReadEnd(g) ==
    /\ At(g, "reading")
    /\ Over(g)
    /\ buffer' = [buffer EXCEPT ![g] = <<>>]
    /\ Return(g)
    /\ UNCHANGED <<tmVars, joined, subscribers, netVars, ctx, outVars>>

-----------------------------------------------------------------------------
(* Leave *)

\* Faulty variant: tm.subs keeps its entry.
KeepSub(t) == UNCHANGED subs

DeleteSub(t) == subs' = [subs EXCEPT ![t] = None]

\* First the subscription, if any, is cancelled ...
Leave(g, t) ==
    /\ Lock(g)
    /\ DeleteSub(t)
    /\ \/ up /\ subscribers' = [subscribers EXCEPT ![t] = @ \ {subs[t]}]
       \/ ctx # "live" /\ UNCHANGED subscribers
    /\ Goto(g, [at |-> "leaving", topic |-> t])
    /\ UNCHANGED <<topics, joined, netVars, ctx, buffer, outVars>>

InUse(h) == \E g \in Goroutines : At(g, "sending") /\ call[g].handle = h

\* ... then tm.topics forgets the topic, and pubsub closes it if it can.
LeaveClose(g) ==
    /\ At(g, "leaving")
    /\ LET t == call[g].topic IN
        /\ ~InUse(topics[t])
        /\ topics' = [topics EXCEPT ![t] = None]
        /\ \/ /\ topics[t] # None /\ up /\ subscribers[t] = {}
              /\ joined' = [joined EXCEPT ![t] = None]
           \/ /\ topics[t] = None \/ ctx # "live" \/ subscribers[t] # {}
              /\ UNCHANGED joined
    /\ Unlock
    /\ Return(g)
    /\ UNCHANGED <<subs, subscribers, netVars, ctx, buffer, outVars>>

-----------------------------------------------------------------------------
(* Contexts *)

\* Node.Close cancels the node's context.
Close ==
    /\ ctx = "live"
    /\ ctx' = "closed"
    /\ UNCHANGED <<tmVars, joined, subscribers, netVars, call, buffer, outVars>>

\* The caller of NewNode and Listen cancels the parent of all contexts.
CancelParent ==
    /\ ctx # "done"
    /\ ctx' = "done"
    /\ UNCHANGED <<tmVars, joined, subscribers, netVars, call, buffer, outVars>>

LoopExit ==
    /\ up
    /\ ctx # "live"
    /\ up' = FALSE
    /\ UNCHANGED <<tmVars, joined, subscribers, validators, seen, inFlight, ctx, call,
                   buffer, outVars>>

-----------------------------------------------------------------------------

\* The steps of a call once it has begun.
Proceed(g) ==
    \/ PublishNothing(g) \/ PublishPush(g) \/ PublishReturn(g)
    \/ UnregisterTopicValidator(g) \/ RegisterTopicValidator(g) \/ RegisterFails(g)
    \/ Subscribe(g) \/ SubscribeFails(g)
    \/ Read(g) \/ ReadEnd(g)
    \/ LeaveClose(g)

Next ==
    \/ \E g \in Goroutines :
        \/ Proceed(g)
        \/ \E t \in Topics :
            \/ \E m \in Msgs : Publish(g, t, m)
            \/ \E listen \in BOOLEAN : Join(g, t, listen)
            \/ ListenJoined(g, t)
            \/ Leave(g, t)
    \/ \E t \in Topics, m \in Msgs : Receive(t, m)
    \/ \E d \in inFlight : Deliver(d)
    \/ Close \/ CancelParent \/ LoopExit

Spec == Init /\ [][Next]_vars

\* A call that has begun goes on: between its steps it only waits for pubsub's
\* loop, which serves every request or ends, and for a Publish on the topic it
\* closes.  Nothing makes a call begin, a message arrive or a context end.
FairSpec ==
    /\ Spec
    /\ \A g \in Goroutines : WF_vars(Proceed(g))

-----------------------------------------------------------------------------
(* Properties *)

TypeOK ==
    /\ mutex \in Goroutines \cup {None}
    /\ topics \in [Topics -> Handles \cup {None}]
    /\ subs \in [Topics -> Goroutines \cup {None}]
    /\ joined \in [Topics -> Handles \cup {None}]
    /\ subscribers \in [Topics -> SUBSET Goroutines]
    /\ validators \subseteq Topics
    /\ seen \subseteq Msgs
    /\ inFlight \subseteq Deliveries
    /\ up \in BOOLEAN
    /\ ctx \in {"live", "closed", "done"}
    /\ call \in [Goroutines -> Calls]
    /\ buffer \in [Goroutines -> Seq(Deliveries)]
    /\ handled \in [Msgs -> Nat]
    /\ errors \in Nat

\* While the node is live and no call is half way, the manager's maps say
\* exactly what pubsub holds: no topic is joined that the manager forgot (a
\* later Join would fail for ever), none is open without its validator, and
\* each topic has the one subscription of tm.subs.
MapsMatchPubsub ==
    ctx = "live" /\ mutex = None =>
        /\ topics = joined
        /\ \A t \in Topics :
            /\ topics[t] # None => t \in validators
            /\ subs[t] # None => topics[t] # None
            /\ subscribers[t] = {subs[t]} \ {None}

\* An entry of tm.subs has a goroutine reading it until the parent context is
\* done; otherwise the next Listen returns at once and nobody ever reads.
EveryEntryRead ==
    ctx # "done" =>
        \A t \in Topics : subs[t] # None =>
            call[subs[t]] = [at |-> "reading", topic |-> t]

\* A node handles a message at most once, however many topics, peers and
\* goroutines offer it and whatever is left and joined again meanwhile.
HandledOnce == \A m \in Msgs : handled[m] <= 1

\* Listen never finds a message that its validator has not decoded, although
\* validators come and go with Leave and Join (node_test.go:93).
NoListenError == errors = 0

\* The manager, which needs several calls into pubsub for each of its own,
\* implements TopicRegistry: a topic counts as joined once tm.topics has it, and
\* whatever handles callers have kept, and whatever fails half way, a content is
\* taken in once, on a topic that is joined, and is handled once.
RegistryState(t) ==
    IF topics[t] = None THEN "absent" ELSE IF subs[t] = None THEN "joined" ELSE subs[t]

Registry == INSTANCE TopicRegistry WITH
    Listeners <- Goroutines,
    state <- [t \in Topics |-> RegistryState(t)],
    accepted <- seen \ Undecodable,
    closed <- ctx # "live"

KeepsRegistry == Registry!Spec

\* The inductive invariant behind these properties.

\* Calls are at these places exactly while they hold the mutex.
Locked == {"unregistering", "registering", "subscribing", "leaving"}

OneHolder == \A g \in Goroutines : call[g].at \in Locked <=> mutex = g

Joining(g) == call[g].at \in {"unregistering", "registering"}

\* A caller is using the open handle of its topic, or is about to.
Holds(g) ==
    call[g].at \in {"publishing", "sending"} /\ call[g].handle = joined[call[g].topic]

\* What the maps say, pubsub has, whoever holds the mutex: a failing Leave makes
\* the manager forget what pubsub keeps, never the other way round.
MapsBacked ==
    \A t \in Topics :
        /\ topics[t] # None => topics[t] = joined[t] /\ t \in validators
        /\ subs[t] # None => topics[t] # None /\ subs[t] \in subscribers[t]
        /\ subscribers[t] # {} => joined[t] # None /\ t \in validators
        /\ \A g, h \in subscribers[t] : g = h

\* A subscription nobody has an entry for belongs to a topic that is being left,
\* or was.
NoStraySubscription ==
    \A t \in Topics :
        topics[t] # None =>
            \/ subscribers[t] \subseteq {subs[t]}
            \/ \E g \in Goroutines : At(g, "leaving") /\ call[g].topic = t

\* What a call relies on after it has let others in between.
OnTrack(g) ==
    LET t == call[g].topic IN
        /\ Joining(g) =>
            /\ topics[t] = None /\ joined[t] # None /\ subscribers[t] = {}
            /\ \A h \in Goroutines : Holds(h) => call[h].topic # t
            /\ ctx = "live" /\ At(g, "registering") => t \notin validators
        /\ At(g, "subscribing") => topics[t] # None /\ subs[t] = None
        /\ At(g, "leaving") => subs[t] = None /\ (ctx = "live" => subscribers[t] = {})
        /\ Holds(g) => t \in validators

CallsOnTrack == \A g \in Goroutines : OnTrack(g)

\* While Listen's context lasts, every subscription is read.
SubscribersRead ==
    ctx # "done" =>
        \A t \in Topics : \A g \in subscribers[t] : At(g, "reading") /\ call[g].topic = t

\* While the node is live, the manager forgets nothing.
LiveAgrees ==
    ctx = "live" =>
        /\ up
        /\ \A t \in Topics :
            topics[t] = joined[t] \/ \E g \in Goroutines : Joining(g) /\ call[g].topic = t

\* A content has been seen wherever it is, and is in one place: on its way, in one
\* buffer, or handled.  All that is on its way has been validated.
Buffered(m) == \E g \in Goroutines : \E k \in DOMAIN buffer[g] : buffer[g][k].msg = m

Good(d) == d.checked /\ d.msg \in seen \ Undecodable /\ handled[d.msg] = 0

MessagesOnce ==
    /\ \A d \in inFlight : Good(d) /\ ~Buffered(d.msg)
    /\ \A d, e \in inFlight : d.msg = e.msg => d = e
    /\ \A g \in Goroutines : \A k \in DOMAIN buffer[g] : Good(buffer[g][k])
    /\ \A g, h \in Goroutines : \A k \in DOMAIN buffer[g], l \in DOMAIN buffer[h] :
        buffer[g][k].msg = buffer[h][l].msg => g = h /\ k = l
    /\ \A m \in Msgs : handled[m] <= 1 /\ (handled[m] = 1 => m \in seen)

IInv ==
    /\ TypeOK
    /\ OneHolder
    /\ MapsBacked
    /\ NoStraySubscription
    /\ CallsOnTrack
    /\ SubscribersRead
    /\ LiveAgrees
    /\ MessagesOnce
    /\ NoListenError

\* Every call that holds the mutex returns.
CallsReturn == \A g \in Goroutines : mutex = g ~> mutex # g

\* The listener of a topic that was left ends; and when their context is done all
\* listeners end, and stay ended.
ListenersEnd ==
    /\ \A g \in Goroutines :
        (At(g, "reading") /\ g \notin subscribers[call[g].topic]) ~> ~At(g, "reading")
    /\ ctx = "done" ~> [](\A g \in Goroutines : ~At(g, "reading"))

\* What a subscription has buffered is handled, even if the topic is left.
BufferedHandled ==
    \A g \in Goroutines, m \in Msgs :
        (\E i \in DOMAIN buffer[g] : buffer[g][i].msg = m)
            ~> (handled[m] > 0 \/ ctx = "done")

=============================================================================
