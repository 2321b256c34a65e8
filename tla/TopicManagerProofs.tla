-------------------------- MODULE TopicManagerProofs --------------------------
(***************************************************************************)
(* Proofs about TopicManager for any number of goroutines, topics,         *)
(* messages and handles and any size of buffers.  The invariant IInv is    *)
(* inductive; each lemma Step... shows that a step preserves one of its    *)
(* conjuncts, action by action.                                            *)
(***************************************************************************)
EXTENDS TopicManager, FiniteSetTheorems, FunctionTheorems, SequenceTheorems, TLAPS

-----------------------------------------------------------------------------
(* Calls and handles *)

\* What a call carries at each of its places.
LEMMA CallFields ==
  ASSUME TypeOK, NEW g \in Goroutines
  PROVE  /\ call[g].at \in {"idle", "publishing", "sending", "unregistering", "registering",
                            "subscribing", "reading", "leaving"}
         /\ call[g].at # "idle" => call[g].topic \in Topics
         /\ call[g].at \in {"publishing", "sending"} =>
                /\ call[g] = [at |-> call[g].at, topic |-> call[g].topic,
                              msg |-> call[g].msg, handle |-> call[g].handle]
                /\ call[g].msg \in Msgs /\ call[g].handle \in Handles
         /\ Joining(g) =>
                /\ call[g] = [at |-> call[g].at, topic |-> call[g].topic,
                              listen |-> call[g].listen]
                /\ call[g].listen \in BOOLEAN
         /\ call[g].at \in {"subscribing", "reading", "leaving"} =>
                call[g] = [at |-> call[g].at, topic |-> call[g].topic]
         /\ call[g].at = "idle" => call[g] = Idle
<1>1. call[g] \in Calls
  BY DEF TypeOK
<1>2. CASE call[g] = Idle
  BY <1>2 DEF Idle, Joining
<1>3. CASE call[g] \in [at : {"publishing", "sending"}, topic : Topics, msg : Msgs,
                        handle : Handles]
  BY <1>3 DEF Joining
<1>4. CASE call[g] \in [at : {"unregistering", "registering"}, topic : Topics,
                        listen : BOOLEAN]
  BY <1>4 DEF Joining
<1>5. CASE call[g] \in [at : {"subscribing", "reading", "leaving"}, topic : Topics]
  BY <1>5 DEF Joining
<1>6. QED
  BY <1>1, <1>2, <1>3, <1>4, <1>5 DEF Calls

\* The calls that steps go to.
LEMMA NextCalls ==
  ASSUME NEW t \in Topics
  PROVE  /\ Idle \in Calls
         /\ \A m \in Msgs, h \in Handles :
                /\ [at |-> "publishing", topic |-> t, msg |-> m, handle |-> h] \in Calls
                /\ [at |-> "sending", topic |-> t, msg |-> m, handle |-> h] \in Calls
         /\ \A listen \in BOOLEAN :
                /\ [at |-> "unregistering", topic |-> t, listen |-> listen] \in Calls
                /\ [at |-> "registering", topic |-> t, listen |-> listen] \in Calls
         /\ [at |-> "subscribing", topic |-> t] \in Calls
         /\ [at |-> "reading", topic |-> t] \in Calls
         /\ [at |-> "leaving", topic |-> t] \in Calls
BY DEF Calls

\* A call goes on with the same topic.
LEMMA CallGoesOn ==
  ASSUME TypeOK, NEW g \in Goroutines
  PROVE  /\ At(g, "publishing") =>
                [call[g] EXCEPT !.at = "sending"] =
                    [at |-> "sending", topic |-> call[g].topic,
                     msg |-> call[g].msg, handle |-> call[g].handle]
         /\ At(g, "unregistering") =>
                [call[g] EXCEPT !.at = "registering"] =
                    [at |-> "registering", topic |-> call[g].topic, listen |-> call[g].listen]
         /\ At(g, "subscribing") =>
                [call[g] EXCEPT !.at = "reading"] = [at |-> "reading", topic |-> call[g].topic]
<1>1. ASSUME NEW t, NEW m, NEW h,
             call[g] = [at |-> "publishing", topic |-> t, msg |-> m, handle |-> h]
      PROVE  [call[g] EXCEPT !.at = "sending"] =
                [at |-> "sending", topic |-> t, msg |-> m, handle |-> h]
  BY <1>1
<1>2. ASSUME NEW t, NEW l, call[g] = [at |-> "unregistering", topic |-> t, listen |-> l]
      PROVE  [call[g] EXCEPT !.at = "registering"] =
                [at |-> "registering", topic |-> t, listen |-> l]
  BY <1>2
<1>3. ASSUME NEW t, call[g] = [at |-> "subscribing", topic |-> t]
      PROVE  [call[g] EXCEPT !.at = "reading"] = [at |-> "reading", topic |-> t]
  BY <1>3
<1>4. /\ At(g, "publishing") =>
           call[g] = [at |-> "publishing", topic |-> call[g].topic,
                      msg |-> call[g].msg, handle |-> call[g].handle]
      /\ At(g, "unregistering") =>
           call[g] = [at |-> "unregistering", topic |-> call[g].topic,
                      listen |-> call[g].listen]
      /\ At(g, "subscribing") => call[g] = [at |-> "subscribing", topic |-> call[g].topic]
  BY CallFields, Zenon DEF At, Joining
<1>5. ASSUME At(g, "publishing")
      PROVE  [call[g] EXCEPT !.at = "sending"] =
                [at |-> "sending", topic |-> call[g].topic,
                 msg |-> call[g].msg, handle |-> call[g].handle]
  BY <1>1, <1>4, <1>5, Zenon
<1>6. ASSUME At(g, "unregistering")
      PROVE  [call[g] EXCEPT !.at = "registering"] =
                [at |-> "registering", topic |-> call[g].topic, listen |-> call[g].listen]
  BY <1>2, <1>4, <1>6, Zenon
<1>7. ASSUME At(g, "subscribing")
      PROVE  [call[g] EXCEPT !.at = "reading"] = [at |-> "reading", topic |-> call[g].topic]
  BY <1>3, <1>4, <1>7, Zenon
<1>8. QED
  BY <1>5, <1>6, <1>7

\* There is always a handle that nobody uses: a topic's handles in the manager and
\* in pubsub are the same, and a caller uses one.
LEMMA FreshHandle ==
  ASSUME TypeOK, MapsBacked
  PROVE  /\ NewHandle \in Handles
         /\ \A t \in Topics : NewHandle # joined[t]
         /\ \A g \in Goroutines : call[g].at \in {"publishing", "sending"} =>
                NewHandle # call[g].handle
<1> DEFINE OfTopics == {joined[t] : t \in Topics}
           OfCalls == {call[g].handle : g \in Goroutines}
           f == [t \in Topics |-> joined[t]]
           c == [g \in Goroutines |-> call[g].handle]
<1>1. IsFiniteSet(OfTopics) /\ Cardinality(OfTopics) <= Cardinality(Topics)
  <2>1. f \in [Topics -> OfTopics] /\ \A h \in OfTopics : \E t \in Topics : f[t] = h
    OBVIOUS
  <2>2. f \in Surjection(Topics, OfTopics)
    BY <2>1, Fun_IsSurj
  <2>3. QED
    BY <2>2, TopicsAssumption, FS_Surjection
<1>2. IsFiniteSet(OfCalls) /\ Cardinality(OfCalls) <= Cardinality(Goroutines)
  <2>1. c \in [Goroutines -> OfCalls] /\ \A h \in OfCalls : \E g \in Goroutines : c[g] = h
    OBVIOUS
  <2>2. c \in Surjection(Goroutines, OfCalls)
    BY <2>1, Fun_IsSurj
  <2>3. QED
    BY <2>2, TopicsAssumption, FS_Surjection
<1>3. PICK h \in Handles : h \notin OfTopics \cup OfCalls
  <2>1. /\ IsFiniteSet(OfTopics \cup OfCalls)
        /\ Cardinality(OfTopics \cup OfCalls) =
             Cardinality(OfTopics) + Cardinality(OfCalls) - Cardinality(OfTopics \cap OfCalls)
    BY <1>1, <1>2, FS_Union
  <2>2. IsFiniteSet(OfTopics \cap OfCalls)
    BY <1>1, FS_Intersection
  <2>3. /\ Cardinality(OfTopics) \in Nat /\ Cardinality(OfCalls) \in Nat
        /\ Cardinality(OfTopics \cap OfCalls) \in Nat
        /\ Cardinality(Topics) \in Nat /\ Cardinality(Goroutines) \in Nat
        /\ Cardinality(Handles) \in Nat
    BY <1>1, <1>2, <2>2, TopicsAssumption, FS_CardinalityType
  <2>4. Cardinality(OfTopics \cup OfCalls) < Cardinality(Handles)
    BY <1>1, <1>2, <2>1, <2>3, TopicsAssumption
  <2>5. Cardinality(OfTopics \cup OfCalls) \in Nat
    BY <2>1, FS_CardinalityType
  <2>6. ~(Handles \subseteq OfTopics \cup OfCalls)
    <3>1. SUFFICES ASSUME Handles \in SUBSET (OfTopics \cup OfCalls) PROVE FALSE
      OBVIOUS
    <3>2. Cardinality(Handles) <= Cardinality(OfTopics \cup OfCalls)
      BY <2>1, <3>1, FS_Subset
    <3>3. QED
      BY <2>3, <2>4, <2>5, <3>2
  <2>7. QED
    BY <2>6
<1>4. Unused(h)
  BY <1>3, TopicsAssumption DEF MapsBacked, Unused
<1>5. NewHandle \in Handles /\ Unused(NewHandle)
  BY <1>4, Zenon DEF NewHandle
<1>6. QED
  BY <1>5 DEF Unused

\* A step of one call leaves the others where they are.
LEMMA OneCall ==
  ASSUME TypeOK, NEW g \in Goroutines, NEW c, Goto(g, c)
  PROVE  /\ call'[g] = c
         /\ \A h \in Goroutines : h # g => call'[h] = call[h]
         /\ c \in Calls => call' \in [Goroutines -> Calls]
BY DEF TypeOK, Goto

-----------------------------------------------------------------------------
(* Types *)

\* The first conjunct, at the start.
LEMMA InitTypes == Init => TypeOK
<1> SUFFICES ASSUME Init PROVE TypeOK
  OBVIOUS
<1>1. call \in [Goroutines -> Calls] /\ buffer \in [Goroutines -> Seq(Deliveries)]
  BY DEF Init, Calls
<1>2. QED
  BY <1>1 DEF Init, TypeOK

\* What pubsub does with a new message keeps the types of its state.
LEMMA PushTypes ==
  ASSUME TypeOK, NEW t \in Topics, NEW m \in Msgs, Push(t, m)
  PROVE  seen' \subseteq Msgs /\ inFlight' \subseteq Deliveries
<1> DEFINE d == [topic |-> t, msg |-> m, checked |-> t \in validators]
<1>1. d \in Deliveries
  BY DEF Deliveries
<1>2. inFlight' = inFlight \cup {d} \/ inFlight' = inFlight
  BY Zenon DEF Push
<1>3. seen' = seen \cup {m}
  BY Zenon DEF Push, msgID
<1>4. QED
  BY <1>1, <1>2, <1>3 DEF TypeOK

\* No step leaves the types.
LEMMA StepTypes == TypeOK /\ MapsBacked /\ [Next]_vars => TypeOK'
<1> SUFFICES ASSUME TypeOK, MapsBacked, [Next]_vars PROVE TypeOK'
  OBVIOUS
<1> USE DEF tmVars, netVars, outVars, Goto
<1>0. call \in [Goroutines -> Calls]
  BY DEF TypeOK
<1>1. ASSUME NEW g \in Goroutines, NEW t \in Topics, NEW m \in Msgs, Publish(g, t, m)
      PROVE  TypeOK'
  <2>1. topics[t] \in Handles
    BY <1>1 DEF Publish, Found, TypeOK
  <2>2. call' \in [Goroutines -> Calls]
    BY <1>1, <2>1, NextCalls, <1>0 DEF Publish
  <2>3. QED
    BY <1>1, <2>2 DEF Publish, TypeOK
<1>2. ASSUME NEW g \in Goroutines, PublishNothing(g) \/ PublishReturn(g)
      PROVE  TypeOK'
  <2>1. call' \in [Goroutines -> Calls]
    BY <1>2, <1>0 DEF PublishNothing, PublishReturn, Return, Calls
  <2>2. QED
    BY <1>2, <2>1 DEF PublishNothing, PublishReturn, TypeOK
<1>3. ASSUME NEW g \in Goroutines, PublishPush(g)
      PROVE  TypeOK'
  <2>1. /\ call[g].topic \in Topics /\ call[g].msg \in Msgs /\ call[g].handle \in Handles
        /\ [call[g] EXCEPT !.at = "sending"] =
             [at |-> "sending", topic |-> call[g].topic,
              msg |-> call[g].msg, handle |-> call[g].handle]
    BY <1>3, CallFields, CallGoesOn DEF PublishPush, At
  <2>2. call' \in [Goroutines -> Calls]
    <3>1. Goto(g, [at |-> "sending", topic |-> call[g].topic,
                   msg |-> call[g].msg, handle |-> call[g].handle])
      BY <1>3, <2>1, Zenon DEF PublishPush
    <3>2. QED
      BY <2>1, <3>1, NextCalls, <1>0, Zenon
  <2>3. seen' \subseteq Msgs /\ inFlight' \subseteq Deliveries
    BY <1>3, <2>1, PushTypes, Zenon DEF PublishPush
  <2>4. QED
    BY <1>3, <2>2, <2>3 DEF PublishPush, TypeOK
<1>4. ASSUME NEW g \in Goroutines, UnregisterTopicValidator(g)
      PROVE  TypeOK'
  <2>1. /\ call[g].topic \in Topics /\ call[g].listen \in BOOLEAN
        /\ [call[g] EXCEPT !.at = "registering"] =
             [at |-> "registering", topic |-> call[g].topic, listen |-> call[g].listen]
    BY <1>4, CallFields, CallGoesOn DEF UnregisterTopicValidator, At, Joining
  <2>2. call' \in [Goroutines -> Calls]
    <3>1. Goto(g, [at |-> "registering", topic |-> call[g].topic, listen |-> call[g].listen])
      BY <1>4, <2>1, Zenon DEF UnregisterTopicValidator
    <3>2. QED
      BY <2>1, <3>1, NextCalls, <1>0, Zenon
  <2>3. QED
    BY <1>4, <2>2 DEF UnregisterTopicValidator, DropValidator, TypeOK
<1>5. ASSUME NEW g \in Goroutines, RegisterTopicValidator(g)
      PROVE  TypeOK'
  <2>1. call[g].topic \in Topics
    BY <1>5, CallFields DEF RegisterTopicValidator, At
  <2>2. call' \in [Goroutines -> Calls] /\ mutex' \in Goroutines \cup {None}
    <3>1. CASE call[g].listen
      <4>1. Goto(g, [at |-> "subscribing", topic |-> call[g].topic]) /\ UNCHANGED mutex
        BY <1>5, <3>1 DEF RegisterTopicValidator
      <4>2. call' \in [Goroutines -> Calls]
        BY <2>1, <4>1, NextCalls, <1>0, Zenon
      <4>3. QED
        BY <4>1, <4>2 DEF TypeOK
    <3>2. CASE ~call[g].listen
      <4>1. Goto(g, Idle) /\ mutex' = None
        BY <1>5, <3>2 DEF RegisterTopicValidator, Return, Unlock
      <4>2. QED
        BY <2>1, <4>1, NextCalls, <1>0, Zenon
    <3>3. QED
      BY <3>1, <3>2
  <2>3. topics' \in [Topics -> Handles \cup {None}] /\ validators' \subseteq Topics
    BY <1>5, <2>1 DEF RegisterTopicValidator, AddValidator, TypeOK
  <2>4. QED
    BY <1>5, <2>2, <2>3 DEF RegisterTopicValidator, TypeOK
<1>6. ASSUME NEW g \in Goroutines, RegisterFails(g) \/ SubscribeFails(g)
      PROVE  TypeOK'
  <2>1. call' \in [Goroutines -> Calls]
    BY <1>6, <1>0 DEF RegisterFails, SubscribeFails, Return, Calls
  <2>2. QED
    BY <1>6, <2>1 DEF RegisterFails, SubscribeFails, Unlock, TypeOK
<1>7. ASSUME NEW g \in Goroutines, Subscribe(g)
      PROVE  TypeOK'
  <2>1. /\ call[g].topic \in Topics
        /\ [call[g] EXCEPT !.at = "reading"] = [at |-> "reading", topic |-> call[g].topic]
    BY <1>7, CallFields, CallGoesOn DEF Subscribe, At
  <2>2. call' \in [Goroutines -> Calls]
    <3>1. Goto(g, Idle) \/ Goto(g, [at |-> "reading", topic |-> call[g].topic])
      BY <1>7, <2>1, Zenon DEF Subscribe, Return
    <3>2. QED
      BY <2>1, <3>1, NextCalls, <1>0, Zenon
  <2>3. buffer' \in [Goroutines -> Seq(Deliveries)]
    BY <1>7 DEF Subscribe, TypeOK
  <2>4. QED
    BY <1>7, <2>1, <2>2, <2>3 DEF Subscribe, Unlock, TypeOK
<1>8. ASSUME NEW g \in Goroutines, Read(g)
      PROVE  TypeOK'
  <2>1. call' \in [Goroutines -> Calls]
    <3>1. Goto(g, Idle) \/ UNCHANGED call
      BY <1>8, Zenon DEF Read, Return
    <3>2. QED
      BY <3>1, <1>0 DEF Calls, TypeOK
  <2>2. Head(buffer[g]) \in Deliveries /\ Tail(buffer[g]) \in Seq(Deliveries)
    BY <1>8, HeadTailProperties DEF Read, TypeOK
  <2>3. buffer' \in [Goroutines -> Seq(Deliveries)]
    BY <1>8, <2>2 DEF Read, TypeOK
  <2>4. handled' \in [Msgs -> Nat] /\ errors' \in Nat
    <3>1. \/ UNCHANGED handled /\ errors' = errors + 1
          \/ UNCHANGED errors
             /\ handled' = [handled EXCEPT ![Head(buffer[g]).msg] = @ + 1]
      BY <1>8 DEF Read
    <3>2. handled \in [Msgs -> Nat] /\ errors \in Nat /\ Head(buffer[g]).msg \in Msgs
      BY <2>2 DEF TypeOK, Deliveries
    <3>3. QED
      BY <3>1, <3>2
  <2>5. QED
    BY <1>8, <2>1, <2>3, <2>4 DEF Read, TypeOK
<1>9. ASSUME NEW g \in Goroutines, ReadEnd(g)
      PROVE  TypeOK'
  <2>1. call' \in [Goroutines -> Calls] /\ buffer' \in [Goroutines -> Seq(Deliveries)]
    BY <1>9, <1>0 DEF ReadEnd, Return, Calls, TypeOK
  <2>2. QED
    BY <1>9, <2>1 DEF ReadEnd, TypeOK
<1>10. ASSUME NEW g \in Goroutines, LeaveClose(g)
       PROVE  TypeOK'
  <2>1. call' \in [Goroutines -> Calls]
    <3>1. Goto(g, Idle)
      BY <1>10 DEF LeaveClose, Return
    <3>2. QED
      BY <3>1, <1>0 DEF Calls
  <2>2. QED
    BY <1>10, <2>1 DEF LeaveClose, Unlock, TypeOK
<1>11. ASSUME NEW g \in Goroutines, NEW t \in Topics, NEW listen \in BOOLEAN,
              Join(g, t, listen)
       PROVE  TypeOK'
  <2>1. call' \in [Goroutines -> Calls]
    BY <1>11, <1>0, NextCalls DEF Join
  <2>2. QED
    BY <1>11, <2>1, FreshHandle DEF Join, Lock, TypeOK
<1>12. ASSUME NEW g \in Goroutines, NEW t \in Topics, ListenJoined(g, t)
       PROVE  TypeOK'
  <2>1. call' \in [Goroutines -> Calls]
    BY <1>12, <1>0, NextCalls DEF ListenJoined
  <2>2. QED
    BY <1>12, <2>1 DEF ListenJoined, Lock, TypeOK
<1>13. ASSUME NEW g \in Goroutines, NEW t \in Topics, Leave(g, t)
       PROVE  TypeOK'
  <2>1. call' \in [Goroutines -> Calls]
    BY <1>13, <1>0, NextCalls DEF Leave
  <2>2. QED
    BY <1>13, <2>1 DEF Leave, DeleteSub, Lock, TypeOK
<1>14. ASSUME NEW t \in Topics, NEW m \in Msgs, Receive(t, m)
       PROVE  TypeOK'
  <2>1. seen' \subseteq Msgs /\ inFlight' \subseteq Deliveries
    BY <1>14, PushTypes DEF Receive
  <2>2. QED
    BY <1>14, <2>1 DEF Receive, TypeOK
<1>15. ASSUME NEW d \in inFlight, Deliver(d)
       PROVE  TypeOK'
  <2>1. buffer' \in [Goroutines -> Seq(Deliveries)]
    BY <1>15, AppendProperties DEF Deliver, TypeOK
  <2>2. QED
    BY <1>15, <2>1 DEF Deliver, TypeOK
<1>16. ASSUME Close \/ CancelParent \/ LoopExit \/ UNCHANGED vars
       PROVE  TypeOK'
  BY <1>16 DEF Close, CancelParent, LoopExit, vars, TypeOK
<1>17. QED
  BY <1>1, <1>2, <1>3, <1>4, <1>5, <1>6, <1>7, <1>8, <1>9, <1>10, <1>11, <1>12, <1>13,
     <1>14, <1>15, <1>16 DEF Next, Proceed

-----------------------------------------------------------------------------
(* The maps *)

\* The part of the invariant about the manager, pubsub's topics and the calls.
MapsInv ==
    /\ OneHolder
    /\ MapsBacked
    /\ NoStraySubscription
    /\ CallsOnTrack
    /\ SubscribersRead
    /\ LiveAgrees

\* It holds of a node that has just started.
LEMMA InitMaps == Init => MapsInv
BY TopicsAssumption
   DEF Init, Idle, MapsInv, OneHolder, Locked, MapsBacked, NoStraySubscription, CallsOnTrack,
       OnTrack, Joining, Holds, At, SubscribersRead, LiveAgrees

\* Who begins a call that needs the mutex finds nobody half way in another; who
\* is half way is alone.
LEMMA Alone ==
  ASSUME TypeOK, OneHolder, NEW g \in Goroutines
  PROVE  /\ Lock(g) => \A h \in Goroutines : call[h].at \notin Locked
         /\ call[g].at \in Locked =>
                mutex = g /\ \A h \in Goroutines : h # g => call[h].at \notin Locked
BY TopicsAssumption DEF OneHolder, Lock, TypeOK

\* A step that takes no reader from its loop and adds no subscription.
LEMMA ReadersStay ==
  ASSUME TypeOK, SubscribersRead, ctx' # "done" => ctx # "done",
         \A t \in Topics : subscribers'[t] \subseteq subscribers[t],
         NEW g \in Goroutines, call[g].at # "reading",
         \A h \in Goroutines : h # g => call'[h] = call[h]
  PROVE  SubscribersRead'
<1>1. ASSUME ctx' # "done", NEW t \in Topics, NEW h \in subscribers'[t]
      PROVE  At(h, "reading")' /\ call'[h].topic = t
  <2>1. h \in Goroutines /\ At(h, "reading") /\ call[h].topic = t
    BY <1>1 DEF SubscribersRead, TypeOK
  <2>2. QED
    BY <2>1 DEF At
<1>2. QED
  BY <1>1 DEF SubscribersRead

\* Steps of Publish leave the manager and pubsub's topics alone, and a caller that
\* read a handle from tm.topics uses a topic that has its validator.
LEMMA PublishMaps ==
  ASSUME TypeOK, MapsInv, UNCHANGED <<tmVars, joined, subscribers, validators, up, ctx>>,
         NEW g \in Goroutines, NEW c, call' = [call EXCEPT ![g] = c],
         call[g].at \in {"idle", "publishing", "sending"},
         \/ c = Idle
         \/ /\ c.at \in {"publishing", "sending"}
            /\ c.topic \in Topics
            /\ c.handle = joined[c.topic] =>
                  topics[c.topic] # None \/ (Holds(g) /\ c.topic = call[g].topic)
  PROVE  MapsInv'
<1> USE DEF tmVars
<1>1. call'[g] = c /\ \A h \in Goroutines : h # g => call'[h] = call[h]
  BY DEF TypeOK
<1>2. c.at \in {"idle", "publishing", "sending"}
  BY DEF Idle
<1>3. OneHolder'
  BY <1>1, <1>2 DEF MapsInv, OneHolder, Locked
<1>4. MapsBacked'
  BY DEF MapsInv, MapsBacked
<1>5. NoStraySubscription'
  BY <1>1, <1>2 DEF MapsInv, NoStraySubscription, At
<1>6. CallsOnTrack'
  <2>1. \A h \in Goroutines : Joining(h)' <=> Joining(h)
    BY <1>1, <1>2 DEF Joining
  <2>2. \A h \in Goroutines : h # g => (Holds(h)' <=> Holds(h))
    BY <1>1 DEF Holds
  <2>3. Holds(g)' => /\ c.topic \in validators
                     /\ \A h \in Goroutines : Joining(h) => call[h].topic # c.topic
    BY <1>1, <1>2 DEF MapsInv, CallsOnTrack, OnTrack, MapsBacked, Holds, Idle
  <2>4. OnTrack(g)'
    BY <1>1, <1>2, <2>3 DEF OnTrack, Joining, At
  <2>5. ASSUME NEW h \in Goroutines, h # g PROVE OnTrack(h)'
    BY <1>1, <2>1, <2>2, <2>3, <2>5 DEF MapsInv, CallsOnTrack, OnTrack, At
  <2>6. QED
    BY <2>4, <2>5 DEF CallsOnTrack
<1>7. SubscribersRead'
  BY <1>1, ReadersStay DEF MapsInv
<1>8. LiveAgrees'
  BY <1>1, <1>2 DEF MapsInv, LiveAgrees, Joining
<1>9. QED
  BY <1>3, <1>4, <1>5, <1>6, <1>7, <1>8 DEF MapsInv

\* The four steps of Publish.
LEMMA StepPublish ==
  ASSUME TypeOK, MapsInv, NEW g \in Goroutines,
         \/ \E t \in Topics, m \in Msgs : Publish(g, t, m)
         \/ PublishNothing(g) \/ PublishPush(g) \/ PublishReturn(g)
  PROVE  MapsInv'
<1>1. ASSUME NEW t \in Topics, NEW m \in Msgs, Publish(g, t, m)
      PROVE  MapsInv'
  <2> DEFINE c == [at |-> "publishing", topic |-> t, msg |-> m, handle |-> topics[t]]
  <2>1. /\ UNCHANGED <<tmVars, joined, subscribers, validators, up, ctx>>
        /\ call' = [call EXCEPT ![g] = c] /\ call[g].at = "idle" /\ topics[t] # None
    BY <1>1 DEF Publish, netVars, At, Found, Goto
  <2>2. c.at = "publishing" /\ c.topic = t
    OBVIOUS
  <2> HIDE DEF c
  <2>3. /\ c.at \in {"publishing", "sending"}
        /\ c.topic \in Topics
        /\ c.handle = joined[c.topic] =>
              topics[c.topic] # None \/ (Holds(g) /\ c.topic = call[g].topic)
    BY <2>1, <2>2
  <2>4. call[g].at \in {"idle", "publishing", "sending"}
    BY <2>1
  <2>5. QED
    BY <2>1, <2>3, <2>4, PublishMaps, Zenon
<1>2. ASSUME PublishNothing(g) \/ PublishReturn(g)
      PROVE  MapsInv'
  <2>1. /\ UNCHANGED <<tmVars, joined, subscribers, validators, up, ctx>>
        /\ call' = [call EXCEPT ![g] = Idle] /\ call[g].at \in {"publishing", "sending"}
    BY <1>2 DEF PublishNothing, PublishReturn, netVars, At, Return, Goto
  <2>2. QED
    BY <2>1, PublishMaps
<1>3. ASSUME PublishPush(g)
      PROVE  MapsInv'
  <2> DEFINE c == [call[g] EXCEPT !.at = "sending"]
  <2>1. /\ UNCHANGED <<tmVars, joined, subscribers, validators, up, ctx>>
        /\ call' = [call EXCEPT ![g] = c] /\ At(g, "publishing") /\ Holds(g)
    BY <1>3 DEF PublishPush, At, Holds, Goto
  <2>2. c.at = "sending" /\ c.topic = call[g].topic /\ call[g].topic \in Topics
    BY <2>1, CallGoesOn, CallFields DEF At
  <2> HIDE DEF c
  <2>3. QED
    BY <2>1, <2>2, PublishMaps DEF At
<1>4. QED
  BY <1>1, <1>2, <1>3

\* A message comes in, is delivered, or a context ends.
LEMMA StepOutside ==
  ASSUME TypeOK, MapsInv,
         UNCHANGED <<tmVars, joined, subscribers, validators, call>>,
         \/ UNCHANGED <<up, ctx>>
         \/ UNCHANGED up /\ ctx = "live" /\ ctx' = "closed"
         \/ UNCHANGED up /\ ctx # "done" /\ ctx' = "done"
         \/ UNCHANGED ctx /\ ctx # "live" /\ up' = FALSE
  PROVE  MapsInv'
<1> USE DEF tmVars
<1>1. OneHolder' /\ MapsBacked' /\ NoStraySubscription'
  BY DEF MapsInv, OneHolder, MapsBacked, NoStraySubscription, At
<1>2. CallsOnTrack'
  BY DEF MapsInv, CallsOnTrack, OnTrack, At, Joining, Holds
<1>3. SubscribersRead'
  BY DEF MapsInv, SubscribersRead, At
<1>4. LiveAgrees'
  BY DEF MapsInv, LiveAgrees, Joining
<1>5. QED
  BY <1>1, <1>2, <1>3, <1>4 DEF MapsInv

\* ListenJoined takes the mutex on the way to Subscribe.
LEMMA StepListenJoined ==
  ASSUME TypeOK, MapsInv, NEW g \in Goroutines, NEW t \in Topics, ListenJoined(g, t)
  PROVE  MapsInv'
<1>1. /\ UNCHANGED <<topics, subs, joined, subscribers, validators, up, ctx>>
      /\ call[g].at = "idle" /\ mutex = None /\ mutex' = g
      /\ topics[t] # None /\ subs[t] = None
      /\ Goto(g, [at |-> "subscribing", topic |-> t])
  BY DEF ListenJoined, Lock, netVars, At
<1>2. /\ call'[g].at = "subscribing" /\ call'[g].topic = t
      /\ \A h \in Goroutines : h # g => call'[h] = call[h] /\ call[h].at \notin Locked
  BY <1>1, Alone DEF Goto, TypeOK, Lock, At, MapsInv
<1>3. OneHolder'
  BY <1>1, <1>2 DEF MapsInv, OneHolder, Locked
<1>4. MapsBacked'
  BY <1>1 DEF MapsInv, MapsBacked
<1>5. NoStraySubscription'
  BY <1>1, <1>2 DEF MapsInv, NoStraySubscription, At
<1>6. CallsOnTrack'
  BY <1>1, <1>2 DEF MapsInv, CallsOnTrack, OnTrack, At, Joining, Holds, Locked
<1>7. SubscribersRead'
  BY <1>1, <1>2, ReadersStay DEF MapsInv
<1>8. LiveAgrees'
  BY <1>1, <1>2 DEF MapsInv, LiveAgrees, Joining
<1>9. QED
  BY <1>3, <1>4, <1>5, <1>6, <1>7, <1>8 DEF MapsInv

\* Join, on its own or in Listen: the handle is new to every caller.
LEMMA StepJoin ==
  ASSUME TypeOK, MapsInv, NEW g \in Goroutines, NEW t \in Topics, NEW listen \in BOOLEAN,
         Join(g, t, listen)
  PROVE  MapsInv'
<1>1. /\ UNCHANGED <<topics, subs, subscribers, validators, up, ctx>>
      /\ call[g].at = "idle" /\ mutex = None /\ mutex' = g
      /\ topics[t] = None /\ joined[t] = None /\ up
      /\ joined' = [joined EXCEPT ![t] = NewHandle]
      /\ Goto(g, [at |-> "unregistering", topic |-> t, listen |-> listen])
  BY DEF Join, Lock, netVars, At
<1>2. /\ call'[g].at = "unregistering" /\ call'[g].topic = t
      /\ \A h \in Goroutines : h # g => call'[h] = call[h] /\ call[h].at \notin Locked
  BY <1>1, Alone DEF Goto, TypeOK, Lock, At, MapsInv
<1>3. /\ joined'[t] = NewHandle /\ NewHandle # None /\ subscribers[t] = {}
      /\ \A u \in Topics : u # t => joined'[u] = joined[u]
      /\ \A h \in Goroutines : call[h].at \in {"publishing", "sending"} =>
            NewHandle # call[h].handle
  BY <1>1, FreshHandle, TopicsAssumption DEF TypeOK, MapsInv, MapsBacked
<1>4. OneHolder'
  BY <1>1, <1>2 DEF MapsInv, OneHolder, Locked
<1>5. MapsBacked'
  BY <1>1, <1>3 DEF MapsInv, MapsBacked
<1>6. NoStraySubscription'
  BY <1>1, <1>2 DEF MapsInv, NoStraySubscription, At
<1>7. CallsOnTrack'
  <2>1. \A h \in Goroutines : Holds(h)' => h # g /\ call[h].topic # t /\ Holds(h)
    <3>1. ASSUME NEW h \in Goroutines, Holds(h)'
          PROVE  h # g /\ call[h].topic # t /\ Holds(h)
      <4>1. h # g /\ call'[h] = call[h] /\ call[h].at \in {"publishing", "sending"}
            /\ call[h].handle = joined'[call[h].topic]
        BY <1>2, <3>1 DEF Holds
      <4>2. call[h].topic \in Topics /\ call[h].handle # NewHandle
        BY <1>3, <4>1, CallFields
      <4>3. QED
        BY <1>3, <4>1, <4>2 DEF Holds
    <3>2. QED
      BY <3>1
  <2>2. OnTrack(g)'
    BY <1>1, <1>2, <1>3, <2>1 DEF OnTrack, At, Joining, Holds
  <2>3. ASSUME NEW h \in Goroutines, h # g PROVE OnTrack(h)'
    BY <1>1, <1>2, <2>1, <2>3 DEF MapsInv, CallsOnTrack, OnTrack, At, Joining, Locked
  <2>4. QED
    BY <2>2, <2>3 DEF CallsOnTrack
<1>8. SubscribersRead'
  BY <1>1, <1>2, ReadersStay DEF MapsInv
<1>9. LiveAgrees'
  BY <1>1, <1>2, <1>3 DEF MapsInv, LiveAgrees, Joining
<1>10. QED
  BY <1>4, <1>5, <1>6, <1>7, <1>8, <1>9 DEF MapsInv

\* The validator of an earlier join goes: nobody uses the topic that is joined.
LEMMA StepUnregister ==
  ASSUME TypeOK, MapsInv, NEW g \in Goroutines, UnregisterTopicValidator(g)
  PROVE  MapsInv'
<1> DEFINE t == call[g].topic
<1>1. /\ UNCHANGED <<mutex, topics, subs, joined, subscribers, up, ctx>>
      /\ At(g, "unregistering") /\ t \in Topics
      /\ validators' = validators \ {t} \/ (ctx # "live" /\ validators' = validators)
  BY CallFields DEF UnregisterTopicValidator, DropValidator, tmVars, At
<1>2. /\ call'[g].at = "registering" /\ call'[g].topic = t
      /\ \A h \in Goroutines : h # g => call'[h] = call[h] /\ call[h].at \notin Locked
  <2>1. call'[g].at = "registering" /\ call'[g].topic = t
    BY CallGoesOn DEF UnregisterTopicValidator, Goto, TypeOK
  <2>2. \A h \in Goroutines : h # g => call'[h] = call[h]
    BY DEF UnregisterTopicValidator, Goto, TypeOK
  <2>3. QED
    BY <1>1, <2>1, <2>2, Alone DEF At, MapsInv, Locked
<1>3. /\ topics[t] = None /\ joined[t] # None /\ subscribers[t] = {}
      /\ \A h \in Goroutines : Holds(h) => call[h].topic # t
  BY <1>1 DEF MapsInv, CallsOnTrack, OnTrack, Joining, At
<1> HIDE DEF t
<1>4. OneHolder'
  BY <1>1, <1>2 DEF MapsInv, OneHolder, Locked, At
<1>5. MapsBacked'
  BY <1>1, <1>3 DEF MapsInv, MapsBacked
<1>6. NoStraySubscription'
  BY <1>1, <1>2 DEF MapsInv, NoStraySubscription, At
<1>7. CallsOnTrack'
  <2>1. \A h \in Goroutines : Holds(h)' => h # g /\ Holds(h)
    BY <1>1, <1>2 DEF Holds
  <2>2. OnTrack(g)'
    BY <1>1, <1>2, <1>3, <2>1 DEF OnTrack, At, Joining, Holds
  <2>3. ASSUME NEW h \in Goroutines, h # g PROVE OnTrack(h)'
    BY <1>1, <1>2, <1>3, <2>1, <2>3 DEF MapsInv, CallsOnTrack, OnTrack, At, Joining, Locked
  <2>4. QED
    BY <2>2, <2>3 DEF CallsOnTrack
<1>8. SubscribersRead'
  BY <1>1, <1>2, ReadersStay DEF MapsInv, At
<1>9. LiveAgrees'
  BY <1>1, <1>2 DEF MapsInv, LiveAgrees, Joining, At, t
<1>10. QED
  BY <1>4, <1>5, <1>6, <1>7, <1>8, <1>9 DEF MapsInv

\* tm.topics gets the handle of the topic that has its validator now.
LEMMA StepRegister ==
  ASSUME TypeOK, MapsInv, NEW g \in Goroutines, RegisterTopicValidator(g)
  PROVE  MapsInv'
<1> DEFINE t == call[g].topic
<1>1. /\ UNCHANGED <<subs, joined, subscribers, up, ctx>>
      /\ At(g, "registering") /\ t \in Topics
      /\ validators' = validators \cup {t}
      /\ topics' = [topics EXCEPT ![t] = joined[t]]
  BY CallFields DEF RegisterTopicValidator, AddValidator, At
<1>2. /\ \/ call'[g].at = "subscribing" /\ call'[g].topic = t /\ mutex' = mutex
         \/ call'[g].at = "idle" /\ mutex' = None
      /\ mutex = g
      /\ \A h \in Goroutines : h # g => call'[h] = call[h] /\ call[h].at \notin Locked
  <2>1. \/ Goto(g, [at |-> "subscribing", topic |-> t]) /\ mutex' = mutex
        \/ Goto(g, Idle) /\ mutex' = None
    BY Zenon DEF RegisterTopicValidator, Return, Unlock
  <2>2. call[g].at \in Locked
    BY <1>1 DEF At, Locked
  <2>3. QED
    BY <2>1, <2>2, Alone DEF MapsInv, Goto, TypeOK, Idle
<1>3. /\ topics[t] = None /\ joined[t] # None /\ subscribers[t] = {} /\ subs[t] = None
  BY <1>1 DEF MapsInv, CallsOnTrack, OnTrack, Joining, At, MapsBacked
<1>4. topics'[t] = joined[t] /\ \A u \in Topics : u # t => topics'[u] = topics[u]
  BY <1>1 DEF TypeOK
<1> HIDE DEF t
<1>5. OneHolder'
  BY <1>1, <1>2, TopicsAssumption DEF MapsInv, OneHolder, Locked, At
<1>6. MapsBacked'
  BY <1>1, <1>3, <1>4 DEF MapsInv, MapsBacked
<1>7. NoStraySubscription'
  BY <1>1, <1>2, <1>3, <1>4 DEF MapsInv, NoStraySubscription, At
<1>8. CallsOnTrack'
  <2>1. \A h \in Goroutines : Holds(h)' => h # g /\ Holds(h)
    BY <1>1, <1>2 DEF Holds
  <2>2. OnTrack(g)'
    BY <1>1, <1>2, <1>3, <1>4, <2>1 DEF OnTrack, At, Joining, Holds
  <2>3. ASSUME NEW h \in Goroutines, h # g PROVE OnTrack(h)'
    BY <1>1, <1>2, <1>3, <2>1, <2>3 DEF MapsInv, CallsOnTrack, OnTrack, At, Joining, Locked
  <2>4. QED
    BY <2>2, <2>3 DEF CallsOnTrack
<1>9. SubscribersRead'
  BY <1>1, <1>2, ReadersStay DEF MapsInv, At
<1>10. LiveAgrees'
  BY <1>1, <1>2, <1>4 DEF MapsInv, LiveAgrees, Joining, Locked, t
<1>11. QED
  BY <1>5, <1>6, <1>7, <1>8, <1>9, <1>10 DEF MapsInv

\* An error ends a call that holds the mutex: only a node that is closing errs.
LEMMA StepFails ==
  ASSUME TypeOK, MapsInv, NEW g \in Goroutines, RegisterFails(g) \/ SubscribeFails(g)
  PROVE  MapsInv'
<1>1. /\ UNCHANGED <<topics, subs, joined, subscribers, validators, up, ctx>>
      /\ mutex' = None /\ Goto(g, Idle)
      /\ call[g].at \in {"registering", "subscribing"}
  BY DEF RegisterFails, SubscribeFails, netVars, At, Unlock, Return
<1>2. ctx # "live"
  BY DEF RegisterFails, SubscribeFails, MapsInv, CallsOnTrack, OnTrack, Joining, At
<1>3. /\ call'[g].at = "idle" /\ mutex = g
      /\ \A h \in Goroutines : h # g => call'[h] = call[h] /\ call[h].at \notin Locked
  <2>1. call[g].at \in Locked
    BY <1>1 DEF Locked
  <2>2. QED
    BY <1>1, <2>1, Alone DEF Goto, TypeOK, MapsInv, Idle
<1>4. OneHolder'
  BY <1>1, <1>3, TopicsAssumption DEF MapsInv, OneHolder, Locked
<1>5. MapsBacked'
  BY <1>1 DEF MapsInv, MapsBacked
<1>6. NoStraySubscription'
  BY <1>1, <1>3 DEF MapsInv, NoStraySubscription, At
<1>7. CallsOnTrack'
  BY <1>1, <1>3 DEF MapsInv, CallsOnTrack, OnTrack, At, Joining, Locked, Holds
<1>8. SubscribersRead'
  BY <1>1, <1>3, ReadersStay DEF MapsInv
<1>9. LiveAgrees'
  BY <1>1, <1>2 DEF LiveAgrees
<1>10. QED
  BY <1>4, <1>5, <1>6, <1>7, <1>8, <1>9 DEF MapsInv

\* Subscribe: the topic had no subscription left over, so the new one is its only one.
LEMMA StepSubscribe ==
  ASSUME TypeOK, MapsInv, NEW g \in Goroutines, Subscribe(g)
  PROVE  MapsInv'
<1> DEFINE t == call[g].topic
<1>1. /\ UNCHANGED <<topics, joined, validators, up, ctx>>
      /\ At(g, "subscribing") /\ t \in Topics /\ mutex' = None
      /\ subscribers' = [subscribers EXCEPT ![t] = @ \cup {g}]
      /\ subs' = [subs EXCEPT ![t] = g]
  BY CallFields DEF Subscribe, At, Unlock, netVars
<1>2. /\ \/ call'[g].at = "reading" /\ call'[g].topic = t
         \/ ctx = "done" /\ call'[g].at = "idle"
      /\ mutex = g
      /\ \A h \in Goroutines : h # g => call'[h] = call[h] /\ call[h].at \notin Locked
  <2>1. \/ ctx = "done" /\ Goto(g, Idle)
        \/ Goto(g, [at |-> "reading", topic |-> t])
    BY <1>1, CallGoesOn, Zenon DEF Subscribe, Return
  <2>2. call[g].at \in Locked
    BY <1>1 DEF At, Locked
  <2>3. QED
    BY <2>1, <2>2, Alone DEF MapsInv, Goto, TypeOK, Idle
<1>3. topics[t] # None /\ subs[t] = None
  BY <1>1 DEF MapsInv, CallsOnTrack, OnTrack, At
<1>4. subscribers[t] = {}
  <2>1. subscribers[t] \subseteq {None}
    BY <1>1, <1>2, <1>3 DEF MapsInv, NoStraySubscription, At, Locked
  <2>2. QED
    BY <1>1, <2>1, TopicsAssumption DEF TypeOK
<1>5. /\ subscribers'[t] = {g} /\ subs'[t] = g
      /\ \A u \in Topics : u # t => subscribers'[u] = subscribers[u] /\ subs'[u] = subs[u]
  BY <1>1, <1>4 DEF TypeOK
<1>6. joined[t] # None /\ t \in validators
  BY <1>1, <1>3 DEF MapsInv, MapsBacked
<1> HIDE DEF t
<1>7. OneHolder'
  BY <1>1, <1>2, TopicsAssumption DEF MapsInv, OneHolder, Locked, At
<1>8. MapsBacked'
  <2>1. ASSUME NEW u \in Topics, u # t
        PROVE  /\ topics'[u] # None => topics'[u] = joined'[u] /\ u \in validators'
               /\ subs'[u] # None => topics'[u] # None /\ subs'[u] \in subscribers'[u]
               /\ subscribers'[u] # {} => joined'[u] # None /\ u \in validators'
               /\ \A h, k \in subscribers'[u] : h = k
    BY <1>1, <1>5, <2>1 DEF MapsInv, MapsBacked
  <2>2. /\ topics'[t] # None => topics'[t] = joined'[t] /\ t \in validators'
        /\ subs'[t] # None => topics'[t] # None /\ subs'[t] \in subscribers'[t]
        /\ subscribers'[t] # {} => joined'[t] # None /\ t \in validators'
        /\ \A h, k \in subscribers'[t] : h = k
    BY <1>1, <1>3, <1>5, <1>6 DEF MapsInv, MapsBacked
  <2>3. QED
    BY <2>1, <2>2 DEF MapsBacked
<1>9. NoStraySubscription'
  BY <1>1, <1>2, <1>5 DEF MapsInv, NoStraySubscription, At
<1>10. CallsOnTrack'
  BY <1>1, <1>2, <1>6 DEF MapsInv, CallsOnTrack, OnTrack, At, Joining, Locked, Holds
<1>11. SubscribersRead'
  <2>1. ASSUME ctx # "done", NEW u \in Topics, u # t, NEW h \in subscribers[u]
        PROVE  At(h, "reading")' /\ call'[h].topic = u
    <3>1. h \in Goroutines /\ At(h, "reading") /\ call[h].topic = u
      BY <2>1 DEF MapsInv, SubscribersRead, TypeOK
    <3>2. QED
      BY <1>1, <1>2, <3>1 DEF At
  <2>2. ctx # "done" => At(g, "reading")' /\ call'[g].topic = t
    BY <1>2 DEF At
  <2>3. QED
    BY <1>1, <1>5, <2>1, <2>2 DEF SubscribersRead
<1>12. LiveAgrees'
  BY <1>1, <1>2 DEF MapsInv, LiveAgrees, Joining, Locked, At
<1>13. QED
  BY <1>7, <1>8, <1>9, <1>10, <1>11, <1>12 DEF MapsInv

\* A listener returns only when its context is done or its subscription is gone.
LEMMA StepReading ==
  ASSUME TypeOK, MapsInv, NEW g \in Goroutines, Read(g) \/ ReadEnd(g)
  PROVE  MapsInv'
<1>1. /\ UNCHANGED <<mutex, topics, subs, joined, subscribers, validators, up, ctx>>
      /\ At(g, "reading")
  BY DEF Read, ReadEnd, tmVars, netVars
<1>2. CASE UNCHANGED call
  BY <1>1, <1>2, StepOutside DEF tmVars
<1>3. CASE /\ Goto(g, Idle)
           /\ ctx = "done" \/ g \notin subscribers[call[g].topic]
  <2>1. /\ call'[g].at = "idle"
        /\ \A h \in Goroutines : h # g => call'[h] = call[h]
    BY <1>3 DEF Goto, TypeOK, Idle
  <2>2. OneHolder' /\ MapsBacked'
    BY <1>1, <2>1 DEF MapsInv, OneHolder, MapsBacked, Locked, At
  <2>3. NoStraySubscription'
    BY <1>1, <2>1 DEF MapsInv, NoStraySubscription, At
  <2>4. CallsOnTrack'
    BY <1>1, <2>1 DEF MapsInv, CallsOnTrack, OnTrack, At, Joining, Holds
  <2>5. SubscribersRead'
    <3>1. ASSUME ctx # "done", NEW u \in Topics, NEW h \in subscribers[u]
          PROVE  At(h, "reading")' /\ call'[h].topic = u
      <4>1. h \in Goroutines /\ At(h, "reading") /\ call[h].topic = u
        BY <3>1 DEF MapsInv, SubscribersRead, TypeOK
      <4>2. QED
        BY <1>3, <2>1, <3>1, <4>1 DEF At
    <3>2. QED
      BY <1>1, <3>1 DEF SubscribersRead
  <2>6. LiveAgrees'
    BY <1>1, <2>1 DEF MapsInv, LiveAgrees, Joining, At
  <2>7. QED
    BY <2>2, <2>3, <2>4, <2>5, <2>6 DEF MapsInv
<1>4. QED
  BY <1>2, <1>3, Zenon DEF Read, ReadEnd, Over, Cancelled, Return

\* Leave cancels the subscription of tm.subs, the only one while the node is live.
LEMMA StepLeave ==
  ASSUME TypeOK, MapsInv, NEW g \in Goroutines, NEW t \in Topics, Leave(g, t)
  PROVE  MapsInv'
<1>1. /\ UNCHANGED <<topics, joined, validators, up, ctx>>
      /\ call[g].at = "idle" /\ mutex = None /\ mutex' = g
      /\ subs' = [subs EXCEPT ![t] = None]
      /\ \/ subscribers' = [subscribers EXCEPT ![t] = @ \ {subs[t]}]
         \/ ctx # "live" /\ subscribers' = subscribers
      /\ Goto(g, [at |-> "leaving", topic |-> t])
  BY DEF Leave, DeleteSub, Lock, netVars, At
<1>2. /\ call'[g].at = "leaving" /\ call'[g].topic = t
      /\ \A h \in Goroutines : h # g => call'[h] = call[h] /\ call[h].at \notin Locked
  BY <1>1, Alone DEF Goto, TypeOK, Lock, At, MapsInv
<1>3. \A h \in Goroutines : call[h].at \notin Locked
  BY <1>1, <1>2 DEF Locked
<1>4. /\ subs'[t] = None /\ \A u \in Topics : u # t => subs'[u] = subs[u]
      /\ \A u \in Topics : subscribers'[u] \subseteq subscribers[u]
      /\ \A u \in Topics : u # t => subscribers'[u] = subscribers[u]
      /\ ctx = "live" => subscribers'[t] = subscribers[t] \ {subs[t]}
  BY <1>1 DEF TypeOK
<1>5. ctx = "live" => subscribers'[t] = {}
  <2>1. topics[t] # None => subscribers[t] \subseteq {subs[t]}
    BY <1>3 DEF MapsInv, NoStraySubscription, At, Locked
  <2>2. ctx = "live" /\ topics[t] = None => subscribers[t] = {}
    BY <1>3 DEF MapsInv, LiveAgrees, MapsBacked, Joining, Locked
  <2>3. QED
    BY <1>4, <2>1, <2>2
<1>6. OneHolder'
  BY <1>1, <1>2 DEF MapsInv, OneHolder, Locked
<1>7. MapsBacked'
  BY <1>1, <1>4 DEF MapsInv, MapsBacked
<1>8. NoStraySubscription'
  BY <1>1, <1>2, <1>3, <1>4 DEF MapsInv, NoStraySubscription, At, Locked
<1>9. CallsOnTrack'
  BY <1>1, <1>2, <1>3, <1>4, <1>5 DEF MapsInv, CallsOnTrack, OnTrack, At, Joining, Locked, Holds
<1>10. SubscribersRead'
  BY <1>1, <1>2, <1>4, ReadersStay DEF MapsInv
<1>11. LiveAgrees'
  BY <1>1, <1>2 DEF MapsInv, LiveAgrees, Joining
<1>12. QED
  BY <1>6, <1>7, <1>8, <1>9, <1>10, <1>11 DEF MapsInv

\* Then tm.topics forgets the topic; while the node is live, pubsub does too.
LEMMA StepLeaveClose ==
  ASSUME TypeOK, MapsInv, NEW g \in Goroutines, LeaveClose(g)
  PROVE  MapsInv'
<1> DEFINE t == call[g].topic
<1>1. /\ UNCHANGED <<subs, subscribers, validators, up, ctx>>
      /\ At(g, "leaving") /\ t \in Topics /\ mutex' = None /\ Goto(g, Idle)
      /\ topics' = [topics EXCEPT ![t] = None]
      /\ \/ /\ topics[t] # None /\ subscribers[t] = {}
            /\ joined' = [joined EXCEPT ![t] = None]
         \/ /\ topics[t] = None \/ ctx # "live" \/ subscribers[t] # {}
            /\ joined' = joined
  BY CallFields DEF LeaveClose, At, Unlock, Return, netVars
<1>2. /\ call'[g].at = "idle" /\ mutex = g
      /\ \A h \in Goroutines : h # g => call'[h] = call[h] /\ call[h].at \notin Locked
  <2>1. call[g].at \in Locked
    BY <1>1 DEF At, Locked
  <2>2. QED
    BY <1>1, <2>1, Alone DEF Goto, TypeOK, MapsInv, Idle
<1>3. subs[t] = None /\ (ctx = "live" => subscribers[t] = {})
  BY <1>1 DEF MapsInv, CallsOnTrack, OnTrack, At
<1>4. /\ topics'[t] = None
      /\ \A u \in Topics : u # t => topics'[u] = topics[u] /\ joined'[u] = joined[u]
      /\ \/ topics[t] # None /\ subscribers[t] = {} /\ joined'[t] = None
         \/ (topics[t] = None \/ ctx # "live") /\ joined'[t] = joined[t]
         \/ subscribers[t] # {} /\ joined'[t] = joined[t]
  BY <1>1 DEF TypeOK
<1> HIDE DEF t
<1>5. OneHolder'
  BY <1>1, <1>2, TopicsAssumption DEF MapsInv, OneHolder, Locked
<1>6. MapsBacked'
  BY <1>1, <1>3, <1>4 DEF MapsInv, MapsBacked
<1>7. NoStraySubscription'
  BY <1>1, <1>2, <1>4 DEF MapsInv, NoStraySubscription, At, Locked, t
<1>8. CallsOnTrack'
  <2>1. \A h \in Goroutines : Holds(h)' => h # g /\ Holds(h)
    <3>1. ASSUME NEW h \in Goroutines, Holds(h)'
          PROVE  h # g /\ Holds(h)
      <4>1. h # g /\ call'[h] = call[h] /\ call[h].at \in {"publishing", "sending"}
            /\ call[h].handle = joined'[call[h].topic]
        BY <1>2, <3>1 DEF Holds
      <4>2. call[h].topic \in Topics /\ call[h].handle # None
        BY <4>1, CallFields, TopicsAssumption
      <4>3. QED
        BY <1>4, <4>1, <4>2 DEF Holds
    <3>2. QED
      BY <3>1
  <2>2. OnTrack(g)'
    BY <1>2, <2>1 DEF OnTrack, At, Joining
  <2>3. ASSUME NEW h \in Goroutines, h # g PROVE OnTrack(h)'
    BY <1>1, <1>2, <2>1, <2>3 DEF MapsInv, CallsOnTrack, OnTrack, At, Joining, Locked
  <2>4. QED
    BY <2>2, <2>3 DEF CallsOnTrack
<1>9. SubscribersRead'
  BY <1>1, <1>2, ReadersStay DEF MapsInv, At
<1>10. LiveAgrees'
  BY <1>1, <1>2, <1>3, <1>4 DEF MapsInv, LiveAgrees, Joining, Locked, At
<1>11. QED
  BY <1>5, <1>6, <1>7, <1>8, <1>9, <1>10 DEF MapsInv

\* No step breaks what the maps say.
LEMMA StepMaps == TypeOK /\ MapsInv /\ [Next]_vars => MapsInv'
<1> SUFFICES ASSUME TypeOK, MapsInv, [Next]_vars PROVE MapsInv'
  OBVIOUS
<1>1. ASSUME NEW g \in Goroutines, Proceed(g)
      PROVE  MapsInv'
  BY <1>1, StepPublish, StepUnregister, StepRegister, StepFails, StepSubscribe, StepReading,
     StepLeaveClose DEF Proceed
<1>2. ASSUME NEW g \in Goroutines, NEW t \in Topics,
             \/ \E m \in Msgs : Publish(g, t, m)
             \/ \E listen \in BOOLEAN : Join(g, t, listen)
             \/ ListenJoined(g, t)
             \/ Leave(g, t)
      PROVE  MapsInv'
  BY <1>2, StepPublish, StepJoin, StepListenJoined, StepLeave
<1>3. ASSUME \/ \E t \in Topics, m \in Msgs : Receive(t, m)
             \/ \E d \in inFlight : Deliver(d)
             \/ Close \/ CancelParent \/ LoopExit \/ UNCHANGED vars
      PROVE  MapsInv'
  <2>1. /\ UNCHANGED <<tmVars, joined, subscribers, validators, call>>
        /\ \/ UNCHANGED <<up, ctx>>
           \/ UNCHANGED up /\ ctx = "live" /\ ctx' = "closed"
           \/ UNCHANGED up /\ ctx # "done" /\ ctx' = "done"
           \/ UNCHANGED ctx /\ ctx # "live" /\ up' = FALSE
    BY <1>3 DEF Receive, Deliver, Close, CancelParent, LoopExit, vars, netVars
  <2>2. QED
    BY <2>1, StepOutside
<1>4. QED
  BY <1>1, <1>2, <1>3 DEF Next

-----------------------------------------------------------------------------
(* The messages *)

\* The part of the invariant about the messages.
MessagesInv == MessagesOnce /\ NoListenError

\* It holds of a node that has just started.
LEMMA InitMessages == Init => MessagesInv
BY DEF Init, MessagesInv, MessagesOnce, NoListenError, Buffered, Good

\* A step that only forgets what a subscription has buffered.
LEMMA MessagesStay ==
  ASSUME TypeOK, MessagesInv, UNCHANGED <<seen, inFlight, outVars>>,
         \A g \in Goroutines : buffer'[g] = buffer[g] \/ buffer'[g] = <<>>
  PROVE  MessagesInv'
<1> USE DEF outVars
<1>1. \A g \in Goroutines : \A k \in DOMAIN buffer'[g] :
        k \in DOMAIN buffer[g] /\ buffer'[g][k] = buffer[g][k]
  OBVIOUS
<1>2. \A m : Buffered(m)' => Buffered(m)
  BY <1>1 DEF Buffered
<1>3. MessagesOnce'
  BY <1>1, <1>2 DEF MessagesInv, MessagesOnce, Good
<1>4. QED
  BY <1>3 DEF MessagesInv, NoListenError

\* pubsub takes in a content it has not seen, on a topic that has its validator.
LEMMA PushOnce ==
  ASSUME TypeOK, MessagesInv, UNCHANGED <<buffer, outVars>>,
         NEW t \in validators, NEW m \in Msgs, m \notin seen, Push(t, m)
  PROVE  MessagesInv'
<1> USE DEF outVars
<1> DEFINE d == [topic |-> t, msg |-> m, checked |-> TRUE]
<1>1. d.msg = m /\ d.checked /\ d = [topic |-> t, msg |-> m, checked |-> t \in validators]
  <2>1. (t \in validators) = TRUE
    OBVIOUS
  <2>2. QED
    BY <2>1
<1>2. seen' = seen \cup {m}
  BY Zenon DEF Push, msgID
<1>3. \/ inFlight' = inFlight \cup {d} /\ m \notin Undecodable
      \/ inFlight' = inFlight
  BY <1>1, Zenon DEF Push, Accepted
<1> HIDE DEF d
<1>4. handled[m] = 0 /\ ~Buffered(m) /\ \A e \in inFlight : e.msg # m
  <2>1. handled[m] = 0
    BY DEF MessagesInv, MessagesOnce, TypeOK
  <2>2. QED
    BY <2>1 DEF MessagesInv, MessagesOnce, Good, Buffered
<1>5. \A e : Good(e) => Good(e)'
  BY <1>2 DEF Good
<1>6. inFlight' = inFlight \cup {d} => Good(d)'
  BY <1>1, <1>2, <1>3, <1>4 DEF Good, MessagesInv, MessagesOnce
<1>7. \A n : Buffered(n)' <=> Buffered(n)
  BY DEF Buffered
<1>8. /\ \A e \in inFlight' : Good(e)' /\ ~Buffered(e.msg)'
      /\ \A e, f \in inFlight' : e.msg = f.msg => e = f
  BY <1>1, <1>3, <1>4, <1>5, <1>6, <1>7 DEF MessagesInv, MessagesOnce
<1>9. /\ \A g \in Goroutines : \A k \in DOMAIN buffer[g] : Good(buffer[g][k])'
      /\ \A n \in Msgs : handled[n] <= 1 /\ (handled[n] = 1 => n \in seen')
  BY <1>2, <1>5 DEF MessagesInv, MessagesOnce
<1>10. QED
  BY <1>8, <1>9 DEF MessagesInv, MessagesOnce, NoListenError

\* A message leaves for the one subscription its topic may have.
LEMMA DeliverOnce ==
  ASSUME TypeOK, MapsBacked, MessagesInv, NEW d \in inFlight, Deliver(d)
  PROVE  MessagesInv'
<1>1. /\ UNCHANGED <<seen, outVars>> /\ inFlight' = inFlight \ {d}
      /\ \A g \in Goroutines :
            buffer'[g] = IF g \in subscribers[d.topic] /\ Len(buffer[g]) < BufferSize
                         THEN Append(buffer[g], d) ELSE buffer[g]
  BY DEF Deliver
<1>2. d.topic \in Topics /\ \A g \in Goroutines : buffer[g] \in Seq(Deliveries)
  BY DEF TypeOK, Deliveries
<1>3. ASSUME NEW g \in Goroutines, NEW k \in DOMAIN buffer'[g]
      PROVE  \/ k \in DOMAIN buffer[g] /\ buffer'[g][k] = buffer[g][k]
             \/ /\ buffer'[g][k] = d /\ g \in subscribers[d.topic]
                /\ k = Len(buffer[g]) + 1
  <2>1. CASE buffer'[g] = buffer[g]
    BY <1>3, <2>1
  <2>2. CASE buffer'[g] = Append(buffer[g], d) /\ g \in subscribers[d.topic]
    BY <1>2, <1>3, <2>2, AppendProperties
  <2>3. QED
    BY <1>1, <2>1, <2>2
<1>4. \A m : Buffered(m)' => Buffered(m) \/ m = d.msg
  BY <1>3 DEF Buffered
<1>5. Good(d) /\ ~Buffered(d.msg) /\ \A e : Good(e) => Good(e)'
  BY <1>1 DEF MessagesInv, MessagesOnce, Good, outVars
<1>6. \A e \in inFlight' : Good(e)' /\ ~Buffered(e.msg)'
  BY <1>1, <1>4, <1>5 DEF MessagesInv, MessagesOnce
<1>7. \A g \in Goroutines : \A k \in DOMAIN buffer'[g] : Good(buffer[g][k])'
  BY <1>3, <1>5 DEF MessagesInv, MessagesOnce
<1>8. ASSUME NEW g \in Goroutines, NEW h \in Goroutines,
             NEW k \in DOMAIN buffer'[g], NEW l \in DOMAIN buffer'[h],
             buffer'[g][k].msg = buffer'[h][l].msg
      PROVE  g = h /\ k = l
  <2>1. g \in subscribers[d.topic] /\ h \in subscribers[d.topic] => g = h
    BY <1>2 DEF MapsBacked
  <2>2. \A i \in DOMAIN buffer[g] : buffer[g][i].msg # d.msg
    BY <1>5 DEF Buffered
  <2>3. \A i \in DOMAIN buffer[h] : buffer[h][i].msg # d.msg
    BY <1>5 DEF Buffered
  <2>4. QED
    BY <1>3, <1>8, <2>1, <2>2, <2>3 DEF MessagesInv, MessagesOnce
<1>9. QED
  BY <1>1, <1>6, <1>7, <1>8 DEF MessagesInv, MessagesOnce, NoListenError, outVars

\* A handler gets a content that nothing else holds.
LEMMA ReadOnce ==
  ASSUME TypeOK, MessagesInv, NEW g \in Goroutines, Read(g)
  PROVE  MessagesInv'
<1> DEFINE d == Head(buffer[g])
<1>1. /\ UNCHANGED <<seen, inFlight>> /\ buffer[g] # <<>>
      /\ buffer' = [buffer EXCEPT ![g] = Tail(@)]
      /\ d.checked => /\ handled' = [handled EXCEPT ![d.msg] = @ + 1]
                      /\ UNCHANGED errors
  BY DEF Read, netVars
<1>2. buffer[g] \in Seq(Deliveries)
  BY DEF TypeOK
<1>3. /\ 1 \in DOMAIN buffer[g] /\ d = buffer[g][1] /\ d \in Deliveries
      /\ Tail(buffer[g]) \in Seq(Deliveries)
      /\ \A k \in DOMAIN Tail(buffer[g]) :
            /\ k \in Nat /\ k >= 1 /\ k + 1 \in DOMAIN buffer[g]
            /\ Tail(buffer[g])[k] = buffer[g][k + 1]
  BY <1>1, <1>2, HeadTailProperties
<1>4. Good(d) /\ d.msg \in Msgs
  BY <1>3 DEF MessagesInv, MessagesOnce, Deliveries
<1>5. /\ UNCHANGED errors /\ handled'[d.msg] = 1
      /\ \A m \in Msgs : m # d.msg => handled'[m] = handled[m]
  BY <1>1, <1>4 DEF Good, TypeOK
<1>6. /\ \A h \in Goroutines : h # g => buffer'[h] = buffer[h]
      /\ buffer'[g] = Tail(buffer[g])
  BY <1>1 DEF TypeOK
<1> HIDE DEF d
<1>7. \A h \in Goroutines : \A k \in DOMAIN buffer'[h] :
        \E l \in DOMAIN buffer[h] :
            /\ buffer'[h][k] = buffer[h][l]
            /\ IF h = g THEN k \in Nat /\ k >= 1 /\ l = k + 1 ELSE l = k
  BY <1>3, <1>6
<1>8. \A h \in Goroutines : \A k \in DOMAIN buffer[h] :
        h # g \/ k # 1 => buffer[h][k].msg # d.msg
  BY <1>3 DEF MessagesInv, MessagesOnce
<1>9. \A e : Good(e) /\ e.msg # d.msg => Good(e)'
  BY <1>1, <1>5, <1>4 DEF Good, TypeOK
<1>10. \A m : Buffered(m)' => Buffered(m)
  BY <1>7 DEF Buffered
<1>11. \A e \in inFlight' : Good(e)' /\ ~Buffered(e.msg)'
  <2>1. Buffered(d.msg)
    BY <1>3 DEF Buffered
  <2>2. QED
    BY <1>1, <1>9, <1>10, <2>1 DEF MessagesInv, MessagesOnce
<1>12. \A h \in Goroutines : \A k \in DOMAIN buffer'[h] : Good(buffer[h][k])'
  BY <1>7, <1>8, <1>9 DEF MessagesInv, MessagesOnce
<1>13. \A h, i \in Goroutines : \A k \in DOMAIN buffer'[h], l \in DOMAIN buffer'[i] :
         buffer'[h][k].msg = buffer'[i][l].msg => h = i /\ k = l
  BY <1>7 DEF MessagesInv, MessagesOnce
<1>14. \A m \in Msgs : handled'[m] <= 1 /\ (handled'[m] = 1 => m \in seen')
  BY <1>1, <1>4, <1>5 DEF Good, MessagesInv, MessagesOnce
<1>15. QED
  BY <1>1, <1>5, <1>11, <1>12, <1>13, <1>14 DEF MessagesInv, MessagesOnce, NoListenError

\* No step loses count of a message.
LEMMA StepMessages == TypeOK /\ MapsInv /\ MessagesInv /\ [Next]_vars => MessagesInv'
<1> SUFFICES ASSUME TypeOK, MapsInv, MessagesInv, [Next]_vars PROVE MessagesInv'
  OBVIOUS
<1>1. ASSUME NEW g \in Goroutines, PublishPush(g)
      PROVE  MessagesInv'
  <2>1. call[g].topic \in validators /\ call[g].msg \in Msgs
    BY <1>1, CallFields DEF PublishPush, At, MapsInv, CallsOnTrack, OnTrack, Holds
  <2>2. /\ UNCHANGED <<buffer, outVars>> /\ call[g].msg \notin seen
        /\ Push(call[g].topic, call[g].msg)
    BY <1>1 DEF PublishPush, msgID
  <2>3. QED
    BY <2>1, <2>2, PushOnce, Zenon
<1>2. ASSUME NEW t \in Topics, NEW m \in Msgs, Receive(t, m)
      PROVE  MessagesInv'
  <2>1. t \in validators
    BY <1>2 DEF Receive, MapsInv, MapsBacked
  <2>2. UNCHANGED <<buffer, outVars>> /\ m \notin seen /\ Push(t, m)
    BY <1>2 DEF Receive, msgID
  <2>3. QED
    BY <2>1, <2>2, PushOnce
<1>3. ASSUME NEW d \in inFlight, Deliver(d)
      PROVE  MessagesInv'
  BY <1>3, DeliverOnce DEF MapsInv
<1>4. ASSUME NEW g \in Goroutines, Read(g)
      PROVE  MessagesInv'
  BY <1>4, ReadOnce
<1>5. ASSUME NEW g \in Goroutines,
             \/ PublishNothing(g) \/ PublishReturn(g)
             \/ UnregisterTopicValidator(g) \/ RegisterTopicValidator(g) \/ RegisterFails(g)
             \/ Subscribe(g) \/ SubscribeFails(g) \/ ReadEnd(g) \/ LeaveClose(g)
             \/ \E t \in Topics :
                  \/ \E m \in Msgs : Publish(g, t, m)
                  \/ \E listen \in BOOLEAN : Join(g, t, listen)
                  \/ ListenJoined(g, t)
                  \/ Leave(g, t)
      PROVE  MessagesInv'
  <2>1. UNCHANGED <<seen, inFlight, outVars>>
    BY <1>5 DEF PublishNothing, PublishReturn, UnregisterTopicValidator, RegisterTopicValidator,
                RegisterFails, Subscribe, SubscribeFails, ReadEnd, LeaveClose, Publish, Join,
                ListenJoined, Leave, netVars
  <2>2. UNCHANGED buffer \/ buffer' = [buffer EXCEPT ![g] = <<>>]
    BY <1>5 DEF PublishNothing, PublishReturn, UnregisterTopicValidator, RegisterTopicValidator,
                RegisterFails, Subscribe, SubscribeFails, ReadEnd, LeaveClose, Publish, Join,
                ListenJoined, Leave
  <2>3. \A h \in Goroutines : buffer'[h] = buffer[h] \/ buffer'[h] = <<>>
    BY <2>2 DEF TypeOK
  <2>4. QED
    BY <2>1, <2>3, MessagesStay
<1>6. ASSUME Close \/ CancelParent \/ LoopExit \/ UNCHANGED vars
      PROVE  MessagesInv'
  BY <1>6, MessagesStay DEF Close, CancelParent, LoopExit, vars, netVars
<1>7. QED
  BY <1>1, <1>2, <1>3, <1>4, <1>5, <1>6 DEF Next, Proceed

-----------------------------------------------------------------------------
(* Theorems *)

\* The invariant is inductive, and holds of every state a node reaches.
THEOREM Inductive == Spec => []IInv
<1>1. IInv <=> TypeOK /\ MapsInv /\ MessagesInv
  BY DEF IInv, MapsInv, MessagesInv
<1>2. Init => IInv
  BY <1>1, InitTypes, InitMaps, InitMessages
<1>3. IInv /\ [Next]_vars => IInv'
  <2>1. SUFFICES ASSUME IInv, [Next]_vars PROVE IInv'
    OBVIOUS
  <2>2. TypeOK' /\ MapsInv' /\ MessagesInv'
    BY <1>1, <2>1, StepTypes, StepMaps, StepMessages DEF MapsInv
  <2>3. QED
    BY <2>2 DEF IInv, MapsInv, MessagesInv
<1>4. QED
  BY <1>2, <1>3, PTL DEF Spec

\* The variables stay within their types.
THEOREM TypeCorrect == Spec => []TypeOK
<1>1. IInv => TypeOK
  BY DEF IInv
<1>2. QED
  BY <1>1, Inductive, PTL

\* While a node is live and no call is half way, tm.topics and tm.subs say exactly
\* what pubsub holds.
THEOREM MapsAgree == Spec => []MapsMatchPubsub
<1>1. IInv => MapsMatchPubsub
  <2> SUFFICES ASSUME IInv, ctx = "live", mutex = None
               PROVE  /\ topics = joined
                      /\ \A t \in Topics :
                            /\ topics[t] # None => t \in validators
                            /\ subs[t] # None => topics[t] # None
                            /\ subscribers[t] = {subs[t]} \ {None}
    BY DEF MapsMatchPubsub
  <2>1. \A g \in Goroutines : call[g].at \notin Locked
    BY TopicsAssumption DEF IInv, OneHolder
  <2>2. \A t \in Topics : topics[t] = joined[t]
    BY <2>1 DEF IInv, LiveAgrees, Joining, Locked
  <2>3. topics = joined
    BY <2>2 DEF IInv, TypeOK
  <2>4. \A t \in Topics : /\ topics[t] # None => t \in validators
                          /\ subs[t] # None => topics[t] # None
    BY DEF IInv, MapsBacked
  <2>5. ASSUME NEW t \in Topics
        PROVE  subscribers[t] = {subs[t]} \ {None}
    <3>1. CASE topics[t] = None
      BY <2>2, <2>4, <3>1 DEF IInv, MapsBacked
    <3>2. CASE topics[t] # None
      <4>1. subscribers[t] \subseteq {subs[t]} /\ None \notin subscribers[t]
        BY <2>1, <3>2, TopicsAssumption DEF IInv, NoStraySubscription, At, Locked, TypeOK
      <4>2. subs[t] # None => subs[t] \in subscribers[t]
        BY DEF IInv, MapsBacked
      <4>3. QED
        BY <4>1, <4>2
    <3>3. QED
      BY <3>1, <3>2
  <2>6. QED
    BY <2>3, <2>4, <2>5
<1>2. QED
  BY <1>1, Inductive, PTL

\* A topic the manager counts as listened to has a goroutine reading it.
THEOREM EntriesRead == Spec => []EveryEntryRead
<1>1. IInv => EveryEntryRead
  <2> SUFFICES ASSUME IInv, ctx # "done", NEW t \in Topics, subs[t] # None
               PROVE  call[subs[t]] = [at |-> "reading", topic |-> t]
    BY DEF EveryEntryRead
  <2>1. subs[t] \in Goroutines /\ subs[t] \in subscribers[t]
    BY DEF IInv, TypeOK, MapsBacked
  <2>2. At(subs[t], "reading") /\ call[subs[t]].topic = t
    BY <2>1 DEF IInv, SubscribersRead
  <2>3. QED
    BY <2>1, <2>2, CallFields DEF IInv, At
<1>2. QED
  BY <1>1, Inductive, PTL

\* Every message a listener gets has been decoded by the validator.
THEOREM NeverUndecoded == Spec => []NoListenError
<1>1. IInv => NoListenError
  BY DEF IInv
<1>2. QED
  BY <1>1, Inductive, PTL

\* A node hands a content to the message handler at most once.
THEOREM HandledAtMostOnce == Spec => []HandledOnce
<1>1. IInv => HandledOnce
  BY DEF IInv, MessagesOnce, HandledOnce
<1>2. QED
  BY <1>1, Inductive, PTL

-----------------------------------------------------------------------------
(* The manager implements TopicRegistry *)

\* The states of the topics, as the registry sees them.
States == [t \in Topics |-> RegistryState(t)]

\* A step that moves one topic moves it in the registry.
LEMMA OneTopic ==
  ASSUME TypeOK, NEW t \in Topics,
         \A u \in Topics : u # t => topics'[u] = topics[u] /\ subs'[u] = subs[u]
  PROVE  States' = [States EXCEPT ![t] = RegistryState(t)']
BY DEF States, RegistryState

\* So does a step that moves none.
LEMMA NoTopic ==
  ASSUME UNCHANGED <<topics, subs>>
  PROVE  UNCHANGED States
BY DEF States, RegistryState

\* A content is taken in on a topic that has been joined, or the node is closing.
LEMMA PushAccepts ==
  ASSUME IInv, NEW t \in Topics, NEW m \in Msgs, m \notin seen, Push(t, m),
         topics[t] # None \/ ctx # "live",
         UNCHANGED <<topics, subs, handled, ctx>>
  PROVE  [Registry!Next]_(Registry!vars)
<1>1. seen' = seen \cup {m}
  BY Zenon DEF Push, msgID
<1>2. States' = States
  BY NoTopic
<1>3. States[t] # "absent" \/ ctx # "live"
  BY TopicsAssumption DEF States, RegistryState, IInv, TypeOK
<1>4. CASE m \in Undecodable
  <2>1. (seen \ Undecodable)' = seen \ Undecodable
    BY <1>1, <1>4
  <2>2. QED
    BY <1>2, <2>1 DEF Registry!vars, States
<1>5. CASE m \notin Undecodable
  <2>1. /\ m \notin seen \ Undecodable
        /\ (seen \ Undecodable)' = (seen \ Undecodable) \cup {m}
    BY <1>1, <1>5
  <2>2. Registry!Accept(t, m)
    BY <1>2, <1>3, <2>1 DEF Registry!Accept, States
  <2>3. QED
    BY <2>2 DEF Registry!Next
<1>6. QED
  BY <1>4, <1>5

\* Every step of the manager is a step of the registry, or none.
LEMMA StepRegistry == IInv /\ [Next]_vars => [Registry!Next]_(Registry!vars)
<1> SUFFICES ASSUME IInv, [Next]_vars PROVE [Registry!Next]_(Registry!vars)
  OBVIOUS
<1> USE DEF tmVars, netVars, outVars
<1>1. ASSUME UNCHANGED <<topics, subs, seen, handled, ctx>>
      PROVE  [Registry!Next]_(Registry!vars)
  BY <1>1, NoTopic DEF Registry!vars, States
<1>2. ASSUME NEW g \in Goroutines, PublishPush(g)
      PROVE  [Registry!Next]_(Registry!vars)
  <2>1. call[g].topic \in Topics /\ call[g].msg \in Msgs
    BY <1>2, CallFields DEF PublishPush, At, IInv
  <2>2. topics[call[g].topic] # None \/ ctx # "live"
    <3>1. Holds(g) /\ call[g].handle \in Handles
      BY <1>2, CallFields DEF PublishPush, At, Holds, IInv
    <3>2. joined[call[g].topic] # None
      BY <3>1, TopicsAssumption DEF Holds
    <3>3. QED
      BY <2>1, <3>1, <3>2 DEF IInv, LiveAgrees, CallsOnTrack, OnTrack
  <2>3. /\ UNCHANGED <<topics, subs, handled, ctx>> /\ call[g].msg \notin seen
        /\ Push(call[g].topic, call[g].msg)
    BY <1>2 DEF PublishPush, msgID
  <2>4. QED
    BY <2>1, <2>2, <2>3, PushAccepts, Zenon
<1>3. ASSUME NEW t \in Topics, NEW m \in Msgs, Receive(t, m)
      PROVE  [Registry!Next]_(Registry!vars)
  <2>1. topics[t] # None \/ ctx # "live"
    BY <1>3 DEF Receive, IInv, LiveAgrees, MapsBacked, CallsOnTrack, OnTrack
  <2>2. UNCHANGED <<topics, subs, handled, ctx>> /\ m \notin seen /\ Push(t, m)
    BY <1>3 DEF Receive, msgID
  <2>3. QED
    BY <2>1, <2>2, PushAccepts
<1>4. ASSUME NEW g \in Goroutines, RegisterTopicValidator(g)
      PROVE  Registry!Next
  <2>0. PICK t \in Topics : t = call[g].topic
    BY <1>4, CallFields DEF RegisterTopicValidator, At, IInv
  <2>1. /\ UNCHANGED <<subs, seen, handled, ctx>>
        /\ topics' = [topics EXCEPT ![t] = joined[t]]
    BY <1>4, <2>0 DEF RegisterTopicValidator
  <2>2. topics[t] = None /\ joined[t] # None /\ subs[t] = None
    BY <1>4, <2>0, <2>1 DEF RegisterTopicValidator, At, IInv, CallsOnTrack, OnTrack, Joining, MapsBacked
  <2>3. States' = [States EXCEPT ![t] = RegistryState(t)']
    BY <2>1, OneTopic DEF IInv, TypeOK
  <2>4. States[t] = "absent" /\ RegistryState(t)' = "joined"
    BY <2>1, <2>2 DEF States, RegistryState, IInv, TypeOK
  <2>5. Registry!Join(t)
    BY <2>1, <2>3, <2>4 DEF Registry!Join, Registry!Move, States
  <2>6. QED
    BY <2>1, <2>5 DEF Registry!Next
<1>5. ASSUME NEW g \in Goroutines, Subscribe(g)
      PROVE  Registry!Next
  <2>0. PICK t \in Topics : t = call[g].topic
    BY <1>5, CallFields DEF Subscribe, At, IInv
  <2>1. /\ UNCHANGED <<topics, seen, handled, ctx>>
        /\ subs' = [subs EXCEPT ![t] = g]
    BY <1>5, <2>0 DEF Subscribe
  <2>2. topics[t] # None /\ subs[t] = None
    BY <1>5, <2>0 DEF Subscribe, At, IInv, CallsOnTrack, OnTrack
  <2>3. States' = [States EXCEPT ![t] = RegistryState(t)']
    BY <2>1, OneTopic DEF IInv, TypeOK
  <2>4. States[t] = "joined" /\ RegistryState(t)' = g
    BY <2>1, <2>2, TopicsAssumption DEF States, RegistryState, IInv, TypeOK
  <2>5. Registry!Listen(t, g)
    BY <2>1, <2>3, <2>4 DEF Registry!Listen, Registry!Move, States
  <2>6. QED
    BY <2>1, <2>5 DEF Registry!Next
<1>6. ASSUME NEW g \in Goroutines, NEW t \in Topics, Leave(g, t)
      PROVE  [Registry!Next]_(Registry!vars)
  <2>1. /\ UNCHANGED <<topics, seen, handled, ctx>>
        /\ subs' = [subs EXCEPT ![t] = None]
    BY <1>6 DEF Leave, DeleteSub
  <2>2. CASE subs[t] = None
    BY <1>1, <2>1, <2>2 DEF IInv, TypeOK
  <2>3. CASE subs[t] # None
    <3>1. topics[t] # None
      BY <2>3 DEF IInv, MapsBacked
    <3>2. States' = [States EXCEPT ![t] = RegistryState(t)']
      BY <2>1, OneTopic DEF IInv, TypeOK
    <3>3. States[t] \in Goroutines /\ RegistryState(t)' = "joined"
      BY <2>1, <2>3, <3>1 DEF States, RegistryState, IInv, TypeOK
    <3>4. Registry!Unlisten(t)
      BY <2>1, <3>2, <3>3 DEF Registry!Unlisten, Registry!Move, States
    <3>5. QED
      BY <3>4 DEF Registry!Next
  <2>4. QED
    BY <2>2, <2>3
<1>7. ASSUME NEW g \in Goroutines, LeaveClose(g)
      PROVE  [Registry!Next]_(Registry!vars)
  <2>0. PICK t \in Topics : t = call[g].topic
    BY <1>7, CallFields DEF LeaveClose, At, IInv
  <2>1. /\ UNCHANGED <<subs, seen, handled, ctx>>
        /\ topics' = [topics EXCEPT ![t] = None]
    BY <1>7, <2>0 DEF LeaveClose
  <2>2. subs[t] = None
    BY <1>7, <2>0 DEF LeaveClose, At, IInv, CallsOnTrack, OnTrack
  <2>3. CASE topics[t] = None
    BY <1>1, <2>1, <2>3 DEF IInv, TypeOK
  <2>4. CASE topics[t] # None
    <3>1. States' = [States EXCEPT ![t] = RegistryState(t)']
      BY <2>1, OneTopic DEF IInv, TypeOK
    <3>2. States[t] = "joined" /\ RegistryState(t)' = "absent"
      BY <2>1, <2>2, <2>4 DEF States, RegistryState, IInv, TypeOK
    <3>3. Registry!Leave(t)
      BY <2>1, <3>1, <3>2 DEF Registry!Leave, Registry!Move, States
    <3>4. QED
      BY <2>1, <3>3 DEF Registry!Next
  <2>5. QED
    BY <2>3, <2>4
<1>8. ASSUME NEW g \in Goroutines, Read(g)
      PROVE  Registry!Next
  <2> DEFINE d == Head(buffer[g])
  <2>1. d \in Deliveries /\ Good(d)
    <3>1. buffer[g] \in Seq(Deliveries) /\ buffer[g] # <<>>
      BY <1>8 DEF Read, IInv, TypeOK
    <3>2. d = buffer[g][1] /\ 1 \in DOMAIN buffer[g] /\ d \in Deliveries
      BY <3>1, HeadTailProperties
    <3>3. QED
      BY <3>2 DEF IInv, MessagesOnce
  <2>2. d.msg \in Msgs /\ d.checked /\ d.msg \in seen \ Undecodable /\ handled[d.msg] = 0
    BY <2>1 DEF Deliveries, Good
  <2>3. /\ UNCHANGED <<topics, subs, seen, ctx>>
        /\ handled' = [handled EXCEPT ![d.msg] = @ + 1]
    BY <1>8, <2>2 DEF Read
  <2> HIDE DEF d
  <2>4. handled' = [handled EXCEPT ![d.msg] = 1]
    BY <2>2, <2>3 DEF IInv, TypeOK
  <2>5. Registry!Handle(d.msg)
    BY <2>2, <2>3, <2>4, NoTopic DEF Registry!Handle, States
  <2>6. QED
    BY <2>2, <2>5 DEF Registry!Next
<1>9. ASSUME Close \/ CancelParent
      PROVE  Registry!Next
  <2>1. UNCHANGED <<topics, subs, seen, handled>> /\ ctx' # "live"
    BY <1>9 DEF Close, CancelParent
  <2>2. Registry!Close
    BY <2>1, NoTopic DEF Registry!Close, States
  <2>3. QED
    BY <2>2 DEF Registry!Next
<1>10. ASSUME \/ \E g \in Goroutines :
                  \/ PublishNothing(g) \/ PublishReturn(g) \/ UnregisterTopicValidator(g)
                  \/ RegisterFails(g) \/ SubscribeFails(g) \/ ReadEnd(g)
                  \/ \E t \in Topics :
                        \/ \E m \in Msgs : Publish(g, t, m)
                        \/ \E listen \in BOOLEAN : Join(g, t, listen)
                        \/ ListenJoined(g, t)
              \/ \E d \in inFlight : Deliver(d)
              \/ LoopExit \/ UNCHANGED vars
       PROVE  UNCHANGED <<topics, subs, seen, handled, ctx>>
  BY <1>10 DEF PublishNothing, PublishReturn, UnregisterTopicValidator, RegisterFails,
               SubscribeFails, ReadEnd, Publish, Join, ListenJoined, Deliver, LoopExit, vars
<1>11. QED
  BY <1>1, <1>2, <1>3, <1>4, <1>5, <1>6, <1>7, <1>8, <1>9, <1>10 DEF Next, Proceed

\* The manager implements the registry: whatever happens between its calls into
\* pubsub, a caller sees single steps.
THEOREM ImplementsRegistry == Spec => KeepsRegistry
<1>1. Init => Registry!Init
  <2>1. SUFFICES ASSUME Init PROVE Registry!Init
    OBVIOUS
  <2>2. States = [t \in Topics |-> "absent"]
    BY <2>1 DEF Init, States, RegistryState
  <2>3. seen \ Undecodable = {} /\ handled = [m \in Msgs |-> 0] /\ (ctx # "live") = FALSE
    BY <2>1 DEF Init
  <2>4. QED
    BY <2>2, <2>3 DEF Registry!Init, States
<1>2. QED
  BY <1>1, Inductive, StepRegistry, PTL DEF Spec, KeepsRegistry, Registry!Spec

===============================================================================
