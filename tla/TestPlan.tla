------------------------------ MODULE TestPlan ------------------------------
(***************************************************************************)
(* One run of a test case, runGroups or runSubnets (plans/topology/        *)
(* groups.go, subnets.go): every instance starts a node, learns the peers' *)
(* addresses (getAllPeers), dials them, listens to the topics of its       *)
(* validators and publishes in rounds, kept together by the barriers of    *)
(* testground's sync service.  The two cases differ in what a topic stands *)
(* for (a group of operators, a subnet) and in the number of rounds.       *)
(*                                                                         *)
(* External: the sync service (a signal is counted, a barrier opens when   *)
(* the count reaches its target, the Must calls panic once the instance's  *)
(* context is done) and the sidecar that shapes the network.  A node is    *)
(* reduced to the topics it listens to: Publish fails on any other topic.  *)
(* What a failed dial or a failed Publish records is left out: neither     *)
(* stops the instance.  A message that cannot be encoded does not stop it  *)
(* either, but makes the case fail once the rounds are over.               *)
(***************************************************************************)
EXTENDS ClusterData, FiniteSets

CONSTANTS
    TestInstanceCount,
    Params,         \* the parameters a run may be started with, and the shares of its
                    \* cluster file
    SubnetSlots,    \* length of the array of counters in runSubnets (128)
    SubnetRounds,   \* rounds of runSubnets (9)
    MaxSendErrs     \* bound: messages that cannot be encoded

\* GlobalSeq numbers the instances, and each is the operator of that number;
\* operators of the cluster file may have no instance.
Instances == 1 .. TestInstanceCount

Cases == {"groups", "subnets"}

ASSUME PlanAssumption ==
    /\ TestInstanceCount \in Nat \ {0}
    /\ \A p \in Params :
        /\ p.case \in Cases /\ p.sidecar \in BOOLEAN
        /\ p.subnets \in Nat \ {0} /\ p.t_latency \in Nat /\ p.t_latency_max \in Nat \ {0}
        /\ IsFiniteSet(p.shares) /\ p.shares \subseteq [PK : Keys, Operators : Groups]
    /\ SubnetSlots \in Nat \ {0}
    /\ SubnetRounds \in Nat \ {0}
    /\ MaxSendErrs \in Nat

VARIABLES
    params,         \* the parameters of this run
    pc,             \* pc[i]: what instance i is doing, or how it ended
    round,          \* round[i]: its round
    signals,        \* signals[s]: the instances that signalled state s
    addresses,      \* the sync service's topic "peers"
    latency,        \* latency[i]: the latency its link is shaped to
    spawned,        \* spawned[i]: topics whose Listen goroutine has yet to run
    listening,      \* listening[i]: topics its node has subscribed to
    toPublish,      \* toPublish[i]: shares left in this round
    results,        \* the publish results recorded, of all instances
    sendErr,        \* the messages that could not be encoded, of all instances
    expired         \* instances whose context (384 s) is done

vars == <<params, pc, round, signals, addresses, latency, spawned, listening,
          toPublish, results, sendErr, expired>>
syncVars == <<signals, addresses, latency>>
nodeVars == <<spawned, listening>>
workVars == <<round, toPublish, results, sendErr>>

Shares == params.shares

Rounds == IF params.case = "groups" THEN 1 ELSE SubnetRounds

RoundNumbers == 0 .. Rounds - 1

States == {<<"initialized">>, <<"connected">>, <<"subscribed">>}
          \cup {"network-configured", "done"} \X RoundNumbers

\* Places inside a Must call of the sync client.
Waiting == {"initialized", "advertised", "connected", "subscribed", "configured", "done"}
Ended == {"succeeded", "failed", "crashed"}
Places == {"created", "discovering", "publishing"} \cup Waiting \cup Ended

Init ==
    /\ params \in Params
    /\ pc = [i \in Instances |-> "created"]
    /\ round = [i \in Instances |-> 0]
    /\ signals = [s \in States |-> {}]
    /\ addresses = {}
    /\ latency = [i \in Instances |-> 0]
    /\ spawned = [i \in Instances |-> {}]
    /\ listening = [i \in Instances |-> {}]
    /\ toPublish = [i \in Instances |-> {}]
    /\ results = {}
    /\ sendErr = {}
    /\ expired = {}

myValidators(i) == {s \in Shares : i \in Members(s)}

validatorGroups == [s \in Shares |-> groupID(s.Operators)]

\* The name of the topic of a share.
Topic(s) ==
    IF params.case = "groups" THEN validatorGroups[s]
    ELSE ValidatorSubnet(s.PK, params.subnets)

Topics == {Topic(s) : s \in Shares}

\* Faulty variant: the goroutines share the variable sub of the loop.
LastTopic(i) ==
    IF myValidators(i) = {} THEN {} ELSE {Topic(CHOOSE s \in myValidators(i) : TRUE)}

myTopics(i) == {Topic(s) : s \in myValidators(i)}

Goto(i, place) == pc' = [pc EXCEPT ![i] = place]

Signal(i, s) == signals' = [signals EXCEPT ![s] = @ \cup {i}]

\* Faulty variants: the barriers open one signal early, or one too late.
OpenEarly(s) == Cardinality(signals[s]) >= TestInstanceCount - 1
OpenLate(s) == Cardinality(signals[s]) >= TestInstanceCount + 1

Open(s) == Cardinality(signals[s]) >= TestInstanceCount

-----------------------------------------------------------------------------
(* Setting up *)

\* The SDK signals that the instance is there and calls the test case.
Initialize(i) ==
    /\ pc[i] = "created"
    /\ Signal(i, <<"initialized">>)
    /\ Goto(i, "initialized")
    /\ UNCHANGED <<params, addresses, latency, nodeVars, workVars, expired>>

\* NewNode succeeds, and getAllPeers publishes the node's own address ...
StartNode(i) ==
    /\ pc[i] = "initialized"
    /\ Open(<<"initialized">>)
    /\ Goto(i, "advertised")
    /\ addresses' = addresses \cup {i}
    /\ UNCHANGED <<params, signals, latency, nodeVars, workVars, expired>>

\* ... or NewNode fails, and so does the test case.
StartFails(i) ==
    /\ pc[i] = "initialized"
    /\ Open(<<"initialized">>)
    /\ Goto(i, "failed")
    /\ UNCHANGED <<params, syncVars, nodeVars, workVars, expired>>

\* getAllPeers subscribes to the addresses of all.
SubscribePeers(i) ==
    /\ pc[i] = "advertised"
    /\ Goto(i, "discovering")
    /\ UNCHANGED <<params, syncVars, nodeVars, workVars, expired>>

AllAddresses == Cardinality(addresses) >= TestInstanceCount

\* It has received as many addresses as there are instances, and every other
\* peer is dialled.
Dial(i) ==
    /\ pc[i] = "discovering"
    /\ AllAddresses
    /\ Signal(i, <<"connected">>)
    /\ Goto(i, "connected")
    /\ UNCHANGED <<params, addresses, latency, nodeVars, workVars, expired>>

\* Subnets that the array of counters has no place for.
OutOfRange(i) ==
    params.case = "subnets" /\ \E t \in myTopics(i) : t \notin 0 .. SubnetSlots - 1

\* Each Listen gets a goroutine; nothing waits for them to subscribe.
SpawnListeners(i) ==
    /\ pc[i] = "connected"
    /\ Open(<<"connected">>)
    /\ ~OutOfRange(i)
    /\ spawned' = [spawned EXCEPT ![i] = myTopics(i)]
    /\ Signal(i, <<"subscribed">>)
    /\ Goto(i, "subscribed")
    /\ UNCHANGED <<params, addresses, latency, listening, workVars, expired>>

\* subnets[sub]++ panics, whatever goroutines were started before.
IndexPanics(i) ==
    /\ pc[i] = "connected"
    /\ Open(<<"connected">>)
    /\ OutOfRange(i)
    /\ Goto(i, "crashed")
    /\ UNCHANGED <<params, syncVars, nodeVars, workVars, expired>>

\* A Listen goroutine subscribes to its topic.
Listen(i, t) ==
    /\ pc[i] \notin Ended
    /\ t \in spawned[i]
    /\ spawned' = [spawned EXCEPT ![i] = @ \ {t}]
    /\ listening' = [listening EXCEPT ![i] = @ \cup {t}]
    /\ UNCHANGED <<params, pc, syncVars, workVars, expired>>

-----------------------------------------------------------------------------
(* Rounds *)

\* A latency is drawn below t_latency_max: t_latency plays no part in it.
Shape(i) ==
    \E l \in 0 .. params.t_latency_max - 1 : latency' = [latency EXCEPT ![i] = l]

\* Faulty variant: an instance publishes as soon as its own network is shaped.
ConfigureWithoutWait(i, r) ==
    Shape(i) /\ Signal(i, <<"network-configured", r>>) /\ Goto(i, "publishing")

\* Round r begins: the sidecar shapes the network and signals, if there is one.
ConfigureNetwork(i, r) ==
    \/ params.sidecar /\ Shape(i) /\ Signal(i, <<"network-configured", r>>) /\ Goto(i, "configured")
    \/ ~params.sidecar /\ Goto(i, "publishing") /\ UNCHANGED <<signals, latency>>

StartRounds(i) ==
    /\ pc[i] = "subscribed"
    /\ Open(<<"subscribed">>)
    /\ toPublish' = [toPublish EXCEPT ![i] = myValidators(i)]
    /\ ConfigureNetwork(i, 0)
    /\ UNCHANGED <<params, round, results, sendErr, addresses, nodeVars, expired>>

Configured(i) ==
    /\ pc[i] = "configured"
    /\ Open(<<"network-configured", round[i]>>)
    /\ Goto(i, "publishing")
    /\ UNCHANGED <<params, syncVars, nodeVars, workVars, expired>>

\* What becomes of the message of share s in round r of instance i.
Result(i, s, r) == [from |-> i, share |-> s, round |-> r]

\* A result is recorded either way: Publish fails where Listen has yet to run.
\* A key that is not hexadecimal is passed over.
Recorded(i, s) == IF Decodes(s.PK) THEN {Result(i, s, round[i])} ELSE {}

\* Faulty variant: a failed Publish ends the round of the instance.
LeftIfSent(i, s) == IF Topic(s) \in listening[i] THEN toPublish[i] \ {s} ELSE {}

Left(i, s) == toPublish[i] \ {s}

\* One message; the shares come in the order of a Go map.
Publish(i, s) ==
    /\ pc[i] = "publishing"
    /\ s \in toPublish[i]
    /\ results' = results \cup Recorded(i, s)
    /\ toPublish' = [toPublish EXCEPT ![i] = Left(i, s)]
    /\ UNCHANGED <<params, pc, round, sendErr, syncVars, nodeVars, expired>>

\* Its encoding fails: the error is kept for the end, nothing is recorded, and
\* the round goes on.  Of several errors the code keeps the last.
EncodeFails(i, s) ==
    /\ pc[i] = "publishing"
    /\ s \in toPublish[i]
    /\ Decodes(s.PK)
    /\ Cardinality(sendErr) < MaxSendErrs
    /\ sendErr' = sendErr \cup {Result(i, s, round[i])}
    /\ toPublish' = [toPublish EXCEPT ![i] = @ \ {s}]
    /\ UNCHANGED <<params, pc, round, results, syncVars, nodeVars, expired>>

SignalDone(i) ==
    /\ pc[i] = "publishing"
    /\ toPublish[i] = {}
    /\ Signal(i, <<"done", round[i]>>)
    /\ Goto(i, "done")
    /\ UNCHANGED <<params, addresses, latency, nodeVars, workVars, expired>>

\* Faulty variants: an instance does not wait for the others; it plays one
\* round more.
AtOnce(i) == TRUE
OneRoundMore(i) == round[i] < Rounds

RoundOver(i) == Open(<<"done", round[i]>>)

MoreRounds(i) == round[i] + 1 < Rounds

NextRound(i) ==
    /\ pc[i] = "done"
    /\ RoundOver(i)
    /\ MoreRounds(i)
    /\ round' = [round EXCEPT ![i] = @ + 1]
    /\ toPublish' = [toPublish EXCEPT ![i] = myValidators(i)]
    /\ ConfigureNetwork(i, round[i] + 1)
    /\ UNCHANGED <<params, results, sendErr, addresses, nodeVars, expired>>

SendFailed(i) == \E x \in sendErr : x.from = i

\* The last round is over: the node is closed and the case returns nil, ...
Succeed(i) ==
    /\ pc[i] = "done"
    /\ RoundOver(i)
    /\ ~MoreRounds(i)
    /\ ~SendFailed(i)
    /\ Goto(i, "succeeded")
    /\ UNCHANGED <<params, syncVars, nodeVars, workVars, expired>>

\* ... or sendErr, if there was one in any round.
ReturnSendErr(i) ==
    /\ pc[i] = "done"
    /\ RoundOver(i)
    /\ ~MoreRounds(i)
    /\ SendFailed(i)
    /\ Goto(i, "failed")
    /\ UNCHANGED <<params, syncVars, nodeVars, workVars, expired>>

-----------------------------------------------------------------------------
(* The deadline *)

\* The context exists from the moment the test case waits for the others.
Expire(i) ==
    /\ pc[i] \notin {"created"} \cup Ended
    /\ i \notin expired
    /\ expired' = expired \cup {i}
    /\ UNCHANGED <<params, pc, syncVars, nodeVars, workVars>>

\* Faulty variant: getAllPeers does not look at sub.Done().
NoError == {}

ReturnsError == {"discovering"}

\* The instance waits in a Must call, or is about to signal with one.
AtMust(i) ==
    \/ pc[i] \in Waiting
    \/ pc[i] = "discovering" /\ AllAddresses
    \/ pc[i] = "publishing" /\ toPublish[i] = {}

\* A Must call panics; getAllPeers returns the error of its subscription.
GiveUp(i) ==
    /\ i \in expired
    /\ \/ AtMust(i) /\ Goto(i, "crashed")
       \/ pc[i] \in ReturnsError /\ Goto(i, "failed")
    /\ UNCHANGED <<params, syncVars, nodeVars, workVars, expired>>

\* All instances have ended.
Terminated ==
    /\ \A i \in Instances : pc[i] \in Ended
    /\ UNCHANGED vars

-----------------------------------------------------------------------------

\* What an instance does unless it is disturbed.
Advance(i) ==
    \/ Initialize(i) \/ StartNode(i) \/ SubscribePeers(i) \/ Dial(i)
    \/ SpawnListeners(i) \/ IndexPanics(i)
    \/ StartRounds(i) \/ Configured(i)
    \/ \E s \in Shares : Publish(i, s)
    \/ SignalDone(i) \/ NextRound(i) \/ Succeed(i) \/ ReturnSendErr(i)

Next ==
    \/ \E i \in Instances :
        \/ Advance(i)
        \/ \E t \in Topics : Listen(i, t)
        \/ \E s \in Shares : EncodeFails(i, s)
        \/ StartFails(i) \/ Expire(i) \/ GiveUp(i)
    \/ Terminated

Spec == Init /\ [][Next]_vars

\* Whatever an instance, its goroutines included, can do, it does at last;
\* nothing is done twice, so that one step cannot keep another from happening.
\* Deadlines are not made to pass: a run that gets stuck before them would hide
\* behind them.
FairSpec ==
    /\ Spec
    /\ \A i \in Instances :
        WF_vars(Advance(i) \/ (\E t \in Topics : Listen(i, t)) \/ GiveUp(i))

-----------------------------------------------------------------------------
(* Properties *)

TypeOK ==
    /\ params \in Params
    /\ pc \in [Instances -> Places]
    /\ round \in [Instances -> RoundNumbers]
    /\ signals \in [States -> SUBSET Instances]
    /\ addresses \subseteq Instances
    /\ latency \in [Instances -> 0 .. params.t_latency_max - 1]
    /\ spawned \in [Instances -> SUBSET Topics]
    /\ listening \in [Instances -> SUBSET Topics]
    /\ toPublish \in [Instances -> SUBSET Shares]
    /\ results \subseteq [from : Instances, share : Shares, round : RoundNumbers]
    /\ sendErr \subseteq [from : Instances, share : Shares, round : RoundNumbers]
    /\ expired \subseteq Instances

\* Rounds do not overlap: what instances publish at the same time belongs to
\* one round, so a round's latencies are measured under its own network only.
RoundsDoNotOverlap ==
    \A i, j \in Instances :
        pc[i] = "publishing" /\ pc[j] = "publishing" => round[i] = round[j]

\* The validators of i that it has a message for in every round.
Due(i) == {s \in myValidators(i) : Decodes(s.PK)}

\* A round is over for an instance only when every instance has dealt with each
\* message of its validators whose key decodes: it has recorded a result, or kept
\* the error of its encoding, and with such an error it does not succeed.  Single
\* publishes may fail, and instances crash or time out on the way.
RoundsComplete ==
    /\ \A i, j \in Instances, r \in RoundNumbers :
        (r < round[i] \/ pc[i] = "succeeded") =>
            \A s \in Due(j) : Result(j, s, r) \in results \cup sendErr
    /\ \A x \in sendErr : pc[x.from] # "succeeded"

\* Nobody listens, let alone publishes, before every instance has dialled its
\* peers ("wait for all peers to signal that they're connected").
ListenAfterConnect ==
    \A i \in Instances :
        spawned[i] \cup listening[i] # {} =>
            addresses = Instances /\ signals[<<"connected">>] = Instances

\* With a sidecar, nobody publishes in a round before the network of every
\* instance has been shaped for it.
ShapedBeforePublish ==
    params.sidecar =>
        \A i \in Instances : pc[i] = "publishing" =>
            signals[<<"network-configured", round[i]>>] = Instances

\* No instance panics before its deadline: every subnet it counts is one of the
\* array's, provided the parameter asks for no more subnets than the array has and
\* no key is shorter than ten characters.
ClusterFits == params.subnets <= SubnetSlots /\ \A s \in Shares : s.PK.long
CrashOnlyPastDeadline ==
    ClusterFits => \A i \in Instances : pc[i] = "crashed" => i \in expired

\* A message goes to a topic on which every operator of the share that is past
\* the start of its listeners listens, or is about to; and with groups, where
\* the same operators may be written in several orders, nobody else does, and an
\* instance has no more subscriptions than groups.
OperatorsMeet ==
    \A j \in Instances :
        LET hears == spawned[j] \cup listening[j] IN
            /\ \A x \in results :
                j \in Members(x.share) /\ j \in signals[<<"subscribed">>] => Topic(x.share) \in hears
            /\ params.case = "groups" =>
                /\ \A x \in results : Topic(x.share) \in hears => j \in Members(x.share)
                /\ Cardinality(hears) <= Cardinality({Members(s) : s \in myValidators(j)})

\* The inductive invariant behind these properties.  A barrier says nothing by
\* itself: what it separates follows from what whoever signals has done before.

\* The states of the set-up were signalled one after the other.
SetUpInOrder ==
    /\ signals[<<"connected">>] # {} => addresses = Instances
    /\ \A i \in Instances :
        /\ spawned[i] \cup listening[i] # {} => signals[<<"connected">>] = Instances
        /\ spawned[i] \cup listening[i] \subseteq myTopics(i)
        /\ i \in signals[<<"subscribed">>] => myTopics(i) \subseteq spawned[i] \cup listening[i]

\* Rounds that an instance has left were signalled by all; what an instance has
\* signalled it has left, but for waiting at the barrier or giving up there.
RoundsInOrder ==
    \A i \in Instances, r \in RoundNumbers :
        /\ r < round[i] \/ pc[i] = "succeeded" => signals[<<"done", r>>] = Instances
        /\ i \in signals[<<"done", r>>] =>
            \/ r < round[i]
            \/ r = round[i] /\ pc[i] \in {"done"} \cup Ended

\* An instance has a result, or an error, for all that it is not yet to publish,
\* and signals when it has dealt with all.
ResultsInOrder ==
    /\ \A i \in Instances :
        /\ pc[i] \in {"configured", "publishing"} =>
            \A s \in Due(i) \ toPublish[i] : Result(i, s, round[i]) \in results \cup sendErr
        /\ \A r \in RoundNumbers : i \in signals[<<"done", r>>] =>
            \A s \in Due(i) : Result(i, s, r) \in results \cup sendErr
    /\ \A x \in sendErr : pc[x.from] # "succeeded"

IInv ==
    /\ TypeOK
    /\ SetUpInOrder
    /\ RoundsInOrder
    /\ ResultsInOrder
    /\ ShapedBeforePublish
    /\ CrashOnlyPastDeadline

\* An instance whose deadline has passed ends, wherever it was waiting and even
\* when another one has failed and will never signal.
ExpiredInstancesEnd == \A i \in Instances : i \in expired ~> pc[i] \in Ended

\* When every node starts and no deadline passes too early, the test case ends on
\* every instance, and succeeds unless one of the instance's own messages could not
\* be encoded: the barriers do not block each other, and a lost message blocks none.
Undisturbed ==
    /\ expired = {}
    /\ ClusterFits
    /\ \A i \in Instances : pc[i] = "failed" => SendFailed(i)
UndisturbedRunSucceeds ==
    []Undisturbed =>
        <>(\A i \in Instances : pc[i] = IF SendFailed(i) THEN "failed" ELSE "succeeded")

\* What the comment at the "subscribed" barrier says (groups.go:142,
\* subnets.go:146): instances go on when all peers are subscribed.
SubscribedBeforeRounds ==
    \A i, j \in Instances :
        pc[i] \in {"configured", "publishing", "done"} /\ pc[j] \notin Ended => spawned[j] = {}

\* What the manifest says of t_latency_max (manifest.toml:36 and :46): the
\* latency of a link is between t_latency and t_latency_max.
LatencyAsDocumented ==
    params.sidecar =>
        \A i \in Instances : pc[i] = "publishing" =>
            latency[i] \in params.t_latency .. params.t_latency_max

=============================================================================
