# TLA+ models of the p2p-tests topology plan

This directory models the Go program under `src/`: a Testground plan that starts
one libp2p node per test instance, connects the nodes, joins pubsub topics that
stand for groups of operators or for subnets, publishes validator messages in
rounds and counts what arrives. The modules are checked by TLC on small
instances. The invariants of every module, and both refinements, are also proved
with TLAPS for every value of the constants; liveness is only model-checked.

File names below are relative to `src/plans/topology/` unless they say otherwise.

## 1. Inventory of the system

| Component | Code | State | Operations | Hard part |
|---|---|---|---|---|
| Peer limiter | `node.go:84-91,106-177` | `connected`, `connectedCache`, mutex `l` | `ConnectedF`, `DisconnectedF`, `gc` every minute | callbacks of different connections run in any order; the swarm changes under their feet; `ClosePeer` is called with the mutex held |
| Topic manager | `topic_manager.go` | `topics`, `subs`, `mutex`, and pubsub's own topics, subscriptions and validators | `Join`, `Leave`, `Subscribe`, `Publish`, `ListPeers` | two views of the same topics that must agree; handles used after the lock was released; calls that fail half way |
| Listen, validator, message id | `pubsub.go` | one loop per subscription, `ValidatorData` | `Listen`, `msgValidator`, `decodeMsg`, `msgID` | loops that must end; messages in flight while topics are left and joined again |
| Node lifecycle | `node.go:50-115`, `pubsub.go:14-40` | contexts, host, tracer | `NewNode`, `Close` | failure paths that leave goroutines behind |
| Test cases | `groups.go`, `subnets.go` | phase and round of each instance, the sync service's counters | set-up, `getAllPeers`, barriers, rounds | barriers among 100 instances of which some fail or time out; goroutines nobody waits for; errors kept until the rounds are over |
| Tracer | `tracer.go` | metrics, two channels | `Trace`, event loop, `Stop` | `Stop` reads the metrics while the loop writes them, and truncates the file before it writes; bounded channels |
| Cluster data, pure functions | `clusters.go`, `groups.go:216` | none | `ValidatorSubnet`, `hexToUint64`, `groupID` | array and modulus boundaries |
| Cluster generator | `src/utils/generate.go`, `src/cmd/gen/main.go` | groups being built | `Append`, `RandGroup`, `GenerateGroups`, two writers | loops without a bound |
| Entry point, environment | `main.go`, `manifest.toml`, Vagrantfile, dashboard, module files | none | none | none |

How they interact. A test case creates one node (`NewNode`) whose host calls the
limiter's callbacks from the swarm's goroutines. The node's topic manager wraps
pubsub, whose event loop is one goroutine that every call of the manager has to
pass through. The test case starts one goroutine per `Listen` and publishes from
another one. All instances meet at barriers of Testground's sync service. One
context with a deadline of 384 s is the parent of everything a node starts.

What makes each part correct:

* limiter: counter, cache and swarm stay consistent; nobody tracked is closed,
  nobody connected escapes; `Close` returns;
* topic manager: its maps say what pubsub holds, a listener reads every
  subscription, every message delivered was validated, nothing is handled twice,
  listeners and calls end;
* test cases: rounds do not overlap and are complete on every instance, set-up
  steps are separated by the barriers, every instance ends;
* node lifecycle and tracer: what the filtered file says of publications and deliveries
  agrees with the metrics, whatever was dropped; a whole aggregate file agrees with
  them, too; `Trace` and `Close` return, the loop ends;
* pure functions and generator: their results are in range, groups have four
  different operators and there are at most `maxGroups` of them.

## 2. Modules

| Module | What it is |
|---|---|
| `PeerLimiter` | the limiter of one node, detailed model |
| `PeerBudget` | what the limiter promises, without mutex, swarm or callbacks |
| `PeerLimiterProofs` | theorems about `PeerLimiter` |
| `TopicManager` | topic manager, Listen loops, validator and message id over an external pubsub |
| `TopicRegistry` | what the topic manager promises, without mutex, handles or pubsub |
| `ClusterData` | the pure functions on shares: topics' names, subnets |
| `TestPlan` | one run of `runGroups` or `runSubnets` over all instances; extends `ClusterData` |
| `Tracer` | state and steps of a node's tracer |
| `NodeLifecycle` | `NewNode`, `setupPubsub` and `Node.Close` around the tracer; extends `Tracer` |
| `ClusterGen` | the generator of the cluster file and the writers of `src/cmd/gen`; extends `ClusterData` |
| `ClusterDataProofs` | what `groupID` and `ValidatorSubnet` return |
| `TestPlanProofs`, `TopicManagerProofs`, `NodeLifecycleProofs`, `ClusterGenProofs` | theorems about the modules they are named after (section 5) |
| `MCPeerLimiter`, `MCTopicManager`, `MCTestPlan`, `MCNodeLifecycle`, `MCClusterGen` | constants for TLC |

Every model module ends with its properties. Operators introduced by the words
"Faulty variant" are not part of any specification: each is a definition of the
model with a plausible mistake in it, and putting it in the place of the right
one makes TLC report the property that guards against that mistake.

### 2.1 `PeerLimiter`

`connected`, `connectedCache` (as the set of its keys) and `l` are the variables
of the closure in `notiffee`. `toCheck`, `toRemove` and `gcPc` are the locals and
the place of the gc goroutine, `callback[c]` the progress of the two callbacks of
connection `c`, `closing` the connections `ClosePeer` has yet to close, `node` the
progress of `Node.Close`. `conn[c]` is what the swarm's table knows.

Granularity: state guarded by `l` may change in the same step that takes or
releases `l`, since nobody else can see it in between. Every look at the swarm,
and every connection closed, is a step of its own, because the swarm is not
guarded by `l`. Hence `gc` is one step per peer it looks at, `DisconnectedF` looks
in one step (`DisconnectedGone`) and deletes in another (`DisconnectedRemove`),
and `ClosePeer` closes its snapshot one connection at a time.

Assumed of libp2p: `ConnectedF` of a connection comes before its `DisconnectedF`,
each once; `DisconnectedF` runs after the connection has left the swarm's table;
callbacks of different connections are concurrent; closing a connection does not
wait for its callback, closing the host waits for all of them.

The model begins when `Notify` has registered the callbacks (`node.go:91`). The host
listens a little earlier; a connection it accepted before would have no `ConnectedF`, and
its `DisconnectedF` would find no entry. No peer knows the address by then:
`getAllPeers` publishes it after `NewNode` has returned.

### 2.2 `TopicManager`

`mutex`, `topics` and `subs` are the fields of `topicManager`. `joined`,
`subscribers`, `validators`, `seen`, `inFlight` and `up` are pubsub's own state.
`call[g]` is where the call of goroutine `g` stands: `Listen` is
`ListenJoined` or `Join(g, t, TRUE)` followed by `Subscribe`, then the loop
(`Read`, `ReadEnd`); `Join` is `Join(g, t, FALSE)`; both continue with the private
`join` of the code, `UnregisterTopicValidator` and `RegisterTopicValidator`;
`Leave` is `Leave` and `LeaveClose`; `Publish` reads a handle and then uses it
(`PublishPush`, `PublishNothing`, `PublishReturn`). `handled` counts calls of
`msgHandler`, `errors` those of `errHandler`.

Granularity: one step per call into pubsub, because pubsub's event loop serves
one request at a time, and messages and other goroutines' publishes come in
between. A call that changes nothing is not written down: it would be a
stuttering step. This includes `ListPeers`, which only reads. `SetScoreParams` is
never reached, as `setupPubsub` passes no factory (`pubsub.go:36`).

pubsub is external and modelled from how the code uses it: its handles, the
conditions under which `Close` and `RegisterTopicValidator` fail, the moment at
which a message meets the validators (when it is taken in, not when it is
delivered), the buffer of a subscription, and what `Next` returns. A message that
was taken in stays known: pubsub forgets it after 384 s (`pubsub.go:25`), which is
the deadline of a whole test case.

Contexts: `ctx = "closed"` after `Node.Close`, which ends only the node's context;
`ctx = "done"` when its parent ends, which is the one `Listen` was given in both
test cases and in the test. After either of them the calls into pubsub may fail
at any point, or still succeed until the loop exits (`LoopExit`).

`TopicRegistry` is what a caller may rely on: a topic is absent, joined or read by
one listener, and changes by one step at a time; a content is taken in once, on a
topic that is not absent unless the node was closed, and is handled at most once.
Under the refinement mapping a topic is joined when `tm.topics` has it, which is
the last thing `join` does and the last but one that `Leave` does: what pubsub
holds before and after is invisible.

### 2.3 `ClusterData` and `TestPlan`

`params` are the parameters the run was started with and the shares of its cluster
file. `pc[i]` and `round[i]` say where instance `i` is, `signals[s]` which instances
have signalled state `s` to the sync service; a barrier opens when it has been
signalled `TestInstanceCount` times. `addresses` is the sync service's topic
"peers". `spawned[i]` are the topics whose `Listen` goroutines were started and have
not subscribed, `listening[i]` the topics subscribed to, `latency[i]` what the
sidecar was asked for. A node is nothing but its topics here: whether `Publish`
finds the topic is all the test case depends on.

`ClusterData` names the topics: `groupID` is the operators of a share in ascending order
(they are different ones: those of all 500 shares of the embedded file are),
`ValidatorSubnet` takes the number that a key's first ten characters spell modulo the
number of subnets. A key is what these functions read of it: whether it has ten
characters, and that number, or `NotHex`. Instances are their operator's number
(`GlobalSeq`), and a share may have operators without an instance. With
`sidecar = FALSE` (the `local:exec` runner) `MustConfigureNetwork` does nothing.

What can go wrong is part of the model: `NewNode` fails (`StartFails`), the counter
array of `runSubnets` is too short for a subnet (`IndexPanics`), the deadline passes at
any point after the start (`Expire`), a `Must` call panics then or `getAllPeers` returns
an error (`GiveUp`), a key does not decode, a message cannot be encoded
(`EncodeFails`), and a `Publish` fails because its `Listen` goroutine is late. They cost
an instance different things. A key that does not decode costs its message (`Recorded`); a
`Publish` that fails costs not even its result. A message that cannot be encoded has no
result; the round goes on, and the error is kept in `sendErr` until the rounds are over,
when the case returns it (`ReturnSendErr`) in the place of nil (`Succeed`). The code keeps
only the last error of an instance, of which it asks whether there is one; the model keeps
which messages they were. Failures that only get recorded and change nothing else (a
failed dial) are left out, and so is what a result says.

### 2.4 `Tracer` and `NodeLifecycle`

`Tracer` has the fields of `TestTracer` and the steps of `Trace`, the event loop and
`Stop`; `NodeLifecycle` decides when they may happen. `metrics` maps counters to
numbers, restricted to the counters that the events of the instance can touch;
`filtered` counts the events of each type in the filtered file; `file` is the aggregate
file. Nothing guards the metrics in the code, hence each addition of the loop
(`Update`) and each counter that `Stop` copies (`StopCopy`) is a step of its own. For an
RPC the loop adds to six counters, zeros included (`countRPC`). A read
that overlaps a write returns the value before or after it, which is what a 64-bit
word does on the platforms Testground runs on. `traced`, `dropped` and `before` are
history variables, which no action but the bound on `traced` reads.

Nothing guards the aggregate file either. `ioutil.WriteFile` truncates it (`StopOpen`) and
then writes it (`StopWrite`), from the start and over whatever another call has put there
in between. Each can fail: before the file is touched (`StopOpenFails`), or with nothing, a
part or all of it written (`StopWriteFails`). So the file is absent, empty, whole
(`Written`), or broken, that is short or a mixture of two calls'. How long a copy is when
formatted is left out, so that two calls may leave a mixture unless both copied the same
metrics (`SameWritten`). `Close` logs the error and goes on: a call that ended in
`"failed"` closes the host like one that ended in `"stopped"`.

`newNode` follows `NewNode`: host, tracer, router, and the way back when one of them
fails (`Abandon` is the `Close` of a node that knows no tracer). Each member of `Closers`
is one call of `Close`. `setupPubsub` creates the tracer but does not pass it to pubsub
(`pubsub.go:24-30`), so that with the code as it stands nobody calls `Trace`;
`Goroutines` is the constant that says who does, and the tracer is checked for the
callers its interface admits. What the runs and theorems say of calls of `Trace` is
therefore about `TestTracer` as an `EventTracer`, not about a run of the plan.
`setupPubsub` never asks for the full tracer.

### 2.5 `ClusterGen`

A group's name is that of `ClusterData`, as `Group.ID` and `groupID` are the same function
on four operators. `g` and `i` are the locals of `RandGroup` and `GenerateGroups`, `groups` the map under
construction, `place` and `writing` (the wait group) those of `main`. `Draw` is one turn
of the inner loop of `RandGroup`, `AddShare` and `Retry` are the two outcomes of a drawn
group. `rand.Intn` is a nondeterministic choice, and panics without operators. A file
is the sequence of what was written to it; `tail` says that an older `.stats.yaml` was
longer and keeps its end, as it is opened without truncation: `ExitMeansWritten` says that
both records were written, and nothing of such a tail. Negative flags are excluded by
assumption. `WriteFails` is a panic
in one of the goroutines, which ends the process.

## 3. Runs

| Run | Instance | Shows |
|---|---|---|
| `limiter_safety` | 3 peers, 5 connections (2 + 2 + 1), limit 1 | all safety properties of the limiter and the refinement to `PeerBudget` |
| `limiter_liveness` | 2 peers, 3 connections, limit 1 | connections are decided, gone peers are forgotten, `Close` returns |
| `limiter_limit` (violation) | as `limiter_safety` | the limit is exceeded by one |
| `limiter_leak` (violation) | as `limiter_safety` | gc loses slots, and peers get refused below the limit |
| `topics_safety` | 3 goroutines, 1 topic, 2 good and 1 undecodable content, buffers of 2 | the maps agree with pubsub, every entry is read, no listener meets an unvalidated message; refinement to `TopicRegistry` |
| `topics_dedup` | 3 goroutines, 2 topics, 1 content, buffers of 1 | nothing is handled twice |
| `topics_liveness` | 3 goroutines, 1 topic, 1 content | calls return, listeners end, buffered messages are handled |
| `plan` | 3 instances, clusters of 3, 2 and 1 shares, both cases, 2 rounds of subnets, with and without a sidecar, 2 and 3 subnets for 2 counters, at most 1 message that cannot be encoded | set-up steps and rounds are apart, shaped and complete; operators meet on their topics; nobody panics before the deadline; every run ends, and in an undisturbed one exactly those succeed that could encode all their messages |
| `plan_subscribed` (violation) | 3 instances, groups, sidecar | the "subscribed" barrier does not wait for subscriptions |
| `plan_latency` (violation) | 2 instances, subnets, sidecar, latencies of 1 to 2 ms | latencies are below the documented range |
| `node` | 2 tracing goroutines, 2 calls of `Close`, 3 types of events, a channel of 1, 2 events | file of events, metrics and drops agree on publications; a whole aggregate file lies within the metrics; `Trace` and `Close` return; the loop ends |
| `generator` | 5 operators for 2 validators with at most 1 or 2 groups, 4 without limit, 3 and none | groups are well formed, both files are complete, the program ends exactly when it can |

Why the bounds are enough. Limiter: two connections to one peer are needed for
reconnecting and for stale reads, two peers with two connections for a refusal
while another peer comes back, and the third makes the counter pass the limit; a
connection is used once, so the number of connections bounds every behaviour.
Topics: nothing bounds the number of calls, the state space is finite without it;
three goroutines are a listener, one that leaves and joins, and a publisher with a
stale handle. `Handles` has more members than can be in use, so a new handle
always exists. Two topics matter only where a content is offered on both; `topics_dedup`
has them. Goroutines and topics are interchangeable in the safety runs
(`Symmetry`); the liveness run uses no symmetry. Plan: with three
instances a barrier can be one signal short in two ways; two rounds are what can
overlap; one instance operates three shares, of which two are one group written in
two orders, another operates one of them, the third none. Two subnets and two
counters let keys share a subnet, three let one fall outside; the code's 128 and 9
are the constants `SubnetSlots` and `SubnetRounds`. Without a sidecar the "done" barrier
alone keeps rounds apart; with one, the "network-configured" barrier would as well, so
both kinds of run are there; the second kind of each case has the cluster of one share,
of instances 1 and 2, which is enough for a barrier to be early. `MaxSendErrs = 1` lets any
message of any round fail to be encoded while those of another instance, or of another
round of the same one, do not; a second failure would repeat the same steps, as errors only
add up. Node: a channel of one makes the second event a drop, a
queue or a wait, and a `SEND_RPC` that touches two counters lets `Stop` read between
them; `MaxEvents` bounds the calls of `Trace`. Two calls of `Close` can overlap in every step of
`WriteFile`. The third call of `Close` is left out: it
blocks, as the loop took one of the two requests and the other fills `doneCh`, and
nobody in the repository makes it. Generator: with five operators there are five
groups, so that a limit of one turns draws away and a limit of two lets different
groups grow side by side.

Deadlock is checked in every run. The limiter, the plan, the node and the generator
really end, which their actions `Terminated` say; a topic manager can always be called.

### Fairness

* Limiter: callbacks and the gc goroutine keep running (weak fairness), and
  taking `l` is strongly fair, because `sync.RWMutex` hands the lock to every waiter
  eventually. Connections, failures and `Node.Close` happen or not.
* Topics: weak fairness for the steps of a call that has begun. Calls, incoming
  messages, delivery and the contexts carry no fairness.
* Plan: weak fairness for each instance, over what it does next, its `Listen`
  goroutines and giving up after its deadline; every step of an instance happens at
  most once, so none of the three can keep the others from happening. The deadline itself is not
  fair: if it had to pass, `UndisturbedRunSucceeds` would hold for a run that gets stuck.
  Nor is `EncodeFails`, which happens or not. The premise `[]Undisturbed` (no deadline passes,
  the cluster fits the counters, and nobody ends as failed but for a kept encoding error) is
  satisfied by the runs that end in time, and only by those in which the barriers
  themselves let everybody through; then an instance ends as succeeded or, with an
  encoding error, as failed.
* Node: weak fairness for the goroutines, whether a write succeeds or fails, and strong
  fairness for the loop receiving from `doneCh`, because a `select` chooses at random
  between two ready channels. Calls of `Trace` and `Close` happen or not.
* Generator: weak fairness for the program, and strong fairness for draws that bring a
  useful group nearer (`LuckyDraw`), the qualitative form of "with probability one".
  Nothing less will do: a generator that draws the same operator for ever never ends.

## 4. What the violation runs show

* `limiter_limit`: `connected > maxPeers` (`node.go:149`) admits `maxPeers + 1`
  peers; `manifest.toml:34` calls `max_peers` the "maximum number of connected peers".
  `CounterBounds` shows that it is never more than one too many.
* `limiter_leak`: `gc` deletes entries without giving their slots back
  (`node.go:137-139`). When it runs after a connection has left the swarm and before
  its `DisconnectedF`, the slot is lost for good; after enough of them the node
  refuses everybody. `OnlyGcLosesSlots` shows that nothing else loses slots.
* `plan_subscribed`: `groups.go:142` and `subnets.go:146` say that the barrier waits
  "for all peers to signal that they're subscribed", and the signal is given without
  waiting for the `Listen` goroutines (`groups.go:129`). A round can start, and a
  `Publish` can fail with "topic not found", on an instance whose goroutines are late.
* `plan_latency`: `manifest.toml:36` and `:46` say "latency is between t_latency and
  t_latency_max". The rounds draw it from `[0, t_latency_max)` (`groups.go:157`,
  `subnets.go:161`); `t_latency` is read from the parameter `max_peers` (`groups.go:36`,
  `subnets.go:39`) and only logged.

## 5. Proofs

Each proof module shows that one invariant, `IInv` of the module it extends, is
inductive (`Inductive`), and gets the theorems from it. All assumptions are those
written down with the constants. There is one lemma per group of conjuncts, with one
case per action, or per group of actions that cannot disturb it.

### `PeerLimiterProofs`

For every set of peers and connections, every assignment of connections to peers and
every limit: `TypeCorrect`, `CounterBounded`, `NothingUntracked`, `NothingStuck`,
`TrackedNotClosed`, `CacheExact` (the safety invariants of `limiter_safety`),
`SlotsLostByGcAlone` (the action property) and `ImplementsBudget` (the refinement to
`PeerBudget`).

`NoUntrackedPeer` is not inductive: gc and `DisconnectedF` delete entries on what they
saw earlier, and by then the peer may be back. `RemovalInv` says why this is harmless: a
connection that opened in the meantime has not had its `ConnectedF`, which needs the
mutex that the deleting party still holds (`MutexDiscipline`). `RefusalInv` says the same
of `ClosePeer`'s snapshot, and `CallbackOrder` ties the callbacks to the swarm.
`CounterBounds` needs that an entry and a slot come and go together, except in
gc, which only removes entries. `OnlyThreeCount` names the three actions
that touch counter or cache, so that facts about the two need only these cases.

### `TopicManagerProofs`

For any finite sets of goroutines, topics and handles (more handles than topics and
goroutines together, so that a new one always exists), any contents and any size of
buffers: `TypeCorrect`, `MapsAgree`, `EntriesRead`, `NeverUndecoded`,
`HandledAtMostOnce` and `ImplementsRegistry`, the refinement to `TopicRegistry`.

`MapsMatchPubsub` speaks only of moments when nobody holds the mutex, and is not
inductive. `IInv` says what holds in between. `MapsBacked`: what the maps say, pubsub
has, always; the other direction fails while a call is half way and, once the node is
closed, for good. `OnTrack`: what each call relies on when pubsub's answer comes back,
above all that a joining caller's topic is in no map, that nobody subscribes to it, and
that nobody can be publishing with its handle, which is a new one (`FreshHandle`).
A handle kept after `RUnlock` is either closed or that of a topic that still has its
validator (`Holds`): this is why no message escapes the validators, and with it
`NoListenError`. `HandledOnce` follows from `MessagesOnce`: a content that was seen is in
at most one place, on its way, in one buffer, or handled; two listeners never have it
because `subscribers[t]` has at most one member. `ImplementsRegistry` maps each
of the steps that change `tm.topics` or `tm.subs`, take a message in or hand it over to the
step of `TopicRegistry` of that name, and everything else to a stutter.

### `TestPlanProofs`

For any number of instances, any parameters and cluster file, any number of subnet
counters, of rounds and of messages that cannot be encoded: `TypeCorrect`, `ListensLate`, `RoundsApart`,
`RoundsAreComplete`, `ShapedFirst`, `CrashesAreLate` and `OperatorsAreThere`.

A barrier says nothing by itself: it counts signals, and `EnoughIsAll` shows that a count
of `TestInstanceCount` is everybody, as an instance signals a state once.
`SetUpInOrder` and `RoundsInOrder` say what whoever signals has done
before, and that whoever has passed a barrier leaves every instance's signal behind.
`RoundsDoNotOverlap` is then one comparison: an instance that publishes in a
later round needs the signal of one that has not given it. `ResultsInOrder` carries what
is published, what could not be encoded and what is left from the start of a round to its
signal, and that whoever kept an error has not succeeded.
`OperatorsMeet` needs that the name of a group is made of who its operators are
and of nothing else; that is `ClusterDataProofs`: `NameTellsGroup` and `GroupTellsName`, of
groups of any size. That a group can be sorted at all (`GroupSorts`) would be an
induction; it is shown by giving the place of each operator, the number of those up to it.

### `NodeLifecycleProofs`

For any goroutines that call `Trace`, any number of calls of `Close`, any events, channel
capacity and `MaxEvents`: `TypeCorrect`, `EventsAccountedFor`, `FileIsWithin` and
`LoopIsOwned`.

`FileWithinMetrics` rests on the metrics never going down (`MetricsGrow`):
what `Stop` has copied stays between those it found and those of now (`CopiesWithin`), a
call keeps its copy once it has all of it (`Copied`), and a whole file is the copy of the
call that wrote it. That a `Stop` leaves the file whole
is said only of one that no other call overlaps (`Alone`): from its truncation on the file
is empty until it writes (`FileByStopped`), and nobody can become alone who was not
(`NobodyBecomesAlone`). `FilteredAgreesWithMetrics` is a balance, which `StepBalance` keeps
action by action, for publications and deliveries: an event is in a call, in the channel,
in the loop, counted, or dropped. It is stated with the number of places where an event is, rather than with a recursive count of a
sequence, and so needs no induction over data; `AppendCounts` and `TailCounts` say how that
number changes. `LoopHasOwner` follows from how far `NewNode` is (`LoopAsBuilt`).

### `ClusterGenProofs`

For every command line: `TypeCorrect`, `GroupsAreGood`, `ExitIsWritten`, and
`TooFewNeverEnd`, which shows that with one to three operators the generator never leaves
its loop. The last is the safety half of `EndsWithFourOperators`.

The array being drawn has different operators (`AppendKeepsApart`), its name is a group
that is its own name (`NameOfFull`), so that a group has one name. That each
validator counted has its share is a bijection between the index and the places of the shares,
one more of each in `AddShare` (`AddShareKeeps`). `ExitMeansWritten` needs that the groups
no longer change once the writers are started, and that a writer main does not wait for
any more has written (`WrittenSoFar`).

### Only model-checked

The liveness properties of all modules: `EveryConnectionDecided`, `GonePeersForgotten`,
`CloseReturns` and `TraceReturns`, `CallsReturn`, `ListenersEnd`, `BufferedHandled`,
`ExpiredInstancesEnd`, `UndisturbedRunSucceeds`, `ClosedLoopEnds`, and the ending half of
`EndsWithFourOperators`. They rest on fairness, and with it on `ENABLED`, which the
provers do not handle. That the violated properties of section 4 are violated is
shown by counterexample.

## 6. Plan

Done: all components of section 1 but the last, the refinements to `PeerBudget` and
`TopicRegistry`, and proofs of every safety property the passing runs check. Left:

1. Safety facts behind the liveness properties, which can be proved without fairness:
   that the holder of the manager's mutex can always go on, that a node whose loop has a
   stop request cannot refuse it.
2. Composition of limiter and test plan: dialling 99 peers against a limit of 25.

## 7. Not modelled, and why

The router behind pubsub (mesh, gossip, `gossipSubParam`), the swarm, the sync service
and the PB tracer that writes the filtered file are libraries; the models state what
they assume of them. The Vagrantfile, the dashboard, `main.go` and the module files have no
behaviour of their own. `readClusters` returns the embedded data whatever file it is
asked for (`clusters.go:18-27`); the data are the shares of `params`. Keys are not
generated (BLS), and the files' formats, the average in the statistics included, are
left out. Validation delays and measured times are data that no property depends on;
a delay is an arbitrary number of other steps. That connections of the limiter and
dials of the test plan meet in one model is left to a composition (section 6).
