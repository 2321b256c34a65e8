---------------------------- MODULE TestPlanProofs ----------------------------
(***************************************************************************)
(* Proofs about TestPlan for every number of instances, every cluster file *)
(* and all parameters of a run.  The invariant IInv is inductive; each     *)
(* lemma Step... shows that a step preserves one of its conjuncts, action  *)
(* by action.                                                              *)
(***************************************************************************)
EXTENDS TestPlan, ClusterDataProofs

-----------------------------------------------------------------------------
(* Barriers and states *)

\* A barrier opens when all instances have signalled its state: signals are of
\* instances, so that enough of them are all.
LEMMA EnoughIsAll ==
  ASSUME NEW S \in SUBSET Instances, Cardinality(S) >= TestInstanceCount
  PROVE  S = Instances
<1>1. IsFiniteSet(Instances) /\ Cardinality(Instances) = TestInstanceCount
  BY PlanAssumption, FS_Interval DEF Instances
<1>2. /\ Cardinality(S) <= Cardinality(Instances)
      /\ Cardinality(S) = Cardinality(Instances) => S = Instances
      /\ Cardinality(S) \in Nat
  BY <1>1, FS_Subset, FS_CardinalityType
<1>3. QED
  BY <1>1, <1>2, PlanAssumption

\* The states of the sync service are different ones.
LEMMA StatesDiffer ==
  ASSUME NEW r, NEW q
  PROVE  /\ <<"initialized">> # <<"connected">>
         /\ <<"subscribed">> \notin {<<"initialized">>, <<"connected">>}
         /\ <<"done", r>> \notin {<<"initialized">>, <<"connected">>, <<"subscribed">>}
         /\ <<"network-configured", r>> \notin
                {<<"initialized">>, <<"connected">>, <<"subscribed">>, <<"done", q>>}
         /\ <<"done", r>> = <<"done", q>> => r = q
         /\ <<"network-configured", r>> = <<"network-configured", q>> => r = q
OBVIOUS

\* The states of a round are states of the sync service.
LEMMA StatesOfRounds ==
  /\ {<<"initialized">>, <<"connected">>, <<"subscribed">>} \subseteq States
  /\ \A r \in RoundNumbers :
        <<"done", r>> \in States /\ <<"network-configured", r>> \in States
BY DEF States

\* The parameters tell how many rounds there are.
LEMMA RoundsAreNat ==
  ASSUME params \in Params
  PROVE  Rounds \in Nat \ {0} /\ RoundNumbers \subseteq Nat /\ 0 \in RoundNumbers
BY PlanAssumption DEF Rounds, RoundNumbers

\* The parameters do not change during a run, and nothing made of them does.
LEMMA ParamsFixed ==
  ASSUME [Next]_vars
  PROVE  params' = params
BY DEF Next, Advance, vars, Initialize, StartNode, StartFails, SubscribePeers, Dial,
       SpawnListeners, IndexPanics, Listen, StartRounds, Configured, Publish, EncodeFails,
       SignalDone, NextRound, Succeed, ReturnSendErr, Expire, GiveUp, Terminated

\* The parameters never change, and with them topics, validators and results due.
LEMMA NamesFixed ==
  ASSUME params' = params
  PROVE  /\ Shares' = Shares
         /\ RoundNumbers' = RoundNumbers
         /\ States' = States
         /\ Topics' = Topics
         /\ \A i \in Instances : myTopics(i)' = myTopics(i) /\ Due(i)' = Due(i)
BY DEF Shares, Rounds, RoundNumbers, States, Topics, Topic, validatorGroups, myTopics,
       myValidators, Due

-----------------------------------------------------------------------------
(* Types *)

\* The initial state satisfies the inductive invariant.
LEMMA InitIInv == Init => IInv
<1> SUFFICES ASSUME Init PROVE IInv
  OBVIOUS
<1>1. TypeOK
  BY PlanAssumption, RoundsAreNat DEF Init, TypeOK, Places
<1>2. SetUpInOrder
  BY StatesOfRounds DEF Init, SetUpInOrder
<1>3. RoundsInOrder
  <2> SUFFICES ASSUME NEW i \in Instances, NEW r \in RoundNumbers
               PROVE  /\ ~(r < round[i]) /\ pc[i] # "succeeded"
                      /\ signals[<<"done", r>>] = {}
    BY DEF RoundsInOrder
  <2>1. r \in Nat /\ round[i] = 0
    BY RoundsAreNat DEF Init
  <2>2. <<"done", r>> \in States
    BY StatesOfRounds
  <2>3. pc[i] # "succeeded" /\ signals[<<"done", r>>] = {}
    BY <2>2 DEF Init
  <2>4. QED
    BY <2>1, <2>3
<1>4. ResultsInOrder
  BY StatesOfRounds DEF Init, ResultsInOrder
<1>5. ShapedBeforePublish /\ CrashOnlyPastDeadline
  BY DEF Init, ShapedBeforePublish, CrashOnlyPastDeadline
<1>6. QED
  BY <1>1, <1>2, <1>3, <1>4, <1>5 DEF IInv

\* Every step keeps the types.
LEMMA StepTypes ==
  ASSUME IInv, [Next]_vars
  PROVE  TypeOK'
<1> USE DEF TypeOK, Places, Waiting, Ended, Goto, Signal, syncVars, nodeVars, workVars
<1>1. TypeOK
  BY DEF IInv
<1>2. params' = params
  BY ParamsFixed
<1>3. /\ Shares' = Shares /\ RoundNumbers' = RoundNumbers /\ States' = States
      /\ Topics' = Topics
  BY <1>2, NamesFixed
<1>4. /\ 0 \in RoundNumbers
      /\ RoundNumbers \subseteq Nat
      /\ params.t_latency_max \in Nat \ {0}
  BY <1>1, RoundsAreNat, PlanAssumption
<1>5. ASSUME NEW i \in Instances,
             Initialize(i) \/ StartNode(i) \/ StartFails(i) \/ SubscribePeers(i) \/ Dial(i)
      PROVE  TypeOK'
  BY <1>1, <1>2, <1>3, <1>5, StatesOfRounds
     DEF Initialize, StartNode, StartFails, SubscribePeers, Dial
<1>6. ASSUME NEW i \in Instances, SpawnListeners(i) PROVE TypeOK'
  <2>1. myTopics(i) \subseteq Topics
    BY DEF myTopics, Topics, myValidators
  <2>2. QED
    BY <1>1, <1>2, <1>3, <1>6, <2>1, StatesOfRounds DEF SpawnListeners
<1>7. ASSUME NEW i \in Instances,
             IndexPanics(i) \/ Configured(i) \/ Succeed(i) \/ ReturnSendErr(i)
      PROVE  TypeOK'
  BY <1>1, <1>2, <1>3, <1>7 DEF IndexPanics, Configured, Succeed, ReturnSendErr
<1>8. ASSUME NEW i \in Instances, NEW t \in Topics, Listen(i, t) PROVE TypeOK'
  BY <1>1, <1>2, <1>3, <1>8 DEF Listen
<1>9. ASSUME NEW i \in Instances, NEW r \in RoundNumbers, ConfigureNetwork(i, r)
      PROVE  /\ pc' \in [Instances -> Places]
             /\ signals' \in [States' -> SUBSET Instances]
             /\ latency' \in [Instances -> 0 .. params'.t_latency_max - 1]
  BY <1>1, <1>2, <1>3, <1>4, <1>9, StatesOfRounds DEF ConfigureNetwork, Shape
<1>10. ASSUME NEW i \in Instances PROVE myValidators(i) \subseteq Shares
  BY DEF myValidators
<1>11. ASSUME NEW i \in Instances, StartRounds(i) PROVE TypeOK'
  BY <1>1, <1>2, <1>3, <1>4, <1>9, <1>10, <1>11 DEF StartRounds
<1>12. ASSUME NEW i \in Instances, NextRound(i) PROVE TypeOK'
  <2>1. round[i] + 1 \in RoundNumbers
    BY <1>1, <1>12, RoundsAreNat DEF NextRound, MoreRounds, RoundNumbers
  <2>2. QED
    BY <1>1, <1>2, <1>3, <1>9, <1>10, <1>12, <2>1 DEF NextRound
<1>13. ASSUME NEW i \in Instances, NEW s \in Shares, Publish(i, s) PROVE TypeOK'
  <2>1. Recorded(i, s) \subseteq [from : Instances, share : Shares, round : RoundNumbers]
    BY <1>1 DEF Recorded, Result
  <2>2. QED
    BY <1>1, <1>2, <1>3, <1>13, <2>1 DEF Publish, Left
<1>14. ASSUME NEW i \in Instances, SignalDone(i) PROVE TypeOK'
  BY <1>1, <1>2, <1>3, <1>14, StatesOfRounds DEF SignalDone
<1>15. ASSUME NEW i \in Instances, Expire(i) \/ GiveUp(i) PROVE TypeOK'
  BY <1>1, <1>2, <1>3, <1>15 DEF Expire, GiveUp
<1>16. ASSUME NEW i \in Instances, NEW s \in Shares, EncodeFails(i, s) PROVE TypeOK'
  <2>1. Result(i, s, round[i]) \in [from : Instances, share : Shares, round : RoundNumbers]
    BY <1>1 DEF Result
  <2>2. QED
    BY <1>1, <1>2, <1>3, <1>16, <2>1 DEF EncodeFails
<1>17. ASSUME Terminated \/ UNCHANGED vars PROVE TypeOK'
  BY <1>1, <1>3, <1>17 DEF Terminated, vars
<1>18. QED
  BY <1>5, <1>6, <1>7, <1>8, <1>11, <1>12, <1>13, <1>14, <1>15, <1>16, <1>17
     DEF Next, Advance

-----------------------------------------------------------------------------
(* Setting up *)

\* No signal is taken back.
LEMMA SignalsGrow ==
  ASSUME TypeOK, [Next]_vars, NEW s \in States
  PROVE  signals[s] \subseteq signals'[s]
<1> USE DEF Signal, syncVars
<1>1. ASSUME NEW i \in Instances,
             Initialize(i) \/ Dial(i) \/ SpawnListeners(i) \/ SignalDone(i)
      PROVE  signals[s] \subseteq signals'[s]
  BY <1>1 DEF TypeOK, Initialize, Dial, SpawnListeners, SignalDone
<1>2. ASSUME NEW i \in Instances, StartRounds(i) \/ NextRound(i)
      PROVE  signals[s] \subseteq signals'[s]
  BY <1>2 DEF TypeOK, StartRounds, NextRound, ConfigureNetwork
<1>3. ASSUME NEW i \in Instances,
             \/ StartNode(i) \/ StartFails(i) \/ SubscribePeers(i) \/ IndexPanics(i)
             \/ Configured(i) \/ Succeed(i) \/ ReturnSendErr(i) \/ Expire(i) \/ GiveUp(i)
      PROVE  signals' = signals
  BY <1>3 DEF StartNode, StartFails, SubscribePeers, IndexPanics, Configured, Succeed,
              ReturnSendErr, Expire, GiveUp
<1>4. ASSUME NEW i \in Instances,
             \/ \E t \in Topics : Listen(i, t)
             \/ \E x \in Shares : Publish(i, x) \/ EncodeFails(i, x)
      PROVE  signals' = signals
  BY <1>4 DEF Listen, Publish, EncodeFails
<1>5. ASSUME Terminated \/ UNCHANGED vars PROVE signals' = signals
  BY <1>5 DEF Terminated, vars
<1>6. QED
  BY <1>1, <1>2, <1>3, <1>4, <1>5 DEF Next, Advance

\* A state that all have signalled stays so.
LEMMA AllStay ==
  ASSUME IInv, [Next]_vars, NEW s \in States, signals[s] = Instances
  PROVE  signals'[s] = Instances
<1>1. signals'[s] \subseteq Instances
  BY StepTypes, ParamsFixed, NamesFixed DEF TypeOK
<1>2. QED
  BY <1>1, SignalsGrow DEF IInv

\* Only these steps belong to the set-up, as far as SetUpInOrder looks at it.
SetUp(i) ==
  \/ StartNode(i) \/ Dial(i) \/ SpawnListeners(i)
  \/ \E t \in Topics : Listen(i, t)

\* A step that starts or moves a Listen goroutine, publishes an address or signals
\* "connected" is one of the set-up; all others leave these alone.
LEMMA OnlySetUp ==
  ASSUME TypeOK, [Next]_vars
  PROVE  \/ /\ UNCHANGED <<addresses, spawned, listening>>
            /\ signals'[<<"connected">>] = signals[<<"connected">>]
            /\ signals'[<<"subscribed">>] = signals[<<"subscribed">>]
         \/ \E i \in Instances : SetUp(i)
<1> USE StatesDiffer, StatesOfRounds DEF TypeOK, Signal, syncVars, nodeVars
<1>1. ASSUME NEW i \in Instances, Initialize(i) \/ SignalDone(i)
      PROVE  /\ UNCHANGED <<addresses, spawned, listening>>
             /\ signals'[<<"connected">>] = signals[<<"connected">>]
             /\ signals'[<<"subscribed">>] = signals[<<"subscribed">>]
  BY <1>1 DEF Initialize, SignalDone
<1>2. ASSUME NEW i \in Instances, StartRounds(i) \/ NextRound(i)
      PROVE  /\ UNCHANGED <<addresses, spawned, listening>>
             /\ signals'[<<"connected">>] = signals[<<"connected">>]
             /\ signals'[<<"subscribed">>] = signals[<<"subscribed">>]
  BY <1>2 DEF StartRounds, NextRound, ConfigureNetwork
<1>3. ASSUME NEW i \in Instances,
             \/ StartFails(i) \/ SubscribePeers(i) \/ IndexPanics(i) \/ Configured(i)
             \/ \E s \in Shares : Publish(i, s) \/ EncodeFails(i, s)
             \/ Succeed(i) \/ ReturnSendErr(i) \/ Expire(i) \/ GiveUp(i)
      PROVE  UNCHANGED <<addresses, signals, spawned, listening>>
  BY <1>3 DEF StartFails, SubscribePeers, IndexPanics, Configured, Publish, EncodeFails,
              Succeed, ReturnSendErr, Expire, GiveUp
<1>4. ASSUME Terminated \/ UNCHANGED vars
      PROVE  UNCHANGED <<addresses, signals, spawned, listening>>
  BY <1>4 DEF Terminated, vars
<1>5. QED
  BY <1>1, <1>2, <1>3, <1>4 DEF Next, Advance, SetUp

\* The set-up stays in order.
LEMMA StepSetUp ==
  ASSUME IInv, [Next]_vars
  PROVE  SetUpInOrder'
<1> USE StatesDiffer, StatesOfRounds DEF SetUpInOrder, Signal, syncVars, nodeVars
<1>1. TypeOK /\ SetUpInOrder
  BY DEF IInv
<1>2. \A i \in Instances : myTopics(i)' = myTopics(i)
  BY ParamsFixed, NamesFixed
<1>3. CASE /\ UNCHANGED <<addresses, spawned, listening>>
           /\ signals'[<<"connected">>] = signals[<<"connected">>]
           /\ signals'[<<"subscribed">>] = signals[<<"subscribed">>]
  BY <1>1, <1>2, <1>3
<1>4. ASSUME NEW i \in Instances, StartNode(i) PROVE SetUpInOrder'
  BY <1>1, <1>2, <1>4 DEF StartNode, TypeOK
<1>5. ASSUME NEW i \in Instances, Dial(i) PROVE SetUpInOrder'
  <2>1. addresses = Instances
    BY <1>1, <1>5, EnoughIsAll DEF Dial, AllAddresses, TypeOK
  <2>2. signals[<<"connected">>] = Instances => signals'[<<"connected">>] = Instances
    BY AllStay
  <2>3. /\ addresses' = Instances
        /\ signals'[<<"subscribed">>] = signals[<<"subscribed">>]
        /\ UNCHANGED <<spawned, listening>>
    BY <1>1, <1>5, <2>1 DEF Dial, TypeOK
  <2>4. QED
    BY <1>1, <1>2, <2>2, <2>3
<1>6. ASSUME NEW i \in Instances, SpawnListeners(i) PROVE SetUpInOrder'
  <2>1. signals[<<"connected">>] = Instances
    BY <1>1, <1>6, EnoughIsAll DEF SpawnListeners, Open, TypeOK
  <2>2. signals'[<<"connected">>] = Instances /\ addresses' = Instances
    BY <1>1, <1>6, <2>1, AllStay, PlanAssumption DEF SpawnListeners, Instances
  <2>3. /\ signals'[<<"subscribed">>] = signals[<<"subscribed">>] \cup {i}
        /\ spawned' = [spawned EXCEPT ![i] = myTopics(i)]
        /\ listening' = listening
    BY <1>1, <1>6 DEF SpawnListeners, TypeOK
  <2>4. QED
    BY <1>1, <1>2, <2>2, <2>3 DEF TypeOK
<1>7. ASSUME NEW i \in Instances, NEW t \in Topics, Listen(i, t) PROVE SetUpInOrder'
  <2>1. \A j \in Instances : spawned'[j] \cup listening'[j] = spawned[j] \cup listening[j]
    BY <1>1, <1>7 DEF Listen, TypeOK
  <2>2. UNCHANGED <<addresses, signals>>
    BY <1>7 DEF Listen
  <2>3. QED
    BY <1>1, <1>2, <2>1, <2>2
<1>8. QED
  BY <1>1, <1>3, <1>4, <1>5, <1>6, <1>7, OnlySetUp DEF SetUp

-----------------------------------------------------------------------------
(* Rounds *)

\* Steps that end no round: they neither signal "done" nor change a round, and
\* whoever is at the end of a round or of the case stays there.
KeepsRounds ==
    /\ round' = round
    /\ \A r \in RoundNumbers : signals'[<<"done", r>>] = signals[<<"done", r>>]
    /\ \A i \in Instances :
        /\ pc'[i] = "succeeded" => pc[i] = "succeeded"
        /\ pc[i] \in {"done"} \cup Ended => pc'[i] \in {"done"} \cup Ended

\* Three actions signal the end of a round or leave it; all others keep every round.
LEMMA OnlyThreeEndRounds ==
  ASSUME TypeOK, [Next]_vars
  PROVE  \/ KeepsRounds
         \/ \E i \in Instances : SignalDone(i) \/ NextRound(i) \/ Succeed(i)
<1> USE StatesDiffer, StatesOfRounds
    DEF KeepsRounds, TypeOK, Goto, Signal, syncVars, workVars, Ended, Waiting
<1>1. ASSUME NEW i \in Instances, Initialize(i) \/ Dial(i) \/ SpawnListeners(i)
      PROVE  KeepsRounds
  BY <1>1 DEF Initialize, Dial, SpawnListeners
<1>2. ASSUME NEW i \in Instances,
             \/ StartNode(i) \/ StartFails(i) \/ SubscribePeers(i) \/ IndexPanics(i)
             \/ Configured(i) \/ ReturnSendErr(i)
      PROVE  KeepsRounds
  BY <1>2 DEF StartNode, StartFails, SubscribePeers, IndexPanics, Configured, ReturnSendErr
<1>3. ASSUME NEW i \in Instances,
             \/ \E t \in Topics : Listen(i, t)
             \/ \E x \in Shares : Publish(i, x) \/ EncodeFails(i, x)
      PROVE  KeepsRounds
  BY <1>3 DEF Listen, Publish, EncodeFails
<1>4. ASSUME NEW i \in Instances, StartRounds(i) PROVE KeepsRounds
  BY <1>4 DEF StartRounds, ConfigureNetwork
<1>5. ASSUME NEW i \in Instances, Expire(i) \/ GiveUp(i) PROVE KeepsRounds
  BY <1>5 DEF Expire, GiveUp
<1>6. ASSUME Terminated \/ UNCHANGED vars PROVE KeepsRounds
  BY <1>6 DEF Terminated, vars
<1>7. QED
  BY <1>1, <1>2, <1>3, <1>4, <1>5, <1>6 DEF Next, Advance

\* The rounds stay in order.
LEMMA StepRounds ==
  ASSUME IInv, [Next]_vars
  PROVE  RoundsInOrder'
<1>1. TypeOK /\ RoundsInOrder /\ RoundNumbers' = RoundNumbers /\ RoundNumbers \subseteq Nat
  BY ParamsFixed, NamesFixed, RoundsAreNat DEF IInv, TypeOK
<1> SUFFICES ASSUME NEW j \in Instances, NEW r \in RoundNumbers
             PROVE  /\ r < round'[j] \/ pc'[j] = "succeeded" =>
                            signals'[<<"done", r>>] = Instances
                    /\ j \in signals'[<<"done", r>>] =>
                        \/ r < round'[j]
                        \/ r = round'[j] /\ pc'[j] \in {"done"} \cup Ended
  BY <1>1 DEF RoundsInOrder
<1>2. signals[<<"done", r>>] = Instances => signals'[<<"done", r>>] = Instances
  BY AllStay, StatesOfRounds
<1>3. CASE KeepsRounds
  BY <1>1, <1>2, <1>3 DEF KeepsRounds, RoundsInOrder
<1>4. ASSUME NEW i \in Instances, SignalDone(i)
      PROVE  /\ r < round'[j] \/ pc'[j] = "succeeded" =>
                     signals'[<<"done", r>>] = Instances
             /\ j \in signals'[<<"done", r>>] =>
                 \/ r < round'[j]
                 \/ r = round'[j] /\ pc'[j] \in {"done"} \cup Ended
  <2>1. /\ round' = round
        /\ pc' = [pc EXCEPT ![i] = "done"]
        /\ signals' = [signals EXCEPT ![<<"done", round[i]>>] = @ \cup {i}]
    BY <1>4 DEF SignalDone, Goto, Signal, workVars
  <2>2. j \in signals'[<<"done", r>>] =>
            j \in signals[<<"done", r>>] \/ (j = i /\ r = round[i])
    BY <1>1, <2>1, StatesDiffer, StatesOfRounds DEF TypeOK
  <2>3. QED
    BY <1>1, <1>2, <2>1, <2>2 DEF RoundsInOrder, TypeOK
<1>5. ASSUME NEW i \in Instances, NextRound(i)
      PROVE  /\ r < round'[j] \/ pc'[j] = "succeeded" =>
                     signals'[<<"done", r>>] = Instances
             /\ j \in signals'[<<"done", r>>] =>
                 \/ r < round'[j]
                 \/ r = round'[j] /\ pc'[j] \in {"done"} \cup Ended
  <2>1. /\ round' = [round EXCEPT ![i] = @ + 1]
        /\ pc'[i] \in {"configured", "publishing"}
        /\ \A k \in Instances \ {i} : pc'[k] = pc[k]
        /\ round[i] \in RoundNumbers
    BY <1>1, <1>5 DEF NextRound, ConfigureNetwork, Goto, TypeOK
  <2>2. signals'[<<"done", r>>] = signals[<<"done", r>>]
    BY <1>1, <1>5, StatesDiffer, StatesOfRounds
       DEF NextRound, ConfigureNetwork, Signal, TypeOK
  <2>3. signals[<<"done", round[i]>>] = Instances
    BY <1>1, <1>5, <2>1, EnoughIsAll, StatesOfRounds
       DEF NextRound, RoundOver, Open, TypeOK
  <2>4. CASE j # i
    BY <1>1, <2>1, <2>2, <2>4 DEF RoundsInOrder, TypeOK
  <2>5. CASE j = i
    <3>1. round'[j] = round[i] + 1 /\ pc'[j] # "succeeded" /\ r \in Nat /\ round[i] \in Nat
      BY <1>1, <2>1, <2>5 DEF TypeOK
    <3>2. /\ r < round[i] => signals[<<"done", r>>] = Instances
          /\ j \in signals[<<"done", r>>] => r < round[i] \/ r = round[i]
      BY <1>1, <2>5 DEF RoundsInOrder
    <3>3. r < round[i] + 1 <=> r < round[i] \/ r = round[i]
      BY <3>1
    <3>4. QED
      BY <2>2, <2>3, <3>1, <3>2, <3>3
  <2>6. QED
    BY <2>4, <2>5
<1>6. ASSUME NEW i \in Instances, Succeed(i)
      PROVE  /\ r < round'[j] \/ pc'[j] = "succeeded" =>
                     signals'[<<"done", r>>] = Instances
             /\ j \in signals'[<<"done", r>>] =>
                 \/ r < round'[j]
                 \/ r = round'[j] /\ pc'[j] \in {"done"} \cup Ended
  <2>1. /\ pc' = [pc EXCEPT ![i] = "succeeded"]
        /\ UNCHANGED <<round, signals>>
        /\ round[i] \in RoundNumbers
        /\ ~(round[i] + 1 < Rounds)
    BY <1>1, <1>6 DEF Succeed, Goto, syncVars, workVars, MoreRounds, TypeOK
  <2>2. signals[<<"done", round[i]>>] = Instances
    BY <1>1, <1>6, <2>1, EnoughIsAll, StatesOfRounds DEF Succeed, RoundOver, Open, TypeOK
  <2>3. r < round[i] \/ r = round[i]
    BY <1>1, <2>1, RoundsAreNat DEF RoundNumbers, TypeOK
  <2>4. QED
    BY <1>1, <2>1, <2>2, <2>3 DEF RoundsInOrder, Ended, TypeOK
<1>7. QED
  BY <1>1, <1>3, <1>4, <1>5, <1>6, OnlyThreeEndRounds

-----------------------------------------------------------------------------
(* Results *)

\* Results and errors stay as they are, and so does what is left to publish, who is
\* publishing, and who has signalled the end of a round.
KeepsResults ==
    /\ UNCHANGED <<results, sendErr, round, toPublish>>
    /\ \A r \in RoundNumbers : signals'[<<"done", r>>] = signals[<<"done", r>>]
    /\ \A i \in Instances : pc'[i] \in {"configured", "publishing"} =>
            pc[i] \in {"configured", "publishing"}

\* Five actions decide what is to be published, or deal with it; only one keeps an
\* error, and nothing is forgotten.
LEMMA OnlyFivePublish ==
  ASSUME TypeOK, [Next]_vars
  PROVE  /\ results \subseteq results' /\ sendErr \subseteq sendErr'
         /\ sendErr' = sendErr \/ \E i \in Instances, s \in Shares : EncodeFails(i, s)
         /\ \/ KeepsResults
            \/ \E i \in Instances :
                \/ StartRounds(i) \/ SignalDone(i) \/ NextRound(i)
                \/ \E s \in Shares : Publish(i, s) \/ EncodeFails(i, s)
<1> USE StatesDiffer, StatesOfRounds
    DEF KeepsResults, TypeOK, Goto, Signal, syncVars, workVars, Ended, Waiting
<1>1. ASSUME NEW i \in Instances, Initialize(i) \/ Dial(i) \/ SpawnListeners(i)
      PROVE  KeepsResults
  BY <1>1 DEF Initialize, Dial, SpawnListeners
<1>2. ASSUME NEW i \in Instances,
             \/ StartNode(i) \/ StartFails(i) \/ SubscribePeers(i) \/ IndexPanics(i)
             \/ Configured(i) \/ Succeed(i) \/ ReturnSendErr(i)
      PROVE  KeepsResults
  BY <1>2 DEF StartNode, StartFails, SubscribePeers, IndexPanics, Configured, Succeed,
              ReturnSendErr
<1>3. ASSUME NEW i \in Instances, \E t \in Topics : Listen(i, t) PROVE KeepsResults
  BY <1>3 DEF Listen
<1>4. ASSUME NEW i \in Instances, Expire(i) \/ GiveUp(i) PROVE KeepsResults
  BY <1>4 DEF Expire, GiveUp
<1>5. ASSUME Terminated \/ UNCHANGED vars PROVE KeepsResults
  BY <1>5 DEF Terminated, vars
<1>6. ASSUME NEW i \in Instances,
             \/ StartRounds(i) \/ SignalDone(i) \/ NextRound(i)
             \/ \E s \in Shares : Publish(i, s)
      PROVE  results \subseteq results' /\ sendErr' = sendErr
  BY <1>6 DEF StartRounds, SignalDone, NextRound, Publish
<1>7. ASSUME NEW i \in Instances, NEW s \in Shares, EncodeFails(i, s)
      PROVE  results' = results /\ sendErr \subseteq sendErr'
  BY <1>7 DEF EncodeFails
<1>8. KeepsResults => results' = results /\ sendErr' = sendErr
  OBVIOUS
<1>9. \/ KeepsResults
      \/ \E i \in Instances :
            \/ StartRounds(i) \/ SignalDone(i) \/ NextRound(i)
            \/ \E s \in Shares : Publish(i, s) \/ EncodeFails(i, s)
  BY <1>1, <1>2, <1>3, <1>4, <1>5 DEF Next, Advance
<1> QED
  BY <1>6, <1>7, <1>8, <1>9

\* Whoever has an error does not succeed.
LEMMA StepErrors ==
  ASSUME IInv, [Next]_vars
  PROVE  \A x \in sendErr' : pc'[x.from] # "succeeded"
<1>1. TypeOK /\ \A x \in sendErr : x.from \in Instances /\ pc[x.from] # "succeeded"
  BY DEF IInv, TypeOK, ResultsInOrder
<1>2. ASSUME NEW i \in Instances, NEW s \in Shares, EncodeFails(i, s)
      PROVE  \A x \in sendErr' : pc'[x.from] # "succeeded"
  BY <1>1, <1>2 DEF EncodeFails, Result
<1>3. CASE sendErr' = sendErr
  <2> SUFFICES ASSUME NEW x \in sendErr, pc'[x.from] = "succeeded" PROVE FALSE
    BY <1>3
  <2>1. ~KeepsRounds
    BY <1>1 DEF KeepsRounds
  <2>2. PICK i \in Instances : SignalDone(i) \/ NextRound(i) \/ Succeed(i)
    BY <1>1, <2>1, OnlyThreeEndRounds
  <2>3. CASE SignalDone(i) \/ NextRound(i)
    BY <1>1, <2>3 DEF SignalDone, NextRound, ConfigureNetwork, Goto, TypeOK
  <2>4. CASE Succeed(i)
    BY <1>1, <2>4 DEF Succeed, SendFailed, Goto, TypeOK
  <2>5. QED
    BY <2>2, <2>3, <2>4
<1>4. QED
  BY <1>1, <1>2, <1>3, OnlyFivePublish

\* Messages stay dealt with, once they are.
LEMMA StepResults ==
  ASSUME IInv, [Next]_vars
  PROVE  ResultsInOrder'
<1> DEFINE Dealt == results \cup sendErr
           Claim(j) ==
      /\ pc'[j] \in {"configured", "publishing"} =>
            \A s \in Due(j) \ toPublish'[j] : Result(j, s, round'[j]) \in Dealt'
      /\ \A r \in RoundNumbers : j \in signals'[<<"done", r>>] =>
            \A s \in Due(j) : Result(j, s, r) \in Dealt'
<1>1. /\ TypeOK
      /\ \A i \in Instances : Due(i)' = Due(i)
      /\ RoundNumbers' = RoundNumbers
      /\ Dealt \subseteq Dealt'
  BY ParamsFixed, NamesFixed, OnlyFivePublish DEF IInv
<1>2. \A i \in Instances :
        /\ pc[i] \in {"configured", "publishing"} =>
            \A s \in Due(i) \ toPublish[i] : Result(i, s, round[i]) \in Dealt
        /\ \A r \in RoundNumbers : i \in signals[<<"done", r>>] =>
            \A s \in Due(i) : Result(i, s, r) \in Dealt
  BY DEF IInv, ResultsInOrder
<1>3. SUFFICES ASSUME NEW j \in Instances PROVE Claim(j)
  BY <1>1, StepErrors DEF ResultsInOrder, Result
<1> HIDE DEF Dealt
<1>4. CASE KeepsResults
  BY <1>2, <1>1, <1>4 DEF KeepsResults
<1>5. ASSUME NEW i \in Instances, StartRounds(i) \/ NextRound(i) PROVE Claim(j)
  <2>1. /\ toPublish' = [toPublish EXCEPT ![i] = myValidators(i)]
        /\ \A k \in Instances \ {i} : pc'[k] = pc[k] /\ round'[k] = round[k]
        /\ \A r \in RoundNumbers : signals'[<<"done", r>>] = signals[<<"done", r>>]
    BY <1>1, <1>5, StatesDiffer, StatesOfRounds
       DEF StartRounds, NextRound, ConfigureNetwork, Goto, Signal, TypeOK
  <2>2. Due(i) \subseteq myValidators(i)
    BY DEF Due
  <2>3. QED
    BY <1>2, <1>1, <2>1, <2>2 DEF TypeOK
<1>6. ASSUME NEW i \in Instances, SignalDone(i) PROVE Claim(j)
  <2>1. /\ pc[i] = "publishing" /\ toPublish[i] = {}
        /\ pc' = [pc EXCEPT ![i] = "done"]
        /\ UNCHANGED <<toPublish, round>>
        /\ signals' = [signals EXCEPT ![<<"done", round[i]>>] = @ \cup {i}]
    BY <1>6 DEF SignalDone, Goto, Signal, workVars
  <2>2. \A r \in RoundNumbers : j \in signals'[<<"done", r>>] =>
            j \in signals[<<"done", r>>] \/ (j = i /\ r = round[i])
    BY <1>1, <2>1, StatesDiffer, StatesOfRounds DEF TypeOK
  <2>3. \A s \in Due(i) : Result(i, s, round[i]) \in Dealt
    BY <1>2, <1>1, <2>1
  <2>4. QED
    BY <1>2, <1>1, <2>1, <2>2, <2>3 DEF TypeOK
<1>7. ASSUME NEW i \in Instances, NEW x \in Shares, Publish(i, x) \/ EncodeFails(i, x)
      PROVE  Claim(j)
  <2>1. /\ toPublish' = [toPublish EXCEPT ![i] = toPublish[i] \ {x}]
        /\ UNCHANGED <<pc, round, signals>>
    BY <1>7 DEF Publish, EncodeFails, Left, syncVars
  <2>2. x \in Due(i) => Result(i, x, round[i]) \in Dealt'
    BY <1>7 DEF Publish, EncodeFails, Due, Recorded, Dealt
  <2>3. QED
    BY <1>2, <1>1, <2>1, <2>2 DEF TypeOK
<1>8. QED
  BY <1>1, <1>4, <1>5, <1>6, <1>7, OnlyFivePublish

-----------------------------------------------------------------------------
(* Shaping, and the counters of subnets *)

\* An instance is publishing because it was, or because the network is
\* configured, or because there is no sidecar to configure it.
LEMMA WhoPublishes ==
  ASSUME TypeOK, [Next]_vars, NEW i \in Instances, pc'[i] = "publishing"
  PROVE  \/ pc[i] = "publishing" /\ round'[i] = round[i]
         \/ Configured(i)
         \/ ~params.sidecar
<1> USE DEF TypeOK, Goto, workVars, syncVars, Ended
<1>1. ASSUME NEW j \in Instances,
             \/ Initialize(j) \/ StartNode(j) \/ StartFails(j) \/ SubscribePeers(j)
             \/ Dial(j) \/ SpawnListeners(j) \/ IndexPanics(j) \/ SignalDone(j)
             \/ Succeed(j) \/ ReturnSendErr(j) \/ Expire(j) \/ GiveUp(j)
      PROVE  pc[i] = "publishing" /\ round'[i] = round[i]
  BY <1>1 DEF Initialize, StartNode, StartFails, SubscribePeers, Dial, SpawnListeners,
              IndexPanics, SignalDone, Succeed, ReturnSendErr, Expire, GiveUp
<1>2. ASSUME NEW j \in Instances,
             \/ \E t \in Topics : Listen(j, t)
             \/ \E s \in Shares : Publish(j, s) \/ EncodeFails(j, s)
      PROVE  pc[i] = "publishing" /\ round'[i] = round[i]
  BY <1>2 DEF Listen, Publish, EncodeFails
<1>3. ASSUME NEW j \in Instances, Configured(j)
      PROVE  (pc[i] = "publishing" /\ round'[i] = round[i]) \/ Configured(i)
  BY <1>3 DEF Configured
<1>4. ASSUME NEW j \in Instances, StartRounds(j) \/ NextRound(j)
      PROVE  (pc[i] = "publishing" /\ round'[i] = round[i]) \/ ~params.sidecar
  BY <1>4 DEF StartRounds, NextRound, ConfigureNetwork
<1>5. ASSUME Terminated \/ UNCHANGED vars
      PROVE  pc[i] = "publishing" /\ round'[i] = round[i]
  BY <1>5 DEF Terminated, vars
<1>6. QED
  BY <1>1, <1>2, <1>3, <1>4, <1>5 DEF Next, Advance

\* Nobody comes to publish before the barrier of its round's network has opened.
LEMMA StepShaped ==
  ASSUME IInv, [Next]_vars
  PROVE  ShapedBeforePublish'
<1>1. TypeOK /\ ShapedBeforePublish /\ TypeOK' /\ RoundNumbers' = RoundNumbers
  BY StepTypes, ParamsFixed, NamesFixed DEF IInv
<1> SUFFICES ASSUME params.sidecar, NEW i \in Instances, pc'[i] = "publishing"
             PROVE  signals'[<<"network-configured", round'[i]>>] = Instances
  BY ParamsFixed DEF ShapedBeforePublish
<1>2. /\ round[i] \in RoundNumbers
      /\ <<"network-configured", round[i]>> \in States
  BY <1>1, StatesOfRounds DEF TypeOK
<1>3. CASE pc[i] = "publishing" /\ round'[i] = round[i]
  BY <1>1, <1>2, <1>3, AllStay DEF ShapedBeforePublish
<1>4. CASE Configured(i)
  <2>1. signals[<<"network-configured", round[i]>>] = Instances
    BY <1>1, <1>2, <1>4, EnoughIsAll DEF Configured, Open, TypeOK
  <2>2. UNCHANGED <<signals, round>>
    BY <1>4 DEF Configured, syncVars, workVars
  <2>3. QED
    BY <2>1, <2>2
<1>5. QED
  BY <1>1, <1>3, <1>4, WhoPublishes

\* When the cluster file fits, every validator's subnet has a counter.
LEMMA SubnetsHaveCounters ==
  ASSUME TypeOK, ClusterFits, NEW i \in Instances
  PROVE  ~OutOfRange(i)
<1> SUFFICES ASSUME params.case = "subnets", NEW s \in myValidators(i)
             PROVE  Topic(s) \in 0 .. SubnetSlots - 1
  BY DEF OutOfRange, myTopics
<1>1. s \in Shares /\ s.PK \in Keys /\ s.PK.long /\ params.subnets \in Nat \ {0}
  BY PlanAssumption DEF TypeOK, myValidators, Shares, ClusterFits
<1>2. Topic(s) \in 0 .. params.subnets - 1
  BY <1>1, SubnetInRange DEF Topic
<1>3. QED
  BY <1>1, <1>2, PlanAssumption DEF ClusterFits

\* An instance panics at its deadline, or because of its subnets.
LEMMA WhoCrashes ==
  ASSUME TypeOK, [Next]_vars, NEW i \in Instances, pc'[i] = "crashed"
  PROVE  pc[i] = "crashed" \/ i \in expired \/ IndexPanics(i)
<1> USE DEF TypeOK, Goto, workVars, syncVars
<1>1. ASSUME NEW j \in Instances,
             \/ Initialize(j) \/ StartNode(j) \/ StartFails(j) \/ SubscribePeers(j)
             \/ Dial(j) \/ SpawnListeners(j) \/ Configured(j) \/ SignalDone(j)
             \/ Succeed(j) \/ ReturnSendErr(j) \/ Expire(j)
      PROVE  pc[i] = "crashed"
  BY <1>1 DEF Initialize, StartNode, StartFails, SubscribePeers, Dial, SpawnListeners,
              Configured, SignalDone, Succeed, ReturnSendErr, Expire
<1>2. ASSUME NEW j \in Instances,
             \/ \E t \in Topics : Listen(j, t)
             \/ \E s \in Shares : Publish(j, s) \/ EncodeFails(j, s)
      PROVE  pc[i] = "crashed"
  BY <1>2 DEF Listen, Publish, EncodeFails
<1>3. ASSUME NEW j \in Instances, StartRounds(j) \/ NextRound(j)
      PROVE  pc[i] = "crashed"
  BY <1>3 DEF StartRounds, NextRound, ConfigureNetwork
<1>4. ASSUME NEW j \in Instances, IndexPanics(j) \/ GiveUp(j)
      PROVE  pc[i] = "crashed" \/ i \in expired \/ IndexPanics(i)
  BY <1>4 DEF IndexPanics, GiveUp
<1>5. ASSUME Terminated \/ UNCHANGED vars PROVE pc[i] = "crashed"
  BY <1>5 DEF Terminated, vars
<1>6. QED
  BY <1>1, <1>2, <1>3, <1>4, <1>5 DEF Next, Advance

\* Deadlines that have passed stay passed.
LEMMA ExpiredStay ==
  ASSUME [Next]_vars
  PROVE  expired \subseteq expired'
BY DEF Next, Advance, vars, Initialize, StartNode, StartFails, SubscribePeers, Dial,
       SpawnListeners, IndexPanics, Listen, StartRounds, Configured, Publish, EncodeFails,
       SignalDone, NextRound, Succeed, ReturnSendErr, Expire, GiveUp, Terminated

\* No step within the deadline panics.
LEMMA StepCrash ==
  ASSUME IInv, [Next]_vars
  PROVE  CrashOnlyPastDeadline'
<1>1. TypeOK /\ CrashOnlyPastDeadline
  BY DEF IInv
<1>2. ClusterFits' = ClusterFits
  BY ParamsFixed, NamesFixed DEF ClusterFits
<1> SUFFICES ASSUME ClusterFits, NEW i \in Instances, pc'[i] = "crashed"
             PROVE  i \in expired'
  BY <1>2 DEF CrashOnlyPastDeadline
<1>3. ~IndexPanics(i)
  BY <1>1, SubnetsHaveCounters DEF IndexPanics
<1>4. i \in expired
  BY <1>1, <1>3, WhoCrashes DEF CrashOnlyPastDeadline
<1>5. QED
  BY <1>4, ExpiredStay

-----------------------------------------------------------------------------
(* The theorems *)

\* The inductive invariant holds of every reachable state.
THEOREM Inductive == Spec => []IInv
<1>1. Init => IInv
  BY InitIInv
<1>2. IInv /\ [Next]_vars => IInv'
  BY StepTypes, StepSetUp, StepRounds, StepResults, StepShaped, StepCrash DEF IInv
<1>3. QED
  BY <1>1, <1>2, PTL DEF Spec

\* The types hold in every run, whatever its parameters.
THEOREM TypeCorrect == Spec => []TypeOK
<1>1. IInv => TypeOK
  BY DEF IInv
<1>2. QED
  BY <1>1, Inductive, PTL

\* Nobody listens before every instance has advertised its address and dialled
\* the others.
THEOREM ListensLate == Spec => []ListenAfterConnect
<1>1. IInv => ListenAfterConnect
  <2> SUFFICES ASSUME IInv, NEW i \in Instances, spawned[i] \cup listening[i] # {}
               PROVE  addresses = Instances /\ signals[<<"connected">>] = Instances
    BY DEF ListenAfterConnect
  <2>1. signals[<<"connected">>] = Instances
    BY DEF IInv, SetUpInOrder
  <2>2. QED
    BY <2>1 DEF IInv, SetUpInOrder
<1>2. QED
  BY <1>1, Inductive, PTL

\* Instances that publish at the same time are in the same round: of two different
\* rounds the earlier one would have been left by all, its publisher included.
THEOREM RoundsApart == Spec => []RoundsDoNotOverlap
<1>1. IInv => RoundsDoNotOverlap
  <2>1. ASSUME IInv, NEW i \in Instances, NEW j \in Instances,
               pc[i] = "publishing", pc[j] = "publishing"
        PROVE  ~(round[i] < round[j])
    <3> SUFFICES ASSUME round[i] < round[j] PROVE FALSE
      OBVIOUS
    <3>1. round[i] \in RoundNumbers /\ round[i] \in Nat
      BY <2>1, RoundsAreNat DEF IInv, TypeOK
    <3>2. i \in signals[<<"done", round[i]>>]
      BY <2>1, <3>1 DEF IInv, RoundsInOrder
    <3>3. QED
      BY <2>1, <3>1, <3>2 DEF IInv, RoundsInOrder, Ended
  <2>2. ASSUME IInv, NEW i \in Instances PROVE round[i] \in Nat
    BY <2>2, RoundsAreNat DEF IInv, TypeOK
  <2>3. SUFFICES ASSUME IInv, NEW i \in Instances, NEW j \in Instances,
                        pc[i] = "publishing", pc[j] = "publishing"
                 PROVE  round[i] = round[j]
    BY DEF RoundsDoNotOverlap
  <2>4. ~(round[i] < round[j]) /\ ~(round[j] < round[i])
    BY <2>1, <2>3
  <2>5. round[i] \in Nat /\ round[j] \in Nat
    BY <2>2, <2>3
  <2>6. QED
    BY <2>4, <2>5
<1>2. QED
  BY <1>1, Inductive, PTL

\* A round that an instance has left is complete: every instance has a result, or
\* the error of its encoding, for each message it had to publish, and instances with
\* such an error do not succeed.
THEOREM RoundsAreComplete == Spec => []RoundsComplete
<1>1. IInv => RoundsComplete
  <2>1. ASSUME IInv PROVE \A x \in sendErr : pc[x.from] # "succeeded"
    BY <2>1 DEF IInv, ResultsInOrder
  <2>2. ASSUME IInv, NEW i \in Instances, NEW j \in Instances, NEW r \in RoundNumbers,
               r < round[i] \/ pc[i] = "succeeded"
        PROVE  \A s \in Due(j) : Result(j, s, r) \in results \cup sendErr
    <3>1. j \in signals[<<"done", r>>]
      BY <2>2 DEF IInv, RoundsInOrder
    <3>2. QED
      BY <2>2, <3>1 DEF IInv, ResultsInOrder
  <2>3. QED
    BY <2>1, <2>2 DEF RoundsComplete
<1>2. QED
  BY <1>1, Inductive, PTL

\* With a sidecar the network of every instance is shaped before anybody
\* publishes in a round.
THEOREM ShapedFirst == Spec => []ShapedBeforePublish
<1>1. IInv => ShapedBeforePublish
  BY DEF IInv
<1>2. QED
  BY <1>1, Inductive, PTL

\* With a cluster file that fits the counters, panics are due to the deadline.
THEOREM CrashesAreLate == Spec => []CrashOnlyPastDeadline
<1>1. IInv => CrashOnlyPastDeadline
  BY DEF IInv
<1>2. QED
  BY <1>1, Inductive, PTL

\* The topics an instance listens to are, with groups, those of its own groups,
\* and no more than it has groups: topics of groups with the same operators are
\* the same.
LEMMA TopicsAreGroups ==
  ASSUME IInv, params.case = "groups", NEW j \in Instances
  PROVE  /\ \A s \in Shares : Topic(s) \in myTopics(j) => j \in Members(s)
         /\ LET G == {Members(s) : s \in myValidators(j)} IN
            \A T \in SUBSET myTopics(j) :
                Cardinality(T) <= Cardinality(G)
<1>1. \A s \in Shares : s.Operators \in Groups /\ Topic(s) = groupID(s.Operators)
  BY PlanAssumption DEF IInv, TypeOK, Shares, Topic, validatorGroups
<1>2. myValidators(j) \subseteq Shares /\ IsFiniteSet(myValidators(j))
  <2>1. myValidators(j) \in SUBSET Shares /\ IsFiniteSet(Shares)
    BY PlanAssumption DEF IInv, TypeOK, Shares, myValidators
  <2>2. QED
    BY <2>1, FS_Subset
<1>3. ASSUME NEW s \in Shares, Topic(s) \in myTopics(j) PROVE j \in Members(s)
  <2>1. PICK x \in myValidators(j) : groupID(s.Operators) = groupID(x.Operators)
    BY <1>1, <1>2, <1>3 DEF myTopics
  <2>2. InGroup(s.Operators) = InGroup(x.Operators)
    BY <1>1, <1>2, <2>1, NameTellsGroup
  <2>3. QED
    BY <2>1, <2>2 DEF myValidators, Members
<1>4. ASSUME NEW T \in SUBSET myTopics(j)
      PROVE  Cardinality(T) <= Cardinality({Members(s) : s \in myValidators(j)})
  <2> DEFINE G == {Members(s) : s \in myValidators(j)}
             Of(M) == CHOOSE s \in myValidators(j) : Members(s) = M
             f == [M \in G |-> Topic(Of(M))]
  <2>1. \A M \in G : Of(M) \in myValidators(j) /\ Members(Of(M)) = M
    OBVIOUS
  <2>2. f \in [G -> myTopics(j)]
    BY <2>1 DEF myTopics
  <2>3. ASSUME NEW t \in myTopics(j) PROVE \E M \in G : f[M] = t
    <3>1. PICK s \in myValidators(j) : t = Topic(s)
      BY DEF myTopics
    <3>2. Members(s) \in G /\ f[Members(s)] = Topic(Of(Members(s)))
      OBVIOUS
    <3>3. Topic(Of(Members(s))) = Topic(s)
      BY <1>1, <1>2, <2>1, <3>2, GroupTellsName DEF Members
    <3>4. QED
      BY <3>1, <3>2, <3>3
  <2>4. f \in Surjection(G, myTopics(j))
    BY <2>2, <2>3, Fun_IsSurj
  <2>5. IsFiniteSet(G)
    <3> DEFINE m == [s \in myValidators(j) |-> Members(s)]
    <3>1. m \in [myValidators(j) -> G] /\ \A M \in G : \E s \in myValidators(j) : m[s] = M
      OBVIOUS
    <3>2. m \in Surjection(myValidators(j), G)
      BY <3>1, Fun_IsSurj
    <3>3. QED
      BY <1>2, <3>2, FS_Surjection
  <2>6. IsFiniteSet(myTopics(j)) /\ Cardinality(myTopics(j)) <= Cardinality(G)
    BY <2>4, <2>5, FS_Surjection
  <2>7. IsFiniteSet(T) /\ Cardinality(T) <= Cardinality(myTopics(j))
    BY <2>6, FS_Subset
  <2>8. /\ Cardinality(T) \in Nat /\ Cardinality(G) \in Nat
        /\ Cardinality(myTopics(j)) \in Nat
    BY <2>5, <2>6, <2>7, FS_CardinalityType
  <2>9. QED
    BY <2>6, <2>7, <2>8
<1>5. QED
  BY <1>3, <1>4

\* Messages go where the operators listen who have come that far; with groups
\* nobody else listens there, and one listens to no more topics than one has
\* groups, whatever order their operators are written in.
THEOREM OperatorsAreThere == Spec => []OperatorsMeet
<1>1. IInv => OperatorsMeet
  <2> SUFFICES ASSUME IInv, NEW j \in Instances
               PROVE  LET hears == spawned[j] \cup listening[j] IN
                /\ \A x \in results :
                    j \in Members(x.share) /\ j \in signals[<<"subscribed">>] =>
                        Topic(x.share) \in hears
                /\ params.case = "groups" =>
                    /\ \A x \in results : Topic(x.share) \in hears => j \in Members(x.share)
                    /\ Cardinality(hears) <= Cardinality({Members(s) : s \in myValidators(j)})
    BY DEF OperatorsMeet
  <2> DEFINE hears == spawned[j] \cup listening[j]
  <2>1. \A x \in results : x.share \in Shares
    BY DEF IInv, TypeOK
  <2>2. /\ hears \in SUBSET myTopics(j)
        /\ j \in signals[<<"subscribed">>] => hears = myTopics(j)
    BY DEF IInv, SetUpInOrder
  <2>3. ASSUME NEW x \in results, j \in Members(x.share), j \in signals[<<"subscribed">>]
        PROVE  Topic(x.share) \in hears
    BY <2>1, <2>2, <2>3 DEF myTopics, myValidators
  <2>4. ASSUME params.case = "groups"
        PROVE  /\ \A x \in results : Topic(x.share) \in hears => j \in Members(x.share)
               /\ Cardinality(hears) <= Cardinality({Members(s) : s \in myValidators(j)})
    BY <2>1, <2>2, <2>4, TopicsAreGroups
  <2>5. QED
    BY <2>3, <2>4
<1>2. QED
  BY <1>1, Inductive, PTL

===============================================================================
