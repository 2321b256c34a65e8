----------------------------- MODULE MCTestPlan -----------------------------
(* Instances of TestPlan for TLC: three test instances and three shares.    *)
(* The first two shares belong to one group, written in two orders, of      *)
(* instance 1 and an operator without an instance; the third belongs to     *)
(* instances 1 and 2; instance 3 operates nothing.  The first key is not    *)
(* hexadecimal.  Out of three subnets, the second key falls into the last.  *)
EXTENDS TestPlan

Key(n) == [long |-> TRUE, head |-> n]

MCShares == {Share(Key(NotHex), <<1, 4>>), Share(Key(5), <<4, 1>>), Share(Key(0), <<2, 1>>)}

\* Instances 1 and 2 have one message each in every round.
OneShare == {Share(Key(0), <<2, 1>>)}

\* Instance 1 has a key of less than ten characters.
ShortKey == {Share([long |-> FALSE, head |-> 0], <<1, 4>>), Share(Key(0), <<2, 3>>)}

Run(case, sidecar, subnets, shares) ==
    [case |-> case, sidecar |-> sidecar, subnets |-> subnets,
     t_latency |-> 0, t_latency_max |-> 1, shares |-> shares]

\* Both cases, with a sidecar and (as the README runs them) without one, one run
\* of each with all shares; one asks for one subnet more than the array of counters
\* has.
MCParams ==
    {Run("groups", TRUE, 2, MCShares), Run("groups", FALSE, 2, OneShare),
     Run("subnets", FALSE, 2, MCShares), Run("subnets", TRUE, 2, OneShare),
     Run("subnets", FALSE, 3, MCShares), Run("subnets", FALSE, 2, ShortKey)}

SubscribedParams == {Run("groups", TRUE, 2, MCShares)}

\* Latencies of 1 ms are asked for.
LatencyParams ==
    {[Run("subnets", TRUE, 2, MCShares) EXCEPT !.t_latency = 1, !.t_latency_max = 2]}

=============================================================================
