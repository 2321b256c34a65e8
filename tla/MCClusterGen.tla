---------------------------- MODULE MCClusterGen ----------------------------
(* An instance of ClusterGen for TLC: limits that are met, not met and       *)
(* absent, as many operators as a group has, one more and one less.          *)
EXTENDS ClusterGen

Run(operators, validators, maxGroups) ==
    [operators |-> operators, validators |-> validators, maxGroups |-> maxGroups]

MCFlags == {Run(5, 2, 1), Run(4, 2, 0), Run(3, 1, 1), Run(3, 0, 0), Run(0, 1, 0), Run(5, 2, 2)}

=============================================================================
