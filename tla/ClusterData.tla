---------------------------- MODULE ClusterData ----------------------------
(***************************************************************************)
(* The pure functions on the cluster file (plans/topology/clusters.go and  *)
(* groupID of groups.go).  A key is reduced to what the code reads of it:  *)
(* whether it has ten characters (long) and the number its first ten       *)
(* characters spell (head), NotHex if they spell none.  Ten hexadecimal    *)
(* digits are below 2^40, so that a uint64 never overflows.  A group is    *)
(* the array of its operators, in the order of the file; its name is their *)
(* sorted sequence.                                                        *)
(***************************************************************************)
EXTENDS Integers, Sequences

NotHex == -1

Keys == [long : BOOLEAN, head : Nat \cup {NotHex}]

\* A group has different operators, as all of the embedded file have.
Groups == {g \in Seq(Nat) : \A k, l \in DOMAIN g : g[k] = g[l] => k = l}

Share(pk, ops) == [PK |-> pk, Operators |-> ops]

\* The operators of a group or of a share, in no order.
InGroup(g) == {g[k] : k \in DOMAIN g}
Members(s) == InGroup(s.Operators)

\* Faulty variant: the operators are not sorted.
Unsorted(g) == g

\* The operators, which are different ones, in ascending order.
Ascending(q) == \A k, l \in DOMAIN q : k < l => q[k] < q[l]

groupID(g) == CHOOSE q \in [DOMAIN g -> InGroup(g)] : Ascending(q)

\* hex.DecodeString: what is not hexadecimal is not so from the head on.
Decodes(pk) == pk.head # NotHex

hexToUint64(head) == IF head = NotHex THEN 0 ELSE head

\* Faulty variant: the remainder of one number too many.
OneSubnetMore(pk, subnetsCount) ==
    IF pk.long THEN hexToUint64(pk.head) % (subnetsCount + 1) ELSE -1

ValidatorSubnet(pk, subnetsCount) ==
    IF pk.long THEN hexToUint64(pk.head) % subnetsCount ELSE -1

=============================================================================
