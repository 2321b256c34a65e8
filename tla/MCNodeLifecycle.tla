--------------------------- MODULE MCNodeLifecycle ---------------------------
(* An instance of NodeLifecycle for TLC: a type that is counted and written  *)
(* to the filtered file, one that is only written, and an RPC that touches   *)
(* two counters.                                                             *)
EXTENDS NodeLifecycle

RPC(messages, grafts) ==
    [RPCs |-> 1, Messages |-> messages, IHaves |-> 0, IWants |-> 0, Grafts |-> grafts, Prunes |-> 0]

MCEvents ==
    {[type |-> "PUBLISH_MESSAGE"], [type |-> "GRAFT"],
     [type |-> "SEND_RPC", meta |-> RPC(2, 0)]}

=============================================================================
