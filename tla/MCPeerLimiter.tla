---------------------------- MODULE MCPeerLimiter ----------------------------
(* Instances of PeerLimiter for TLC: two peers that can hold two connections *)
(* at once or reconnect, and a third with one connection.                   *)
EXTENDS PeerLimiter, TLC

CONSTANTS p1, p2, p3, c1, c2, c3, c4, c5

MCPeers == {p1, p2, p3}
MCConns == {c1, c2, c3, c4, c5}
MCRemotePeer == (c1 :> p1) @@ (c2 :> p1) @@ (c3 :> p2) @@ (c4 :> p2) @@ (c5 :> p3)

\* A smaller instance for the liveness properties.
LivePeers == {p1, p2}
LiveConns == {c1, c2, c3}
LiveRemotePeer == (c1 :> p1) @@ (c2 :> p1) @@ (c3 :> p2)

=============================================================================
