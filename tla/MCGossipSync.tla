---------------------------- MODULE MCGossipSync ----------------------------
(* GossipSync with two peers, one of which may reconnect, two channels asked *)
(* for one at a time, and a stream that is full with one message.            *)
EXTENDS GossipSync, TLC

CONSTANTS p1, p2

BothPeers == {p1, p2}
OneOrBoth == {{p1}, {p1, p2}}
FirstReconnects == p1 :> 2 @@ p2 :> 1
TwoScids == <<"s1", "s2">>
=============================================================================
