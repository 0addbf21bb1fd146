--------------------------- MODULE MCGossipRelay ---------------------------
(* Small instances of GossipRelay for TLC: which messages may be enqueued. *)
EXTENDS GossipRelay

Msg(k, t) == [key |-> k, ts |-> t]

(* An announcement and two updates, one of which has a newer version. *)
Updates == {Msg("ann1", 0), Msg("upd1", 1), Msg("upd1", 2), Msg("upd2", 1)}
=============================================================================
