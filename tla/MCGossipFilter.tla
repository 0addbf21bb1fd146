--------------------------- MODULE MCGossipFilter ---------------------------
(* Two peers gossip about one channel between two nodes. *)
EXTENDS GossipFilter

CONSTANTS c1, n1, n2

MCNodeOf == [k \in {c1} \X {0, 1} |-> IF k[2] = 0 THEN n1 ELSE n2]

Msg(kind, key, ts, good) == [kind |-> kind, key |-> key, ts |-> ts,
                             good |-> good]
\* genuine and forged ones, newer and older ones, of both directions
MCMessages ==
  {Msg("ann", c1, 0, TRUE), Msg("ann", c1, 0, FALSE),
   Msg("upd", <<c1, 0>>, 1, TRUE), Msg("upd", <<c1, 0>>, 2, TRUE),
   Msg("upd", <<c1, 0>>, 2, FALSE), Msg("upd", <<c1, 1>>, 1, TRUE),
   Msg("node", n1, 1, TRUE), Msg("node", n1, 2, TRUE),
   Msg("node", n2, 2, FALSE)}
=============================================================================
