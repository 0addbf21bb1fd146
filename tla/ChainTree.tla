----------------------------- MODULE ChainTree -----------------------------
(* The block headers a bitcoin node knows: a tree whose branches are the     *)
(* competing chains.                                                         *)
EXTENDS Naturals

CONSTANTS
  Blocks,
  Genesis,
  Parent,  \* Block -> the block its header names as previous
  Height,
  Below    \* Block -> the chain that ends with it, as a set

ASSUME TreeAssumption ==
  /\ Genesis \in Blocks
  /\ Parent \in [Blocks \ {Genesis} -> Blocks]
  /\ Height \in [Blocks -> Nat]
  /\ Below \in [Blocks -> SUBSET Blocks]
  /\ Height[Genesis] = 0 /\ Below[Genesis] = {Genesis}
  /\ \A b \in Blocks \ {Genesis} :
       Height[b] = Height[Parent[b]] + 1 /\ Below[b] = Below[Parent[b]] \union {b}

Siblings(a, b) ==
  a # b /\ {a, b} \subseteq Blocks \ {Genesis} /\ Parent[a] = Parent[b]
=============================================================================
