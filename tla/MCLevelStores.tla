--------------------------- MODULE MCLevelStores ---------------------------
(* Two contracts, the second of which spends the fund output of the first,  *)
(* a batch of two with one input and one with two, and a batch of one; two   *)
(* channels of a node, and a third funded by the outpoint of the first.     *)
EXTENDS LevelStores

CONSTANTS DlcCalls, GossipCalls  \* how many of each a program makes

SomeContract(temp, inputs, out, spk) == [temp |-> temp, inputs |-> inputs, out |-> out, spk |-> spk]

Contracts ==
  [c1 |-> SomeContract("t1", <<"a", "f">>, "o1", "s1"), c2 |-> SomeContract("t2", <<"o1">>, "o2", "s1"),
   c3 |-> SomeContract("t3", <<"b">>, "o3", "s3"), c4 |-> SomeContract("t4", <<"b">>, "o4", "s4"),
   c5 |-> SomeContract("t5", <<"d", "e">>, "o5", "s5"), c6 |-> SomeContract("t6", <<"d", "e">>, "o6", "s6"),
   c7 |-> SomeContract("t7", <<"g">>, "o7", "s7")]

Channels == [x |-> <<"n1", "n2", "p">>, y |-> <<"n1", "n3", "q">>, z |-> <<"n4", "n5", "p">>]

DlcOps ==
  ({"saveDlcAccept", "deleteDlcAccept", "saveDlcTransactions", "deleteDlcTransactions"} \X {"c1", "c2"})
    \union {<<"saveDlcAccepts", <<"c3", "c4">>>>, <<"saveDlcAccepts", <<"c5", "c6">>>>, <<"saveDlcAccepts", <<"c7">>>>,
            <<"deleteDlcOffer", "t1">>, <<"saveDlcOffer", "t1">>}

GossipOps ==
  ({"saveChannelAnnouncement"} \X {"x", "y"} \X {"plain", "extended"})
    \union ({"deleteChannelAnnouncement"} \X {"x", "y"} \X {1, 2})
    \union {<<"saveChannelAnnouncement", "z", "extended">>, <<"saveChannelUpdate", "x">>, <<"saveNodeAnnouncement", "n1">>, <<"deleteNodeAnnouncement", "n1">>}

Programs == kSubset(DlcCalls, DlcOps) \union kSubset(GossipCalls, GossipOps)
=============================================================================
