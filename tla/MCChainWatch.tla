--------------------------- MODULE MCChainWatch ---------------------------
(* BlockDiffer and BlockWatcher as a program uses both: what happened while *)
(* it was not running is found with a diff, and the watcher goes on from    *)
(* its end.  Two chains fork after the first block.                         *)
EXTENDS BlockWatch, BlockDiff, TLC

CONSTANTS g, a1, a2, a3, a4, b2, b3, o, s, v

Tree == {g, a1, a2, a3, a4, b2, b3}
TreeParent == a1 :> g @@ a2 :> a1 @@ a3 :> a2 @@ a4 :> a3 @@ b2 :> a1 @@ b3 :> b2
TreeHeight == g :> 0 @@ a1 :> 1 @@ a2 :> 2 @@ a3 :> 3 @@ a4 :> 4 @@ b2 :> 2 @@ b3 :> 3
TreeBelow ==
  g :> {g} @@ a1 :> {g, a1} @@ a2 :> {g, a1, a2} @@ a3 :> {g, a1, a2, a3} @@
  a4 :> {g, a1, a2, a3, a4} @@ b2 :> {g, a1, b2} @@ b3 :> {g, a1, b2, b3}

AllThings == {o, s, v}
WithValue == {v}
TreeInBlock ==
  [b \in Tree |-> CASE b = a2 -> <<o, v>> [] b = a3 -> <<o, s>> [] b = b3 -> <<o>> [] OTHER -> <<>>]
MayThrow == {{}, {o}}

vars == <<watchVars, diffVars>>

Init == WatchInit /\ DiffInit

\* start() with the block the diff led to.
StartAfterDiff ==
  /\ at = "done"
  /\ Start(from.current)
  /\ Take

Next ==
  \/ /\ first = NoBlock
     /\ (\E p \in Blocks : Diff(tip, p)) \/ Turn \/ Refuse \/ Finish
     /\ UNCHANGED watchVars
  \/ StartAfterDiff
  \/ /\ \E b \in Blocks : Advance(b)
     /\ UNCHANGED diffVars
  \/ /\ first # NoBlock
     /\ WatcherNext
     /\ UNCHANGED diffVars

Fairness ==
  /\ WF_vars((\E bad \in Faulty : Deliver(bad)) /\ UNCHANGED diffVars)
  /\ WF_vars((Reject(1) \/ \E bad \in Faulty : Answer(1, bad)) /\ UNCHANGED diffVars)

Spec == Init /\ [][Next]_vars /\ Fairness
=============================================================================
