----------------------------- MODULE BlockWatch -----------------------------
(***************************************************************************)
(* BlockWatcher: it is told of new blocks by the node, fetches a block     *)
(* whose successor came first, and reports what it watches for.            *)
(*                                                                         *)
(* The node tells of the block that is its new tip, not of those a         *)
(* reorganisation brought with it, and what it publishes may be lost.  The *)
(* block that was missing is fetched: until it comes other blocks arrive   *)
(* and other fetches are answered, in any order.                           *)
(***************************************************************************)
EXTENDS ChainTree, Sequences, SequencesExt

CONSTANTS
  Things,     \* what can be watched: outpoints and scripts
  Valued,     \* those of them watched with a value
  InBlock,   \* Block -> the things its transaction spends and pays, in order
  Faulty,     \* sets of things one of which may make its listener throw
  NoBlock,
  MaxPending  \* bound: fetches answered out of order while there are so few

ASSUME ThingsAssumption ==
  Valued \subseteq Things /\ InBlock \in [Blocks -> Seq(Things)] /\ NoBlock \notin Blocks
ASSUME FaultyAssumption == Faulty \subseteq SUBSET Things
ASSUME PendingAssumption == MaxPending \in Nat

VARIABLES
  tip,     \* the node's best block
  zmq,     \* rawblock messages on their way
  first,   \* the block start() was called with
  watcher, \* the state of the BlockWatcher
  dead     \* a fetch was rejected, which nobody handles: the process ends

watchVars == <<tip, zmq, first, watcher, dead>>

NoWatcher ==
  [ received |-> {},                        \* receivedBlocks, their hashes
    next     |-> [b \in Blocks |-> NoBlock], \* previousHashToHash
    watched  |-> {},                        \* watchedOutPoints, watchedScriptPubKeys
    pending  |-> <<>>,                      \* fetches: what for, and of what
    reported |-> {},                        \* history: things reported, with their block
    orphans  |-> {},                        \* history: 'orphanblock' events
    skipped  |-> {} ]                       \* history: what a listener that threw hid

WatchInit ==
  /\ tip \in Blocks
  /\ zmq = <<>>
  /\ first = NoBlock
  /\ watcher = NoWatcher
  /\ dead = FALSE

-----------------------------------------------------------------------------
(* _checkOutpoints, _checkScriptPubkeys: a thing found is no longer watched. *)
(* The value of an output is compared with '===', which two Value objects    *)
(* never are.  A listener that throws is taken for a transaction that cannot *)
(* be read, and what comes after it in the transaction is not looked at.     *)
CheckTx(w, b, bad) ==
  LET hits   == SelectSeq(InBlock[b], LAMBDA x : x \in w.watched /\ x \notin Valued)
      throws == {i \in 1..Len(hits) : hits[i] \in bad}
      seen   == {hits[i] : i \in {j \in 1..Len(hits) : \A k \in throws : j <= k}}
      all    == {hits[i] : i \in 1..Len(hits)}
  IN [w EXCEPT !.watched = @ \ seen,
               !.reported = @ \union {<<x, b>> : x \in seen},
               !.skipped = @ \union (all \ seen)]

\* A slip: the first block on top of another is overwritten.
ProcessBlockSlip(w, b, bad) ==
  [CheckTx([w EXCEPT !.received = @ \union {b}], b, bad) EXCEPT !.next[Parent[b]] = b]

(* _processBlock *)
ProcessBlock(w, b, bad) ==
  LET c == CheckTx([w EXCEPT !.received = @ \union {b}], b, bad) IN
  IF c.next[Parent[b]] # NoBlock
  THEN [c EXCEPT !.orphans = @ \union {<<c.next[Parent[b]], b>>}]
  ELSE [c EXCEPT !.next[Parent[b]] = b]

Previous(b) == IF b = Genesis THEN NoBlock ELSE Parent[b]

(* _findPreviousBlockAndProcess, until it waits. *)
Fetch(w, b) == [w EXCEPT !.pending = Append(@, <<b, Previous(b)>>)]

(* _onRawBlock *)
OnRawBlock(w, b, bad) ==
  IF Previous(b) \in w.received THEN ProcessBlock(w, b, bad) ELSE Fetch(w, b)

-----------------------------------------------------------------------------
(* The node. *)
Advance(b) ==
  /\ Height[b] > Height[tip]
  /\ tip' = b
  /\ zmq' \in {zmq} \union (IF first = NoBlock THEN {} ELSE {Append(zmq, b)})
  /\ UNCHANGED <<first, watcher, dead>>

(* The client. *)
Start(b) ==
  /\ first = NoBlock
  /\ first' = b
  /\ watcher' = [watcher EXCEPT !.received = @ \union {b}]
  /\ UNCHANGED <<tip, zmq, dead>>

Watch(x) ==
  /\ ~dead
  /\ x \notin watcher.watched
  /\ watcher' = [watcher EXCEPT !.watched = @ \union {x}]
  /\ UNCHANGED <<tip, zmq, first, dead>>

(* The watcher. *)
Deliver(bad) ==
  /\ zmq # <<>> /\ ~dead
  /\ zmq' = Tail(zmq)
  /\ watcher' = OnRawBlock(watcher, Head(zmq), bad)
  /\ UNCHANGED <<tip, first, dead>>

\* A slip: the block that had to wait is forgotten.
HandleSlip(w, fetch, bad) == OnRawBlock(w, fetch[2], bad)

\* The block fetched, and then the one it was fetched for, whatever became of
\* that one in the meantime.
Handle(w, fetch, bad) == OnRawBlock(OnRawBlock(w, fetch[2], bad), fetch[1], bad)

Answer(i, bad) ==
  /\ ~dead
  /\ i \in 1..Len(watcher.pending)
  /\ i = 1 \/ Len(watcher.pending) <= MaxPending
  /\ watcher.pending[i][2] # NoBlock
  /\ watcher' = Handle([watcher EXCEPT !.pending = RemoveAt(@, i)], watcher.pending[i], bad)
  /\ UNCHANGED <<tip, zmq, first, dead>>

\* There is nothing before the genesis block, and a call may fail.
Reject(i) ==
  /\ ~dead
  /\ i \in 1..Len(watcher.pending)
  /\ i = 1 \/ Len(watcher.pending) <= MaxPending
  /\ dead' = TRUE
  /\ UNCHANGED <<tip, zmq, first, watcher>>

WatcherNext ==
  \/ \E x \in Things : Watch(x)
  \/ \E bad \in Faulty : Deliver(bad) \/ \E i \in 1..Len(watcher.pending) : Answer(i, bad)
  \/ \E i \in 1..Len(watcher.pending) : Reject(i)

WatchNext == (\E b \in Blocks : Advance(b) \/ Start(b)) \/ WatcherNext

\* Messages that are not lost come, and every call ends.
WatchFairness ==
  /\ WF_watchVars(\E bad \in Faulty : Deliver(bad))
  /\ WF_watchVars(Reject(1) \/ \E bad \in Faulty : Answer(1, bad))

WatchSpec == WatchInit /\ [][WatchNext]_watchVars /\ WatchFairness

-----------------------------------------------------------------------------
(* Properties. *)
Processed == watcher.received \ {first}

(* 'orphanblock': when two blocks on top of the same one have been processed *)
(* the listeners have been told of the one that came later.                  *)
ForkTold ==
  \A a, b \in Processed :
    Siblings(a, b) =>
      \E f \in Blocks : \A c \in {a, b} : c = f \/ <<f, c>> \in watcher.orphans

(* What is watched, without a value, is reported when a block with it is     *)
(* announced or comes before one that is, on top of the block the watcher    *)
(* was started with; unless a fetch is rejected or a listener throws.        *)
Announced(x) ==
  /\ x \in watcher.watched \ Valued
  /\ \E i \in 1..Len(zmq) : \E b \in Below[zmq[i]] \ Below[first] :
       /\ first \in Below[b] /\ b \notin watcher.received
       /\ \E j \in 1..Len(InBlock[b]) : InBlock[b][j] = x

Reported ==
  \A x \in Things :
    (first # NoBlock /\ Announced(x)) ~> (x \notin watcher.watched \/ x \in watcher.skipped \/ dead)
=============================================================================
