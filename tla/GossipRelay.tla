---------------------------- MODULE GossipRelay ----------------------------
(***************************************************************************)
(* Rumor mongering: packages/wire/lib/gossip/GossipRelay.ts.  One queue of *)
(* hot messages, and for every peer the index of the first message it has  *)
(* not been sent.  The peers are those GossipManager has added; a peer     *)
(* whose connection is being re-established is still in the relay, and     *)
(* sending to it throws (the assertion of Peer.sendMessage).               *)
(*                                                                         *)
(* A message is its key (what it is about: a channel, a channel and a      *)
(* direction, a node) and a timestamp.  A channel_announcement has no      *)
(* timestamp and is never replaced: its messages all have timestamp 0.     *)
(***************************************************************************)
EXTENDS Integers, Sequences, SequencesExt

CONSTANTS
    Peers,         \* the GossipPeers that may be in the relay
    Flaky,         \* those whose connection may drop and come back
    Messages,      \* gossip messages that may be enqueued
    MaxQueueLen    \* maxQueueLen: 10000

ASSUME PeersAssumption == Flaky \subseteq Peers
ASSUME MessagesAssumption == \A m \in Messages : m.ts \in Nat
ASSUME MaxQueueLenAssumption == MaxQueueLen \in Nat

VARIABLES
    active,   \* _state is Active
    queue,    \* _queue
    order,    \* the keys of _peers, in the order in which they were added
    idx,      \* the values of _peers; queue positions start at 1 here
    ready,    \* the peers whose connection is up
    sent,     \* history: the queued messages each peer was sent
    before    \* history: the queued messages that were there before the peer

vars == <<active, queue, order, idx, ready, sent, before>>

-----------------------------------------------------------------------------
Members == Range(order)
Queued == Range(queue)

(* The position of the queued message with the key of m, 0 if there is     *)
(* none: _findChanAnn, _findChanUpd, _findNodeAnn.                         *)
Find(m) ==
    IF \E i \in 1..Len(queue) : queue[i].key = m.key
    THEN CHOOSE i \in 1..Len(queue) : queue[i].key = m.key
    ELSE 0

Splice(i) == RemoveAt(queue, i)

(* What has left the queue is no longer hot: the histories forget it. *)
Forget(q) ==
    /\ sent' = [p \in Peers |-> sent[p] \cap Range(q)]
    /\ before' = [p \in Peers |-> before[p] \cap Range(q)]

Init ==
    /\ active = FALSE
    /\ queue = <<>>
    /\ order = <<>>
    /\ idx = [p \in Peers |-> 0]
    /\ ready = Peers
    /\ sent = [p \in Peers |-> {}]
    /\ before = [p \in Peers |-> {}]

Start ==
    /\ ~active
    /\ active' = TRUE
    /\ UNCHANGED <<queue, order, idx, ready, sent, before>>

Stop ==
    /\ active
    /\ active' = FALSE
    /\ UNCHANGED <<queue, order, idx, ready, sent, before>>

(* Map.set keeps the place of a key that is already there. *)
AddPeer(p) ==
    /\ order' = IF p \in Members THEN order ELSE Append(order, p)
    /\ idx' = [idx EXCEPT ![p] = Len(queue)]
    /\ before' = [before EXCEPT ![p] = Queued]
    /\ UNCHANGED <<active, queue, ready, sent>>

RemovePeer(p) ==
    /\ \E i \in 1..Len(order) : order[i] = p /\ order' = RemoveAt(order, i)
    /\ idx' = [idx EXCEPT ![p] = 0]
    /\ UNCHANGED <<active, queue, ready, sent, before>>

-----------------------------------------------------------------------------
(* enqueue: an unknown message goes to the back of the queue; *)
EnqueueNew(m) ==
    /\ active
    /\ Find(m) = 0
    /\ queue' = Append(queue, m)
    /\ UNCHANGED <<active, order, idx, ready, sent, before>>

(* a newer one takes the place of the older at the back of the queue, and  *)
(* the peers' indices stay as they are; anything else is ignored.          *)
EnqueueNewer(m) ==
    /\ active
    /\ Find(m) # 0
    /\ queue[Find(m)].ts < m.ts
    /\ queue' = Append(Splice(Find(m)), m)
    /\ Forget(queue')
    /\ UNCHANGED <<active, order, idx, ready>>

-----------------------------------------------------------------------------
(* _onTimer: every peer in turn is sent what it lacks; the first one that  *)
(* throws ends the tick, and the queue is not pruned.  sendMessage throws  *)
(* for a peer that is not ready, which nothing changes while the loop of   *)
(* _flushToPeer runs, so that it throws at the first message to a peer or  *)
(* at none; a message that was deserialized serializes.                    *)
Throws(p) == idx[p] < Len(queue) /\ p \notin ready
Unsent(p) == {queue[i] : i \in (idx[p] + 1)..Len(queue)}

(* The peers that a tick reaches before it throws. *)
Flushed ==
    {order[j] : j \in {j \in 1..Len(order) : \A i \in 1..j : ~Throws(order[i])}}

(* Mutant of the tick that throws: the index of a peer stays when it has   *)
(* been sent everything.                                                   *)
TickThrowsForgets ==
    /\ active
    /\ \E p \in Members : Throws(p)
    /\ sent' = [p \in Peers |-> IF p \in Flushed THEN sent[p] \cup Unsent(p) ELSE sent[p]]
    /\ UNCHANGED <<active, queue, order, idx, ready, before>>

TickThrows ==
    /\ active
    /\ \E p \in Members : Throws(p)
    /\ idx' = [p \in Peers |-> IF p \in Flushed THEN Len(queue) ELSE idx[p]]
    /\ sent' = [p \in Peers |-> IF p \in Flushed THEN sent[p] \cup Unsent(p) ELSE sent[p]]
    /\ UNCHANGED <<active, queue, order, ready, before>>

DeleteCount == IF Len(queue) > MaxQueueLen THEN Len(queue) - MaxQueueLen ELSE 0

(* Mutant: pruning forgets to shift the indices. *)
TickKeepsIndex ==
    LET hot == SubSeq(queue, DeleteCount + 1, Len(queue))
    IN  /\ active
        /\ \A p \in Members : ~Throws(p)
        /\ queue' = hot
        /\ idx' = [p \in Peers |-> IF p \in Members THEN Len(queue) ELSE 0]
        /\ sent' = [p \in Peers |->
                       (IF p \in Members THEN sent[p] \cup Unsent(p) ELSE sent[p]) \cap Range(hot)]
        /\ before' = [p \in Peers |-> before[p] \cap Range(hot)]
        /\ UNCHANGED <<active, order, ready>>

(* Mutant: the loop over the peers ends with the first. *)
TickFirstPeerOnly ==
    /\ active
    /\ \A p \in Members : ~Throws(p)
    /\ \E p \in Members :
          /\ p = order[1]
          /\ idx' = [idx EXCEPT ![p] = Len(queue)]
          /\ sent' = [sent EXCEPT ![p] = @ \cup Unsent(p)]
    /\ UNCHANGED <<active, queue, order, ready, before>>

(* A tick that reaches every peer prunes the oldest messages at the end.   *)
Tick ==
    LET hot == SubSeq(queue, DeleteCount + 1, Len(queue))
    IN  /\ active
        /\ \A p \in Members : ~Throws(p)
        /\ queue' = hot
        /\ idx' = [p \in Peers |-> IF p \in Members THEN Len(queue) - DeleteCount ELSE 0]
        /\ sent' = [p \in Peers |->
                       (IF p \in Members THEN sent[p] \cup Unsent(p) ELSE sent[p]) \cap Range(hot)]
        /\ before' = [p \in Peers |-> before[p] \cap Range(hot)]
        /\ UNCHANGED <<active, order, ready>>

-----------------------------------------------------------------------------
(* The connection of a peer drops, and comes back, while it is in the relay. *)
ConnectionChanges(p) ==
    /\ p \in Flaky
    /\ ready' = IF p \in ready THEN ready \ {p} ELSE ready \cup {p}
    /\ UNCHANGED <<active, queue, order, idx, sent, before>>

Next ==
    \/ Start \/ Stop
    \/ \E p \in Peers : AddPeer(p) \/ RemovePeer(p) \/ ConnectionChanges(p)
    \/ \E m \in Messages : EnqueueNew(m) \/ EnqueueNewer(m)
    \/ Tick \/ TickThrows

Spec == Init /\ [][Next]_vars

(* setInterval keeps firing while the relay is active. *)
FairSpec == Spec /\ WF_vars(Tick \/ TickThrows)

-----------------------------------------------------------------------------
TypeOK ==
    /\ active \in BOOLEAN
    /\ queue \in Seq(Messages) /\ order \in Seq(Peers)
    /\ idx \in [Peers -> Nat]
    /\ ready \in SUBSET Peers
    /\ sent \in [Peers -> SUBSET Messages] /\ before \in [Peers -> SUBSET Messages]

(* No index runs past the end of the queue, however enqueue, replacement,  *)
(* pruning and the peers' coming and going are interleaved: an index that  *)
(* did would silently withhold messages from that peer.                    *)
IndexInRange == \A p \in Peers : idx[p] <= Len(queue)

(* The queue holds one message about each thing. *)
OnePerKey == \A i, j \in 1..Len(queue) : queue[i].key = queue[j].key => i = j

(* "only messages that haven't been sent to a peer are sent": the next     *)
(* flush repeats nothing that a peer already has.                          *)
NothingResent == \A p \in Members : Unsent(p) \cap sent[p] = {}

(* Every message that is behind a peer's index was sent to that peer, or   *)
(* was there before it joined: the next flush leaves nothing out.          *)
NoneSkipped == \A p \in Members :
    \A i \in 1..Len(queue) : i <= idx[p] => queue[i] \in sent[p] \cup before[p]

(* Nothing but the replacement of a message breaks that: not pruning, not  *)
(* a tick that throws halfway, not the peers' coming and going.            *)
OnlyReplacementSkips ==
    [][ NoneSkipped /\ ~(\E m \in Messages : EnqueueNewer(m)) => NoneSkipped' ]_vars

(* A message that a peer is to be sent reaches it, unless the peer leaves  *)
(* or is added anew, the message leaves, the relay is stopped, some peer   *)
(* of the relay is not connected, or a replacement has made one be skipped. *)
Reaches == \A p \in Peers, m \in Messages :
    (p \in Members /\ m \in Unsent(p))
        ~> (\/ m \in sent[p] \/ m \in before[p] \/ m \notin Queued
            \/ p \notin Members \/ ~active
            \/ ~(Members \subseteq ready) \/ ~NoneSkipped)
=============================================================================
