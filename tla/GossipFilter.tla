---------------------------- MODULE GossipFilter ----------------------------
(***************************************************************************)
(* The validation of gossip: GossipPeer hands the messages of one peer to  *)
(* its GossipFilter one at a time; the filters of all peers share one      *)
(* gossip store and one pending store, and a validation is suspended at    *)
(* every await.  An action is the code from one await to the next, ending  *)
(* with the store operation or chain query it starts.  The stores are      *)
(* GossipMemoryStore, whose operations are atomic; its map from nodes to   *)
(* channels always mirrors the announcements and is the operator           *)
(* HasChannel here.  A chain monitor removes a channel after its output is *)
(* spent.  A message is its kind, what it is about, its timestamp and      *)
(* whether its signatures verify.                                          *)
(***************************************************************************)
EXTENDS Naturals, Sequences

CONSTANTS
  Channels,      \* short channel ids
  Nodes,         \* node ids
  NodeOf,        \* NodeOf[<<c, d>>]: the node that signs direction d of c
  Peers,         \* the peers that gossip with us
  Messages,      \* the gossip messages that peers may send
  NoMsg,         \* undefined
  MaxReceived    \* bound on the messages received in a behaviour

UpdKeys == Channels \X {0, 1}
Keys == UpdKeys \cup Nodes

Announcement == [kind : {"ann"}, key : Channels, ts : {0}, good : BOOLEAN]
Update == [kind : {"upd"}, key : UpdKeys, ts : Nat, good : BOOLEAN]
NodeAnnouncement == [kind : {"node"}, key : Nodes, ts : Nat, good : BOOLEAN]

ASSUME MessagesAssumption ==
  /\ Messages \subseteq Announcement \cup Update \cup NodeAnnouncement
  /\ NoMsg \notin Messages
ASSUME NodeOfAssumption == NodeOf \in [UpdKeys -> Nodes]
ASSUME KeysAssumption == UpdKeys \cap Nodes = {}
ASSUME BoundAssumption == MaxReceived \in Nat

VARIABLES
  client,     \* there is a chainClient
  open,       \* open[c]: the output of c is on the chain, unspent
  ann,        \* gossipStore: the announcement of a channel, by its class
  store,      \* gossipStore: the latest update or node announcement
  pending,    \* pendingStore: those that wait for a channel announcement
  task,       \* task[p]: the validation in progress for peer p
  handed,     \* handed[p]: what GossipPeer pushed after the last message
  received    \* number of messages received

stores == <<ann, store, pending>>
vars == <<client, open, stores, task, handed, received>>

(***************************************************************************)
(* A validation: the message, the class of the channel's announcement or   *)
(* the message that the last find returned, the announcement whose related *)
(* messages are being processed, how many of them were looked up, those    *)
(* found and still to be processed, and the results so far.                *)
(***************************************************************************)
Idle == [pc |-> "idle", msg |-> NoMsg, chan |-> "none", seen |-> NoMsg,
         parent |-> NoMsg, looked |-> 0, todo |-> <<>>, results |-> {}]

Init ==
  /\ client \in BOOLEAN
  /\ open \in [Channels -> BOOLEAN]
  /\ ann \in [Channels -> {"none", "plain"}]
  /\ store = [k \in Keys |-> NoMsg]
  /\ pending = [k \in Keys |-> NoMsg]
  /\ task = [p \in Peers |-> Idle]
  /\ handed = [p \in Peers |-> {}]
  /\ received = 0

\* findChannelsForNode returns a channel
HasChannel(n) ==
  \E c \in Channels, d \in {0, 1} : ann[c] # "none" /\ NodeOf[<<c, d>>] = n

(***************************************************************************)
(* How a validation goes on, ends well, or ends with an error.  A related  *)
(* message that ends well returns to its announcement; one that fails ends *)
(* the announcement's validation too.  After an error GossipPeer emits     *)
(* 'gossip_error' and still returns the message it was given.              *)
(***************************************************************************)
At(p, pc) == task[p].pc = pc
Become(p, t) == task' = [task EXCEPT ![p] = t]
Goto(p, pc) == Become(p, [task[p] EXCEPT !.pc = pc])

Ok(p, results) ==
  LET all == task[p].results \cup results
  IN IF task[p].parent # NoMsg
     THEN /\ Become(p, [task[p] EXCEPT !.pc = "related", !.results = all])
          /\ UNCHANGED handed
     ELSE /\ Become(p, Idle)
          /\ handed' = [handed EXCEPT ![p] = all]

Origin(p) == IF task[p].parent # NoMsg THEN task[p].parent ELSE task[p].msg

Err(p) ==
  /\ Become(p, Idle)
  /\ handed' = [handed EXCEPT ![p] = {Origin(p)}]

\* GossipPeer, its last results read, reads the next message of its peer
\* and calls the filter
Receive(p, m) ==
  /\ At(p, "idle") /\ received < MaxReceived
  /\ Become(p, [Idle EXCEPT !.pc = m.kind, !.msg = m])
  /\ handed' = [handed EXCEPT ![p] = {}]
  /\ received' = received + 1
  /\ UNCHANGED <<client, open, stores>>

-----------------------------------------------------------------------------
(***************************************************************************)
(* Channel announcements.                                                  *)
(***************************************************************************)
AnnFinds(p) ==
  /\ At(p, "ann")
  /\ Become(p, [task[p] EXCEPT !.pc = "annFound",
                               !.chan = ann[task[p].msg.key]])
  /\ UNCHANGED <<client, open, stores, handed, received>>

\* an extended announcement is final; a plain one unless there is a client
AnnKnown(p) == task[p].chan = "ext" \/ (task[p].chan = "plain" /\ ~client)

AnnIgnored(p) ==
  /\ At(p, "annFound") /\ AnnKnown(p)
  /\ Ok(p, {})
  /\ UNCHANGED <<client, open, stores, received>>

AnnBadSignature(p) ==
  /\ At(p, "annFound") /\ ~AnnKnown(p) /\ ~task[p].msg.good
  /\ Err(p)
  /\ UNCHANGED <<client, open, stores, received>>

AnnCheckedCarelessly(p) ==
  /\ At(p, "annFound") /\ ~AnnKnown(p) /\ task[p].msg.good
  /\ Goto(p, "annSave")
  /\ UNCHANGED <<client, open, stores, handed, received>>

\* without a client, or when the client finds the unspent output
AnnChecked(p) ==
  /\ At(p, "annFound") /\ ~AnnKnown(p) /\ task[p].msg.good
  /\ client => open[task[p].msg.key]
  /\ Goto(p, "annSave")
  /\ UNCHANGED <<client, open, stores, handed, received>>

\* the block or the output is not found, or the script is another one
AnnNotOnChain(p) ==
  /\ At(p, "annFound") /\ ~AnnKnown(p) /\ task[p].msg.good /\ client
  /\ Err(p)
  /\ UNCHANGED <<client, open, stores, received>>

\* the client throws: GossipPeer disconnects the peer and returns nothing
AnnClientThrows(p) ==
  /\ At(p, "annFound") /\ ~AnnKnown(p) /\ task[p].msg.good /\ client
  /\ Become(p, Idle)
  /\ handed' = [handed EXCEPT ![p] = {}]
  /\ UNCHANGED <<client, open, stores, received>>

AnnSaves(p) ==
  /\ At(p, "annSave")
  /\ ann' = [ann EXCEPT ![task[p].msg.key] =
                                      IF client THEN "ext" ELSE "plain"]
  /\ Become(p, [task[p] EXCEPT !.pc = "related", !.parent = task[p].msg,
                               !.results = {task[p].msg}])
  /\ UNCHANGED <<client, open, store, pending, handed, received>>

(***************************************************************************)
(* The messages that waited for an announcement: both updates are looked   *)
(* up and then processed, then the announcements of both nodes.            *)
(***************************************************************************)
RelatedKeys(c) == << <<c, 0>>, <<c, 1>>, NodeOf[<<c, 0>>], NodeOf[<<c, 1>>] >>

\* the found ones are processed after the second and the fourth lookup
Takes(p) == task[p].looked \in {2, 4} /\ task[p].todo # <<>>

RelatedLooks(p) ==
  /\ At(p, "related") /\ ~Takes(p) /\ task[p].looked < 4
  /\ LET found == pending[RelatedKeys(task[p].parent.key)[task[p].looked + 1]]
     IN Become(p, [task[p] EXCEPT
          !.looked = @ + 1,
          !.todo = IF found = NoMsg THEN @ ELSE Append(@, found)])
  /\ UNCHANGED <<client, open, stores, handed, received>>

\* it is deleted from the pending store and validated like a new message
RelatedTakes(p) ==
  /\ At(p, "related") /\ Takes(p)
  /\ LET m == Head(task[p].todo)
     IN /\ pending' = [pending EXCEPT ![m.key] = NoMsg]
        /\ Become(p, [task[p] EXCEPT !.pc = m.kind, !.msg = m,
                                     !.todo = Tail(@)])
  /\ UNCHANGED <<client, open, ann, store, handed, received>>

RelatedDoneEarly(p) ==
  /\ At(p, "related") /\ ~Takes(p) /\ task[p].looked >= 2
  /\ Become(p, Idle)
  /\ handed' = [handed EXCEPT ![p] = task[p].results]
  /\ UNCHANGED <<client, open, stores, received>>

RelatedDone(p) ==
  /\ At(p, "related") /\ ~Takes(p) /\ task[p].looked = 4
  /\ Become(p, Idle)
  /\ handed' = [handed EXCEPT ![p] = task[p].results]
  /\ UNCHANGED <<client, open, stores, received>>

-----------------------------------------------------------------------------
(***************************************************************************)
(* Channel updates and node announcements.  Both are queued when there is  *)
(* no announced channel, ignored when not newer than the stored one, and   *)
(* saved when signed; they make their reads in the opposite order.         *)
(***************************************************************************)
AnyAge(m, old) == TRUE

Newer(m, old) == old # NoMsg => m.ts > old.ts

UpdFinds(p) ==
  /\ At(p, "upd")
  /\ Become(p, [task[p] EXCEPT !.pc = "updFound",
                               !.chan = ann[task[p].msg.key[1]]])
  /\ UNCHANGED <<client, open, stores, handed, received>>

Queue(p) ==
  /\ pending' = [pending EXCEPT ![task[p].msg.key] = task[p].msg]
  /\ Ok(p, {})
  /\ UNCHANGED <<client, open, ann, store, received>>

UpdQueues(p) == At(p, "updFound") /\ task[p].chan = "none" /\ Queue(p)

UpdReads(p) ==
  /\ At(p, "updFound") /\ task[p].chan # "none"
  /\ Become(p, [task[p] EXCEPT !.pc = "save",
                               !.seen = store[task[p].msg.key]])
  /\ UNCHANGED <<client, open, stores, handed, received>>

NodeReads(p) ==
  /\ At(p, "node")
  /\ Become(p, [task[p] EXCEPT !.pc = "nodeRead",
                               !.seen = store[task[p].msg.key]])
  /\ UNCHANGED <<client, open, stores, handed, received>>

NodeFinds(p) ==
  /\ At(p, "nodeRead") /\ Newer(task[p].msg, task[p].seen)
  /\ Goto(p, IF HasChannel(task[p].msg.key) THEN "save" ELSE "nodeQueue")
  /\ UNCHANGED <<client, open, stores, handed, received>>

NodeQueues(p) == At(p, "nodeQueue") /\ Queue(p)

Ignored(p) ==
  /\ At(p, "save") \/ At(p, "nodeRead")
  /\ ~Newer(task[p].msg, task[p].seen)
  /\ Ok(p, {})
  /\ UNCHANGED <<client, open, stores, received>>

BadSignature(p) ==
  /\ At(p, "save") /\ Newer(task[p].msg, task[p].seen) /\ ~task[p].msg.good
  /\ Err(p)
  /\ UNCHANGED <<client, open, stores, received>>

SavesUnsigned(p) ==
  /\ At(p, "save") /\ Newer(task[p].msg, task[p].seen)
  /\ store' = [store EXCEPT ![task[p].msg.key] = task[p].msg]
  /\ Ok(p, {task[p].msg})
  /\ UNCHANGED <<client, open, ann, pending, received>>

Saves(p) ==
  /\ At(p, "save") /\ Newer(task[p].msg, task[p].seen) /\ task[p].msg.good
  /\ store' = [store EXCEPT ![task[p].msg.key] = task[p].msg]
  /\ Ok(p, {task[p].msg})
  /\ UNCHANGED <<client, open, ann, pending, received>>

-----------------------------------------------------------------------------
(***************************************************************************)
(* The chain: the channel is closed; the chain monitor, if there is one,   *)
(* then has it removed.  deleteChannelAnnouncement deletes the update of   *)
(* direction 0 twice and leaves that of direction 1.                       *)
(***************************************************************************)
Spend(c) ==
  /\ open[c]
  /\ open' = [open EXCEPT ![c] = FALSE]
  /\ UNCHANGED <<client, stores, task, handed, received>>

RemoveChannel(c) ==
  /\ ~open[c] /\ ann[c] # "none"
  /\ ann' = [ann EXCEPT ![c] = "none"]
  /\ store' = [store EXCEPT ![<<c, 0>>] = NoMsg]
  /\ UNCHANGED <<client, open, pending, task, handed, received>>

Validate(p) ==
  \/ AnnFinds(p) \/ AnnIgnored(p) \/ AnnBadSignature(p) \/ AnnChecked(p)
  \/ AnnNotOnChain(p) \/ AnnClientThrows(p) \/ AnnSaves(p)
  \/ RelatedLooks(p) \/ RelatedTakes(p) \/ RelatedDone(p)
  \/ UpdFinds(p) \/ UpdQueues(p) \/ UpdReads(p)
  \/ NodeReads(p) \/ NodeFinds(p) \/ NodeQueues(p)
  \/ Ignored(p) \/ BadSignature(p) \/ Saves(p)

Next ==
  \/ \E p \in Peers : Validate(p) \/ \E m \in Messages : Receive(p, m)
  \/ \E c \in Channels : Spend(c) \/ RemoveChannel(c)

Spec == Init /\ [][Next]_vars

-----------------------------------------------------------------------------
Task == [pc : {"idle", "ann", "annFound", "annSave", "related", "upd",
               "updFound", "node", "nodeRead", "nodeQueue", "save"},
         msg : Messages \cup {NoMsg}, chan : {"none", "plain", "ext"},
         seen : Messages \cup {NoMsg}, parent : Messages \cup {NoMsg},
         looked : 0 .. 4, todo : Seq(Messages), results : SUBSET Messages]

\* The types; a validation works on a message of the kind its place in the
\* code handles, and what the stores hold under a key is about that key.
TypeOK ==
  /\ client \in BOOLEAN
  /\ open \in [Channels -> BOOLEAN]
  /\ ann \in [Channels -> {"none", "plain", "ext"}]
  /\ store \in [Keys -> Messages \cup {NoMsg}]
  /\ pending \in [Keys -> Messages \cup {NoMsg}]
  /\ task \in [Peers -> Task]
  /\ handed \in [Peers -> SUBSET Messages]
  /\ received \in 0 .. MaxReceived
  /\ \A k \in Keys, f \in {store, pending} : f[k] # NoMsg => f[k].key = k

\* Whatever the order of updates, announcements and closings, no update or
\* node announcement reaches the gossip store on any path, the queue of the
\* pending store included, unless its signature verifies.
OnlySigned == \A k \in Keys : store[k] # NoMsg => store[k].good

\* p is about to save a message for k whose timestamp it compared with a
\* message that another validation, or the chain monitor, has replaced
Overtaken(p, k) == /\ At(p, "save") /\ task[p].msg.key = k
                   /\ task[p].seen # store[k]

\* The store never goes back: a stored update or node announcement is only
\* replaced by a newer one, except by a validation that was overtaken
\* between the find and the save (no lock spans the two).
NeverOlder ==
  [][\A k \in Keys :
        store[k] # NoMsg /\ store'[k] \notin {NoMsg, store[k]}
          => \/ store'[k].ts > store[k].ts
             \/ \E p \in Peers : Overtaken(p, k)]_vars

\* the validation of p will still come to the pending message for k
WillLook(p, k) ==
  /\ task[p].parent # NoMsg
  /\ \/ \E i \in 1 .. 4 : /\ i > task[p].looked
                          /\ RelatedKeys(task[p].parent.key)[i] = k
     \/ \E i \in 1 .. Len(task[p].todo) : task[p].todo[i].key = k

Announced(k) == IF k \in Nodes THEN HasChannel(k) ELSE ann[k[1]] # "none"

\* a message that waits for an announcement that has come and gone
Stranded(k) == /\ pending[k] # NoMsg /\ Announced(k)
               /\ \A p \in Peers : ~WillLook(p, k)

\* p queues a message: what it read before may be out of date by now
QueuesLate(p, k) ==
  /\ At(p, "updFound") \/ At(p, "nodeQueue")
  /\ task[p].msg.key = k /\ pending'[k] = task[p].msg

\* A queued message is not forgotten when its channel is announced: it is
\* left behind only if it is queued by a validation that had looked for the
\* channel before it was announced, or if an earlier related message of the
\* same announcement has a bad signature (the rest is then abandoned).
NothingStranded ==
  [][\A k \in Keys :
        Stranded(k)' /\ ~Stranded(k)
          => \/ \E p \in Peers : QueuesLate(p, k)
             \/ \E p \in Peers : WillLook(p, k) /\ ~task[p].msg.good]_vars

\* c is spent and removed, and no validation got past its checks before
Closed(c) ==
  /\ client /\ ~open[c] /\ ann[c] = "none"
  /\ \A p \in Peers : /\ ~(At(p, "annSave") /\ task[p].msg.key = c)
                      /\ ~(At(p, "save") /\ task[p].msg.kind = "upd"
                                         /\ task[p].msg.key[1] = c)
                      /\ ~(At(p, "updFound") /\ task[p].msg.key[1] = c
                                             /\ task[p].chan # "none")

\* A closed channel stays out: once it is spent and removed and the
\* validations that had checked it before have ended, neither its
\* announcement nor an update for it enters the gossip store again.
ClosedStaysOut ==
  [][\A c \in Channels :
        Closed(c) => /\ Closed(c)'
                     /\ \A d \in {0, 1} : store'[<<c, d>>] = store[<<c, d>>]
    ]_vars

=============================================================================
