----------------------------- MODULE GossipSync -----------------------------
(***************************************************************************)
(* GossipManager and the objects it makes for every peer that becomes      *)
(* ready: a GossipPeer, which reads the messages of the Peer one at a time *)
(* and pushes them on, its GossipQueriesReceiver, and, for the peer the    *)
(* synchronisation runs with, a GossipQueriesSync with its                 *)
(* ChannelRangeQuery, ChannelsQuery and GossipSyncWatcher.                 *)
(*                                                                         *)
(* A Peer that reconnects emits 'ready' again, and 'close' only when it is *)
(* disconnected for good: a GossipPeer is therefore named by its Peer and  *)
(* the number of the connection it was made for.  What a message was       *)
(* checked for by the filter is in GossipFilter, what the relay does with  *)
(* it in GossipRelay.                                                      *)
(***************************************************************************)
EXTENDS Naturals, Sequences

CONSTANTS
  Peers,         \* the Peer objects
  Negotiated,    \* which of them may negotiate gossip_queries, sets of Peers
  Scids,         \* the short channel ids the other side knows, a sequence
  ChunkSize,     \* how many of them one query asks for
  HighWaterMark, \* of the stream a GossipPeer is
  MaxReady       \* bound: Peer -> how often it becomes ready

\* A side that knows no channel answers with an empty range, which is among the
\* replies below.
ASSUME ScidsAssumption == Scids \in Seq({Scids[i] : i \in DOMAIN Scids}) /\ Scids # <<>>
ASSUME NegotiatedAssumption == Negotiated \subseteq SUBSET Peers
ASSUME BoundsAssumption == MaxReady \in [Peers -> Nat]
ASSUME SizesAssumption == ChunkSize \in Nat \ {0} /\ HighWaterMark \in Nat \ {0}

VARIABLES
  queriers, \* the Peers that negotiate gossip_queries
  conn,     \* Peer -> "down", "ready" or "closed" for good
  count,    \* Peer -> how often it became ready
  added,    \* the Peers given to addPeer
  wire,     \* Peer -> the messages on their way here
  inbox,    \* Peer -> the messages in its stream
  enabled,  \* Peer -> whether this connection was sent an open timestamp filter
  managed,  \* GossipManager.peers
  read,     \* GossipPeer -> _readState; "Stuck" when a message threw
  idle,     \* GossipPeer -> whether _onPeerReadable stopped with messages left
  out,      \* GossipPeer -> how many messages its stream holds
  task,     \* GossipPeer -> _syncRangeTask
  sync,     \* GossipManager.syncState
  relay,    \* the state of the relay
  had,      \* history: the scids whose messages were read
  astray,   \* history: a reply was read by another GossipPeer than the one it is for
  hurt      \* history: the Peers that lost a connection or sent an unknown message

links == <<queriers, conn, count, added>>
traffic == <<wire, inbox>>
readers == <<read, idle, out>>
manager == <<managed, sync, relay, enabled>>
history == <<had, astray, hurt>>
vars == <<links, traffic, readers, manager, task, history>>

Of(p) == {p} \X (1..MaxReady[p])
GossipPeers == UNION {Of(p) : p \in Peers}

------------------------------------------------------------------------------
(* Messages and tasks.                                                       *)
Message(kind, scids, full, last, at) ==
  [kind |-> kind, scids |-> scids, full |-> full, last |-> last, at |-> at]
RangeReply(scids, full, last, at) == Message("range", scids, full, last, at)
Announcement(s, at) == Message("gossip", <<s>>, TRUE, TRUE, at)
End(complete, at) == Message("end", <<>>, complete, TRUE, at)
Unknown(at) == Message("unknown", <<>>, TRUE, TRUE, at)

\* What the other side sends when it is asked for the range: two replies by
\* blocks, two in the way LND used to mark them, or that it has nothing; it
\* may send something of its own first.
RangeReplies(at) ==
  LET first == SubSeq(Scids, 1, 1)
      rest  == SubSeq(Scids, 2, Len(Scids))
  IN { <<RangeReply(first, TRUE, FALSE, at), RangeReply(rest, TRUE, TRUE, at)>>,
       <<RangeReply(first, FALSE, FALSE, at), RangeReply(rest, TRUE, TRUE, at)>>,
       <<Unknown(at), RangeReply(Scids, TRUE, TRUE, at)>>,
       <<RangeReply(<<>>, FALSE, TRUE, at)>> }

\* And when it is asked for channels: all of them and the end, or the end.
ChannelReplies(scids, at) ==
  { [i \in 1..Len(scids) |-> Announcement(scids[i], at)] \o <<End(TRUE, at)>>, <<End(FALSE, at)>> }

Send(p, messages) == wire' = [wire EXCEPT ![p] = @ \o messages]
AskForRange(p, at) == \E replies \in RangeReplies(at) : Send(p, replies)
AskForChannels(p, scids) == \E replies \in ChannelReplies(scids, count[p]) : Send(p, replies)

NoTask == [stage |-> "none", legacy |-> FALSE, results |-> <<>>, queue |-> <<>>]
NewTask == [NoTask EXCEPT !.stage = "AwaitingChannelRange"]
Awaiting == {"AwaitingChannelRange", "AwaitingChannels", "AwaitingMessages"}

Chunk(queue) == SubSeq(queue, 1, IF Len(queue) < ChunkSize THEN Len(queue) ELSE ChunkSize)
AfterChunk(queue) == SubSeq(queue, ChunkSize + 1, Len(queue))

------------------------------------------------------------------------------
Init ==
  /\ queriers \in Negotiated
  /\ conn = [p \in Peers |-> "down"]
  /\ count = [p \in Peers |-> 0]
  /\ added = {}
  /\ wire = [p \in Peers |-> <<>>]
  /\ inbox = [p \in Peers |-> <<>>]
  /\ enabled = [p \in Peers |-> FALSE]
  /\ managed = {}
  /\ read = [g \in GossipPeers |-> "none"]
  /\ idle = [g \in GossipPeers |-> FALSE]
  /\ out = [g \in GossipPeers |-> 0]
  /\ task = [g \in GossipPeers |-> NoTask]
  /\ sync = "Unsynced"
  /\ relay = "Active"
  /\ had = {}
  /\ astray = FALSE
  /\ hurt = {}

------------------------------------------------------------------------------
(* GossipManager.                                                            *)

\* A slip: only the peer of the synchronisation is enabled.
EnableAllSlip(peers, online, on) ==
  /\ relay' = "Active"
  /\ sync' = "Synced"
  /\ UNCHANGED enabled

\* _syncPeer after the await: enableGossip of every peer it manages sends a
\* message, and a Peer that is not ready throws: the catch forgets that the
\* synchronisation succeeded.  Those enabled before the throw stay enabled.
EnableAll(peers, online, on) ==
  LET senders == {g \in peers : g[1] \in queriers} IN
  /\ relay' = "Active"
  /\ \/ /\ \A g \in senders : online[g[1]] = "ready"
        /\ sync' = "Synced"
        /\ enabled' = [p \in Peers |-> on[p] \/ \E g \in senders : g[1] = p]
     \/ /\ \E g \in senders : online[g[1]] # "ready"
        /\ sync' = "Unsynced"
        /\ \E some \in SUBSET {g[1] : g \in {h \in senders : online[h[1]] = "ready"}} :
             enabled' = [p \in Peers |-> on[p] \/ p \in some]

\* _onPeerReady: a new GossipPeer, and either the synchronisation or, also
\* while one is running, the timestamp filter.  A peer without gossip_queries
\* has nothing to synchronise: syncRange returns false, which nobody looks at.
OnPeerReady(p, g, online, on) ==
  /\ managed' = managed \union {g}
  /\ read' = [read EXCEPT ![g] = "Ready"]
  /\ \/ /\ sync = "Unsynced" /\ p \in queriers
        /\ sync' = "Syncing"
        /\ relay' = "Inactive"
        /\ task' = [task EXCEPT ![g] = NewTask]
        /\ AskForRange(p, g[2])
        /\ enabled' = on
        /\ UNCHANGED astray
     \/ /\ sync = "Unsynced" /\ p \notin queriers
        /\ EnableAll(managed \union {g}, online, on)
        /\ astray' = TRUE
        /\ UNCHANGED <<wire, task>>
     \/ /\ sync # "Unsynced"
        /\ enabled' = [on EXCEPT ![p] = on[p] \/ p \in queriers]
        /\ UNCHANGED <<wire, task, sync, relay, astray>>

AddPeer(p) ==
  /\ p \notin added
  /\ added' = added \union {p}
  /\ IF conn[p] = "ready"
     THEN OnPeerReady(p, <<p, count[p]>>, conn, enabled)
     ELSE UNCHANGED <<managed, read, task, wire, enabled, sync, relay, astray>>
  /\ UNCHANGED <<queriers, conn, count, inbox, idle, out, had, hurt>>

------------------------------------------------------------------------------
(* The connection of a Peer, as far as PeerConnection lets others see it.    *)
BecomeReady(p) ==
  /\ conn[p] = "down" /\ count[p] < MaxReady[p]
  /\ conn' = [conn EXCEPT ![p] = "ready"]
  /\ count' = [count EXCEPT ![p] = @ + 1]
  /\ LET fresh == [enabled EXCEPT ![p] = FALSE] IN
     IF p \in added
     THEN OnPeerReady(p, <<p, count[p] + 1>>, conn', fresh)
     ELSE enabled' = fresh /\ UNCHANGED <<managed, read, task, wire, sync, relay, astray>>
  /\ UNCHANGED <<queriers, added, inbox, idle, out, had, hurt>>

\* What was under way is lost; what the stream of the Peer holds is not.
Cut(p, to) ==
  /\ conn' = [conn EXCEPT ![p] = to]
  /\ wire' = [wire EXCEPT ![p] = <<>>]
  /\ hurt' = hurt \union {p}
  /\ UNCHANGED <<queriers, count, added, inbox, readers, sync, relay, enabled, task, had, astray>>

Drop(p) ==
  /\ conn[p] = "ready"
  /\ Cut(p, "down")
  /\ UNCHANGED managed

\* _onPeerClose, for each GossipPeer the Peer was given.
Close(p) ==
  /\ conn[p] = "ready"
  /\ Cut(p, "closed")
  /\ managed' = managed \ Of(p)

------------------------------------------------------------------------------
(* The stream of a Peer.                                                     *)
\* The stream of the Peer emits 'readable' to every GossipPeer made for it:
\* none of them stops listening.  One that is not busy reads while there is
\* something to read, so that its loop has to be kept only where it stops.
Deliver(p) ==
  /\ conn[p] = "ready" /\ wire[p] # <<>>
  /\ inbox' = [inbox EXCEPT ![p] = Append(@, Head(wire[p]))]
  /\ wire' = [wire EXCEPT ![p] = Tail(@)]
  /\ idle' = [g \in GossipPeers |-> idle[g] /\ g[1] # p]
  /\ UNCHANGED <<links, read, out, manager, task, history>>

------------------------------------------------------------------------------
(* GossipQueriesSync.                                                        *)
\* The promise of the synchronisation is rejected: the manager is unsynced
\* again.  _syncRangeTask keeps the failed task.
Fail(g, t, stage) ==
  /\ task' = [task EXCEPT ![g] = [t EXCEPT !.stage = stage]]
  /\ sync' = "Unsynced"
  /\ relay' = "Active"
  /\ UNCHANGED wire

\* The results are asked for at once; a Peer that is not ready throws inside
\* the promise, which rejects it and leaves the ChannelsQuery Active, with
\* nobody to tell when it ends: Aborted.
QueryChannels(g, results) ==
  LET t == [task[g] EXCEPT !.stage = "AwaitingChannels", !.results = <<>>, !.queue = AfterChunk(results)] IN
  \/ /\ conn[g[1]] = "ready"
     /\ AskForChannels(g[1], Chunk(results))
     /\ task' = [task EXCEPT ![g] = t]
     /\ UNCHANGED <<sync, relay>>
  \/ /\ conn[g[1]] # "ready"
     /\ Fail(g, t, "Aborted")

IsLegacyReply(m) == ~m.full /\ m.scids # <<>>

\* A slip: the first reply is taken for all of them.
HandleRangeSlip(g, m) ==
  IF task[g].stage = "AwaitingChannelRange" THEN QueryChannels(g, m.scids) ELSE UNCHANGED <<task, sync, relay, wire>>

\* handleReplyChannelRange: complete when the last block is covered, or by
\* the flag when the other side uses it so.
HandleRange(g, m) ==
  LET legacy  == task[g].legacy \/ IsLegacyReply(m)
      results == task[g].results \o m.scids
      failed  == IF legacy THEN m.full /\ results = <<>> ELSE ~m.full
      done    == IF legacy THEN m.full ELSE m.last
  IN \/ /\ task[g].stage = "AwaitingChannelRange" /\ failed
        /\ Fail(g, task[g], "Failed")
     \/ /\ task[g].stage = "AwaitingChannelRange" /\ ~failed /\ done
        /\ QueryChannels(g, results)
     \/ /\ task[g].stage = "AwaitingChannelRange" /\ ~failed /\ ~done
        /\ task' = [task EXCEPT ![g].legacy = legacy, ![g].results = results]
        /\ UNCHANGED <<sync, relay, wire>>
     \/ /\ task[g].stage # "AwaitingChannelRange"
        /\ UNCHANGED <<task, sync, relay, wire>>

\* The end of a chunk throws when the next one cannot be sent, and when the
\* query has nobody to tell that it ended.
Asks(g, m) == m.full /\ task[g].queue # <<>>
Throws(g, m) ==
  /\ m.kind = "end"
  /\ IF Asks(g, m) THEN conn[g[1]] # "ready" ELSE task[g].stage = "Aborted"

\* A slip: a refusal ends nothing.
HandleEndSlip(g, m) ==
  IF m.full /\ task[g].stage = "AwaitingChannels"
  THEN task' = [task EXCEPT ![g].stage = "AwaitingMessages"] /\ UNCHANGED <<sync, relay, wire>>
  ELSE UNCHANGED <<task, sync, relay, wire>>

\* handleReplyShortChannelIdsEnd: the next chunk, or only gossip to wait for.
\* It asks for the next chunk whatever its state is.
HandleEnd(g, m) ==
  LET t == task[g] IN
  \/ /\ Asks(g, m)
     /\ IF Throws(g, m) THEN UNCHANGED wire ELSE AskForChannels(g[1], Chunk(t.queue))
     /\ task' = [task EXCEPT ![g].queue = AfterChunk(@)]
     /\ UNCHANGED <<sync, relay>>
  \/ /\ ~m.full /\ t.stage = "AwaitingChannels"
     /\ Fail(g, t, "Failed")
  \/ /\ m.full /\ t.queue = <<>> /\ t.stage = "AwaitingChannels"
     /\ task' = [task EXCEPT ![g].stage = "AwaitingMessages"]
     /\ UNCHANGED <<sync, relay, wire>>
  \/ /\ ~Asks(g, m) /\ t.stage = "Aborted"
     /\ task' = [task EXCEPT ![g].stage = "Failed"]
     /\ UNCHANGED <<sync, relay, wire>>
  \/ /\ ~Asks(g, m) /\ t.stage \notin {"AwaitingChannels", "Aborted"}
     /\ UNCHANGED <<task, sync, relay, wire>>

HandleWireMessage(g, m) ==
  \/ /\ task[g].stage # "none" /\ m.kind = "range"
     /\ HandleRange(g, m)
  \/ /\ task[g].stage # "none" /\ m.kind = "end"
     /\ HandleEnd(g, m)
  \/ /\ task[g].stage = "none"
     /\ UNCHANGED <<task, sync, relay, wire>>

------------------------------------------------------------------------------
(* GossipPeer.                                                               *)

\* One turn of the loop of _onPeerReadable.  A message of an unknown type is
\* read as undefined, like nothing at all, and ends the loop.  Gossip waits
\* for the filter; any other message is pushed in the same turn.
Push(g) ==
  LET full == out[g] + 1 >= HighWaterMark IN
  /\ out' = [out EXCEPT ![g] = @ + 1]
  /\ read' = [read EXCEPT ![g] = IF full THEN "Blocked" ELSE "Ready"]

ReadUnknown(g) ==
  /\ read[g] = "Ready" /\ ~idle[g]
  /\ inbox[g[1]] # <<>> /\ Head(inbox[g[1]]).kind = "unknown"
  /\ inbox' = [inbox EXCEPT ![g[1]] = Tail(@)]
  /\ idle' = [idle EXCEPT ![g] = TRUE]
  /\ hurt' = hurt \union {g[1]}
  /\ UNCHANGED <<links, wire, read, out, manager, task, had, astray>>

ReadGossip(g) ==
  /\ read[g] = "Ready" /\ ~idle[g]
  /\ inbox[g[1]] # <<>>
  /\ LET m == Head(inbox[g[1]]) IN
     /\ m.kind = "gossip"
     /\ had' = had \union {m.scids[1]}
  /\ read' = [read EXCEPT ![g] = "Reading"]
  /\ inbox' = [inbox EXCEPT ![g[1]] = Tail(@)]
  /\ UNCHANGED <<links, wire, idle, out, manager, task, astray, hurt>>

ReadReply(g) ==
  /\ read[g] = "Ready" /\ ~idle[g]
  /\ inbox[g[1]] # <<>>
  /\ LET m == Head(inbox[g[1]]) IN
     /\ m.kind \in {"range", "end"}
     /\ HandleWireMessage(g, m)
     /\ IF Throws(g, m) THEN read' = [read EXCEPT ![g] = "Stuck"] /\ UNCHANGED out ELSE Push(g)
     /\ astray' = (astray \/ m.at # g[2])
  /\ inbox' = [inbox EXCEPT ![g[1]] = Tail(@)]
  /\ UNCHANGED <<links, idle, managed, enabled, had, hurt>>

\* The filter has answered: the message is pushed, and when the stream is
\* full the loop ends.
Filtered(g) ==
  /\ read[g] = "Reading"
  /\ Push(g)
  /\ UNCHANGED <<links, traffic, idle, manager, task, history>>

\* A slip: _read does not look at the state.
DrainSlip(g) ==
  /\ out[g] > 0
  /\ out' = [out EXCEPT ![g] = 0]
  /\ idle' = [idle EXCEPT ![g] = FALSE]
  /\ UNCHANGED <<read, links, traffic, manager, task, history>>

\* _onPeerReadable of the manager reads until there is nothing left, which
\* calls _read: the GossipPeer reads on.
Drain(g) ==
  /\ out[g] > 0
  /\ out' = [out EXCEPT ![g] = 0]
  /\ read' = [read EXCEPT ![g] = IF @ = "Blocked" THEN "Ready" ELSE @]
  /\ idle' = [idle EXCEPT ![g] = FALSE]
  /\ UNCHANGED <<links, traffic, manager, task, history>>

\* GossipSyncWatcher: no gossip for completeAfterMs.
Timeout(g) ==
  /\ task[g].stage = "AwaitingMessages"
  /\ task' = [task EXCEPT ![g] = NoTask]
  /\ EnableAll(managed, conn, enabled)
  /\ UNCHANGED <<links, traffic, readers, managed, history>>

------------------------------------------------------------------------------
\* The manager's reader is a tick of the event loop that comes before any
\* other event.
Next ==
  \/ \E g \in GossipPeers : Drain(g)
  \/ /\ \A g \in GossipPeers : out[g] = 0
     /\ \/ \E p \in Peers : AddPeer(p) \/ BecomeReady(p) \/ Drop(p) \/ Close(p) \/ Deliver(p)
        \/ \E g \in GossipPeers : ReadUnknown(g) \/ ReadGossip(g) \/ ReadReply(g) \/ Filtered(g) \/ Timeout(g)

\* The event loop runs what is scheduled, timers fire, and an other side that
\* stays connected answers what it is asked.
Fairness ==
  /\ \A p \in Peers : WF_vars(Deliver(p))
  /\ \A g \in GossipPeers : WF_vars(ReadUnknown(g) \/ ReadGossip(g) \/ ReadReply(g) \/ Filtered(g))
                              /\ WF_vars(Drain(g)) /\ WF_vars(Timeout(g))

Spec == Init /\ [][Next]_vars /\ Fairness

------------------------------------------------------------------------------
(* Properties.                                                               *)
ScidSet == {Scids[i] : i \in 1..Len(Scids)}

TypeOK ==
  /\ conn \in [Peers -> {"down", "ready", "closed"}]
  /\ count \in [Peers -> Nat] /\ \A p \in Peers : count[p] <= MaxReady[p]
  /\ added \subseteq Peers
  /\ enabled \in [Peers -> BOOLEAN]
  /\ managed \subseteq GossipPeers
  /\ read \in [GossipPeers -> {"none", "Ready", "Reading", "Blocked", "Stuck"}]
  /\ idle \in [GossipPeers -> BOOLEAN]
  /\ sync \in {"Unsynced", "Syncing", "Synced"}
  /\ relay \in {"Active", "Inactive"}
  /\ hurt \subseteq Peers

\* When the manager is synced, every peer that is connected and can be asked
\* sends gossip: those that came before, during and after the synchronisation.
AllEnabled ==
  sync = "Synced" => \A p \in added \intersect queriers : conn[p] = "ready" => enabled[p]

\* The manager is synced only after everything the other side announced was
\* asked for and read, unless the first peer cannot be queried or one of its
\* replies went to the GossipPeer of another connection.
SyncedHasAll ==
  sync = "Synced" /\ ~astray => ScidSet \subseteq had

\* A synchronisation ends, in success or failure, and the relay runs again;
\* only with a peer that lost the connection, or sent a message of a type that
\* is not known, it can stay Syncing for ever.
SyncEnds ==
  \A g \in GossipPeers :
    task[g].stage \in Awaiting ~> (sync # "Syncing" /\ relay = "Active") \/ g[1] \in hurt

\* A message in the stream of a Peer is read, unless a message before it could
\* not be handled.
InboxRead ==
  \A p \in Peers :
    (inbox[p] # <<>> /\ \E g \in Of(p) : read[g] # "none")
      ~> (inbox[p] = <<>> \/ \E g \in Of(p) : idle[g] \/ read[g] = "Stuck")
=============================================================================
