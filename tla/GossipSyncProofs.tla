-------------------------- MODULE GossipSyncProofs --------------------------
(***************************************************************************)
(* Theorems about GossipSync, for every set of Peers, however often each   *)
(* of them reconnects, whatever the other sides answer.                    *)
(***************************************************************************)
EXTENDS GossipSync, SequenceTheorems, TLAPS

\* A connected Peer the manager was given has a GossipPeer among those it
\* manages: what enables "all peers" does not pass it over.
AllManaged ==
  \A p \in added : conn[p] = "ready" => \E g \in managed : g[1] = p

\* A connected Peer has been counted, so that its GossipPeer has a name.
Counted == \A p \in Peers : conn[p] = "ready" => count[p] # 0

IInv == TypeOK /\ Counted /\ AllManaged /\ AllEnabled

PeerVars == <<conn, count, added, managed, enabled, sync, queriers>>

-----------------------------------------------------------------------------
(* What enabling the gossip of all the peers leaves behind. *)
LEMMA EnableAllEffect ==
    ASSUME NEW peers, NEW online, NEW on \in [Peers -> BOOLEAN], EnableAll(peers, online, on)
    PROVE  /\ enabled' \in [Peers -> BOOLEAN]
           /\ sync' \in {"Unsynced", "Syncing", "Synced"}
           /\ relay' \in {"Active", "Inactive"}
           /\ sync' = "Synced" => \A p \in Peers : (\E g \in peers : g[1] = p /\ p \in queriers) => enabled'[p]
<1> DEFINE senders == {g \in peers : g[1] \in queriers}
<1>1. CASE sync' = "Synced" /\ enabled' = [p \in Peers |-> on[p] \/ \E g \in senders : g[1] = p]
    <2>1. enabled' \in [Peers -> BOOLEAN]
        BY <1>1
    <2>2. ASSUME NEW p \in Peers, NEW g \in peers, g[1] = p, p \in queriers
          PROVE  enabled'[p]
        <3>1. g \in senders
            BY <2>2
        <3>2. enabled'[p] = (on[p] \/ \E h \in senders : h[1] = p)
            BY <1>1
        <3> HIDE DEF senders
        <3> QED BY <2>2, <3>1, <3>2, Zenon
    <2> QED BY <1>1, <2>1, <2>2 DEF EnableAll
<1>2. CASE sync' = "Unsynced" /\ \E some : enabled' = [p \in Peers |-> on[p] \/ p \in some]
    <2>1. enabled' \in [Peers -> BOOLEAN]
        BY <1>2
    <2> QED BY <1>2, <2>1 DEF EnableAll
<1> QED BY <1>1, <1>2, Zenon DEF EnableAll

(* A GossipPeer more, and the manager synchronises with it, is synced at    *)
(* once because it cannot be queried, or enables it.                        *)
LEMMA OnPeerReadyEffect ==
    ASSUME TypeOK, NEW p \in Peers, NEW g \in GossipPeers, g[1] = p, NEW online,
           NEW on \in [Peers -> BOOLEAN], OnPeerReady(p, g, online, on)
    PROVE  /\ managed' = managed \union {g}
           /\ managed' \subseteq GossipPeers
           /\ read' \in [GossipPeers -> {"none", "Ready", "Reading", "Blocked", "Stuck"}]
           /\ enabled' \in [Peers -> BOOLEAN]
           /\ sync' \in {"Unsynced", "Syncing", "Synced"}
           /\ relay' \in {"Active", "Inactive"}
           /\ sync' = "Synced" =>
                \/ \A q \in Peers : (\E h \in managed' : h[1] = q /\ q \in queriers) => enabled'[q]
                \/ /\ sync = "Synced"
                   /\ p \in queriers => enabled'[p]
                   /\ \A q \in Peers : on[q] => enabled'[q]
<1>1. managed' = managed \union {g} /\ managed' \subseteq GossipPeers
    BY DEF OnPeerReady, TypeOK
<1>2. read' \in [GossipPeers -> {"none", "Ready", "Reading", "Blocked", "Stuck"}]
    BY DEF OnPeerReady, TypeOK
<1>3. CASE sync' = "Syncing" /\ relay' = "Inactive" /\ enabled' = on
    BY <1>1, <1>2, <1>3
<1>4. CASE EnableAll(managed \union {g}, online, on)
    BY <1>1, <1>2, <1>4, EnableAllEffect
<1>5. CASE /\ enabled' = [on EXCEPT ![p] = on[p] \/ p \in queriers]
           /\ UNCHANGED <<sync, relay>>
    <2>1. enabled' \in [Peers -> BOOLEAN] /\ \A q \in Peers : on[q] => enabled'[q]
        BY <1>5
    <2>2. p \in queriers => enabled'[p]
        BY <1>5, Zenon
    <2>3. sync' \in {"Unsynced", "Syncing", "Synced"} /\ relay' \in {"Active", "Inactive"} /\ sync' = sync
        BY <1>5 DEF TypeOK
    <2> QED BY <1>1, <1>2, <2>1, <2>2, <2>3
<1> QED BY <1>3, <1>4, <1>5, Zenon DEF OnPeerReady

-----------------------------------------------------------------------------
(* The actions. *)
LEMMA AddPeerStep ==
    ASSUME IInv, NEW p \in Peers, AddPeer(p) PROVE IInv'
<1>1. /\ added' = added \union {p} /\ conn' = conn /\ count' = count /\ queriers' = queriers
      /\ idle' = idle /\ hurt' = hurt
    BY DEF AddPeer
<1>2. CASE conn[p] # "ready"
    <2>1. UNCHANGED <<managed, read, enabled, sync, relay>>
        BY <1>2 DEF AddPeer
    <2> QED BY <1>1, <1>2, <2>1 DEF IInv, TypeOK, Counted, AllManaged, AllEnabled
<1>3. CASE conn[p] = "ready"
    <2> DEFINE g == <<p, count[p]>>
    <2>1. g \in GossipPeers /\ g[1] = p
        <3>1. count[p] \in 1..MaxReady[p]
            BY <1>3, BoundsAssumption DEF IInv, TypeOK, Counted
        <3> QED BY <3>1 DEF GossipPeers, Of
    <2>2. OnPeerReady(p, g, conn, enabled)
        BY <1>3 DEF AddPeer
    <2> HIDE DEF g
    <2>3. TypeOK'
        BY <1>1, <2>1, <2>2, OnPeerReadyEffect DEF IInv, TypeOK
    <2>4. Counted'
        BY <1>1 DEF IInv, Counted
    <2>5. AllManaged'
        <3>1. managed' = managed \union {g}
            BY <2>2 DEF OnPeerReady
        <3> QED BY <1>1, <2>1, <3>1 DEF IInv, AllManaged
    <2>6. AllEnabled'
        <3> SUFFICES ASSUME sync' = "Synced", NEW q \in added' \intersect queriers, conn[q] = "ready"
                     PROVE  enabled'[q]
            BY <1>1 DEF AllEnabled
        <3>1. q \in Peers /\ enabled \in [Peers -> BOOLEAN]
            BY <1>1 DEF IInv, TypeOK
        <3>2. \E h \in managed' : h[1] = q
            BY <2>5, <1>1 DEF AllManaged
        <3>3. CASE q # p
            <4>1. sync = "Synced" => enabled[q]
                BY <1>1, <3>3 DEF IInv, AllEnabled
            <4> QED BY <2>1, <2>2, <3>1, <3>2, <4>1, OnPeerReadyEffect DEF IInv
        <3>4. CASE q = p
            BY <2>1, <2>2, <3>1, <3>2, <3>4, OnPeerReadyEffect DEF IInv
        <3> QED BY <3>3, <3>4
    <2> QED BY <2>3, <2>4, <2>5, <2>6 DEF IInv
<1> QED BY <1>2, <1>3

LEMMA BecomeReadyStep ==
    ASSUME IInv, NEW p \in Peers, BecomeReady(p) PROVE IInv'
<1> DEFINE fresh == [enabled EXCEPT ![p] = FALSE]
           g == <<p, count[p] + 1>>
<1>1. /\ conn' = [conn EXCEPT ![p] = "ready"] /\ count' = [count EXCEPT ![p] = @ + 1]
      /\ added' = added /\ queriers' = queriers /\ idle' = idle /\ hurt' = hurt
    BY DEF BecomeReady
<1>2. fresh \in [Peers -> BOOLEAN] /\ \A q \in Peers : q # p => fresh[q] = enabled[q]
    BY DEF IInv, TypeOK
<1>3. g \in GossipPeers /\ g[1] = p /\ count' \in [Peers -> Nat] /\ \A q \in Peers : count'[q] <= MaxReady[q]
    <2>1. count[p] + 1 \in 1..MaxReady[p]
        <3>1. count[p] \in Nat /\ MaxReady[p] \in Nat
            BY BoundsAssumption DEF IInv, TypeOK
        <3>2. count[p] < MaxReady[p]
            BY DEF BecomeReady
        <3> QED BY <3>1, <3>2
    <2>2. count' \in [Peers -> Nat] /\ \A q \in Peers : count'[q] <= MaxReady[q]
        BY <1>1, <2>1, BoundsAssumption DEF IInv, TypeOK
    <2> QED BY <2>1, <2>2 DEF GossipPeers, Of
<1>4. Counted'
    BY <1>1, BoundsAssumption DEF IInv, TypeOK, Counted
<1>5. conn' \in [Peers -> {"down", "ready", "closed"}]
    BY <1>1 DEF IInv, TypeOK
<1>6. CASE p \notin added
    <2>1. enabled' = fresh /\ UNCHANGED <<managed, read, sync, relay>>
        BY <1>6 DEF BecomeReady
    <2>2. TypeOK'
        BY <1>1, <1>2, <1>3, <1>5, <2>1 DEF IInv, TypeOK
    <2>3. AllManaged'
        BY <1>1, <1>6, <2>1 DEF IInv, TypeOK, AllManaged
    <2>4. AllEnabled'
        BY <1>1, <1>2, <1>6, <2>1 DEF IInv, TypeOK, AllEnabled
    <2> QED BY <1>4, <2>2, <2>3, <2>4 DEF IInv
<1>7. CASE p \in added
    <2>1. OnPeerReady(p, g, conn', fresh)
        BY <1>7 DEF BecomeReady
    <2> HIDE DEF g, fresh
    <2>2. TypeOK'
        BY <1>1, <1>2, <1>3, <1>5, <2>1, OnPeerReadyEffect DEF IInv, TypeOK
    <2>3. AllManaged'
        BY <1>1, <1>2, <1>3, <2>1, OnPeerReadyEffect DEF IInv, TypeOK, AllManaged
    <2>4. AllEnabled'
        <3> SUFFICES ASSUME sync' = "Synced", NEW q \in added \intersect queriers, conn'[q] = "ready"
                     PROVE  enabled'[q]
            BY <1>1 DEF AllEnabled
        <3>1. q \in Peers
            BY DEF IInv, TypeOK
        <3>2. \E h \in managed' : h[1] = q
            BY <1>1, <2>3 DEF AllManaged
        <3>3. CASE q # p
            <4>1. conn[q] = "ready"
                BY <1>1, <3>1, <3>3 DEF IInv, TypeOK
            <4>2. sync = "Synced" => fresh[q]
                BY <1>2, <3>1, <3>3, <4>1 DEF IInv, AllEnabled
            <4> QED BY <1>2, <1>3, <2>1, <3>1, <3>2, <4>2, OnPeerReadyEffect DEF IInv
        <3>4. CASE q = p
            BY <1>2, <1>3, <2>1, <3>1, <3>2, <3>4, OnPeerReadyEffect DEF IInv
        <3> QED BY <3>3, <3>4
    <2> QED BY <1>4, <2>2, <2>3, <2>4 DEF IInv
<1> QED BY <1>6, <1>7

LEMMA DropStep ==
    ASSUME IInv, NEW p \in Peers, Drop(p) PROVE IInv'
BY DEF IInv, TypeOK, Counted, AllManaged, AllEnabled, Drop, Cut, readers

LEMMA CloseStep ==
    ASSUME IInv, NEW p \in Peers, Close(p) PROVE IInv'
<1>1. /\ conn' = [conn EXCEPT ![p] = "closed"] /\ managed' = managed \ Of(p)
      /\ hurt' = hurt \union {p}
      /\ UNCHANGED <<queriers, count, added, read, idle, sync, relay, enabled, astray>>
    BY DEF Close, Cut, readers
<1>2. TypeOK' /\ Counted' /\ AllEnabled'
    BY <1>1 DEF IInv, TypeOK, Counted, AllEnabled
<1>3. AllManaged'
    <2> SUFFICES ASSUME NEW q \in added, conn'[q] = "ready"
                 PROVE  \E g \in managed' : g[1] = q
        BY <1>1 DEF AllManaged
    <2>1. q # p /\ conn[q] = "ready"
        BY <1>1 DEF IInv, TypeOK
    <2>2. PICK g \in managed : g[1] = q
        BY <2>1 DEF IInv, AllManaged
    <2>3. g \notin Of(p)
        BY <2>1, <2>2 DEF Of
    <2> QED BY <1>1, <2>2, <2>3
<1> QED BY <1>2, <1>3 DEF IInv

(* The steps that leave the peers of the manager as they are. *)
LEMMA ElsewhereStep ==
    ASSUME IInv, UNCHANGED PeerVars, relay' \in {"Active", "Inactive"}, hurt' \subseteq Peers,
           read' \in [GossipPeers -> {"none", "Ready", "Reading", "Blocked", "Stuck"}],
           idle' \in [GossipPeers -> BOOLEAN]
    PROVE  IInv'
BY DEF IInv, TypeOK, Counted, AllManaged, AllEnabled, PeerVars

LEMMA ReaderStep ==
    ASSUME IInv, NEW g \in GossipPeers,
           ReadUnknown(g) \/ ReadGossip(g) \/ Filtered(g) \/ Drain(g)
    PROVE  IInv'
<1>1. UNCHANGED <<conn, count, added, managed, enabled, sync, relay, queriers>>
    BY DEF ReadUnknown, ReadGossip, Filtered, Drain, links, manager
<1>2. read' \in [GossipPeers -> {"none", "Ready", "Reading", "Blocked", "Stuck"}]
    BY DEF ReadUnknown, ReadGossip, Filtered, Drain, Push, IInv, TypeOK
<1>3. idle' \in [GossipPeers -> BOOLEAN]
    <2>1. UNCHANGED idle \/ \E b \in BOOLEAN : idle' = [idle EXCEPT ![g] = b]
        BY Zenon DEF ReadUnknown, ReadGossip, Filtered, Drain
    <2> QED BY <2>1 DEF IInv, TypeOK
<1>4. hurt' \subseteq Peers
    <2>1. g[1] \in Peers
        BY DEF GossipPeers, Of
    <2> QED BY <2>1 DEF ReadUnknown, ReadGossip, Filtered, Drain, history, IInv, TypeOK
<1> QED BY <1>1, <1>2, <1>3, <1>4, ElsewhereStep DEF PeerVars, IInv, TypeOK

(* A reply may end the synchronisation in failure, never in success. *)
LEMMA ReplyStep ==
    ASSUME IInv, NEW g \in GossipPeers, ReadReply(g) PROVE IInv'
<1>1. UNCHANGED <<conn, count, added, managed, enabled, queriers, idle, hurt>>
    BY DEF ReadReply, links
<1>2. read' \in [GossipPeers -> {"none", "Ready", "Reading", "Blocked", "Stuck"}]
    BY DEF ReadReply, Push, IInv, TypeOK
<1>3. (sync' = "Unsynced" /\ relay' = "Active") \/ UNCHANGED <<sync, relay>>
    <2>1. PICK m : HandleWireMessage(g, m)
        BY DEF ReadReply
    <2>2. ASSUME NEW results, QueryChannels(g, results)
          PROVE  (sync' = "Unsynced" /\ relay' = "Active") \/ UNCHANGED <<sync, relay>>
        BY <2>2, Zenon DEF QueryChannels, Fail
    <2>4. CASE HandleRange(g, m)
        BY <2>2, <2>4, Zenon DEF HandleRange, Fail
    <2>3. CASE HandleEnd(g, m)
        BY <2>3, Zenon DEF HandleEnd, Fail
    <2> QED BY <2>1, <2>3, <2>4, Zenon DEF HandleWireMessage
<1> QED BY <1>1, <1>2, <1>3 DEF IInv, TypeOK, Counted, AllManaged, AllEnabled

LEMMA TimeoutStep ==
    ASSUME IInv, NEW g \in GossipPeers, Timeout(g) PROVE IInv'
<1>1. UNCHANGED <<conn, count, added, managed, queriers, read, idle, hurt>>
    BY DEF Timeout, links, readers, history
<1>2. EnableAll(managed, conn, enabled) /\ enabled \in [Peers -> BOOLEAN]
    BY DEF Timeout, IInv, TypeOK
<1>3. TypeOK'
    BY <1>1, <1>2, EnableAllEffect DEF IInv, TypeOK
<1>4. Counted' /\ AllManaged'
    BY <1>1 DEF IInv, Counted, AllManaged
<1>5. AllEnabled'
    <2> SUFFICES ASSUME sync' = "Synced", NEW q \in added \intersect queriers, conn[q] = "ready"
                 PROVE  enabled'[q]
        BY <1>1 DEF AllEnabled
    <2>1. q \in Peers /\ \E h \in managed : h[1] = q
        BY DEF IInv, TypeOK, AllManaged
    <2> QED BY <1>2, <2>1, EnableAllEffect
<1> QED BY <1>3, <1>4, <1>5 DEF IInv

LEMMA DeliverStep ==
    ASSUME IInv, NEW p \in Peers, Deliver(p) PROVE IInv'
<1>1. UNCHANGED <<conn, count, added, managed, enabled, sync, relay, queriers, read, hurt>>
    BY DEF Deliver, links, manager, history
<1>2. idle' \in [GossipPeers -> BOOLEAN]
    BY DEF Deliver, IInv, TypeOK
<1> QED BY <1>1, <1>2, ElsewhereStep DEF PeerVars, IInv, TypeOK

LEMMA InductiveStep == IInv /\ [Next]_vars => IInv'
<1> SUFFICES ASSUME IInv, [Next]_vars PROVE IInv'
    OBVIOUS
<1>1. ASSUME NEW p \in Peers, AddPeer(p) \/ BecomeReady(p) \/ Drop(p) \/ Close(p) \/ Deliver(p)
      PROVE  IInv'
    BY <1>1, AddPeerStep, BecomeReadyStep, DropStep, CloseStep, DeliverStep
<1>2. ASSUME NEW g \in GossipPeers,
             ReadUnknown(g) \/ ReadGossip(g) \/ ReadReply(g) \/ Filtered(g) \/ Drain(g) \/ Timeout(g)
      PROVE  IInv'
    BY <1>2, ReaderStep, ReplyStep, TimeoutStep
<1>3. CASE UNCHANGED vars
    BY <1>3 DEF IInv, TypeOK, Counted, AllManaged, AllEnabled, vars, links, readers, manager, history
<1> QED BY <1>1, <1>2, <1>3, Zenon DEF Next

LEMMA InitInv == Init => IInv
BY NegotiatedAssumption, BoundsAssumption DEF Init, IInv, TypeOK, Counted, AllManaged, AllEnabled

-----------------------------------------------------------------------------
(* The values the manager and the GossipPeers can be in. *)
THEOREM TypeCorrect == Spec => []TypeOK
<1>1. IInv => TypeOK
    BY DEF IInv
<1> QED BY <1>1, InitInv, InductiveStep, PTL DEF Spec

(* GossipManager: once it is synced every connected peer that can be asked  *)
(* for gossip has been asked for it on this connection.                     *)
THEOREM EveryPeerEnabled == Spec => []AllEnabled
<1>1. IInv => AllEnabled
    BY DEF IInv
<1> QED BY <1>1, InitInv, InductiveStep, PTL DEF Spec

-----------------------------------------------------------------------------
(***************************************************************************)
(* That nothing the other side announced is missing when the manager is    *)
(* synced takes an invariant about what is still under way: the messages   *)
(* in the stream of a Peer and behind it on the wire, in their order.      *)
(***************************************************************************)
Known == {Scids[i] : i \in DOMAIN Scids}
Listed(s) == {s[i] : i \in 1..Len(s)}

Messages == [kind : {"range", "gossip", "end", "unknown"}, scids : Seq(Known),
             full : BOOLEAN, last : BOOLEAN, at : Nat]
Ended == {"Failed", "Aborted"}
Tasks == [stage : Awaiting \union Ended \union {"none"}, legacy : BOOLEAN,
          results : Seq(Known), queue : Seq(Known)]

Flow(p) == inbox[p] \o wire[p]

\* The message at i is the reply of that kind to a connection's request.
IsReply(f, i, kind, at) == f[i].kind = kind /\ f[i].at = at

\* A range reply that completes the range has, with the results of the task
\* and the range replies ahead of it, every scid; one that does not is the
\* first and not marked the way LND used to.
RangesCover(t, f, at) ==
  \A i \in 1..Len(f) : IsReply(f, i, "range", at) /\ f[i].full =>
    IF f[i].last
    THEN \A s \in Known : \/ s \in Listed(t.results)
                          \/ \E j \in 1..i : IsReply(f, j, "range", at) /\ s \in Listed(f[j].scids)
    ELSE ~t.legacy /\ \A j \in 1..(i - 1) : ~IsReply(f, j, "range", at)

\* When the end of a channel query comes, every scid was read, is announced
\* ahead of it, or is still to be asked for.
EndsCover(t, f, at, read_) ==
  \A i \in 1..Len(f) : IsReply(f, i, "end", at) /\ f[i].full =>
    \A s \in Known : \/ s \in read_ \/ s \in Listed(t.queue)
                     \/ \E j \in 1..i : f[j].kind = "gossip" /\ f[j].scids[1] = s

\* One query of channels is under way, and only while the task waits for it.
OneEnd(t, f, at) ==
  \A i, j \in 1..Len(f) :
    IsReply(f, i, "end", at) /\ IsReply(f, j, "end", at) => i = j /\ t.stage = "AwaitingChannels"

OnCourse(t, f, at, read_) ==
  /\ OneEnd(t, f, at)
  /\ t.stage = "AwaitingChannelRange" => RangesCover(t, f, at)
  /\ t.stage = "AwaitingChannels" => EndsCover(t, f, at, read_)
  /\ t.stage = "AwaitingMessages" => Known \subseteq read_

StreamsOK == inbox \in [Peers -> Seq(Messages)] /\ wire \in [Peers -> Seq(Messages)]
TasksOK == task \in [GossipPeers -> Tasks]

\* No message is for a connection that is yet to be made.
Recent ==
  \A p \in Peers :
    /\ \A i \in 1..Len(Flow(p)) : (Flow(p)[i]).at <= count[p]
    /\ p \notin added => Flow(p) = <<>>

Born == \A g \in GossipPeers : task[g].stage # "none" => g[1] \in added /\ g[2] <= count[g[1]]

\* One synchronisation at a time, and none while an earlier GossipPeer of the
\* same Peer still waits.
OneAwaits ==
  \A g \in GossipPeers : task[g].stage \in Awaiting =>
    sync = "Syncing" /\ \A h \in GossipPeers : task[h].stage \in Awaiting => h = g

EarlierDone ==
  \A g, h \in GossipPeers :
    task[g].stage # "none" /\ h[1] = g[1] /\ h[2] < g[2] => task[h].stage \notin Awaiting

Courses ==
  ~astray => \A g \in GossipPeers : task[g].stage # "none" => OnCourse(task[g], Flow(g[1]), g[2], had)

AllHad == sync = "Synced" /\ ~astray => Known \subseteq had

SyncInv == /\ IInv /\ StreamsOK /\ TasksOK /\ Recent /\ Born
           /\ OneAwaits /\ EarlierDone /\ Courses /\ AllHad

-----------------------------------------------------------------------------
(* Courses. *)

(* What is lost behind a message does not matter to it. *)
LEMMA CourseCut ==
    ASSUME NEW t, NEW f \in Seq(Messages), NEW m \in Seq(Messages), NEW at, NEW r,
           OnCourse(t, f \o m, at, r)
    PROVE  OnCourse(t, f, at, r)
<1> DEFINE F == f \o m
<1>1. Len(f) \in Nat /\ Len(F) \in Nat /\ Len(f) <= Len(F) /\ \A i \in 1..Len(f) : F[i] = f[i]
    <2>1. Len(f) \in Nat /\ Len(m) \in Nat /\ Len(F) = Len(f) + Len(m)
        BY ConcatProperties, LenProperties, Zenon
    <2>2. \A i \in 1..Len(f) : i \in 1..(Len(f) + Len(m)) /\ i <= Len(f)
        BY <2>1
    <2>3. \A i \in 1..Len(f) : F[i] = f[i]
        BY <2>2, ConcatProperties, Zenon
    <2> QED BY <2>1, <2>3
<1>2. OnCourse(t, F, at, r)
    OBVIOUS
<1> HIDE DEF F
<1>3. \A i \in 1..Len(f) : i \in 1..Len(F) /\ 1..i \subseteq 1..Len(f) /\ 1..(i - 1) \subseteq 1..Len(f)
    BY <1>1
<1>4. \A i \in 1..Len(f) : \A k, a : IsReply(f, i, k, a) <=> IsReply(F, i, k, a)
    BY <1>1 DEF IsReply
<1>5. OneEnd(t, f, at)
    BY <1>2, <1>3, <1>4, Zenon DEF OnCourse, OneEnd
<1>6. ASSUME RangesCover(t, F, at) PROVE RangesCover(t, f, at)
    <2> SUFFICES ASSUME NEW i \in 1..Len(f), IsReply(f, i, "range", at), f[i].full
                 PROVE  IF f[i].last
                        THEN \A s \in Known : \/ s \in Listed(t.results)
                                              \/ \E j \in 1..i : IsReply(f, j, "range", at) /\ s \in Listed(f[j].scids)
                        ELSE ~t.legacy /\ \A j \in 1..(i - 1) : ~IsReply(f, j, "range", at)
        BY DEF RangesCover
    <2>1. i \in 1..Len(F) /\ F[i] = f[i] /\ IsReply(F, i, "range", at)
        BY <1>1, <1>3, <1>4
    <2>2. CASE f[i].last
        <3> SUFFICES ASSUME NEW s \in Known, s \notin Listed(t.results)
                     PROVE  \E j \in 1..i : IsReply(f, j, "range", at) /\ s \in Listed(f[j].scids)
            BY <2>2
        <3>1. PICK j \in 1..i : IsReply(F, j, "range", at) /\ s \in Listed(F[j].scids)
            BY <1>6, <2>1, <2>2 DEF RangesCover
        <3> QED BY <1>1, <1>3, <1>4, <3>1
    <2>3. CASE ~f[i].last
        <3>1. ~t.legacy /\ \A j \in 1..(i - 1) : ~IsReply(F, j, "range", at)
            BY <1>6, <2>1, <2>3 DEF RangesCover
        <3> QED BY <1>3, <1>4, <2>3, <3>1
    <2> QED BY <2>2, <2>3
<1>7. ASSUME EndsCover(t, F, at, r) PROVE EndsCover(t, f, at, r)
    <2> SUFFICES ASSUME NEW i \in 1..Len(f), IsReply(f, i, "end", at), f[i].full, NEW s \in Known,
                        s \notin r, s \notin Listed(t.queue)
                 PROVE  \E j \in 1..i : f[j].kind = "gossip" /\ f[j].scids[1] = s
        BY DEF EndsCover
    <2>1. i \in 1..Len(F) /\ F[i] = f[i] /\ IsReply(F, i, "end", at)
        BY <1>1, <1>3, <1>4
    <2>2. PICK j \in 1..i : F[j].kind = "gossip" /\ F[j].scids[1] = s
        BY <1>7, <2>1 DEF EndsCover
    <2> QED BY <1>1, <1>3, <2>2
<1> QED BY <1>2, <1>5, <1>6, <1>7 DEF OnCourse

(* A message that is no reply to a connection's request does not change its *)
(* course when it is taken, once the scid it announces counts as read.      *)
LEMMA CourseAhead ==
    ASSUME NEW t, NEW f \in Seq(Messages), f # <<>>, NEW at, NEW r, NEW r1, r \subseteq r1,
           Head(f).kind = "gossip" => Head(f).scids[1] \in r1,
           Head(f).kind \in {"range", "end"} => Head(f).at # at,
           OnCourse(t, f, at, r)
    PROVE  OnCourse(t, Tail(f), at, r1)
<1> DEFINE F == Tail(f)
<1>1. /\ Len(f) \in Nat /\ Len(F) = Len(f) - 1 /\ Head(f) = f[1]
      /\ \A i \in 1..Len(F) : F[i] = f[i + 1]
    <2>1. Len(f) \in Nat
        BY LenProperties, Zenon
    <2>2. Head(f) = f[1]
        BY SMT
    <2> QED BY <2>1, <2>2, HeadTailProperties, Zenon
<1> HIDE DEF F
<1>2. \A i \in 1..Len(F) : i + 1 \in 1..Len(f) /\ i + 1 - 1 = i
    BY <1>1
<1>3. \A i \in 1..Len(F) : \A k, a : IsReply(F, i, k, a) <=> IsReply(f, i + 1, k, a)
    BY <1>1, Zenon DEF IsReply
<1>4. ~IsReply(f, 1, "range", at) /\ ~IsReply(f, 1, "end", at)
    BY <1>1 DEF IsReply
<1>5. \A i \in 1..Len(F) : \A j \in 1..(i + 1) : j = 1 \/ \E h \in 1..i : h + 1 = j
    <2> SUFFICES ASSUME NEW i \in 1..Len(F), NEW j \in 1..(i + 1), j # 1
                 PROVE  (j - 1) \in 1..i /\ (j - 1) + 1 = j
        BY Zenon
    <2> QED BY <1>1
<1>6. OneEnd(t, F, at)
    <2> SUFFICES ASSUME NEW i \in 1..Len(F), NEW j \in 1..Len(F), IsReply(F, i, "end", at), IsReply(F, j, "end", at)
                 PROVE  i = j /\ t.stage = "AwaitingChannels"
        BY DEF OneEnd
    <2>1. i + 1 = j + 1 /\ t.stage = "AwaitingChannels"
        BY <1>2, <1>3, Zenon DEF OnCourse, OneEnd
    <2> QED BY <1>1, <2>1
<1>7. ASSUME RangesCover(t, f, at) PROVE RangesCover(t, F, at)
    <2> SUFFICES ASSUME NEW i \in 1..Len(F), IsReply(F, i, "range", at), F[i].full
                 PROVE  IF F[i].last
                        THEN \A s \in Known : \/ s \in Listed(t.results)
                                              \/ \E j \in 1..i : IsReply(F, j, "range", at) /\ s \in Listed(F[j].scids)
                        ELSE ~t.legacy /\ \A j \in 1..(i - 1) : ~IsReply(F, j, "range", at)
        BY DEF RangesCover
    <2>1. i + 1 \in 1..Len(f) /\ F[i] = f[i + 1] /\ IsReply(f, i + 1, "range", at)
        BY <1>1, <1>2, <1>3, Zenon
    <2>2. CASE F[i].last
        <3> SUFFICES ASSUME NEW s \in Known, s \notin Listed(t.results)
                     PROVE  \E j \in 1..i : IsReply(F, j, "range", at) /\ s \in Listed(F[j].scids)
            BY <2>2
        <3>1. PICK j \in 1..(i + 1) : IsReply(f, j, "range", at) /\ s \in Listed(f[j].scids)
            BY <1>7, <2>1, <2>2, Zenon DEF RangesCover
        <3>2. PICK h \in 1..i : h + 1 = j
            BY <1>4, <1>5, <3>1, Zenon
        <3>3. h \in 1..Len(F)
            BY <1>1, <3>2
        <3> QED BY <1>1, <1>3, <3>1, <3>2, <3>3, Zenon
    <2>3. CASE ~F[i].last
        <3>1. ~t.legacy /\ \A j \in 1..(i + 1 - 1) : ~IsReply(f, j, "range", at)
            BY <1>7, <2>1, <2>3 DEF RangesCover
        <3>2. \A j \in 1..(i - 1) : j \in 1..Len(F) /\ j + 1 \in 1..(i + 1 - 1)
            BY <1>1
        <3> QED BY <1>3, <2>3, <3>1, <3>2, Zenon
    <2> QED BY <2>2, <2>3
<1>8. ASSUME EndsCover(t, f, at, r) PROVE EndsCover(t, F, at, r1)
    <2> SUFFICES ASSUME NEW i \in 1..Len(F), IsReply(F, i, "end", at), F[i].full, NEW s \in Known,
                        s \notin r1, s \notin Listed(t.queue)
                 PROVE  \E j \in 1..i : F[j].kind = "gossip" /\ F[j].scids[1] = s
        BY DEF EndsCover
    <2>1. i + 1 \in 1..Len(f) /\ F[i] = f[i + 1] /\ IsReply(f, i + 1, "end", at)
        BY <1>1, <1>2, <1>3, Zenon
    <2>2. PICK j \in 1..(i + 1) : f[j].kind = "gossip" /\ f[j].scids[1] = s
        BY <1>8, <2>1, Zenon DEF EndsCover
    <2>3. j # 1
        BY <1>1, <2>2
    <2>4. PICK h \in 1..i : h + 1 = j
        BY <1>5, <2>3, Zenon
    <2>5. h \in 1..Len(F)
        BY <1>1, <2>4
    <2> QED BY <1>1, <2>2, <2>4, <2>5, Zenon
<1>9. t.stage = "AwaitingMessages" => Known \subseteq r1
    BY DEF OnCourse
<1> QED BY <1>6, <1>7, <1>8, <1>9 DEF OnCourse, F

(* The entries of two sequences, one behind the other. *)
Joins(f, m, F) ==
  /\ Len(f) \in Nat /\ Len(m) \in Nat /\ Len(F) = Len(f) + Len(m)
  /\ \A i \in 1..Len(f) : i \in 1..Len(F) /\ F[i] = f[i]
  /\ \A i \in 1..Len(m) : Len(f) + i \in 1..Len(F) /\ F[Len(f) + i] = m[i]
  /\ \A i \in 1..Len(F) : i \in 1..Len(f) \/ \E j \in 1..Len(m) : i = Len(f) + j

LEMMA Behind ==
    ASSUME NEW S, NEW f \in Seq(S), NEW m \in Seq(S)
    PROVE  f \o m \in Seq(S) /\ Joins(f, m, f \o m)
<1> DEFINE F == f \o m
<1>1. F \in Seq(S) /\ Len(f) \in Nat /\ Len(m) \in Nat /\ Len(F) = Len(f) + Len(m)
    BY ConcatProperties, LenProperties, Zenon
<1>2. \A i \in 1..(Len(f) + Len(m)) : F[i] = IF i <= Len(f) THEN f[i] ELSE m[i - Len(f)]
    BY ConcatProperties, Zenon
<1> HIDE DEF F
<1>3. \A i \in 1..Len(f) : i \in 1..Len(F) /\ F[i] = f[i]
    <2> SUFFICES ASSUME NEW i \in 1..Len(f) PROVE i \in 1..Len(F) /\ F[i] = f[i]
        OBVIOUS
    <2>1. i \in 1..(Len(f) + Len(m)) /\ i <= Len(f)
        BY <1>1
    <2> QED BY <1>1, <1>2, <2>1, Zenon
<1>4. \A i \in 1..Len(m) : Len(f) + i \in 1..Len(F) /\ F[Len(f) + i] = m[i]
    <2> SUFFICES ASSUME NEW i \in 1..Len(m) PROVE Len(f) + i \in 1..Len(F) /\ F[Len(f) + i] = m[i]
        OBVIOUS
    <2>1. Len(f) + i \in 1..(Len(f) + Len(m)) /\ ~(Len(f) + i <= Len(f)) /\ Len(f) + i - Len(f) = i
        BY <1>1
    <2> QED BY <1>1, <1>2, <2>1
<1>5. ASSUME NEW i \in 1..Len(F) PROVE i \in 1..Len(f) \/ \E j \in 1..Len(m) : i = Len(f) + j
    <2> SUFFICES ASSUME i \notin 1..Len(f) PROVE i - Len(f) \in 1..Len(m) /\ i = Len(f) + (i - Len(f))
        BY Zenon
    <2> QED BY <1>1
<1>6. Joins(f, m, F)
    BY <1>1, <1>3, <1>4, <1>5, Zenon DEF Joins
<1> QED BY <1>1, <1>6 DEF F

(* Replies to another connection behind it do not change a course. *)
LEMMA CourseLonger ==
    ASSUME NEW t, NEW f \in Seq(Messages), NEW m \in Seq(Messages), NEW at, NEW r,
           \A i \in 1..Len(m) : ~IsReply(m, i, "range", at) /\ ~IsReply(m, i, "end", at),
           OnCourse(t, f, at, r)
    PROVE  OnCourse(t, f \o m, at, r)
<1> DEFINE F == f \o m
<1>1. /\ Len(f) \in Nat /\ Len(m) \in Nat
      /\ \A i \in 1..Len(f) : i \in 1..Len(F) /\ F[i] = f[i]
      /\ \A i \in 1..Len(m) : F[Len(f) + i] = m[i]
      /\ \A i \in 1..Len(F) : i \in 1..Len(f) \/ \E j \in 1..Len(m) : i = Len(f) + j
    <2>1. Joins(f, m, F)
        BY Behind, Zenon
    <2> QED BY <2>1, Zenon DEF Joins
<1> HIDE DEF F
<1>2. \A i \in 1..Len(f) : 1..i \subseteq 1..Len(f) /\ 1..(i - 1) \subseteq 1..Len(f)
    BY <1>1
<1>3. \A i \in 1..Len(f) : \A k, a : IsReply(f, i, k, a) <=> IsReply(F, i, k, a)
    BY <1>1, Zenon DEF IsReply
<1>4. \A i \in 1..Len(F) : IsReply(F, i, "range", at) \/ IsReply(F, i, "end", at) => i \in 1..Len(f)
    <2> SUFFICES ASSUME NEW i \in 1..Len(F), NEW j \in 1..Len(m), i = Len(f) + j
                 PROVE  ~IsReply(F, i, "range", at) /\ ~IsReply(F, i, "end", at)
        BY <1>1, Zenon
    <2>1. F[i] = m[j]
        BY <1>1, Zenon
    <2> QED BY <2>1, Zenon DEF IsReply
<1>5. OneEnd(t, F, at)
    BY <1>3, <1>4, Zenon DEF OnCourse, OneEnd
<1>6. ASSUME RangesCover(t, f, at) PROVE RangesCover(t, F, at)
    <2> SUFFICES ASSUME NEW i \in 1..Len(f), IsReply(f, i, "range", at), F[i].full
                 PROVE  IF F[i].last
                        THEN \A s \in Known : \/ s \in Listed(t.results)
                                              \/ \E j \in 1..i : IsReply(F, j, "range", at) /\ s \in Listed(F[j].scids)
                        ELSE ~t.legacy /\ \A j \in 1..(i - 1) : ~IsReply(F, j, "range", at)
        BY <1>3, <1>4 DEF RangesCover
    <2>1. F[i] = f[i] /\ \A j \in 1..i : j \in 1..Len(f)
        BY <1>1, <1>2
    <2>2. CASE F[i].last
        <3> SUFFICES ASSUME NEW s \in Known, s \notin Listed(t.results)
                     PROVE  \E j \in 1..i : IsReply(F, j, "range", at) /\ s \in Listed(F[j].scids)
            BY <2>2
        <3>1. PICK j \in 1..i : IsReply(f, j, "range", at) /\ s \in Listed(f[j].scids)
            BY <1>6, <2>1, <2>2 DEF RangesCover
        <3> QED BY <1>1, <1>3, <2>1, <3>1, Zenon
    <2>3. CASE ~F[i].last
        <3>1. ~t.legacy /\ \A j \in 1..(i - 1) : ~IsReply(f, j, "range", at)
            BY <1>6, <2>1, <2>3 DEF RangesCover
        <3> QED BY <1>2, <1>3, <2>3, <3>1
    <2> QED BY <2>2, <2>3
<1>7. ASSUME EndsCover(t, f, at, r) PROVE EndsCover(t, F, at, r)
    <2> SUFFICES ASSUME NEW i \in 1..Len(f), IsReply(f, i, "end", at), F[i].full, NEW s \in Known,
                        s \notin r, s \notin Listed(t.queue)
                 PROVE  \E j \in 1..i : F[j].kind = "gossip" /\ F[j].scids[1] = s
        BY <1>3, <1>4 DEF EndsCover
    <2>1. F[i] = f[i] /\ \A j \in 1..i : j \in 1..Len(f)
        BY <1>1, <1>2
    <2>2. PICK j \in 1..i : f[j].kind = "gossip" /\ f[j].scids[1] = s
        BY <1>7, <2>1 DEF EndsCover
    <2> QED BY <1>1, <2>1, <2>2, Zenon
<1> QED BY <1>5, <1>6, <1>7 DEF OnCourse, F

-----------------------------------------------------------------------------
(* The scids of two lists, and of a list cut in a chunk and the rest. *)
LEMMA ListedBoth ==
    ASSUME NEW S, NEW q \in Seq(S), NEW q2 \in Seq(S)
    PROVE  Listed(q) \subseteq Listed(q \o q2) /\ Listed(q2) \subseteq Listed(q \o q2)
<1> DEFINE F == q \o q2
<1>1. Joins(q, q2, F)
    BY Behind, Zenon
<1> HIDE DEF F
<1>2. Listed(q) \subseteq Listed(F) /\ Listed(q2) \subseteq Listed(F)
    <2>1. /\ \A i \in 1..Len(q) : i \in 1..Len(F) /\ F[i] = q[i]
          /\ \A i \in 1..Len(q2) : Len(q) + i \in 1..Len(F) /\ F[Len(q) + i] = q2[i]
        BY <1>1, Zenon DEF Joins
    <2> QED BY <2>1, Zenon DEF Listed
<1> QED BY <1>2 DEF F

LEMMA ListedCut ==
    ASSUME NEW S, NEW q \in Seq(S), NEW n \in Nat, n <= Len(q)
    PROVE  /\ SubSeq(q, 1, n) \in Seq(S) /\ SubSeq(q, n + 1, Len(q)) \in Seq(S)
           /\ Listed(q) \subseteq Listed(SubSeq(q, 1, n)) \union Listed(SubSeq(q, n + 1, Len(q)))
<1> DEFINE a == SubSeq(q, 1, n)
           b == SubSeq(q, n + 1, Len(q))
<1>1. Len(q) \in Nat /\ \A i \in 1..Len(q) : q[i] \in S
    BY LenProperties, ElementOfSeq, Zenon
<1>2. a \in Seq(S) /\ Len(a) = n /\ \A i \in 1..n : a[i] = q[i]
    <2>1. \A i \in 1..n : q[i] \in S
        BY <1>1
    <2>2. /\ a \in Seq(S) /\ Len(a) = IF 1 <= n THEN n - 1 + 1 ELSE 0
          /\ \A i \in 1..(n - 1 + 1) : a[i] = q[1 + i - 1]
        BY <2>1, SubSeqProperties
    <2> HIDE DEF a
    <2> QED BY <2>2
<1>3. b \in Seq(S) /\ Len(b) = Len(q) - n /\ \A i \in 1..(Len(q) - n) : b[i] = q[n + i]
    <2>1. (\A i \in (n + 1)..Len(q) : q[i] \in S) /\ n + 1 \in Int /\ Len(q) \in Int
        BY <1>1
    <2>2. /\ b \in Seq(S) /\ Len(b) = IF n + 1 <= Len(q) THEN Len(q) - (n + 1) + 1 ELSE 0
          /\ \A i \in 1..(Len(q) - (n + 1) + 1) : b[i] = q[n + 1 + i - 1]
        BY <2>1, SubSeqProperties, SMTT(30)
    <2> HIDE DEF b
    <2>3. \A l, k \in Nat : l - (k + 1) + 1 = l - k /\ (k <= l => (IF k + 1 <= l THEN l - (k + 1) + 1 ELSE 0) = l - k)
        OBVIOUS
    <2>4. \A i \in 1..(Len(q) - n) : n + 1 + i - 1 = n + i
        BY <1>1
    <2>5. /\ Len(q) - (n + 1) + 1 = Len(q) - n
          /\ (IF n + 1 <= Len(q) THEN Len(q) - (n + 1) + 1 ELSE 0) = Len(q) - n
        BY <1>1, <2>3, Zenon
    <2> QED BY <2>2, <2>4, <2>5, Zenon
<1> HIDE DEF a, b
<1>4. ASSUME NEW s \in Listed(q) PROVE s \in Listed(a) \/ s \in Listed(b)
    <2>1. PICK i \in 1..Len(q) : q[i] = s
        BY DEF Listed
    <2>2. CASE i <= n
        <3>1. i \in 1..Len(a)
            BY <1>1, <1>2, <2>2
        <3> QED BY <1>2, <2>1, <3>1 DEF Listed
    <2>3. CASE ~(i <= n)
        <3>1. i - n \in 1..Len(b) /\ i - n \in 1..(Len(q) - n) /\ n + (i - n) = i
            BY <1>1, <1>3, <2>3
        <3> QED BY <1>3, <2>1, <3>1, Zenon DEF Listed
    <2> QED BY <2>2, <2>3
<1> QED BY <1>2, <1>3, <1>4 DEF a, b

LEMMA ListedChunk ==
    ASSUME NEW S, NEW q \in Seq(S)
    PROVE  /\ Chunk(q) \in Seq(S) /\ AfterChunk(q) \in Seq(S)
           /\ Listed(q) \subseteq Listed(Chunk(q)) \union Listed(AfterChunk(q))
<1>1. Len(q) \in Nat /\ ChunkSize \in Nat
    BY LenProperties, SizesAssumption, Zenon
<1>2. CASE ChunkSize <= Len(q)
    <2>1. Chunk(q) = SubSeq(q, 1, ChunkSize)
        BY <1>1, <1>2 DEF Chunk
    <2> QED BY <1>1, <1>2, <2>1, ListedCut, Zenon DEF AfterChunk
<1>3. CASE Len(q) < ChunkSize
    <2>1. Chunk(q) = q
        BY <1>3, SubSeqFull DEF Chunk
    <2>2. ChunkSize + 1 \in Int /\ Len(q) \in Int /\ Len(q) < ChunkSize + 1
        BY <1>1, <1>3
    <2>3. AfterChunk(q) = <<>>
        BY <2>2, SubSeqEmpty, Zenon DEF AfterChunk
    <2> QED BY <2>1, <2>3
<1> QED BY <1>1, <1>2, <1>3

LEMMA ScidsListed ==
    /\ Scids \in Seq(Known) /\ Listed(Scids) = Known /\ ScidSet = Known
    /\ SubSeq(Scids, 1, 1) \in Seq(Known) /\ SubSeq(Scids, 2, Len(Scids)) \in Seq(Known)
    /\ Known \subseteq Listed(SubSeq(Scids, 1, 1)) \union Listed(SubSeq(Scids, 2, Len(Scids)))
<1>1. Scids \in Seq(Known)
    BY ScidsAssumption DEF Known
<1>2. Len(Scids) \in Nat /\ DOMAIN Scids = 1..Len(Scids)
    BY <1>1, LenProperties, Zenon
<1>3. Listed(Scids) = Known /\ ScidSet = Known
    BY <1>2 DEF Listed, Known, ScidSet
<1>4. 1 \in Nat /\ 1 <= Len(Scids) /\ 1 + 1 = 2
    <2>1. Len(Scids) # 0
        BY <1>1, EmptySeq, ScidsAssumption
    <2> QED BY <1>2, <2>1
<1> HIDE DEF Known
<1> QED BY <1>1, <1>3, <1>4, ListedCut, Zenon

-----------------------------------------------------------------------------
(* What is asked for keeps a task on course. *)

(* A task on course with the replies alone is so with them at the end of a  *)
(* stream that holds none it would take.                                    *)
LEMMA CourseBehind ==
    ASSUME NEW t, NEW f \in Seq(Messages), NEW m \in Seq(Messages), NEW at, NEW r,
           \A i \in 1..Len(f) : ~IsReply(f, i, "end", at),
           t.stage = "AwaitingChannelRange" => \A i \in 1..Len(f) : ~IsReply(f, i, "range", at),
           OnCourse(t, m, at, r)
    PROVE  OnCourse(t, f \o m, at, r)
<1> DEFINE F == f \o m
<1>1. Joins(f, m, F)
    BY Behind, Zenon
<1> HIDE DEF F
<1>2. \A j \in 1..Len(m) : \A k, a : IsReply(F, Len(f) + j, k, a) <=> IsReply(m, j, k, a)
    BY <1>1, Zenon DEF IsReply, Joins
<1>3. \A i \in 1..Len(f) : \A k, a : IsReply(F, i, k, a) <=> IsReply(f, i, k, a)
    BY <1>1, Zenon DEF IsReply, Joins
<1>4. \A i \in 1..Len(F) : IsReply(F, i, "end", at) => \E j \in 1..Len(m) : i = Len(f) + j /\ IsReply(m, j, "end", at)
    BY <1>1, <1>2, <1>3, Zenon DEF Joins
<1>5. OneEnd(t, F, at)
    BY <1>4, Zenon DEF OnCourse, OneEnd
<1>6. ASSUME NEW j \in 1..Len(m) PROVE \A h \in 1..j : h \in 1..Len(m) /\ Len(f) + h \in 1..(Len(f) + j)
    BY <1>1 DEF Joins
<1>7. ASSUME t.stage = "AwaitingChannelRange" PROVE RangesCover(t, F, at)
    <2>1. RangesCover(t, m, at)
        BY <1>7 DEF OnCourse
    <2>2. \A i \in 1..Len(F) : IsReply(F, i, "range", at) => \E j \in 1..Len(m) : i = Len(f) + j /\ IsReply(m, j, "range", at)
        <3> SUFFICES ASSUME NEW i \in 1..Len(F), IsReply(F, i, "range", at)
                     PROVE  \E j \in 1..Len(m) : i = Len(f) + j /\ IsReply(m, j, "range", at)
            OBVIOUS
        <3>1. i \notin 1..Len(f)
            BY <1>3, <1>7, Zenon
        <3>2. PICK j \in 1..Len(m) : i = Len(f) + j
            BY <1>1, <3>1, Zenon DEF Joins
        <3> QED BY <1>2, <3>2, Zenon
    <2> SUFFICES ASSUME NEW j \in 1..Len(m), NEW i \in 1..Len(F), i = Len(f) + j, IsReply(m, j, "range", at), F[i].full
                 PROVE  IF F[i].last
                        THEN \A s \in Known : \/ s \in Listed(t.results)
                                              \/ \E h \in 1..i : IsReply(F, h, "range", at) /\ s \in Listed(F[h].scids)
                        ELSE ~t.legacy /\ \A h \in 1..(i - 1) : ~IsReply(F, h, "range", at)
        BY <2>2, Zenon DEF RangesCover
    <2>3. F[i] = m[j]
        BY <1>1, Zenon DEF Joins
    <2>4. CASE F[i].last
        <3> SUFFICES ASSUME NEW s \in Known, s \notin Listed(t.results)
                     PROVE  \E h \in 1..i : IsReply(F, h, "range", at) /\ s \in Listed(F[h].scids)
            BY <2>4
        <3>1. PICK h \in 1..j : IsReply(m, h, "range", at) /\ s \in Listed(m[h].scids)
            BY <2>1, <2>3, <2>4 DEF RangesCover
        <3>2. h \in 1..Len(m) /\ Len(f) + h \in 1..i
            BY <1>6, Zenon
        <3>3. F[Len(f) + h] = m[h]
            BY <1>1, <3>2, Zenon DEF Joins
        <3> QED BY <1>2, <3>1, <3>2, <3>3, Zenon
    <2>5. CASE ~F[i].last
        <3>1. ~t.legacy /\ \A h \in 1..(j - 1) : ~IsReply(m, h, "range", at)
            BY <2>1, <2>3, <2>5 DEF RangesCover
        <3>2. ASSUME NEW h \in 1..(i - 1), IsReply(F, h, "range", at) PROVE FALSE
            <4>1. h \in 1..Len(F)
                BY <1>1 DEF Joins
            <4>2. PICK g \in 1..Len(m) : h = Len(f) + g /\ IsReply(m, g, "range", at)
                BY <2>2, <3>2, <4>1, Zenon
            <4>3. g \in 1..(j - 1)
                BY <1>1, <4>2 DEF Joins
            <4> QED BY <3>1, <4>2, <4>3
        <3> QED BY <2>5, <3>1, <3>2
    <2> QED BY <2>4, <2>5
<1>8. ASSUME t.stage = "AwaitingChannels" PROVE EndsCover(t, F, at, r)
    <2>1. EndsCover(t, m, at, r)
        BY <1>8 DEF OnCourse
    <2> SUFFICES ASSUME NEW j \in 1..Len(m), NEW i \in 1..Len(F), i = Len(f) + j, IsReply(m, j, "end", at), F[i].full,
                        NEW s \in Known, s \notin r, s \notin Listed(t.queue)
                 PROVE  \E h \in 1..i : F[h].kind = "gossip" /\ F[h].scids[1] = s
        BY <1>4, Zenon DEF EndsCover
    <2>2. F[i] = m[j]
        BY <1>1, Zenon DEF Joins
    <2>3. PICK h \in 1..j : m[h].kind = "gossip" /\ m[h].scids[1] = s
        BY <2>1, <2>2 DEF EndsCover
    <2>4. h \in 1..Len(m) /\ Len(f) + h \in 1..i
        BY <1>6, Zenon
    <2>5. F[Len(f) + h] = m[h]
        BY <1>1, <2>4, Zenon DEF Joins
    <2> QED BY <2>3, <2>4, <2>5, Zenon
<1>9. t.stage = "AwaitingMessages" => Known \subseteq r
    BY DEF OnCourse
<1> QED BY <1>5, <1>7, <1>8, <1>9 DEF OnCourse, F

(* queryRange: whatever the other side answers. *)
LEMMA RangeCourse ==
    ASSUME NEW at \in Nat, NEW m \in RangeReplies(at), NEW r
    PROVE  /\ m \in Seq(Messages)
           /\ \A i \in 1..Len(m) : m[i].at = at
           /\ OnCourse(NewTask, m, at, r)
<1> DEFINE first == SubSeq(Scids, 1, 1)
           rest == SubSeq(Scids, 2, Len(Scids))
<1>1. /\ Scids \in Seq(Known) /\ first \in Seq(Known) /\ rest \in Seq(Known) /\ <<>> \in Seq(Known)
      /\ Listed(Scids) = Known /\ \A s \in Known : s \in Listed(first) \/ s \in Listed(rest)
    BY ScidsListed
<1>2. \/ m = <<RangeReply(first, TRUE, FALSE, at), RangeReply(rest, TRUE, TRUE, at)>>
      \/ m = <<RangeReply(first, FALSE, FALSE, at), RangeReply(rest, TRUE, TRUE, at)>>
      \/ m = <<Unknown(at), RangeReply(Scids, TRUE, TRUE, at)>>
      \/ m = <<RangeReply(<<>>, FALSE, TRUE, at)>>
    BY DEF RangeReplies
<1> HIDE DEF first, rest
<1>3. m \in Seq(Messages) /\ Len(m) \in 1..2 /\ \A i \in 1..Len(m) : m[i].at = at /\ m[i].kind \in {"range", "unknown"}
    <2> HIDE DEF Known
    <2>1. ASSUME NEW s \in Seq(Known), NEW full \in BOOLEAN, NEW last \in BOOLEAN
          PROVE  /\ RangeReply(s, full, last, at) \in Messages
                 /\ RangeReply(s, full, last, at).at = at /\ RangeReply(s, full, last, at).kind = "range"
        BY DEF RangeReply, Message, Messages
    <2>2. Unknown(at) \in Messages /\ Unknown(at).at = at /\ Unknown(at).kind = "unknown"
        BY DEF Unknown, Message, Messages
    <2>3. ASSUME NEW x \in Messages, NEW y \in Messages, m = <<x, y>>
          PROVE  m \in Seq(Messages) /\ Len(m) \in 1..2 /\ \A i \in 1..Len(m) : m[i] = x \/ m[i] = y
        BY <2>3
    <2>4. ASSUME NEW x \in Messages, m = <<x>>
          PROVE  m \in Seq(Messages) /\ Len(m) \in 1..2 /\ \A i \in 1..Len(m) : m[i] = x
        BY <2>4
    <2>5. TRUE \in BOOLEAN /\ FALSE \in BOOLEAN
        OBVIOUS
    <2> DEFINE Fine == m \in Seq(Messages) /\ Len(m) \in 1..2 /\ \A i \in 1..Len(m) : m[i].at = at /\ m[i].kind \in {"range", "unknown"}
    <2>6. ASSUME NEW f1 \in BOOLEAN, NEW l1 \in BOOLEAN,
                 m = <<RangeReply(first, f1, l1, at), RangeReply(rest, TRUE, TRUE, at)>>
          PROVE  Fine
        <3>1. PICK x, y : x = RangeReply(first, f1, l1, at) /\ y = RangeReply(rest, TRUE, TRUE, at)
            OBVIOUS
        <3>2. x \in Messages /\ x.at = at /\ x.kind = "range" /\ y \in Messages /\ y.at = at /\ y.kind = "range"
            BY <1>1, <2>1, <2>5, <3>1, Zenon
        <3>3. m \in Seq(Messages) /\ Len(m) \in 1..2 /\ \A i \in 1..Len(m) : m[i] = x \/ m[i] = y
            <4>1. m = <<x, y>>
                BY <2>6, <3>1, Zenon
            <4> QED BY <2>3, <3>2, <4>1, Zenon
        <3> QED BY <3>2, <3>3
    <2>7. ASSUME m = <<Unknown(at), RangeReply(Scids, TRUE, TRUE, at)>> PROVE Fine
        <3>1. PICK x, y : x = Unknown(at) /\ y = RangeReply(Scids, TRUE, TRUE, at)
            OBVIOUS
        <3>2. x \in Messages /\ x.at = at /\ x.kind = "unknown" /\ y \in Messages /\ y.at = at /\ y.kind = "range"
            BY <1>1, <2>1, <2>2, <2>5, <3>1, Zenon
        <3>3. m \in Seq(Messages) /\ Len(m) \in 1..2 /\ \A i \in 1..Len(m) : m[i] = x \/ m[i] = y
            <4>1. m = <<x, y>>
                BY <2>7, <3>1, Zenon
            <4> QED BY <2>3, <3>2, <4>1, Zenon
        <3> QED BY <3>2, <3>3
    <2>8. ASSUME m = <<RangeReply(<<>>, FALSE, TRUE, at)>> PROVE Fine
        <3>1. PICK x : x = RangeReply(<<>>, FALSE, TRUE, at)
            OBVIOUS
        <3>2. x \in Messages /\ x.at = at /\ x.kind = "range"
            BY <1>1, <2>1, <2>5, <3>1, Zenon
        <3> QED BY <2>4, <2>8, <3>1, <3>2
    <2> HIDE DEF Fine
    <2>9. Fine
        BY <1>2, <2>5, <2>6, <2>7, <2>8, Zenon
    <2> QED BY <2>9 DEF Fine
<1>4. NewTask.stage = "AwaitingChannelRange" /\ NewTask.legacy = FALSE
    BY DEF NewTask, NoTask
<1>5. OneEnd(NewTask, m, at)
    BY <1>3 DEF OneEnd, IsReply
<1>6. ASSUME NEW i \in 1..Len(m), IsReply(m, i, "range", at), m[i].full, m[i].last
      PROVE  \A s \in Known : \E j \in 1..i : IsReply(m, j, "range", at) /\ s \in Listed(m[j].scids)
    <2>1. CASE \/ m = <<RangeReply(first, TRUE, FALSE, at), RangeReply(rest, TRUE, TRUE, at)>>
               \/ m = <<RangeReply(first, FALSE, FALSE, at), RangeReply(rest, TRUE, TRUE, at)>>
        <3>1. i = 2 /\ m[1].scids = first /\ m[2].scids = rest /\ IsReply(m, 1, "range", at) /\ IsReply(m, 2, "range", at)
            BY <1>6, <2>1 DEF RangeReply, Message, IsReply
        <3> QED BY <1>1, <3>1
    <2>2. CASE m = <<Unknown(at), RangeReply(Scids, TRUE, TRUE, at)>>
        <3>1. i = 2 /\ m[2].scids = Scids
            BY <1>6, <2>2 DEF RangeReply, Unknown, Message, IsReply
        <3> QED BY <1>1, <1>6, <3>1
    <2>3. CASE m = <<RangeReply(<<>>, FALSE, TRUE, at)>>
        BY <1>6, <2>3 DEF RangeReply, Message
    <2> QED BY <1>2, <2>1, <2>2, <2>3
<1>7. ASSUME NEW i \in 1..Len(m), IsReply(m, i, "range", at), m[i].full, ~m[i].last
      PROVE  i = 1
    BY <1>2, <1>7 DEF RangeReply, Unknown, Message, IsReply
<1>8. RangesCover(NewTask, m, at)
    <2> SUFFICES ASSUME NEW i \in 1..Len(m), IsReply(m, i, "range", at), m[i].full
                 PROVE  IF m[i].last
                        THEN \A s \in Known : \/ s \in Listed(NewTask.results)
                                              \/ \E j \in 1..i : IsReply(m, j, "range", at) /\ s \in Listed(m[j].scids)
                        ELSE ~NewTask.legacy /\ \A j \in 1..(i - 1) : ~IsReply(m, j, "range", at)
        BY Zenon DEF RangesCover
    <2>1. CASE m[i].last
        BY <1>6, <2>1, Zenon
    <2>2. CASE ~m[i].last
        <3>1. i = 1
            BY <1>7, <2>2, Zenon
        <3>2. \A j \in 1..(i - 1) : FALSE
            BY <3>1
        <3> QED BY <1>4, <2>2, <3>2
    <2> QED BY <2>1, <2>2
<1> QED BY <1>3, <1>4, <1>5, <1>8 DEF OnCourse

(* A query of channels, whatever the other side answers. *)
LEMMA ChannelCourse ==
    ASSUME NEW a \in Nat, NEW q \in Seq(Known), NEW m \in ChannelReplies(q, a), NEW at, NEW r, NEW t,
           t.stage = "AwaitingChannels", \A s \in Known : s \in r \/ s \in Listed(q) \/ s \in Listed(t.queue)
    PROVE  OnCourse(t, m, at, r)
<1> DEFINE all == [i \in 1..Len(q) |-> Announcement(q[i], a)]
           ends == <<End(TRUE, a)>>
           whole == all \o ends
<1>0. m = whole \/ m = <<End(FALSE, a)>>
    BY DEF ChannelReplies
<1>1. CASE m = <<End(FALSE, a)>>
    <2>1. Len(m) = 1 /\ ~m[1].full
        BY <1>1 DEF End, Message
    <2> QED BY <2>1 DEF OnCourse, OneEnd, EndsCover
<1>2. CASE m = whole
    <2>1. Len(q) \in Nat /\ Len(all) = Len(q) /\ all \in Seq([kind : {"gossip"}, scids : Seq(Known), full : BOOLEAN, last : BOOLEAN, at : Nat])
        <3>1. \A i \in 1..Len(q) : q[i] \in Known
            BY ElementOfSeq
        <3> HIDE DEF Known
        <3> QED BY <3>1 DEF Announcement, Message
    <2>2. \A i \in 1..Len(q) : all[i].kind = "gossip" /\ all[i].scids[1] = q[i]
        BY DEF Announcement, Message
    <2>3. Len(ends) = 1 /\ ends[1].kind = "end"
        BY DEF End, Message
    <2>4. Joins(all, ends, whole)
        <3> DEFINE G == [kind : {"gossip", "end"}, scids : Seq(Known), full : BOOLEAN, last : BOOLEAN, at : Nat]
        <3>1. all \in Seq(G)
            <4>1. \A i \in 1..Len(q) : q[i] \in Known
                BY ElementOfSeq
            <4> HIDE DEF Known
            <4> QED BY <2>1, <4>1 DEF Announcement, Message
        <3>2. ends \in Seq(G)
            BY DEF End, Message
        <3> HIDE DEF G, all, ends
        <3> QED BY <3>1, <3>2, Behind, Zenon
    <2> HIDE DEF all, ends, whole
    <2>5. \A i \in 1..Len(m) : m[i].kind = "end" => i = Len(q) + 1
        <3> SUFFICES ASSUME NEW i \in 1..Len(m), m[i].kind = "end" PROVE i = Len(q) + 1
            OBVIOUS
        <3>1. i \notin 1..Len(q)
            BY <1>2, <2>1, <2>2, <2>4 DEF Joins
        <3> QED BY <1>2, <2>1, <2>3, <2>4, <3>1 DEF Joins
    <2>6. \A i \in 1..Len(q) : m[i].kind = "gossip" /\ m[i].scids[1] = q[i]
        BY <1>2, <2>1, <2>2, <2>4 DEF Joins
    <2>7. OneEnd(t, m, at)
        BY <2>5, Zenon DEF OneEnd, IsReply
    <2>8. EndsCover(t, m, at, r)
        <3> SUFFICES ASSUME NEW i \in 1..Len(m), m[i].kind = "end", NEW s \in Known, s \in Listed(q)
                     PROVE  \E j \in 1..i : m[j].kind = "gossip" /\ m[j].scids[1] = s
            BY Zenon DEF EndsCover, IsReply
        <3>1. PICK j \in 1..Len(q) : q[j] = s
            BY DEF Listed
        <3>2. i = Len(q) + 1
            BY <2>5, Zenon
        <3>3. j \in 1..i
            BY <2>1, <3>2
        <3> QED BY <2>6, <3>1, <3>3
    <2> QED BY <2>7, <2>8 DEF OnCourse
<1> QED BY <1>0, <1>1, <1>2

LEMMA ChannelRepliesTyped ==
    ASSUME NEW a \in Nat, NEW q \in Seq(Known), NEW m \in ChannelReplies(q, a)
    PROVE  m \in Seq(Messages) /\ \A i \in 1..Len(m) : m[i].at = a /\ m[i].kind # "range"
<1> DEFINE G == {x \in Messages : x.at = a /\ x.kind # "range"}
           all == [i \in 1..Len(q) |-> Announcement(q[i], a)]
           ends == <<End(TRUE, a)>>
<1>1. Len(q) \in Nat /\ \A i \in 1..Len(q) : q[i] \in Known
    BY LenProperties, ElementOfSeq, Zenon
<1>2. all \in Seq(G)
    <2> HIDE DEF Known
    <2>1. \A s \in Known : Announcement(s, a) \in G
        BY DEF Announcement, Message, Messages
    <2> HIDE DEF G
    <2> QED BY <1>1, <2>1
<1>3. End(TRUE, a) \in G /\ End(FALSE, a) \in G
    BY DEF End, Message, Messages
<1>4. m \in Seq(G)
    <2>1. m = all \o ends \/ m = <<End(FALSE, a)>>
        BY DEF ChannelReplies
    <2> HIDE DEF G, all
    <2>2. ends \in Seq(G) /\ <<End(FALSE, a)>> \in Seq(G)
        <3>1. \A S, x : x \in S => <<x>> \in Seq(S)
            OBVIOUS
        <3> QED BY <1>3, <3>1, Zenon
    <2> HIDE DEF ends
    <2> QED BY <1>2, <2>1, <2>2, Behind
<1>5. \A i \in 1..Len(m) : m[i] \in G
    BY <1>4, ElementOfSeq
<1>6. m \in Seq(Messages)
    BY <1>4, SeqMonotonic
<1> QED BY <1>5, <1>6

-----------------------------------------------------------------------------
(* Reading a reply. *)
NoEnd(f, at) == \A i \in 1..Len(f) : ~IsReply(f, i, "end", at)

LEMMA Ahead ==
    ASSUME NEW S, NEW f \in Seq(S), f # <<>>
    PROVE  /\ Tail(f) \in Seq(S) /\ Head(f) = f[1] /\ Len(f) \in Nat /\ 1 \in 1..Len(f)
           /\ Len(Tail(f)) = Len(f) - 1
           /\ \A i \in 1..Len(Tail(f)) : Tail(f)[i] = f[i + 1] /\ i + 1 \in 1..Len(f)
<1>1. Tail(f) \in Seq(S) /\ Len(Tail(f)) = Len(f) - 1 /\ \A i \in 1..Len(Tail(f)) : Tail(f)[i] = f[i + 1]
    BY HeadTailProperties, Zenon
<1>2. Len(f) \in Nat /\ Len(f) # 0
    BY LenProperties, EmptySeq
<1>3. 1 \in 1..Len(f) /\ \A i \in 1..Len(Tail(f)) : i + 1 \in 1..Len(f)
    BY <1>1, <1>2
<1>4. Head(f) = f[1]
    BY SMT
<1> QED BY <1>1, <1>2, <1>3, <1>4, Zenon

LEMMA NoEndLeft ==
    ASSUME NEW t, NEW f \in Seq(Messages), f # <<>>, NEW at, OneEnd(t, f, at),
           IsReply(f, 1, "end", at) \/ t.stage # "AwaitingChannels"
    PROVE  NoEnd(Tail(f), at)
<1> SUFFICES ASSUME NEW i \in 1..Len(Tail(f)), IsReply(Tail(f), i, "end", at) PROVE FALSE
    BY DEF NoEnd
<1>1. i + 1 \in 1..Len(f) /\ 1 \in 1..Len(f) /\ i \in Nat /\ i # 0
    BY Ahead
<1>2. Tail(f)[i] = f[i + 1]
    BY Ahead, Zenon
<1>3. IsReply(f, i + 1, "end", at)
    BY <1>2, Zenon DEF IsReply
<1>4. CASE t.stage # "AwaitingChannels"
    BY <1>1, <1>3, <1>4, Zenon DEF OneEnd
<1>5. CASE IsReply(f, 1, "end", at)
    <2>1. i + 1 = 1
        BY <1>1, <1>3, <1>5, Zenon DEF OneEnd
    <2> QED BY <1>1, <2>1
<1> QED BY <1>4, <1>5

LEMMA CourseEnded ==
    ASSUME NEW t, NEW f, NEW at, NEW r, NoEnd(f, at),
           t.stage \in Ended \union {"AwaitingChannels"} \/ (t.stage = "AwaitingMessages" /\ Known \subseteq r)
    PROVE  OnCourse(t, f, at, r)
BY DEF OnCourse, NoEnd, OneEnd, EndsCover, Ended

(* A reply that a task does not wait for. *)
LEMMA CourseReplyPassed ==
    ASSUME NEW t, NEW f \in Seq(Messages), f # <<>>, NEW at, NEW r, OnCourse(t, f, at, r),
           t.stage # "AwaitingChannelRange", Head(f).kind = "range"
    PROVE  OnCourse(t, Tail(f), at, r)
<1> DEFINE F == Tail(f)
<1>1. /\ Len(f) \in Nat /\ 1 \in 1..Len(f) /\ Len(F) = Len(f) - 1 /\ f[1].kind = "range"
      /\ \A i \in 1..Len(F) : F[i] = f[i + 1] /\ i + 1 \in 1..Len(f)
    BY Ahead, Zenon
<1> HIDE DEF F
<1>2. OneEnd(t, F, at)
    <2> SUFFICES ASSUME NEW i \in 1..Len(F), NEW j \in 1..Len(F), IsReply(F, i, "end", at), IsReply(F, j, "end", at)
                 PROVE  i = j /\ t.stage = "AwaitingChannels"
        BY DEF OneEnd
    <2>1. IsReply(f, i + 1, "end", at) /\ IsReply(f, j + 1, "end", at) /\ i + 1 \in 1..Len(f) /\ j + 1 \in 1..Len(f)
        BY <1>1, Zenon DEF IsReply
    <2>2. i + 1 = j + 1 /\ t.stage = "AwaitingChannels"
        BY <2>1, Zenon DEF OnCourse, OneEnd
    <2> QED BY <1>1, <2>2
<1>3. ASSUME t.stage = "AwaitingChannels" PROVE EndsCover(t, F, at, r)
    <2>1. EndsCover(t, f, at, r)
        BY <1>3 DEF OnCourse
    <2> SUFFICES ASSUME NEW i \in 1..Len(F), IsReply(F, i, "end", at), F[i].full, NEW s \in Known,
                        s \notin r, s \notin Listed(t.queue)
                 PROVE  \E j \in 1..i : F[j].kind = "gossip" /\ F[j].scids[1] = s
        BY DEF EndsCover
    <2>2. i + 1 \in 1..Len(f) /\ F[i] = f[i + 1] /\ IsReply(f, i + 1, "end", at)
        BY <1>1, Zenon DEF IsReply
    <2>3. PICK j \in 1..(i + 1) : f[j].kind = "gossip" /\ f[j].scids[1] = s
        BY <2>1, <2>2, Zenon DEF EndsCover
    <2>4. j # 1
        BY <1>1, <2>3
    <2>5. j - 1 \in 1..i /\ j - 1 \in 1..Len(F) /\ j - 1 + 1 = j
        BY <1>1, <2>4
    <2>6. F[j - 1] = f[j]
        BY <1>1, <2>5
    <2> QED BY <2>3, <2>5, <2>6
<1> QED BY <1>2, <1>3 DEF OnCourse, F

(* handleReplyChannelRange, while the range is not complete. *)
LEMMA CourseRange ==
    ASSUME NEW t \in Tasks, t.stage = "AwaitingChannelRange", NEW f \in Seq(Messages), f # <<>>, NEW at, NEW r,
           IsReply(f, 1, "range", at), OnCourse(t, f, at, r),
           NEW t1, t1.stage = t.stage, t1.results = t.results \o f[1].scids
    PROVE  OnCourse(t1, Tail(f), at, r)
<1> DEFINE F == Tail(f)
<1>0. NoEnd(F, at)
    BY NoEndLeft DEF OnCourse
<1>1. RangesCover(t, f, at)
    BY DEF OnCourse
<1>2. /\ Len(f) \in Nat /\ 1 \in 1..Len(f) /\ Len(F) = Len(f) - 1
      /\ \A i \in 1..Len(F) : F[i] = f[i + 1] /\ i + 1 \in 1..Len(f)
    BY Ahead, Zenon
<1>3. f[1] \in Messages /\ t.results \in Seq(Known)
    BY <1>2, ElementOfSeq DEF Tasks
<1>4. Listed(t.results) \subseteq Listed(t1.results) /\ Listed(f[1].scids) \subseteq Listed(t1.results)
    <2>1. f[1].scids \in Seq(Known)
        BY <1>3 DEF Messages
    <2> HIDE DEF Known
    <2> QED BY <1>3, <2>1, ListedBoth
<1> HIDE DEF F
<1>5. RangesCover(t1, F, at)
    <2> SUFFICES ASSUME NEW i \in 1..Len(F), IsReply(F, i, "range", at), F[i].full
                 PROVE  F[i].last /\ \A s \in Known : \/ s \in Listed(t1.results)
                                                      \/ \E j \in 1..i : IsReply(F, j, "range", at) /\ s \in Listed(F[j].scids)
        BY Zenon DEF RangesCover
    <2>1. F[i] = f[i + 1] /\ i + 1 \in 1..Len(f) /\ IsReply(f, i + 1, "range", at)
        BY <1>2, Zenon DEF IsReply
    <2>2. F[i].last
        <3> SUFFICES ASSUME ~f[i + 1].last PROVE FALSE
            BY <2>1
        <3>1. \A j \in 1..(i + 1 - 1) : ~IsReply(f, j, "range", at)
            BY <1>1, <2>1 DEF RangesCover
        <3>2. 1 \in 1..(i + 1 - 1)
            BY <1>2
        <3> QED BY <3>1, <3>2
    <2>3. ASSUME NEW s \in Known, s \notin Listed(t1.results)
          PROVE  \E j \in 1..i : IsReply(F, j, "range", at) /\ s \in Listed(F[j].scids)
        <3>1. PICK j \in 1..(i + 1) : IsReply(f, j, "range", at) /\ s \in Listed(f[j].scids)
            BY <1>1, <1>4, <2>1, <2>2, <2>3 DEF RangesCover
        <3>2. j # 1
            BY <1>4, <2>3, <3>1
        <3>3. j - 1 \in 1..i /\ j - 1 \in 1..Len(F) /\ j - 1 + 1 = j
            BY <1>2, <3>2
        <3>4. F[j - 1] = f[j]
            BY <1>2, <3>3
        <3> QED BY <3>1, <3>3, <3>4 DEF IsReply
    <2> QED BY <2>2, <2>3
<1>6. OneEnd(t1, F, at)
    BY <1>0 DEF OneEnd, NoEnd, F
<1> QED BY <1>5, <1>6 DEF OnCourse, F

(* And when it is: the results are everything. *)
LEMMA RangeComplete ==
    ASSUME NEW t \in Tasks, t.stage = "AwaitingChannelRange", NEW f \in Seq(Messages), f # <<>>, NEW at,
           IsReply(f, 1, "range", at), RangesCover(t, f, at), f[1].full,
           f[1].last \/ t.legacy \/ IsLegacyReply(f[1])
    PROVE  Known \subseteq Listed(t.results \o f[1].scids)
<1>1. 1 \in 1..Len(f) /\ f[1] \in Messages /\ t.results \in Seq(Known) /\ f[1].scids \in Seq(Known)
    <2>1. 1 \in 1..Len(f)
        BY Ahead, Zenon
    <2>2. f[1] \in Messages
        BY <2>1, ElementOfSeq
    <2> QED BY <2>1, <2>2 DEF Messages, Tasks
<1>2. f[1].last
    BY <1>1 DEF RangesCover, IsLegacyReply
<1>3. \A s \in Known : s \in Listed(t.results) \/ s \in Listed(f[1].scids)
    <2> SUFFICES ASSUME NEW s \in Known, s \notin Listed(t.results) PROVE s \in Listed(f[1].scids)
        OBVIOUS
    <2>1. PICK j \in 1..1 : s \in Listed(f[j].scids)
        BY <1>1, <1>2, Zenon DEF RangesCover
    <2> QED BY <2>1
<1> HIDE DEF Known
<1> QED BY <1>1, <1>3, ListedBoth

(* handleReplyShortChannelIdsEnd: what is not in the queue was read. *)
LEMMA EndComplete ==
    ASSUME NEW t, NEW f \in Seq(Messages), f # <<>>, NEW at, NEW r,
           IsReply(f, 1, "end", at), EndsCover(t, f, at, r), f[1].full
    PROVE  \A s \in Known : s \in r \/ s \in Listed(t.queue)
<1> SUFFICES ASSUME NEW s \in Known, s \notin r, s \notin Listed(t.queue) PROVE FALSE
    OBVIOUS
<1>1. 1 \in 1..Len(f)
    BY Ahead, Zenon
<1>2. PICK j \in 1..1 : f[j].kind = "gossip"
    BY <1>1, Zenon DEF EndsCover
<1> QED BY <1>2 DEF IsReply

-----------------------------------------------------------------------------
(* What handling a message does to the task: it fails, or waits on with what *)
(* it asked for behind it.                                                   *)
Handled(g, m, t1, sent) ==
  /\ t1 \in Tasks /\ sent \in Seq(Messages)
  /\ task' = [task EXCEPT ![g] = t1]
  /\ wire' = [wire EXCEPT ![g[1]] = @ \o sent]
  /\ \A i \in 1..Len(sent) : sent[i].at = count[g[1]] /\ sent[i].kind # "range"
  /\ sent = <<>> \/ task[g].stage # "none"
  /\ \/ t1.stage \in Ended /\ task[g].stage \in Awaiting /\ sync' = "Unsynced"
     \/ /\ sync' = sync
        /\ \/ t1.stage = task[g].stage
           \/ \E stages \in {Awaiting, Ended} : {t1.stage, task[g].stage} \subseteq stages
  /\ \A f \in Seq(Messages) : \A r :
       f # <<>> /\ Head(f) = m /\ m.at = g[2] /\ task[g].stage # "none" /\ OnCourse(task[g], f, g[2], r)
         => /\ OnCourse(t1, Tail(f) \o sent, g[2], r)
            /\ sent = <<>> \/ task[g].stage \in Awaiting

LEMMA NothingSent ==
    ASSUME StreamsOK, NEW p, UNCHANGED wire PROVE wire' = [wire EXCEPT ![p] = @ \o <<>>]
<1>1. CASE p \in Peers
    <2>1. wire[p] \o <<>> = wire[p]
        BY <1>1, ConcatEmptySeq DEF StreamsOK
    <2> QED BY <2>1 DEF StreamsOK
<1>2. CASE p \notin Peers
    BY <1>2 DEF StreamsOK
<1> QED BY <1>1, <1>2

(* ChannelsQuery.query *)
LEMMA QueryHandled ==
    ASSUME StreamsOK, TasksOK, count \in [Peers -> Nat], NEW g \in GossipPeers, NEW m \in Messages,
           NEW results \in Seq(Known), QueryChannels(g, results), task[g].stage \in Awaiting,
           \A f \in Seq(Messages) : \A r :
             f # <<>> /\ Head(f) = m /\ m.at = g[2] /\ OnCourse(task[g], f, g[2], r)
               => NoEnd(Tail(f), g[2]) /\ Known \subseteq Listed(results)
    PROVE  \E t1, sent : Handled(g, m, t1, sent)
<1> DEFINE t == [task[g] EXCEPT !.stage = "AwaitingChannels", !.results = <<>>, !.queue = AfterChunk(results)]
<1>0. g[1] \in Peers /\ count[g[1]] \in Nat
    BY DEF GossipPeers, Of
<1>1. /\ Chunk(results) \in Seq(Known) /\ AfterChunk(results) \in Seq(Known)
      /\ Listed(results) \subseteq Listed(Chunk(results)) \union Listed(AfterChunk(results))
    <2> HIDE DEF Known
    <2> QED BY ListedChunk, Zenon
<1>2. t \in Tasks /\ t.stage = "AwaitingChannels" /\ t.queue = AfterChunk(results)
    <2> HIDE DEF Known
    <2>1. task[g] \in Tasks /\ AfterChunk(results) \in Seq(Known) /\ <<>> \in Seq(Known)
        BY <1>1 DEF TasksOK
    <2> QED BY <2>1 DEF Tasks, Awaiting
<1> HIDE DEF t
<1>3. CASE /\ AskForChannels(g[1], Chunk(results))
           /\ task' = [task EXCEPT ![g] = t]
           /\ UNCHANGED <<sync, relay>>
    <2>1. PICK sent \in ChannelReplies(Chunk(results), count[g[1]]) : wire' = [wire EXCEPT ![g[1]] = @ \o sent]
        BY <1>3 DEF AskForChannels, Send
    <2>2. sent \in Seq(Messages) /\ \A i \in 1..Len(sent) : sent[i].at = count[g[1]] /\ sent[i].kind # "range"
        BY <1>0, <1>1, <2>1, ChannelRepliesTyped
    <2>3. ASSUME NEW f \in Seq(Messages), NEW r,
                 f # <<>> /\ Head(f) = m /\ m.at = g[2] /\ OnCourse(task[g], f, g[2], r)
          PROVE  OnCourse(t, Tail(f) \o sent, g[2], r)
        <3>1. NoEnd(Tail(f), g[2]) /\ Known \subseteq Listed(results)
            BY <2>3
        <3>2. \A s \in Known : s \in r \/ s \in Listed(Chunk(results)) \/ s \in Listed(t.queue)
            BY <1>1, <1>2, <3>1
        <3>3. OnCourse(t, sent, g[2], r)
            BY <1>0, <1>1, <1>2, <3>2, ChannelCourse, Zenon
        <3>4. Tail(f) \in Seq(Messages)
            BY <2>3, Ahead, Zenon
        <3>5. t.stage # "AwaitingChannelRange"
            BY <1>2
        <3> QED BY <2>2, <3>1, <3>3, <3>4, <3>5, CourseBehind, Zenon DEF NoEnd
    <2>4. t.stage \in Awaiting
        BY <1>2 DEF Awaiting
    <2>5. task[g].stage # "none"
        BY DEF Awaiting
    <2>6. Handled(g, m, t, sent)
        BY <1>2, <1>3, <2>1, <2>2, <2>3, <2>4, <2>5, Zenon DEF Handled
    <2> QED BY <2>6, Zenon
<1>4. CASE Fail(g, t, "Aborted")
    <2>1. PICK t1 : t1 = [t EXCEPT !.stage = "Aborted"]
        OBVIOUS
    <2>2. t1 \in Tasks /\ t1.stage \in Ended
        BY <1>2, <2>1 DEF Tasks, Ended
    <2>3. task' = [task EXCEPT ![g] = t1] /\ sync' = "Unsynced" /\ UNCHANGED wire
        BY <1>4, <2>1 DEF Fail
    <2>4. wire' = [wire EXCEPT ![g[1]] = @ \o <<>>]
        BY <2>3, NothingSent, Zenon
    <2>5. ASSUME NEW f \in Seq(Messages), NEW r,
                 f # <<>> /\ Head(f) = m /\ m.at = g[2] /\ OnCourse(task[g], f, g[2], r)
          PROVE  OnCourse(t1, Tail(f) \o <<>>, g[2], r)
        <3>1. NoEnd(Tail(f), g[2])
            BY <2>5
        <3>2. Tail(f) \o <<>> = Tail(f)
            BY <2>5, Ahead, ConcatEmptySeq
        <3> QED BY <2>2, <3>1, <3>2, CourseEnded, Zenon
    <2>6. <<>> \in Seq(Messages) /\ Len(<<>>) = 0 /\ \A i \in 1..0 : FALSE
        OBVIOUS
    <2>7. Handled(g, m, t1, <<>>)
        BY <2>2, <2>3, <2>4, <2>5, <2>6, Zenon DEF Handled
    <2> QED BY <2>7, Zenon
<1> QED BY <1>3, <1>4, Zenon DEF QueryChannels, t

(* A message that leaves the task waiting, or fails it, and asks for nothing. *)
LEMMA QuietHandled ==
    ASSUME StreamsOK, NEW g, NEW m, NEW t1 \in Tasks, task' = [task EXCEPT ![g] = t1], UNCHANGED wire,
           \/ t1.stage \in Ended /\ task[g].stage \in Awaiting /\ sync' = "Unsynced"
           \/ /\ sync' = sync
              /\ \/ t1.stage = task[g].stage
                 \/ \E stages \in {Awaiting, Ended} : {t1.stage, task[g].stage} \subseteq stages,
           \A f \in Seq(Messages) : \A r :
             f # <<>> /\ Head(f) = m /\ m.at = g[2] /\ task[g].stage # "none" /\ OnCourse(task[g], f, g[2], r)
               => OnCourse(t1, Tail(f), g[2], r)
    PROVE  \E sent : Handled(g, m, t1, sent)
<1>1. wire' = [wire EXCEPT ![g[1]] = @ \o <<>>]
    BY NothingSent, Zenon
<1>2. ASSUME NEW f \in Seq(Messages), NEW r,
             f # <<>> /\ Head(f) = m /\ m.at = g[2] /\ task[g].stage # "none" /\ OnCourse(task[g], f, g[2], r)
      PROVE  OnCourse(t1, Tail(f) \o <<>>, g[2], r)
    <2>1. OnCourse(t1, Tail(f), g[2], r)
        BY <1>2
    <2>2. Tail(f) \o <<>> = Tail(f)
        BY <1>2, Ahead, ConcatEmptySeq
    <2> QED BY <2>1, <2>2
<1>3. <<>> \in Seq(Messages) /\ Len(<<>>) = 0 /\ \A i \in 1..0 : FALSE
    OBVIOUS
<1>4. Handled(g, m, t1, <<>>)
    BY <1>1, <1>2, <1>3, Zenon DEF Handled
<1> QED BY <1>4, Zenon

(* handleReplyChannelRange *)
LEMMA RangeHandled ==
    ASSUME StreamsOK, TasksOK, count \in [Peers -> Nat], NEW g \in GossipPeers, NEW m \in Messages,
           m.kind = "range", HandleRange(g, m)
    PROVE  \E t1, sent : Handled(g, m, t1, sent)
<1> DEFINE legacy  == task[g].legacy \/ IsLegacyReply(m)
           results == task[g].results \o m.scids
           failed  == IF legacy THEN m.full /\ results = <<>> ELSE ~m.full
           done    == IF legacy THEN m.full ELSE m.last
<1>1. task[g] \in Tasks /\ task = [task EXCEPT ![g] = task[g]]
    BY DEF TasksOK
<1>2. ASSUME NEW f \in Seq(Messages), f # <<>>, Head(f) = m, m.at = g[2]
      PROVE  f[1] = m /\ IsReply(f, 1, "range", g[2])
    <2>1. Head(f) = f[1]
        BY <1>2, Ahead, Zenon
    <2> QED BY <1>2, <2>1 DEF IsReply
<1>3. ASSUME NEW f \in Seq(Messages), NEW r, f # <<>>, Head(f) = m, m.at = g[2], OnCourse(task[g], f, g[2], r),
             task[g].stage = "AwaitingChannelRange"
      PROVE  NoEnd(Tail(f), g[2])
    BY <1>3, NoEndLeft DEF OnCourse
<1>4. CASE task[g].stage = "AwaitingChannelRange" /\ Fail(g, task[g], "Failed")
    <2>1. PICK t1 : t1 = [task[g] EXCEPT !.stage = "Failed"]
        OBVIOUS
    <2>2. t1 \in Tasks /\ t1.stage \in Ended
        BY <1>1, <2>1 DEF Tasks, Ended
    <2>3. task' = [task EXCEPT ![g] = t1] /\ sync' = "Unsynced" /\ UNCHANGED wire /\ task[g].stage \in Awaiting
        BY <1>4, <2>1 DEF Fail, Awaiting
    <2>4. \A f \in Seq(Messages) : \A r :
            f # <<>> /\ Head(f) = m /\ m.at = g[2] /\ task[g].stage # "none" /\ OnCourse(task[g], f, g[2], r)
              => OnCourse(t1, Tail(f), g[2], r)
        BY <1>3, <1>4, <2>2, CourseEnded
    <2> QED BY <2>2, <2>3, <2>4, QuietHandled, Zenon
<1>5. CASE task[g].stage = "AwaitingChannelRange" /\ ~failed /\ done /\ QueryChannels(g, results)
    <2>1. results \in Seq(Known)
        <3>1. task[g].results \in Seq(Known) /\ m.scids \in Seq(Known)
            BY <1>1 DEF Tasks, Messages
        <3> HIDE DEF Known
        <3> QED BY <3>1, ConcatProperties
    <2>2. m.full /\ (m.last \/ task[g].legacy \/ IsLegacyReply(m))
        BY <1>5 DEF Messages
    <2>3. ASSUME NEW f \in Seq(Messages), NEW r,
                 f # <<>> /\ Head(f) = m /\ m.at = g[2] /\ OnCourse(task[g], f, g[2], r)
          PROVE  NoEnd(Tail(f), g[2]) /\ Known \subseteq Listed(results)
        <3>1. RangesCover(task[g], f, g[2])
            BY <1>5, <2>3 DEF OnCourse
        <3>2. f[1] = m /\ IsReply(f, 1, "range", g[2])
            BY <1>2, <2>3
        <3> HIDE DEF Known
        <3>3. Known \subseteq Listed(task[g].results \o f[1].scids)
            BY <1>1, <1>5, <2>2, <2>3, <3>1, <3>2, RangeComplete, Zenon
        <3> QED BY <1>3, <1>5, <2>3, <3>2, <3>3
    <2>4. task[g].stage \in Awaiting
        BY <1>5 DEF Awaiting
    <2> HIDE DEF results, legacy, failed, done
    <2> QED BY <1>5, <2>1, <2>3, <2>4, QueryHandled, Zenon
<1>6. CASE /\ task[g].stage = "AwaitingChannelRange"
           /\ task' = [task EXCEPT ![g].legacy = legacy, ![g].results = results]
           /\ UNCHANGED <<sync, relay, wire>>
    <2>0. results \in Seq(Known) /\ legacy \in BOOLEAN
        <3>1. task[g].results \in Seq(Known) /\ m.scids \in Seq(Known) /\ task[g].legacy \in BOOLEAN
            BY <1>1 DEF Tasks, Messages
        <3> HIDE DEF Known
        <3> QED BY <3>1, ConcatProperties DEF IsLegacyReply
    <2> HIDE DEF legacy
    <2>1. PICK t1 : t1 = [task[g] EXCEPT !.legacy = legacy, !.results = results]
        OBVIOUS
    <2>2. t1 \in Tasks /\ t1.stage = task[g].stage /\ t1.results = results
        <3> HIDE DEF results, Known
        <3> QED BY <1>1, <2>0, <2>1 DEF Tasks
    <2>3. task' = [task EXCEPT ![g] = t1] /\ sync' = sync /\ UNCHANGED wire
        <3> HIDE DEF results
        <3> QED BY <1>6, <2>1 DEF TasksOK
    <2>4. ASSUME NEW f \in Seq(Messages), NEW r,
                 f # <<>> /\ Head(f) = m /\ m.at = g[2] /\ OnCourse(task[g], f, g[2], r)
          PROVE  OnCourse(t1, Tail(f), g[2], r)
        <3>1. f[1] = m /\ IsReply(f, 1, "range", g[2])
            BY <1>2, <2>4
        <3> QED BY <1>1, <1>6, <2>2, <2>4, <3>1, CourseRange, Zenon
    <2> QED BY <2>2, <2>3, <2>4, QuietHandled, Zenon
<1>7. CASE task[g].stage # "AwaitingChannelRange" /\ UNCHANGED <<task, sync, relay, wire>>
    <2>1. ASSUME NEW f \in Seq(Messages), NEW r,
                 f # <<>> /\ Head(f) = m /\ m.at = g[2] /\ OnCourse(task[g], f, g[2], r)
          PROVE  OnCourse(task[g], Tail(f), g[2], r)
        BY <1>1, <1>7, <2>1, CourseReplyPassed
    <2> QED BY <1>1, <1>7, <2>1, QuietHandled, Zenon
<1> QED BY <1>4, <1>5, <1>6, <1>7, Zenon DEF HandleRange

(* handleReplyShortChannelIdsEnd *)
LEMMA EndHandled ==
    ASSUME StreamsOK, TasksOK, count \in [Peers -> Nat], NEW g \in GossipPeers, NEW m \in Messages,
           m.kind = "end", task[g].stage # "none", HandleEnd(g, m)
    PROVE  \E t1, sent : Handled(g, m, t1, sent)
<1>0. g[1] \in Peers /\ count[g[1]] \in Nat
    BY DEF GossipPeers, Of
<1>1. task[g] \in Tasks /\ task = [task EXCEPT ![g] = task[g]]
    BY DEF TasksOK
<1>2. ASSUME NEW f \in Seq(Messages), NEW r, f # <<>>, Head(f) = m, m.at = g[2], OnCourse(task[g], f, g[2], r)
      PROVE  /\ f[1] = m /\ IsReply(f, 1, "end", g[2])
             /\ task[g].stage = "AwaitingChannels"
             /\ NoEnd(Tail(f), g[2])
             /\ m.full => \A s \in Known : s \in r \/ s \in Listed(task[g].queue)
    <2>1. Head(f) = f[1] /\ 1 \in 1..Len(f)
        BY <1>2, Ahead, Zenon
    <2>2. IsReply(f, 1, "end", g[2])
        BY <1>2, <2>1 DEF IsReply
    <2>3. task[g].stage = "AwaitingChannels"
        BY <1>2, <2>1, <2>2, Zenon DEF OnCourse, OneEnd
    <2>4. NoEnd(Tail(f), g[2])
        BY <1>2, <2>2, NoEndLeft DEF OnCourse
    <2>5. ASSUME m.full PROVE \A s \in Known : s \in r \/ s \in Listed(task[g].queue)
        <3>1. EndsCover(task[g], f, g[2], r)
            BY <1>2, <2>3 DEF OnCourse
        <3>2. f[1].full
            BY <1>2, <2>1, <2>5
        <3> QED BY <1>2, <2>2, <3>1, <3>2, EndComplete, Zenon
    <2> QED BY <1>2, <2>1, <2>2, <2>3, <2>4, <2>5
<1>3. CASE task[g].stage = "AwaitingChannels" /\ Fail(g, task[g], "Failed")
    <2>1. PICK t1 : t1 = [task[g] EXCEPT !.stage = "Failed"]
        OBVIOUS
    <2>2. t1 \in Tasks /\ t1.stage \in Ended
        BY <1>1, <2>1 DEF Tasks, Ended
    <2>3. task' = [task EXCEPT ![g] = t1] /\ sync' = "Unsynced" /\ UNCHANGED wire /\ task[g].stage \in Awaiting
        BY <1>3, <2>1 DEF Fail, Awaiting
    <2>4. \A f \in Seq(Messages) : \A r :
            f # <<>> /\ Head(f) = m /\ m.at = g[2] /\ task[g].stage # "none" /\ OnCourse(task[g], f, g[2], r)
              => OnCourse(t1, Tail(f), g[2], r)
        BY <1>2, <2>2, CourseEnded
    <2> QED BY <2>2, <2>3, <2>4, QuietHandled, Zenon
<1>4. CASE /\ m.full /\ task[g].queue # <<>>
           /\ IF Throws(g, m) THEN UNCHANGED wire ELSE AskForChannels(g[1], Chunk(task[g].queue))
           /\ task' = [task EXCEPT ![g].queue = AfterChunk(@)]
           /\ UNCHANGED <<sync, relay>>
    <2> DEFINE q == task[g].queue
    <2>1. PICK t1 : t1 = [task[g] EXCEPT !.queue = AfterChunk(q)]
        OBVIOUS
    <2>2. /\ Chunk(q) \in Seq(Known) /\ AfterChunk(q) \in Seq(Known)
          /\ Listed(q) \subseteq Listed(Chunk(q)) \union Listed(AfterChunk(q))
        <3> HIDE DEF Known
        <3>1. q \in Seq(Known)
            BY <1>1 DEF Tasks
        <3> HIDE DEF q
        <3> QED BY <3>1, ListedChunk, Zenon
    <2>3. task' = [task EXCEPT ![g] = t1] /\ sync' = sync
        BY <1>4, <2>1 DEF TasksOK
    <2> HIDE DEF q
    <2>4. t1 \in Tasks /\ t1.stage = task[g].stage /\ t1.queue = AfterChunk(q)
        <3> HIDE DEF Known
        <3> QED BY <1>1, <2>1, <2>2 DEF Tasks
    <2>5. CASE UNCHANGED wire
        <3>1. \A f \in Seq(Messages) : \A r :
                f # <<>> /\ Head(f) = m /\ m.at = g[2] /\ task[g].stage # "none" /\ OnCourse(task[g], f, g[2], r)
                  => OnCourse(t1, Tail(f), g[2], r)
            BY <1>2, <2>4, CourseEnded
        <3> QED BY <2>3, <2>4, <2>5, <3>1, QuietHandled, Zenon
    <2>6. CASE AskForChannels(g[1], Chunk(q))
        <3>1. PICK sent \in ChannelReplies(Chunk(q), count[g[1]]) : wire' = [wire EXCEPT ![g[1]] = @ \o sent]
            BY <2>6 DEF AskForChannels, Send
        <3>2. sent \in Seq(Messages) /\ \A i \in 1..Len(sent) : sent[i].at = count[g[1]] /\ sent[i].kind # "range"
            BY <1>0, <2>2, <3>1, ChannelRepliesTyped
        <3>3. ASSUME NEW f \in Seq(Messages), NEW r,
                     f # <<>> /\ Head(f) = m /\ m.at = g[2] /\ OnCourse(task[g], f, g[2], r)
              PROVE  OnCourse(t1, Tail(f) \o sent, g[2], r) /\ task[g].stage \in Awaiting
            <4>1. /\ task[g].stage = "AwaitingChannels" /\ NoEnd(Tail(f), g[2])
                  /\ \A s \in Known : s \in r \/ s \in Listed(q)
                BY <1>2, <1>4, <3>3 DEF q
            <4>2. \A s \in Known : s \in r \/ s \in Listed(Chunk(q)) \/ s \in Listed(t1.queue)
                BY <2>2, <2>4, <4>1
            <4>3. t1.stage = "AwaitingChannels" /\ t1.stage # "AwaitingChannelRange"
                BY <2>4, <4>1
            <4>4. OnCourse(t1, sent, g[2], r)
                BY <1>0, <2>2, <4>2, <4>3, ChannelCourse, Zenon
            <4>5. Tail(f) \in Seq(Messages)
                BY <3>3, Ahead, Zenon
            <4>6. OnCourse(t1, Tail(f) \o sent, g[2], r)
                BY <3>2, <4>1, <4>3, <4>4, <4>5, CourseBehind, Zenon DEF NoEnd
            <4> QED BY <4>1, <4>6 DEF Awaiting
        <3>4. Handled(g, m, t1, sent)
            BY <2>3, <2>4, <3>1, <3>2, <3>3, Zenon DEF Handled
        <3> QED BY <3>4, Zenon
    <2> QED BY <1>4, <2>5, <2>6, Zenon DEF q
<1>5. CASE /\ m.full /\ task[g].queue = <<>> /\ task[g].stage = "AwaitingChannels"
           /\ task' = [task EXCEPT ![g].stage = "AwaitingMessages"]
           /\ UNCHANGED <<sync, relay, wire>>
    <2>1. PICK t1 : t1 = [task[g] EXCEPT !.stage = "AwaitingMessages"]
        OBVIOUS
    <2>2. t1 \in Tasks /\ t1.stage = "AwaitingMessages" /\ t1.stage \in Awaiting /\ task[g].stage \in Awaiting
        BY <1>1, <1>5, <2>1 DEF Tasks, Awaiting
    <2>3. task' = [task EXCEPT ![g] = t1] /\ sync' = sync /\ UNCHANGED wire
        BY <1>5, <2>1 DEF TasksOK
    <2>4. Listed(task[g].queue) = {}
        BY <1>5 DEF Listed
    <2>5. ASSUME NEW f \in Seq(Messages), NEW r,
                 f # <<>> /\ Head(f) = m /\ m.at = g[2] /\ OnCourse(task[g], f, g[2], r)
          PROVE  OnCourse(t1, Tail(f), g[2], r)
        <3>1. NoEnd(Tail(f), g[2]) /\ \A s \in Known : s \in r \/ s \in Listed(task[g].queue)
            BY <1>2, <1>5, <2>5
        <3>2. Known \subseteq r
            BY <2>4, <3>1
        <3> QED BY <2>2, <3>1, <3>2, CourseEnded
    <2> QED BY <2>2, <2>3, <2>5, QuietHandled, Zenon
<1>6. CASE /\ task[g].stage = "Aborted"
           /\ task' = [task EXCEPT ![g].stage = "Failed"]
           /\ UNCHANGED <<sync, relay, wire>>
    <2>1. PICK t1 : t1 = [task[g] EXCEPT !.stage = "Failed"]
        OBVIOUS
    <2>2. t1 \in Tasks /\ t1.stage \in Ended /\ {t1.stage, task[g].stage} \subseteq Ended
        BY <1>1, <1>6, <2>1 DEF Tasks, Ended
    <2>3. task' = [task EXCEPT ![g] = t1] /\ sync' = sync /\ UNCHANGED wire
        BY <1>6, <2>1 DEF TasksOK
    <2>4. \A f \in Seq(Messages) : \A r :
            f # <<>> /\ Head(f) = m /\ m.at = g[2] /\ task[g].stage # "none" /\ OnCourse(task[g], f, g[2], r)
              => OnCourse(t1, Tail(f), g[2], r)
        BY <1>2, <2>2, CourseEnded
    <2> QED BY <2>2, <2>3, <2>4, QuietHandled, Zenon
<1>7. CASE task[g].stage # "AwaitingChannels" /\ UNCHANGED <<task, sync, relay, wire>>
    <2>1. \A f \in Seq(Messages) : \A r :
            f # <<>> /\ Head(f) = m /\ m.at = g[2] /\ task[g].stage # "none" /\ OnCourse(task[g], f, g[2], r)
              => OnCourse(task[g], Tail(f), g[2], r)
        BY <1>2, <1>7
    <2> QED BY <1>1, <1>7, <2>1, QuietHandled, Zenon
<1> QED BY <1>3, <1>4, <1>5, <1>6, <1>7, Zenon DEF HandleEnd, Asks

LEMMA MessageHandled ==
    ASSUME StreamsOK, TasksOK, count \in [Peers -> Nat], NEW g \in GossipPeers, NEW m \in Messages,
           m.kind \in {"range", "end"}, HandleWireMessage(g, m)
    PROVE  \E t1, sent : Handled(g, m, t1, sent)
<1>1. CASE m.kind = "range" /\ HandleRange(g, m)
    BY <1>1, RangeHandled
<1>2. CASE m.kind = "end" /\ task[g].stage # "none" /\ HandleEnd(g, m)
    BY <1>2, EndHandled
<1>3. CASE task[g].stage = "none" /\ UNCHANGED <<task, sync, relay, wire>>
    <2>1. task[g] \in Tasks /\ task = [task EXCEPT ![g] = task[g]]
        BY DEF TasksOK
    <2> QED BY <1>3, <2>1, QuietHandled
<1> QED BY <1>1, <1>2, <1>3, Zenon DEF HandleWireMessage

-----------------------------------------------------------------------------
(* The stream of a Peer and what is on the wire behind it. *)
LEMMA FlowTail ==
    ASSUME NEW S, NEW a \in Seq(S), a # <<>>, NEW b \in Seq(S)
    PROVE  a \o b # <<>> /\ Head(a \o b) = Head(a) /\ Tail(a \o b) = Tail(a) \o b
<1> DEFINE F == a \o b
           G == Tail(a) \o b
<1>1. F \in Seq(S) /\ Joins(a, b, F)
    BY Behind, Zenon
<1>2. /\ Tail(a) \in Seq(S) /\ Head(a) = a[1] /\ Len(a) \in Nat /\ 1 \in 1..Len(a)
      /\ Len(Tail(a)) = Len(a) - 1
      /\ \A i \in 1..Len(Tail(a)) : Tail(a)[i] = a[i + 1] /\ i + 1 \in 1..Len(a)
    BY Ahead, Zenon
<1>3. G \in Seq(S) /\ Joins(Tail(a), b, G)
    BY <1>2, Behind, Zenon
<1> HIDE DEF F, G
<1>4. F # <<>> /\ Len(F) \in Nat
    BY <1>1, <1>2 DEF Joins
<1>5. /\ Tail(F) \in Seq(S) /\ Head(F) = F[1] /\ Len(Tail(F)) = Len(F) - 1
      /\ \A i \in 1..Len(Tail(F)) : Tail(F)[i] = F[i + 1] /\ i + 1 \in 1..Len(F)
    BY <1>1, <1>4, Ahead, Zenon
<1>6. Head(F) = Head(a)
    BY <1>1, <1>2, <1>5 DEF Joins
<1>7. Len(Tail(F)) = Len(G)
    BY <1>1, <1>2, <1>3, <1>5 DEF Joins
<1>8. ASSUME NEW i \in 1..Len(Tail(F)) PROVE Tail(F)[i] = G[i]
    <2>1. Tail(F)[i] = F[i + 1] /\ i \in 1..Len(G)
        BY <1>5, <1>7
    <2>2. CASE i \in 1..Len(Tail(a))
        <3>1. F[i + 1] = a[i + 1] /\ G[i] = Tail(a)[i] /\ Tail(a)[i] = a[i + 1]
            BY <1>1, <1>2, <1>3, <2>2, Zenon DEF Joins
        <3> QED BY <2>1, <3>1
    <2>3. CASE i \notin 1..Len(Tail(a))
        <3>1. PICK j \in 1..Len(b) : i = Len(Tail(a)) + j
            BY <1>3, <2>1, <2>3, Zenon DEF Joins
        <3>2. G[i] = b[j]
            BY <1>3, <3>1, Zenon DEF Joins
        <3>3. i + 1 = Len(a) + j
            BY <1>2, <3>1
        <3>4. F[i + 1] = b[j]
            BY <1>1, <3>3, Zenon DEF Joins
        <3> QED BY <2>1, <3>2, <3>4
    <2> QED BY <2>2, <2>3
<1>9. Tail(F) = G
    BY <1>3, <1>5, <1>7, <1>8, SeqEqual, Zenon
<1> QED BY <1>4, <1>6, <1>9 DEF F, G

LEMMA FlowMoved ==
    ASSUME NEW S, NEW a \in Seq(S), NEW b \in Seq(S), b # <<>>
    PROVE  Append(a, Head(b)) \in Seq(S) /\ Append(a, Head(b)) \o Tail(b) = a \o b
<1>1. Head(b) \in S /\ Tail(b) \in Seq(S)
    BY HeadTailProperties, Zenon
<1>2. Append(a, Head(b)) = a \o <<Head(b)>>
    BY <1>1
<1>3. <<Head(b)>> \o Tail(b) = b
    BY <1>1
<1>4. <<Head(b)>> \in Seq(S)
    BY <1>1
<1>5. (a \o <<Head(b)>>) \o Tail(b) = a \o (<<Head(b)>> \o Tail(b))
    <2>1. PICK x : x = <<Head(b)>>
        OBVIOUS
    <2>2. x \in Seq(S)
        BY <1>4, <2>1
    <2>3. (a \o x) \o Tail(b) = a \o (x \o Tail(b))
        BY <1>1, <2>2, ConcatAssociative
    <2> QED BY <2>1, <2>3
<1>6. Append(a, Head(b)) \in Seq(S)
    BY <1>1
<1> QED BY <1>2, <1>3, <1>5, <1>6

(* What the readers and the connections do to a stream: nothing, losing what *)
(* is on the wire, or taking a message that is no reply.                     *)
Passing(f, f1, r1) ==
  \/ f1 = f
  \/ \E m \in Seq(Messages) : f = f1 \o m
  \/ /\ f # <<>> /\ f1 = Tail(f) /\ Head(f).kind \in {"gossip", "unknown"}
     /\ Head(f).kind = "gossip" => Head(f).scids[1] \in r1

LEMMA CourseMore ==
    ASSUME NEW t, NEW f, NEW at, NEW r, NEW r1, r \subseteq r1, OnCourse(t, f, at, r)
    PROVE  OnCourse(t, f, at, r1)
<1>1. EndsCover(t, f, at, r) => EndsCover(t, f, at, r1)
    BY DEF EndsCover
<1> QED BY <1>1 DEF OnCourse

LEMMA CoursePassing ==
    ASSUME NEW f \in Seq(Messages), NEW f1 \in Seq(Messages), NEW r, NEW r1, r \subseteq r1, Passing(f, f1, r1)
    PROVE  /\ \A i \in 1..Len(f1) : \E j \in 1..Len(f) : f1[i] = f[j]
           /\ f = <<>> => f1 = <<>>
           /\ \A t, at : OnCourse(t, f, at, r) => OnCourse(t, f1, at, r1)
<1>1. CASE f1 = f
    BY <1>1, CourseMore
<1>2. ASSUME NEW m \in Seq(Messages), f = f1 \o m
      PROVE  /\ \A i \in 1..Len(f1) : \E j \in 1..Len(f) : f1[i] = f[j]
             /\ f = <<>> => f1 = <<>>
             /\ \A t, at : OnCourse(t, f, at, r) => OnCourse(t, f1, at, r1)
    <2>1. Joins(f1, m, f)
        BY <1>2, Behind
    <2>2. \A i \in 1..Len(f1) : \E j \in 1..Len(f) : f1[i] = f[j]
        BY <2>1 DEF Joins
    <2>3. f = <<>> => f1 = <<>>
        BY <1>2, ConcatSimplifications
    <2>4. \A t, at : OnCourse(t, f, at, r) => OnCourse(t, f1, at, r1)
        <3>1. ASSUME NEW t, NEW at, OnCourse(t, f, at, r) PROVE OnCourse(t, f1, at, r)
            BY <1>2, <3>1, CourseCut
        <3> QED BY <3>1, CourseMore
    <2> QED BY <2>2, <2>3, <2>4
<1>3. CASE /\ f # <<>> /\ f1 = Tail(f) /\ Head(f).kind \in {"gossip", "unknown"}
           /\ Head(f).kind = "gossip" => Head(f).scids[1] \in r1
    <2>1. \A i \in 1..Len(f1) : \E j \in 1..Len(f) : f1[i] = f[j]
        BY <1>3, Ahead
    <2>2. \A t, at : OnCourse(t, f, at, r) => OnCourse(t, f1, at, r1)
        BY <1>3, CourseAhead
    <2> QED BY <1>3, <2>1, <2>2
<1> QED BY <1>1, <1>2, <1>3 DEF Passing

LEMMA Named ==
    ASSUME NEW g \in GossipPeers
    PROVE  g[1] \in Peers /\ g[2] \in Nat /\ g = <<g[1], g[2]>>
<1>1. PICK p \in Peers : g \in {p} \X (1..MaxReady[p])
    BY DEF GossipPeers, Of
<1>2. MaxReady[p] \in Nat
    BY BoundsAssumption
<1> QED BY <1>1, <1>2

LEMMA FlowTyped ==
    ASSUME StreamsOK, NEW p \in Peers
    PROVE  inbox[p] \in Seq(Messages) /\ wire[p] \in Seq(Messages) /\ Flow(p) \in Seq(Messages)
<1>1. inbox[p] \in Seq(Messages) /\ wire[p] \in Seq(Messages)
    BY DEF StreamsOK
<1> QED BY <1>1, ConcatProperties DEF Flow

(* The steps that no task takes part in. *)
LEMMA QuietStep ==
    ASSUME SyncInv, IInv', StreamsOK', UNCHANGED <<task, sync, astray>>, had \subseteq had', added \subseteq added',
           \A p \in Peers : count[p] <= count'[p],
           \A p \in Peers : Passing(Flow(p), Flow(p)', had')
    PROVE  SyncInv'
<1>1. count \in [Peers -> Nat] /\ count' \in [Peers -> Nat]
    BY DEF SyncInv, IInv, TypeOK
<1>2. ASSUME NEW p \in Peers
      PROVE  /\ Flow(p) \in Seq(Messages) /\ Flow(p)' \in Seq(Messages)
             /\ \A i \in 1..Len(Flow(p)') : \E j \in 1..Len(Flow(p)) : (Flow(p)')[i] = (Flow(p))[j]
             /\ Flow(p) = <<>> => Flow(p)' = <<>>
             /\ \A t, at : OnCourse(t, Flow(p), at, had) => OnCourse(t, Flow(p)', at, had')
    <2>1. Flow(p) \in Seq(Messages)
        BY FlowTyped DEF SyncInv
    <2>2. Flow(p)' \in Seq(Messages)
        <3>1. inbox'[p] \in Seq(Messages) /\ wire'[p] \in Seq(Messages)
            BY DEF StreamsOK
        <3> QED BY <3>1, ConcatProperties DEF Flow
    <2>3. Passing(Flow(p), Flow(p)', had')
        OBVIOUS
    <2>4. PICK f, f1 : f = Flow(p) /\ f1 = Flow(p)'
        OBVIOUS
    <2>5. /\ \A i \in 1..Len(f1) : \E j \in 1..Len(f) : f1[i] = f[j]
          /\ f = <<>> => f1 = <<>>
          /\ \A t, at : OnCourse(t, f, at, had) => OnCourse(t, f1, at, had')
        <3>1. f \in Seq(Messages) /\ f1 \in Seq(Messages) /\ Passing(f, f1, had')
            BY <2>1, <2>2, <2>3, <2>4
        <3>2. had \subseteq had'
            OBVIOUS
        <3> QED BY <3>1, <3>2, CoursePassing, Zenon
    <2> QED BY <2>1, <2>2, <2>4, <2>5
<1>3. TasksOK'
    BY DEF SyncInv, TasksOK
<1>4. Recent'
    <2> SUFFICES ASSUME NEW p \in Peers
                 PROVE  /\ \A i \in 1..Len(Flow(p)') : (Flow(p)')[i].at <= count'[p]
                        /\ p \notin added' => Flow(p)' = <<>>
        BY DEF Recent
    <2>1. p \notin added' => Flow(p)' = <<>>
        BY <1>2 DEF SyncInv, Recent
    <2>2. ASSUME NEW i \in 1..Len(Flow(p)') PROVE (Flow(p)')[i].at <= count'[p]
        <3>1. PICK j \in 1..Len(Flow(p)) : (Flow(p)')[i] = (Flow(p))[j]
            BY <1>2
        <3>2. (Flow(p))[j].at <= count[p] /\ (Flow(p))[j].at \in Nat
            <4>1. (Flow(p))[j] \in Messages
                BY <1>2, ElementOfSeq
            <4> QED BY <4>1 DEF SyncInv, Recent, Messages
        <3> HIDE DEF Flow
        <3>3. count[p] \in Nat /\ count'[p] \in Nat /\ count[p] <= count'[p]
            BY <1>1
        <3> QED BY <3>1, <3>2, <3>3
    <2> QED BY <2>1, <2>2
<1>5. Born'
    <2> SUFFICES ASSUME NEW g \in GossipPeers, task[g].stage # "none"
                 PROVE  g[1] \in added' /\ g[2] <= count'[g[1]]
        BY DEF Born
    <2>1. g[1] \in added /\ g[2] <= count[g[1]] /\ g[1] \in Peers /\ g[2] \in Nat
        BY Named DEF SyncInv, Born
    <2> QED BY <1>1, <2>1
<1>6. OneAwaits' /\ EarlierDone'
    BY DEF SyncInv, OneAwaits, EarlierDone
<1>7. Courses'
    <2> SUFFICES ASSUME ~astray, NEW g \in GossipPeers, task[g].stage # "none"
                 PROVE  OnCourse(task[g], Flow(g[1])', g[2], had')
        BY DEF Courses
    <2>1. OnCourse(task[g], Flow(g[1]), g[2], had)
        BY DEF SyncInv, Courses
    <2> QED BY <1>2, <2>1, Named
<1>8. AllHad'
    BY DEF SyncInv, AllHad
<1> QED BY <1>3, <1>4, <1>5, <1>6, <1>7, <1>8 DEF SyncInv

LEMMA SameFlow ==
    ASSUME SyncInv, IInv', UNCHANGED <<task, sync, astray, had, wire, inbox>>, added \subseteq added',
           \A p \in Peers : count[p] <= count'[p]
    PROVE  SyncInv'
<1>1. StreamsOK'
    BY DEF SyncInv, StreamsOK
<1>2. \A p \in Peers : Passing(Flow(p), Flow(p)', had')
    BY DEF Passing, Flow
<1> QED BY <1>1, <1>2, QuietStep

LEMMA CutSync ==
    ASSUME SyncInv, IInv', NEW p \in Peers, Drop(p) \/ Close(p) PROVE SyncInv'
<1>1. /\ wire' = [wire EXCEPT ![p] = <<>>]
      /\ UNCHANGED <<task, sync, astray, had, added, count, inbox>>
    BY DEF Drop, Close, Cut
<1>2. StreamsOK'
    BY <1>1 DEF SyncInv, StreamsOK
<1>3. \A q \in Peers : count[q] <= count'[q]
    BY <1>1 DEF SyncInv, IInv, TypeOK
<1>4. ASSUME NEW q \in Peers PROVE Passing(Flow(q), Flow(q)', had')
    <2>1. CASE q # p
        <3>1. Flow(q)' = Flow(q)
            BY <1>1, <2>1 DEF Flow, SyncInv, StreamsOK
        <3> QED BY <3>1 DEF Passing
    <2>2. CASE q = p
        <3>1. Flow(q)' = inbox[q] \o <<>>
            BY <1>1, <2>2 DEF Flow, SyncInv, StreamsOK
        <3>2. inbox[q] \in Seq(Messages) /\ wire[q] \in Seq(Messages)
            BY FlowTyped DEF SyncInv
        <3>3. Flow(q)' = inbox[q]
            BY <3>1, <3>2, ConcatEmptySeq
        <3>4. Flow(q) = Flow(q)' \o wire[q]
            BY <3>3 DEF Flow
        <3> QED BY <3>2, <3>4 DEF Passing
    <2> QED BY <2>1, <2>2
<1> QED BY <1>1, <1>2, <1>3, <1>4, QuietStep

LEMMA DeliverSync ==
    ASSUME SyncInv, IInv', NEW p \in Peers, Deliver(p) PROVE SyncInv'
<1>1. /\ wire[p] # <<>>
      /\ inbox' = [inbox EXCEPT ![p] = Append(@, Head(wire[p]))]
      /\ wire' = [wire EXCEPT ![p] = Tail(@)]
      /\ UNCHANGED <<task, sync, astray, had, added, count>>
    BY DEF Deliver, links, manager, history
<1>2. \A q \in Peers : inbox[q] \in Seq(Messages) /\ wire[q] \in Seq(Messages)
    BY FlowTyped DEF SyncInv
<1>3. /\ Append(inbox[p], Head(wire[p])) \in Seq(Messages) /\ Tail(wire[p]) \in Seq(Messages)
      /\ Append(inbox[p], Head(wire[p])) \o Tail(wire[p]) = inbox[p] \o wire[p]
    BY <1>1, <1>2, FlowMoved, HeadTailProperties
<1>4. inbox' \in [Peers -> Seq(Messages)]
    BY <1>1, <1>3 DEF SyncInv, StreamsOK
<1>5. wire' \in [Peers -> Seq(Messages)]
    BY <1>1, <1>3 DEF SyncInv, StreamsOK
<1>6. ASSUME NEW q \in Peers PROVE Flow(q)' = Flow(q)
    <2>1. CASE q # p
        BY <1>1, <2>1 DEF Flow, SyncInv, StreamsOK
    <2>2. CASE q = p
        <3>1. inbox'[p] = Append(inbox[p], Head(wire[p])) /\ wire'[p] = Tail(wire[p])
            BY <1>1 DEF SyncInv, StreamsOK
        <3> QED BY <1>3, <2>2, <3>1 DEF Flow
    <2> QED BY <2>1, <2>2
<1>7. \A q \in Peers : Passing(Flow(q), Flow(q)', had')
    BY <1>6 DEF Passing
<1>8. \A q \in Peers : count[q] <= count'[q]
    BY <1>1 DEF SyncInv, IInv, TypeOK
<1> QED BY <1>1, <1>4, <1>5, <1>7, <1>8, QuietStep DEF StreamsOK

LEMMA ReaderSync ==
    ASSUME SyncInv, IInv', NEW g \in GossipPeers, ReadUnknown(g) \/ ReadGossip(g) \/ Filtered(g) \/ Drain(g)
    PROVE  SyncInv'
<1>0. \A q \in Peers : count[q] <= count[q]
    BY DEF SyncInv, IInv, TypeOK
<1>1. CASE Filtered(g) \/ Drain(g)
    BY <1>0, <1>1, SameFlow DEF Filtered, Drain, links, traffic, manager, history
<1>2. CASE ReadUnknown(g) \/ ReadGossip(g)
    <2> DEFINE p == g[1]
               m == Head(inbox[p])
    <2>1. /\ inbox[p] # <<>> /\ inbox' = [inbox EXCEPT ![p] = Tail(@)]
          /\ UNCHANGED <<task, sync, astray, added, count, wire>>
          /\ had \subseteq had' /\ m.kind \in {"gossip", "unknown"} /\ (m.kind = "gossip" => m.scids[1] \in had')
        <3>1. CASE ReadUnknown(g)
            BY <3>1 DEF ReadUnknown, links, manager
        <3>2. CASE ReadGossip(g)
            BY <3>2 DEF ReadGossip, links, manager
        <3> QED BY <1>2, <3>1, <3>2
    <2>2. p \in Peers
        BY Named
    <2>3. inbox[p] \in Seq(Messages) /\ wire[p] \in Seq(Messages)
        BY <2>2, FlowTyped DEF SyncInv
    <2>4. /\ Tail(inbox[p]) \in Seq(Messages)
          /\ Flow(p) # <<>> /\ Head(Flow(p)) = m /\ Tail(Flow(p)) = Tail(inbox[p]) \o wire[p]
        <3>1. PICK a, b : a = inbox[p] /\ b = wire[p]
            OBVIOUS
        <3>2. a \o b # <<>> /\ Head(a \o b) = Head(a) /\ Tail(a \o b) = Tail(a) \o b
            BY <2>1, <2>3, <3>1, FlowTail, Zenon
        <3>3. Tail(a) \in Seq(Messages)
            BY <2>1, <2>3, <3>1, HeadTailProperties, Zenon
        <3> QED BY <3>1, <3>2, <3>3, Zenon DEF Flow
    <2> HIDE DEF m, p
    <2>5. StreamsOK'
        BY <2>1, <2>4 DEF SyncInv, StreamsOK
    <2>6. ASSUME NEW q \in Peers PROVE Passing(Flow(q), Flow(q)', had')
        <3>1. CASE q # p
            <4>1. Flow(q)' = Flow(q)
                BY <2>1, <3>1 DEF Flow, SyncInv, StreamsOK
            <4> QED BY <4>1 DEF Passing
        <3>2. CASE q = p
            <4>1. Flow(p)' = Tail(inbox[p]) \o wire[p]
                <5>1. inbox'[p] = Tail(inbox[p]) /\ wire'[p] = wire[p]
                    BY <2>1, <2>2 DEF SyncInv, StreamsOK
                <5> QED BY <5>1 DEF Flow, p
            <4>2. Flow(q)' = Flow(p)'
                BY <3>2 DEF p
            <4>3. Flow(q)' = Tail(Flow(q))
                BY <2>4, <3>2, <4>1, <4>2
            <4> QED BY <2>1, <2>4, <3>2, <4>3 DEF Passing
        <3> QED BY <3>1, <3>2
    <2> QED BY <1>0, <2>1, <2>5, <2>6, QuietStep
<1> QED BY <1>1, <1>2

(* No scid is missing when the watcher has waited long enough. *)
LEMMA TimeoutSync ==
    ASSUME SyncInv, IInv', NEW g \in GossipPeers, Timeout(g) PROVE SyncInv'
<1>1. /\ task[g].stage = "AwaitingMessages" /\ task' = [task EXCEPT ![g] = NoTask]
      /\ UNCHANGED <<astray, had, added, count, inbox, wire>>
    BY DEF Timeout, links, traffic, history
<1>2. NoTask \in Tasks /\ NoTask.stage = "none"
    BY DEF NoTask, Tasks
<1>3. /\ TasksOK' /\ task'[g].stage = "none"
      /\ \A h \in GossipPeers : h # g => task'[h] = task[h]
    BY <1>1, <1>2 DEF SyncInv, TasksOK
<1>4. StreamsOK' /\ Recent'
    BY <1>1 DEF SyncInv, StreamsOK, Recent, Flow
<1>5. Born'
    BY <1>1, <1>3 DEF SyncInv, Born
<1>6. \A h \in GossipPeers : task'[h].stage \notin Awaiting
    <2> SUFFICES ASSUME NEW h \in GossipPeers, task'[h].stage \in Awaiting PROVE FALSE
        OBVIOUS
    <2>1. h # g /\ task[h].stage \in Awaiting
        BY <1>3 DEF Awaiting
    <2>2. task[g].stage \in Awaiting
        BY <1>1 DEF Awaiting
    <2> QED BY <2>1, <2>2 DEF SyncInv, OneAwaits
<1>7. OneAwaits' /\ EarlierDone'
    BY <1>6 DEF OneAwaits, EarlierDone
<1>8. Courses'
    <2> SUFFICES ASSUME ~astray, NEW h \in GossipPeers, task'[h].stage # "none"
                 PROVE  OnCourse(task'[h], Flow(h[1]), h[2], had)
        BY <1>1 DEF Courses, Flow
    <2>1. task'[h] = task[h]
        BY <1>3
    <2> QED BY <2>1 DEF SyncInv, Courses
<1>9. AllHad'
    <2> SUFFICES ASSUME ~astray PROVE Known \subseteq had
        BY <1>1 DEF AllHad
    <2>1. OnCourse(task[g], Flow(g[1]), g[2], had)
        BY <1>1 DEF SyncInv, Courses
    <2> QED BY <1>1, <2>1 DEF OnCourse
<1> QED BY <1>3, <1>4, <1>5, <1>7, <1>8, <1>9 DEF SyncInv

(* A GossipPeer that is new: what it starts is the only synchronisation, and *)
(* no message is meant for it yet.                                           *)
LEMMA OnPeerReadySync ==
    ASSUME SyncInv, IInv', NEW p \in Peers, NEW g \in GossipPeers, NEW online, NEW on, OnPeerReady(p, g, online, on),
           g[1] = p, g[2] = count'[p], p \in added', added \subseteq added',
           \A q \in Peers : count[q] <= count'[q],
           \A i \in 1..Len(Flow(p)) : (Flow(p))[i].at # g[2],
           UNCHANGED <<inbox, had>>
    PROVE  SyncInv'
<1>0. /\ count \in [Peers -> Nat] /\ count' \in [Peers -> Nat]
      /\ StreamsOK /\ TasksOK
      /\ \A q \in Peers : Flow(q) \in Seq(Messages) /\ inbox[q] \in Seq(Messages) /\ wire[q] \in Seq(Messages)
    BY FlowTyped DEF SyncInv, IInv, TypeOK
<1>1. CASE UNCHANGED <<wire, task, sync, relay, astray>>
    BY <1>1, SameFlow
<1>2. ASSUME sync = "Unsynced"
      PROVE  \A h \in GossipPeers : task[h].stage \notin Awaiting
    BY <1>2 DEF SyncInv, OneAwaits
<1>3. ASSUME NEW h \in GossipPeers, task[h].stage # "none"
      PROVE  h[1] \in added' /\ h[2] <= count'[h[1]]
    <2>1. h[1] \in added /\ h[2] <= count[h[1]] /\ h[1] \in Peers /\ h[2] \in Nat
        BY <1>3, Named DEF SyncInv, Born
    <2> QED BY <1>0, <2>1
<1>4. CASE sync = "Unsynced" /\ astray' = TRUE /\ UNCHANGED <<wire, task>>
    <2>1. StreamsOK' /\ TasksOK'
        BY <1>0, <1>4 DEF StreamsOK, TasksOK
    <2>2. Recent'
        <3> SUFFICES ASSUME NEW q \in Peers
                     PROVE  /\ \A i \in 1..Len(Flow(q)) : (Flow(q))[i].at <= count'[q]
                            /\ q \notin added' => Flow(q) = <<>>
            BY <1>4 DEF Recent, Flow
        <3>1. ASSUME NEW i \in 1..Len(Flow(q)) PROVE (Flow(q))[i].at <= count'[q]
            <4>1. (Flow(q))[i].at <= count[q] /\ (Flow(q))[i].at \in Nat
                <5>1. (Flow(q))[i] \in Messages
                    BY <1>0, ElementOfSeq
                <5> QED BY <5>1 DEF SyncInv, Recent, Messages
            <4> HIDE DEF Flow
            <4>2. count[q] \in Nat /\ count'[q] \in Nat /\ count[q] <= count'[q]
                BY <1>0
            <4> QED BY <4>1, <4>2
        <3> QED BY <3>1 DEF SyncInv, Recent
    <2>3. Born'
        BY <1>3, <1>4 DEF Born
    <2>4. OneAwaits' /\ EarlierDone' /\ Courses' /\ AllHad'
        BY <1>2, <1>4 DEF OneAwaits, EarlierDone, Courses, AllHad
    <2> QED BY <2>1, <2>2, <2>3, <2>4 DEF SyncInv
<1>5. CASE /\ sync = "Unsynced" /\ sync' = "Syncing" /\ astray' = astray
           /\ task' = [task EXCEPT ![g] = NewTask]
           /\ AskForRange(p, g[2])
    <2>1. PICK sent \in RangeReplies(g[2]) : wire' = [wire EXCEPT ![p] = @ \o sent]
        BY <1>5 DEF AskForRange, Send
    <2>2. /\ sent \in Seq(Messages) /\ \A i \in 1..Len(sent) : sent[i].at = g[2]
          /\ \A r : OnCourse(NewTask, sent, g[2], r)
        <3>1. g[2] \in Nat
            BY Named
        <3> QED BY <2>1, <3>1, RangeCourse
    <2>3. NewTask \in Tasks /\ NewTask.stage = "AwaitingChannelRange" /\ NewTask.stage \in Awaiting
        <3>1. NoTask \in Tasks
            BY DEF NoTask, Tasks
        <3> QED BY <3>1 DEF NewTask, Tasks, Awaiting
    <2>4. /\ TasksOK' /\ task'[g] = NewTask
          /\ \A h \in GossipPeers : h # g => task'[h] = task[h]
        BY <1>0, <1>5, <2>3 DEF TasksOK
    <2>5. wire[p] \o sent \in Seq(Messages)
        BY <1>0, <2>2, ConcatProperties
    <2>6. StreamsOK'
        BY <1>0, <2>1, <2>5 DEF StreamsOK
    <2>7. Flow(p)' = Flow(p) \o sent /\ \A q \in Peers : q # p => Flow(q)' = Flow(q)
        <3>1. wire'[p] = wire[p] \o sent /\ \A q \in Peers : q # p => wire'[q] = wire[q]
            BY <1>0, <2>1 DEF StreamsOK
        <3>2. inbox[p] \o (wire[p] \o sent) = (inbox[p] \o wire[p]) \o sent
            <4>1. PICK a, b : a = inbox[p] /\ b = wire[p]
                OBVIOUS
            <4>2. a \in Seq(Messages) /\ b \in Seq(Messages)
                BY <1>0, <4>1
            <4>3. (a \o b) \o sent = a \o (b \o sent)
                <5>1. sent \in Seq(Messages)
                    BY <2>2
                <5> QED BY <4>2, <5>1, ConcatAssociative
            <4> QED BY <4>1, <4>3
        <3> QED BY <3>1, <3>2 DEF Flow
    <2>8. Joins(Flow(p), sent, Flow(p)')
        <3>1. Joins(Flow(p), sent, Flow(p) \o sent)
            BY <1>0, <2>2, Behind, Zenon
        <3> QED BY <2>7, <3>1
    <2>9. Recent'
        <3> SUFFICES ASSUME NEW q \in Peers
                     PROVE  /\ \A i \in 1..Len(Flow(q)') : (Flow(q)')[i].at <= count'[q]
                            /\ q \notin added' => Flow(q)' = <<>>
            BY DEF Recent
        <3>1. ASSUME NEW i \in 1..Len(Flow(q)) PROVE (Flow(q))[i].at <= count'[q]
            <4>1. (Flow(q))[i].at <= count[q] /\ (Flow(q))[i].at \in Nat
                <5>1. (Flow(q))[i] \in Messages
                    BY <1>0, ElementOfSeq
                <5> QED BY <5>1 DEF SyncInv, Recent, Messages
            <4> HIDE DEF Flow
            <4>2. count[q] \in Nat /\ count'[q] \in Nat /\ count[q] <= count'[q]
                BY <1>0
            <4> QED BY <4>1, <4>2
        <3>2. CASE q # p
            BY <2>7, <3>1, <3>2 DEF SyncInv, Recent
        <3>3. CASE q = p
            <4>1. ASSUME NEW i \in 1..Len(Flow(p)') PROVE (Flow(p)')[i].at <= count'[p]
                <5>1. CASE i \in 1..Len(Flow(p))
                    <6>1. (Flow(p)')[i] = (Flow(p))[i]
                        BY <2>8, <5>1, Zenon DEF Joins
                    <6> QED BY <3>1, <3>3, <5>1, <6>1
                <5>2. ASSUME NEW j \in 1..Len(sent), i = Len(Flow(p)) + j PROVE (Flow(p)')[i].at <= count'[p]
                    <6>1. (Flow(p)')[i] = sent[j]
                        BY <2>8, <5>2, Zenon DEF Joins
                    <6>2. count'[p] \in Nat
                        BY <1>0
                    <6> QED BY <2>2, <6>1, <6>2
                <5> QED BY <2>8, <5>1, <5>2, Zenon DEF Joins
            <4> QED BY <3>3, <4>1
        <3> QED BY <3>2, <3>3
    <2>10. Born'
        <3> SUFFICES ASSUME NEW h \in GossipPeers, task'[h].stage # "none"
                     PROVE  h[1] \in added' /\ h[2] <= count'[h[1]]
            BY DEF Born
        <3>1. CASE h = g
            <4>1. count'[p] \in Nat
                BY <1>0
            <4> QED BY <3>1, <4>1
        <3>2. CASE h # g
            BY <1>3, <2>4, <3>2
        <3> QED BY <3>1, <3>2
    <2>11. OneAwaits'
        BY <1>2, <1>5, <2>4 DEF OneAwaits
    <2>12. EarlierDone'
        <3> SUFFICES ASSUME NEW a \in GossipPeers, NEW h \in GossipPeers, task'[a].stage # "none",
                            h[1] = a[1], h[2] < a[2], task'[h].stage \in Awaiting
                     PROVE  FALSE
            BY DEF EarlierDone
        <3>1. h = g
            BY <1>2, <1>5, <2>4
        <3>2. a # g
            BY <3>1, Named
        <3>3. a[2] <= count'[p]
            BY <1>3, <2>4, <3>1, <3>2
        <3> QED BY <1>0, <3>1, <3>3, Named
    <2>13. Courses'
        <3> SUFFICES ASSUME ~astray, NEW h \in GossipPeers, task'[h].stage # "none"
                     PROVE  OnCourse(task'[h], Flow(h[1])', h[2], had)
            BY <1>5 DEF Courses
        <3>1. CASE h = g
            <4>1. \A i \in 1..Len(Flow(p)) : ~IsReply(Flow(p), i, "end", g[2]) /\ ~IsReply(Flow(p), i, "range", g[2])
                BY DEF IsReply
            <4>2. OnCourse(NewTask, Flow(p) \o sent, g[2], had)
                BY <1>0, <2>2, <4>1, CourseBehind, Zenon
            <4> QED BY <2>4, <2>7, <3>1, <4>2
        <3>2. CASE h # g
            <4>1. OnCourse(task[h], Flow(h[1]), h[2], had) /\ task'[h] = task[h]
                BY <2>4, <3>2 DEF SyncInv, Courses
            <4>2. CASE h[1] # p
                BY <2>7, <4>1, <4>2, Named
            <4>3. CASE h[1] = p
                <5>1. h[2] # g[2]
                    BY <3>2, <4>3, Named
                <5>2. \A i \in 1..Len(sent) : ~IsReply(sent, i, "range", h[2]) /\ ~IsReply(sent, i, "end", h[2])
                    BY <2>2, <5>1 DEF IsReply
                <5>3. OnCourse(task[h], Flow(p) \o sent, h[2], had)
                    BY <1>0, <2>2, <4>1, <4>3, <5>2, CourseLonger, Zenon
                <5> QED BY <2>7, <4>1, <4>3, <5>3
            <4> QED BY <4>2, <4>3
        <3> QED BY <3>1, <3>2
    <2>14. AllHad'
        BY <1>5 DEF AllHad
    <2> QED BY <2>4, <2>6, <2>9, <2>10, <2>11, <2>12, <2>13, <2>14 DEF SyncInv
<1> QED BY <1>1, <1>4, <1>5, Zenon DEF OnPeerReady

LEMMA AddPeerSync ==
    ASSUME SyncInv, IInv', NEW p \in Peers, AddPeer(p) PROVE SyncInv'
<1>1. /\ p \notin added /\ added' = added \union {p} /\ count' = count
      /\ UNCHANGED <<inbox, had>>
    BY DEF AddPeer
<1>2. count \in [Peers -> Nat] /\ \A q \in Peers : count[q] <= count'[q]
    BY <1>1 DEF SyncInv, IInv, TypeOK
<1>3. CASE conn[p] # "ready"
    <2>1. UNCHANGED <<task, wire, sync, astray>>
        BY <1>3 DEF AddPeer
    <2> QED BY <1>1, <1>2, <2>1, SameFlow
<1>4. CASE conn[p] = "ready"
    <2>1. PICK g : g = <<p, count[p]>>
        OBVIOUS
    <2>2. g \in GossipPeers /\ g[1] = p /\ g[2] = count'[p]
        <3>1. count[p] \in 1..MaxReady[p]
            BY <1>4, BoundsAssumption DEF SyncInv, IInv, TypeOK, Counted
        <3> QED BY <1>1, <2>1, <3>1 DEF GossipPeers, Of
    <2>3. OnPeerReady(p, g, conn, enabled)
        BY <1>4, <2>1 DEF AddPeer
    <2>4. Flow(p) = <<>>
        BY <1>1 DEF SyncInv, Recent
    <2>5. \A i \in 1..Len(Flow(p)) : (Flow(p))[i].at # g[2]
        BY <2>4
    <2> QED BY <1>1, <1>2, <2>2, <2>3, <2>5, OnPeerReadySync
<1> QED BY <1>3, <1>4

LEMMA BecomeReadySync ==
    ASSUME SyncInv, IInv', NEW p \in Peers, BecomeReady(p) PROVE SyncInv'
<1>1. /\ count[p] < MaxReady[p] /\ count' = [count EXCEPT ![p] = @ + 1]
      /\ UNCHANGED <<added, inbox, had>>
    BY DEF BecomeReady
<1>2. count \in [Peers -> Nat]
    BY DEF SyncInv, IInv, TypeOK
<1>3. count'[p] = count[p] + 1 /\ \A q \in Peers : count[q] <= count'[q]
    BY <1>1, <1>2
<1>4. CASE p \notin added
    <2>1. UNCHANGED <<task, wire, sync, astray>>
        BY <1>4 DEF BecomeReady
    <2> QED BY <1>1, <1>3, <2>1, SameFlow
<1>5. CASE p \in added
    <2>1. PICK g : g = <<p, count[p] + 1>>
        OBVIOUS
    <2>2. g \in GossipPeers /\ g[1] = p /\ g[2] = count'[p]
        <3>1. count[p] + 1 \in 1..MaxReady[p]
            BY <1>1, <1>2, BoundsAssumption
        <3> QED BY <1>3, <2>1, <3>1 DEF GossipPeers, Of
    <2>3. \E online, on : OnPeerReady(p, g, online, on)
        BY <1>5, <2>1, Zenon DEF BecomeReady
    <2>4. ASSUME NEW i \in 1..Len(Flow(p)) PROVE (Flow(p))[i].at # g[2]
        <3>1. (Flow(p))[i] \in Messages
            BY FlowTyped, ElementOfSeq DEF SyncInv
        <3>2. (Flow(p))[i].at <= count[p]
            BY DEF SyncInv, Recent
        <3>3. (Flow(p))[i].at \in Nat
            BY <3>1 DEF Messages
        <3> HIDE DEF Flow
        <3> QED BY <1>2, <1>3, <2>2, <3>2, <3>3
    <2> QED BY <1>1, <1>3, <1>5, <2>2, <2>3, <2>4, OnPeerReadySync
<1> QED BY <1>4, <1>5

(* Handling a reply keeps the task on course if it is the GossipPeer's own,  *)
(* and the courses of the others in any case.                                *)
LEMMA ReplySync ==
    ASSUME SyncInv, IInv', NEW g \in GossipPeers, ReadReply(g) PROVE SyncInv'
<1> DEFINE p == g[1]
           m == Head(inbox[p])
<1>0. /\ p \in Peers /\ count \in [Peers -> Nat] /\ StreamsOK /\ TasksOK
      /\ \A q \in Peers : Flow(q) \in Seq(Messages) /\ inbox[q] \in Seq(Messages) /\ wire[q] \in Seq(Messages)
    BY Named, FlowTyped DEF SyncInv, IInv, TypeOK
<1>1. /\ inbox[p] # <<>> /\ inbox' = [inbox EXCEPT ![p] = Tail(@)]
      /\ m.kind \in {"range", "end"} /\ HandleWireMessage(g, m)
      /\ astray' = (astray \/ m.at # g[2])
      /\ UNCHANGED <<added, count, had>>
    BY DEF ReadReply, links
<1>2. m \in Messages /\ Tail(inbox[p]) \in Seq(Messages)
    BY <1>0, <1>1, HeadTailProperties
<1>3. PICK t1, sent : Handled(g, m, t1, sent)
    BY <1>0, <1>1, <1>2, MessageHandled, Zenon
<1>4. /\ t1 \in Tasks /\ sent \in Seq(Messages)
      /\ task' = [task EXCEPT ![g] = t1]
      /\ wire' = [wire EXCEPT ![p] = @ \o sent]
      /\ \A i \in 1..Len(sent) : sent[i].at = count[p] /\ sent[i].kind # "range"
      /\ sent = <<>> \/ task[g].stage # "none"
      /\ \/ t1.stage \in Ended /\ task[g].stage \in Awaiting /\ sync' = "Unsynced"
         \/ /\ sync' = sync
            /\ \/ t1.stage = task[g].stage
               \/ \E stages \in {Awaiting, Ended} : {t1.stage, task[g].stage} \subseteq stages
    BY <1>3, Zenon DEF Handled
<1>5. ASSUME NEW f \in Seq(Messages), NEW r, f # <<>>, Head(f) = m, m.at = g[2], task[g].stage # "none",
             OnCourse(task[g], f, g[2], r)
      PROVE  OnCourse(t1, Tail(f) \o sent, g[2], r) /\ (sent = <<>> \/ task[g].stage \in Awaiting)
    BY <1>3, <1>5, Zenon DEF Handled
<1>6. /\ TasksOK' /\ task'[g] = t1
      /\ \A h \in GossipPeers : h # g => task'[h] = task[h]
    BY <1>0, <1>4 DEF TasksOK
<1>7. StreamsOK'
    <2>1. wire[p] \o sent \in Seq(Messages)
        BY <1>0, <1>4, ConcatProperties
    <2> HIDE DEF p
    <2>2. inbox' \in [Peers -> Seq(Messages)]
        BY <1>0, <1>1, <1>2 DEF StreamsOK
    <2>3. wire' \in [Peers -> Seq(Messages)]
        BY <1>0, <1>4, <2>1 DEF StreamsOK
    <2> QED BY <2>2, <2>3 DEF StreamsOK
<1>8. /\ Flow(p) # <<>> /\ Head(Flow(p)) = m /\ Tail(Flow(p)) \in Seq(Messages)
      /\ inbox'[p] \o wire'[p] = Tail(Flow(p)) \o sent
      /\ \A q \in Peers : q # p => Flow(q)' = Flow(q)
    <2>1. PICK a, b : a = inbox[p] /\ b = wire[p]
        OBVIOUS
    <2>2. a \in Seq(Messages) /\ b \in Seq(Messages) /\ a # <<>> /\ Tail(a) \in Seq(Messages)
        BY <1>0, <1>1, <1>2, <2>1
    <2>3. a \o b # <<>> /\ Head(a \o b) = Head(a) /\ Tail(a \o b) = Tail(a) \o b
        BY <2>2, FlowTail, Zenon
    <2>4. Tail(a) \o (b \o sent) = (Tail(a) \o b) \o sent
        <3>1. sent \in Seq(Messages)
            BY <1>4
        <3> QED BY <2>2, <3>1, ConcatAssociative
    <2>5. Tail(a) \o b \in Seq(Messages)
        BY <2>2, ConcatProperties
    <2>6. Flow(p) = a \o b
        BY <2>1 DEF Flow
    <2>7. inbox'[p] = Tail(a) /\ wire'[p] = b \o sent
        BY <1>0, <1>1, <1>4, <2>1 DEF StreamsOK
    <2>8. \A q \in Peers : q # p => Flow(q)' = Flow(q)
        BY <1>0, <1>1, <1>4 DEF StreamsOK, Flow
    <2> QED BY <2>1, <2>3, <2>4, <2>5, <2>6, <2>7, <2>8
<1>9. p \in added
    BY <1>0, <1>8 DEF SyncInv, Recent
<1>10. \A h \in GossipPeers : task'[h].stage \in Awaiting => task[h].stage \in Awaiting
    <2>1. \A stage \in Ended : stage \notin Awaiting
        BY DEF Awaiting, Ended
    <2> QED BY <1>4, <1>6, <2>1
<1>11. \A h \in GossipPeers : task'[h].stage # "none" => task[h].stage # "none"
    <2>1. "none" \notin Awaiting /\ "none" \notin Ended
        BY DEF Awaiting, Ended
    <2> QED BY <1>4, <1>6, <2>1
<1> HIDE DEF p, m
<1>12. Recent'
    <2> SUFFICES ASSUME NEW q \in Peers
                 PROVE  /\ \A i \in 1..Len(Flow(q)') : (Flow(q)')[i].at <= count[q]
                        /\ q \notin added => Flow(q)' = <<>>
        BY <1>1 DEF Recent
    <2>1. CASE q # p
        BY <1>8, <2>1 DEF SyncInv, Recent
    <2>2. CASE q = p
        <3>1. PICK f, f1 : f = Flow(p) /\ f1 = Flow(p)'
            OBVIOUS
        <3>2. f1 = Tail(f) \o sent /\ Tail(f) \in Seq(Messages) /\ f # <<>> /\ f \in Seq(Messages)
            BY <1>0, <1>8, <3>1 DEF Flow
        <3>3. Joins(Tail(f), sent, f1)
            BY <1>4, <3>2, Behind, Zenon
        <3>4. \A i \in 1..Len(f) : f[i].at <= count[p]
            BY <1>0, <3>1 DEF SyncInv, Recent
        <3>5. ASSUME NEW i \in 1..Len(f1) PROVE f1[i].at <= count[p]
            <4>1. CASE i \in 1..Len(Tail(f))
                <5>1. f1[i] = Tail(f)[i] /\ Tail(f)[i] = f[i + 1] /\ i + 1 \in 1..Len(f)
                    BY <3>2, <3>3, <4>1, Ahead, Zenon DEF Joins
                <5> QED BY <3>4, <5>1
            <4>2. ASSUME NEW j \in 1..Len(sent), i = Len(Tail(f)) + j PROVE f1[i].at <= count[p]
                <5>1. f1[i] = sent[j]
                    BY <3>3, <4>2, Zenon DEF Joins
                <5> QED BY <1>0, <1>4, <5>1
            <4> QED BY <3>3, <4>1, <4>2, Zenon DEF Joins
        <3> QED BY <1>9, <2>2, <3>1, <3>5
    <2> QED BY <2>1, <2>2
<1>13. Born'
    BY <1>1, <1>11 DEF SyncInv, Born
<1>14. OneAwaits'
    <2> SUFFICES ASSUME NEW h \in GossipPeers, task'[h].stage \in Awaiting
                 PROVE  sync' = "Syncing" /\ \A k \in GossipPeers : task'[k].stage \in Awaiting => k = h
        BY DEF OneAwaits
    <2>1. sync = "Syncing" /\ \A k \in GossipPeers : task[k].stage \in Awaiting => k = h
        BY <1>10 DEF SyncInv, OneAwaits
    <2>2. \A stage \in Ended : stage \notin Awaiting
        BY DEF Awaiting, Ended
    <2>3. sync' = sync
        BY <1>4, <1>6, <2>1, <2>2
    <2> QED BY <1>10, <2>1, <2>3
<1>15. EarlierDone'
    BY <1>10, <1>11 DEF SyncInv, EarlierDone
<1>16. Courses'
    <2> SUFFICES ASSUME ~astray, m.at = g[2], NEW h \in GossipPeers, task'[h].stage # "none"
                 PROVE  OnCourse(task'[h], Flow(h[1])', h[2], had)
        BY <1>1 DEF Courses
    <2>1. task[h].stage # "none" /\ OnCourse(task[h], Flow(h[1]), h[2], had)
        BY <1>11 DEF SyncInv, Courses
    <2>2. CASE h = g
        <3>1. OnCourse(t1, Tail(Flow(p)) \o sent, g[2], had)
            BY <1>0, <1>5, <1>8, <2>1, <2>2 DEF p
        <3> QED BY <1>6, <1>8, <2>2, <3>1 DEF Flow, p
    <2>3. CASE h # g /\ h[1] # p
        <3>1. Flow(h[1])' = Flow(h[1]) /\ task'[h] = task[h]
            BY <1>6, <1>8, <2>3, Named
        <3> QED BY <2>1, <3>1
    <2>4. CASE h # g /\ h[1] = p
        <3>1. h[2] # g[2] /\ h[2] \in Nat /\ g[2] \in Nat
            BY <2>4, Named DEF p
        <3>2. OnCourse(task[h], Tail(Flow(p)), h[2], had)
            <4>1. m.kind # "gossip" /\ m.at # h[2]
                BY <1>1, <3>1
            <4>2. PICK f : f = Flow(p)
                OBVIOUS
            <4>3. f \in Seq(Messages) /\ f # <<>> /\ Head(f) = m /\ OnCourse(task[h], f, h[2], had)
                BY <1>0, <1>8, <2>1, <2>4, <4>2
            <4>4. had \subseteq had
                OBVIOUS
            <4> QED BY <4>1, <4>2, <4>3, <4>4, CourseAhead, Zenon
        <3>3. ASSUME NEW i \in 1..Len(sent) PROVE ~IsReply(sent, i, "range", h[2]) /\ ~IsReply(sent, i, "end", h[2])
            <4>1. sent[i].at = count[p] /\ sent[i].kind # "range"
                BY <1>4
            <4>2. CASE h[2] # count[p]
                BY <4>1, <4>2 DEF IsReply
            <4>3. CASE h[2] = count[p]
                <5>1. task[g].stage # "none"
                    BY <1>4
                <5>2. task[g].stage \in Awaiting
                    <6>1. OnCourse(task[g], Flow(p), g[2], had)
                        BY <5>1 DEF SyncInv, Courses, p
                    <6>2. sent = <<>> \/ task[g].stage \in Awaiting
                        BY <1>0, <1>5, <1>8, <5>1, <6>1
                    <6> QED BY <6>2
                <5>3. g[2] <= count[p]
                    BY <5>1 DEF SyncInv, Born, p
                <5>4. g[2] < h[2] /\ g[1] = h[1]
                    BY <2>4, <3>1, <4>3, <5>3 DEF p
                <5> QED BY <2>1, <5>2, <5>4 DEF SyncInv, EarlierDone
            <4> QED BY <4>2, <4>3
        <3>4. OnCourse(task[h], Tail(Flow(p)) \o sent, h[2], had)
            BY <1>4, <1>8, <3>2, <3>3, CourseLonger, Zenon
        <3> QED BY <1>6, <1>8, <2>4, <3>4 DEF Flow
    <2> QED BY <2>2, <2>3, <2>4
<1>17. AllHad'
    BY <1>1, <1>4 DEF SyncInv, AllHad
<1> QED BY <1>6, <1>7, <1>12, <1>13, <1>14, <1>15, <1>16, <1>17 DEF SyncInv

LEMMA SyncStep == SyncInv /\ [Next]_vars => SyncInv'
<1> SUFFICES ASSUME SyncInv, [Next]_vars PROVE SyncInv'
    OBVIOUS
<1>1. IInv'
    BY InductiveStep DEF SyncInv
<1>2. ASSUME NEW p \in Peers, AddPeer(p) \/ BecomeReady(p) \/ Drop(p) \/ Close(p) \/ Deliver(p)
      PROVE  SyncInv'
    BY <1>1, <1>2, AddPeerSync, BecomeReadySync, CutSync, DeliverSync
<1>3. ASSUME NEW g \in GossipPeers,
             ReadUnknown(g) \/ ReadGossip(g) \/ ReadReply(g) \/ Filtered(g) \/ Drain(g) \/ Timeout(g)
      PROVE  SyncInv'
    BY <1>1, <1>3, ReaderSync, ReplySync, TimeoutSync
<1>4. CASE UNCHANGED vars
    <2>1. UNCHANGED <<task, sync, astray, had, wire, inbox, added, count>>
        BY <1>4 DEF vars, links, traffic, manager, history
    <2>2. \A q \in Peers : count[q] <= count'[q]
        BY <2>1 DEF SyncInv, IInv, TypeOK
    <2> QED BY <1>1, <2>1, <2>2, SameFlow
<1> QED BY <1>2, <1>3, <1>4, Zenon DEF Next

LEMMA InitSync == Init => SyncInv
<1> SUFFICES ASSUME Init PROVE SyncInv
    OBVIOUS
<1>1. /\ inbox = [p \in Peers |-> <<>>] /\ wire = [p \in Peers |-> <<>>]
      /\ task = [g \in GossipPeers |-> NoTask] /\ sync = "Unsynced"
    BY DEF Init
<1>2. NoTask \in Tasks /\ NoTask.stage = "none" /\ "none" \notin Awaiting
    BY DEF NoTask, Tasks, Awaiting
<1>3. StreamsOK
    BY <1>1 DEF StreamsOK
<1>4. TasksOK /\ \A g \in GossipPeers : task[g].stage = "none"
    BY <1>1, <1>2 DEF TasksOK
<1>5. \A p \in Peers : Flow(p) = <<>>
    <2>1. <<>> \o <<>> = <<>>
        BY EmptySeq, ConcatEmptySeq
    <2> QED BY <1>1, <2>1 DEF Flow
<1>6. Recent
    <2>1. Len(<<>>) = 0 /\ \A i \in 1..0 : FALSE
        OBVIOUS
    <2> QED BY <1>5, <2>1 DEF Recent
<1>7. Born /\ OneAwaits /\ EarlierDone /\ Courses /\ AllHad
    BY <1>1, <1>2, <1>4 DEF Born, OneAwaits, EarlierDone, Courses, AllHad
<1> QED BY <1>3, <1>4, <1>6, <1>7, InitInv DEF SyncInv

-----------------------------------------------------------------------------
(* GossipManager: the manager is synced only with every scid the other side  *)
(* announced read, unless it had nobody to ask or a reply went to the        *)
(* GossipPeer of another connection.                                         *)
THEOREM NothingMissing == Spec => []SyncedHasAll
<1>1. SyncInv => SyncedHasAll
    BY ScidsListed DEF SyncInv, AllHad, SyncedHasAll
<1> QED BY <1>1, InitSync, SyncStep, PTL DEF Spec
=============================================================================
