------------------------- MODULE GossipFilterProofs -------------------------
(***************************************************************************)
(* Proofs about GossipFilter, for any channels, nodes, peers and messages. *)
(* The inductive invariant says what a validation may be working on at     *)
(* each place in the code; what the stores hold then follows step by step. *)
(***************************************************************************)
EXTENDS GossipFilter, TLAPS

Anns == Messages \cap Announcement
Updates == Messages \cap Update
NodeAnns == Messages \cap NodeAnnouncement
Waiting == Updates \cup NodeAnns

\* the kind of message that a validation handles at each place in the code
Sound(t) ==
  /\ t \in Task
  /\ t.pc \in {"ann", "annFound", "annSave"} => t.msg \in Anns
  /\ t.pc \in {"upd", "updFound"} => t.msg \in Updates
  /\ t.pc \in {"node", "nodeRead", "nodeQueue"} => t.msg \in NodeAnns
  /\ t.pc = "save" => t.msg \in Waiting
  /\ t.pc = "related" => t.parent # NoMsg
  /\ t.parent # NoMsg => t.parent \in Anns
  /\ t.todo \in Seq(Waiting)

\* a store holds updates and node announcements, each under its own key
Filed(f) == /\ f \in [Keys -> Waiting \cup {NoMsg}]
            /\ \A k \in Keys : f[k] # NoMsg => f[k].key = k

TasksOK == task \in [Peers -> Task] /\ \A p \in Peers : Sound(task[p])
StoresOK == Filed(store) /\ Filed(pending) /\ OnlySigned
RestOK == /\ client \in BOOLEAN
          /\ open \in [Channels -> BOOLEAN]
          /\ ann \in [Channels -> {"none", "plain", "ext"}]
          /\ handed \in [Peers -> SUBSET Messages]
          /\ received \in 0 .. MaxReceived

IInv == TasksOK /\ StoresOK /\ RestOK

(***************************************************************************)
(* What the messages are.                                                  *)
(***************************************************************************)
LEMMA Kinds ==
  /\ \A m \in Anns : m.kind = "ann" /\ m.key \in Channels
  /\ \A m \in Updates : m.kind = "upd" /\ m.key \in UpdKeys /\ m.ts \in Nat
  /\ \A m \in NodeAnns : m.kind = "node" /\ m.key \in Nodes /\ m.ts \in Nat
  /\ Messages = Anns \cup Waiting
  /\ NoMsg \notin Messages
BY MessagesAssumption DEF Anns, Updates, NodeAnns, Waiting, Announcement,
   Update, NodeAnnouncement

LEMMA WaitingKeys == \A m \in Waiting : m \in Messages /\ m.key \in Keys
                                        /\ m.ts \in Nat
BY Kinds DEF Waiting, Keys

LEMMA WaitingKind == \A m \in Waiting : m.kind \in {"upd", "node"}
BY Kinds DEF Waiting

\* Idle is a sound validation
LEMMA IdleSound == Sound(Idle)
BY Kinds DEF Sound, Idle, Task

\* replacing one validation by a sound one keeps them all sound
LEMMA Becoming ==
  ASSUME TasksOK, NEW p \in Peers, NEW t, Sound(t), Become(p, t)
  PROVE  TasksOK'
BY DEF TasksOK, Become, Sound

\* moving on to another place that handles the same kind of message
LEMMA Handing ==
  ASSUME RestOK, NEW p \in Peers, NEW S \in SUBSET Messages
  PROVE  [handed EXCEPT ![p] = S] \in [Peers -> SUBSET Messages]
BY DEF RestOK

\* a validation that ends well leaves the validations and results sound
LEMMA OkSound ==
  ASSUME IInv, NEW p \in Peers, NEW S \in SUBSET Messages, Ok(p, S)
  PROVE  TasksOK' /\ handed' \in [Peers -> SUBSET Messages]
<1> DEFINE all == task[p].results \cup S
           t == [task[p] EXCEPT !.pc = "related", !.results = all]
<1>1. Sound(task[p]) /\ all \in SUBSET Messages
  BY DEF IInv, TasksOK, Sound, Task
<1>2. CASE task[p].parent # NoMsg
  <2>1. Become(p, t) /\ handed' = handed
    BY <1>2 DEF Ok
  <2>2. t \in Task
    BY <1>1, Zenon DEF Sound, Task
  <2>3. Sound(t)
    BY <2>2, <1>1, <1>2 DEF Sound, Task
  <2> QED
    BY <2>1, <2>3, Becoming DEF IInv, RestOK
<1>3. CASE task[p].parent = NoMsg
  <2>1. Become(p, Idle) /\ handed' = [handed EXCEPT ![p] = all]
    BY <1>3 DEF Ok
  <2> QED
    BY <2>1, <1>1, IdleSound, Becoming DEF IInv, RestOK
<1> QED
  BY <1>2, <1>3

\* so does one that ends with an error
LEMMA ErrSound ==
  ASSUME IInv, NEW p \in Peers, task[p].msg \in Messages, Err(p)
  PROVE  TasksOK' /\ handed' \in [Peers -> SUBSET Messages]
<1>1. {Origin(p)} \in SUBSET Messages
  BY DEF IInv, TasksOK, Sound, Task, Origin
<1> QED
  BY <1>1, IdleSound, Becoming DEF Err, IInv, RestOK

\* one that goes on only needs a message of the kind its new place handles
LEMMA GotoSound ==
  ASSUME IInv, NEW p \in Peers, NEW pc, Goto(p, pc),
         \/ pc = "annSave" /\ task[p].msg \in Anns
         \/ pc = "nodeQueue" /\ task[p].msg \in NodeAnns
         \/ pc = "save" /\ task[p].msg \in Waiting
  PROVE  TasksOK'
<1> DEFINE t == [task[p] EXCEPT !.pc = pc]
<1>1. Sound(task[p])
  BY DEF IInv, TasksOK
<1>2. Sound(t)
  BY <1>1 DEF Sound, Task
<1> QED
  BY <1>2, Becoming DEF Goto, IInv

-----------------------------------------------------------------------------
(***************************************************************************)
(* Each action preserves the invariant.                                    *)
(***************************************************************************)
LEMMA InitInv == Init => IInv
<1> SUFFICES ASSUME Init PROVE IInv
  OBVIOUS
<1>1. TasksOK
  BY IdleSound DEF Init, TasksOK, Sound
<1>2. StoresOK
  BY DEF Init, StoresOK, Filed, OnlySigned
<1>3. RestOK
  BY BoundAssumption DEF Init, RestOK
<1> QED
  BY <1>1, <1>2, <1>3 DEF IInv

\* deleting an entry keeps a store in order
LEMMA Cleared ==
  ASSUME NEW f, Filed(f), NEW k \in Keys, NEW g, g = [f EXCEPT ![k] = NoMsg]
  PROVE  Filed(g)
BY DEF Filed

\* most actions leave the stores alone
LEMMA StoresKept == StoresOK /\ store' = store /\ pending' = pending => StoresOK'
BY DEF StoresOK, Filed, OnlySigned

\* and the environment
LEMMA RestKept ==
  ASSUME RestOK, UNCHANGED <<client, open, ann, received>>,
         handed' \in [Peers -> SUBSET Messages]
  PROVE  RestOK'
BY DEF RestOK

LEMMA ReceiveInv ==
  ASSUME IInv, NEW p \in Peers, NEW m \in Messages, Receive(p, m) PROVE IInv'
<1> DEFINE t == [Idle EXCEPT !.pc = m.kind, !.msg = m]
<1> USE DEF Receive, IInv
<1>1. m.kind \in {"ann", "upd", "node"}
  BY Kinds DEF Waiting
<1>2. t \in Task
  <2>1. Idle \in Task
    BY IdleSound DEF Sound
  <2> QED
    BY <2>1, <1>1, Zenon DEF Task
<1>3. /\ m.kind = "ann" => m \in Anns
      /\ m.kind = "upd" => m \in Updates
      /\ m.kind = "node" => m \in NodeAnns
  BY Kinds DEF Waiting
<1>4. Sound(t)
  <2>1. t.pc = m.kind /\ t.msg = m /\ t.parent = NoMsg /\ t.todo = <<>>
    BY DEF Idle
  <2>2. t.todo \in Seq(Waiting)
    <3>1. <<>> \in Seq(Waiting)
      OBVIOUS
    <3> QED
      BY <2>1, <3>1, Zenon
  <2> QED
    BY <2>1, <2>2, <1>1, <1>2, <1>3, Zenon DEF Sound
<1>5. TasksOK'
  BY <1>4, Becoming
<1>6. StoresOK'
  BY StoresKept DEF stores
<1>7. RestOK'
  BY BoundAssumption DEF RestOK, stores
<1> QED
  BY <1>5, <1>6, <1>7

\* the steps of an announcement's validation up to its save
LEMMA AnnInv ==
  ASSUME IInv, NEW p \in Peers,
         \/ AnnFinds(p) \/ AnnIgnored(p) \/ AnnBadSignature(p)
         \/ AnnChecked(p) \/ AnnNotOnChain(p) \/ AnnClientThrows(p)
  PROVE  IInv'
<1>1. Sound(task[p]) /\ p \in Peers
  BY DEF IInv, TasksOK
<1>2. task[p].msg \in Anns /\ task[p].msg \in Messages
  BY <1>1 DEF Sound, At, AnnFinds, AnnIgnored, AnnBadSignature, AnnChecked,
     AnnNotOnChain, AnnClientThrows, Anns
<1>3. TasksOK' /\ handed' \in [Peers -> SUBSET Messages]
  <2>1. CASE AnnFinds(p)
    <3> DEFINE t == [task[p] EXCEPT !.pc = "annFound",
                                    !.chan = ann[task[p].msg.key]]
    <3>1. ann[task[p].msg.key] \in {"none", "plain", "ext"}
      BY <1>2, Kinds DEF IInv, RestOK
    <3>2. t \in Task
      BY <1>1, <3>1, Zenon DEF Sound, Task
    <3>3. Sound(t)
      BY <3>2, <1>1, <1>2 DEF Sound, Task
    <3> QED
      BY <2>1, <3>3, Becoming DEF AnnFinds, IInv, RestOK
  <2>2. CASE AnnIgnored(p)
    BY <2>2, OkSound DEF AnnIgnored
  <2>3. CASE AnnBadSignature(p)
    BY <2>3, <1>2, ErrSound DEF AnnBadSignature
  <2>4. CASE AnnChecked(p)
    BY <2>4, <1>2, GotoSound DEF AnnChecked, IInv, RestOK
  <2>5. CASE AnnNotOnChain(p)
    BY <2>5, <1>2, ErrSound DEF AnnNotOnChain
  <2>6. CASE AnnClientThrows(p)
    BY <2>6, IdleSound, Becoming DEF AnnClientThrows, IInv, RestOK
  <2> QED
    BY <2>1, <2>2, <2>3, <2>4, <2>5, <2>6
<1>4. UNCHANGED <<client, open, stores, received>>
  BY DEF AnnFinds, AnnIgnored, AnnBadSignature, AnnChecked, AnnNotOnChain,
     AnnClientThrows
<1> QED
  BY <1>3, <1>4, StoresKept, RestKept DEF IInv, stores

LEMMA AnnSavesInv ==
  ASSUME IInv, NEW p \in Peers, AnnSaves(p) PROVE IInv'
<1> DEFINE t == [task[p] EXCEPT !.pc = "related", !.parent = task[p].msg,
                                !.results = {task[p].msg}]
<1>1. Sound(task[p])
  BY DEF IInv, TasksOK
<1>2. task[p].msg \in Anns /\ task[p].msg \in Messages /\ task[p].msg # NoMsg
  BY <1>1, Kinds DEF Sound, At, AnnSaves, Anns
<1>3. t \in Task
  <2>1. {task[p].msg} \in SUBSET Messages
    BY <1>2
  <2> QED
    BY <1>1, <1>2, <2>1, Zenon DEF Sound, Task
<1>4. Sound(t)
  BY <1>3, <1>2, <1>1 DEF Sound, Task
<1>5. TasksOK'
  BY <1>4, Becoming DEF AnnSaves, IInv
<1>6. StoresOK'
  BY StoresKept DEF AnnSaves, IInv
<1>7. RestOK'
  <2>1. (IF client THEN "ext" ELSE "plain") \in {"none", "plain", "ext"}
    OBVIOUS
  <2>2. ann' \in [Channels -> {"none", "plain", "ext"}]
    BY <2>1, Zenon DEF AnnSaves, IInv, RestOK
  <2> QED
    BY <2>2 DEF AnnSaves, IInv, RestOK
<1> QED
  BY <1>5, <1>6, <1>7 DEF IInv

\* the keys of the messages that an announcement releases
LEMMA RelatedAreKeys ==
  ASSUME NEW c \in Channels, NEW i \in 1 .. 4
  PROVE  RelatedKeys(c)[i] \in Keys
BY NodeOfAssumption DEF RelatedKeys, Keys, UpdKeys

LEMMA RelatedInv ==
  ASSUME IInv, NEW p \in Peers,
         RelatedLooks(p) \/ RelatedTakes(p) \/ RelatedDone(p)
  PROVE  IInv'
<1>1. Sound(task[p])
  BY DEF IInv, TasksOK
<1>2. task[p].parent # NoMsg /\ task[p].parent \in Anns
  BY <1>1 DEF Sound, At, RelatedLooks, RelatedTakes, RelatedDone
<1>3. task[p].todo \in Seq(Waiting) /\ Waiting \subseteq Messages
  BY <1>1, Kinds DEF Sound
<1>4. CASE RelatedLooks(p)
  <2> DEFINE found == pending[RelatedKeys(task[p].parent.key)[task[p].looked + 1]]
             todo == IF found = NoMsg THEN task[p].todo
                                      ELSE Append(task[p].todo, found)
             looked == task[p].looked + 1
             t == [task[p] EXCEPT !.looked = looked, !.todo = todo]
  <2>1. looked \in 1 .. 4 /\ task[p].looked \in 0 .. 4
    BY <1>1, <1>4, SMTT(30) DEF RelatedLooks, Sound, Task
  <2>2. found \in Waiting \cup {NoMsg}
    BY <2>1, <1>2, Kinds, RelatedAreKeys DEF IInv, StoresOK, Filed
  <2>3. todo \in Seq(Waiting) /\ todo \in Seq(Messages)
    BY <2>2, <1>3
  <2>4. Become(p, t)
    BY <1>4 DEF RelatedLooks
  <2> HIDE DEF found, todo, looked
  <2>5. looked \in 0 .. 4
    BY <2>1
  <2>6. t \in Task
    BY <1>1, <2>3, <2>5, Zenon DEF Sound, Task
  <2>7. Sound(t)
    BY <2>6, <2>3, <1>1, <1>2 DEF Sound, Task
  <2>8. TasksOK'
    BY <2>4, <2>7, Becoming DEF IInv
  <2> QED
    BY <1>4, <2>8, StoresKept, RestKept DEF RelatedLooks, IInv, stores, RestOK
<1>5. CASE RelatedTakes(p)
  <2> DEFINE m == Head(task[p].todo)
             rest == Tail(task[p].todo)
             t == [task[p] EXCEPT !.pc = m.kind, !.msg = m, !.todo = rest]
  <2>1. task[p].todo # <<>>
    BY <1>5 DEF RelatedTakes, Takes
  <2>2. m \in Waiting /\ rest \in Seq(Waiting) /\ rest \in Seq(Messages)
    BY <2>1, <1>3
  <2>3. /\ m \in Messages /\ m.kind \in {"upd", "node"} /\ m.key \in Keys
        /\ m.kind = "upd" => m \in Updates
        /\ m.kind = "node" => m \in NodeAnns
    BY <2>2, WaitingKeys, Kinds DEF Waiting
  <2>4. Become(p, t) /\ pending' = [pending EXCEPT ![m.key] = NoMsg]
    BY <1>5 DEF RelatedTakes
  <2> HIDE DEF m, rest
  <2>5. t \in Task
    BY <1>1, <2>2, <2>3, Zenon DEF Sound, Task
  <2>6. t.pc = m.kind /\ t.msg = m /\ t.parent = task[p].parent /\ t.todo = rest
    BY <1>1 DEF Sound, Task
  <2>7. Sound(t)
    BY <2>2, <2>3, <2>5, <2>6, <1>2, Zenon DEF Sound
  <2>8. TasksOK'
    BY <2>4, <2>7, Becoming DEF IInv
  <2>9. StoresOK'
    <3>1. Filed(pending')
      BY <2>3, <2>4, Cleared, Zenon DEF IInv, StoresOK
    <3> QED
      BY <1>5, <3>1 DEF RelatedTakes, IInv, StoresOK, OnlySigned, Filed
  <2>10. RestOK'
    BY <1>5, RestKept DEF RelatedTakes, IInv, RestOK
  <2> QED
    BY <2>8, <2>9, <2>10 DEF IInv
<1>6. CASE RelatedDone(p)
  <2>1. task[p].results \in SUBSET Messages
    BY <1>1 DEF Sound, Task
  <2> QED
    BY <1>6, <2>1, IdleSound, Becoming, StoresKept, RestKept
       DEF RelatedDone, IInv, stores, RestOK
<1> QED
  BY <1>4, <1>5, <1>6

\* the reads of an update or a node announcement
LEMMA ReadInv ==
  ASSUME IInv, NEW p \in Peers,
         UpdFinds(p) \/ UpdReads(p) \/ NodeReads(p) \/ NodeFinds(p)
  PROVE  IInv'
<1>1. Sound(task[p])
  BY DEF IInv, TasksOK
<1>2. UNCHANGED <<client, open, stores, handed, received>>
  BY DEF UpdFinds, UpdReads, NodeReads, NodeFinds
<1>3. CASE UpdFinds(p)
  <2> DEFINE t == [task[p] EXCEPT !.pc = "updFound",
                                  !.chan = ann[task[p].msg.key[1]]]
  <2>1. task[p].msg \in Updates
    BY <1>1, <1>3 DEF UpdFinds, At, Sound
  <2>2. ann[task[p].msg.key[1]] \in {"none", "plain", "ext"}
    BY <2>1, Kinds DEF IInv, RestOK, UpdKeys
  <2>3. t \in Task
    BY <1>1, <2>2, Zenon DEF Sound, Task
  <2>4. Sound(t)
    BY <2>3, <2>1, <1>1 DEF Sound, Task
  <2> QED
    BY <1>2, <1>3, <2>4, Becoming, StoresKept, RestKept
       DEF UpdFinds, IInv, stores, RestOK
<1>4. CASE UpdReads(p)
  <2> DEFINE t == [task[p] EXCEPT !.pc = "save",
                                  !.seen = store[task[p].msg.key]]
  <2>1. task[p].msg \in Updates /\ task[p].msg \in Waiting
    BY <1>1, <1>4 DEF UpdReads, At, Sound, Waiting
  <2>2. store[task[p].msg.key] \in Messages \cup {NoMsg}
    BY <2>1, WaitingKeys DEF IInv, StoresOK, Filed
  <2>3. t \in Task
    BY <1>1, <2>2, Zenon DEF Sound, Task
  <2>4. Sound(t)
    BY <2>3, <2>1, <1>1 DEF Sound, Task
  <2> QED
    BY <1>2, <1>4, <2>4, Becoming, StoresKept, RestKept
       DEF UpdReads, IInv, stores, RestOK
<1>5. CASE NodeReads(p)
  <2> DEFINE t == [task[p] EXCEPT !.pc = "nodeRead",
                                  !.seen = store[task[p].msg.key]]
  <2>1. task[p].msg \in NodeAnns /\ task[p].msg \in Waiting
    BY <1>1, <1>5 DEF NodeReads, At, Sound, Waiting
  <2>2. store[task[p].msg.key] \in Messages \cup {NoMsg}
    BY <2>1, WaitingKeys DEF IInv, StoresOK, Filed
  <2>3. t \in Task
    BY <1>1, <2>2, Zenon DEF Sound, Task
  <2>4. Sound(t)
    BY <2>3, <2>1, <1>1 DEF Sound, Task
  <2> QED
    BY <1>2, <1>5, <2>4, Becoming, StoresKept, RestKept
       DEF NodeReads, IInv, stores, RestOK
<1>6. CASE NodeFinds(p)
  <2>1. task[p].msg \in NodeAnns /\ task[p].msg \in Waiting
    BY <1>1, <1>6 DEF NodeFinds, At, Sound, Waiting
  <2>2. TasksOK'
    BY <1>6, <2>1, GotoSound DEF NodeFinds
  <2> QED
    BY <1>2, <2>2, StoresKept, RestKept DEF IInv, stores, RestOK
<1> QED
  BY <1>3, <1>4, <1>5, <1>6

LEMMA QueueInv ==
  ASSUME IInv, NEW p \in Peers, UpdQueues(p) \/ NodeQueues(p) PROVE IInv'
<1>1. task[p].msg \in Waiting /\ Queue(p)
  BY DEF IInv, TasksOK, Sound, UpdQueues, NodeQueues, At, Waiting
<1>2. TasksOK' /\ handed' \in [Peers -> SUBSET Messages]
  BY <1>1, OkSound DEF Queue
<1>3. StoresOK'
  BY <1>1, WaitingKeys DEF Queue, IInv, StoresOK, Filed, OnlySigned
<1> QED
  BY <1>1, <1>2, <1>3, RestKept DEF Queue, IInv

\* the end of an update's or a node announcement's validation
LEMMA EndInv ==
  ASSUME IInv, NEW p \in Peers, Ignored(p) \/ BadSignature(p) PROVE IInv'
<1>1. Sound(task[p])
  BY DEF IInv, TasksOK
<1>2. TasksOK' /\ handed' \in [Peers -> SUBSET Messages]
  <2>1. CASE Ignored(p)
    BY <2>1, OkSound DEF Ignored
  <2>2. CASE BadSignature(p)
    <3>1. task[p].msg \in Messages
      BY <2>2, <1>1, WaitingKeys DEF BadSignature, At, Sound
    <3> QED
      BY <2>2, <3>1, ErrSound DEF BadSignature
  <2> QED
    BY <2>1, <2>2
<1> QED
  BY <1>2, StoresKept, RestKept DEF Ignored, BadSignature, IInv, stores

LEMMA SavesInv ==
  ASSUME IInv, NEW p \in Peers, Saves(p) PROVE IInv'
<1>1. task[p].msg \in Waiting /\ task[p].msg \in Messages
  BY WaitingKeys DEF IInv, TasksOK, Sound, Saves, At
<1>2. TasksOK' /\ handed' \in [Peers -> SUBSET Messages]
  BY <1>1, OkSound DEF Saves
<1>3. StoresOK'
  BY <1>1, WaitingKeys DEF Saves, IInv, StoresOK, Filed, OnlySigned
<1> QED
  BY <1>2, <1>3, RestKept DEF Saves, IInv

LEMMA ChainInv ==
  ASSUME IInv, NEW c \in Channels, Spend(c) \/ RemoveChannel(c) PROVE IInv'
<1>1. TasksOK'
  BY DEF Spend, RemoveChannel, IInv, TasksOK, Sound
<1>2. CASE Spend(c)
  BY <1>1, <1>2, StoresKept DEF Spend, IInv, RestOK, stores
<1>3. CASE RemoveChannel(c)
  <2>1. StoresOK'
    <3>1. <<c, 0>> \in Keys
      BY DEF Keys, UpdKeys
    <3>2. Filed(store') /\ Filed(pending')
      BY <1>3, <3>1, Cleared, Zenon DEF RemoveChannel, IInv, StoresOK
    <3>3. OnlySigned'
      BY <1>3, <3>1 DEF RemoveChannel, IInv, StoresOK, OnlySigned, Filed
    <3> QED
      BY <3>2, <3>3 DEF StoresOK
  <2>2. RestOK'
    BY <1>3 DEF RemoveChannel, IInv, RestOK
  <2> QED
    BY <1>1, <2>1, <2>2 DEF IInv
<1> QED
  BY <1>2, <1>3

-----------------------------------------------------------------------------
LEMMA NextInv == IInv /\ [Next]_vars => IInv'
<1> SUFFICES ASSUME IInv, [Next]_vars PROVE IInv'
  OBVIOUS
<1>1. CASE UNCHANGED vars
  BY <1>1 DEF vars, stores, IInv, TasksOK, Sound, StoresOK, Filed, OnlySigned,
     RestOK
<1>2. ASSUME NEW p \in Peers, Validate(p) PROVE IInv'
  BY <1>2, AnnInv, AnnSavesInv, RelatedInv, ReadInv, QueueInv, EndInv, SavesInv,
     Zenon DEF Validate
<1>3. ASSUME NEW p \in Peers, NEW m \in Messages, Receive(p, m) PROVE IInv'
  BY <1>3, ReceiveInv
<1>4. ASSUME NEW c \in Channels, Spend(c) \/ RemoveChannel(c) PROVE IInv'
  BY <1>4, ChainInv
<1> QED
  BY <1>1, <1>2, <1>3, <1>4, Zenon DEF Next

LEMMA Invariant == Spec => []IInv
BY InitInv, NextInv, PTL DEF Spec

\* For any channels, nodes, peers and messages the stores and the validations
\* keep their types, and what a store holds under a key is about that key.
THEOREM FilterTypeCorrect == Spec => []TypeOK
<1>1. IInv => TypeOK
  <2> SUFFICES ASSUME IInv PROVE TypeOK
    OBVIOUS
  <2>1. task \in [Peers -> Task]
    BY DEF IInv, TasksOK, Sound
  <2>2. Waiting \subseteq Messages
    BY Kinds
  <2>3. \A k \in Keys, f \in {store, pending} : f[k] # NoMsg => f[k].key = k
    BY DEF IInv, StoresOK, Filed
  <2>4. /\ store \in [Keys -> Messages \cup {NoMsg}]
        /\ pending \in [Keys -> Messages \cup {NoMsg}]
    BY <2>2 DEF IInv, StoresOK, Filed
  <2> QED
    BY <2>1, <2>3, <2>4 DEF IInv, RestOK, TypeOK
<1> QED
  BY <1>1, Invariant, PTL

\* However many validations run at once, no update or node announcement is
\* stored unless its signature verifies.
THEOREM OnlySignedStored == Spec => []OnlySigned
<1>1. IInv => OnlySigned
  BY DEF IInv, StoresOK
<1> QED
  BY <1>1, Invariant, PTL

\* A stored message is only replaced by a newer one, except by a validation
\* that was overtaken between its find and its save.
THEOREM StoreNeverOlder == Spec => NeverOlder
<1> DEFINE Step(k) ==
      store[k] # NoMsg /\ store'[k] \notin {NoMsg, store[k]}
        => \/ store'[k].ts > store[k].ts
           \/ \E p \in Peers : Overtaken(p, k)
<1>1. ASSUME IInv, [Next]_vars PROVE [\A k \in Keys : Step(k)]_vars
  <2> SUFFICES ASSUME Next, NEW k \in Keys, store[k] # NoMsg,
                      store'[k] \notin {NoMsg, store[k]}
               PROVE  \/ store'[k].ts > store[k].ts
                      \/ \E p \in Peers : Overtaken(p, k)
    BY <1>1
  <2>1. \A c \in Channels : ~Spend(c) /\ ~RemoveChannel(c)
    <3> SUFFICES ASSUME NEW c \in Channels, Spend(c) \/ RemoveChannel(c)
                 PROVE  FALSE
      OBVIOUS
    <3> QED
      BY <1>1 DEF Spend, RemoveChannel, stores, IInv, StoresOK, Filed
  <2>2. PICK p \in Peers : Saves(p)
    <3>1. ASSUME NEW p \in Peers, NEW m \in Messages, Receive(p, m) PROVE FALSE
      BY <3>1 DEF Receive, stores
    <3>2. ASSUME NEW p \in Peers, Validate(p), ~Saves(p) PROVE FALSE
      BY <3>2 DEF Validate, AnnFinds, AnnIgnored, AnnBadSignature, AnnChecked,
         AnnNotOnChain, AnnClientThrows, AnnSaves, RelatedLooks, RelatedTakes,
         RelatedDone, UpdFinds, UpdQueues, UpdReads, NodeReads, NodeFinds,
         NodeQueues, Queue, Ignored, BadSignature, stores
    <3> QED
      BY <2>1, <3>1, <3>2, Zenon DEF Next
  <2>3. task[p].msg \in Waiting /\ task[p].msg.key \in Keys
    BY <1>1, <2>2, WaitingKeys DEF IInv, TasksOK, Sound, Saves, At
  <2>4. task[p].msg.key = k /\ store'[k] = task[p].msg
    BY <1>1, <2>2, <2>3 DEF Saves, IInv, StoresOK, Filed
  <2>5. CASE task[p].seen = store[k]
    BY <2>2, <2>3, <2>4, <2>5 DEF Saves, Newer
  <2>6. CASE task[p].seen # store[k]
    BY <2>2, <2>4, <2>6 DEF Saves, Overtaken
  <2> QED
    BY <2>5, <2>6
<1> QED
  BY <1>1, Invariant, PTL DEF Spec, NeverOlder

-----------------------------------------------------------------------------
(***************************************************************************)
(* A closed channel.  A validation is Free of c when it will not write     *)
(* anything about c without looking at the store or the chain again.       *)
(***************************************************************************)
Free(t, c) ==
  /\ ~(t.pc = "annSave" /\ t.msg.key = c)
  /\ ~(t.pc = "save" /\ t.msg.kind = "upd" /\ t.msg.key[1] = c)
  /\ ~(t.pc = "updFound" /\ t.msg.key[1] = c /\ t.chan # "none")

LEMMA ClosedIs ==
  ASSUME NEW c \in Channels
  PROVE  Closed(c) <=> /\ client /\ ~open[c] /\ ann[c] = "none"
                       /\ \A p \in Peers : Free(task[p], c)
BY DEF Closed, Free, At

LEMMA FreeOtherwise ==
  ASSUME NEW t, NEW c, t.pc \notin {"annSave", "save", "updFound"}
  PROVE  Free(t, c)
BY DEF Free

LEMMA FreeBecoming ==
  ASSUME IInv, NEW c, \A p \in Peers : Free(task[p], c),
         NEW p \in Peers, NEW t, Become(p, t), Free(t, c)
  PROVE  \A q \in Peers : Free(task'[q], c)
<1> SUFFICES ASSUME NEW q \in Peers PROVE Free(task'[q], c)
  OBVIOUS
<1>1. task'[q] = IF q = p THEN t ELSE task[q]
  BY DEF Become, IInv, TasksOK
<1> QED
  BY <1>1

LEMMA FreeMoves ==
  ASSUME IInv, NEW c, \A p \in Peers : Free(task[p], c),
         NEW p \in Peers, NEW t, Become(p, t),
         t.pc \notin {"annSave", "save", "updFound"}
  PROVE  \A q \in Peers : Free(task'[q], c)
BY FreeOtherwise, FreeBecoming

LEMMA FreeEnds ==
  ASSUME IInv, NEW c, \A p \in Peers : Free(task[p], c),
         NEW p \in Peers, (\E S : Ok(p, S)) \/ Err(p) \/ Become(p, Idle)
  PROVE  \A q \in Peers : Free(task'[q], c)
<1>1. Free(Idle, c)
  BY FreeOtherwise DEF Idle
<1>2. CASE Become(p, Idle)
  BY <1>1, <1>2, FreeBecoming
<1>3. CASE Err(p)
  BY <1>1, <1>3, FreeBecoming DEF Err
<1>4. ASSUME NEW S, Ok(p, S) PROVE \A q \in Peers : Free(task'[q], c)
  <2> DEFINE t == [task[p] EXCEPT !.pc = "related",
                                  !.results = task[p].results \cup S]
  <2>1. t.pc \notin {"annSave", "save", "updFound"}
    BY DEF IInv, TasksOK, Sound, Task
  <2>2. Become(p, t) \/ Become(p, Idle)
    BY <1>4, Zenon DEF Ok
  <2> QED
    BY <1>1, <2>1, <2>2, FreeBecoming, FreeMoves, Zenon
<1> QED
  BY <1>2, <1>3, <1>4

\* no step of a validation makes it write about a closed channel
LEMMA FreeStep ==
  ASSUME IInv, NEW c \in Channels, Closed(c), NEW p \in Peers, Validate(p)
  PROVE  \A q \in Peers : Free(task'[q], c)
<1>1. Sound(task[p]) /\ task[p] \in Task /\ Free(task[p], c)
  BY ClosedIs DEF IInv, TasksOK, Sound
<1>2. client /\ ~open[c] /\ ann[c] = "none" /\ \A q \in Peers : Free(task[q], c)
  BY ClosedIs
<1>3. CASE \/ AnnIgnored(p) \/ AnnBadSignature(p) \/ AnnNotOnChain(p)
           \/ AnnClientThrows(p) \/ RelatedDone(p) \/ UpdQueues(p)
           \/ NodeQueues(p) \/ Ignored(p) \/ BadSignature(p) \/ Saves(p)
  <2>1. (\E S : Ok(p, S)) \/ Err(p) \/ Become(p, Idle)
    BY <1>3, Zenon DEF AnnIgnored, AnnBadSignature, AnnNotOnChain, AnnClientThrows,
       RelatedDone, UpdQueues, NodeQueues, Queue, Ignored, BadSignature, Saves
  <2> QED
    BY <2>1, <1>2, FreeEnds
<1>4. CASE \/ AnnFinds(p) \/ AnnSaves(p) \/ RelatedLooks(p) \/ RelatedTakes(p)
           \/ NodeReads(p)
  <2>1. CASE AnnFinds(p)
    <3> DEFINE t == [task[p] EXCEPT !.pc = "annFound",
                                    !.chan = ann[task[p].msg.key]]
    <3>1. t.pc \notin {"annSave", "save", "updFound"}
      BY <1>1 DEF Task
    <3>2. Become(p, t)
      BY <2>1 DEF AnnFinds
    <3> QED
      BY <3>1, <3>2, <1>2, FreeMoves, Zenon
  <2>2. CASE AnnSaves(p)
    <3> DEFINE t == [task[p] EXCEPT !.pc = "related",
                                    !.parent = task[p].msg,
                                    !.results = {task[p].msg}]
    <3>1. t.pc \notin {"annSave", "save", "updFound"}
      BY <1>1 DEF Task
    <3>2. Become(p, t)
      BY <2>2 DEF AnnSaves
    <3> QED
      BY <3>1, <3>2, <1>2, FreeMoves, Zenon
  <2>3. CASE RelatedLooks(p)
    <3> DEFINE t == [task[p] EXCEPT !.looked = @ + 1, !.todo =
           LET found == pending[RelatedKeys(task[p].parent.key)[task[p].looked + 1]]
           IN IF found = NoMsg THEN @ ELSE Append(@, found)]
    <3>1. t.pc \notin {"annSave", "save", "updFound"}
      BY <2>3, <1>1 DEF RelatedLooks, At, Task
    <3>2. Become(p, t)
      BY <2>3 DEF RelatedLooks
    <3> QED
      BY <3>1, <3>2, <1>2, FreeMoves, Zenon
  <2>4. CASE RelatedTakes(p)
    <3> DEFINE t == [task[p] EXCEPT !.pc = Head(task[p].todo).kind,
                                    !.msg = Head(task[p].todo),
                                    !.todo = Tail(@)]
    <3>3. Head(task[p].todo) \in Waiting
      BY <2>4, <1>1 DEF RelatedTakes, Takes, Sound
    <3>4. Head(task[p].todo).kind \in {"upd", "node"}
      BY <3>3, WaitingKind
    <3>1. t.pc \notin {"annSave", "save", "updFound"}
      BY <3>4, <1>1 DEF Task
    <3>2. Become(p, t)
      BY <2>4 DEF RelatedTakes
    <3> QED
      BY <3>1, <3>2, <1>2, FreeMoves, Zenon
  <2>5. CASE NodeReads(p)
    <3> DEFINE t == [task[p] EXCEPT !.pc = "nodeRead",
                                    !.seen = store[task[p].msg.key]]
    <3>1. t.pc \notin {"annSave", "save", "updFound"}
      BY <1>1 DEF Task
    <3>2. Become(p, t)
      BY <2>5 DEF NodeReads
    <3> QED
      BY <3>1, <3>2, <1>2, FreeMoves, Zenon
  <2> QED
    BY <1>4, <2>1, <2>2, <2>3, <2>4, <2>5
<1>5. CASE AnnChecked(p)
  <2> DEFINE t == [task[p] EXCEPT !.pc = "annSave"]
  <2>1. task[p].msg.key # c
    BY <1>5, <1>2 DEF AnnChecked
  <2>2. Free(t, c)
    BY <2>1, <1>1 DEF Free, Task
  <2> QED
    BY <1>5, <2>2, <1>2, FreeBecoming DEF AnnChecked, Goto
<1>6. CASE UpdFinds(p)
  <2> DEFINE t == [task[p] EXCEPT !.pc = "updFound",
                                  !.chan = ann[task[p].msg.key[1]]]
  <2>1. Free(t, c)
    BY <1>1, <1>2 DEF Free, Task
  <2> QED
    BY <1>6, <2>1, <1>2, FreeBecoming DEF UpdFinds
<1>7. CASE UpdReads(p)
  <2> DEFINE t == [task[p] EXCEPT !.pc = "save",
                                  !.seen = store[task[p].msg.key]]
  <2>1. task[p].msg.key[1] # c
    BY <1>7, <1>1 DEF UpdReads, At, Free
  <2>2. Free(t, c)
    BY <2>1, <1>1 DEF Free, Task
  <2> QED
    BY <1>7, <2>2, <1>2, FreeBecoming DEF UpdReads
<1>8. CASE NodeFinds(p)
  <2> DEFINE pc == IF HasChannel(task[p].msg.key) THEN "save" ELSE "nodeQueue"
             t == [task[p] EXCEPT !.pc = pc]
  <2>1. task[p].msg.kind = "node"
    BY <1>8, <1>1, Kinds DEF NodeFinds, At, Sound
  <2>2. pc \in {"save", "nodeQueue"}
    OBVIOUS
  <2>3. Goto(p, pc)
    BY <1>8 DEF NodeFinds
  <2> HIDE DEF pc
  <2>4. Free(t, c)
    BY <2>1, <2>2, <1>1 DEF Free, Task
  <2> QED
    BY <2>3, <2>4, <1>2, FreeBecoming DEF Goto
<1> QED
  BY <1>3, <1>4, <1>5, <1>6, <1>7, <1>8, Zenon DEF Validate

\* The announcement and the updates of a closed channel are not written.
LEMMA ClosedStores ==
  ASSUME IInv, NEW c \in Channels, Closed(c), NEW p \in Peers, Validate(p)
  PROVE  /\ client' = client /\ open' = open /\ ann'[c] = "none"
         /\ \A d \in {0, 1} : store'[<<c, d>>] = store[<<c, d>>]
<1>1. Sound(task[p]) /\ Free(task[p], c) /\ ann[c] = "none"
  BY ClosedIs DEF IInv, TasksOK
<1>2. CASE AnnSaves(p)
  <2>1. task[p].msg.key # c
    BY <1>1, <1>2 DEF AnnSaves, At, Free
  <2>2. ann'[c] = ann[c]
    BY <1>2, <2>1 DEF AnnSaves, IInv, RestOK
  <2> QED
    BY <1>1, <1>2, <2>2 DEF AnnSaves
<1>3. CASE Saves(p)
  <2>1. task[p].msg \in Waiting /\ task[p].msg.key \in Keys
    BY <1>1, <1>3, WaitingKeys DEF Saves, At, Sound
  <2>2. ASSUME NEW d \in {0, 1} PROVE task[p].msg.key # <<c, d>>
    <3>1. CASE task[p].msg \in Updates
      BY <3>1, <1>1, <1>3, Kinds DEF Saves, At, Free
    <3>2. CASE task[p].msg \in NodeAnns
      <4>1. <<c, d>> \in UpdKeys
        BY DEF UpdKeys
      <4> QED
        BY <3>2, <4>1, Kinds, KeysAssumption
    <3> QED
      BY <2>1, <3>1, <3>2 DEF Waiting
  <2>3. \A d \in {0, 1} : <<c, d>> \in Keys
    BY DEF Keys, UpdKeys
  <2>4. ASSUME NEW d \in {0, 1} PROVE store'[<<c, d>>] = store[<<c, d>>]
    BY <1>3, <2>1, <2>2, <2>3 DEF Saves, IInv, StoresOK, Filed
  <2> QED
    BY <1>1, <1>3, <2>4 DEF Saves
<1>4. CASE ~AnnSaves(p) /\ ~Saves(p)
  <2>1. UNCHANGED <<client, open, ann, store>>
    BY <1>4, Zenon DEF Validate, AnnFinds, AnnIgnored, AnnBadSignature, AnnChecked,
       AnnNotOnChain, AnnClientThrows, RelatedLooks, RelatedTakes, RelatedDone,
       UpdFinds, UpdQueues, UpdReads, NodeReads, NodeFinds, NodeQueues, Queue,
       Ignored, BadSignature, stores
  <2> QED
    BY <1>1, <2>1
<1> QED
  BY <1>2, <1>3, <1>4

\* Once a channel is spent and removed and the validations that had checked
\* it before have ended, nothing about it enters the gossip store, whatever
\* the peers send and however many of them there are.
THEOREM ClosedForGood == Spec => ClosedStaysOut
<1> DEFINE Kept(c) == \A d \in {0, 1} : store'[<<c, d>>] = store[<<c, d>>]
<1>1. ASSUME IInv, [Next]_vars, NEW c \in Channels, Closed(c)
      PROVE  UNCHANGED vars \/ (Closed(c)' /\ Kept(c))
  <2>1. client /\ ~open[c] /\ ann[c] = "none" /\ \A q \in Peers : Free(task[q], c)
    BY <1>1, ClosedIs
  <2>2. Closed(c)' <=> /\ client' /\ ~open'[c] /\ ann'[c] = "none"
                       /\ \A q \in Peers : Free(task'[q], c)
    BY DEF Closed, Free, At
  <2>3. ASSUME NEW p \in Peers, Validate(p) PROVE Closed(c)' /\ Kept(c)
    <3>1. /\ client' = client /\ open' = open /\ ann'[c] = "none" /\ Kept(c)
      BY <1>1, <2>3, ClosedStores
    <3>2. \A q \in Peers : Free(task'[q], c)
      BY <1>1, <2>3, FreeStep
    <3> HIDE DEF Kept
    <3> QED
      BY <2>1, <2>2, <3>1, <3>2, Zenon
  <2>4. ASSUME NEW p \in Peers, NEW m \in Messages, Receive(p, m)
        PROVE  Closed(c)' /\ Kept(c)
    <3> DEFINE t == [Idle EXCEPT !.pc = m.kind, !.msg = m]
    <3>1. t.pc \notin {"annSave", "save", "updFound"}
      BY Kinds DEF Idle, Waiting
    <3>0. Become(p, t)
      BY <2>4 DEF Receive
    <3>2. \A q \in Peers : Free(task'[q], c)
      BY <1>1, <2>1, <3>0, <3>1, FreeMoves, Zenon
    <3>3. client' = client /\ open' = open /\ ann' = ann /\ store' = store
      BY <2>4 DEF Receive, stores
    <3> QED
      BY <2>1, <2>2, <3>2, <3>3, Zenon
  <2>5. ASSUME NEW b \in Channels, Spend(b) \/ RemoveChannel(b)
        PROVE  Closed(c)' /\ Kept(c)
    <3>1. client' = client /\ task' = task
      BY <2>5 DEF Spend, RemoveChannel
    <3>2. open'[c] = FALSE \/ open'[c] = open[c]
      BY <1>1, <2>5, Zenon DEF Spend, RemoveChannel, IInv, RestOK
    <3>3. ann'[c] = "none"
      <4>1. CASE Spend(b)
        BY <2>1, <4>1 DEF Spend, stores
      <4>2. CASE RemoveChannel(b)
        BY <1>1, <2>1, <4>2 DEF RemoveChannel, IInv, RestOK
      <4> QED
        BY <2>5, <4>1, <4>2
    <3>4. Kept(c)
      <4>1. CASE Spend(b)
        BY <4>1 DEF Spend, stores
      <4>2. CASE RemoveChannel(b)
        <5>1. b # c
          BY <2>1, <4>2 DEF RemoveChannel
        <5>2. \A d \in {0, 1} : <<c, d>> \in Keys /\ <<c, d>> # <<b, 0>>
          BY <5>1 DEF Keys, UpdKeys
        <5> QED
          BY <1>1, <4>2, <5>2 DEF RemoveChannel, IInv, StoresOK, Filed
      <4> QED
        BY <2>5, <4>1, <4>2
    <3> HIDE DEF Kept
    <3> QED
      BY <2>1, <2>2, <3>1, <3>2, <3>3, <3>4, Zenon
  <2> HIDE DEF Kept
  <2> QED
    BY <1>1, <2>3, <2>4, <2>5, Zenon DEF Next
<1>2. ASSUME IInv, [Next]_vars
      PROVE  [\A c \in Channels :
                Closed(c) => /\ Closed(c)'
                             /\ \A d \in {0, 1} :
                                  store'[<<c, d>>] = store[<<c, d>>]]_vars
  BY <1>1, <1>2, Zenon
<1> QED
  BY <1>2, Invariant, PTL DEF Spec, ClosedStaysOut

-----------------------------------------------------------------------------
(***************************************************************************)
(* The queue of the pending store.  A validation that has not come to its  *)
(* related messages has looked up none of them, and only the announcement  *)
(* whose turn it is goes through them.                                     *)
(***************************************************************************)
Begun(t) ==
  t.pc \in {"idle", "ann", "annFound", "annSave"} => t.parent = NoMsg /\ t.looked = 0

Fresh == \A p \in Peers : Begun(task[p])

\* the validation t will still come to the pending message for k
Looks(t, k) ==
  /\ t.parent # NoMsg
  /\ \/ \E i \in 1 .. 4 : i > t.looked /\ RelatedKeys(t.parent.key)[i] = k
     \/ \E i \in 1 .. Len(t.todo) : t.todo[i].key = k

LEMMA WillLookIs ==
  ASSUME NEW p, NEW k
  PROVE  /\ WillLook(p, k) <=> Looks(task[p], k)
         /\ WillLook(p, k)' <=> Looks(task'[p], k)
BY DEF WillLook, Looks

LEMMA IdleBegun == Begun(Idle)
BY DEF Begun, Idle

LEMMA BegunBecoming ==
  ASSUME IInv, Fresh, NEW p \in Peers, NEW t, Become(p, t), Begun(t)
  PROVE  Fresh'
BY DEF Become, IInv, TasksOK, Fresh, Begun

LEMMA BegunMoves ==
  ASSUME IInv, Fresh, NEW p \in Peers, NEW t, Become(p, t),
         t.pc \notin {"idle", "ann", "annFound", "annSave"}
  PROVE  Fresh'
BY BegunBecoming DEF Begun

LEMMA OkBegun ==
  ASSUME IInv, Fresh, NEW p \in Peers, NEW S, Ok(p, S)
  PROVE  Fresh'
<1> DEFINE t == [task[p] EXCEPT !.pc = "related", !.results = task[p].results \cup S]
<1>1. t.pc = "related"
  BY DEF IInv, TasksOK, Sound, Task
<1>2. Begun(t)
  BY <1>1 DEF Begun
<1> HIDE DEF t
<1>3. CASE Become(p, t)
  BY <1>2, <1>3, BegunBecoming
<1>4. CASE Become(p, Idle)
  BY <1>4, IdleBegun, BegunBecoming
<1> QED
  BY <1>3, <1>4 DEF Ok, t

LEMMA ValidateBegun ==
  ASSUME IInv, Fresh, NEW p \in Peers, Validate(p)
  PROVE  Fresh'
<1>1. Sound(task[p]) /\ task[p] \in Task /\ Begun(task[p])
  BY DEF IInv, TasksOK, Sound, Fresh
<1>2. CASE \/ AnnIgnored(p) \/ UpdQueues(p) \/ NodeQueues(p) \/ Ignored(p) \/ Saves(p)
  <2>1. \E S : Ok(p, S)
    BY <1>2, Zenon DEF AnnIgnored, UpdQueues, NodeQueues, Queue, Ignored, Saves
  <2> QED
    BY <2>1, OkBegun
<1>3. CASE \/ AnnBadSignature(p) \/ AnnNotOnChain(p) \/ AnnClientThrows(p)
           \/ RelatedDone(p) \/ BadSignature(p)
  <2>1. Become(p, Idle)
    BY <1>3, Zenon DEF AnnBadSignature, AnnNotOnChain, AnnClientThrows, RelatedDone,
       BadSignature, Err
  <2> QED
    BY <2>1, IdleBegun, BegunBecoming
<1>4. CASE AnnFinds(p)
  <2> DEFINE t == [task[p] EXCEPT !.pc = "annFound", !.chan = ann[task[p].msg.key]]
  <2>1. Become(p, t) /\ task[p].pc = "ann"
    BY <1>4 DEF AnnFinds, At
  <2>2. t.parent = task[p].parent /\ t.looked = task[p].looked
    BY <1>1 DEF Task
  <2>3. Begun(t)
    BY <1>1, <2>1, <2>2 DEF Begun
  <2> QED
    BY <2>1, <2>3, BegunBecoming
<1>5. CASE AnnChecked(p)
  <2> DEFINE t == [task[p] EXCEPT !.pc = "annSave"]
  <2>1. Become(p, t) /\ task[p].pc = "annFound"
    BY <1>5 DEF AnnChecked, At, Goto
  <2>2. t.parent = task[p].parent /\ t.looked = task[p].looked
    BY <1>1 DEF Task
  <2>3. Begun(t)
    BY <1>1, <2>1, <2>2 DEF Begun
  <2> QED
    BY <2>1, <2>3, BegunBecoming
<1>6. CASE RelatedTakes(p)
  <2> DEFINE m == Head(task[p].todo)
             t == [task[p] EXCEPT !.pc = m.kind, !.msg = m, !.todo = Tail(@)]
  <2>1. Become(p, t) /\ task[p].todo # <<>>
    BY <1>6 DEF RelatedTakes, Takes
  <2>2. m.kind \in {"upd", "node"}
    <3>1. m \in Waiting
      BY <1>1, <2>1 DEF Sound
    <3> QED
      BY <3>1, WaitingKind
  <2>3. t.pc = m.kind
    BY <1>1 DEF Task
  <2>4. Begun(t)
    BY <2>2, <2>3 DEF Begun
  <2> QED
    BY <2>1, <2>4, BegunBecoming
<1>7. CASE AnnSaves(p)
  <2> DEFINE t == [task[p] EXCEPT !.pc = "related", !.parent = task[p].msg,
                                  !.results = {task[p].msg}]
  <2>1. Become(p, t)
    BY <1>7 DEF AnnSaves
  <2>2. t.pc = "related"
    BY <1>1 DEF Task
  <2> QED
    BY <2>1, <2>2, BegunMoves
<1>8. CASE RelatedLooks(p)
  <2> DEFINE found == pending[RelatedKeys(task[p].parent.key)[task[p].looked + 1]]
             t == [task[p] EXCEPT !.looked = @ + 1,
                                  !.todo = IF found = NoMsg THEN @ ELSE Append(@, found)]
  <2>1. Become(p, t) /\ task[p].pc = "related"
    BY <1>8 DEF RelatedLooks, At
  <2>2. t.pc = "related"
    BY <1>1, <2>1 DEF Task
  <2> QED
    BY <2>1, <2>2, BegunMoves
<1>9. CASE UpdFinds(p)
  <2> DEFINE t == [task[p] EXCEPT !.pc = "updFound", !.chan = ann[task[p].msg.key[1]]]
  <2>1. Become(p, t)
    BY <1>9 DEF UpdFinds
  <2>2. t.pc = "updFound"
    BY <1>1 DEF Task
  <2> QED
    BY <2>1, <2>2, BegunMoves
<1>10. CASE UpdReads(p)
  <2> DEFINE t == [task[p] EXCEPT !.pc = "save", !.seen = store[task[p].msg.key]]
  <2>1. Become(p, t)
    BY <1>10 DEF UpdReads
  <2>2. t.pc = "save"
    BY <1>1 DEF Task
  <2> QED
    BY <2>1, <2>2, BegunMoves
<1>11. CASE NodeReads(p)
  <2> DEFINE t == [task[p] EXCEPT !.pc = "nodeRead", !.seen = store[task[p].msg.key]]
  <2>1. Become(p, t)
    BY <1>11 DEF NodeReads
  <2>2. t.pc = "nodeRead"
    BY <1>1 DEF Task
  <2> QED
    BY <2>1, <2>2, BegunMoves
<1>12. CASE NodeFinds(p)
  <2> DEFINE pc == IF HasChannel(task[p].msg.key) THEN "save" ELSE "nodeQueue"
             t == [task[p] EXCEPT !.pc = pc]
  <2>1. Become(p, t)
    BY <1>12 DEF NodeFinds, Goto
  <2>2. t.pc = pc
    BY <1>1 DEF Task
  <2> QED
    <3>1. t.pc \in {"save", "nodeQueue"}
      BY <2>2
    <3> HIDE DEF t
    <3> QED
      BY <2>1, <3>1, BegunMoves
<1> QED
  BY <1>2, <1>3, <1>4, <1>5, <1>6, <1>7, <1>8, <1>9, <1>10, <1>11, <1>12, Zenon
     DEF Validate

LEMMA FreshInvariant == Spec => []Fresh
<1>1. Init => Fresh
  BY IdleBegun DEF Init, Fresh
<1>2. IInv /\ Fresh /\ [Next]_vars => Fresh'
  <2> SUFFICES ASSUME IInv, Fresh, [Next]_vars PROVE Fresh'
    OBVIOUS
  <2>1. CASE UNCHANGED vars
    BY <2>1 DEF vars, Fresh
  <2>2. ASSUME NEW p \in Peers, NEW m \in Messages, Receive(p, m) PROVE Fresh'
    <3> DEFINE t == [Idle EXCEPT !.pc = m.kind, !.msg = m]
    <3>1. Become(p, t) /\ Begun(t)
      BY <2>2 DEF Receive, Begun, Idle
    <3> QED
      BY <3>1, BegunBecoming
  <2>3. ASSUME NEW c \in Channels, Spend(c) \/ RemoveChannel(c) PROVE Fresh'
    BY <2>3 DEF Spend, RemoveChannel, Fresh
  <2> QED
    BY <2>1, <2>2, <2>3, ValidateBegun DEF Next
<1> QED
  BY <1>1, <1>2, Invariant, PTL DEF Spec

\* Whether a validation still comes to k depends on three of its fields.
LEMMA LooksSame ==
  ASSUME NEW t, NEW u, NEW k, Looks(t, k),
         u.parent = t.parent, u.looked = t.looked, u.todo = t.todo
  PROVE  Looks(u, k)
BY Zenon DEF Looks

\* A validation still comes to a message that stays queued, unless it stops
\* at a related message whose signature is bad.
LEMMA StillLooks ==
  ASSUME IInv, Fresh, NEW p \in Peers, NEW k \in Keys, WillLook(p, k),
         pending'[k] # NoMsg, Validate(p), task[p].msg.good
  PROVE  WillLook(p, k)'
<1>1. Sound(task[p]) /\ task[p] \in Task /\ Begun(task[p]) /\ Looks(task[p], k)
  BY WillLookIs DEF IInv, TasksOK, Sound, Fresh
<1>2. /\ task[p].parent # NoMsg
      /\ task[p].pc \notin {"idle", "ann", "annFound", "annSave"}
  BY <1>1 DEF Looks, Begun
<1> SUFFICES Looks(task'[p], k)
  BY WillLookIs
<1>3. ASSUME NEW t, Become(p, t) PROVE task'[p] = t
  BY <1>3 DEF Become, IInv, TasksOK
<1>4. CASE UpdQueues(p) \/ NodeQueues(p) \/ Ignored(p) \/ Saves(p)
  <2>1. PICK S : Ok(p, S)
    BY <1>4, Zenon DEF UpdQueues, NodeQueues, Queue, Ignored, Saves
  <2> DEFINE t == [task[p] EXCEPT !.pc = "related", !.results = task[p].results \cup S]
  <2>2. Become(p, t)
    BY <1>2, <2>1 DEF Ok
  <2>3. t.parent = task[p].parent /\ t.looked = task[p].looked /\ t.todo = task[p].todo
    BY <1>1 DEF Task
  <2> HIDE DEF t
  <2>4. Looks(t, k)
    BY <1>1, <2>3, LooksSame, Zenon
  <2> QED
    BY <1>3, <2>2, <2>4, Zenon
<1>5. CASE UpdFinds(p)
  <2> DEFINE t == [task[p] EXCEPT !.pc = "updFound", !.chan = ann[task[p].msg.key[1]]]
  <2>1. t.parent = task[p].parent /\ t.looked = task[p].looked /\ t.todo = task[p].todo
    BY <1>1 DEF Task
  <2>2. Become(p, t)
    BY <1>5 DEF UpdFinds
  <2> HIDE DEF t
  <2>3. Looks(t, k)
    BY <1>1, <2>1, LooksSame, Zenon
  <2> QED
    BY <1>3, <2>2, <2>3, Zenon
<1>6. CASE UpdReads(p)
  <2> DEFINE t == [task[p] EXCEPT !.pc = "save", !.seen = store[task[p].msg.key]]
  <2>1. t.parent = task[p].parent /\ t.looked = task[p].looked /\ t.todo = task[p].todo
    BY <1>1 DEF Task
  <2>2. Become(p, t)
    BY <1>6 DEF UpdReads
  <2> HIDE DEF t
  <2>3. Looks(t, k)
    BY <1>1, <2>1, LooksSame, Zenon
  <2> QED
    BY <1>3, <2>2, <2>3, Zenon
<1>7. CASE NodeReads(p)
  <2> DEFINE t == [task[p] EXCEPT !.pc = "nodeRead", !.seen = store[task[p].msg.key]]
  <2>1. t.parent = task[p].parent /\ t.looked = task[p].looked /\ t.todo = task[p].todo
    BY <1>1 DEF Task
  <2>2. Become(p, t)
    BY <1>7 DEF NodeReads
  <2> HIDE DEF t
  <2>3. Looks(t, k)
    BY <1>1, <2>1, LooksSame, Zenon
  <2> QED
    BY <1>3, <2>2, <2>3, Zenon
<1>8. CASE NodeFinds(p)
  <2> DEFINE pc == IF HasChannel(task[p].msg.key) THEN "save" ELSE "nodeQueue"
             t == [task[p] EXCEPT !.pc = pc]
  <2>1. t.parent = task[p].parent /\ t.looked = task[p].looked /\ t.todo = task[p].todo
    BY <1>1 DEF Task
  <2>2. Become(p, t)
    BY <1>8 DEF NodeFinds, Goto
  <2> HIDE DEF t
  <2>3. Looks(t, k)
    BY <1>1, <2>1, LooksSame, Zenon
  <2> QED
    BY <1>3, <2>2, <2>3, Zenon
<1>9. CASE RelatedLooks(p)
  <2> DEFINE key == RelatedKeys(task[p].parent.key)[task[p].looked + 1]
             todo == IF pending[key] = NoMsg THEN task[p].todo
                                             ELSE Append(task[p].todo, pending[key])
             t == [task[p] EXCEPT !.looked = @ + 1, !.todo = todo]
  <2>1. Become(p, t) /\ task[p].looked \in 0 .. 3
    BY <1>1, <1>9, SMTT(30) DEF RelatedLooks, Task
  <2>2. t.parent = task[p].parent /\ t.looked = task[p].looked + 1 /\ t.todo = todo
    BY <1>1 DEF Task
  <2>3. key \in Keys
    <3>1. task[p].parent.key \in Channels
      BY <1>1, <1>2, Kinds DEF Sound
    <3> QED
      BY <2>1, <3>1, RelatedAreKeys
  <2>4. task[p].todo \in Seq(Waiting)
    BY <1>1 DEF Sound
  <2>5. pending[key] # NoMsg => pending[key] \in Waiting /\ pending[key].key = key
    BY <2>3 DEF IInv, StoresOK, Filed
  <2>6. pending[k] # NoMsg
    BY <1>9 DEF RelatedLooks, stores
  <2>7. \A i \in 1 .. Len(task[p].todo) : i \in 1 .. Len(todo) /\ todo[i] = task[p].todo[i]
    BY <2>4, <2>5
  <2>8. key = k => \E i \in 1 .. Len(todo) : todo[i].key = k
    <3> SUFFICES ASSUME key = k PROVE \E i \in 1 .. Len(todo) : todo[i].key = k
      OBVIOUS
    <3>1. todo = Append(task[p].todo, pending[k]) /\ pending[k] \in Waiting /\ pending[k].key = k
      BY <2>5, <2>6
    <3>2. Len(task[p].todo) + 1 \in 1 .. Len(todo) /\ todo[Len(task[p].todo) + 1].key = k
      BY <2>4, <3>1
    <3> QED
      BY <3>2
  <2>9. CASE \E i \in 1 .. 4 : i > task[p].looked /\ RelatedKeys(task[p].parent.key)[i] = k
    <3>1. PICK i \in 1 .. 4 : i > task[p].looked /\ RelatedKeys(task[p].parent.key)[i] = k
      BY <2>9
    <3>0. t.parent # NoMsg
      BY <1>2, <2>2
    <3> HIDE DEF todo
    <3>2. ASSUME i = task[p].looked + 1 PROVE Looks(t, k)
      <4>1. key = k
        BY <3>1, <3>2
      <4> HIDE DEF key
      <4>2. \E j \in 1 .. Len(t.todo) : t.todo[j].key = k
        BY <2>2, <2>8, <4>1
      <4> HIDE DEF t
      <4> QED
        BY <3>0, <4>2, Zenon DEF Looks
    <3>3. ASSUME i > task[p].looked + 1 PROVE Looks(t, k)
      <4> HIDE DEF key
      <4>1. i > t.looked /\ RelatedKeys(t.parent.key)[i] = k
        BY <2>2, <3>1, <3>3
      <4> HIDE DEF t
      <4> QED
        BY <3>0, <3>1, <4>1, Zenon DEF Looks
    <3>4. i = task[p].looked + 1 \/ i > task[p].looked + 1
      BY <2>1, <3>1
    <3>5. Looks(t, k)
      <4> HIDE DEF key, t
      <4> QED
        BY <3>2, <3>3, <3>4, Zenon
    <3> HIDE DEF key, t
    <3> QED
      BY <1>3, <2>1, <3>5, Zenon
  <2>10. CASE \E i \in 1 .. Len(task[p].todo) : task[p].todo[i].key = k
    <3>1. PICK i \in 1 .. Len(task[p].todo) : task[p].todo[i].key = k
      BY <2>10
    <3> HIDE DEF todo
    <3>2. i \in 1 .. Len(t.todo) /\ t.todo[i].key = k
      BY <2>2, <2>7, <3>1
    <3> HIDE DEF t
    <3>3. Looks(t, k)
      BY <1>2, <2>2, <3>2, Zenon DEF Looks
    <3> QED
      BY <1>3, <2>1, <3>3
  <2> QED
    BY <1>1, <2>9, <2>10 DEF Looks
<1>10. CASE RelatedTakes(p)
  <2> DEFINE m == Head(task[p].todo)
             t == [task[p] EXCEPT !.pc = m.kind, !.msg = m, !.todo = Tail(@)]
  <2>1. /\ Become(p, t) /\ task[p].todo # <<>>
        /\ pending' = [pending EXCEPT ![m.key] = NoMsg]
    BY <1>10 DEF RelatedTakes, Takes
  <2>2. t.parent = task[p].parent /\ t.looked = task[p].looked /\ t.todo = Tail(task[p].todo)
    BY <1>1 DEF Task
  <2>3. task[p].todo \in Seq(Waiting) /\ m = task[p].todo[1]
    BY <1>1, <2>1 DEF Sound
  <2>4. m.key # k
    BY <2>1 DEF IInv, StoresOK, Filed
  <2>5. \A i \in 1 .. Len(task[p].todo) :
            i # 1 => i - 1 \in 1 .. Len(t.todo) /\ t.todo[i - 1] = task[p].todo[i]
    BY <2>1, <2>2, <2>3
  <2> HIDE DEF t
  <2>6. CASE \E i \in 1 .. 4 : i > task[p].looked /\ RelatedKeys(task[p].parent.key)[i] = k
    <3>1. Looks(t, k)
      BY <1>2, <2>2, <2>6 DEF Looks
    <3> QED
      BY <1>3, <2>1, <3>1
  <2>7. CASE \E i \in 1 .. Len(task[p].todo) : task[p].todo[i].key = k
    <3>1. PICK i \in 1 .. Len(task[p].todo) : task[p].todo[i].key = k
      BY <2>7
    <3>2. i - 1 \in 1 .. Len(t.todo) /\ t.todo[i - 1].key = k
      BY <2>3, <2>4, <2>5, <3>1
    <3>3. Looks(t, k)
      BY <1>2, <2>2, <3>2, Zenon DEF Looks
    <3> QED
      BY <1>3, <2>1, <3>3
  <2> QED
    BY <1>1, <2>6, <2>7 DEF Looks
<1>11. ~RelatedDone(p)
  <2> SUFFICES ASSUME RelatedDone(p) PROVE FALSE
    OBVIOUS
  <2>1. task[p].looked = 4 /\ task[p].todo = <<>>
    BY DEF RelatedDone, Takes
  <2> QED
    BY <1>1, <2>1 DEF Looks
<1> QED
  BY <1>2, <1>4, <1>5, <1>6, <1>7, <1>8, <1>9, <1>10, <1>11
     DEF Validate, At, AnnFinds, AnnIgnored, AnnBadSignature, AnnChecked, AnnNotOnChain,
         AnnClientThrows, AnnSaves, BadSignature

\* What announces a channel comes to the messages that waited for it.
LEMMA AnnouncerLooks ==
  ASSUME IInv, Fresh, [Next]_vars, NEW k \in Keys, ~Announced(k), Announced(k)'
  PROVE  \E p \in Peers : WillLook(p, k)'
<1>1. ann' # ann
  BY DEF Announced, HasChannel
<1>2. PICK p \in Peers : AnnSaves(p)
  <2>1. ASSUME NEW p \in Peers, Validate(p), ~AnnSaves(p) PROVE FALSE
    BY <1>1, <2>1 DEF Validate, AnnFinds, AnnIgnored, AnnBadSignature, AnnChecked,
       AnnNotOnChain, AnnClientThrows, RelatedLooks, RelatedTakes, RelatedDone, UpdFinds,
       UpdQueues, UpdReads, NodeReads, NodeFinds, NodeQueues, Queue, Ignored, BadSignature,
       Saves, stores
  <2>2. ASSUME NEW p \in Peers, NEW m \in Messages, Receive(p, m) PROVE FALSE
    BY <1>1, <2>2 DEF Receive, stores
  <2>3. ASSUME NEW c \in Channels, Spend(c) PROVE FALSE
    BY <1>1, <2>3 DEF Spend, stores
  <2>4. ASSUME NEW c \in Channels, RemoveChannel(c) PROVE FALSE
    <3>1. ann' = [ann EXCEPT ![c] = "none"] /\ ann \in [Channels -> {"none", "plain", "ext"}]
      BY <2>4 DEF RemoveChannel, IInv, RestOK
    <3>2. \A b \in Channels : ann'[b] # "none" => ann[b] # "none"
      BY <3>1
    <3>3. k \notin Nodes => k[1] \in Channels
      BY DEF Keys, UpdKeys
    <3> QED
      BY <3>2, <3>3 DEF Announced, HasChannel
  <2>5. vars' # vars
    BY <1>1 DEF vars, stores
  <2> QED
    BY <2>1, <2>2, <2>3, <2>4, <2>5 DEF Next
<1> DEFINE c == task[p].msg.key
           t == [task[p] EXCEPT !.pc = "related", !.parent = task[p].msg,
                                !.results = {task[p].msg}]
<1>3. Sound(task[p]) /\ task[p] \in Task /\ Begun(task[p]) /\ task[p].pc = "annSave"
  BY <1>2 DEF IInv, TasksOK, Sound, Fresh, AnnSaves, At
<1>4. task[p].msg \in Anns /\ task[p].msg # NoMsg /\ c \in Channels
  BY <1>3, Kinds DEF Sound
<1>5. t.parent = task[p].msg /\ t.looked = 0
  BY <1>3 DEF Task, Begun
<1>6. task'[p] = t
  BY <1>2 DEF AnnSaves, Become, IInv, TasksOK
<1>7. ann \in [Channels -> {"none", "plain", "ext"}] /\ \A b \in Channels : b # c => ann'[b] = ann[b]
  BY <1>2 DEF AnnSaves, IInv, RestOK
<1>8. \E i \in 1 .. 4 : RelatedKeys(c)[i] = k
  <2>1. CASE k \in Nodes
    <3>1. PICK b \in Channels, d \in {0, 1} : ann'[b] # "none" /\ NodeOf[<<b, d>>] = k
      BY <2>1 DEF Announced, HasChannel
    <3>2. b = c
      BY <1>7, <2>1, <3>1 DEF Announced, HasChannel
    <3> QED
      BY <3>1, <3>2 DEF RelatedKeys
  <2>2. CASE k \notin Nodes
    <3>1. PICK b \in Channels, d \in {0, 1} : k = <<b, d>>
      BY <2>2 DEF Keys, UpdKeys
    <3>2. ann[b] = "none" /\ ann'[b] # "none"
      BY <2>2, <3>1 DEF Announced
    <3> QED
      BY <1>7, <3>1, <3>2 DEF RelatedKeys
  <2> QED
    BY <2>1, <2>2
<1>9. Looks(task'[p], k)
  <2> HIDE DEF t
  <2> QED
    BY <1>4, <1>5, <1>6, <1>8 DEF Looks
<1> QED
  BY <1>9, WillLookIs

\* A queued message is left behind only by a validation that looked for the
\* channel before it was announced, or that a bad related message stopped.
THEOREM QueuedNotForgotten == Spec => NothingStranded
<1> DEFINE Excused(k) == \/ \E p \in Peers : QueuesLate(p, k)
                         \/ \E p \in Peers : WillLook(p, k) /\ ~task[p].msg.good
<1>1. ASSUME IInv, Fresh, [Next]_vars, NEW k \in Keys, Stranded(k)', ~Stranded(k)
      PROVE  Excused(k)
  <2>1. pending'[k] # NoMsg /\ Announced(k)' /\ \A p \in Peers : ~WillLook(p, k)'
    BY <1>1 DEF Stranded
  <2>2. vars' # vars
    <3> SUFFICES ASSUME vars' = vars PROVE Stranded(k)' <=> Stranded(k)
      BY <1>1
    <3> QED
      BY DEF vars, stores, Stranded, Announced, HasChannel, WillLook
  <2>3. CASE pending[k] = NoMsg
    <3>1. PICK p \in Peers : (UpdQueues(p) \/ NodeQueues(p)) /\ task[p].msg.key = k
      <4>1. \A c \in Channels : ~Spend(c) /\ ~RemoveChannel(c)
        BY <2>1, <2>3 DEF Spend, RemoveChannel, stores
      <4>2. \A p \in Peers, m \in Messages : ~Receive(p, m)
        BY <2>1, <2>3 DEF Receive, stores
      <4>3. PICK p \in Peers : Validate(p)
        BY <1>1, <2>2, <4>1, <4>2 DEF Next
      <4>4. ~RelatedTakes(p)
        BY <1>1, <2>1, <2>3 DEF RelatedTakes, IInv, StoresOK, Filed
      <4>5. UpdQueues(p) \/ NodeQueues(p)
        BY <2>1, <2>3, <4>3, <4>4 DEF Validate, AnnFinds, AnnIgnored, AnnBadSignature,
           AnnChecked, AnnNotOnChain, AnnClientThrows, AnnSaves, RelatedLooks, RelatedDone,
           UpdFinds, UpdReads, NodeReads, NodeFinds, Ignored, BadSignature, Saves, stores
      <4>6. task[p].msg.key = k
        BY <1>1, <2>1, <2>3, <4>5 DEF UpdQueues, NodeQueues, Queue, IInv, StoresOK, Filed
      <4> QED
        BY <4>5, <4>6
    <3>2. pending'[k] = task[p].msg
      BY <1>1, <3>1 DEF UpdQueues, NodeQueues, Queue, IInv, StoresOK, Filed
    <3> QED
      BY <3>1, <3>2 DEF QueuesLate, UpdQueues, NodeQueues
  <2>4. CASE pending[k] # NoMsg /\ ~Announced(k)
    BY <1>1, <2>1, <2>4, AnnouncerLooks
  <2>5. CASE \E p \in Peers : WillLook(p, k)
    <3>1. PICK p \in Peers : WillLook(p, k)
      BY <2>5
    <3>2. task'[p] # task[p]
      BY <2>1, <3>1, WillLookIs
    <3>3. Validate(p)
      <4>1. ASSUME NEW m \in Messages, Receive(p, m) PROVE FALSE
        BY <1>1, <3>1, <4>1 DEF Receive, At, Fresh, Begun, WillLook
      <4>2. ASSUME NEW q \in Peers, NEW m \in Messages, Receive(q, m) PROVE q = p
        BY <1>1, <3>2, <4>2 DEF Receive, Become, IInv, TasksOK
      <4>3. ASSUME NEW c \in Channels, Spend(c) \/ RemoveChannel(c) PROVE FALSE
        BY <3>2, <4>3 DEF Spend, RemoveChannel
      <4>4. ASSUME NEW q \in Peers, Validate(q) PROVE q = p
        <5>1. \E t : Become(q, t)
          BY <4>4, Zenon DEF Validate, AnnFinds, AnnIgnored, AnnBadSignature, AnnChecked,
             AnnNotOnChain, AnnClientThrows, AnnSaves, RelatedLooks, RelatedTakes, RelatedDone,
             UpdFinds, UpdQueues, UpdReads, NodeReads, NodeFinds, NodeQueues, Queue, Goto,
             Ignored, BadSignature, Saves, Ok, Err
        <5> QED
          BY <1>1, <3>2, <5>1 DEF Become, IInv, TasksOK
      <4> QED
        BY <1>1, <2>2, <4>1, <4>2, <4>3, <4>4 DEF Next
    <3> QED
      BY <1>1, <2>1, <3>1, <3>3, StillLooks
  <2> QED
    BY <1>1, <2>3, <2>4, <2>5 DEF Stranded
<1>2. ASSUME IInv, Fresh, [Next]_vars
      PROVE  [\A k \in Keys : Stranded(k)' /\ ~Stranded(k)
                => \/ \E p \in Peers : QueuesLate(p, k)
                   \/ \E p \in Peers : WillLook(p, k) /\ ~task[p].msg.good]_vars
  BY <1>1, <1>2, Zenon
<1> QED
  BY <1>2, Invariant, FreshInvariant, PTL DEF Spec, NothingStranded
=============================================================================
