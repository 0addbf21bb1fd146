------------------------- MODULE GossipRelayProofs -------------------------
(***************************************************************************)
(* Theorems about GossipRelay, for every set of peers and messages and     *)
(* every maximum queue length.                                             *)
(***************************************************************************)
EXTENDS GossipRelay, SequenceTheorems, TLAPS

-----------------------------------------------------------------------------
(* RemoveAt keeps the other elements, in their order. *)
LEMMA RemoveAtProperties ==
    ASSUME NEW S, NEW s \in Seq(S), NEW i \in 1..Len(s)
    PROVE  /\ RemoveAt(s, i) \in Seq(S)
           /\ Len(RemoveAt(s, i)) = Len(s) - 1
           /\ \A j \in 1..(Len(s) - 1) :
                 RemoveAt(s, i)[j] = IF j < i THEN s[j] ELSE s[j + 1]
<1> DEFINE a == SubSeq(s, 1, i - 1)
           b == SubSeq(s, i + 1, Len(s))
<1>1. Len(s) \in Nat /\ i \in Nat /\ \A j \in 1..Len(s) : s[j] \in S
    BY LenProperties, ElementOfSeq
<1>2. /\ a \in Seq(S) /\ Len(a) = i - 1
      /\ \A j \in 1..(i - 1) : a[j] = s[j]
    <2>1. 1 \in Int /\ i - 1 \in Int /\ \A j \in 1..(i - 1) : s[j] \in S
        BY <1>1
    <2> QED BY <1>1, <2>1, SubSeqProperties
<1>3. /\ b \in Seq(S) /\ Len(b) = Len(s) - i
      /\ \A j \in 1..(Len(s) - i) : b[j] = s[i + j]
    <2>1. i + 1 \in Int /\ Len(s) \in Int /\ \A j \in (i + 1)..Len(s) : s[j] \in S
        BY <1>1
    <2> QED BY <1>1, <2>1, SubSeqProperties
<1>4. RemoveAt(s, i) = a \o b
    BY DEF RemoveAt
<1> HIDE DEF a, b
<1>5. /\ a \o b \in Seq(S) /\ Len(a \o b) = Len(a) + Len(b)
      /\ \A j \in 1..(Len(a) + Len(b)) :
            (a \o b)[j] = IF j <= Len(a) THEN a[j] ELSE b[j - Len(a)]
    <2>1. a \in Seq(S) /\ b \in Seq(S)
        BY <1>2, <1>3
    <2> QED BY <2>1, ConcatProperties
<1>6. ASSUME NEW j \in 1..(Len(s) - 1)
      PROVE  (a \o b)[j] = IF j < i THEN s[j] ELSE s[j + 1]
    <2>1. (a \o b)[j] = IF j <= i - 1 THEN a[j] ELSE b[j - (i - 1)]
        BY <1>1, <1>2, <1>3, <1>5, SMTT(30)
    <2>2. CASE j < i
        BY <1>1, <1>2, <2>1, <2>2
    <2>3. CASE ~(j < i)
        <3>1. b[j - (i - 1)] = s[i + (j - (i - 1))]
            BY <1>1, <1>3, <2>3
        <3>2. i + (j - (i - 1)) = j + 1
            BY <1>1
        <3>3. (a \o b)[j] = s[j + 1]
            BY <1>1, <2>1, <2>3, <3>1, <3>2
        <3> QED BY <2>3, <3>3
    <2> QED BY <2>2, <2>3, Zenon
<1> QED BY <1>1, <1>2, <1>3, <1>4, <1>5, <1>6

(* What SubSeq leaves of a sequence when k elements go from its front.     *)
LEMMA DropProperties ==
    ASSUME NEW S, NEW s \in Seq(S), NEW k \in 0..Len(s)
    PROVE  /\ SubSeq(s, k + 1, Len(s)) \in Seq(S)
           /\ Len(SubSeq(s, k + 1, Len(s))) = Len(s) - k
           /\ \A j \in 1..(Len(s) - k) : SubSeq(s, k + 1, Len(s))[j] = s[k + j]
<1>1. Len(s) \in Nat /\ k \in Nat /\ \A j \in 1..Len(s) : s[j] \in S
    BY LenProperties, ElementOfSeq
<1>2. k + 1 \in Int /\ Len(s) \in Int /\ \A j \in (k + 1)..Len(s) : s[j] \in S
    BY <1>1
<1> QED BY <1>1, <1>2, SubSeqProperties

(* The elements of a sequence. *)
LEMMA RangeMember ==
    ASSUME NEW S, NEW s \in Seq(S), NEW x
    PROVE  x \in Range(s) <=> \E i \in 1..Len(s) : s[i] = x
BY LenProperties DEF Range

(* Find returns the position of a message with the same key, or 0. *)
LEMMA FindProperties ==
    ASSUME queue \in Seq(Messages), NEW m
    PROVE  /\ Find(m) \in 0..Len(queue)
           /\ Find(m) # 0 => queue[Find(m)].key = m.key
           /\ Find(m) = 0 => \A i \in 1..Len(queue) : queue[i].key # m.key
<1>1. Len(queue) \in Nat
    BY LenProperties
<1>2. CASE \E i \in 1..Len(queue) : queue[i].key = m.key
    <2>1. Find(m) \in 1..Len(queue) /\ queue[Find(m)].key = m.key
        BY <1>2 DEF Find
    <2> QED BY <1>1, <2>1
<1>3. CASE ~ \E i \in 1..Len(queue) : queue[i].key = m.key
    BY <1>1, <1>3 DEF Find
<1> QED BY <1>2, <1>3

LEMMA DeleteCountProperties ==
    ASSUME queue \in Seq(Messages)
    PROVE  DeleteCount \in 0..Len(queue)
BY LenProperties, MaxQueueLenAssumption DEF DeleteCount

-----------------------------------------------------------------------------
(* The inductive invariant.  IndexInRange and NothingResent rest on the    *)
(* queue holding each message once, and on the histories' forgetting what  *)
(* has left the queue: otherwise a message that comes back would already   *)
(* count as sent.  A peer is in the relay once: were it there twice, it    *)
(* would stay, at index 0, when it is removed.                             *)
MembersOnce == \A i, j \in 1..Len(order) : order[i] = order[j] => i = j

SentIsHot == \A p \in Peers : sent[p] \subseteq Queued

IInv == TypeOK /\ MembersOnce /\ IndexInRange /\ OnePerKey /\ SentIsHot /\ NothingResent

LEMMA InitInv == Init => IInv
<1> SUFFICES ASSUME Init PROVE IInv
    OBVIOUS
<1>1. queue = <<>> /\ order = <<>> /\ Len(queue) = 0
    BY DEF Init
<1>2. TypeOK
    <2>1. queue \in Seq(Messages) /\ order \in Seq(Peers)
        BY <1>1, EmptySeq
    <2>2. idx \in [Peers -> Nat] /\ active \in BOOLEAN /\ ready \in SUBSET Peers
        BY DEF Init
    <2>3. sent \in [Peers -> SUBSET Messages] /\ before \in [Peers -> SUBSET Messages]
        BY DEF Init
    <2> QED BY <2>1, <2>2, <2>3 DEF TypeOK
<1>3. MembersOnce /\ IndexInRange /\ OnePerKey /\ SentIsHot
    BY <1>1 DEF Init, MembersOnce, IndexInRange, OnePerKey, SentIsHot
<1>4. Members = {}
    BY <1>1 DEF Members, Range
<1> QED BY <1>2, <1>3, <1>4 DEF IInv, NothingResent

-----------------------------------------------------------------------------
(* Type correctness of each step. *)
LEMMA TypePreserved == TypeOK /\ [Next]_vars => TypeOK'
<1> SUFFICES ASSUME TypeOK, [Next]_vars PROVE TypeOK'
    OBVIOUS
<1>t. /\ active \in BOOLEAN
      /\ queue \in Seq(Messages) /\ order \in Seq(Peers)
      /\ idx \in [Peers -> Nat]
      /\ ready \in SUBSET Peers
      /\ sent \in [Peers -> SUBSET Messages] /\ before \in [Peers -> SUBSET Messages]
    BY DEF TypeOK
<1>l. Len(queue) \in Nat /\ Len(order) \in Nat
    BY <1>t, LenProperties
<1>q. Queued \subseteq Messages
    BY <1>t, RangeOfSeq DEF Queued
<1>u. \A p \in Peers : Unsent(p) \subseteq Messages
    BY <1>t, <1>l, ElementOfSeq DEF Unsent
<1>1. CASE UNCHANGED vars
    BY <1>t, <1>1 DEF vars, TypeOK
<1>2. CASE Start \/ Stop
    <2>1. active' \in BOOLEAN /\ UNCHANGED <<queue, order, idx, ready, sent, before>>
        BY <1>2, Zenon DEF Start, Stop
    <2> QED BY <1>t, <2>1 DEF TypeOK
<1>3. ASSUME NEW p \in Peers, AddPeer(p)
      PROVE  TypeOK'
    <2>1. order' \in Seq(Peers)
        <3>1. CASE p \in Members
            BY <1>t, <1>3, <3>1 DEF AddPeer
        <3>2. CASE p \notin Members
            BY <1>t, <1>3, <3>2, AppendProperties DEF AddPeer
        <3> QED BY <3>1, <3>2
    <2>2. idx' \in [Peers -> Nat] /\ before' \in [Peers -> SUBSET Messages]
        BY <1>t, <1>l, <1>q, <1>3 DEF AddPeer
    <2>3. UNCHANGED <<active, queue, ready, sent>>
        BY <1>3 DEF AddPeer
    <2> QED BY <1>t, <2>1, <2>2, <2>3 DEF TypeOK
<1>4. ASSUME NEW p \in Peers, RemovePeer(p)
      PROVE  TypeOK'
    <2>1. order' \in Seq(Peers)
        BY <1>t, <1>4, RemoveAtProperties DEF RemovePeer
    <2>2. idx' \in [Peers -> Nat]
        BY <1>t, <1>4 DEF RemovePeer
    <2>3. UNCHANGED <<active, queue, ready, sent, before>>
        BY <1>4 DEF RemovePeer
    <2> QED BY <1>t, <2>1, <2>2, <2>3 DEF TypeOK
<1>5. ASSUME NEW p \in Peers, ConnectionChanges(p)
      PROVE  TypeOK'
    BY <1>t, <1>5 DEF ConnectionChanges, TypeOK
<1>6. ASSUME NEW m \in Messages, EnqueueNew(m)
      PROVE  TypeOK'
    <2>1. queue' \in Seq(Messages)
        BY <1>t, <1>6, AppendProperties DEF EnqueueNew
    <2> QED BY <1>t, <1>6, <2>1 DEF EnqueueNew, TypeOK
<1>7. ASSUME NEW m \in Messages, EnqueueNewer(m)
      PROVE  TypeOK'
    <2>1. Find(m) \in 1..Len(queue)
        BY <1>t, <1>l, <1>7, FindProperties DEF EnqueueNewer
    <2>2. Splice(Find(m)) \in Seq(Messages)
        BY <1>t, <2>1, RemoveAtProperties DEF Splice
    <2>3. queue' \in Seq(Messages)
        BY <1>7, <2>2, AppendProperties DEF EnqueueNewer
    <2>4. sent' \in [Peers -> SUBSET Messages] /\ before' \in [Peers -> SUBSET Messages]
        BY <1>t, <1>7 DEF EnqueueNewer, Forget
    <2>5. UNCHANGED <<active, order, idx, ready>>
        BY <1>7 DEF EnqueueNewer
    <2> QED BY <1>t, <2>3, <2>4, <2>5 DEF TypeOK
<1>8. CASE Tick
    <2> DEFINE hot == SubSeq(queue, DeleteCount + 1, Len(queue))
    <2>1. DeleteCount \in 0..Len(queue)
        BY <1>t, DeleteCountProperties
    <2>2. hot \in Seq(Messages)
        BY <1>t, <2>1, DropProperties
    <2>3. queue' = hot /\ UNCHANGED <<active, order, ready>>
        BY <1>8 DEF Tick
    <2>4. idx' = [p \in Peers |-> IF p \in Members THEN Len(queue) - DeleteCount ELSE 0]
        BY <1>8 DEF Tick
    <2>5. idx' \in [Peers -> Nat]
        BY <1>l, <2>1, <2>4
    <2>6. /\ sent' = [p \in Peers |->
                 (IF p \in Members THEN sent[p] \cup Unsent(p) ELSE sent[p]) \cap Range(hot)]
          /\ before' = [p \in Peers |-> before[p] \cap Range(hot)]
        BY <1>8 DEF Tick
    <2> HIDE DEF hot
    <2>7. sent' \in [Peers -> SUBSET Messages] /\ before' \in [Peers -> SUBSET Messages]
        BY <1>t, <1>u, <2>6
    <2> QED BY <1>t, <2>2, <2>3, <2>5, <2>7 DEF TypeOK
<1>9. CASE TickThrows
    <2>1. idx' \in [Peers -> Nat]
        BY <1>t, <1>l, <1>9 DEF TickThrows
    <2>2. sent' \in [Peers -> SUBSET Messages]
        BY <1>t, <1>u, <1>9 DEF TickThrows
    <2>3. UNCHANGED <<active, queue, order, ready, before>>
        BY <1>9 DEF TickThrows
    <2> QED BY <1>t, <2>1, <2>2, <2>3 DEF TypeOK
<1> QED BY <1>1, <1>2, <1>3, <1>4, <1>5, <1>6, <1>7, <1>8, <1>9 DEF Next

-----------------------------------------------------------------------------
(* A newer message takes the place of the older one. *)
LEMMA ReplaceStep ==
    ASSUME IInv, NEW m \in Messages, EnqueueNewer(m)
    PROVE  IndexInRange' /\ OnePerKey' /\ SentIsHot' /\ NothingResent'
<1> DEFINE f == Find(m)
           r == RemoveAt(queue, f)
<1>t. /\ queue \in Seq(Messages) /\ order \in Seq(Peers) /\ idx \in [Peers -> Nat]
      /\ sent \in [Peers -> SUBSET Messages]
    BY DEF IInv, TypeOK
<1>l. Len(queue) \in Nat
    BY <1>t, LenProperties
<1>1. f \in 1..Len(queue) /\ queue[f].key = m.key /\ queue[f].ts < m.ts
    BY <1>t, <1>l, FindProperties DEF EnqueueNewer
<1>2. queue' = Append(r, m) /\ UNCHANGED <<order, idx>>
    BY DEF EnqueueNewer, Splice
<1>3. sent' = [p \in Peers |-> sent[p] \cap Range(queue')]
    BY DEF EnqueueNewer, Forget
<1> HIDE DEF f
<1>4. /\ r \in Seq(Messages) /\ Len(r) = Len(queue) - 1
      /\ \A j \in 1..(Len(queue) - 1) : r[j] = IF j < f THEN queue[j] ELSE queue[j + 1]
    BY <1>t, <1>1, RemoveAtProperties
<1> HIDE DEF r
<1>5. /\ queue' \in Seq(Messages) /\ Len(queue') = Len(queue)
      /\ \A j \in 1..(Len(queue) - 1) : queue'[j] = r[j]
      /\ queue'[Len(queue)] = m
    <2>1. /\ Append(r, m) \in Seq(Messages) /\ Len(Append(r, m)) = Len(r) + 1
          /\ \A j \in 1..Len(r) : Append(r, m)[j] = r[j]
          /\ Append(r, m)[Len(r) + 1] = m
        BY <1>4, AppendProperties
    <2> QED BY <1>l, <1>2, <1>4, <2>1
<1> DEFINE At(j) == IF j < f THEN j ELSE j + 1
<1>6. \A j \in 1..(Len(queue) - 1) :
          At(j) \in 1..Len(queue) /\ At(j) # f /\ At(j) >= j /\ queue'[j] = queue[At(j)]
    BY <1>l, <1>1, <1>4, <1>5
<1>7. \A i, j \in 1..(Len(queue) - 1) : At(i) = At(j) => i = j
    BY <1>l, <1>1
<1> HIDE DEF At
<1>8. \A i, j \in 1..Len(queue) : queue[i].key = queue[j].key => i = j
    BY DEF IInv, OnePerKey
<1>9. \A i \in 1..Len(queue) : queue[i] # m
    <2> SUFFICES ASSUME NEW i \in 1..Len(queue), queue[i] = m PROVE FALSE
        OBVIOUS
    <2>1. i = f
        BY <1>1, <1>8
    <2> QED BY <1>1, <2>1, MessagesAssumption
<1>10. IndexInRange'
    BY <1>2, <1>5 DEF IInv, IndexInRange
<1>11. OnePerKey'
    <2> SUFFICES ASSUME NEW i \in 1..Len(queue), NEW j \in 1..Len(queue),
                        queue'[i].key = queue'[j].key
                 PROVE  i = j
        BY <1>5 DEF OnePerKey
    <2>1. CASE i \in 1..(Len(queue) - 1) /\ j \in 1..(Len(queue) - 1)
        BY <1>6, <1>7, <1>8, <2>1
    <2>2. ASSUME NEW k \in 1..(Len(queue) - 1) PROVE queue'[k].key # m.key
        BY <1>1, <1>6, <1>8
    <2> QED BY <1>l, <1>5, <2>1, <2>2
<1>12. SentIsHot'
    <2> SUFFICES ASSUME NEW p \in Peers PROVE sent'[p] \subseteq Range(queue')
        BY DEF SentIsHot, Queued
    <2> QED BY <1>3
<1>13. NothingResent'
    <2> SUFFICES ASSUME NEW p \in Members', NEW j \in (idx'[p] + 1)..Len(queue'),
                        queue'[j] \in sent'[p]
                 PROVE  FALSE
        BY DEF NothingResent, Unsent
    <2>1. p \in Members /\ p \in Peers
        BY <1>t, <1>2, RangeOfSeq DEF Members
    <2>2. idx'[p] = idx[p] /\ idx[p] \in Nat /\ j \in 1..Len(queue) /\ queue'[j] \in sent[p]
        BY <1>t, <1>l, <1>2, <1>3, <1>5, <2>1
    <2>3. CASE j = Len(queue)
        <3>1. m \in Range(queue)
            BY <1>5, <2>1, <2>2, <2>3 DEF IInv, SentIsHot, Queued
        <3> QED BY <1>t, <1>9, <3>1, RangeMember
    <2>4. CASE j # Len(queue)
        <3>1. At(j) \in (idx[p] + 1)..Len(queue) /\ queue[At(j)] \in sent[p]
            BY <1>l, <1>2, <1>5, <1>6, <2>2, <2>4
        <3>2. queue[At(j)] \in Unsent(p)
            BY <3>1 DEF Unsent
        <3> QED BY <2>1, <3>1, <3>2 DEF IInv, NothingResent
    <2> QED BY <2>3, <2>4
<1> QED BY <1>10, <1>11, <1>12, <1>13

(* A message about a new thing goes to the back. *)
LEMMA AppendStep ==
    ASSUME IInv, NEW m \in Messages, EnqueueNew(m)
    PROVE  IndexInRange' /\ OnePerKey' /\ SentIsHot' /\ NothingResent'
<1>t. /\ queue \in Seq(Messages) /\ order \in Seq(Peers) /\ idx \in [Peers -> Nat]
      /\ sent \in [Peers -> SUBSET Messages]
    BY DEF IInv, TypeOK
<1>l. Len(queue) \in Nat
    BY <1>t, LenProperties
<1>1. \A i \in 1..Len(queue) : queue[i].key # m.key
    BY <1>t, FindProperties DEF EnqueueNew
<1>2. queue' = Append(queue, m) /\ UNCHANGED <<order, idx, sent>>
    BY DEF EnqueueNew
<1>3. /\ queue' \in Seq(Messages) /\ Len(queue') = Len(queue) + 1
      /\ \A j \in 1..Len(queue) : queue'[j] = queue[j]
      /\ queue'[Len(queue) + 1] = m
    BY <1>t, <1>2, AppendProperties
<1>4. \A i, j \in 1..Len(queue) : queue[i].key = queue[j].key => i = j
    BY DEF IInv, OnePerKey
<1>5. IndexInRange'
    BY <1>t, <1>l, <1>2, <1>3 DEF IInv, IndexInRange
<1>6. OnePerKey'
    <2> SUFFICES ASSUME NEW i \in 1..(Len(queue) + 1), NEW j \in 1..(Len(queue) + 1),
                        queue'[i].key = queue'[j].key
                 PROVE  i = j
        BY <1>3 DEF OnePerKey
    <2>1. CASE i \in 1..Len(queue) /\ j \in 1..Len(queue)
        BY <1>3, <1>4, <2>1
    <2>2. CASE i = Len(queue) + 1 /\ j \in 1..Len(queue)
        BY <1>1, <1>3, <2>2
    <2>3. CASE j = Len(queue) + 1 /\ i \in 1..Len(queue)
        BY <1>1, <1>3, <2>3
    <2> QED BY <1>l, <2>1, <2>2, <2>3
<1>7. SentIsHot'
    <2> SUFFICES ASSUME NEW p \in Peers, NEW x \in sent[p] PROVE x \in Range(queue')
        BY <1>2 DEF SentIsHot, Queued
    <2>1. x \in Range(queue)
        BY DEF IInv, SentIsHot, Queued
    <2>2. PICK i \in 1..Len(queue) : queue[i] = x
        BY <1>t, <2>1, RangeMember
    <2>3. i \in 1..Len(queue') /\ queue'[i] = x
        BY <1>l, <1>3, <2>2
    <2> QED BY <1>3, <2>3, RangeMember
<1>8. NothingResent'
    <2> SUFFICES ASSUME NEW p \in Members', NEW j \in (idx'[p] + 1)..Len(queue'),
                        queue'[j] \in sent'[p]
                 PROVE  FALSE
        BY DEF NothingResent, Unsent
    <2>1. p \in Members /\ p \in Peers
        BY <1>t, <1>2, RangeOfSeq DEF Members
    <2>2. idx[p] \in Nat /\ j \in (idx[p] + 1)..(Len(queue) + 1) /\ queue'[j] \in sent[p]
        BY <1>t, <1>2, <1>3, <2>1
    <2>3. CASE j = Len(queue) + 1
        <3>1. m \in Range(queue)
            BY <1>3, <2>1, <2>2, <2>3 DEF IInv, SentIsHot, Queued
        <3>2. PICK i \in 1..Len(queue) : queue[i] = m
            BY <1>t, <3>1, RangeMember
        <3> QED BY <1>1, <3>2
    <2>4. CASE j # Len(queue) + 1
        <3>1. j \in (idx[p] + 1)..Len(queue) /\ queue[j] \in sent[p]
            BY <1>l, <1>3, <2>2, <2>4
        <3>2. queue[j] \in Unsent(p)
            BY <3>1 DEF Unsent
        <3> QED BY <2>1, <3>1, <3>2 DEF IInv, NothingResent
    <2> QED BY <2>3, <2>4
<1> QED BY <1>5, <1>6, <1>7, <1>8

(* A tick flushes every peer, then drops the oldest messages. *)
LEMMA TickStep ==
    ASSUME IInv, Tick
    PROVE  IndexInRange' /\ OnePerKey' /\ SentIsHot' /\ NothingResent'
<1> DEFINE k == DeleteCount
<1>t. /\ queue \in Seq(Messages) /\ order \in Seq(Peers) /\ idx \in [Peers -> Nat]
    BY DEF IInv, TypeOK
<1>l. Len(queue) \in Nat
    BY <1>t, LenProperties
<1>1. k \in 0..Len(queue)
    BY <1>t, DeleteCountProperties
<1>2. queue' = SubSeq(queue, k + 1, Len(queue)) /\ order' = order
    BY DEF Tick
<1>3. idx' = [p \in Peers |-> IF p \in Members THEN Len(queue) - k ELSE 0]
    BY DEF Tick
<1>4. sent' = [p \in Peers |->
          (IF p \in Members THEN sent[p] \cup Unsent(p) ELSE sent[p]) \cap Range(queue')]
    BY DEF Tick
<1> HIDE DEF k
<1>5. /\ Len(queue') = Len(queue) - k
      /\ \A j \in 1..(Len(queue) - k) : queue'[j] = queue[k + j]
    BY <1>t, <1>1, <1>2, DropProperties
<1>6. IndexInRange'
    BY <1>l, <1>1, <1>3, <1>5 DEF IndexInRange
<1>7. OnePerKey'
    <2> SUFFICES ASSUME NEW i \in 1..(Len(queue) - k), NEW j \in 1..(Len(queue) - k),
                        queue'[i].key = queue'[j].key
                 PROVE  i = j
        BY <1>5 DEF OnePerKey
    <2>1. k + i \in 1..Len(queue) /\ k + j \in 1..Len(queue)
        BY <1>l, <1>1
    <2>2. k + i = k + j
        BY <1>5, <2>1 DEF IInv, OnePerKey
    <2> QED BY <1>1, <2>2
<1>8. SentIsHot'
    <2> SUFFICES ASSUME NEW p \in Peers PROVE sent'[p] \subseteq Range(queue')
        BY DEF SentIsHot, Queued
    <2> QED BY <1>4
<1>9. NothingResent'
    <2> SUFFICES ASSUME NEW p \in Members', NEW j \in (idx'[p] + 1)..Len(queue')
                 PROVE  FALSE
        BY DEF NothingResent, Unsent
    <2>1. p \in Members /\ p \in Peers
        BY <1>t, <1>2, RangeOfSeq DEF Members
    <2> QED BY <1>l, <1>1, <1>3, <1>5, <2>1
<1> QED BY <1>6, <1>7, <1>8, <1>9

(* A tick that throws leaves the queue; it has flushed some of the peers. *)
LEMMA TickThrowsStep ==
    ASSUME IInv, TickThrows
    PROVE  IndexInRange' /\ OnePerKey' /\ SentIsHot' /\ NothingResent'
<1>t. /\ queue \in Seq(Messages) /\ order \in Seq(Peers) /\ idx \in [Peers -> Nat]
    BY DEF IInv, TypeOK
<1>l. Len(queue) \in Nat
    BY <1>t, LenProperties
<1>1. UNCHANGED <<queue, order>>
    BY DEF TickThrows
<1>2. idx' = [p \in Peers |-> IF p \in Flushed THEN Len(queue) ELSE idx[p]]
    BY DEF TickThrows
<1>3. sent' = [p \in Peers |-> IF p \in Flushed THEN sent[p] \cup Unsent(p) ELSE sent[p]]
    BY DEF TickThrows
<1>4. IndexInRange'
    BY <1>l, <1>1, <1>2 DEF IInv, IndexInRange
<1>5. OnePerKey'
    BY <1>1 DEF IInv, OnePerKey
<1>6. SentIsHot'
    <2> SUFFICES ASSUME NEW p \in Peers, NEW x \in sent'[p] PROVE x \in Range(queue)
        BY <1>1 DEF SentIsHot, Queued
    <2>1. CASE x \in sent[p]
        BY <2>1 DEF IInv, SentIsHot, Queued
    <2>2. CASE x \in Unsent(p)
        <3>1. idx[p] \in Nat
            BY <1>t
        <3>2. PICK i \in (idx[p] + 1)..Len(queue) : x = queue[i]
            BY <2>2 DEF Unsent
        <3>3. i \in 1..Len(queue)
            BY <1>l, <3>1
        <3> QED BY <1>t, <3>2, <3>3, RangeMember
    <2> QED BY <1>3, <2>1, <2>2
<1>7. NothingResent'
    <2> SUFFICES ASSUME NEW p \in Members', NEW j \in (idx'[p] + 1)..Len(queue'),
                        queue'[j] \in sent'[p]
                 PROVE  FALSE
        BY DEF NothingResent, Unsent
    <2>1. p \in Members /\ p \in Peers
        BY <1>t, <1>1, RangeOfSeq DEF Members
    <2>2. CASE p \in Flushed
        BY <1>l, <1>1, <1>2, <2>1, <2>2
    <2>3. CASE p \notin Flushed
        <3>1. queue[j] \in Unsent(p) /\ queue[j] \in sent[p]
            BY <1>1, <1>2, <1>3, <2>1, <2>3 DEF Unsent
        <3> QED BY <2>1, <3>1 DEF IInv, NothingResent
    <2> QED BY <2>2, <2>3
<1> QED BY <1>4, <1>5, <1>6, <1>7

(* A peer joins with everything queued behind it. *)
LEMMA JoinStep ==
    ASSUME IInv, NEW p \in Peers, AddPeer(p)
    PROVE  MembersOnce' /\ IndexInRange' /\ OnePerKey' /\ SentIsHot' /\ NothingResent'
<1>t. queue \in Seq(Messages) /\ order \in Seq(Peers) /\ idx \in [Peers -> Nat]
    BY DEF IInv, TypeOK
<1>l. Len(queue) \in Nat /\ Len(order) \in Nat
    BY <1>t, LenProperties
<1>1. UNCHANGED <<queue, sent>> /\ idx' = [idx EXCEPT ![p] = Len(queue)]
    BY DEF AddPeer
<1>2. \/ p \in Members /\ order' = order
      \/ p \notin Members /\ order' = Append(order, p)
    BY DEF AddPeer
<1>3. \A i, j \in 1..Len(order) : order[i] = order[j] => i = j
    BY DEF IInv, MembersOnce
<1>4. ASSUME p \notin Members, order' = Append(order, p)
      PROVE  /\ order' \in Seq(Peers) /\ Len(order') = Len(order) + 1
             /\ \A j \in 1..Len(order) : order'[j] = order[j] /\ order[j] # p
             /\ order'[Len(order) + 1] = p
    <2>1. \A j \in 1..Len(order) : order[j] # p
        BY <1>t, <1>4, RangeMember DEF Members
    <2> QED BY <1>t, <1>4, <2>1, AppendProperties
<1>5. MembersOnce'
    <2>1. CASE order' = order
        BY <1>3, <2>1 DEF MembersOnce
    <2>2. CASE p \notin Members /\ order' = Append(order, p)
        BY <1>l, <1>3, <1>4, <2>2 DEF MembersOnce
    <2> QED BY <1>2, <2>1, <2>2
<1>6. IndexInRange'
    BY <1>t, <1>l, <1>1 DEF IInv, IndexInRange
<1>7. OnePerKey' /\ SentIsHot'
    BY <1>1 DEF IInv, OnePerKey, SentIsHot, Queued
<1>8. \A q \in Members' : q \in Members \/ q = p
    <2>1. CASE order' = order
        BY <2>1 DEF Members
    <2>2. CASE p \notin Members /\ order' = Append(order, p)
        <3> SUFFICES ASSUME NEW q \in Range(order'), q # p PROVE q \in Range(order)
            BY DEF Members
        <3>1. PICK i \in 1..Len(order') : order'[i] = q
            <4>1. order' \in Seq(Peers)
                BY <1>4, <2>2
            <4> QED BY <4>1, RangeMember
        <3>2. i \in 1..Len(order) /\ order[i] = q
            BY <1>l, <1>4, <2>2, <3>1
        <3> QED BY <1>t, <3>2, RangeMember
    <2> QED BY <1>2, <2>1, <2>2
<1>9. ASSUME NEW q \in Members' PROVE Unsent(q)' \cap sent'[q] = {}
    <2>1. CASE q = p
        <3>1. idx'[q] = Len(queue)
            BY <1>t, <1>1, <2>1
        <3>2. Unsent(q)' = {}
            BY <1>l, <1>1, <3>1 DEF Unsent
        <3> QED BY <3>2
    <2>2. CASE q # p
        <3>1. q \in Members /\ q \in Peers
            BY <1>t, <1>8, <2>2, RangeOfSeq DEF Members
        <3>2. idx'[q] = idx[q]
            BY <1>t, <1>1, <2>2, <3>1
        <3>3. Unsent(q)' = Unsent(q)
            BY <1>1, <3>2 DEF Unsent
        <3> QED BY <1>1, <3>1, <3>3 DEF IInv, NothingResent
    <2> QED BY <2>1, <2>2
<1> QED BY <1>5, <1>6, <1>7, <1>9 DEF NothingResent

(* A peer leaves; it was there once. *)
LEMMA LeaveStep ==
    ASSUME IInv, NEW p \in Peers, RemovePeer(p)
    PROVE  MembersOnce' /\ IndexInRange' /\ OnePerKey' /\ SentIsHot' /\ NothingResent'
<1>t. queue \in Seq(Messages) /\ order \in Seq(Peers) /\ idx \in [Peers -> Nat]
    BY DEF IInv, TypeOK
<1>l. Len(queue) \in Nat /\ Len(order) \in Nat
    BY <1>t, LenProperties
<1>1. UNCHANGED <<queue, sent>> /\ idx' = [idx EXCEPT ![p] = 0]
    BY DEF RemovePeer
<1>2. PICK i \in 1..Len(order) : order[i] = p /\ order' = RemoveAt(order, i)
    BY DEF RemovePeer
<1> DEFINE At(j) == IF j < i THEN j ELSE j + 1
<1>3. /\ order' \in Seq(Peers) /\ Len(order') = Len(order) - 1
      /\ \A j \in 1..(Len(order) - 1) : order'[j] = order[At(j)]
    <2>1. /\ order' \in Seq(Peers) /\ Len(order') = Len(order) - 1
          /\ \A j \in 1..(Len(order) - 1) :
                order'[j] = IF j < i THEN order[j] ELSE order[j + 1]
        BY <1>t, <1>2, RemoveAtProperties, Zenon
    <2> QED BY <2>1
<1>4. \A j \in 1..(Len(order) - 1) : At(j) \in 1..Len(order) /\ At(j) # i
    BY <1>l
<1>5. \A j, k \in 1..(Len(order) - 1) : At(j) = At(k) => j = k
    BY <1>l
<1> HIDE DEF At
<1>6. \A j, k \in 1..Len(order) : order[j] = order[k] => j = k
    BY DEF IInv, MembersOnce
<1>7. MembersOnce'
    BY <1>3, <1>4, <1>5, <1>6 DEF MembersOnce
<1>8. IndexInRange'
    BY <1>t, <1>l, <1>1 DEF IInv, IndexInRange
<1>9. OnePerKey' /\ SentIsHot'
    BY <1>1 DEF IInv, OnePerKey, SentIsHot, Queued
<1>10. ASSUME NEW q \in Members' PROVE Unsent(q)' \cap sent'[q] = {}
    <2>1. PICK j \in 1..Len(order') : order'[j] = q
        BY <1>3, RangeMember DEF Members
    <2>2. At(j) \in 1..Len(order) /\ order[At(j)] = q /\ q # p
        BY <1>2, <1>3, <1>4, <1>6, <2>1
    <2>3. q \in Members /\ q \in Peers
        BY <1>t, <2>2, RangeMember, ElementOfSeq DEF Members
    <2>4. idx'[q] = idx[q]
        BY <1>t, <1>1, <2>2, <2>3
    <2>5. Unsent(q)' = Unsent(q)
        BY <1>1, <2>4 DEF Unsent
    <2> QED BY <1>1, <2>3, <2>5 DEF IInv, NothingResent
<1> QED BY <1>7, <1>8, <1>9, <1>10 DEF NothingResent

-----------------------------------------------------------------------------
LEMMA NextInv == IInv /\ [Next]_vars => IInv'
<1> SUFFICES ASSUME IInv, [Next]_vars PROVE IInv'
    OBVIOUS
<1>1. TypeOK'
    BY TypePreserved DEF IInv
<1> DEFINE Rest == MembersOnce' /\ IndexInRange' /\ OnePerKey' /\ SentIsHot' /\ NothingResent'
<1>2. ASSUME UNCHANGED <<queue, order, idx, sent>> PROVE Rest
    BY <1>2 DEF IInv, MembersOnce, IndexInRange, OnePerKey, SentIsHot, NothingResent,
                Members, Queued, Unsent
<1>3. ASSUME UNCHANGED order PROVE MembersOnce'
    BY <1>3 DEF IInv, MembersOnce
<1>4. CASE UNCHANGED vars \/ Start \/ Stop \/ \E p \in Peers : ConnectionChanges(p)
    <2>1. UNCHANGED <<queue, order, idx, sent>>
        BY <1>4 DEF vars, Start, Stop, ConnectionChanges
    <2> QED BY <1>1, <1>2, <2>1 DEF IInv
<1>5. CASE \E p \in Peers : AddPeer(p)
    BY <1>1, <1>5, JoinStep DEF IInv
<1>6. CASE \E p \in Peers : RemovePeer(p)
    BY <1>1, <1>6, LeaveStep DEF IInv
<1>7. CASE \E m \in Messages : EnqueueNew(m)
    <2>1. UNCHANGED order
        BY <1>7 DEF EnqueueNew
    <2> QED BY <1>1, <1>3, <1>7, <2>1, AppendStep DEF IInv
<1>8. CASE \E m \in Messages : EnqueueNewer(m)
    <2>1. UNCHANGED order
        BY <1>8 DEF EnqueueNewer
    <2> QED BY <1>1, <1>3, <1>8, <2>1, ReplaceStep DEF IInv
<1>9. CASE Tick
    <2>1. UNCHANGED order
        BY <1>9 DEF Tick
    <2> QED BY <1>1, <1>3, <1>9, <2>1, TickStep DEF IInv
<1>10. CASE TickThrows
    <2>1. UNCHANGED order
        BY <1>10 DEF TickThrows
    <2> QED BY <1>1, <1>3, <1>10, <2>1, TickThrowsStep DEF IInv
<1> QED BY <1>4, <1>5, <1>6, <1>7, <1>8, <1>9, <1>10 DEF Next

THEOREM RelayInvariant == Spec => []IInv
BY InitInv, NextInv, PTL DEF Spec

(* Queue, indices and histories stay well formed. *)
THEOREM RelayTypeCorrect == Spec => []TypeOK
<1>1. IInv => TypeOK
    BY DEF IInv
<1> QED BY <1>1, RelayInvariant, PTL

(* enqueue, pruning and the peers' coming and going never leave an index   *)
(* past the end of the queue.                                              *)
THEOREM IndicesInRange == Spec => []IndexInRange
<1>1. IInv => IndexInRange
    BY DEF IInv
<1> QED BY <1>1, RelayInvariant, PTL

(* The queue never holds two messages about the same thing. *)
THEOREM OneMessagePerKey == Spec => []OnePerKey
<1>1. IInv => OnePerKey
    BY DEF IInv
<1> QED BY <1>1, RelayInvariant, PTL

(* A flush never sends a peer what it was sent before. *)
THEOREM NeverResent == Spec => []NothingResent
<1>1. IInv => NothingResent
    BY DEF IInv
<1> QED BY <1>1, RelayInvariant, PTL

-----------------------------------------------------------------------------
(* What no step but a replacement does: leave a message behind the index   *)
(* of a peer that neither was sent it nor found it there when it joined.   *)

(* A peer of the relay after a step that adds or removes p is p or was one *)
(* before it.                                                              *)
LEMMA MembersAfter ==
    ASSUME TypeOK, NEW p \in Peers, AddPeer(p) \/ RemovePeer(p)
    PROVE  \A q \in Members' : q \in Members \/ q = p
<1>t. order \in Seq(Peers)
    BY DEF TypeOK
<1>l. Len(order) \in Nat
    BY <1>t, LenProperties
<1>1. CASE order' = order
    BY <1>1 DEF Members
<1>2. CASE order' = Append(order, p)
    <2>1. /\ order' \in Seq(Peers) /\ Len(order') = Len(order) + 1
          /\ \A j \in 1..Len(order) : order'[j] = order[j]
          /\ order'[Len(order) + 1] = p
        BY <1>t, <1>2, AppendProperties
    <2> SUFFICES ASSUME NEW q \in Range(order'), q # p PROVE q \in Range(order)
        BY DEF Members
    <2>2. PICK i \in 1..Len(order') : order'[i] = q
        BY <2>1, RangeMember
    <2>3. i \in 1..Len(order) /\ order[i] = q
        BY <1>l, <2>1, <2>2
    <2> QED BY <1>t, <2>3, RangeMember
<1>3. ASSUME NEW i \in 1..Len(order), order' = RemoveAt(order, i)
      PROVE  \A q \in Members' : q \in Members
    <2>1. /\ order' \in Seq(Peers) /\ Len(order') = Len(order) - 1
          /\ \A j \in 1..(Len(order) - 1) :
                order'[j] = IF j < i THEN order[j] ELSE order[j + 1]
        BY <1>t, <1>3, RemoveAtProperties, Zenon
    <2> SUFFICES ASSUME NEW q \in Range(order') PROVE q \in Range(order)
        BY DEF Members
    <2>2. PICK j \in 1..Len(order') : order'[j] = q
        BY <2>1, RangeMember
    <2>3. PICK k \in 1..Len(order) : order[k] = q
        <3>1. CASE j < i
            BY <1>l, <2>1, <2>2, <3>1
        <3>2. CASE ~(j < i)
            <4>1. j + 1 \in 1..Len(order) /\ order[j + 1] = q
                BY <1>l, <2>1, <2>2, <3>2
            <4> QED BY <4>1
        <3> QED BY <3>1, <3>2
    <2> QED BY <1>t, <2>3, RangeMember
<1> QED BY <1>1, <1>2, <1>3 DEF AddPeer, RemovePeer

LEMMA JoinSkipsNone ==
    ASSUME TypeOK, NoneSkipped, NEW p \in Peers, AddPeer(p)
    PROVE  NoneSkipped'
<1>t. /\ queue \in Seq(Messages) /\ order \in Seq(Peers) /\ idx \in [Peers -> Nat]
      /\ before \in [Peers -> SUBSET Messages]
    BY DEF TypeOK
<1>1. /\ UNCHANGED <<queue, sent>>
      /\ idx' = [idx EXCEPT ![p] = Len(queue)] /\ before' = [before EXCEPT ![p] = Queued]
    BY DEF AddPeer
<1> SUFFICES ASSUME NEW q \in Members', NEW i \in 1..Len(queue), i <= idx'[q]
             PROVE  queue[i] \in sent[q] \cup before'[q]
    BY <1>1 DEF NoneSkipped
<1>2. CASE q = p
    <2>1. before'[q] = Queued
        BY <1>t, <1>1, <1>2
    <2>2. queue[i] \in Queued
        BY <1>t, RangeMember DEF Queued
    <2> QED BY <2>1, <2>2
<1>3. CASE q # p
    <2>1. q \in Members /\ q \in Peers
        BY <1>t, <1>3, MembersAfter, RangeOfSeq DEF Members
    <2>2. idx'[q] = idx[q] /\ before'[q] = before[q]
        BY <1>t, <1>1, <1>3, <2>1
    <2> QED BY <2>1, <2>2 DEF NoneSkipped
<1> QED BY <1>2, <1>3

(* The index of the peer that leaves is 0, should it still be there. *)
LEMMA LeaveSkipsNone ==
    ASSUME TypeOK, NoneSkipped, NEW p \in Peers, RemovePeer(p)
    PROVE  NoneSkipped'
<1>t. queue \in Seq(Messages) /\ order \in Seq(Peers) /\ idx \in [Peers -> Nat]
    BY DEF TypeOK
<1>1. UNCHANGED <<queue, sent, before>> /\ idx' = [idx EXCEPT ![p] = 0]
    BY DEF RemovePeer
<1> SUFFICES ASSUME NEW q \in Members', NEW i \in 1..Len(queue), i <= idx'[q]
             PROVE  queue[i] \in sent[q] \cup before[q]
    BY <1>1 DEF NoneSkipped
<1>2. q # p
    BY <1>t, <1>1
<1>3. q \in Members /\ q \in Peers
    BY <1>t, <1>2, MembersAfter, RangeOfSeq DEF Members
<1>4. idx'[q] = idx[q]
    BY <1>t, <1>1, <1>2, <1>3
<1> QED BY <1>3, <1>4 DEF NoneSkipped

LEMMA AppendSkipsNone ==
    ASSUME TypeOK, IndexInRange, NoneSkipped, NEW m \in Messages, EnqueueNew(m)
    PROVE  NoneSkipped'
<1>t. queue \in Seq(Messages) /\ order \in Seq(Peers) /\ idx \in [Peers -> Nat]
    BY DEF TypeOK
<1>l. Len(queue) \in Nat
    BY <1>t, LenProperties
<1>1. queue' = Append(queue, m) /\ UNCHANGED <<order, idx, sent, before>>
    BY DEF EnqueueNew
<1>2. Len(queue') = Len(queue) + 1 /\ \A j \in 1..Len(queue) : queue'[j] = queue[j]
    BY <1>t, <1>1, AppendProperties
<1> SUFFICES ASSUME NEW q \in Members, NEW i \in 1..Len(queue'), i <= idx[q]
             PROVE  queue'[i] \in sent[q] \cup before[q]
    BY <1>1 DEF NoneSkipped, Members
<1>3. q \in Peers
    BY <1>t, RangeOfSeq DEF Members
<1>4. i \in 1..Len(queue)
    BY <1>t, <1>l, <1>2, <1>3 DEF IndexInRange
<1> QED BY <1>2, <1>4 DEF NoneSkipped

(* A message behind the index after the tick was behind it before, or the  *)
(* tick sent it.                                                           *)
LEMMA TickSkipsNone ==
    ASSUME TypeOK, NoneSkipped, Tick
    PROVE  NoneSkipped'
<1> DEFINE k == DeleteCount
<1>t. queue \in Seq(Messages) /\ order \in Seq(Peers) /\ idx \in [Peers -> Nat]
    BY DEF TypeOK
<1>l. Len(queue) \in Nat
    BY <1>t, LenProperties
<1>1. k \in 0..Len(queue)
    BY <1>t, DeleteCountProperties
<1>2. queue' = SubSeq(queue, k + 1, Len(queue)) /\ order' = order
    BY DEF Tick
<1>3. /\ sent' = [p \in Peers |->
            (IF p \in Members THEN sent[p] \cup Unsent(p) ELSE sent[p]) \cap Range(queue')]
      /\ before' = [p \in Peers |-> before[p] \cap Range(queue')]
    BY DEF Tick
<1> HIDE DEF k
<1>4. /\ queue' \in Seq(Messages) /\ Len(queue') = Len(queue) - k
      /\ \A j \in 1..(Len(queue) - k) : queue'[j] = queue[k + j]
    BY <1>t, <1>1, <1>2, DropProperties
<1> SUFFICES ASSUME NEW q \in Members, NEW i \in 1..Len(queue')
             PROVE  queue'[i] \in sent'[q] \cup before'[q]
    BY <1>2 DEF NoneSkipped, Members
<1>5. q \in Peers /\ idx[q] \in Nat
    BY <1>t, RangeOfSeq DEF Members
<1>6. k + i \in 1..Len(queue) /\ queue'[i] = queue[k + i]
    BY <1>l, <1>1, <1>4
<1>7. queue'[i] \in Range(queue')
    BY <1>4, RangeMember
<1>8. queue[k + i] \in sent[q] \cup Unsent(q) \cup before[q]
    <2>1. CASE k + i <= idx[q]
        BY <1>6, <2>1 DEF NoneSkipped
    <2>2. CASE ~(k + i <= idx[q])
        <3>1. k + i \in (idx[q] + 1)..Len(queue)
            BY <1>l, <1>5, <1>6, <2>2
        <3> QED BY <3>1 DEF Unsent
    <2> QED BY <2>1, <2>2
<1> QED BY <1>3, <1>5, <1>6, <1>7, <1>8

LEMMA TickThrowsSkipsNone ==
    ASSUME TypeOK, NoneSkipped, TickThrows
    PROVE  NoneSkipped'
<1>t. queue \in Seq(Messages) /\ order \in Seq(Peers) /\ idx \in [Peers -> Nat]
    BY DEF TypeOK
<1>l. Len(queue) \in Nat
    BY <1>t, LenProperties
<1>1. UNCHANGED <<queue, order, before>>
    BY DEF TickThrows
<1>2. idx' = [p \in Peers |-> IF p \in Flushed THEN Len(queue) ELSE idx[p]]
    BY DEF TickThrows
<1>3. sent' = [p \in Peers |-> IF p \in Flushed THEN sent[p] \cup Unsent(p) ELSE sent[p]]
    BY DEF TickThrows
<1> SUFFICES ASSUME NEW q \in Members, NEW i \in 1..Len(queue), i <= idx'[q]
             PROVE  queue[i] \in sent'[q] \cup before[q]
    BY <1>1 DEF NoneSkipped, Members
<1>4. q \in Peers /\ idx[q] \in Nat
    BY <1>t, RangeOfSeq DEF Members
<1>5. CASE i <= idx[q]
    BY <1>3, <1>4, <1>5 DEF NoneSkipped
<1>6. CASE ~(i <= idx[q])
    <2>1. q \in Flushed
        BY <1>2, <1>4, <1>6
    <2>2. i \in (idx[q] + 1)..Len(queue)
        BY <1>l, <1>4, <1>6
    <2>3. queue[i] \in Unsent(q)
        BY <2>2 DEF Unsent
    <2> QED BY <1>3, <1>4, <2>1, <2>3
<1> QED BY <1>5, <1>6

(* Only the replacement of a message can leave a peer without one it should *)
(* have been sent.                                                          *)
THEOREM OnlyReplacementsSkip == Spec => OnlyReplacementSkips
<1> DEFINE Kept ==
        NoneSkipped /\ ~(\E m \in Messages : EnqueueNewer(m)) => NoneSkipped'
<1>1. IInv /\ [Next]_vars => [Kept]_vars
    <2> SUFFICES ASSUME IInv, Next, NoneSkipped, ~(\E m \in Messages : EnqueueNewer(m))
                 PROVE  NoneSkipped'
        OBVIOUS
    <2>t. TypeOK /\ IndexInRange
        BY DEF IInv
    <2>1. CASE Start \/ Stop \/ \E p \in Peers : ConnectionChanges(p)
        <3>1. UNCHANGED <<queue, order, idx, sent, before>>
            BY <2>1 DEF Start, Stop, ConnectionChanges
        <3> QED BY <3>1 DEF NoneSkipped, Members
    <2>2. CASE \E p \in Peers : AddPeer(p)
        BY <2>t, <2>2, JoinSkipsNone
    <2>3. CASE \E p \in Peers : RemovePeer(p)
        BY <2>t, <2>3, LeaveSkipsNone
    <2>4. CASE \E m \in Messages : EnqueueNew(m)
        BY <2>t, <2>4, AppendSkipsNone
    <2>5. CASE Tick
        BY <2>t, <2>5, TickSkipsNone
    <2>6. CASE TickThrows
        BY <2>t, <2>6, TickThrowsSkipsNone
    <2> QED BY <2>1, <2>2, <2>3, <2>4, <2>5, <2>6 DEF Next
<1> QED BY <1>1, RelayInvariant, PTL DEF Spec, OnlyReplacementSkips
=============================================================================
