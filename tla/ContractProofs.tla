--------------------------- MODULE ContractProofs ---------------------------
(***************************************************************************)
(* Theorems about what a node that has contracts watches, keeps and pays:  *)
(* that BlockDiff and BlockWatch follow every tree of blocks, whatever is  *)
(* announced, lost and fetched; that LevelStores leads from every key to   *)
(* its record and back, however calls interleave and crashes cut them; and *)
(* that FundingTx selects coins that will do and its transactions balance. *)
(***************************************************************************)
EXTENDS BlockWatch, BlockDiff, LevelStores, DlcContract,
        FiniteSetTheorems, SequenceTheorems, WellFoundedInduction, TLAPS

(***************************************************************************)
(* Induction.  The principle of the library takes an operator; this one    *)
(* takes the set of the numbers it holds for.                              *)
(***************************************************************************)
\* Every set of numbers has a least one.
LEMMA Least == \A T \in SUBSET Nat : T # {} => \E n \in T : \A m \in T : n <= m
<1> SUFFICES ASSUME NEW T \in SUBSET Nat, T # {} PROVE \E n \in T : \A m \in T : n <= m
    OBVIOUS
<1> DEFINE R == OpToRel(<, Nat)
<1>1. IsWellFoundedOn(R, Nat)
    BY NatLessThanWellFounded
<1>2. \A x, y \in Nat : <<y, x>> \in R <=> y < x
    BY DEF OpToRel
<1> HIDE DEF R
<1>3. PICK x \in T : \A y \in T : ~(<<y, x>> \in R)
    BY <1>1, WFMin, Zenon
<1>4. \A m \in T : ~(m < x)
    BY <1>2, <1>3
<1> QED
    BY <1>4

\* What holds of 0, and of the next number whenever of one, holds of all.
LEMMA Induct ==
    ASSUME NEW S, 0 \in S, \A n \in Nat : n \in S => n + 1 \in S
    PROVE  Nat \subseteq S
<1> DEFINE T == {n \in Nat : n \notin S}
<1> SUFFICES ASSUME T # {} PROVE FALSE
    OBVIOUS
<1>1. PICK n \in T : \A m \in T : n <= m
    BY Least
<1>2. n - 1 \in Nat /\ n - 1 \notin T
    BY <1>1
<1> QED
    BY <1>1, <1>2


(***************************************************************************)
(* The tree of blocks.                                                     *)
(***************************************************************************)
(* Going down by one block. *)
LEMMA TreeFacts ==
    ASSUME NEW b \in Blocks
    PROVE  /\ Height[b] \in Nat
           /\ b \in Below[b]
           /\ Below[b] \subseteq Blocks
           /\ b # Genesis => /\ Parent[b] \in Blocks
                             /\ Height[b] = Height[Parent[b]] + 1
                             /\ Below[b] = Below[Parent[b]] \union {b}
           /\ Height[b] = 0 => b = Genesis
<1>1. Height[b] \in Nat /\ Below[b] \subseteq Blocks
    BY TreeAssumption
<1>2. CASE b = Genesis
    BY <1>1, <1>2, TreeAssumption
<1>3. CASE b # Genesis
    <2>1. Parent[b] \in Blocks /\ Height[b] = Height[Parent[b]] + 1 /\ Below[b] = Below[Parent[b]] \union {b}
        BY <1>3, TreeAssumption
    <2>2. Height[Parent[b]] \in Nat
        BY <2>1, TreeAssumption
    <2>3. Height[b] # 0
        BY <2>1, <2>2
    <2> QED BY <1>1, <1>3, <2>1, <2>3
<1> QED BY <1>2, <1>3

\* A block of a chain is the last one or lower.
LEMMA LowerDown == \A b \in Blocks : \A a \in Below[b] : a = b \/ Height[a] < Height[b]
<1> DEFINE S == {n \in Nat : \A b \in Blocks : Height[b] = n => \A a \in Below[b] : a = b \/ Height[a] < Height[b]}
<1>1. 0 \in S
    <2> SUFFICES ASSUME NEW b \in Blocks, Height[b] = 0, NEW a \in Below[b] PROVE a = b
        OBVIOUS
    <2>1. b = Genesis
        BY TreeFacts
    <2> QED
        BY <2>1, TreeAssumption
<1>2. ASSUME NEW n \in Nat, n \in S PROVE n + 1 \in S
    <2> SUFFICES ASSUME NEW b \in Blocks, Height[b] = n + 1, NEW a \in Below[b], a # b PROVE Height[a] < Height[b]
        OBVIOUS
    <2>1. b # Genesis
        BY TreeAssumption
    <2>2. Parent[b] \in Blocks /\ Height[b] = Height[Parent[b]] + 1 /\ a \in Below[Parent[b]]
        BY <2>1, TreeFacts
    <2>3. Height[Parent[b]] = n
        BY <2>2, TreeFacts
    <2>4. a = Parent[b] \/ Height[a] < n
        BY <1>2, <2>2, <2>3
    <2>5. a \in Blocks /\ Height[a] \in Nat
        BY <2>2, TreeFacts
    <2> QED
        BY <2>3, <2>4, <2>5
<1>3. Nat \subseteq S
    <2> HIDE DEF S
    <2> QED
        BY <1>1, <1>2, Induct
<1> QED
    BY <1>3, TreeFacts

(***************************************************************************)
(* BlockDiff.  The loop starts with a last known block that is not higher  *)
(* and keeps it so: then it takes away only blocks the other chain has not *)
(* got; or with a higher one, and never gets down to the same block.       *)
(***************************************************************************)
\* What the two chains had in common when diff was called.
Common == Below[from.current] \intersect Below[from.prior]

\* The blocks taken so far on the way from the top of a chain down to b.
Taken(path, top, b) ==
  /\ path \in Seq(Blocks)
  /\ Below[b] \subseteq Below[top]
  /\ Len(path) + Height[b] = Height[top]
  /\ \A i \in 1..Len(path) : path[i] \in Below[top] /\ Height[path[i]] = Height[top] + 1 - i

DiffType ==
  /\ at \in {"idle", "looping", "done", "failed"}
  /\ from \in [current : Blocks, prior : Blocks]
  /\ current \in Blocks /\ prior \in Blocks
  /\ refused \in BOOLEAN

\* Before a call there is nothing taken; after one that failed, the rest does
\* not matter.
DiffInv ==
  /\ DiffType
  /\ at = "idle" => connects = <<>> /\ disconnects = <<>>
  /\ at \in {"looping", "done"} =>
       /\ Taken(connects, from.current, current)
       /\ Taken(disconnects, from.prior, prior)
       /\ IF Height[from.prior] <= Height[from.current]
          THEN Height[prior] <= Height[current] /\ Common \subseteq Below[current] \intersect Below[prior]
          ELSE Height[prior] > Height[current]
  /\ at = "done" => current = prior
  /\ at = "failed" => refused \/ Height[from.prior] > Height[from.current]

\* Going down by one block.
LEMMA TakeOne ==
    ASSUME NEW path, NEW top \in Blocks, NEW b \in Blocks, b # Genesis, Taken(path, top, b)
    PROVE  Taken(Append(path, b), top, Parent[b])
<1>1. /\ Height[b] \in Nat /\ Height[top] \in Nat /\ Height[Parent[b]] \in Nat
      /\ Height[b] = Height[Parent[b]] + 1 /\ Below[b] = Below[Parent[b]] \union {b}
    BY TreeFacts, TreeAssumption
<1>2. path \in Seq(Blocks) /\ Len(path) \in Nat /\ Len(path) + Height[b] = Height[top]
    BY DEF Taken
<1>3. Append(path, b) \in Seq(Blocks) /\ Len(Append(path, b)) = Len(path) + 1
    BY <1>2
<1>4. Below[Parent[b]] \subseteq Below[top] /\ b \in Below[top]
    BY <1>1 DEF Taken
<1>5. ASSUME NEW i \in 1..Len(path) + 1
      PROVE  Append(path, b)[i] \in Below[top] /\ Height[Append(path, b)[i]] = Height[top] + 1 - i
    <2>1. CASE i \in 1..Len(path)
        BY <1>2, <2>1 DEF Taken
    <2>2. CASE i = Len(path) + 1
        <3>1. Append(path, b)[i] = b
            BY <1>2, <2>2
        <3>2. Height[b] = Height[top] + 1 - i
            <4>1. \A n, h, g \in Nat : n + h = g => h = g + 1 - (n + 1)
                OBVIOUS
            <4> QED BY <1>1, <1>2, <2>2, <4>1, Zenon
        <3> QED BY <1>4, <3>1, <3>2, Zenon
    <2> QED BY <1>2, <2>1, <2>2
<1>6. Len(Append(path, b)) + Height[Parent[b]] = Height[top]
    BY <1>1, <1>2, <1>3
<1> QED BY <1>3, <1>4, <1>5, <1>6 DEF Taken

(* A block of one chain that is not lower than the end of the other, and     *)
(* another block, is none the two have in common.                            *)
LEMMA NotCommon ==
    ASSUME NEW a \in Blocks, NEW b \in Blocks, a # b, Height[a] >= Height[b]
    PROVE  a \notin Below[b]
BY LowerDown, TreeAssumption

\* A turn of the loop keeps the invariant.
LEMMA TurnStep ==
    ASSUME DiffInv, Turn PROVE DiffInv'
<1> DEFINE h == Height[current]
           k == Height[prior]
<1>1. at = "looping" /\ current # prior /\ current \in Blocks /\ prior \in Blocks /\ UNCHANGED <<from, refused>>
    BY DEF Turn, DiffInv, DiffType
<1>2. h \in Nat /\ k \in Nat /\ from.current \in Blocks /\ from.prior \in Blocks
    BY <1>1, TreeAssumption DEF DiffInv, DiffType
<1>3. /\ Taken(connects, from.current, current)
      /\ Taken(disconnects, from.prior, prior)
    BY <1>1 DEF DiffInv
<1>4. IF Height[from.prior] <= Height[from.current]
      THEN k <= h /\ Common \subseteq Below[current] \intersect Below[prior]
      ELSE k > h
    BY <1>1 DEF DiffInv
<1>5. Height[from.prior] \in Nat /\ Height[from.current] \in Nat
    BY <1>2, TreeAssumption
<1> HIDE DEF h, k
<1>6. CASE Behind /\ prior = Genesis /\ Fail
    <2>1. k = 0 /\ k >= h /\ (h = 0 => current = Genesis)
        BY <1>6, <1>1, TreeFacts, TreeAssumption DEF Behind, h, k
    <2>2. Height[from.prior] > Height[from.current]
        BY <1>1, <1>2, <1>4, <1>5, <1>6, <2>1
    <2>3. UNCHANGED <<current, prior>>
        BY <1>6, <1>1 DEF Turn, Fail
    <2> QED BY <1>1, <1>6, <2>2, <2>3 DEF DiffInv, DiffType, Fail
<1>7. CASE (Behind => prior # Genesis) /\ Ahead /\ current = Genesis /\ Fail
    <2>1. h = 0
        BY <1>7, TreeAssumption DEF h
    <2>2. prior' \in Blocks /\ UNCHANGED current
        BY <1>1, <1>7, TreeFacts DEF Turn, Fail, NextPrior
    <2>3. Height[from.prior] > Height[from.current]
        <3>1. k # 0
            BY <1>1, <1>7, TreeFacts DEF k
        <3> QED BY <1>2, <1>4, <1>5, <2>1, <3>1
    <2> QED BY <1>1, <1>7, <2>2, <2>3 DEF DiffInv, DiffType, Fail
<1>8. CASE /\ Behind => prior # Genesis
           /\ disconnects' = IF Behind THEN Append(disconnects, prior) ELSE disconnects
           /\ prior' = NextPrior
           /\ at' = at
           /\ \/ Ahead /\ current # Genesis /\ connects' = Append(connects, current) /\ current' = Parent[current]
              \/ ~Ahead /\ UNCHANGED <<current, connects>>
    <2>1. CASE Behind
        <3>1. prior # Genesis /\ prior' = Parent[prior] /\ disconnects' = Append(disconnects, prior) /\ k >= h
            BY <1>8, <2>1 DEF Behind, NextPrior, h, k
        <3>2. prior' \in Blocks /\ k = Height[prior'] + 1 /\ Below[prior] = Below[prior'] \union {prior}
              /\ Height[prior'] \in Nat
            BY <1>1, <3>1, TreeFacts DEF k
        <3>3. Taken(disconnects', from.prior, prior')
            BY <1>1, <1>2, <1>3, <3>1, TakeOne
        <3>4. prior \notin Below[current]
            BY <1>1, <3>1, NotCommon DEF h, k
        <3>5. CASE k = h
            <4>1. Ahead
                BY <1>2, <3>1, <3>2, <3>5 DEF Ahead, NextPrior, h, k, Behind
            <4>2. current # Genesis /\ connects' = Append(connects, current) /\ current' = Parent[current]
                BY <1>8, <4>1
            <4>3. current' \in Blocks /\ h = Height[current'] + 1 /\ Below[current] = Below[current'] \union {current}
                  /\ Height[current'] \in Nat
                BY <1>1, <4>2, TreeFacts DEF h
            <4>4. Taken(connects', from.current, current')
                BY <1>1, <1>2, <1>3, <4>2, TakeOne
            <4>5. current \notin Below[prior]
                BY <1>1, <3>5, <1>2, NotCommon DEF h, k
            <4>6. Height[from.prior] <= Height[from.current]
                BY <1>2, <1>4, <1>5, <3>5
            <4>7. Common' \subseteq Below[current'] \intersect Below[prior']
                BY <1>1, <1>4, <3>2, <3>4, <4>3, <4>5, <4>6 DEF Common
            <4>8. Height[prior'] <= Height[current']
                BY <3>2, <3>5, <4>3
            <4> QED BY <1>1, <1>8, <3>2, <3>3, <4>3, <4>4, <4>6, <4>7, <4>8 DEF DiffInv, DiffType
        <3>6. CASE k > h
            <4>1. Height[from.prior] > Height[from.current]
                BY <1>2, <1>4, <1>5, <3>6
            <4>2. CASE Ahead
                <5>1. current # Genesis /\ connects' = Append(connects, current) /\ current' = Parent[current]
                    BY <1>8, <4>2
                <5>2. current' \in Blocks /\ h = Height[current'] + 1 /\ Height[current'] \in Nat
                    BY <1>1, <5>1, TreeFacts DEF h
                <5>3. Taken(connects', from.current, current')
                    BY <1>1, <1>2, <1>3, <5>1, TakeOne
                <5>4. Height[prior'] > Height[current'] /\ ~(Height[from'.prior] <= Height[from'.current])
                    BY <1>1, <1>2, <1>5, <3>2, <3>6, <4>1, <5>2
                <5> QED BY <1>1, <1>8, <3>2, <3>3, <5>2, <5>3, <5>4 DEF DiffInv, DiffType
            <4>3. CASE ~Ahead
                <5>1. UNCHANGED <<current, connects>>
                    BY <1>8, <4>3
                <5>2. Height[prior'] > Height[current']
                    BY <1>2, <3>1, <3>2, <4>3, <5>1, <2>1 DEF Ahead, NextPrior, h
                <5>3. ~(Height[from'.prior] <= Height[from'.current])
                    BY <1>1, <1>5, <4>1
                <5> QED BY <1>1, <1>3, <1>8, <3>2, <3>3, <5>1, <5>2, <5>3 DEF DiffInv, DiffType
            <4> QED BY <4>2, <4>3
        <3> QED BY <1>2, <3>1, <3>5, <3>6
    <2>2. CASE ~Behind
        <3>1. UNCHANGED <<prior, disconnects>> /\ k < h
            BY <1>2, <1>8, <2>2 DEF Behind, NextPrior, h, k
        <3>2. Ahead
            BY <1>2, <2>2, <3>1 DEF Ahead, NextPrior, h, k
        <3>3. current # Genesis /\ connects' = Append(connects, current) /\ current' = Parent[current]
            BY <1>8, <3>2
        <3>4. current' \in Blocks /\ h = Height[current'] + 1 /\ Below[current] = Below[current'] \union {current}
              /\ Height[current'] \in Nat
            BY <1>1, <3>3, TreeFacts DEF h
        <3>5. Taken(connects', from.current, current')
            BY <1>1, <1>2, <1>3, <3>3, TakeOne
        <3>6. Height[from.prior] <= Height[from.current]
            BY <1>2, <1>4, <1>5, <3>1
        <3>7. current \notin Below[prior]
            BY <1>1, <1>2, <3>1, NotCommon DEF h, k
        <3>8. Common' \subseteq Below[current'] \intersect Below[prior']
            BY <1>1, <1>4, <3>1, <3>4, <3>6, <3>7 DEF Common
        <3>9. Height[prior'] <= Height[current']
            BY <1>2, <3>1, <3>4 DEF k
        <3> QED BY <1>1, <1>3, <1>8, <3>1, <3>4, <3>5, <3>6, <3>8, <3>9 DEF DiffInv, DiffType
    <2> QED BY <2>1, <2>2
<1> QED BY <1>1, <1>6, <1>7, <1>8, Zenon DEF Turn

\* Every step keeps it.
LEMMA DiffStep == DiffInv /\ [DiffNext]_diffVars => DiffInv'
<1> SUFFICES ASSUME DiffInv, [DiffNext]_diffVars PROVE DiffInv'
    OBVIOUS
<1>1. ASSUME NEW c \in Blocks, NEW p \in Blocks, Diff(c, p) PROVE DiffInv'
    <2>1. at = "idle" /\ at' = "looping" /\ from' = [current |-> c, prior |-> p] /\ current' = c /\ prior' = p
          /\ connects' = <<>> /\ disconnects' = <<>> /\ refused' = refused
        BY <1>1 DEF Diff, DiffInv
    <2>2. Height[c] \in Nat /\ Height[p] \in Nat
        BY TreeAssumption
    <2>3. Taken(connects', from'.current, current') /\ Taken(disconnects', from'.prior, prior')
        BY <2>1, <2>2 DEF Taken
    <2> QED BY <2>1, <2>2, <2>3 DEF DiffInv, DiffType, Common
<1>2. CASE Refuse
    BY <1>2 DEF Refuse, Fail, DiffInv, DiffType
<1>3. CASE Finish
    BY <1>3 DEF Finish, DiffInv, DiffType, Common
<1>4. CASE Take
    <2>1. /\ at' = "idle" /\ connects' = <<>> /\ disconnects' = <<>> /\ refused' = FALSE
          /\ from' = [current |-> Genesis, prior |-> Genesis] /\ current' = Genesis /\ prior' = Genesis
        BY <1>4 DEF Take
    <2>2. Genesis \in Blocks
        BY TreeAssumption
    <2>3. from' \in [current : Blocks, prior : Blocks]
        BY <2>1, <2>2, Zenon
    <2>4. at' # "looping" /\ at' # "done" /\ at' # "failed"
        BY <2>1
    <2> QED BY <2>1, <2>2, <2>3, <2>4, Zenon DEF DiffInv, DiffType
<1>5. CASE UNCHANGED diffVars
    BY <1>5 DEF diffVars, DiffInv, DiffType, Common, Taken
<1> QED BY <1>1, <1>2, <1>3, <1>4, <1>5, TurnStep, Zenon DEF DiffNext

(* The blocks taken on the way to b are above b. *)
LEMMA TakenDescent ==
    ASSUME NEW path, NEW top \in Blocks, NEW b \in Blocks, Taken(path, top, b)
    PROVE  Descent(path, top, b)
<1>1. Height[b] \in Nat /\ Height[top] \in Nat /\ Len(path) \in Nat /\ Len(path) = Height[top] - Height[b]
    BY TreeAssumption DEF Taken
<1>2. ASSUME NEW i \in 1..Len(path) PROVE path[i] \notin Below[b]
    <2>1. path[i] \in Blocks /\ Height[path[i]] = Height[top] + 1 - i
        BY DEF Taken
    <2>2. Height[path[i]] > Height[b]
        BY <1>1, <2>1
    <2> QED BY <1>1, <2>1, <2>2, NotCommon
<1> QED BY <1>1, <1>2 DEF Taken, Descent

(* BlockDiffer.diff: for every tree and every two blocks of it, what diff    *)
(* returns is the last common block and the blocks above it, and it fails    *)
(* only when a header is refused or the block last seen is the higher one.   *)
THEOREM DiffFindsTheFork == DiffSpec => []DiffRight
<1>1. DiffInit => DiffInv
    <2>1. Genesis \in Blocks
        BY TreeAssumption
    <2> SUFFICES ASSUME DiffInit PROVE DiffInv
        OBVIOUS
    <2>2. from \in [current : Blocks, prior : Blocks]
        BY <2>1, Zenon DEF DiffInit
    <2>3. at # "looping" /\ at # "done" /\ at # "failed" /\ at = "idle"
        BY DEF DiffInit
    <2> QED BY <2>1, <2>2, <2>3, Zenon DEF DiffInit, DiffInv, DiffType
<1>2. DiffInv => DiffRight
    <2> SUFFICES ASSUME DiffInv, at = "done"
                 PROVE  /\ Common = Below[current]
                        /\ Descent(connects, from.current, current)
                        /\ Descent(disconnects, from.prior, current)
        BY DEF DiffRight, DiffInv, Common
    <2>1. /\ current = prior /\ current \in Blocks /\ from.current \in Blocks /\ from.prior \in Blocks
          /\ Taken(connects, from.current, current) /\ Taken(disconnects, from.prior, current)
        BY DEF DiffInv, DiffType
    <2>2. Height[current] \in Nat
        BY <2>1, TreeAssumption
    <2>3. Common \subseteq Below[current]
        BY <2>1, <2>2 DEF DiffInv
    <2>4. Below[current] \subseteq Common
        BY <2>1 DEF Taken, Common
    <2>5. Descent(connects, from.current, current) /\ Descent(disconnects, from.prior, current)
        BY <2>1, TakenDescent
    <2>6. Common = Below[current]
        BY <2>3, <2>4, Zenon
    <2> QED BY <2>5, <2>6
<1> QED BY <1>1, <1>2, DiffStep, PTL DEF DiffSpec

-----------------------------------------------------------------------------
(***************************************************************************)
(* BlockWatch.  Of the blocks on top of the same one the first that was    *)
(* processed is kept in previousHashToHash, and for each of the others     *)
(* there has been an 'orphanblock' with that first one.                    *)
(***************************************************************************)
Fields == {"received", "next", "watched", "pending", "reported", "orphans", "skipped"}
Fetches == Seq(Blocks \X (Blocks \union {NoBlock}))

WatcherType(w) ==
  /\ DOMAIN w = Fields
  /\ w.received \subseteq Blocks
  /\ w.next \in [Blocks -> Blocks \union {NoBlock}]
  /\ w.pending \in Fetches

Forks(w, f) ==
  \A b \in w.received \ {f} :
    /\ b # Genesis
    /\ w.next[Parent[b]] \in Blocks
    /\ w.next[Parent[b]] = b \/ <<w.next[Parent[b]], b>> \in w.orphans

SameParent(w) ==
  /\ \A p \in Blocks : w.next[p] # NoBlock => w.next[p] \in Blocks \ {Genesis} /\ Parent[w.next[p]] = p
  /\ \A o \in w.orphans : /\ o[1] \in Blocks \ {Genesis} /\ o[2] \in Blocks \ {Genesis}
                          /\ Parent[o[1]] = Parent[o[2]]

WatcherInv(w, f) == WatcherType(w) /\ Forks(w, f) /\ SameParent(w)

(* The same watcher, as far as the invariant goes. *)
LEMMA SameWatcher ==
    ASSUME NEW w, NEW f, WatcherInv(w, f), NEW v, DOMAIN v = Fields, v.pending \in Fetches,
           v.received = w.received, v.next = w.next, v.orphans = w.orphans
    PROVE  WatcherInv(v, f)
BY DEF WatcherInv, WatcherType, Forks, SameParent

\* _checkTx changes nothing but what is watched and reported.
LEMMA CheckTxEffect ==
    ASSUME NEW w, DOMAIN w = Fields, NEW b, NEW bad
    PROVE  /\ DOMAIN CheckTx(w, b, bad) = Fields
           /\ CheckTx(w, b, bad).received = w.received
           /\ CheckTx(w, b, bad).next = w.next
           /\ CheckTx(w, b, bad).pending = w.pending
           /\ CheckTx(w, b, bad).orphans = w.orphans
<1> DEFINE hits   == SelectSeq(InBlock[b], LAMBDA x : x \in w.watched /\ x \notin Valued)
           throws == {i \in 1..Len(hits) : hits[i] \in bad}
           seen   == {hits[i] : i \in {j \in 1..Len(hits) : \A k \in throws : j <= k}}
           all    == {hits[i] : i \in 1..Len(hits)}
           after(watched, reported, skipped) ==
             [w EXCEPT !.watched = watched, !.reported = reported, !.skipped = skipped]
<1>1. ASSUME NEW watched, NEW reported, NEW skipped
      PROVE  /\ DOMAIN after(watched, reported, skipped) = Fields
             /\ after(watched, reported, skipped).received = w.received
             /\ after(watched, reported, skipped).next = w.next
             /\ after(watched, reported, skipped).pending = w.pending
             /\ after(watched, reported, skipped).orphans = w.orphans
    BY DEF Fields
<1>2. CheckTx(w, b, bad) =
        after(w.watched \ seen, w.reported \union {<<x, b>> : x \in seen}, w.skipped \union (all \ seen))
    BY Zenon DEF CheckTx
<1> HIDE DEF hits, throws, seen, all, after
<1> QED BY <1>1, <1>2

(* A block on top of one that was received. *)
LEMMA ProcessKeeps ==
    ASSUME NEW w, NEW f, WatcherInv(w, f), NEW b \in Blocks, b # Genesis, NEW bad
    PROVE  WatcherInv(ProcessBlock(w, b, bad), f)
<1> DEFINE u == [w EXCEPT !.received = @ \union {b}]
           c == CheckTx(u, b, bad)
           p == Parent[b]
<1>1. DOMAIN u = Fields /\ u.received = w.received \union {b} /\ u.next = w.next /\ u.pending = w.pending
      /\ u.orphans = w.orphans
    BY DEF WatcherInv, WatcherType, Fields
<1>2. DOMAIN c = Fields /\ c.received = w.received \union {b} /\ c.next = w.next /\ c.pending = w.pending
      /\ c.orphans = w.orphans
    <2> HIDE DEF u
    <2> QED BY <1>1, CheckTxEffect
<1>3. p \in Blocks
    BY TreeAssumption
<1>4. ProcessBlock(w, b, bad) =
        IF c.next[p] # NoBlock
        THEN [c EXCEPT !.orphans = @ \union {<<c.next[p], b>>}]
        ELSE [c EXCEPT !.next[p] = b]
    BY Zenon DEF ProcessBlock
<1> HIDE DEF u, c, p
<1>5. ASSUME NEW v, v = [c EXCEPT !.orphans = @ \union {<<c.next[p], b>>}], c.next[p] # NoBlock
      PROVE  WatcherInv(v, f)
    <2>1. DOMAIN v = Fields /\ v.received = w.received \union {b} /\ v.next = w.next /\ v.pending = w.pending
          /\ v.orphans = w.orphans \union {<<w.next[p], b>>}
        BY <1>2, <1>5 DEF Fields
    <2>2. w.next[p] \in Blocks \ {Genesis} /\ Parent[w.next[p]] = p
        BY <1>2, <1>3, <1>5 DEF WatcherInv, SameParent
    <2>3. Forks(v, f)
        BY <2>1, <2>2 DEF WatcherInv, Forks, p
    <2>4. SameParent(v)
        BY <2>1, <2>2 DEF WatcherInv, SameParent, p
    <2> QED BY <2>1, <2>3, <2>4 DEF WatcherInv, WatcherType
<1>6. ASSUME NEW v, v = [c EXCEPT !.next[p] = b], c.next[p] = NoBlock
      PROVE  WatcherInv(v, f)
    <2>1. DOMAIN v = Fields /\ v.received = w.received \union {b} /\ v.pending = w.pending
          /\ v.orphans = w.orphans
        BY <1>2, <1>6 DEF Fields
    <2>2. v.next = [w.next EXCEPT ![p] = b]
        BY <1>2, <1>6 DEF Fields
    <2>3. w.next \in [Blocks -> Blocks \union {NoBlock}]
        BY DEF WatcherInv, WatcherType
    <2>4. v.next \in [Blocks -> Blocks \union {NoBlock}] /\ v.next[p] = b
          /\ \A q \in Blocks : q # p => v.next[q] = w.next[q]
        BY <1>3, <2>2, <2>3
    <2>5. Forks(v, f)
        <3> SUFFICES ASSUME NEW d \in v.received \ {f}
                     PROVE  /\ d # Genesis /\ v.next[Parent[d]] \in Blocks
                            /\ v.next[Parent[d]] = d \/ <<v.next[Parent[d]], d>> \in v.orphans
            BY DEF Forks
        <3>1. CASE d = b
            BY <2>4, <3>1 DEF p
        <3>2. CASE d # b
            <4>1. d \in w.received \ {f} /\ d \in Blocks
                BY <2>1, <3>2 DEF WatcherInv, WatcherType
            <4>2. d # Genesis /\ w.next[Parent[d]] \in Blocks
                  /\ (w.next[Parent[d]] = d \/ <<w.next[Parent[d]], d>> \in w.orphans)
                BY <4>1 DEF WatcherInv, Forks
            <4>3. Parent[d] # p
                BY <1>2, <1>6, <4>2, ThingsAssumption
            <4>4. Parent[d] \in Blocks
                BY <4>1, <4>2, TreeAssumption
            <4> QED BY <2>1, <2>4, <4>2, <4>3, <4>4
        <3> QED BY <3>1, <3>2
    <2>6. SameParent(v)
        BY <2>1, <2>4 DEF WatcherInv, SameParent, p
    <2> QED BY <2>1, <2>4, <2>5, <2>6 DEF WatcherInv, WatcherType
<1> QED BY <1>4, <1>5, <1>6

\* The block that comes keeps the invariant.
LEMMA ReceiveKeeps ==
    ASSUME NEW w, NEW f, WatcherInv(w, f), NEW b \in Blocks, NEW bad
    PROVE  WatcherInv(OnRawBlock(w, b, bad), f)
<1>1. CASE Previous(b) \in w.received
    <2>1. b # Genesis
        BY <1>1, ThingsAssumption DEF Previous, WatcherInv, WatcherType
    <2> QED BY <1>1, <2>1, ProcessKeeps DEF OnRawBlock
<1>2. CASE Previous(b) \notin w.received
    <2>1. Previous(b) \in Blocks \union {NoBlock}
        BY TreeAssumption DEF Previous
    <2> DEFINE v == Fetch(w, b)
    <2>2. v = [w EXCEPT !.pending = Append(@, <<b, Previous(b)>>)]
        BY Zenon DEF Fetch
    <2> HIDE DEF v
    <2>3. DOMAIN v = Fields /\ v.received = w.received /\ v.next = w.next /\ v.orphans = w.orphans
          /\ v.pending = Append(w.pending, <<b, Previous(b)>>)
        BY <2>2 DEF WatcherInv, WatcherType, Fields
    <2>4. v.pending \in Fetches
        BY <2>1, <2>3 DEF WatcherInv, WatcherType, Fetches
    <2>5. WatcherInv(v, f)
        BY <2>3, <2>4, SameWatcher, Zenon
    <2> QED BY <1>2, <2>5 DEF OnRawBlock, v
<1> QED BY <1>1, <1>2

WatchInv ==
  /\ first \in Blocks \union {NoBlock}
  /\ zmq \in Seq(Blocks)
  /\ WatcherInv(watcher, first)

\* Every step keeps it.
LEMMA WatchStep == WatchInv /\ [WatchNext]_watchVars => WatchInv'
<1> SUFFICES ASSUME WatchInv, [WatchNext]_watchVars PROVE WatchInv'
    OBVIOUS
<1> USE DEF WatchInv
<1>1. ASSUME NEW b \in Blocks, Advance(b) PROVE WatchInv'
    <2>1. zmq' = zmq \/ zmq' = Append(zmq, b)
        BY <1>1 DEF Advance
    <2> QED BY <1>1, <2>1 DEF Advance
<1>2. ASSUME NEW b \in Blocks, Start(b) PROVE WatchInv'
    <2>1. first = NoBlock /\ first' = b /\ watcher' = [watcher EXCEPT !.received = @ \union {b}] /\ zmq' = zmq
        BY <1>2 DEF Start
    <2>2. DOMAIN watcher' = Fields /\ watcher'.received = watcher.received \union {b}
          /\ watcher'.next = watcher.next /\ watcher'.orphans = watcher.orphans /\ watcher'.pending = watcher.pending
        BY <2>1 DEF WatcherInv, WatcherType, Fields
    <2>3. Forks(watcher', b)
        BY <2>1, <2>2, ThingsAssumption DEF WatcherInv, WatcherType, Forks
    <2>4. WatcherType(watcher') /\ SameParent(watcher')
        BY <2>2 DEF WatcherInv, WatcherType, SameParent
    <2> QED BY <2>1, <2>3, <2>4 DEF WatcherInv
<1>3. ASSUME NEW x \in Things, Watch(x) PROVE WatchInv'
    <2>1. watcher' = [watcher EXCEPT !.watched = @ \union {x}] /\ UNCHANGED <<first, zmq>>
        BY <1>3 DEF Watch
    <2>2. DOMAIN watcher' = Fields /\ watcher'.received = watcher.received /\ watcher'.pending \in Fetches
          /\ watcher'.next = watcher.next /\ watcher'.orphans = watcher.orphans
        BY <2>1 DEF WatcherInv, WatcherType, Fields
    <2>3. WatcherInv(watcher', first)
        BY <2>2, SameWatcher
    <2> QED BY <2>1, <2>3
<1>4. ASSUME NEW bad \in Faulty, Deliver(bad) PROVE WatchInv'
    <2>1. Head(zmq) \in Blocks /\ Tail(zmq) \in Seq(Blocks)
        BY <1>4 DEF Deliver
    <2>2. WatcherInv(OnRawBlock(watcher, Head(zmq), bad), first)
        BY <2>1, ReceiveKeeps
    <2> QED BY <1>4, <2>1, <2>2 DEF Deliver
<1>5. ASSUME NEW bad \in Faulty, NEW i \in 1..Len(watcher.pending), Answer(i, bad) PROVE WatchInv'
    <2> DEFINE fetch == watcher.pending[i]
               rest == RemoveAt(watcher.pending, i)
               v == [watcher EXCEPT !.pending = rest]
    <2>1. watcher' = Handle(v, fetch, bad) /\ fetch[2] # NoBlock /\ UNCHANGED <<first, zmq>>
        BY <1>5, Zenon DEF Answer
    <2>2. watcher.pending \in Fetches /\ DOMAIN watcher = Fields
        BY DEF WatcherInv, WatcherType
    <2>3. fetch[1] \in Blocks /\ fetch[2] \in Blocks
        BY <2>1, <2>2 DEF Fetches
    <2>4. rest \in Fetches
        <3>1. ASSUME NEW S, NEW s \in Seq(S), NEW k \in 1..Len(s) PROVE RemoveAt(s, k) \in Seq(S)
            BY DEF RemoveAt
        <3> QED BY <2>2, <3>1 DEF Fetches
    <2> HIDE DEF fetch, rest
    <2>5. DOMAIN v = Fields /\ v.received = watcher.received /\ v.next = watcher.next
          /\ v.orphans = watcher.orphans /\ v.pending = rest
        BY <2>2 DEF Fields
    <2> HIDE DEF v
    <2>6. WatcherInv(v, first)
        BY <2>4, <2>5, SameWatcher
    <2>7. WatcherInv(OnRawBlock(v, fetch[2], bad), first)
        BY <2>3, <2>6, ReceiveKeeps
    <2>8. WatcherInv(OnRawBlock(OnRawBlock(v, fetch[2], bad), fetch[1], bad), first)
        BY <2>3, <2>7, ReceiveKeeps
    <2> QED BY <2>1, <2>8 DEF Handle
<1>6. ASSUME NEW i \in 1..Len(watcher.pending), Reject(i) PROVE WatchInv'
    BY <1>6 DEF Reject
<1>7. CASE UNCHANGED watchVars
    BY <1>7 DEF watchVars
<1> QED BY <1>1, <1>2, <1>3, <1>4, <1>5, <1>6, <1>7, Zenon DEF WatchNext, WatcherNext

(* BlockWatcher: for every tree, whatever comes or is fetched in which order *)
(* and how often, when two blocks on top of the same one have been processed *)
(* the listeners have been told of the fork.                                 *)
THEOREM EveryForkTold == WatchSpec => []ForkTold
<1>1. WatchInit => WatchInv
    <2> SUFFICES ASSUME WatchInit PROVE WatchInv
        OBVIOUS
    <2>1. DOMAIN NoWatcher = Fields /\ NoWatcher.received = {} /\ NoWatcher.pending = <<>>
          /\ NoWatcher.next = [b \in Blocks |-> NoBlock] /\ NoWatcher.orphans = {}
        BY DEF NoWatcher, Fields
    <2>2. WatcherInv(NoWatcher, NoBlock)
        BY <2>1 DEF WatcherInv, WatcherType, Forks, SameParent, Fetches
    <2> QED BY <2>2 DEF WatchInit, WatchInv
<1>2. WatchInv => ForkTold
    <2> SUFFICES ASSUME WatchInv, NEW a \in Processed, NEW b \in Processed, Siblings(a, b)
                 PROVE  \E f \in Blocks : \A c \in {a, b} : c = f \/ <<f, c>> \in watcher.orphans
        BY DEF ForkTold
    <2>1. watcher.next[Parent[a]] \in Blocks
        BY DEF WatchInv, WatcherInv, Forks, Processed
    <2>2. \A c \in {a, b} : c = watcher.next[Parent[a]] \/ <<watcher.next[Parent[a]], c>> \in watcher.orphans
        BY DEF WatchInv, WatcherInv, Forks, Processed, Siblings
    <2> QED BY <2>1, <2>2
<1> QED BY <1>1, <1>2, WatchStep, PTL DEF WatchSpec

(***************************************************************************)
(* LevelStores: what the steps of a call are.                              *)
(***************************************************************************)
Calls == UNION Workload
AllSteps == UNION {ToSet(StepsOf(call)) : call \in Calls}

\* what a key stands for: the contract, or channel, it leads to is one it belongs to
StandsFor(key, c) ==
  /\ key[1] = "temp" => c \in DOMAIN Contract /\ key = Temp(c)
  /\ key[1] = "script" => c \in DOMAIN Contract /\ key = Script(c)
  /\ key[1] = "outpoint" => /\ c \in DOMAIN Contract
                            /\ Spends(c, key[2]) \/ Contract[c].out = key[2]
  /\ key[1] = "funding" => c \in DOMAIN Channel /\ key = Funding(c)

\* the records a key may lead to
LedTo(key, c) ==
  CASE key[1] = "temp" -> {<<"accept", c>>}
    [] key[1] = "script" -> {<<"transactions", c>>}
    [] key[1] = "outpoint" -> {<<"accept", c>>, <<"transactions", c>>}
    [] key[1] = "funding" -> {<<"channel", c>>}

Secondary == {"temp", "script", "outpoint", "funding"}
Primary == {"offer", "accept", "transactions", "channel", "update", "node"}

\* the keys a record of c, a contract or a channel, is found by when v is what is saved
Indexed(r, v, c) ==
  \/ c \in DOMAIN Contract /\ (r = <<"transactions", c>> \/ (r = <<"accept", c>> /\ ~Overrun(c)))
  \/ c \in DOMAIN Channel /\ r = <<"channel", c>> /\ v = "extended"
KeysOf(r, c) == IF r = <<"transactions", c>> THEN {Script(c), Outpoint(Contract[c].out)}
                ELSE IF r = <<"channel", c>> THEN {Funding(c)}
                ELSE {Temp(c)} \union {Outpoint(o) : o \in ToSet(Contract[c].inputs)}

\* one step of a call
StepOK(call, act) ==
  /\ act.do \in {"need", "throw", "put", "del", "read", "link", "unlink"}
  /\ act.do = "put" => /\ act.key[1] \in Primary \union Secondary
                        /\ StandsFor(act.key, act.value)
  /\ act.do = "del" => act.key[1] \in Primary \union {"links"}
  /\ act.do \in {"put", "del"} /\ act.key[1] = "channel" =>
       /\ act.key = <<"channel", Of(call)>> /\ Of(call) \in DOMAIN Channel
       /\ Op(call) = IF act.do = "put" THEN "saveChannelAnnouncement" ELSE "deleteChannelAnnouncement"
  /\ act.do = "put" /\ act.key[1] \in {"accept", "transactions", "channel"} => act.key \in Records(call)
  /\ act.do \in {"read", "link", "unlink"} =>
       Op(call) \in {"saveChannelAnnouncement", "deleteChannelAnnouncement"}
  /\ act.do \in {"link", "unlink"} => /\ Of(call) \in DOMAIN Channel
                                       /\ \E k \in 1..2 : act.key = Links(Channel[Of(call)][k])
  /\ act.do = "link" => Op(call) = "saveChannelAnnouncement"
  /\ act.do = "unlink" => Op(call) = "deleteChannelAnnouncement"
  /\ act.do = "read" => act.key = Links(act.key[2])

Puts(s, i, key) == s[i].do = "put" /\ s[i].key = key

\* a secondary key is put after a record it leads to
BackedAt(s, i) ==
  s[i].do = "put" /\ s[i].key[1] \in Secondary =>
    \/ \E r \in LedTo(s[i].key, s[i].value) : \E j \in 1..i - 1 : Puts(s, j, r)
    \/ s[i].key[1] = "outpoint" /\ Overrun(s[i].value)

\* a record is put before its keys, and nothing stops the call in between
TrailedAt(s, i) ==
  \A r, c : Indexed(r, s[i].value, c) /\ Puts(s, i, r) =>
    /\ \A j \in i..Len(s) : s[j].do \notin {"need", "throw"}
    /\ \A key \in KeysOf(r, c) : \E j \in i + 1..Len(s) : Puts(s, j, key)

WellMade(call, s) ==
  /\ s \in Seq(ToSet(s)) /\ Len(s) > 0
  /\ \A i \in 1..Len(s) : StepOK(call, s[i]) /\ BackedAt(s, i) /\ TrailedAt(s, i)

(***************************************************************************)
(* The inductive invariant.                                                *)
(***************************************************************************)
Steps(w) == StepsOf(running[w].call)
At(w) == Len(Steps(w)) - Len(running[w].todo) + 1
\* where a call that saves a channel is, counted so that the k-th list is read at 2 * k
Stage(w) == At(w) - Len(Steps(w)) + 5
Doing(w, op, ch) == Busy(w) /\ running[w].call[1] = op /\ running[w].call[2] = ch
Saving(w, ch) == Doing(w, "saveChannelAnnouncement", ch)
Deleting(w, ch) == Doing(w, "deleteChannelAnnouncement", ch)
On(w, ch) == Saving(w, ch) \/ Deleting(w, ch)
Pair(ch, k) == <<Channel[ch][k], ch>>
Linked(ch, k) == ch \in List(Channel[ch][k])

\* what is left to be done is the rest of the call
InCall(w) == Busy(w) =>
  /\ running[w].call \in Calls
  /\ Len(running[w].todo) <= Len(Steps(w))
  /\ \A i \in 1..Len(running[w].todo) : running[w].todo[i] = Steps(w)[At(w) - 1 + i]
RunningOK ==
  /\ calls \subseteq Calls
  /\ running \in [1..2 -> [call : Calls \union {<<>>}, todo : Seq(AllSteps), seen : SUBSET DOMAIN Channel]]
  /\ \A w \in 1..2 : InCall(w)

\* what a call has put is there, or was deleted since
PutsKnown ==
  \A w \in 1..2 : Busy(w) => \A j \in 1..At(w) - 1 : \A r : Puts(Steps(w), j, r) => Known(r)

KeysStand == \A key \in DOMAIN db : StandsFor(key, db[key])
KeysBacked == \A key \in DOMAIN db : key[1] \in Secondary =>
  \/ \E r \in LedTo(key, db[key]) : Known(r)
  \/ key[1] = "outpoint" /\ Overrun(db[key])

\* a key is to be put by a call that nothing stops any more
Coming(w, r, key) ==
  /\ Busy(w) /\ r \in Records(running[w].call)
  /\ \A j \in At(w)..Len(Steps(w)) : Steps(w)[j].do \notin {"need", "throw"}
  /\ \E j \in At(w)..Len(Steps(w)) : Puts(Steps(w), j, key)
Found ==
  \A r, c : Saved(r) /\ Indexed(r, db[r], c) /\ r \notin torn =>
    \A key \in KeysOf(r, c) : key \in DOMAIN db \/ \E w \in 1..2 : Coming(w, r, key)

\* a list names channels of its node, and saved ones
ListsOK ==
  \A key \in DOMAIN db : key[1] = "links" =>
    /\ key = Links(key[2]) /\ db[key] \subseteq DOMAIN Channel
    /\ \A ch \in db[key] : \/ <<key[2], ch>> \in astray
                           \/ Saved(<<"channel", ch>>) /\ \E k \in 1..2 : key[2] = Channel[ch][k]

AloneOrAstray ==
  \A ch \in DOMAIN Channel : \A v, w \in 1..2 :
    v # w /\ On(v, ch) /\ On(w, ch) => \A k \in 1..2 : Pair(ch, k) \in astray

\* how far a call that saves, or deletes, a channel has come
SavingOK ==
  \A w \in 1..2 : \A ch \in DOMAIN Channel : Saving(w, ch) => \A k \in 1..2 :
    \/ Pair(ch, k) \in astray
    \/ /\ At(w) > 1 => Saved(<<"channel", ch>>)
       /\ Stage(w) = 2 * k + 1 => (ch \in running[w].seen <=> Linked(ch, k))
       /\ Stage(w) > 2 * k + 1 => Linked(ch, k)
DeletingOK ==
  \A w \in 1..2 : \A ch \in DOMAIN Channel : Deleting(w, ch) => \A k \in 1..2 :
    \/ Pair(ch, k) \in astray
    \/ /\ At(w) = 2 * k + 3 => (ch \in running[w].seen <=> Linked(ch, k))
       /\ At(w) > 2 * k + 3 => ~Linked(ch, k)
LinkedOK ==
  \A ch \in DOMAIN Channel : Saved(<<"channel", ch>>) /\ <<"channel", ch>> \notin torn =>
    \A k \in 1..2 : \/ Pair(ch, k) \in astray
                    \/ Linked(ch, k)
                    \/ \E w \in 1..2 : Deleting(w, ch) \/ (Saving(w, ch) /\ Stage(w) <= 2 * k + 1)

StoresInv == /\ RunningOK /\ PutsKnown /\ KeysStand /\ KeysBacked /\ Found
        /\ ListsOK /\ AloneOrAstray /\ SavingOK /\ DeletingOK /\ LinkedOK

(***************************************************************************)
(* The steps of each call.                                                 *)
(***************************************************************************)
LEMMA CallIs ==
  ASSUME NEW call \in Calls
  PROVE  \/ Op(call) \in {"saveDlcOffer", "deleteDlcOffer", "saveNodeAnnouncement", "deleteNodeAnnouncement"}
         \/ Op(call) \in {"saveDlcAccept", "deleteDlcAccept", "saveDlcTransactions", "deleteDlcTransactions"}
            /\ Of(call) \in DOMAIN Contract
         \/ Op(call) \in {"saveChannelAnnouncement", "deleteChannelAnnouncement", "saveChannelUpdate"}
            /\ Of(call) \in DOMAIN Channel
         \/ /\ Op(call) = "saveDlcAccepts" /\ Of(call) \in Seq(DOMAIN Contract) /\ Of(call) # <<>>
            /\ \A k \in DOMAIN Of(call) : Contract[Of(call)[k]].inputs = Contract[Of(call)[1]].inputs
BY WorkloadAssumption DEF Calls, Op, Of

\* What StepsOf says of each operation.
LEMMA StepsAre ==
  ASSUME NEW call
  PROVE  /\ Op(call) = "saveDlcOffer" => StepsOf(call) = <<Put(<<"offer", Of(call)>>, Of(call))>>
         /\ Op(call) = "deleteDlcOffer" => StepsOf(call) = <<Do("del", <<"offer", Of(call)>>)>>
         /\ Op(call) = "saveDlcAccept" => StepsOf(call) = SaveDlcAccept(Of(call))
         /\ Op(call) = "saveDlcAccepts" => StepsOf(call) = SaveDlcAccepts(Of(call))
         /\ Op(call) = "deleteDlcAccept" => StepsOf(call) = <<Do("del", <<"accept", Of(call)>>)>>
         /\ Op(call) = "saveDlcTransactions" => StepsOf(call) = SaveDlcTransactions(Of(call))
         /\ Op(call) = "deleteDlcTransactions" => StepsOf(call) = <<Do("del", <<"transactions", Of(call)>>)>>
         /\ Op(call) = "saveChannelAnnouncement" => StepsOf(call) = SaveChannelAnnouncement(Of(call), Kind(call))
         /\ Op(call) = "deleteChannelAnnouncement" => StepsOf(call) = DeleteChannelAnnouncement(Of(call))
         /\ Op(call) = "saveChannelUpdate" => StepsOf(call) = <<Put(<<"update", Of(call), 0>>, Of(call))>>
         /\ Op(call) = "saveNodeAnnouncement" => StepsOf(call) = <<Put(<<"node", Of(call)>>, Of(call))>>
         /\ Op(call) = "deleteNodeAnnouncement" => StepsOf(call) = DeleteNodeAnnouncement(Of(call))
BY DEF StepsOf

\* What Records says of each operation.
LEMMA RecordsAre ==
  ASSUME NEW call
  PROVE  /\ Op(call) = "saveDlcAccepts" => Records(call) = {<<"accept", c>> : c \in ToSet(Of(call))}
         /\ Op(call) \in {"saveDlcAccept", "deleteDlcAccept"} => Records(call) = {<<"accept", Of(call)>>}
         /\ Op(call) \in {"saveDlcTransactions", "deleteDlcTransactions"} =>
              Records(call) = {<<"transactions", Of(call)>>}
         /\ Op(call) \in {"saveChannelAnnouncement", "deleteChannelAnnouncement"} =>
              Records(call) = {<<"channel", Of(call)>>}
         /\ Op(call) \in {"saveDlcOffer", "deleteDlcOffer", "saveChannelUpdate", "saveNodeAnnouncement",
                           "deleteNodeAnnouncement"} => Records(call) = {}
BY DEF Records

\* A call that puts neither a contract, nor a channel, nor a key of one.
LEMMA PlainMade ==
  ASSUME NEW call, NEW s, s \in Seq(ToSet(s)), Len(s) > 0,
         \A i \in 1..Len(s) :
           /\ StepOK(call, s[i])
           /\ s[i].do = "put" => s[i].key[1] \notin Secondary \union {"accept", "transactions", "channel"}
  PROVE  WellMade(call, s)
<1>1. \A i \in 1..Len(s) : BackedAt(s, i)
  BY DEF BackedAt
<1>2. ASSUME NEW i \in 1..Len(s), NEW c, NEW r, Indexed(r, s[i].value, c), Puts(s, i, r)
      PROVE  FALSE
  BY <1>2 DEF Indexed, Puts
<1>3. \A i \in 1..Len(s) : TrailedAt(s, i)
  BY <1>2 DEF TrailedAt
<1> QED
  BY <1>1, <1>3 DEF WellMade

\* All calls but four put neither a contract, nor a channel, nor a key of one.
LEMMA PlainCalls ==
  ASSUME NEW call \in Calls,
         Op(call) \notin {"saveDlcAccept", "saveDlcAccepts", "saveDlcTransactions", "saveChannelAnnouncement"}
  PROVE  WellMade(call, StepsOf(call))
<1> DEFINE s == StepsOf(call)
<1>1. ASSUME NEW x, s = <<x>>, StepOK(call, x),
             x.do = "put" => x.key[1] \notin Secondary \union {"accept", "transactions", "channel"}
      PROVE  WellMade(call, s)
  <2> HIDE DEF s
  <2>1. s \in Seq(ToSet(s)) /\ Len(s) > 0
    BY <1>1 DEF ToSet
  <2>2. \A i \in 1..Len(s) : s[i] = x
    BY <1>1
  <2> QED
    BY <1>1, <2>1, <2>2, PlainMade
<1>2. CASE Op(call) = "saveDlcOffer"
  <2> DEFINE x == Put(<<"offer", Of(call)>>, Of(call))
  <2>1. s = <<x>>
    BY <1>2, StepsAre
  <2>2. StepOK(call, x) /\ x.key[1] = "offer"
    BY DEF StepOK, Put, StandsFor, Primary, Secondary
  <2> HIDE DEF s, x
  <2> QED
    BY <1>1, <2>1, <2>2 DEF s, Secondary
<1>3. CASE Op(call) \in {"deleteDlcOffer", "deleteDlcAccept", "deleteDlcTransactions"}
  <2> DEFINE kind == CASE Op(call) = "deleteDlcOffer" -> "offer"
                       [] Op(call) = "deleteDlcAccept" -> "accept"
                       [] Op(call) = "deleteDlcTransactions" -> "transactions"
             x == Do("del", <<kind, Of(call)>>)
  <2>0. kind \in {"offer", "accept", "transactions"}
    BY <1>3
  <2>1. s = <<x>>
    BY <1>3, StepsAre
  <2> HIDE DEF kind
  <2>2. StepOK(call, x) /\ x.do = "del"
    BY <2>0 DEF StepOK, Do, Primary
  <2> HIDE DEF s, x
  <2> QED
    BY <1>1, <2>1, <2>2 DEF s
<1>4. CASE Op(call) = "saveChannelUpdate"
  <2> DEFINE x == Put(<<"update", Of(call), 0>>, Of(call))
  <2>1. s = <<x>>
    BY <1>4, StepsAre
  <2>2. StepOK(call, x) /\ x.key[1] = "update"
    BY DEF StepOK, Put, StandsFor, Primary, Secondary
  <2> HIDE DEF s, x
  <2> QED
    BY <1>1, <2>1, <2>2 DEF s, Secondary
<1>5. CASE Op(call) = "saveNodeAnnouncement"
  <2> DEFINE x == Put(<<"node", Of(call)>>, Of(call))
  <2>1. s = <<x>>
    BY <1>5, StepsAre
  <2>2. StepOK(call, x) /\ x.key[1] = "node"
    BY DEF StepOK, Put, StandsFor, Primary, Secondary
  <2> HIDE DEF s, x
  <2> QED
    BY <1>1, <2>1, <2>2 DEF s, Secondary
<1>6. CASE Op(call) = "deleteNodeAnnouncement"
  <2> DEFINE x == Do("del", Links(Of(call)))
             y == Do("del", <<"node", Of(call)>>)
  <2>1. s = <<x, y>>
    BY <1>6, StepsAre DEF DeleteNodeAnnouncement
  <2>2. StepOK(call, x) /\ x.do = "del" /\ StepOK(call, y) /\ y.do = "del"
    BY DEF StepOK, Do, Links, Primary
  <2> HIDE DEF s, x, y
  <2>3. s \in Seq(ToSet(s)) /\ Len(s) = 2
    BY <2>1 DEF ToSet
  <2>4. \A i \in 1..Len(s) : StepOK(call, s[i]) /\ s[i].do = "del"
    BY <2>1, <2>2
  <2>5. WellMade(call, s)
    BY <2>3, <2>4, PlainMade
  <2> QED
    BY <2>5 DEF s
<1>7. CASE Op(call) = "deleteChannelAnnouncement"
  <2> DEFINE ch == Of(call)
             L(k) == Links(Channel[ch][k])
             a == Do("need", <<"channel", ch>>)
             u(i) == Do("del", <<"update", ch, i>>)
             d == Do("del", <<"channel", ch>>)
  <2>1. s = <<a, u(0), u(1), Do("read", L(1)), Do("unlink", L(1)), Do("read", L(2)), Do("unlink", L(2)), d>>
    BY <1>7, StepsAre DEF DeleteChannelAnnouncement
  <2>2. ch \in DOMAIN Channel
    BY <1>7, CallIs
  <2>3. StepOK(call, a) /\ a.do = "need" /\ StepOK(call, d) /\ d.do = "del"
    BY <1>7, <2>2 DEF StepOK, Do, Primary
  <2>4. \A i \in 0..1 : StepOK(call, u(i)) /\ u(i).do = "del"
    BY <1>7, <2>2 DEF StepOK, Do, Primary
  <2>5. \A k \in 1..2 : /\ StepOK(call, Do("read", L(k))) /\ Do("read", L(k)).do = "read"
                        /\ StepOK(call, Do("unlink", L(k))) /\ Do("unlink", L(k)).do = "unlink"
    BY <1>7, <2>2 DEF StepOK, Do, Links
  <2> HIDE DEF s, a, u, d, L
  <2>6. s \in Seq(ToSet(s)) /\ Len(s) = 8
    BY <2>1 DEF ToSet
  <2>7. \A i \in 1..Len(s) : \/ s[i] \in {a, d, u(0), u(1)}
                             \/ \E k \in 1..2 : s[i] \in {Do("read", L(k)), Do("unlink", L(k))}
    BY <2>1
  <2>8. \A i \in 1..Len(s) : StepOK(call, s[i]) /\ s[i].do # "put"
    BY <2>3, <2>4, <2>5, <2>7
  <2>9. \A i \in 1..Len(s) : s[i].do = "put" =>
          s[i].key[1] \notin Secondary \union {"accept", "transactions", "channel"}
    BY <2>8, Zenon
  <2>10. s \in Seq(ToSet(s)) /\ Len(s) > 0
    BY <2>6
  <2>11. \A i \in 1..Len(s) : StepOK(call, s[i])
    BY <2>8, Zenon
  <2>12. WellMade(call, s)
    BY <2>9, <2>10, <2>11, PlainMade
  <2> QED
    BY <2>12 DEF s
<1> QED
  BY <1>2, <1>3, <1>4, <1>5, <1>6, <1>7, CallIs

\* Three sequences one after the other.
LEMMA Three ==
  ASSUME NEW X, NEW a \in Seq(X), NEW b \in Seq(X), NEW c \in Seq(X), NEW s, s = a \o b \o c
  PROVE  /\ s \in Seq(X) /\ Len(s) = Len(a) + Len(b) + Len(c)
         /\ \A i \in 1..Len(a) : s[i] = a[i]
         /\ \A i \in 1..Len(b) : s[Len(a) + i] = b[i]
         /\ \A i \in 1..Len(c) : s[Len(a) + Len(b) + i] = c[i]
OBVIOUS

\* A sequence of some set is one of its own elements.
LEMMA OfItsRange ==
  ASSUME NEW X, NEW s \in Seq(X) PROVE s \in Seq(ToSet(s))
<1>1. Len(s) \in Nat /\ s \in [1..Len(s) -> X] /\ DOMAIN s = 1..Len(s)
  BY LenProperties
<1>2. \A i \in 1..Len(s) : s[i] \in ToSet(s)
  BY <1>1 DEF ToSet
<1>3. s \in [1..Len(s) -> ToSet(s)]
  BY <1>1, <1>2
<1> DEFINE T == ToSet(s)
           n == Len(s)
<1> HIDE DEF T
<1> QED
  <2>1. s \in [1..n -> T] /\ n \in Nat
    BY <1>1, <1>3 DEF T
  <2> HIDE DEF n
  <2>2. s \in Seq(T)
    BY <2>1
  <2> QED
    BY <2>2 DEF T

\* The steps of a call that saves a channel, one after the other.
LEMMA SavingSteps ==
  ASSUME NEW p, NEW f, NEW a, NEW b, NEW c, NEW d, NEW m, m \in {<<f>>, <<>>},
         NEW s, s = <<p>> \o m \o <<a, b, c, d>>
  PROVE  /\ s \in Seq({p, f, a, b, c, d}) /\ s[1] = p
         /\ m = <<f>> => Len(s) = 6 /\ s[2] = f /\ s[3] = a /\ s[4] = b /\ s[5] = c /\ s[6] = d
         /\ m = <<>> => Len(s) = 5 /\ s[2] = a /\ s[3] = b /\ s[4] = c /\ s[5] = d
<1> DEFINE X == {p, f, a, b, c, d}
           l == <<a, b, c, d>>
<1>1. <<p>> \in Seq(X) /\ Len(<<p>>) = 1 /\ <<p>>[1] = p
  OBVIOUS
<1>2. l \in Seq(X) /\ Len(l) = 4 /\ l[1] = a /\ l[2] = b /\ l[3] = c /\ l[4] = d
  OBVIOUS
<1>3. /\ m \in Seq(X)
      /\ m = <<f>> => Len(m) = 1 /\ m[1] = f
      /\ m = <<>> => Len(m) = 0
  <2>1. CASE m = <<f>>
    BY <2>1, <<f>> # <<>>
  <2>2. CASE m = <<>>
    BY <2>2, <<f>> # <<>>
  <2> QED
    BY <2>1, <2>2
<1> HIDE DEF X, l
<1>4. /\ s \in Seq(X) /\ Len(s) = Len(<<p>>) + Len(m) + Len(l)
      /\ \A i \in 1..Len(<<p>>) : s[i] = <<p>>[i]
      /\ \A i \in 1..Len(m) : s[Len(<<p>>) + i] = m[i]
      /\ \A i \in 1..Len(l) : s[Len(<<p>>) + Len(m) + i] = l[i]
  <2>1. s = <<p>> \o m \o l
    BY DEF l
  <2> QED
    BY <1>1, <1>2, <1>3, <2>1, Three
<1> HIDE DEF X, l
<1>5. s[1] = p
  BY <1>1, <1>4
<1>6. CASE m = <<f>>
  <2>1. /\ Len(s) = 1 + 1 + 4 /\ \A i \in 1..1 : s[1 + i] = m[i]
        /\ \A i \in 1..4 : s[1 + 1 + i] = l[i]
    BY <1>1, <1>2, <1>3, <1>4, <1>6
  <2> QED
    BY <1>2, <1>3, <1>4, <1>5, <1>6, <2>1 DEF X
<1>7. CASE m = <<>>
  <2>1. Len(s) = 1 + 0 + 4 /\ \A i \in 1..4 : s[1 + 0 + i] = l[i]
    BY <1>1, <1>2, <1>3, <1>4, <1>7
  <2> QED
    BY <1>2, <1>4, <1>5, <1>7, <2>1 DEF X
<1> QED
  BY <1>6, <1>7

\* How many they are, and where that puts the reads.
LEMMA SavingLength ==
  ASSUME NEW call, Op(call) = "saveChannelAnnouncement"
  PROVE  Len(StepsOf(call)) \in 5..6
<1> DEFINE m == IF Kind(call) = "extended" THEN <<Put(Funding(Of(call)), Of(call))>> ELSE <<>>
           s == StepsOf(call)
           p == Put(<<"channel", Of(call)>>, Kind(call))
           f == Put(Funding(Of(call)), Of(call))
           R(k) == Do("read", Links(Channel[Of(call)][k]))
           L(k) == Do("link", Links(Channel[Of(call)][k]))
<1>1. s = <<p>> \o m \o <<R(1), L(1), R(2), L(2)>>
  BY StepsAre DEF SaveChannelAnnouncement, SaveNodeChannels
<1>2. m \in {<<f>>, <<>>}
  OBVIOUS
<1> HIDE DEF m, s, p, f, R, L
<1>3. Len(s) = 6 \/ Len(s) = 5
  <2>1. CASE m = <<f>>
    BY <1>1, <1>2, <2>1, SavingSteps
  <2>2. CASE m = <<>>
    BY <1>1, <1>2, <2>2, SavingSteps
  <2> QED
    BY <1>2, <2>1, <2>2
<1> QED
  BY <1>3 DEF s

LEMMA StageRange ==
  \A l \in 5..6 : /\ \A a \in 1..l : a - l + 5 \in 0..5 /\ a # 8
                 /\ 1 < l /\ 1 - l + 5 \in 0..1 /\ 1 + 1 - l + 5 \in 1..2
OBVIOUS

\* saveChannelAnnouncement puts the announcement, its outpoint if it is an extended one, and then
\* links it to its two nodes.
LEMMA ChannelMade ==
  ASSUME NEW call \in Calls, Op(call) = "saveChannelAnnouncement"
  PROVE  WellMade(call, StepsOf(call))
<1> DEFINE s == StepsOf(call)
           ch == Of(call)
           r == <<"channel", ch>>
           p == Put(r, Kind(call))
           f == Put(Funding(ch), ch)
           R(k) == Do("read", Links(Channel[ch][k]))
           L(k) == Do("link", Links(Channel[ch][k]))
           links == {R(1), L(1), R(2), L(2)}
<1>1. ch \in DOMAIN Channel
  BY CallIs
<1>2. s = <<p>> \o (IF Kind(call) = "extended" THEN <<f>> ELSE <<>>) \o <<R(1), L(1), R(2), L(2)>>
  BY StepsAre DEF SaveChannelAnnouncement, SaveNodeChannels
<1>3. p.do = "put" /\ p.key = r /\ p.value = Kind(call) /\ StepOK(call, p) /\ r[1] = "channel" /\ r[2] = ch
  BY <1>1, RecordsAre DEF StepOK, Put, StandsFor, Primary, Secondary
<1>4. f.do = "put" /\ f.key = Funding(ch) /\ f.value = ch /\ f.key[1] = "funding" /\ StepOK(call, f)
  BY <1>1 DEF StepOK, Put, StandsFor, Funding, Primary, Secondary
<1>5. \A k \in 1..2 : /\ StepOK(call, R(k)) /\ R(k).do = "read"
                      /\ StepOK(call, L(k)) /\ L(k).do = "link"
  BY <1>1 DEF StepOK, Do, Links
<1>6. \A x \in links : StepOK(call, x) /\ x.do \in {"read", "link"}
  <2> HIDE DEF R, L
  <2> QED
    BY <1>5
<1>7. r \in LedTo(f.key, f.value)
  BY <1>4 DEF LedTo
<1> HIDE DEF s, p, f, R, L, r
<1>8. ASSUME NEW i, s[i].do \in {"read", "link"} PROVE BackedAt(s, i) /\ TrailedAt(s, i)
  BY <1>8 DEF BackedAt, TrailedAt, Puts
<1>9. CASE Kind(call) = "extended"
  <2>1. s = <<p>> \o <<f>> \o <<R(1), L(1), R(2), L(2)>>
    BY <1>2, <1>9
  <2>2. Len(s) = 6 /\ s[1] = p /\ s[2] = f /\ (\A i \in 3..6 : s[i] \in links) /\ s \in Seq({p, f} \union links)
    <3>1. /\ s \in Seq({p, f, R(1), L(1), R(2), L(2)}) /\ s[1] = p
          /\ Len(s) = 6 /\ s[2] = f /\ s[3] = R(1) /\ s[4] = L(1) /\ s[5] = R(2) /\ s[6] = L(2)
      BY <2>1, SavingSteps
    <3>2. {p, f, R(1), L(1), R(2), L(2)} = {p, f} \union links
      OBVIOUS
    <3> QED
      BY <3>1, <3>2
  <2>3. s \in Seq(ToSet(s))
    BY <2>2, OfItsRange
  <2>4. \A i \in 3..6 : StepOK(call, s[i]) /\ s[i].do \in {"read", "link"}
    BY <1>6, <2>2
  <2>5. \A i \in 1..6 : i = 1 \/ i = 2 \/ i \in 3..6
    OBVIOUS
  <2>6. BackedAt(s, 1) /\ TrailedAt(s, 1)
    <3>1. BackedAt(s, 1)
      BY <1>3, <2>2 DEF BackedAt, Secondary
    <3>2. ASSUME NEW q, NEW d, Indexed(q, s[1].value, d), Puts(s, 1, q)
          PROVE  /\ \A j \in 1..Len(s) : s[j].do \notin {"need", "throw"}
                 /\ \A key \in KeysOf(q, d) : \E j \in 1 + 1..Len(s) : Puts(s, j, key)
      <4>1. q = r
        BY <1>3, <2>2, <3>2 DEF Puts
      <4>2. d = ch /\ KeysOf(q, d) = {Funding(ch)}
        BY <1>3, <3>2, <4>1 DEF Indexed, KeysOf, r
      <4>3. Puts(s, 2, Funding(ch)) /\ 2 \in 1 + 1..Len(s)
        BY <1>4, <2>2 DEF Puts
      <4>4. \A j \in 1..6 : s[j].do \in {"put", "read", "link"}
        BY <1>3, <1>4, <2>2, <2>4, <2>5
      <4> QED
        BY <2>2, <4>2, <4>3, <4>4
    <3> QED
      BY <3>1, <3>2 DEF TrailedAt
  <2>7. BackedAt(s, 2) /\ TrailedAt(s, 2)
    <3>1. 1 \in 1..2 - 1 /\ Puts(s, 1, r)
      BY <1>3, <2>2 DEF Puts
    <3>2. BackedAt(s, 2)
      BY <1>7, <2>2, <3>1 DEF BackedAt
    <3>3. ASSUME NEW q, NEW d, Indexed(q, s[2].value, d), Puts(s, 2, q) PROVE FALSE
      BY <1>4, <2>2, <3>3 DEF Puts, Indexed
    <3> QED
      BY <3>2, <3>3 DEF TrailedAt
  <2>8. \A i \in 1..6 : StepOK(call, s[i]) /\ BackedAt(s, i) /\ TrailedAt(s, i)
    BY <1>3, <1>4, <1>8, <2>2, <2>4, <2>5, <2>6, <2>7
  <2> QED
    BY <2>2, <2>3, <2>8 DEF WellMade, s
<1>10. CASE Kind(call) # "extended"
  <2>1. s = <<p>> \o <<>> \o <<R(1), L(1), R(2), L(2)>>
    BY <1>2, <1>10
  <2>2. Len(s) = 5 /\ s[1] = p /\ (\A i \in 2..5 : s[i] \in links) /\ s \in Seq({p, f} \union links)
    <3>1. /\ s \in Seq({p, f, R(1), L(1), R(2), L(2)}) /\ s[1] = p
          /\ Len(s) = 5 /\ s[2] = R(1) /\ s[3] = L(1) /\ s[4] = R(2) /\ s[5] = L(2)
      BY <2>1, SavingSteps
    <3>2. {p, f, R(1), L(1), R(2), L(2)} = {p, f} \union links
      OBVIOUS
    <3> QED
      BY <3>1, <3>2
  <2>3. s \in Seq(ToSet(s))
    BY <2>2, OfItsRange
  <2>4. \A i \in 2..5 : StepOK(call, s[i]) /\ s[i].do \in {"read", "link"}
    BY <1>6, <2>2
  <2>5. \A i \in 1..5 : i = 1 \/ i \in 2..5
    OBVIOUS
  <2>6. BackedAt(s, 1) /\ TrailedAt(s, 1)
    <3>1. BackedAt(s, 1)
      BY <1>3, <2>2 DEF BackedAt, Secondary
    <3>2. ASSUME NEW q, NEW d, Indexed(q, s[1].value, d), Puts(s, 1, q) PROVE FALSE
      <4>1. q[1] = "channel"
        BY <1>3, <2>2, <3>2 DEF Puts
      <4> QED
        BY <1>3, <1>10, <2>2, <3>2, <4>1 DEF Indexed
    <3> QED
      BY <3>1, <3>2 DEF TrailedAt
  <2>7. \A i \in 1..5 : StepOK(call, s[i]) /\ BackedAt(s, i) /\ TrailedAt(s, i)
    BY <1>3, <1>8, <2>2, <2>4, <2>5, <2>6
  <2> QED
    BY <2>2, <2>3, <2>7 DEF WellMade, s
<1> QED
  BY <1>9, <1>10

\* saveDlcTransactions puts the transactions and then the two keys to them.
LEMMA TransactionsMade ==
  ASSUME NEW call \in Calls, Op(call) = "saveDlcTransactions"
  PROVE  WellMade(call, StepsOf(call))
<1> DEFINE s == StepsOf(call)
           c == Of(call)
           r == <<"transactions", c>>
           x == Put(r, c)
           y == Put(Outpoint(Contract[c].out), c)
           z == Put(Script(c), c)
<1>1. s = <<x, y, z>> /\ c \in DOMAIN Contract
  BY StepsAre, CallIs DEF SaveDlcTransactions
<1>2. s \in Seq(ToSet(s)) /\ Len(s) = 3 /\ s[1] = x /\ s[2] = y /\ s[3] = z
  <2> HIDE DEF s, x, y, z
  <2> QED
    BY <1>1 DEF ToSet
<1>3. StepOK(call, x)
  BY <1>1, RecordsAre DEF StepOK, Put, StandsFor, Primary, Secondary
<1>4. StepOK(call, y)
  BY <1>1 DEF StepOK, Put, StandsFor, Outpoint, Primary, Secondary
<1>5. StepOK(call, z)
  BY <1>1 DEF StepOK, Put, StandsFor, Script, Primary, Secondary
<1>6. /\ x.do = "put" /\ x.key = r
      /\ y.do = "put" /\ y.key = Outpoint(Contract[c].out) /\ y.value = c /\ y.key[1] = "outpoint"
      /\ z.do = "put" /\ z.key = Script(c) /\ z.value = c /\ z.key[1] = "script"
      /\ r[1] = "transactions" /\ r[2] = c
  BY DEF Put, Outpoint, Script
<1> HIDE DEF s, x, y, z, r
<1>7. r \in LedTo(y.key, y.value) /\ r \in LedTo(z.key, z.value)
  BY <1>6 DEF LedTo, r
<1>8. ASSUME NEW i \in 1..Len(s) PROVE BackedAt(s, i)
  <2>1. CASE i = 1
    BY <1>2, <1>6, <2>1 DEF BackedAt, Secondary
  <2>2. CASE i # 1
    <3>1. 1 \in 1..i - 1 /\ Puts(s, 1, r)
      BY <1>2, <1>6, <2>2 DEF Puts
    <3>2. r \in LedTo(s[i].key, s[i].value)
      BY <1>2, <1>7, <2>2
    <3> QED
      BY <3>1, <3>2, Zenon DEF BackedAt
  <2> QED
    BY <2>1, <2>2
<1>9. ASSUME NEW i \in 1..Len(s) PROVE TrailedAt(s, i)
  <2> SUFFICES ASSUME NEW d, NEW q, Indexed(q, s[i].value, d), Puts(s, i, q)
               PROVE  /\ \A j \in i..Len(s) : s[j].do \notin {"need", "throw"}
                      /\ \A key \in KeysOf(q, d) : \E j \in i + 1..Len(s) : Puts(s, j, key)
    BY DEF TrailedAt
  <2>1. \A j \in i..Len(s) : s[j].do \notin {"need", "throw"}
    BY <1>2, <1>6
  <2>2. i = 1 /\ q = r
    BY <1>2, <1>6 DEF Puts, Indexed
  <2>3. d = c
    BY <1>6, <2>2 DEF Indexed, r
  <2>4. KeysOf(q, d) = {Script(c), Outpoint(Contract[c].out)}
    BY <2>2, <2>3 DEF KeysOf, r
  <2>5. Puts(s, 2, Outpoint(Contract[c].out)) /\ Puts(s, 3, Script(c))
    BY <1>2, <1>6 DEF Puts
  <2>6. 2 \in i + 1..Len(s) /\ 3 \in i + 1..Len(s)
    BY <1>2, <2>2
  <2> QED
    BY <2>1, <2>4, <2>5, <2>6, Zenon
<1> QED
  <2>1. \A i \in 1..Len(s) : StepOK(call, s[i])
    BY <1>2, <1>3, <1>4, <1>5
  <2> QED
    BY <1>2, <1>8, <1>9, <2>1 DEF WellMade, s

\* saveDlcAccept needs the offer, and then puts the accept, an outpoint for each input and the temporary id.
LEMMA AcceptMade ==
  ASSUME NEW call \in Calls, Op(call) = "saveDlcAccept"
  PROVE  WellMade(call, StepsOf(call))
<1> DEFINE s == StepsOf(call)
           c == Of(call)
           outs == Contract[c].inputs
           n == Len(outs)
           r == <<"accept", c>>
           a == Do("need", Offer(c))
           p == Put(r, c)
           Q(i) == Put(Outpoint(outs[i]), c)
           f == [i \in 1..n |-> Q(i)]
           t == Put(Temp(c), c)
           X == {a, p, t} \union {Q(i) : i \in 1..n}
<1>1. c \in DOMAIN Contract
  BY CallIs
<1>2. outs \in Seq(ToSet(outs)) /\ n \in Nat /\ DOMAIN outs = 1..n
  BY <1>1, ContractAssumption
<1>3. s = <<a, p>> \o f \o <<t>>
  BY <1>2, StepsAre DEF SaveDlcAccept
<1>4. \A i \in 1..n : outs[i] \in ToSet(outs)
  BY <1>2 DEF ToSet
<1>5. /\ a.do = "need" /\ StepOK(call, a)
      /\ p.do = "put" /\ p.key = r /\ StepOK(call, p)
      /\ t.do = "put" /\ t.key = Temp(c) /\ t.value = c /\ t.key[1] = "temp" /\ StepOK(call, t)
      /\ r[1] = "accept" /\ r[2] = c
  <2>1. a.do = "need" /\ StepOK(call, a)
    BY DEF StepOK, Do
  <2>2. p.do = "put" /\ p.key = r /\ StepOK(call, p) /\ r[1] = "accept" /\ r[2] = c
    BY RecordsAre DEF StepOK, Put, StandsFor, Primary
  <2>3. t.do = "put" /\ t.key = Temp(c) /\ t.value = c /\ t.key[1] = "temp" /\ StepOK(call, t)
    BY <1>1 DEF StepOK, Put, StandsFor, Temp, Secondary
  <2> QED
    BY <2>1, <2>2, <2>3
<1>6. ASSUME NEW i \in 1..n
      PROVE  /\ Q(i).do = "put" /\ Q(i).key = Outpoint(outs[i]) /\ Q(i).value = c
             /\ Q(i).key[1] = "outpoint" /\ StepOK(call, Q(i))
  BY <1>1, <1>4 DEF StepOK, Put, StandsFor, Spends, Outpoint, Secondary
<1> HIDE DEF s, a, p, Q, t, r, outs, n
<1>7. /\ s \in Seq(X) /\ Len(s) = n + 3
      /\ s[1] = a /\ s[2] = p /\ s[n + 3] = t
      /\ \A i \in 1..n : s[i + 2] = Q(i)
  <2>1. <<a, p>> \in Seq(X) /\ <<t>> \in Seq(X) /\ Len(<<a, p>>) = 2 /\ Len(<<t>>) = 1
    OBVIOUS
  <2>2. f \in Seq(X) /\ Len(f) = n /\ \A i \in 1..n : f[i] = Q(i)
    BY <1>2
  <2> HIDE DEF f, X
  <2>3. /\ s \in Seq(X) /\ Len(s) = 2 + n + 1
        /\ \A i \in 1..2 : s[i] = <<a, p>>[i]
        /\ \A i \in 1..n : s[2 + i] = f[i]
        /\ \A i \in 1..1 : s[2 + n + i] = <<t>>[i]
    BY <1>3, <2>1, <2>2, Three
  <2>4. \A m \in Nat : 2 + m + 1 = m + 3
    OBVIOUS
  <2> QED
    BY <1>2, <2>2, <2>3, <2>4
<1>8. \A i \in 1..n + 3 : i = 1 \/ i = 2 \/ i = n + 3 \/ \E k \in 1..n : i = k + 2
  <2> SUFFICES ASSUME NEW i \in 1..n + 3, i # 1, i # 2, i # n + 3 PROVE \E k \in 1..n : i = k + 2
    OBVIOUS
  <2>1. i - 2 \in 1..n /\ i = (i - 2) + 2
    BY <1>2
  <2> QED
    BY <2>1
<1>9. r \in LedTo(t.key, t.value) /\ \A i \in 1..n : r \in LedTo(Q(i).key, Q(i).value)
  BY <1>5, <1>6 DEF LedTo, r
<1>10. ASSUME NEW i \in 1..Len(s) PROVE BackedAt(s, i)
  <2>1. CASE i = 1 \/ i = 2
    BY <1>5, <1>7, <2>1 DEF BackedAt, Secondary
  <2>2. CASE i > 2
    <3>1. 2 \in 1..i - 1 /\ Puts(s, 2, r)
      BY <1>5, <1>7, <2>2 DEF Puts
    <3>2. r \in LedTo(s[i].key, s[i].value)
      BY <1>7, <1>8, <1>9, <2>2
    <3> QED
      BY <3>1, <3>2, Zenon DEF BackedAt
  <2> QED
    BY <2>1, <2>2
<1>11. ASSUME NEW i \in 1..Len(s) PROVE TrailedAt(s, i)
  <2> SUFFICES ASSUME NEW d, NEW q, Indexed(q, s[i].value, d), Puts(s, i, q)
               PROVE  /\ \A j \in i..Len(s) : s[j].do \notin {"need", "throw"}
                      /\ \A key \in KeysOf(q, d) : \E j \in i + 1..Len(s) : Puts(s, j, key)
    BY DEF TrailedAt
  <2>1. q[1] \in {"accept", "transactions", "channel"}
    BY DEF Indexed
  <2>2. i = 2 /\ q = r
    BY <1>5, <1>6, <1>7, <1>8, <2>1 DEF Puts
  <2>3. ASSUME NEW j \in i..Len(s) PROVE s[j].do \notin {"need", "throw"}
    <3>1. j \in 1..n + 3 /\ j # 1
      BY <1>2, <1>7, <2>2
    <3>2. j = 2 \/ j = n + 3 \/ \E k \in 1..n : j = k + 2
      BY <1>8, <3>1
    <3>3. s[j].do = "put"
      BY <1>5, <1>6, <1>7, <3>2
    <3> QED
      BY <3>3
  <2>4. d = c
    BY <1>5, <2>2 DEF Indexed, r
  <2>5. KeysOf(q, d) = {Temp(c)} \union {Outpoint(o) : o \in ToSet(outs)}
    BY <2>2, <2>4 DEF KeysOf, r, outs
  <2>6. n + 3 \in i + 1..Len(s) /\ Puts(s, n + 3, Temp(c))
    BY <1>2, <1>5, <1>7, <2>2 DEF Puts
  <2>7. ASSUME NEW o \in ToSet(outs) PROVE \E j \in i + 1..Len(s) : Puts(s, j, Outpoint(o))
    <3>1. PICK k \in 1..n : o = outs[k]
      BY <1>2, <2>7 DEF ToSet
    <3>2. k + 2 \in i + 1..Len(s)
      BY <1>2, <1>7, <2>2
    <3>3. s[k + 2] = Q(k) /\ Q(k).do = "put" /\ Q(k).key = Outpoint(o)
      BY <1>6, <1>7, <3>1
    <3> QED
      BY <3>2, <3>3 DEF Puts
  <2> QED
    BY <2>3, <2>5, <2>6, <2>7
<1> QED
  <2>1. \A i \in 1..Len(s) : StepOK(call, s[i])
    BY <1>5, <1>6, <1>7, <1>8
  <2>2. s \in Seq(ToSet(s)) /\ Len(s) > 0
    <3>1. s \in Seq(ToSet(s))
      <4> HIDE DEF X
      <4>1. s \in Seq(X)
        BY <1>7
      <4> QED
        BY <4>1, OfItsRange
    <3> QED
      BY <1>2, <1>7, <3>1
  <2> QED
    BY <1>10, <1>11, <2>1, <2>2 DEF WellMade, s

(***************************************************************************)
(* A grid of cells, w to a row, counted row by row.                        *)
(***************************************************************************)
\* The row of a cell, and its place there.
LEMMA DivMod ==
  ASSUME NEW a \in Nat, NEW w \in Nat, w > 0
  PROVE  a \div w \in Nat /\ (a % w) \in 0..w - 1 /\ a = w * (a \div w) + (a % w)
OBVIOUS

\* Rows do not overlap.
LEMMA RowsApart == \A a, b \in Nat, w \in Nat : a < b => a * w + w <= b * w
<1> TAKE a, b \in Nat, w \in Nat
<1>1. \A d \in Nat : d * w >= 0
  OBVIOUS
<1>2. a < b => (b - a - 1) \in Nat
  OBVIOUS
<1>3. (b - a - 1) * w = b * w - a * w - w
  OBVIOUS
<1>4. a * w \in Nat /\ b * w \in Nat
  OBVIOUS
<1> QED
  BY <1>1, <1>2, <1>3, <1>4

\* A cell has one row and one place.
LEMMA OneCell ==
  ASSUME NEW w \in Nat, w > 0, NEW k \in Nat, NEW j \in Nat, NEW r \in 0..w - 1, NEW s \in 0..w - 1,
         w * k + r = w * j + s
  PROVE  k = j /\ r = s
<1>1. w * k = k * w /\ w * j = j * w /\ k * w \in Nat /\ j * w \in Nat
  OBVIOUS
<1>2. ~(k < j)
  <2>1. k < j => k * w + w <= j * w
    BY RowsApart
  <2> QED
    BY <1>1, <2>1
<1>3. ~(j < k)
  <2>1. j < k => j * w + w <= k * w
    BY RowsApart
  <2> QED
    BY <1>1, <2>1
<1> QED
  BY <1>2, <1>3

\* The row and the place of a cell are found again.
LEMMA CellIs ==
  ASSUME NEW w \in Nat, w > 0, NEW k \in Nat, NEW r \in 0..w - 1
  PROVE  (w * k + r) \div w = k /\ ((w * k + r) % w) = r
<1> DEFINE q == (w * k + r) \div w
           m == (w * k + r) % w
<1>1. w * k + r \in Nat
  OBVIOUS
<1>2. q \in Nat /\ m \in 0..w - 1 /\ w * k + r = w * q + m
  BY <1>1, DivMod
<1> HIDE DEF q, m
<1>3. q = k /\ m = r
  BY <1>2, OneCell
<1> QED
  BY <1>3 DEF q, m

\* The cells of L rows are counted from 1 to L * w ...
LEMMA InGrid ==
  ASSUME NEW w \in Nat, w > 0, NEW L \in Nat, NEW k \in Nat, k < L, NEW r \in 0..w - 1
  PROVE  w * k + r + 1 \in 1..L * w
<1>1. k * w + w <= L * w
  BY RowsApart
<1>2. w * k = k * w /\ k * w \in Nat /\ L * w \in Nat
  OBVIOUS
<1> QED
  BY <1>1, <1>2

\* ... and whatever is counted so is a cell.
LEMMA OfGrid ==
  ASSUME NEW w \in Nat, w > 0, NEW L \in Nat, NEW i \in 1..L * w
  PROVE  /\ (i - 1) \div w \in 0..L - 1 /\ ((i - 1) % w) \in 0..w - 1
         /\ i = w * ((i - 1) \div w) + ((i - 1) % w) + 1
<1> DEFINE q == (i - 1) \div w
           m == (i - 1) % w
<1>1. i - 1 \in Nat /\ L * w \in Nat /\ i <= L * w
  OBVIOUS
<1>2. q \in Nat /\ m \in 0..w - 1 /\ i - 1 = w * q + m
  BY <1>1, DivMod
<1> HIDE DEF q, m
<1>3. ~(L <= q)
  <2> SUFFICES ASSUME L <= q PROVE FALSE
    OBVIOUS
  <2>1. w * q = q * w /\ q * w \in Nat
    BY <1>2
  <2>2. L * w <= q * w
    <3>1. L < q => L * w + w <= q * w
      BY <1>2, RowsApart
    <3>2. L = q \/ L < q
      BY <1>2
    <3> QED
      BY <1>1, <2>1, <3>1, <3>2
  <2> QED
    BY <1>1, <1>2, <2>1, <2>2
<1>4. q \in 0..L - 1 /\ m \in 0..w - 1 /\ i = w * q + m + 1
  BY <1>2, <1>3
<1> QED
  BY <1>4 DEF q, m

\* saveDlcAccepts needs the offers, and then puts row after row: an accept, the outpoints of the
\* first inputs, and the temporary id, for want of which it may throw.
LEMMA BatchMade ==
  ASSUME NEW call \in Calls, Op(call) = "saveDlcAccepts"
  PROVE  WellMade(call, StepsOf(call))
<1> DEFINE s == StepsOf(call)
           batch == Of(call)
           L == Len(batch)
           outs == Contract[batch[1]].inputs
           n == Len(outs)
           overrun == n >= L
           filed == IF overrun THEN L ELSE n
           w == filed + 2
           Save(c, j) == CASE j = 0 -> Put(<<"accept", c>>, c)
                           [] j \in 1..filed -> Put(Outpoint(outs[j]), batch[j])
                           [] j = filed + 1 -> IF overrun THEN Do("throw", <<>>) ELSE Put(Temp(c), c)
           needs == [k \in DOMAIN batch |-> Do("need", Offer(batch[k]))]
           g == [i \in 1..L * w |-> Save(batch[(i - 1) \div w + 1], (i - 1) % w)]
           I(k, j) == L + (w * (k - 1) + j + 1)
           X == {needs[k] : k \in 1..L} \union {g[i] : i \in 1..L * w}
<1>1. /\ batch \in Seq(DOMAIN Contract) /\ L \in Nat /\ L > 0 /\ DOMAIN batch = 1..L
      /\ \A k \in 1..L : batch[k] \in DOMAIN Contract /\ Contract[batch[k]].inputs = outs
  BY CallIs
<1>2. outs \in Seq(ToSet(outs)) /\ n \in Nat /\ DOMAIN outs = 1..n
  <2>1. batch[1] \in DOMAIN Contract
    BY <1>1
  <2> QED
    BY <2>1, ContractAssumption
<1>3. filed \in Nat /\ filed <= n /\ filed <= L /\ w \in Nat /\ w > 0 /\ L * w \in Nat
  BY <1>1, <1>2
<1>4. s = needs \o g
  <2>1. s = SaveDlcAccepts(batch)
    BY StepsAre, Zenon
  <2> QED
    BY <2>1, Zenon DEF SaveDlcAccepts
<1>5. ASSUME NEW c \in ToSet(batch), ~Overrun(c)
      PROVE  ~overrun /\ filed = n /\ filed <= 1
  <2>1. PICK asked \in Workload : call \in asked
    BY DEF Calls
  <2>2. ~(Len(Contract[c].inputs) > 1 \/ Len(Contract[c].inputs) >= Len(Of(call)))
    BY <1>5, <2>1, Zenon DEF Overrun
  <2>3. Contract[c].inputs = outs
    BY <1>1, <1>5 DEF ToSet
  <2> QED
    BY <1>1, <1>2, <2>2, <2>3
<1>6. \A k \in 1..L : batch[k] \in ToSet(batch)
  BY <1>1 DEF ToSet
<1>7. \A j \in 1..filed : outs[j] \in ToSet(outs)
  <2> HIDE DEF filed
  <2>1. \A j \in 1..filed : j \in 1..n
    BY <1>2, <1>3
  <2> HIDE DEF outs
  <2> QED
    BY <1>2, <2>1 DEF ToSet
<1>8. \A k \in 1..L : StepOK(call, needs[k]) /\ needs[k].do = "need"
  BY <1>1 DEF StepOK, Do
<1>9. ASSUME NEW c \in ToSet(batch)
      PROVE  /\ Save(c, 0).do = "put" /\ Save(c, 0).key = <<"accept", c>> /\ StepOK(call, Save(c, 0))
             /\ <<"accept", c>>[1] = "accept" /\ <<"accept", c>>[2] = c
  <2> DEFINE r == <<"accept", c>>
             p == Put(r, c)
  <2>1. Save(c, 0) = p
    BY <1>3
  <2>2. r \in Records(call) /\ r[1] = "accept" /\ r[2] = c
    BY RecordsAre
  <2>3. p.do = "put" /\ p.key = r /\ p.value = c
    BY DEF Put
  <2> HIDE DEF Save, p, r
  <2>4. StepOK(call, p)
    BY <2>2, <2>3 DEF StepOK, StandsFor, Primary
  <2> QED
    BY <2>1, <2>2, <2>3, <2>4 DEF r
<1>10. ASSUME NEW c \in ToSet(batch), NEW j \in 1..filed
       PROVE  /\ Save(c, j).do = "put" /\ Save(c, j).key = Outpoint(outs[j])
              /\ Save(c, j).value = batch[j] /\ Save(c, j).key[1] = "outpoint" /\ StepOK(call, Save(c, j))
  <2> DEFINE key == Outpoint(outs[j])
             p == Put(key, batch[j])
  <2>1. Save(c, j) = p
    BY <1>3
  <2>2. batch[j] \in DOMAIN Contract /\ Spends(batch[j], outs[j])
    BY <1>1, <1>3, <1>7 DEF Spends
  <2>3. p.do = "put" /\ p.key = key /\ p.value = batch[j] /\ key[1] = "outpoint" /\ key[2] = outs[j]
    BY DEF Put, Outpoint
  <2> HIDE DEF outs, batch, Save, p, key
  <2>4. StepOK(call, p)
    BY <2>2, <2>3 DEF StepOK, StandsFor, Secondary
  <2> QED
    BY <2>1, <2>3, <2>4 DEF key
<1>11. ASSUME NEW c \in ToSet(batch)
       PROVE  /\ StepOK(call, Save(c, filed + 1))
              /\ overrun => Save(c, filed + 1).do = "throw"
              /\ ~overrun => /\ Save(c, filed + 1).do = "put" /\ Save(c, filed + 1).key = Temp(c)
                             /\ Save(c, filed + 1).value = c /\ Save(c, filed + 1).key[1] = "temp"
  <2>1. Save(c, filed + 1) = IF overrun THEN Do("throw", <<>>) ELSE Put(Temp(c), c)
    BY <1>3
  <2>2. c \in DOMAIN Contract
    BY <1>1 DEF ToSet
  <2> HIDE DEF Save, overrun
  <2>3. StepOK(call, Do("throw", <<>>)) /\ Do("throw", <<>>).do = "throw"
    BY DEF Do, StepOK
  <2>4. /\ StepOK(call, Put(Temp(c), c)) /\ Put(Temp(c), c).do = "put" /\ Put(Temp(c), c).key = Temp(c)
        /\ Put(Temp(c), c).value = c /\ Put(Temp(c), c).key[1] = "temp"
    BY <2>2 DEF Put, StepOK, StandsFor, Temp, Secondary
  <2> QED
    BY <2>1, <2>3, <2>4
<1> HIDE DEF Save, filed, overrun
<1>12. ASSUME NEW k \in 1..L, NEW j \in 0..w - 1
       PROVE  /\ I(k, j) \in L + 1..L + L * w
              /\ g[I(k, j) - L] = Save(batch[k], j)
  <2>1. k - 1 \in Nat /\ k - 1 < L
    BY <1>1
  <2> HIDE DEF w
  <2>2. w * (k - 1) + j + 1 \in 1..L * w
    BY <1>1, <1>3, <2>1, InGrid
  <2>3. (w * (k - 1) + j) \div w = k - 1 /\ ((w * (k - 1) + j) % w) = j
    BY <1>3, <2>1, CellIs
  <2> DEFINE m == w * (k - 1) + j
  <2>4. m \in Nat
    BY <1>3, <2>1
  <2> HIDE DEF m
  <2>5. m + 1 \in 1..L * w /\ m \div w = k - 1 /\ (m % w) = j /\ I(k, j) = L + (m + 1)
    BY <2>2, <2>3 DEF m
  <2>6. L + (m + 1) - L = m + 1 /\ (m + 1) - 1 = m /\ (k - 1) + 1 = k
    BY <1>1, <2>4
  <2>7. g[m + 1] = Save(batch[k], j)
    BY <2>5, <2>6
  <2> HIDE DEF g
  <2> QED
    <3>1. I(k, j) - L = m + 1
      BY <2>5, <2>6
    <3>2. I(k, j) \in L + 1..L + L * w
      BY <1>1, <1>3, <2>4, <2>5
    <3> QED
      BY <2>7, <3>1, <3>2
<1>13. ASSUME NEW i \in L + 1..L + L * w
       PROVE  \E k \in 1..L : \E j \in 0..w - 1 : i = I(k, j)
  <2> HIDE DEF w
  <2>1. i - L \in 1..L * w
    BY <1>1, <1>3
  <2> DEFINE m == i - L
             q == (m - 1) \div w
             e == (m - 1) % w
  <2>2. m \in 1..L * w /\ i = L + m
    BY <1>1, <1>3, <2>1
  <2> HIDE DEF m
  <2>3. q \in 0..L - 1 /\ e \in 0..w - 1 /\ m = w * q + e + 1
    BY <1>1, <1>3, <2>2, OfGrid
  <2> HIDE DEF q, e
  <2>4. q + 1 \in 1..L /\ (q + 1) - 1 = q
    BY <1>1, <2>3
  <2>5. i = I(q + 1, e)
    BY <2>2, <2>3, <2>4
  <2> HIDE DEF I
  <2> QED
    BY <2>3, <2>4, <2>5
<1> HIDE DEF w, I, needs, g, L, batch, outs, n
<1>14. /\ s \in Seq(X) /\ Len(s) = L + L * w
       /\ \A i \in 1..L : s[i] = needs[i]
       /\ \A i \in L + 1..L + L * w : s[i] = g[i - L]
  <2>1. needs \in Seq(X) /\ Len(needs) = L
    BY <1>1 DEF needs
  <2>2. g \in Seq(X) /\ Len(g) = L * w
    <3> DEFINE size == L * w
    <3>1. size \in Nat
      BY <1>3
    <3>2. \A i \in 1..size : g[i] \in X
      OBVIOUS
    <3> HIDE DEF X, size
    <3>3. g = [i \in 1..size |-> g[i]]
      BY Zenon DEF g, size
    <3> HIDE DEF g
    <3>4. g \in [1..size -> X]
      BY <3>2, <3>3
    <3>5. g \in Seq(X) /\ Len(g) = size
      BY <3>1, <3>4
    <3> QED
      BY <3>5 DEF size
  <2> HIDE DEF X, s, L, batch
  <2>3. /\ needs \o g \in Seq(X) /\ Len(needs \o g) = Len(needs) + Len(g)
        /\ \A i \in 1..Len(needs) + Len(g) :
             (needs \o g)[i] = IF i <= Len(needs) THEN needs[i] ELSE g[i - Len(needs)]
    BY <2>1, <2>2, ConcatProperties, Zenon
  <2>4. /\ s \in Seq(X) /\ Len(s) = L + L * w
        /\ \A i \in 1..L + L * w : s[i] = IF i <= L THEN needs[i] ELSE g[i - L]
    BY <1>4, <2>1, <2>2, <2>3
  <2>5. \A i \in 1..L : i \in 1..L + L * w /\ i <= L
    BY <1>1, <1>3
  <2>6. \A i \in L + 1..L + L * w : i \in 1..L + L * w /\ ~(i <= L)
    BY <1>1, <1>3
  <2> QED
    BY <2>4, <2>5, <2>6
<1> HIDE DEF s, X
<1>15. ASSUME NEW k \in 1..L, NEW j \in 0..w - 1
       PROVE  I(k, j) \in 1..Len(s) /\ I(k, j) > L /\ s[I(k, j)] = Save(batch[k], j)
  <2>1. I(k, j) \in L + 1..L + L * w
    BY <1>12
  <2>2. \A i \in L + 1..L + L * w : i \in 1..L + L * w /\ i > L
    BY <1>1, <1>3
  <2> QED
    BY <1>12, <1>14, <2>1, <2>2
<1>16. ASSUME NEW i \in 1..Len(s)
       PROVE  \/ i <= L /\ i \in 1..L /\ s[i] = needs[i]
              \/ \E k \in 1..L : \E j \in 0..w - 1 : i = I(k, j)
  <2>1. i \in 1..L \/ i \in L + 1..L + L * w
    BY <1>1, <1>3, <1>14
  <2> QED
    BY <1>1, <1>13, <1>14, <2>1
<1>17. w - 1 = filed + 1 /\ \A j \in 0..w - 1 : j = 0 \/ j \in 1..filed \/ j = filed + 1
  BY <1>3 DEF w
<1>18. ASSUME NEW k \in 1..L, NEW j \in 0..w - 1, NEW e \in 0..w - 1, j < e PROVE I(k, j) < I(k, e)
  BY <1>1, <1>3, <1>18 DEF I
<1>19. ASSUME NEW k \in 1..L, NEW j \in 1..w - 1 PROVE I(1, 0) < I(k, j) /\ 1 \in 1..L /\ 0 \in 0..w - 1
  <2>1. k - 1 \in Nat /\ 1 - 1 = 0
    BY <1>1
  <2>2. w * (k - 1) \in Nat /\ w * 0 = 0
    BY <1>3, <2>1
  <2> QED
    BY <1>1, <1>3, <2>1, <2>2 DEF I
<1>20. 0 \in 0..w - 1 /\ filed + 1 \in 0..w - 1 /\ \A j \in 1..filed : j \in 0..w - 1 /\ j \in 1..w - 1
  BY <1>3 DEF w
<1>21. ASSUME NEW i \in 1..Len(s) PROVE StepOK(call, s[i])
  <2>1. CASE i \in 1..L /\ s[i] = needs[i]
    BY <1>8, <2>1
  <2>2. CASE \E k \in 1..L : \E j \in 0..w - 1 : i = I(k, j)
    <3>1. PICK k \in 1..L, j \in 0..w - 1 : i = I(k, j)
      BY <2>2
    <3>2. s[i] = Save(batch[k], j)
      BY <1>15, <3>1
    <3> QED
      BY <1>6, <1>9, <1>10, <1>11, <1>17, <3>2
  <2> QED
    BY <1>16, <2>1, <2>2
<1>22. ASSUME NEW i \in 1..Len(s) PROVE BackedAt(s, i)
  <2> SUFFICES ASSUME s[i].do = "put", s[i].key[1] \in Secondary,
                      ~(s[i].key[1] = "outpoint" /\ Overrun(s[i].value))
               PROVE  \E r \in LedTo(s[i].key, s[i].value) : \E j \in 1..i - 1 : Puts(s, j, r)
    BY DEF BackedAt
  <2>1. PICK k \in 1..L, j \in 0..w - 1 : i = I(k, j)
    BY <1>8, <1>16
  <2>2. s[i] = Save(batch[k], j)
    BY <1>15, <2>1
  <2>3. j # 0
    BY <1>6, <1>9, <2>2 DEF Secondary
  <2>4. CASE j \in 1..filed
    <3>0. j \in 1..L /\ batch[k] \in ToSet(batch) /\ batch[j] \in ToSet(batch)
      <4>1. j \in 1..L
        BY <1>1, <1>3, <2>4
      <4> QED
        BY <1>6, <4>1
    <3>1. /\ s[i].value = batch[j] /\ s[i].key[1] = "outpoint" /\ batch[j] \in ToSet(batch)
          /\ ~Overrun(batch[j])
      <4> HIDE DEF Save
      <4>1. s[i].value = batch[j] /\ s[i].key[1] = "outpoint"
        BY <1>10, <2>2, <2>4, <3>0
      <4> QED
        BY <3>0, <4>1, Zenon
    <3>2. j = 1
      BY <1>3, <1>5, <2>4, <3>1
    <3>3. Puts(s, I(1, 0), <<"accept", batch[1]>>)
      BY <1>9, <1>15, <1>19, <2>4, <1>20, <3>1, <3>2 DEF Puts
    <3>4. I(1, 0) \in 1..i - 1
      <4>1. I(1, 0) < i /\ I(1, 0) \in 1..Len(s)
        BY <1>15, <1>19, <1>20, <2>1, <2>4
      <4> QED
        BY <4>1
    <3>5. <<"accept", batch[1]>> \in LedTo(s[i].key, s[i].value)
      BY <3>1, <3>2 DEF LedTo
    <3> QED
      BY <3>3, <3>4, <3>5
  <2>5. CASE j = filed + 1
    <3> DEFINE r == <<"accept", batch[k]>>
    <3>1. s[i].value = batch[k] /\ s[i].key[1] = "temp"
      BY <1>6, <1>11, <2>2, <2>5
    <3>2. Puts(s, I(k, 0), r)
      BY <1>6, <1>9, <1>15, <1>20 DEF Puts
    <3>3. I(k, 0) \in 1..i - 1
      <4>1. 0 < j
        BY <1>3, <2>5
      <4>2. I(k, 0) < i /\ I(k, 0) \in 1..Len(s)
        BY <1>15, <1>18, <1>20, <2>1, <4>1
      <4> QED
        BY <4>2
    <3>4. r \in LedTo(s[i].key, s[i].value)
      BY <3>1 DEF LedTo
    <3> QED
      BY <3>2, <3>3, <3>4
  <2> QED
    BY <1>17, <2>3, <2>4, <2>5
<1>23. ASSUME NEW i \in 1..Len(s) PROVE TrailedAt(s, i)
  <2> SUFFICES ASSUME NEW d, NEW q, Indexed(q, s[i].value, d), Puts(s, i, q)
               PROVE  /\ \A e \in i..Len(s) : s[e].do \notin {"need", "throw"}
                      /\ \A key \in KeysOf(q, d) : \E e \in i + 1..Len(s) : Puts(s, e, key)
    BY DEF TrailedAt
  <2>1. s[i].do = "put" /\ s[i].key = q /\ q[1] \in {"accept", "transactions", "channel"}
    BY DEF Indexed, Puts
  <2>2. PICK k \in 1..L, j \in 0..w - 1 : i = I(k, j)
    BY <1>8, <1>16, <2>1
  <2>3. s[i] = Save(batch[k], j) /\ i > L
    BY <1>15, <2>2
  <2>4. j = 0
    BY <1>6, <1>10, <1>11, <1>17, <2>1, <2>3
  <2>5. q = <<"accept", batch[k]>>
    BY <1>6, <1>9, <2>1, <2>3, <2>4
  <2>6. d = batch[k] /\ ~Overrun(d)
    BY <1>6, <1>9, <2>5 DEF Indexed
  <2>7. ~overrun /\ filed = n
    BY <1>5, <1>6, <2>6
  <2>8. ASSUME NEW e \in i..Len(s) PROVE s[e].do \notin {"need", "throw"}
    <3>1. e \in 1..Len(s) /\ ~(e <= L)
      BY <1>1, <2>3
    <3>2. PICK l \in 1..L, h \in 0..w - 1 : e = I(l, h)
      BY <1>16, <3>1
    <3>3. s[e] = Save(batch[l], h)
      BY <1>15, <3>2
    <3>4. s[e].do = "put"
      BY <1>6, <1>9, <1>10, <1>11, <1>17, <2>7, <3>3
    <3> QED
      BY <3>4
  <2>9. ASSUME NEW h \in 1..filed + 1 PROVE I(k, h) \in i + 1..Len(s) /\ s[I(k, h)] = Save(batch[k], h)
    <3>1. h \in 0..w - 1 /\ 0 < h
      BY <1>3, <1>17
    <3>2. i < I(k, h) /\ I(k, h) \in 1..Len(s) /\ s[I(k, h)] = Save(batch[k], h)
      BY <1>15, <1>18, <1>20, <2>2, <2>4, <3>1
    <3> QED
      BY <3>2
  <2>10. KeysOf(q, d) = {Temp(d)} \union {Outpoint(o) : o \in ToSet(outs)}
    <3>1. Contract[d].inputs = outs /\ q # <<"transactions", d>> /\ q # <<"channel", d>>
      BY <1>1, <2>5, <2>6
    <3> QED
      BY <3>1 DEF KeysOf
  <2>11. \E e \in i + 1..Len(s) : Puts(s, e, Temp(d))
    <3>1. filed + 1 \in 1..filed + 1
      BY <1>3
    <3>2. Puts(s, I(k, filed + 1), Temp(d)) /\ I(k, filed + 1) \in i + 1..Len(s)
      BY <1>6, <1>11, <2>6, <2>7, <2>9, <3>1 DEF Puts
    <3> QED
      BY <3>2
  <2>12. ASSUME NEW o \in ToSet(outs) PROVE \E e \in i + 1..Len(s) : Puts(s, e, Outpoint(o))
    <3>1. PICK h \in 1..filed : o = outs[h]
      BY <1>2, <2>7, <2>12 DEF ToSet
    <3>2. h \in 1..filed + 1
      BY <1>3
    <3>3. Puts(s, I(k, h), Outpoint(o)) /\ I(k, h) \in i + 1..Len(s)
      BY <1>6, <1>10, <2>9, <3>1, <3>2 DEF Puts
    <3> QED
      BY <3>3
  <2> QED
    BY <2>8, <2>10, <2>11, <2>12
<1> QED
  <2>1. s \in Seq(ToSet(s))
    BY <1>14, OfItsRange
  <2>2. Len(s) > 0
    BY <1>1, <1>3, <1>14
  <2> QED
    BY <1>21, <1>22, <1>23, <2>1, <2>2 DEF WellMade, s

\* Every call that is asked for is well made.
LEMMA CallsMade == \A call \in Calls : WellMade(call, StepsOf(call))
BY PlainCalls, ChannelMade, TransactionsMade, AcceptMade, BatchMade

(***************************************************************************)
(* What a step does to the tasks.                                          *)
(***************************************************************************)
Others(w) == \A v \in 1..2 : v # w => running'[v] = running[v]

\* the task comes to its next step, or is done
Moves(w) ==
  \/ Busy(w)' /\ running'[w].call = running[w].call /\ At(w)' = At(w) + 1 /\ At(w) < Len(Steps(w))
  \/ ~Busy(w)' /\ At(w) = Len(Steps(w))

\* A task in a call is at one of its steps.
LEMMA BusyIs ==
  ASSUME RunningOK, NEW w \in Tasks, Busy(w)
  PROVE  /\ w \in 1..2 /\ running[w].call \in Calls /\ WellMade(running[w].call, Steps(w))
         /\ At(w) \in 1..Len(Steps(w)) /\ Len(Steps(w)) \in Nat
         /\ Head(running[w].todo) = Steps(w)[At(w)]
         /\ StepOK(running[w].call, Steps(w)[At(w)])
<1>1. w \in 1..2 /\ running[w].todo \in Seq(AllSteps) /\ running[w].todo # <<>>
  BY DEF RunningOK, Tasks, Busy
<1>2. /\ running[w].call \in Calls /\ Len(running[w].todo) <= Len(Steps(w))
      /\ \A i \in 1..Len(running[w].todo) : running[w].todo[i] = Steps(w)[At(w) - 1 + i]
  BY <1>1 DEF RunningOK, InCall
<1>3. WellMade(running[w].call, Steps(w))
  BY <1>2, CallsMade DEF Steps
<1>4. Len(Steps(w)) \in Nat
  BY <1>3, LenProperties DEF WellMade
<1>5. Len(running[w].todo) \in Nat /\ Len(running[w].todo) > 0 /\ Head(running[w].todo) = running[w].todo[1]
  BY <1>1
<1>6. At(w) \in 1..Len(Steps(w)) /\ At(w) - 1 + 1 = At(w) /\ 1 \in 1..Len(running[w].todo)
  BY <1>2, <1>4, <1>5 DEF At
<1>7. Head(running[w].todo) = Steps(w)[At(w)]
  BY <1>2, <1>5, <1>6
<1> QED
  BY <1>1, <1>2, <1>3, <1>4, <1>6, <1>7 DEF WellMade

TaskSet == [call : Calls \union {<<>>}, todo : Seq(AllSteps), seen : SUBSET DOMAIN Channel]

\* A task that does nothing stays where it is.
LEMMA SameInCall ==
  ASSUME RunningOK, NEW v \in 1..2, running'[v] = running[v]
  PROVE  InCall(v)'
<1>1. InCall(v)
  BY DEF RunningOK
<1> QED
  BY <1>1 DEF InCall, Busy, At, Steps

\* A task whose first step is taken off goes on to the next, or is done.
LEMMA TailMoves ==
  ASSUME RunningOK, NEW w \in Tasks, Busy(w), UNCHANGED calls,
         NEW t \in TaskSet, running' = [running EXCEPT ![w] = t],
         \/ Len(running[w].todo) = 1 /\ t.todo = <<>>
         \/ t.call = running[w].call /\ t.todo = Tail(running[w].todo)
  PROVE  RunningOK' /\ Moves(w) /\ Others(w) /\ running'[w] = t
<1> DEFINE todo == running[w].todo
           S == Steps(w)
<1>1. w \in 1..2 /\ At(w) \in 1..Len(S) /\ Len(S) \in Nat /\ running[w].call \in Calls
  BY BusyIs
<1>2. running \in [1..2 -> TaskSet] /\ todo \in Seq(AllSteps) /\ todo # <<>>
  BY <1>1 DEF RunningOK, TaskSet, Busy
<1>3. running' \in [1..2 -> TaskSet] /\ running'[w] = t /\ Others(w)
  BY <1>1, <1>2 DEF Others
<1>4. /\ Len(todo) \in Nat /\ Len(todo) > 0
      /\ Len(Tail(todo)) = Len(todo) - 1 /\ \A i \in 1..Len(todo) - 1 : Tail(todo)[i] = todo[i + 1]
      /\ Tail(todo) = <<>> <=> Len(todo) = 1
  <2> HIDE DEF todo
  <2>1. /\ Len(todo) \in Nat /\ Len(todo) > 0 /\ Tail(todo) \in Seq(AllSteps)
        /\ Len(Tail(todo)) = Len(todo) - 1 /\ \A i \in 1..Len(Tail(todo)) : Tail(todo)[i] = todo[i + 1]
    BY <1>2, HeadTailProperties
  <2>2. Tail(todo) = <<>> <=> Len(Tail(todo)) = 0
    <3>1. \A q \in Seq(AllSteps) : q = <<>> <=> Len(q) = 0
      BY EmptySeq
    <3> QED
      BY <2>1, <3>1, Zenon
  <2> QED
    BY <2>1, <2>2
<1>5. /\ Len(todo) <= Len(S) /\ At(w) = Len(S) - Len(todo) + 1
      /\ \A i \in 1..Len(todo) : todo[i] = S[At(w) - 1 + i]
  BY <1>1 DEF RunningOK, InCall, At
<1> HIDE DEF todo
<1>6. CASE Len(todo) = 1 /\ t.todo = <<>>
  <2>1. ~Busy(w)' /\ At(w) = Len(S)
    BY <1>1, <1>3, <1>5, <1>6 DEF Busy
  <2>2. \A v \in 1..2 : InCall(v)'
    BY <1>3, <2>1, SameInCall DEF Others, InCall
  <2>3. RunningOK'
    BY <1>3, <2>2 DEF RunningOK, TaskSet
  <2> QED
    BY <1>3, <2>1, <2>3 DEF Moves
<1>7. CASE Len(todo) # 1 /\ t.call = running[w].call /\ t.todo = Tail(todo)
  <2>1. /\ Busy(w)' /\ Len(running'[w].todo) = Len(todo) - 1 /\ running'[w].call = running[w].call
        /\ Steps(w)' = S
    BY <1>3, <1>4, <1>7 DEF Busy, Steps
  <2>2. At(w)' = At(w) + 1 /\ At(w) < Len(S)
    <3>1. At(w)' = Len(S) - (Len(todo) - 1) + 1
      BY <2>1 DEF At
    <3>2. Len(todo) > 1
      BY <1>4, <1>7
    <3> QED
      BY <1>1, <1>4, <1>5, <3>1, <3>2
  <2>3. \A i \in 1..Len(running'[w].todo) : running'[w].todo[i] = S[At(w)' - 1 + i]
    <3> SUFFICES ASSUME NEW i \in 1..Len(todo) - 1 PROVE running'[w].todo[i] = S[At(w)' - 1 + i]
      BY <2>1
    <3>1. running'[w].todo[i] = todo[i + 1] /\ i + 1 \in 1..Len(todo)
      BY <1>3, <1>4, <1>7
    <3>2. At(w) - 1 + (i + 1) = At(w)' - 1 + i
      BY <1>1, <2>2
    <3> QED
      BY <1>5, <3>1, <3>2
  <2>4. Len(running'[w].todo) <= Len(S)
    BY <1>1, <1>4, <1>5, <2>1
  <2>5. InCall(w)'
    BY <1>1, <2>1, <2>3, <2>4 DEF InCall
  <2>6. RunningOK'
    <3>1. \A v \in 1..2 : InCall(v)'
      BY <1>3, <2>5, SameInCall DEF Others
    <3>2. calls' \subseteq Calls
      BY DEF RunningOK
    <3> QED
      BY <1>3, <3>1, <3>2 DEF RunningOK, TaskSet
  <2> QED
    BY <1>3, <2>1, <2>2, <2>6 DEF Moves
<1> QED
  BY <1>4, <1>6, <1>7 DEF todo

\* Goes, when it may go on.
LEMMA GoesOn ==
  ASSUME RunningOK, NEW w \in Tasks, Busy(w), UNCHANGED calls, Goes(w, TRUE)
  PROVE  /\ RunningOK' /\ Moves(w) /\ Others(w)
         /\ Busy(w)' => running'[w].seen = running[w].seen
<1> DEFINE todo == running[w].todo
           t == IF Len(todo) > 1 THEN [running[w] EXCEPT !.todo = Tail(todo)] ELSE Idle
<1>1. running[w] \in TaskSet /\ running[w].call \in Calls /\ todo \in Seq(AllSteps) /\ todo # <<>>
  BY BusyIs DEF RunningOK, TaskSet, Tasks, Busy
<1>2. running' = [running EXCEPT ![w] = t]
  <2>1. running' = [running EXCEPT ![w] = IF TRUE /\ Len(todo) > 1 THEN [running[w] EXCEPT !.todo = Tail(todo)]
                                          ELSE Idle]
    BY Zenon DEF Goes
  <2>2. CASE Len(todo) > 1
    BY <2>1, <2>2
  <2>3. CASE ~(Len(todo) > 1)
    BY <2>1, <2>3
  <2> QED
    BY <2>2, <2>3
<1>3. Tail(todo) \in Seq(AllSteps) /\ Len(todo) \in Nat /\ Len(todo) > 0
  BY <1>1
<1>4. CASE Len(todo) > 1
  <2>1. /\ t \in TaskSet /\ t.call = running[w].call /\ t.todo = Tail(todo) /\ t.seen = running[w].seen
    BY <1>1, <1>3, <1>4 DEF TaskSet
  <2> HIDE DEF t
  <2> QED
    BY <1>2, <2>1, TailMoves
<1>5. CASE ~(Len(todo) > 1)
  <2>0. Idle \in TaskSet /\ Idle.todo = <<>>
    BY DEF Idle, TaskSet
  <2>1. t \in TaskSet /\ t.todo = <<>> /\ Len(todo) = 1
    <3>1. t = Idle
      BY <1>5, Zenon
    <3>2. \A n \in Nat : n > 0 /\ ~(n > 1) => n = 1
      OBVIOUS
    <3>3. Len(todo) = 1
      BY <1>3, <1>5, <3>2, Zenon
    <3> HIDE DEF t
    <3> QED
      BY <2>0, <3>1, <3>3, Zenon
  <2> HIDE DEF t
  <2> QED
    BY <1>2, <2>1, TailMoves DEF Busy
<1> QED
  BY <1>4, <1>5

\* Goes, when it may not.
LEMMA Stops ==
  ASSUME RunningOK, NEW w \in Tasks, UNCHANGED calls, Goes(w, FALSE)
  PROVE  RunningOK' /\ ~Busy(w)' /\ Others(w)
<1>1. running' = [running EXCEPT ![w] = Idle]
  BY DEF Goes
<1>2. Idle \in TaskSet /\ Idle.todo = <<>>
  BY DEF Idle, TaskSet
<1>3. w \in 1..2 /\ running \in [1..2 -> TaskSet]
  BY DEF RunningOK, TaskSet, Tasks
<1>4. running' \in [1..2 -> TaskSet] /\ running'[w] = Idle /\ Others(w)
  BY <1>1, <1>2, <1>3 DEF Others
<1>5. ~Busy(w)'
  BY <1>2, <1>4 DEF Busy
<1>6. \A v \in 1..2 : InCall(v)'
  BY <1>4, <1>5, SameInCall DEF Others, InCall
<1>7. RunningOK'
  BY <1>4, <1>6 DEF RunningOK, TaskSet
<1> QED
  BY <1>4, <1>5, <1>7

\* The list of a node names channels.
LEMMA ListIs ==
  ASSUME ListsOK, NEW n
  PROVE  List(n) \subseteq DOMAIN Channel
BY DEF ListsOK, List, Links

\* A step that reads the list of a node keeps what it read.
LEMMA Reads ==
  ASSUME RunningOK, ListsOK, NEW w \in Tasks, ReadStep(w)
  PROVE  /\ RunningOK' /\ Moves(w) /\ Others(w)
         /\ running'[w].seen = List(Key(w)[2])
<1> DEFINE todo == running[w].todo
           t == [running[w] EXCEPT !.todo = Tail(todo), !.seen = List(Key(w)[2])]
<1>1. Busy(w)
  BY DEF ReadStep, Todo
<1>2. running[w] \in TaskSet /\ running[w].call \in Calls /\ todo \in Seq(AllSteps) /\ todo # <<>>
  BY <1>1, BusyIs DEF RunningOK, TaskSet, Tasks, Busy
<1>3. running' = [running EXCEPT ![w] = t]
  BY <1>2 DEF ReadStep, TaskSet
<1>4. Tail(todo) \in Seq(AllSteps) /\ List(Key(w)[2]) \subseteq DOMAIN Channel
  BY <1>2, ListIs
<1>5. t \in TaskSet /\ t.call = running[w].call /\ t.todo = Tail(todo) /\ t.seen = List(Key(w)[2])
  BY <1>2, <1>4 DEF TaskSet
<1>6. UNCHANGED calls
  BY DEF ReadStep
<1> HIDE DEF t
<1> QED
  BY <1>1, <1>3, <1>5, <1>6, TailMoves

\* A call begins at its first step.
LEMMA BeginsOK ==
  ASSUME RunningOK, NEW w \in Tasks, NEW call \in calls, Begin(w, call)
  PROVE  /\ RunningOK' /\ Others(w) /\ Busy(w)' /\ At(w)' = 1 /\ ~Busy(w)
         /\ running'[w].call = call /\ call \in Calls
<1> DEFINE t == [call |-> call, todo |-> StepsOf(call), seen |-> {}]
<1>1. call \in Calls /\ w \in 1..2 /\ running \in [1..2 -> TaskSet]
  BY DEF RunningOK, TaskSet, Tasks
<1>2. WellMade(call, StepsOf(call))
  BY <1>1, CallsMade
<1>3. /\ StepsOf(call) \in Seq(ToSet(StepsOf(call))) /\ ToSet(StepsOf(call)) \subseteq AllSteps
      /\ Len(StepsOf(call)) \in Nat /\ Len(StepsOf(call)) > 0
  BY <1>1, <1>2, LenProperties DEF WellMade, AllSteps
<1>4. StepsOf(call) \in Seq(AllSteps) /\ StepsOf(call) # <<>>
  BY <1>3
<1>5. t \in TaskSet /\ t.call = call /\ t.todo = StepsOf(call)
  BY <1>1, <1>4 DEF TaskSet
<1>6. running' = [running EXCEPT ![w] = t] /\ ~Busy(w) /\ calls' = calls \ {call}
  BY DEF Begin
<1> HIDE DEF t
<1>7. running' \in [1..2 -> TaskSet] /\ running'[w] = t /\ Others(w)
  BY <1>1, <1>5, <1>6 DEF Others
<1>8. Busy(w)' /\ Steps(w)' = StepsOf(call) /\ At(w)' = 1
  BY <1>3, <1>4, <1>5, <1>7 DEF Busy, Steps, At
<1>9. \A i \in 1..Len(StepsOf(call)) : 1 - 1 + i = i
  BY <1>3
<1>11. RunningOK'
  <2>1. /\ running'[w].call \in Calls /\ Len(running'[w].todo) <= Len(Steps(w)')
        /\ \A i \in 1..Len(running'[w].todo) : running'[w].todo[i] = Steps(w)'[At(w)' - 1 + i]
    BY <1>1, <1>3, <1>5, <1>7, <1>8, <1>9
  <2>2. \A v \in 1..2 : InCall(v)'
    BY <1>7, <2>1, SameInCall DEF Others, InCall
  <2>3. calls' \subseteq Calls
    BY <1>6 DEF RunningOK
  <2> QED
    BY <1>7, <2>2, <2>3 DEF RunningOK, TaskSet
<1> QED
  BY <1>1, <1>5, <1>6, <1>7, <1>8, <1>11

\* A crash leaves the tasks idle.
LEMMA CrashOK ==
  ASSUME RunningOK, Crash
  PROVE  RunningOK' /\ \A w \in 1..2 : ~Busy(w)'
<1>1. running' = [w \in 1..2 |-> Idle]
  BY DEF Crash, RunningOK, Tasks
<1>2. Idle \in TaskSet /\ Idle.todo = <<>>
  BY DEF Idle, TaskSet
<1>3. \A w \in 1..2 : ~Busy(w)'
  BY <1>1, <1>2 DEF Busy
<1>4. calls' \subseteq Calls
  BY DEF Crash, RunningOK, InCall, Tasks
<1> QED
  BY <1>1, <1>2, <1>3, <1>4 DEF RunningOK, InCall, TaskSet

(***************************************************************************)
(* The steps, as far as the records of contracts and their keys go.        *)
(***************************************************************************)
Next1(w) == Steps(w)[At(w)]  \* the step a task is at
SameRecords ==
  /\ \A key : key[1] # "links" =>
       /\ key \in DOMAIN db' <=> key \in DOMAIN db
       /\ key \in DOMAIN db => db'[key] = db[key]
  /\ UNCHANGED <<gone, torn>>

BeginsAt(w) == ~Busy(w) /\ Busy(w)' /\ At(w)' = 1 /\ Others(w) /\ SameRecords
QuietAt(w) == Busy(w) /\ Moves(w) /\ Others(w) /\ Next1(w).do \notin {"put", "del"} /\ SameRecords
HaltsAt(w) == Busy(w) /\ ~Busy(w)' /\ Others(w) /\ Next1(w).do \in {"need", "throw"} /\ SameRecords
PutsAt(w) == /\ Busy(w) /\ Moves(w) /\ Others(w) /\ Next1(w).do = "put"
             /\ DOMAIN db' = DOMAIN db \union {Next1(w).key} /\ db'[Next1(w).key] = Next1(w).value
             /\ \A key \in DOMAIN db : key # Next1(w).key => db'[key] = db[key]
             /\ gone' = gone \ {Next1(w).key} /\ torn' = torn \ {Next1(w).key}
DelsAt(w) == /\ Busy(w) /\ Moves(w) /\ Others(w) /\ Next1(w).do = "del"
             /\ DOMAIN db' = DOMAIN db \ {Next1(w).key}
             /\ \A key \in DOMAIN db' : db'[key] = db[key]
             /\ gone' = gone \union {Next1(w).key} /\ torn' = torn
Crashed == /\ \A w \in 1..2 : ~Busy(w)'
           /\ \A w \in 1..2 : Busy(w) => Records(running[w].call) \subseteq torn'
           /\ torn \subseteq torn' /\ UNCHANGED <<db, gone>>
RecordStep ==
  Crashed \/ \E w \in 1..2 : BeginsAt(w) \/ QuietAt(w) \/ HaltsAt(w) \/ PutsAt(w) \/ DelsAt(w)

\* What a task is about to do is a step of its call.
LEMMA TodoIs ==
  ASSUME RunningOK, NEW w \in Tasks, NEW do, Todo(w, do)
  PROVE  /\ Busy(w) /\ w \in 1..2 /\ Next1(w).do = do /\ Key(w) = Next1(w).key
         /\ Head(running[w].todo) = Next1(w) /\ StepOK(running[w].call, Next1(w))
<1>1. Busy(w) /\ Head(running[w].todo).do = do
  BY DEF Todo
<1> QED
  BY <1>1, BusyIs DEF Key, Next1

\* A step that puts, in terms of the key and the value.
LEMMA PutsAtIs ==
  ASSUME RunningOK, NEW w \in Tasks, PutStep(w)
  PROVE  RunningOK' /\ PutsAt(w) /\ (Busy(w)' => running'[w].seen = running[w].seen)
<1>1. Todo(w, "put") /\ Goes(w, TRUE) /\ UNCHANGED calls
  BY DEF PutStep
<1>2. Busy(w) /\ Next1(w).do = "put" /\ Key(w) = Next1(w).key /\ Head(running[w].todo) = Next1(w)
  BY <1>1, TodoIs
<1>3. /\ RunningOK' /\ Moves(w) /\ Others(w)
      /\ Busy(w)' => running'[w].seen = running[w].seen
  BY <1>1, <1>2, GoesOn
<1>4. /\ db' = With(Next1(w).key, Next1(w).value)
      /\ gone' = gone \ {Next1(w).key} /\ torn' = torn \ {Next1(w).key}
  BY <1>2 DEF PutStep
<1> DEFINE key == Next1(w).key
           value == Next1(w).value
<1>5. db' = With(key, value)
  BY <1>4
<1> HIDE DEF key, value
<1>6. /\ DOMAIN db' = DOMAIN db \union {key} /\ db'[key] = value
      /\ \A k \in DOMAIN db : k # key => db'[k] = db[k]
  BY <1>5 DEF With
<1> QED
  BY <1>2, <1>3, <1>4, <1>6 DEF PutsAt, key, value

\* A step that deletes, in terms of the key.
LEMMA DelsAtIs ==
  ASSUME RunningOK, NEW w \in Tasks, DelStep(w)
  PROVE  RunningOK' /\ DelsAt(w) /\ (Busy(w)' => running'[w].seen = running[w].seen)
<1>1. Todo(w, "del") /\ Goes(w, TRUE) /\ UNCHANGED calls
  BY DEF DelStep
<1>2. Busy(w) /\ Next1(w).do = "del" /\ Key(w) = Next1(w).key
  BY <1>1, TodoIs
<1>3. /\ RunningOK' /\ Moves(w) /\ Others(w)
      /\ Busy(w)' => running'[w].seen = running[w].seen
  BY <1>1, <1>2, GoesOn
<1> DEFINE key == Next1(w).key
<1>4. /\ db' = Without(key) /\ gone' = gone \union {key} /\ torn' = torn
  BY <1>2 DEF DelStep
<1> HIDE DEF key
<1>5. DOMAIN db' = DOMAIN db \ {key} /\ \A k \in DOMAIN db' : db'[k] = db[k]
  BY <1>4 DEF Without
<1> QED
  BY <1>2, <1>3, <1>4, <1>5 DEF DelsAt, key

\* the list of a node is put
PutsList(w, n, list) ==
  /\ DOMAIN db' = DOMAIN db \union {Links(n)} /\ db'[Links(n)] = list
  /\ \A key \in DOMAIN db : key # Links(n) => db'[key] = db[key]
  /\ astray' = astray \union {<<n, x>> : x \in (List(n) \ running[w].seen) \union (running[w].seen \ List(n))}

\* _putNodeChannels, in terms of the list.
LEMMA PutListIs ==
  ASSUME NEW w, NEW n, NEW list, PutList(w, n, list) PROVE PutsList(w, n, list)
<1> DEFINE key == Links(n)
<1>1. db' = With(key, list)
  BY DEF PutList
<1> HIDE DEF key
<1>2. /\ DOMAIN db' = DOMAIN db \union {key} /\ db'[key] = list
      /\ \A k \in DOMAIN db : k # key => db'[k] = db[k]
  BY <1>1 DEF With
<1> QED
  BY <1>2 DEF PutList, PutsList, key

\* a list step writes a list, or nothing
ListStep(w) ==
  LET ch == Of(running[w].call)
      n == Key(w)[2]
      seen == running[w].seen
  IN  \/ UNCHANGED <<db, astray>> /\ (Next1(w).do = "link" <=> ch \in seen)
      \/ Next1(w).do = "link" /\ ch \notin seen /\ PutsList(w, n, seen \union {ch})
      \/ Next1(w).do = "unlink" /\ ch \in seen /\ PutsList(w, n, seen \ {ch})

\* A step of _saveNodeChannel or _deleteNodeChannel writes a list and no record.
LEMMA ListStepIs ==
  ASSUME RunningOK, NEW w \in Tasks, LinkStep(w) \/ UnlinkStep(w)
  PROVE  /\ RunningOK' /\ QuietAt(w) /\ Next1(w).do \in {"link", "unlink"} /\ ListStep(w)
         /\ Busy(w)' => running'[w].seen = running[w].seen
<1>1. /\ Todo(w, "link") \/ Todo(w, "unlink")
      /\ Goes(w, TRUE) /\ UNCHANGED <<calls, gone, torn>>
  BY DEF LinkStep, UnlinkStep
<1>2. Busy(w) /\ Next1(w).do \in {"link", "unlink"} /\ Key(w) = Next1(w).key
  BY <1>1, TodoIs
<1>3. /\ RunningOK' /\ Moves(w) /\ Others(w)
      /\ Busy(w)' => running'[w].seen = running[w].seen
  BY <1>1, <1>2, GoesOn
<1>4. ListStep(w)
  <2>1. CASE LinkStep(w)
    <3>1. Next1(w).do = "link"
      BY <2>1, TodoIs DEF LinkStep
    <3>2. IF Of(running[w].call) \in running[w].seen THEN UNCHANGED <<db, astray>>
          ELSE PutList(w, Key(w)[2], running[w].seen \union {Of(running[w].call)})
      BY <2>1, Zenon DEF LinkStep
    <3> QED
      BY <3>1, <3>2, PutListIs DEF ListStep
  <2>2. CASE UnlinkStep(w)
    <3>1. Next1(w).do = "unlink"
      BY <2>2, TodoIs DEF UnlinkStep
    <3>2. IF Of(running[w].call) \in running[w].seen
          THEN PutList(w, Key(w)[2], running[w].seen \ {Of(running[w].call)})
          ELSE UNCHANGED <<db, astray>>
      BY <2>2, Zenon DEF UnlinkStep
    <3> QED
      BY <3>1, <3>2, PutListIs DEF ListStep
  <2> QED
    BY <2>1, <2>2
<1>5. SameRecords
  <2>1. ASSUME NEW n, NEW list, PutsList(w, n, list) PROVE SameRecords
    BY <1>1, <2>1 DEF PutsList, SameRecords, Links
  <2>2. ASSUME UNCHANGED db PROVE SameRecords
    BY <1>1, <2>2 DEF SameRecords
  <2> QED
    BY <1>4, <2>1, <2>2 DEF ListStep
<1> QED
  BY <1>2, <1>3, <1>4, <1>5 DEF QuietAt

\* Every step is one of these.
LEMMA RecordSteps ==
  ASSUME RunningOK, ListsOK, Next
  PROVE  RunningOK' /\ RecordStep
<1>0. Tasks = 1..2
  BY DEF Tasks, RunningOK
<1>1. ASSUME Crash PROVE RunningOK' /\ Crashed
  <2>1. RunningOK' /\ \A w \in 1..2 : ~Busy(w)'
    BY <1>1, CrashOK
  <2>2. torn' = torn \union UNION {Records(call) : call \in {running[w].call : w \in {w \in Tasks : Busy(w)}}}
    BY <1>1, Zenon DEF Crash
  <2>3. UNCHANGED <<db, gone>>
    BY <1>1 DEF Crash
  <2> QED
    BY <1>0, <2>1, <2>2, <2>3 DEF Crashed
<1>2. ASSUME NEW w \in Tasks, NEW call \in calls, Begin(w, call) PROVE RunningOK' /\ BeginsAt(w)
  <2>1. SameRecords
    BY <1>2 DEF Begin, SameRecords
  <2> QED
    BY <1>2, <2>1, BeginsOK DEF BeginsAt
<1>3. ASSUME NEW w \in Tasks, Need(w) \/ Throw(w) PROVE RunningOK' /\ (QuietAt(w) \/ HaltsAt(w))
  <2>1. SameRecords /\ UNCHANGED calls /\ (Todo(w, "need") \/ Todo(w, "throw"))
    BY <1>3 DEF Need, Throw, SameRecords
  <2>2. Busy(w) /\ Next1(w).do \in {"need", "throw"}
    BY <2>1, TodoIs
  <2>3. Goes(w, TRUE) \/ Goes(w, FALSE)
    <3>1. CASE Need(w)
      <4>1. Key(w) \in DOMAIN db => Goes(w, TRUE)
        BY <3>1 DEF Need, Goes
      <4>2. Key(w) \notin DOMAIN db => Goes(w, FALSE)
        BY <3>1 DEF Need, Goes
      <4> QED
        BY <4>1, <4>2
    <3> QED
      BY <1>3, <3>1 DEF Throw
  <2> QED
    BY <2>1, <2>2, <2>3, GoesOn, Stops DEF QuietAt, HaltsAt
<1>4. ASSUME NEW w \in Tasks, ReadStep(w) PROVE RunningOK' /\ QuietAt(w)
  <2>1. SameRecords /\ Todo(w, "read")
    BY <1>4 DEF ReadStep, SameRecords
  <2> QED
    BY <1>4, <2>1, Reads, TodoIs DEF QuietAt
<1> QED
  BY <1>0, <1>1, <1>2, <1>3, <1>4, PutsAtIs, DelsAtIs, ListStepIs DEF Next, Step, RecordStep
(***************************************************************************)
(* The contracts.                                                          *)
(***************************************************************************)
LEMMA KnownStays ==
  ASSUME RecordStep, NEW r, r[1] # "links", Known(r)
  PROVE  Known(r)'
<1>1. ASSUME SameRecords PROVE Known(r)'
  <2>1. r \in DOMAIN db' <=> r \in DOMAIN db
    BY <1>1, Zenon DEF SameRecords
  <2>2. gone' = gone
    BY <1>1 DEF SameRecords
  <2> QED
    BY <2>1, <2>2 DEF Known, Saved
<1>2. ASSUME NEW w, PutsAt(w) PROVE Known(r)'
  BY <1>2 DEF PutsAt, Known, Saved
<1>3. ASSUME NEW w, DelsAt(w) PROVE Known(r)'
  BY <1>3 DEF DelsAt, Known, Saved
<1>4. ASSUME Crashed PROVE Known(r)'
  BY <1>4 DEF Crashed, Known, Saved
<1> QED
  BY <1>1, <1>2, <1>3, <1>4 DEF RecordStep, BeginsAt, QuietAt, HaltsAt

\* What a task in a call did in a step: nothing, or it began, or it went on.
LEMMA TaskStep ==
  ASSUME RunningOK, RecordStep, NEW v \in 1..2, Busy(v)'
  PROVE  \/ Busy(v) /\ running'[v] = running[v] /\ Steps(v)' = Steps(v) /\ At(v)' = At(v)
         \/ ~Busy(v) /\ At(v)' = 1
         \/ /\ Busy(v) /\ running'[v].call = running[v].call /\ Steps(v)' = Steps(v) /\ At(v)' = At(v) + 1
            /\ QuietAt(v) \/ PutsAt(v) \/ DelsAt(v)
<1>1. ASSUME running'[v] = running[v] PROVE Busy(v) /\ Steps(v)' = Steps(v) /\ At(v)' = At(v)
  BY <1>1 DEF Busy, Steps, At
<1>2. ASSUME NEW w \in 1..2, w # v, Others(w) PROVE running'[v] = running[v]
  BY <1>2 DEF Others
<1>3. ASSUME BeginsAt(v) PROVE ~Busy(v) /\ At(v)' = 1
  BY <1>3 DEF BeginsAt
<1>4. ASSUME QuietAt(v) \/ PutsAt(v) \/ DelsAt(v)
      PROVE  Busy(v) /\ running'[v].call = running[v].call /\ Steps(v)' = Steps(v) /\ At(v)' = At(v) + 1
  BY <1>4 DEF QuietAt, PutsAt, DelsAt, Moves, Steps
<1>5. ~Crashed /\ ~HaltsAt(v)
  BY DEF Crashed, HaltsAt
<1>6. \A w : BeginsAt(w) \/ QuietAt(w) \/ HaltsAt(w) \/ PutsAt(w) \/ DelsAt(w) => Others(w)
  BY DEF BeginsAt, QuietAt, HaltsAt, PutsAt, DelsAt
<1>7. PICK w \in 1..2 : BeginsAt(w) \/ QuietAt(w) \/ HaltsAt(w) \/ PutsAt(w) \/ DelsAt(w)
  BY <1>5 DEF RecordStep
<1>8. CASE w = v
  BY <1>3, <1>4, <1>5, <1>7, <1>8, Zenon
<1>9. CASE w # v
  BY <1>1, <1>2, <1>6, <1>7, <1>9, Zenon
<1> QED
  BY <1>8, <1>9

\* No call puts a list but by a list step.
LEMMA PutKeyIs ==
  ASSUME RunningOK, NEW w \in 1..2, Busy(w), NEW j \in 1..Len(Steps(w)), NEW r, Puts(Steps(w), j, r)
  PROVE  r[1] \in Primary \union Secondary
<1>1. StepOK(running[w].call, Steps(w)[j])
  BY BusyIs DEF WellMade, Tasks, RunningOK
<1> QED
  BY <1>1 DEF StepOK, Puts

\* PutsKnown is kept.
LEMMA PutsKnownOK ==
  ASSUME RunningOK, RecordStep, PutsKnown
  PROVE  PutsKnown'
<1> SUFFICES ASSUME NEW v \in 1..2, Busy(v)', NEW j \in 1..At(v)' - 1, NEW r, Puts(Steps(v)', j, r)
             PROVE  Known(r)'
  BY DEF PutsKnown
<1>1. Busy(v) => At(v) \in 1..Len(Steps(v)) /\ Len(Steps(v)) \in Nat
  BY BusyIs DEF Tasks, RunningOK
<1>2. ASSUME Busy(v), Steps(v)' = Steps(v), j \in 1..At(v) - 1 PROVE Known(r)'
  <2>1. Known(r)
    BY <1>2 DEF PutsKnown
  <2>2. r[1] # "links"
    BY <1>1, <1>2, PutKeyIs DEF Primary, Secondary
  <2> QED
    BY <2>1, <2>2, KnownStays
<1>3. ASSUME Busy(v), Steps(v)' = Steps(v), At(v)' = At(v) + 1, QuietAt(v) \/ PutsAt(v) \/ DelsAt(v)
      PROVE  Known(r)'
  <2>1. CASE j = At(v)
    <3>1. Next1(v).do = "put" /\ Next1(v).key = r
      BY <1>3, <2>1 DEF Puts, Next1
    <3>2. PutsAt(v)
      BY <1>3, <3>1 DEF QuietAt, DelsAt
    <3> QED
      BY <3>1, <3>2 DEF PutsAt, Known, Saved
  <2>2. CASE j # At(v)
    BY <1>1, <1>2, <1>3, <2>2
  <2> QED
    BY <2>1, <2>2
<1>4. ~(~Busy(v) /\ At(v)' = 1)
  OBVIOUS
<1> QED
  BY <1>2, <1>3, <1>4, TaskStep

\* What is under a key after a step was there before, or is what the step put.
LEMMA ValueIs ==
  ASSUME RecordStep, NEW key, key \in DOMAIN db', key[1] # "links"
  PROVE  \/ key \in DOMAIN db /\ db'[key] = db[key]
         \/ \E w \in 1..2 : PutsAt(w) /\ Next1(w).key = key /\ db'[key] = Next1(w).value
<1>1. ASSUME SameRecords PROVE key \in DOMAIN db /\ db'[key] = db[key]
  BY <1>1, Zenon DEF SameRecords
<1>2. ASSUME NEW w \in 1..2, PutsAt(w)
      PROVE  \/ key \in DOMAIN db /\ db'[key] = db[key]
             \/ Next1(w).key = key /\ db'[key] = Next1(w).value
  <2>1. key = Next1(w).key \/ key \in DOMAIN db
    BY <1>2 DEF PutsAt
  <2>2. db'[Next1(w).key] = Next1(w).value /\ \A k \in DOMAIN db : k # Next1(w).key => db'[k] = db[k]
    BY <1>2 DEF PutsAt
  <2> QED
    BY <2>1, <2>2
<1>3. ASSUME NEW w, DelsAt(w) PROVE key \in DOMAIN db /\ db'[key] = db[key]
  BY <1>3 DEF DelsAt
<1>4. ASSUME Crashed PROVE key \in DOMAIN db /\ db'[key] = db[key]
  BY <1>4 DEF Crashed
<1> QED
  BY <1>1, <1>2, <1>3, <1>4, Zenon DEF RecordStep, BeginsAt, QuietAt, HaltsAt

\* A key that is put stands for a record put before it.
LEMMA KeysOK ==
  ASSUME RunningOK, RecordStep, PutsKnown, KeysStand, KeysBacked
  PROVE  KeysStand' /\ KeysBacked'
<1>1. ASSUME NEW w \in 1..2, PutsAt(w)
      PROVE  /\ StandsFor(Next1(w).key, Next1(w).value)
             /\ Next1(w).key[1] \in Secondary =>
                  \/ \E r \in LedTo(Next1(w).key, Next1(w).value) : Known(r)
                  \/ Next1(w).key[1] = "outpoint" /\ Overrun(Next1(w).value)
  <2>1. Busy(w) /\ Next1(w).do = "put"
    BY <1>1 DEF PutsAt
  <2>2. /\ At(w) \in 1..Len(Steps(w)) /\ Len(Steps(w)) \in Nat
        /\ StepOK(running[w].call, Next1(w)) /\ BackedAt(Steps(w), At(w))
    BY <2>1, BusyIs DEF Tasks, RunningOK, WellMade, Next1
  <2>3. \A j \in 1..At(w) - 1 : \A r : Puts(Steps(w), j, r) => Known(r)
    BY <2>1 DEF PutsKnown
  <2> QED
    BY <2>1, <2>2, <2>3 DEF StepOK, BackedAt, Next1
<1>2. \A key, c : key[1] \in Secondary => \A r \in LedTo(key, c) : Known(r) => Known(r)'
  <2> SUFFICES ASSUME NEW key, NEW c, key[1] \in Secondary, NEW r \in LedTo(key, c), Known(r) PROVE Known(r)'
    OBVIOUS
  <2>1. r[1] # "links"
    BY DEF LedTo, Secondary
  <2> QED
    BY <2>1, KnownStays
<1>3. KeysStand'
  <2> SUFFICES ASSUME NEW key \in DOMAIN db' PROVE StandsFor(key, db'[key])
    BY DEF KeysStand
  <2>1. CASE key[1] = "links"
    BY <2>1 DEF StandsFor
  <2>2. CASE key[1] # "links"
    BY <1>1, <2>2, ValueIs DEF KeysStand
  <2> QED
    BY <2>1, <2>2
<1>4. KeysBacked'
  <2> SUFFICES ASSUME NEW key \in DOMAIN db', key[1] \in Secondary
               PROVE  \/ \E r \in LedTo(key, db'[key]) : Known(r)'
                      \/ key[1] = "outpoint" /\ Overrun(db'[key])
    BY DEF KeysBacked
  <2>1. key[1] # "links"
    BY DEF Secondary
  <2>2. \/ \E r \in LedTo(key, db'[key]) : Known(r)
        \/ key[1] = "outpoint" /\ Overrun(db'[key])
    BY <1>1, <2>1, ValueIs DEF KeysBacked
  <2> QED
    BY <1>2, <2>2
<1> QED
  BY <1>3, <1>4
\* A key of a contract stays: nothing deletes one.
LEMMA KeyStays ==
  ASSUME RunningOK, RecordStep, NEW key \in DOMAIN db, key[1] \in Secondary
  PROVE  key \in DOMAIN db'
<1>0. key[1] # "links"
  BY DEF Secondary
<1>1. ASSUME SameRecords PROVE key \in DOMAIN db'
  BY <1>0, <1>1, Zenon DEF SameRecords
<1>2. ASSUME NEW w \in 1..2, PutsAt(w) PROVE key \in DOMAIN db'
  BY <1>2 DEF PutsAt
<1>3. ASSUME NEW w \in 1..2, DelsAt(w) PROVE key \in DOMAIN db'
  <2>1. Busy(w) /\ Next1(w).do = "del" /\ DOMAIN db' = DOMAIN db \ {Next1(w).key}
    BY <1>3 DEF DelsAt
  <2>2. StepOK(running[w].call, Next1(w))
    BY <2>1, BusyIs DEF Tasks, RunningOK, Next1
  <2>3. Next1(w).key[1] \in Primary \union {"links"}
    BY <2>1, <2>2 DEF StepOK
  <2> QED
    BY <2>1, <2>3 DEF Primary, Secondary
<1>4. ASSUME Crashed PROVE key \in DOMAIN db'
  BY <1>4 DEF Crashed
<1> QED
  BY <1>1, <1>2, <1>3, <1>4, Zenon DEF RecordStep, BeginsAt, QuietAt, HaltsAt

\* The keys of a contract or a channel are secondary, its records are not.
LEMMA KeysOfAre ==
  ASSUME NEW r, NEW v, NEW c, Indexed(r, v, c), NEW key \in KeysOf(r, c)
  PROVE  key[1] \in Secondary /\ r[1] \in {"accept", "transactions", "channel"}
BY DEF Indexed, KeysOf, Secondary, Script, Temp, Outpoint, Funding

\* What is to be put stays to be put until it is.
LEMMA ComingStays ==
  ASSUME RunningOK, RecordStep, NEW w \in 1..2, NEW r, NEW key, Coming(w, r, key)
  PROVE  key \in DOMAIN db' \/ Coming(w, r, key)' \/ (Crashed /\ r \in torn')
<1>1. /\ Busy(w) /\ r \in Records(running[w].call)
      /\ \A j \in At(w)..Len(Steps(w)) : Steps(w)[j].do \notin {"need", "throw"}
  BY DEF Coming
<1>2. PICK j \in At(w)..Len(Steps(w)) : Puts(Steps(w), j, key)
  BY DEF Coming
<1>3. At(w) \in 1..Len(Steps(w)) /\ Len(Steps(w)) \in Nat
  BY <1>1, BusyIs DEF Tasks, RunningOK
<1>4. ASSUME Crashed PROVE r \in torn'
  BY <1>1, <1>4 DEF Crashed
<1>5. ASSUME NEW v \in 1..2, v # w, Others(v) PROVE Coming(w, r, key)'
  <2>1. running'[w] = running[w]
    BY <1>5 DEF Others
  <2>2. Busy(w)' /\ Steps(w)' = Steps(w) /\ At(w)' = At(w)
    BY <1>1, <2>1 DEF Busy, Steps, At
  <2> QED
    BY <1>1, <1>2, <2>1, <2>2 DEF Coming
<1>6. Next1(w).do \notin {"need", "throw"}
  BY <1>1, <1>3 DEF Next1
<1>7. ASSUME Moves(w), j # At(w) PROVE Coming(w, r, key)'
  <2>1. At(w) < Len(Steps(w)) /\ j \in At(w) + 1..Len(Steps(w))
    BY <1>3, <1>7
  <2>2. Busy(w)' /\ running'[w].call = running[w].call /\ At(w)' = At(w) + 1 /\ Steps(w)' = Steps(w)
    BY <1>7, <2>1 DEF Moves, Steps
  <2>3. \A i \in At(w) + 1..Len(Steps(w)) : Steps(w)[i].do \notin {"need", "throw"}
    BY <1>1, <1>3
  <2> QED
    BY <1>1, <1>2, <2>1, <2>2, <2>3 DEF Coming
<1>8. ASSUME j = At(w), QuietAt(w) \/ PutsAt(w) \/ DelsAt(w) PROVE key \in DOMAIN db'
  <2>1. Next1(w).do = "put" /\ Next1(w).key = key
    BY <1>2, <1>8 DEF Next1, Puts
  <2> QED
    BY <1>8, <2>1 DEF QuietAt, DelsAt, PutsAt
<1>9. ASSUME NEW v \in 1..2, BeginsAt(v) \/ QuietAt(v) \/ HaltsAt(v) \/ PutsAt(v) \/ DelsAt(v)
      PROVE  key \in DOMAIN db' \/ Coming(w, r, key)'
  <2>1. Others(v)
    BY <1>9 DEF BeginsAt, QuietAt, HaltsAt, PutsAt, DelsAt
  <2>2. CASE v # w
    BY <1>5, <2>1, <2>2
  <2>3. CASE v = w
    <3>1. QuietAt(w) \/ PutsAt(w) \/ DelsAt(w)
      BY <1>1, <1>6, <1>9, <2>3 DEF BeginsAt, HaltsAt
    <3>2. Moves(w)
      BY <3>1 DEF QuietAt, PutsAt, DelsAt
    <3> QED
      BY <1>7, <1>8, <3>1, <3>2
  <2> QED
    BY <2>2, <2>3
<1> QED
  BY <1>4, <1>9 DEF RecordStep

\* A record that is there, and was not cut short, after a step was so before, or is put.
LEMMA SavedIs ==
  ASSUME RecordStep, NEW r, r[1] # "links", Saved(r)', r \notin torn'
  PROVE  \/ Saved(r) /\ db'[r] = db[r] /\ r \notin torn
         \/ \E w \in 1..2 : PutsAt(w) /\ Next1(w).key = r /\ db'[r] = Next1(w).value
<1>1. ASSUME SameRecords PROVE Saved(r) /\ db'[r] = db[r] /\ r \notin torn
  <2>1. r \in DOMAIN db /\ db'[r] = db[r]
    BY <1>1, Zenon DEF SameRecords, Saved
  <2> QED
    BY <1>1, <2>1 DEF SameRecords, Saved
<1>2. ASSUME NEW w \in 1..2, PutsAt(w)
      PROVE  \/ Saved(r) /\ db'[r] = db[r] /\ r \notin torn
             \/ PutsAt(w) /\ Next1(w).key = r /\ db'[r] = Next1(w).value
  <2>1. CASE Next1(w).key = r
    <3>1. db'[Next1(w).key] = Next1(w).value
      BY <1>2 DEF PutsAt
    <3> QED
      BY <1>2, <2>1, <3>1
  <2>2. CASE Next1(w).key # r
    BY <1>2, <2>2 DEF PutsAt, Saved
  <2> QED
    BY <2>1, <2>2
<1>3. ASSUME NEW w, DelsAt(w) PROVE Saved(r) /\ db'[r] = db[r] /\ r \notin torn
  BY <1>3 DEF DelsAt, Saved
<1>4. ASSUME Crashed PROVE Saved(r) /\ db'[r] = db[r] /\ r \notin torn
  BY <1>4 DEF Crashed, Saved
<1> QED
  BY <1>1, <1>2, <1>3, <1>4, Zenon DEF RecordStep, BeginsAt, QuietAt, HaltsAt

\* A record that is put has its keys or has them coming.
LEMMA FoundOK ==
  ASSUME RunningOK, RecordStep, Found
  PROVE  Found'
<1> SUFFICES ASSUME NEW c, NEW r, Saved(r)', Indexed(r, db'[r], c), r \notin torn', NEW key \in KeysOf(r, c)
             PROVE  key \in DOMAIN db' \/ \E w \in 1..2 : Coming(w, r, key)'
  BY DEF Found, Indexed
<1>0. key[1] \in Secondary /\ r[1] # "links" /\ r[1] \in {"accept", "transactions", "channel"}
  BY KeysOfAre
<1>1. CASE Saved(r) /\ db'[r] = db[r] /\ r \notin torn
  <2>1. key \in DOMAIN db \/ \E w \in 1..2 : Coming(w, r, key)
    BY <1>1 DEF Found
  <2>2. CASE key \in DOMAIN db
    BY <1>0, <2>2, KeyStays
  <2>3. ASSUME NEW w \in 1..2, Coming(w, r, key)
        PROVE  key \in DOMAIN db' \/ \E v \in 1..2 : Coming(v, r, key)'
    BY <2>3, ComingStays, Zenon
  <2> QED
    BY <2>1, <2>2, <2>3
<1>2. ASSUME NEW w \in 1..2, PutsAt(w), Next1(w).key = r, db'[r] = Next1(w).value PROVE Coming(w, r, key)'
  <2>1. Busy(w) /\ Next1(w).do = "put" /\ Moves(w)
    BY <1>2 DEF PutsAt
  <2>2. /\ At(w) \in 1..Len(Steps(w)) /\ Len(Steps(w)) \in Nat
        /\ StepOK(running[w].call, Next1(w)) /\ TrailedAt(Steps(w), At(w))
    BY <2>1, BusyIs DEF Tasks, RunningOK, WellMade, Next1
  <2>3. Puts(Steps(w), At(w), r) /\ Indexed(r, Steps(w)[At(w)].value, c)
    BY <1>2, <2>1 DEF Puts, Next1
  <2>4. /\ \A j \in At(w)..Len(Steps(w)) : Steps(w)[j].do \notin {"need", "throw"}
        /\ \E j \in At(w) + 1..Len(Steps(w)) : Puts(Steps(w), j, key)
    BY <2>2, <2>3, Zenon DEF TrailedAt
  <2>5. At(w) < Len(Steps(w))
    BY <2>2, <2>4
  <2>6. Busy(w)' /\ running'[w].call = running[w].call /\ At(w)' = At(w) + 1 /\ Steps(w)' = Steps(w)
    BY <2>1, <2>2, <2>5 DEF Moves, Steps
  <2>7. r \in Records(running[w].call)
    BY <1>0, <1>2, <2>1, <2>2 DEF StepOK
  <2>8. \A j \in At(w) + 1..Len(Steps(w)) : Steps(w)[j].do \notin {"need", "throw"}
    BY <2>2, <2>4
  <2> QED
    BY <2>4, <2>6, <2>7, <2>8 DEF Coming
<1> QED
  BY <1>0, <1>1, <1>2, SavedIs, Zenon

(***************************************************************************)
(* The steps, as far as the lists of channels go.                          *)
(***************************************************************************)
BeginsOn(w) == /\ ~Busy(w) /\ Busy(w)' /\ At(w)' = 1 /\ Others(w) /\ UNCHANGED <<db, torn>>
               /\ astray' = astray \union LinksOf({r \in Records(running'[w].call) : Working(r)})
HaltsOn(w) == /\ Busy(w) /\ ~Busy(w)' /\ Others(w) /\ UNCHANGED <<db, torn, astray>>
              /\ \/ Next1(w).do = "throw"
                 \/ Next1(w).do = "need" /\ Next1(w).key \notin DOMAIN db
PassesOn(w) == Busy(w) /\ Moves(w) /\ Others(w) /\ Next1(w).do = "need" /\ UNCHANGED <<db, torn, astray>>
ReadsOn(w) == /\ Busy(w) /\ Moves(w) /\ Others(w) /\ Next1(w).do = "read" /\ UNCHANGED <<db, torn, astray>>
              /\ running'[w].seen = List(Next1(w).key[2])
PutsOn(w) == /\ PutsAt(w)
             /\ astray' = IF \E v \in (1..2) \ {w} : Busy(v) /\ Next1(w).key \in Records(running[v].call)
                          THEN astray ELSE astray \ LinksOf({Next1(w).key})
DelsOn(w) == /\ DelsAt(w)
             /\ astray' = IF Next1(w).key[1] = "links"
                          THEN astray \union ({Next1(w).key[2]} \X List(Next1(w).key[2])) ELSE astray
ListsOn(w) == /\ Busy(w) /\ Moves(w) /\ Others(w) /\ Next1(w).do \in {"link", "unlink"} /\ UNCHANGED torn
              /\ ListStep(w) /\ Key(w) = Next1(w).key
ChannelStep ==
  \/ Crashed /\ UNCHANGED astray
  \/ \E w \in 1..2 : \/ BeginsOn(w) \/ HaltsOn(w) \/ PassesOn(w) \/ ReadsOn(w)
                     \/ PutsOn(w) \/ DelsOn(w) \/ ListsOn(w)

\* Every step is one of these.
LEMMA ChannelSteps ==
  ASSUME RunningOK, ListsOK, Next
  PROVE  ChannelStep
<1>0. Tasks = 1..2
  BY DEF Tasks, RunningOK
<1>1. ASSUME Crash PROVE Crashed /\ UNCHANGED astray
  <2>1. \A w \in 1..2 : ~Busy(w)'
    BY <1>1, CrashOK
  <2>2. torn' = torn \union UNION {Records(call) : call \in {running[w].call : w \in {w \in Tasks : Busy(w)}}}
    BY <1>1, Zenon DEF Crash
  <2>3. UNCHANGED <<db, gone, astray>>
    BY <1>1 DEF Crash
  <2> QED
    BY <1>0, <2>1, <2>2, <2>3 DEF Crashed
<1>2. ASSUME NEW w \in Tasks, NEW call \in calls, Begin(w, call) PROVE BeginsOn(w)
  <2>1. UNCHANGED <<db, torn>> /\ astray' = astray \union LinksOf({r \in Records(call) : Working(r)})
    BY <1>2 DEF Begin
  <2> QED
    BY <1>2, <2>1, BeginsOK DEF BeginsOn
<1>3. ASSUME NEW w \in Tasks, Need(w) PROVE PassesOn(w) \/ HaltsOn(w)
  <2>1. UNCHANGED <<db, torn, astray, calls>> /\ Todo(w, "need")
    BY <1>3 DEF Need
  <2>2. Busy(w) /\ Next1(w).do = "need" /\ Key(w) = Next1(w).key
    BY <2>1, TodoIs
  <2>3. CASE Key(w) \in DOMAIN db
    <3>1. Goes(w, TRUE)
      BY <1>3, <2>3 DEF Need, Goes
    <3> QED
      BY <2>1, <2>2, <3>1, GoesOn DEF PassesOn
  <2>4. CASE Key(w) \notin DOMAIN db
    <3>1. Goes(w, FALSE)
      BY <1>3, <2>4 DEF Need, Goes
    <3> QED
      BY <2>1, <2>2, <2>4, <3>1, Stops DEF HaltsOn
  <2> QED
    BY <2>3, <2>4
<1>4. ASSUME NEW w \in Tasks, Throw(w) PROVE HaltsOn(w)
  <2>1. UNCHANGED <<db, torn, astray, calls>> /\ Todo(w, "throw") /\ Goes(w, FALSE)
    BY <1>4 DEF Throw
  <2>2. Busy(w) /\ Next1(w).do = "throw"
    BY <2>1, TodoIs
  <2> QED
    BY <2>1, <2>2, Stops DEF HaltsOn
<1>5. ASSUME NEW w \in Tasks, ReadStep(w) PROVE ReadsOn(w)
  <2>1. UNCHANGED <<db, torn, astray>> /\ Todo(w, "read")
    BY <1>5 DEF ReadStep
  <2>2. Busy(w) /\ Next1(w).do = "read" /\ Key(w) = Next1(w).key
    BY <2>1, TodoIs
  <2> QED
    BY <1>5, <2>1, <2>2, Reads DEF ReadsOn
<1>6. ASSUME NEW w \in Tasks, PutStep(w) PROVE PutsOn(w)
  <2>1. Todo(w, "put") /\ PutsAt(w)
    BY <1>6, PutsAtIs DEF PutStep
  <2>2. Key(w) = Next1(w).key
    BY <2>1, TodoIs
  <2>3. astray' = IF \E v \in Tasks \ {w} : Busy(v) /\ Key(w) \in Records(running[v].call) THEN astray
                  ELSE astray \ LinksOf({Key(w)})
    BY <1>6, Zenon DEF PutStep
  <2> QED
    BY <1>0, <2>1, <2>2, <2>3 DEF PutsOn
<1>7. ASSUME NEW w \in Tasks, DelStep(w) PROVE DelsOn(w)
  <2>1. Todo(w, "del") /\ DelsAt(w)
    BY <1>7, DelsAtIs DEF DelStep
  <2>2. Key(w) = Next1(w).key
    BY <2>1, TodoIs
  <2>3. astray' = IF Key(w)[1] = "links" THEN astray \union ({Key(w)[2]} \X List(Key(w)[2])) ELSE astray
    BY <1>7, Zenon DEF DelStep
  <2> QED
    BY <2>1, <2>2, <2>3 DEF DelsOn
<1>8. ASSUME NEW w \in Tasks, LinkStep(w) \/ UnlinkStep(w) PROVE ListsOn(w)
  <2>1. QuietAt(w) /\ Next1(w).do \in {"link", "unlink"} /\ ListStep(w)
    BY <1>8, ListStepIs
  <2>2. Todo(w, "link") \/ Todo(w, "unlink")
    BY <1>8 DEF LinkStep, UnlinkStep
  <2>3. Key(w) = Next1(w).key
    BY <2>2, TodoIs
  <2> QED
    BY <2>1, <2>3 DEF ListsOn, QuietAt, SameRecords
<1> QED
  BY <1>0, <1>1, <1>2, <1>3, <1>4, <1>5, <1>6, <1>7, <1>8, Zenon DEF Next, Step, ChannelStep

\* Where a call that saves a channel is.
LEMMA SaveAt ==
  ASSUME RunningOK, NEW w \in 1..2, NEW ch, Saving(w, ch)
  PROVE  /\ ch \in DOMAIN Channel /\ Records(running[w].call) = {<<"channel", ch>>}
         /\ Len(Steps(w)) \in 5..6 /\ At(w) \in 1..Len(Steps(w)) /\ Of(running[w].call) = ch
         /\ Stage(w) \in 0..5 /\ (At(w) = 1 => Stage(w) < 2)
         /\ At(w) = 1 => Next1(w).do = "put" /\ Next1(w).key = <<"channel", ch>>
         /\ Stage(w) < 2 /\ At(w) # 1 => Next1(w).do = "put" /\ Next1(w).key[1] = "funding"
         /\ \A k \in 1..2 : /\ Stage(w) = 2 * k => Next1(w) = Do("read", Links(Channel[ch][k]))
                            /\ Stage(w) = 2 * k + 1 => Next1(w) = Do("link", Links(Channel[ch][k]))
<1>1. Busy(w) /\ Op(running[w].call) = "saveChannelAnnouncement" /\ Of(running[w].call) = ch
  BY DEF Saving, Doing, Op, Of
<1>2. running[w].call \in Calls /\ At(w) \in 1..Len(Steps(w))
  BY <1>1, BusyIs DEF Tasks, RunningOK
<1>3. ch \in DOMAIN Channel /\ Records(running[w].call) = {<<"channel", ch>>}
  BY <1>1, <1>2, CallIs, RecordsAre
<1> DEFINE S == Steps(w)
           kind == Kind(running[w].call)
           p == Put(<<"channel", ch>>, kind)
           f == Put(Funding(ch), ch)
           R(k) == Do("read", Links(Channel[ch][k]))
           L(k) == Do("link", Links(Channel[ch][k]))
<1>4. S = <<p>> \o (IF kind = "extended" THEN <<f>> ELSE <<>>) \o <<R(1), L(1), R(2), L(2)>>
  BY <1>1, StepsAre DEF Steps, SaveChannelAnnouncement, SaveNodeChannels
<1>5. p.do = "put" /\ p.key = <<"channel", ch>> /\ f.do = "put" /\ f.key[1] = "funding"
  BY DEF Put, Funding
<1> HIDE DEF S, p, f, R, L, kind
<1>6. CASE kind = "extended"
  <2>1. S = <<p>> \o <<f>> \o <<R(1), L(1), R(2), L(2)>>
    BY <1>4, <1>6
  <2>2. Len(S) = 6 /\ S[1] = p /\ S[2] = f /\ S[3] = R(1) /\ S[4] = L(1) /\ S[5] = R(2) /\ S[6] = L(2)
    BY <2>1, SavingSteps
  <2>3. At(w) \in 1..6 /\ Stage(w) = At(w) - 6 + 5
    BY <1>2, <2>2 DEF Stage, S
  <2> QED
    BY <1>1, <1>2, <1>3, <1>5, <2>2, <2>3 DEF S, R, L, Next1
<1>7. CASE kind # "extended"
  <2>1. S = <<p>> \o <<>> \o <<R(1), L(1), R(2), L(2)>>
    BY <1>4, <1>7
  <2>2. Len(S) = 5 /\ S[1] = p /\ S[2] = R(1) /\ S[3] = L(1) /\ S[4] = R(2) /\ S[5] = L(2)
    BY <2>1, SavingSteps
  <2>3. At(w) \in 1..5 /\ Stage(w) = At(w) - 5 + 5
    BY <1>2, <2>2 DEF Stage, S
  <2> QED
    BY <1>1, <1>2, <1>3, <1>5, <2>2, <2>3 DEF S, R, L, Next1
<1> QED
  BY <1>6, <1>7

\* Where a call that deletes a channel is.
LEMMA DeleteAt ==
  ASSUME RunningOK, NEW w \in 1..2, NEW ch, Deleting(w, ch)
  PROVE  /\ ch \in DOMAIN Channel /\ Records(running[w].call) = {<<"channel", ch>>}
         /\ Len(Steps(w)) = 8 /\ At(w) \in 1..8 /\ Of(running[w].call) = ch
         /\ At(w) = 1 => Next1(w).do = "need" /\ Next1(w).key = <<"channel", ch>>
         /\ At(w) \in 2..3 => Next1(w).do = "del" /\ Next1(w).key[1] = "update"
         /\ At(w) = 8 => Next1(w).do = "del" /\ Next1(w).key = <<"channel", ch>>
         /\ \A k \in 1..2 : /\ At(w) = 2 * k + 2 => Next1(w) = Do("read", Links(Channel[ch][k]))
                            /\ At(w) = 2 * k + 3 => Next1(w) = Do("unlink", Links(Channel[ch][k]))
<1>1. Busy(w) /\ Op(running[w].call) = "deleteChannelAnnouncement" /\ Of(running[w].call) = ch
  BY DEF Deleting, Doing, Op, Of
<1>2. running[w].call \in Calls /\ At(w) \in 1..Len(Steps(w))
  BY <1>1, BusyIs DEF Tasks, RunningOK
<1>3. ch \in DOMAIN Channel /\ Records(running[w].call) = {<<"channel", ch>>}
  BY <1>1, <1>2, CallIs, RecordsAre
<1>4. Steps(w) = DeleteChannelAnnouncement(ch)
  BY <1>1, StepsAre DEF Steps
<1> DEFINE S == Steps(w)
           a == Do("need", <<"channel", ch>>)
           u(i) == Do("del", <<"update", ch, i>>)
           R(k) == Do("read", Links(Channel[ch][k]))
           U(k) == Do("unlink", Links(Channel[ch][k]))
           d == Do("del", <<"channel", ch>>)
<1>5. S = <<a, u(0), u(1), R(1), U(1), R(2), U(2), d>>
  BY <1>4 DEF DeleteChannelAnnouncement
<1>6. /\ a.do = "need" /\ a.key = <<"channel", ch>> /\ d.do = "del" /\ d.key = <<"channel", ch>>
      /\ \A i \in 0..1 : u(i).do = "del" /\ u(i).key[1] = "update"
  BY DEF Do
<1> HIDE DEF S, a, u, R, U, d
<1>7. /\ Len(S) = 8 /\ S[1] = a /\ S[2] = u(0) /\ S[3] = u(1) /\ S[8] = d
      /\ \A k \in 1..2 : S[2 * k + 2] = R(k) /\ S[2 * k + 3] = U(k)
  BY <1>5
<1>8. At(w) \in 2..3 => S[At(w)] \in {u(0), u(1)}
  BY <1>2, <1>7
<1> QED
  BY <1>1, <1>2, <1>3, <1>6, <1>7, <1>8 DEF S, R, U, Next1

\* LinksOf a single record.
LEMMA LinksOfOne ==
  ASSUME NEW key
  PROVE  \A pair : pair \in LinksOf({key}) <=> key[1] = "channel" /\ \E k \in 1..2 : pair = Pair(key[2], k)
BY DEF LinksOf, Pair

\* LinksOf records among which there is a channel.
LEMMA LinksOfSome ==
  ASSUME NEW records, NEW ch, <<"channel", ch>> \in records
  PROVE  \A k \in 1..2 : Pair(ch, k) \in LinksOf(records)
<1> DEFINE r == <<"channel", ch>>
           some(x) == {<<Channel[x[2]][k], x[2]>> : k \in 1..2}
<1>1. r[1] = "channel" /\ r[2] = ch
  OBVIOUS
<1>2. \A k \in 1..2 : Pair(ch, k) \in some(r)
  BY <1>1 DEF Pair
<1>3. LinksOf(records) = UNION {some(x) : x \in {x \in records : x[1] = "channel"}}
  BY Zenon DEF LinksOf
<1>4. r \in {x \in records : x[1] = "channel"}
  BY <1>1
<1> HIDE DEF r, some
<1> QED
  BY <1>2, <1>3, <1>4

\* A call that puts or deletes a channel saves it or deletes it.
LEMMA ChannelKey ==
  ASSUME RunningOK, NEW w \in 1..2, Busy(w), NEW ch, Next1(w).key = <<"channel", ch>>
  PROVE  /\ Next1(w).do = "put" => Saving(w, ch)
         /\ Next1(w).do = "del" => Deleting(w, ch)
<1>1. StepOK(running[w].call, Next1(w))
  BY BusyIs DEF Tasks, RunningOK, Next1
<1>2. Next1(w).key[1] = "channel" /\ Next1(w).key[2] = ch
  OBVIOUS
<1>3. Next1(w).do \in {"put", "del"} =>
        /\ Of(running[w].call) = ch
        /\ Op(running[w].call) = IF Next1(w).do = "put" THEN "saveChannelAnnouncement" ELSE "deleteChannelAnnouncement"
  BY <1>1, <1>2 DEF StepOK
<1> QED
  BY <1>3 DEF Saving, Deleting, Doing, Op, Of

\* A call on a channel has only that record.
LEMMA OnAt ==
  ASSUME RunningOK, NEW w \in 1..2, NEW ch, On(w, ch)
  PROVE  /\ Busy(w) /\ Records(running[w].call) = {<<"channel", ch>>}
         /\ ch \in DOMAIN Channel /\ Of(running[w].call) = ch
  BY SaveAt, DeleteAt DEF On, Saving, Deleting, Doing

\* Only the lone save of a channel takes it from those that went astray.
LEMMA AstrayIs ==
  ASSUME RunningOK, ChannelStep, NEW n, NEW x, <<n, x>> \in astray, <<n, x>> \notin astray'
  PROVE  \E w \in 1..2 : /\ PutsOn(w) /\ Next1(w).key = <<"channel", x>> /\ Saving(w, x)
                         /\ \E k \in 1..2 : n = Channel[x][k]
                         /\ \A v \in 1..2 : v # w => ~On(v, x)
<1>1. PICK w \in 1..2 : PutsOn(w) /\ astray' # astray
  <2>1. ASSUME NEW w \in 1..2, DelsOn(w) PROVE astray \subseteq astray'
    BY <2>1 DEF DelsOn
  <2>2. ASSUME NEW w \in 1..2, ListsOn(w) PROVE astray \subseteq astray'
    BY <2>2 DEF ListsOn, ListStep, PutsList
  <2>3. ASSUME NEW w \in 1..2, BeginsOn(w) PROVE astray \subseteq astray'
    BY <2>3 DEF BeginsOn
  <2>4. ASSUME NEW w \in 1..2, HaltsOn(w) \/ PassesOn(w) \/ ReadsOn(w) PROVE astray \subseteq astray'
    BY <2>4 DEF HaltsOn, PassesOn, ReadsOn
  <2> QED
    BY <2>1, <2>2, <2>3, <2>4 DEF ChannelStep
<1> DEFINE key == Next1(w).key
<1>2. /\ astray' = astray \ LinksOf({key})
      /\ \A v \in (1..2) \ {w} : ~(Busy(v) /\ key \in Records(running[v].call))
  BY <1>1, Zenon DEF PutsOn
<1>3. key[1] = "channel" /\ \E k \in 1..2 : <<n, x>> = Pair(key[2], k)
  BY <1>2, LinksOfOne
<1>4. Busy(w) /\ Next1(w).do = "put"
  BY <1>1 DEF PutsOn, PutsAt
<1>5. StepOK(running[w].call, Next1(w))
  BY <1>4, BusyIs DEF Tasks, RunningOK, Next1
<1>6. key = <<"channel", Of(running[w].call)>>
  BY <1>3, <1>4, <1>5 DEF StepOK
<1>7. key[2] = x /\ \E k \in 1..2 : n = Channel[x][k]
  BY <1>3 DEF Pair
<1>8. key = <<"channel", x>>
  BY <1>6, <1>7
<1>9. Saving(w, x)
  BY <1>4, <1>8, ChannelKey
<1>10. \A v \in 1..2 : v # w => ~On(v, x)
  BY <1>2, <1>8, OnAt
<1> QED
  BY <1>1, <1>7, <1>8, <1>9, <1>10

\* What a list holds changes by the steps of the calls on that channel alone.
LEMMA ListKept ==
  ASSUME RunningOK, ListsOK, ChannelStep, NEW n, NEW x, <<n, x>> \notin astray'
  PROVE  \/ x \in List(n)' <=> x \in List(n)
         \/ \E w \in 1..2 : ListsOn(w) /\ On(w, x) /\ Next1(w).key = Links(n)
<1>1. ASSUME UNCHANGED db PROVE List(n)' = List(n)
  BY <1>1 DEF List
<1>2. ASSUME NEW w \in 1..2, PutsOn(w) PROVE List(n)' = List(n)
  <2>1. Busy(w) /\ Next1(w).do = "put" /\ PutsAt(w)
    BY <1>2 DEF PutsOn, PutsAt
  <2>2. StepOK(running[w].call, Next1(w))
    BY <2>1, BusyIs DEF Tasks, RunningOK, Next1
  <2>3. Next1(w).key # Links(n)
    BY <2>1, <2>2 DEF StepOK, Primary, Secondary, Links
  <2> QED
    BY <2>1, <2>3 DEF PutsAt, List
<1>3. ASSUME NEW w \in 1..2, DelsOn(w) PROVE x \in List(n)' <=> x \in List(n)
  <2>1. DelsAt(w)
    BY <1>3 DEF DelsOn
  <2>2. CASE Next1(w).key # Links(n)
    <3>1. List(n)' = List(n)
      BY <2>1, <2>2 DEF DelsAt, List
    <3> QED
      BY <3>1
  <2>3. CASE Next1(w).key = Links(n)
    <3>1. Next1(w).key[1] = "links" /\ Next1(w).key[2] = n
      BY <2>3 DEF Links
    <3>2. {n} \X List(n) \subseteq astray'
      BY <1>3, <3>1, Zenon DEF DelsOn
    <3>3. x \notin List(n)
      BY <3>2
    <3>4. List(n)' = {}
      BY <2>1, <2>3 DEF DelsAt, List
    <3> QED
      BY <3>3, <3>4
  <2> QED
    BY <2>2, <2>3
<1>4. ASSUME NEW w \in 1..2, ListsOn(w)
      PROVE  (x \in List(n)' <=> x \in List(n)) \/ (On(w, x) /\ Next1(w).key = Links(n))
  <2> DEFINE ch == Of(running[w].call)
             m == Key(w)[2]
             seen == running[w].seen
  <2>1. Busy(w) /\ Next1(w).do \in {"link", "unlink"} /\ ListStep(w) /\ Key(w) = Next1(w).key
    BY <1>4 DEF ListsOn
  <2>2. StepOK(running[w].call, Next1(w))
    BY <2>1, BusyIs DEF Tasks, RunningOK, Next1
  <2>3. On(w, ch)
    BY <2>1, <2>2 DEF StepOK, On, Saving, Deleting, Doing, Op, Of
  <2>4. Key(w) = Links(m)
    BY <2>1, <2>2 DEF StepOK, Links
  <2>5. CASE UNCHANGED db
    BY <1>1, <2>5
  <2>6. ASSUME NEW list, PutsList(w, m, list), \A y : y # ch => (y \in list <=> y \in seen)
        PROVE  (x \in List(n)' <=> x \in List(n)) \/ (On(w, x) /\ Next1(w).key = Links(n))
    <3>1. CASE m # n
      <4>1. Links(m) # Links(n)
        BY <3>1 DEF Links
      <4>2. List(n)' = List(n)
        BY <2>6, <4>1 DEF PutsList, List
      <4> QED
        BY <4>2
    <3>2. CASE m = n /\ x = ch
      BY <2>1, <2>3, <2>4, <3>2
    <3>3. CASE m = n /\ x # ch
      <4>1. List(n)' = list
        BY <2>6, <3>3 DEF PutsList, List
      <4>2. x \notin (List(n) \ seen) \union (seen \ List(n))
        BY <2>6, <3>3 DEF PutsList
      <4> QED
        BY <2>6, <3>3, <4>1, <4>2
    <3> QED
      BY <3>1, <3>2, <3>3
  <2>7. \/ UNCHANGED db
        \/ PutsList(w, m, seen \union {ch})
        \/ PutsList(w, m, seen \ {ch})
    BY <2>1 DEF ListStep
  <2> QED
    BY <2>5, <2>6, <2>7
<1> QED
  BY <1>1, <1>2, <1>3, <1>4 DEF ChannelStep, BeginsOn, HaltsOn, PassesOn, ReadsOn, Crashed

\* The steps of a call on a channel are told by where it is.
LEMMA SavePlaces ==
  ASSUME RunningOK, NEW w \in 1..2, NEW ch, Saving(w, ch)
  PROVE  /\ At(w) = 1 => Next1(w).do = "put"
         /\ Next1(w).do = "put" /\ Next1(w).key[1] = "channel" => At(w) = 1
         /\ Next1(w).do \in {"put", "read", "link"}
         /\ Next1(w).do = "link" => \E k \in 1..2 : Stage(w) = 2 * k + 1 /\ Next1(w).key = Links(Channel[ch][k])
         /\ Next1(w).do = "read" => \E k \in 1..2 : Stage(w) = 2 * k /\ Next1(w).key = Links(Channel[ch][k])
<1>1. At(w) \in 1..Len(Steps(w)) /\ Len(Steps(w)) \in 5..6 /\ Stage(w) \in 0..5
  BY SaveAt
<1>2. \/ At(w) = 1
      \/ Stage(w) < 2 /\ At(w) # 1
      \/ Stage(w) = 2 * 1 \/ Stage(w) = 2 * 2 \/ Stage(w) = 2 * 1 + 1 \/ Stage(w) = 2 * 2 + 1
  BY <1>1
<1>3. ASSUME NEW k \in 1..2, Stage(w) = 2 * k
      PROVE  Next1(w).do = "read" /\ Next1(w).key = Links(Channel[ch][k]) /\ At(w) # 1
  BY <1>1, <1>3, SaveAt DEF Do, Stage
<1>4. ASSUME NEW k \in 1..2, Stage(w) = 2 * k + 1
      PROVE  Next1(w).do = "link" /\ Next1(w).key = Links(Channel[ch][k]) /\ At(w) # 1
  BY <1>1, <1>4, SaveAt DEF Do, Stage
<1>5. At(w) = 1 => Next1(w).do = "put"
  BY SaveAt
<1>6. Stage(w) < 2 /\ At(w) # 1 => Next1(w).do = "put" /\ Next1(w).key[1] = "funding"
  BY SaveAt
<1> QED
  BY <1>2, <1>3, <1>4, <1>5, <1>6

\* The same of a deletion.
LEMMA DeletePlaces ==
  ASSUME RunningOK, NEW w \in 1..2, NEW ch, Deleting(w, ch)
  PROVE  /\ Next1(w).do \in {"need", "del", "read", "unlink"}
         /\ Next1(w).do = "need" => At(w) = 1
         /\ Next1(w).do = "del" => At(w) \in 2..3 \/ At(w) = 8
         /\ Next1(w).do = "del" /\ Next1(w).key[1] = "channel" => At(w) = 8
         /\ Next1(w).do = "unlink" => \E k \in 1..2 : At(w) = 2 * k + 3 /\ Next1(w).key = Links(Channel[ch][k])
         /\ Next1(w).do = "read" => \E k \in 1..2 : At(w) = 2 * k + 2 /\ Next1(w).key = Links(Channel[ch][k])
<1>1. At(w) \in 1..8
  BY DeleteAt
<1>2. \/ At(w) = 1 \/ At(w) \in 2..3 \/ At(w) = 8
      \/ At(w) = 2 * 1 + 2 \/ At(w) = 2 * 2 + 2 \/ At(w) = 2 * 1 + 3 \/ At(w) = 2 * 2 + 3
  BY <1>1
<1>3. ASSUME NEW k \in 1..2, At(w) = 2 * k + 2
      PROVE  Next1(w).do = "read" /\ Next1(w).key = Links(Channel[ch][k])
  BY <1>3, DeleteAt DEF Do
<1>4. ASSUME NEW k \in 1..2, At(w) = 2 * k + 3
      PROVE  Next1(w).do = "unlink" /\ Next1(w).key = Links(Channel[ch][k])
  BY <1>4, DeleteAt DEF Do
<1>5. /\ At(w) = 1 => Next1(w).do = "need"
      /\ At(w) \in 2..3 => Next1(w).do = "del" /\ Next1(w).key[1] = "update"
      /\ At(w) = 8 => Next1(w).do = "del"
  BY DeleteAt
<1> QED
  BY <1>2, <1>3, <1>4, <1>5

\* A channel's record is put by the first step of its save, deleted by the last of its deletion.
LEMMA ChannelPut ==
  ASSUME RunningOK, NEW w \in 1..2, NEW ch, PutsOn(w), Next1(w).key = <<"channel", ch>>
  PROVE  Saving(w, ch) /\ At(w) = 1
<1>1. Busy(w) /\ Next1(w).do = "put" /\ Next1(w).key[1] = "channel"
  BY DEF PutsOn, PutsAt
<1>2. Saving(w, ch)
  BY <1>1, ChannelKey
<1> QED
  BY <1>1, <1>2, SavePlaces

\* The same of its deletion.
LEMMA ChannelDel ==
  ASSUME RunningOK, NEW w \in 1..2, NEW ch, DelsOn(w), Next1(w).key = <<"channel", ch>>
  PROVE  Deleting(w, ch) /\ At(w) = 8
<1>1. Busy(w) /\ Next1(w).do = "del" /\ Next1(w).key[1] = "channel"
  BY DEF DelsOn, DelsAt
<1>2. Deleting(w, ch)
  BY <1>1, ChannelKey
<1> QED
  BY <1>1, <1>2, DeletePlaces

\* The record of a channel comes and goes by these steps alone.
LEMMA ChannelSaved ==
  ASSUME RunningOK, ChannelStep, NEW ch
  PROVE  \/ /\ Saved(<<"channel", ch>>)' <=> Saved(<<"channel", ch>>)
            /\ <<"channel", ch>> \in torn => <<"channel", ch>> \in torn'
         \/ Saved(<<"channel", ch>>)' /\ \E w \in 1..2 : PutsOn(w) /\ Next1(w).key = <<"channel", ch>>
         \/ ~Saved(<<"channel", ch>>)' /\ \E w \in 1..2 : DelsOn(w) /\ Next1(w).key = <<"channel", ch>>
<1> DEFINE r == <<"channel", ch>>
<1>0. \A n : Links(n) # r
  BY DEF Links
<1> HIDE DEF r
<1>1. ASSUME UNCHANGED db PROVE Saved(r)' <=> Saved(r)
  BY <1>1 DEF Saved
<1>2. ASSUME NEW w \in 1..2, PutsOn(w), Next1(w).key # r PROVE (Saved(r)' <=> Saved(r)) /\ (r \in torn => r \in torn')
  BY <1>2 DEF PutsOn, PutsAt, Saved
<1>3. ASSUME NEW w \in 1..2, PutsOn(w), Next1(w).key = r PROVE Saved(r)'
  BY <1>3 DEF PutsOn, PutsAt, Saved
<1>4. ASSUME NEW w \in 1..2, DelsOn(w), Next1(w).key # r PROVE (Saved(r)' <=> Saved(r)) /\ (r \in torn => r \in torn')
  BY <1>4 DEF DelsOn, DelsAt, Saved
<1>5. ASSUME NEW w \in 1..2, DelsOn(w), Next1(w).key = r PROVE ~Saved(r)'
  BY <1>5 DEF DelsOn, DelsAt, Saved
<1>6. ASSUME NEW w \in 1..2, ListsOn(w) PROVE (Saved(r)' <=> Saved(r)) /\ torn' = torn
  <2>1. torn' = torn
    BY <1>6 DEF ListsOn
  <2>2. UNCHANGED db \/ \E n : DOMAIN db' = DOMAIN db \union {Links(n)}
    BY <1>6 DEF ListsOn, ListStep, PutsList
  <2> QED
    BY <1>0, <2>1, <2>2 DEF Saved
<1>7. ASSUME NEW w \in 1..2, BeginsOn(w) \/ HaltsOn(w) \/ PassesOn(w) \/ ReadsOn(w) PROVE UNCHANGED <<db, torn>>
  BY <1>7 DEF BeginsOn, HaltsOn, PassesOn, ReadsOn
<1>8. ASSUME Crashed PROVE UNCHANGED db /\ torn \subseteq torn'
  BY <1>8 DEF Crashed
<1>9. ASSUME NEW w \in 1..2, PutsOn(w) PROVE
         \/ (Saved(r)' <=> Saved(r)) /\ (r \in torn => r \in torn')
         \/ Saved(r)' /\ PutsOn(w) /\ Next1(w).key = r
  BY <1>2, <1>3, <1>9
<1>10. ASSUME NEW w \in 1..2, DelsOn(w) PROVE
         \/ (Saved(r)' <=> Saved(r)) /\ (r \in torn => r \in torn')
         \/ ~Saved(r)' /\ DelsOn(w) /\ Next1(w).key = r
  BY <1>4, <1>5, <1>10
<1>11. CASE Crashed
  BY <1>1, <1>8, <1>11 DEF r
<1>12. ASSUME NEW w \in 1..2, BeginsOn(w) \/ HaltsOn(w) \/ PassesOn(w) \/ ReadsOn(w) \/ ListsOn(w)
       PROVE  (Saved(r)' <=> Saved(r)) /\ (r \in torn => r \in torn')
  BY <1>1, <1>6, <1>7, <1>12
<1> QED
  BY <1>9, <1>10, <1>11, <1>12, Zenon DEF ChannelStep, r

\* What a call on a channel does in a step.
GoesOnAt(w) == PassesOn(w) \/ ReadsOn(w) \/ PutsOn(w) \/ DelsOn(w) \/ ListsOn(w)

\* Doing is kept until the call is done.
LEMMA OnStep ==
  ASSUME RunningOK, ChannelStep, NEW w \in 1..2, NEW op, NEW ch, Doing(w, op, ch)'
  PROVE  \/ Doing(w, op, ch) /\ running'[w] = running[w] /\ At(w)' = At(w) /\ Steps(w)' = Steps(w)
         \/ BeginsOn(w)
         \/ /\ Doing(w, op, ch) /\ At(w)' = At(w) + 1 /\ At(w) < Len(Steps(w)) /\ GoesOnAt(w)
            /\ Steps(w)' = Steps(w)
<1>0. Busy(w)' /\ running'[w].call[1] = op /\ running'[w].call[2] = ch
  BY DEF Doing
<1>1. ASSUME running'[w] = running[w] PROVE Doing(w, op, ch) /\ At(w)' = At(w) /\ Steps(w)' = Steps(w)
  BY <1>1 DEF Doing, Busy, At, Steps
<1>2. ASSUME GoesOnAt(w)
      PROVE  Doing(w, op, ch) /\ At(w)' = At(w) + 1 /\ At(w) < Len(Steps(w)) /\ Steps(w)' = Steps(w)
  <2>1. Busy(w) /\ Moves(w)
    BY <1>2 DEF GoesOnAt, PassesOn, ReadsOn, PutsOn, PutsAt, DelsOn, DelsAt, ListsOn
  <2> QED
    BY <1>0, <2>1 DEF Moves, Doing, Steps
<1>3. ~Crashed /\ ~HaltsOn(w)
  BY <1>0 DEF Crashed, HaltsOn
<1>4. \A v : BeginsOn(v) \/ HaltsOn(v) \/ GoesOnAt(v) => Others(v)
  BY DEF BeginsOn, HaltsOn, GoesOnAt, PassesOn, ReadsOn, PutsOn, PutsAt, DelsOn, DelsAt, ListsOn
<1>5. PICK v \in 1..2 : BeginsOn(v) \/ HaltsOn(v) \/ GoesOnAt(v)
  BY <1>3 DEF ChannelStep, GoesOnAt
<1>6. CASE v # w
  <2>1. running'[w] = running[w]
    BY <1>4, <1>5, <1>6 DEF Others
  <2> QED
    BY <1>1, <2>1
<1>7. CASE v = w
  BY <1>2, <1>3, <1>5, <1>7, Zenon
<1> QED
  BY <1>6, <1>7

\* While one call alone is at a channel, no other step changes what its lists hold.
LEMMA Steady ==
  ASSUME RunningOK, ListsOK, AloneOrAstray, ChannelStep, NEW w \in 1..2, NEW ch, On(w, ch),
         NEW k \in 1..2, Pair(ch, k) \notin astray', ~(PutsOn(w) /\ At(w) = 1)
  PROVE  /\ Pair(ch, k) \notin astray
         /\ \/ Linked(ch, k)' <=> Linked(ch, k)
            \/ ListsOn(w) /\ Next1(w).key = Links(Channel[ch][k])
         /\ Saved(<<"channel", ch>>) => Saved(<<"channel", ch>>)' \/ (DelsOn(w) /\ At(w) = 8 /\ Deleting(w, ch))
<1>1. Pair(ch, k) \notin astray
  <2> SUFFICES ASSUME Pair(ch, k) \in astray PROVE FALSE
    OBVIOUS
  <2>1. PICK v \in 1..2 : /\ PutsOn(v) /\ Next1(v).key = <<"channel", ch>>
                          /\ \A u \in 1..2 : u # v => ~On(u, ch)
    BY AstrayIs DEF Pair
  <2>2. v = w
    BY <2>1
  <2> QED
    BY <2>1, <2>2, ChannelPut
<1>2. \A v \in 1..2 : v # w => ~On(v, ch)
  BY <1>1, OnAt DEF AloneOrAstray
<1>3. \/ Linked(ch, k)' <=> Linked(ch, k)
      \/ ListsOn(w) /\ Next1(w).key = Links(Channel[ch][k])
  <2>1. \/ ch \in List(Channel[ch][k])' <=> ch \in List(Channel[ch][k])
        \/ \E v \in 1..2 : ListsOn(v) /\ On(v, ch) /\ Next1(v).key = Links(Channel[ch][k])
    BY ListKept DEF Pair
  <2> QED
    BY <1>2, <2>1 DEF Linked
<1>4. ASSUME Saved(<<"channel", ch>>), ~Saved(<<"channel", ch>>)'
      PROVE  DelsOn(w) /\ At(w) = 8 /\ Deleting(w, ch)
  <2>1. PICK v \in 1..2 : DelsOn(v) /\ Next1(v).key = <<"channel", ch>>
    BY <1>4, ChannelSaved
  <2>2. Deleting(v, ch) /\ At(v) = 8
    BY <2>1, ChannelDel
  <2>3. v = w
    BY <1>2, <2>2 DEF On
  <2> QED
    BY <2>1, <2>2, <2>3
<1> QED
  BY <1>1, <1>3, <1>4

\* A list step of the one call at a channel does what it is to.
LEMMA Lists ==
  ASSUME RunningOK, SavingOK, DeletingOK, NEW w \in 1..2, ListsOn(w), NEW ch, On(w, ch),
         NEW k \in 1..2, Pair(ch, k) \notin astray, Next1(w).key = Links(Channel[ch][k])
  PROVE  /\ Saving(w, ch) => Linked(ch, k)'
         /\ Deleting(w, ch) => ~Linked(ch, k)'
<1> DEFINE n == Channel[ch][k]
           seen == running[w].seen
<1>1. /\ Next1(w).do \in {"link", "unlink"} /\ ListStep(w) /\ Key(w) = Links(n) /\ Key(w)[2] = n
      /\ Of(running[w].call) = ch /\ ch \in DOMAIN Channel
  BY OnAt DEF ListsOn, Links
<1>2. ASSUME NEW list, PutsList(w, n, list) PROVE List(n)' = list
  BY <1>2 DEF PutsList, List
<1>3. ASSUME UNCHANGED db PROVE List(n)' = List(n)
  BY <1>3 DEF List
<1>4. \A i \in 1..2 : Links(Channel[ch][i]) = Links(n) => Channel[ch][i] = n
  BY DEF Links
<1>5. ASSUME Saving(w, ch) PROVE ch \in List(n)'
  <2>1. Next1(w).do = "link"
    BY <1>1, <1>5, SavePlaces
  <2>2. PICK i \in 1..2 : Stage(w) = 2 * i + 1 /\ Links(Channel[ch][i]) = Links(n)
    BY <1>5, <2>1, SavePlaces
  <2>3. ch \in seen <=> ch \in List(n)
    BY <1>1, <1>4, <1>5, <2>2 DEF SavingOK, Pair, Linked
  <2>4. \/ UNCHANGED db /\ ch \in seen
        \/ PutsList(w, n, seen \union {ch})
    BY <1>1, <2>1 DEF ListStep
  <2> QED
    BY <1>2, <1>3, <2>3, <2>4
<1>6. ASSUME Deleting(w, ch) PROVE ch \notin List(n)'
  <2>1. Next1(w).do = "unlink"
    BY <1>1, <1>6, DeletePlaces
  <2>2. PICK i \in 1..2 : At(w) = 2 * i + 3 /\ Links(Channel[ch][i]) = Links(n)
    BY <1>6, <2>1, DeletePlaces
  <2>3. ch \in seen <=> ch \in List(n)
    BY <1>1, <1>4, <1>6, <2>2 DEF DeletingOK, Pair, Linked
  <2>4. \/ UNCHANGED db /\ ch \notin seen
        \/ PutsList(w, n, seen \ {ch})
    BY <1>1, <2>1 DEF ListStep
  <2> QED
    BY <1>2, <1>3, <2>3, <2>4
<1> QED
  BY <1>5, <1>6 DEF Linked

\* What is in a list is saved: only the deletion of the channel, when it has taken it off both lists, is not.
LEMMA ListsHold ==
  ASSUME RunningOK, RunningOK', ListsOK, AloneOrAstray, SavingOK, DeletingOK, ChannelStep
  PROVE  ListsOK'
<1>1. ASSUME NEW n, NEW ch, ch \in List(n), <<n, ch>> \notin astray'
      PROVE  Saved(<<"channel", ch>>)' /\ \E k \in 1..2 : n = Channel[ch][k]
  <2>1. CASE <<n, ch>> \in astray
    <3>1. PICK w \in 1..2 : /\ PutsOn(w) /\ Next1(w).key = <<"channel", ch>>
                            /\ \E k \in 1..2 : n = Channel[ch][k]
      BY <1>1, <2>1, AstrayIs
    <3>2. Saved(<<"channel", ch>>)'
      BY <3>1 DEF PutsOn, PutsAt, Saved
    <3> QED
      BY <3>1, <3>2
  <2>2. CASE <<n, ch>> \notin astray
    <3>1. Saved(<<"channel", ch>>) /\ \E k \in 1..2 : n = Channel[ch][k]
      <4>1. Links(n) \in DOMAIN db /\ ch \in db[Links(n)] /\ Links(n)[1] = "links" /\ Links(n)[2] = n
        BY <1>1 DEF List, Links
      <4> QED
        BY <2>2, <4>1 DEF ListsOK
    <3>2. PICK k \in 1..2 : n = Channel[ch][k]
      BY <3>1
    <3>3. ASSUME ~Saved(<<"channel", ch>>)' PROVE FALSE
      <4>1. PICK w \in 1..2 : DelsOn(w) /\ Next1(w).key = <<"channel", ch>>
        BY <3>1, <3>3, ChannelSaved
      <4>2. Deleting(w, ch) /\ At(w) = 8 /\ At(w) > 2 * k + 3
        BY <4>1, ChannelDel
      <4>3. ch \in DOMAIN Channel
        BY <4>2, DeleteAt
      <4> QED
        BY <1>1, <2>2, <3>2, <4>2, <4>3 DEF DeletingOK, Linked, Pair
    <3> QED
      BY <3>1, <3>3
  <2> QED
    BY <2>1, <2>2
<1>2. ASSUME NEW w \in 1..2, ListsOn(w)
      PROVE  ListsOK'
  <2> PICK ch, n, seen : ch = Of(running[w].call) /\ n = Key(w)[2] /\ seen = running[w].seen
    OBVIOUS
  <2>1. Busy(w) /\ Next1(w).do \in {"link", "unlink"} /\ ListStep(w) /\ Key(w) = Next1(w).key
    BY <1>2 DEF ListsOn
  <2>2. StepOK(running[w].call, Next1(w)) /\ seen \subseteq DOMAIN Channel
    BY <2>1, BusyIs DEF Tasks, RunningOK, Next1
  <2>3. ch \in DOMAIN Channel /\ On(w, ch)
    BY <2>1, <2>2 DEF StepOK, On, Saving, Deleting, Doing, Op, Of
  <2>4. PICK k \in 1..2 : Key(w) = Links(Channel[ch][k])
    BY <2>1, <2>2 DEF StepOK
  <2>5. n = Channel[ch][k] /\ Key(w) = Links(n)
    BY <2>4 DEF Links
  <2>6. CASE UNCHANGED <<db, astray>>
    BY <2>6 DEF ListsOK, Saved
  <2>7. ASSUME NEW list, PutsList(w, n, list), list = seen \union {ch} \/ list = seen \ {ch},
               Next1(w).do = "unlink" => list = seen \ {ch}
        PROVE  ListsOK'
    <3> SUFFICES ASSUME NEW key \in DOMAIN db', key[1] = "links"
                 PROVE  /\ key = Links(key[2]) /\ db'[key] \subseteq DOMAIN Channel
                        /\ \A x \in db'[key] :
                             \/ <<key[2], x>> \in astray'
                             \/ Saved(<<"channel", x>>)' /\ \E i \in 1..2 : key[2] = Channel[x][i]
      BY DEF ListsOK
    <3>1. CASE key # Links(n)
      <4>1. key \in DOMAIN db /\ db'[key] = db[key]
        BY <2>7, <3>1 DEF PutsList
      <4>2. key = Links(key[2]) /\ db[key] \subseteq DOMAIN Channel /\ \A x \in db[key] : x \in List(key[2])
        BY <4>1 DEF ListsOK, List
      <4> QED
        BY <1>1, <4>1, <4>2
    <3>2. CASE key = Links(n)
      <4>1. db'[key] = list /\ key[2] = n /\ list \subseteq DOMAIN Channel
        BY <2>2, <2>3, <2>7, <3>2 DEF PutsList, Links
      <4>2. ASSUME NEW x \in list, <<n, x>> \notin astray', x # ch
            PROVE  Saved(<<"channel", x>>)' /\ \E i \in 1..2 : n = Channel[x][i]
        <5>1. x \in seen /\ x \notin seen \ List(n)
          BY <2>7, <4>2 DEF PutsList
        <5> QED
          BY <1>1, <4>2, <5>1
      <4>3. ASSUME ch \in list, <<n, ch>> \notin astray' PROVE Saved(<<"channel", ch>>)'
        <5>1. Saving(w, ch)
          BY <2>1, <2>3, <2>7, <4>3, DeletePlaces DEF On
        <5>2. At(w) > 1 /\ At(w) # 1
          <6>1. Next1(w).do # "put"
            BY <2>1
          <6>2. At(w) # 1 /\ At(w) \in 1..Len(Steps(w)) /\ Len(Steps(w)) \in 5..6
            BY <5>1, <6>1, SavePlaces, SaveAt
          <6> QED
            BY <6>2
        <5>3. Pair(ch, k) \notin astray'
          BY <2>5, <4>3 DEF Pair
        <5>4. Pair(ch, k) \notin astray
          BY <2>3, <5>2, <5>3, Steady
        <5>5. Saved(<<"channel", ch>>)
          BY <2>3, <5>1, <5>2, <5>4 DEF SavingOK
        <5>6. DelsOn(w) => FALSE
          BY <2>1 DEF DelsOn, DelsAt
        <5> QED
          BY <2>3, <5>2, <5>3, <5>5, <5>6, Steady
      <4> QED
        BY <2>5, <3>2, <4>1, <4>2, <4>3
    <3> QED
      BY <3>1, <3>2
  <2>8. \/ UNCHANGED <<db, astray>>
        \/ Next1(w).do = "link" /\ PutsList(w, n, seen \union {ch})
        \/ Next1(w).do = "unlink" /\ PutsList(w, n, seen \ {ch})
    BY <2>1 DEF ListStep
  <2> QED
    BY <2>6, <2>7, <2>8
<1>3. ASSUME ~(\E w \in 1..2 : ListsOn(w)) PROVE ListsOK'
  <2>1. ASSUME NEW key \in DOMAIN db', key[1] = "links" PROVE key \in DOMAIN db /\ db'[key] = db[key]
    <3>1. ASSUME UNCHANGED db PROVE key \in DOMAIN db /\ db'[key] = db[key]
      BY <3>1
    <3>2. ASSUME NEW w \in 1..2, PutsOn(w) PROVE key \in DOMAIN db /\ db'[key] = db[key]
      <4>1. Busy(w) /\ Next1(w).do = "put" /\ PutsAt(w)
        BY <3>2 DEF PutsOn, PutsAt
      <4>2. StepOK(running[w].call, Next1(w))
        BY <4>1, BusyIs DEF Tasks, RunningOK, Next1
      <4>3. Next1(w).key # key
        BY <2>1, <4>1, <4>2 DEF StepOK, Primary, Secondary
      <4> QED
        BY <4>1, <4>3 DEF PutsAt
    <3>3. ASSUME NEW w \in 1..2, DelsOn(w) PROVE key \in DOMAIN db /\ db'[key] = db[key]
      BY <3>3 DEF DelsOn, DelsAt
    <3> QED
      BY <1>3, <3>1, <3>2, <3>3 DEF ChannelStep, BeginsOn, HaltsOn, PassesOn, ReadsOn, Crashed
  <2>2. ASSUME NEW key \in DOMAIN db', key[1] = "links"
        PROVE  /\ key = Links(key[2]) /\ db'[key] \subseteq DOMAIN Channel
               /\ \A x \in db'[key] : x \in List(key[2])
    BY <2>1, <2>2 DEF ListsOK, List
  <2> QED
    BY <1>1, <2>2 DEF ListsOK
<1> QED
  BY <1>2, <1>3

\* Of two calls on a channel the later finds the other working.
LEMMA AloneHolds ==
  ASSUME RunningOK, RunningOK', AloneOrAstray, ChannelStep
  PROVE  AloneOrAstray'
<1> SUFFICES ASSUME NEW ch \in DOMAIN Channel, NEW v \in 1..2, NEW w \in 1..2, v # w, On(v, ch)', On(w, ch)',
                    NEW k \in 1..2
             PROVE  Pair(ch, k) \in astray'
  BY DEF AloneOrAstray, Pair
<1>1. \A u \in 1..2 : On(u, ch)' => On(u, ch) \/ BeginsOn(u)
  BY OnStep DEF On, Saving, Deleting
<1>2. ASSUME NEW u \in 1..2, NEW t \in 1..2, u # t, On(u, ch)', On(t, ch)', BeginsOn(u) PROVE Pair(ch, k) \in astray'
  <2>1. running'[t] = running[t]
    BY <1>2 DEF BeginsOn, Others
  <2>2. On(t, ch)
    BY <1>2, <2>1 DEF On, Saving, Deleting, Doing, Busy
  <2>3. Busy(t) /\ <<"channel", ch>> \in Records(running[t].call)
    BY <2>2, OnAt
  <2>4. Working(<<"channel", ch>>)
    BY <2>3 DEF Working, Tasks, RunningOK
  <2>5. Op(running'[u].call) \in {"saveChannelAnnouncement", "deleteChannelAnnouncement"} /\ Of(running'[u].call) = ch
    BY <1>2 DEF On, Saving, Deleting, Doing, Op, Of
  <2>6. <<"channel", ch>> \in {r \in Records(running'[u].call) : Working(r)}
    BY <2>4, <2>5, RecordsAre
  <2> QED
    BY <1>2, <2>6, LinksOfSome DEF BeginsOn
<1>3. CASE On(v, ch) /\ On(w, ch)
  <2>1. Pair(ch, k) \in astray
    BY <1>3 DEF AloneOrAstray
  <2> QED
    BY <1>3, <2>1, AstrayIs DEF Pair
<1> QED
  BY <1>1, <1>2, <1>3

\* A save that is alone with its channel finds in the list what it left there.
LEMMA SavingHolds ==
  ASSUME RunningOK, RunningOK', ListsOK, AloneOrAstray, SavingOK, DeletingOK, ChannelStep
  PROVE  SavingOK'
<1> SUFFICES ASSUME NEW w \in 1..2, NEW ch \in DOMAIN Channel, Saving(w, ch)', NEW k \in 1..2, Pair(ch, k) \notin astray'
             PROVE  /\ At(w)' > 1 => Saved(<<"channel", ch>>)'
                    /\ Stage(w)' = 2 * k + 1 => (ch \in running'[w].seen <=> Linked(ch, k)')
                    /\ Stage(w)' > 2 * k + 1 => Linked(ch, k)'
  BY DEF SavingOK, Pair
<1> DEFINE op == "saveChannelAnnouncement"
<1>0. Doing(w, op, ch)'
  BY DEF Saving
<1>6. Len(Steps(w)') \in 5..6
  BY <1>0, SavingLength DEF Doing, Steps, Op
<1>1. CASE BeginsOn(w)
  <2>1. At(w)' = 1 /\ Stage(w)' = 1 - Len(Steps(w)') + 5
    BY <1>1 DEF BeginsOn, Stage
  <2>2. Stage(w)' \in 0..1
    BY <1>6, <2>1, StageRange
  <2> QED
    BY <2>1, <2>2
<1>2. CASE Doing(w, op, ch) /\ PutsOn(w) /\ At(w) = 1 /\ At(w)' = At(w) + 1 /\ Steps(w)' = Steps(w)
  <2>1. Saving(w, ch)
    BY <1>2 DEF Saving
  <2>2. Next1(w).key = <<"channel", ch>>
    BY <1>2, <2>1, SaveAt
  <2>3. Saved(<<"channel", ch>>)'
    BY <1>2, <2>2 DEF PutsOn, PutsAt, Saved
  <2>4. Stage(w)' \in 1..2
    <3>1. Stage(w)' = 1 + 1 - Len(Steps(w)') + 5
      BY <1>2 DEF Stage
    <3> QED
      BY <1>6, <3>1, StageRange
  <2> QED
    BY <2>3, <2>4
<1>3. ASSUME Doing(w, op, ch), ~(PutsOn(w) /\ At(w) = 1)
      PROVE  /\ Saving(w, ch) /\ On(w, ch) /\ Pair(ch, k) \notin astray /\ At(w) \in 1..Len(Steps(w))
             /\ Len(Steps(w)) \in 5..6 /\ Stage(w) \in 0..5
             /\ \/ Linked(ch, k)' <=> Linked(ch, k)
                \/ ListsOn(w) /\ Next1(w).key = Links(Channel[ch][k])
             /\ Saved(<<"channel", ch>>) => Saved(<<"channel", ch>>)'
             /\ At(w) > 1 => Saved(<<"channel", ch>>)
             /\ Stage(w) = 2 * k + 1 => (ch \in running[w].seen <=> Linked(ch, k))
             /\ Stage(w) > 2 * k + 1 => Linked(ch, k)
  <2>1. Saving(w, ch) /\ On(w, ch)
    BY <1>3 DEF Saving, On
  <2>2. /\ At(w) \in 1..Len(Steps(w)) /\ Len(Steps(w)) \in 5..6 /\ Stage(w) \in 0..5
        /\ ~(DelsOn(w) /\ At(w) = 8)
    <3>1. At(w) \in 1..Len(Steps(w)) /\ Len(Steps(w)) \in 5..6
      BY <2>1, SaveAt
    <3>2. Stage(w) \in 0..5
      BY <2>1, SaveAt
    <3>3. At(w) # 8
      BY <3>1, StageRange
    <3> QED
      BY <3>1, <3>2, <3>3
  <2>3. Pair(ch, k) \notin astray
    BY <1>3, <2>1, Steady
  <2> QED
    BY <1>3, <2>1, <2>2, <2>3, Steady DEF SavingOK
<1>4. CASE Doing(w, op, ch) /\ running'[w] = running[w] /\ At(w)' = At(w) /\ Steps(w)' = Steps(w)
  <2>1. ~ListsOn(w) /\ ~PutsOn(w)
    <3>1. Busy(w) /\ Busy(w)' /\ At(w) \in 1..Len(Steps(w)) /\ Len(Steps(w)) \in 5..6
      BY <1>0, <1>4, SaveAt DEF Doing, Saving
    <3>2. ~Moves(w)
      BY <1>4, <3>1 DEF Moves
    <3> QED
      BY <3>2 DEF ListsOn, PutsOn, PutsAt
  <2>2. Stage(w)' = Stage(w)
    BY <1>4 DEF Stage
  <2> QED
    BY <1>3, <1>4, <2>1, <2>2
<1>5. CASE /\ Doing(w, op, ch) /\ At(w)' = At(w) + 1 /\ At(w) < Len(Steps(w)) /\ GoesOnAt(w)
           /\ Steps(w)' = Steps(w) /\ ~(PutsOn(w) /\ At(w) = 1)
  <2>1. Saving(w, ch)
    BY <1>3, <1>5
  <2>2. At(w) # 1 /\ At(w) \in 1..Len(Steps(w)) /\ Stage(w) \in 0..5 /\ Stage(w)' = Stage(w) + 1
    <3>1. At(w) = 1 => Next1(w).do = "put"
      BY <2>1, SavePlaces
    <3>2. Next1(w).do = "put" => PutsOn(w)
      BY <1>5 DEF GoesOnAt, PassesOn, ReadsOn, DelsOn, DelsAt, ListsOn
    <3>3. Stage(w)' = Stage(w) + 1
      BY <1>3, <1>5 DEF Stage
    <3> QED
      BY <1>3, <1>5, <3>1, <3>2, <3>3
  <2>3. Saved(<<"channel", ch>>)'
    BY <1>3, <1>5, <2>2
  <2>4. Stage(w) = 2 * k + 1 => Linked(ch, k)'
    <3> SUFFICES ASSUME Stage(w) = 2 * k + 1 PROVE Linked(ch, k)'
      OBVIOUS
    <3>1. Next1(w).do = "link" /\ Next1(w).key = Links(Channel[ch][k])
      BY <2>1, SaveAt DEF Do
    <3>2. ListsOn(w)
      BY <1>5, <3>1 DEF GoesOnAt, PassesOn, ReadsOn, PutsOn, PutsAt, DelsOn, DelsAt
    <3> QED
      BY <1>3, <1>5, <3>1, <3>2, Lists
  <2>5. Stage(w) > 2 * k + 1 => Linked(ch, k)'
    <3> SUFFICES ASSUME Stage(w) > 2 * k + 1 PROVE Linked(ch, k)'
      OBVIOUS
    <3>1. Linked(ch, k)
      BY <1>3, <1>5
    <3> QED
      BY <1>3, <1>5, <3>1, Lists
  <2>6. Stage(w)' = 2 * k + 1 => (ch \in running'[w].seen <=> Linked(ch, k)')
    <3> SUFFICES ASSUME Stage(w) = 2 * k PROVE ch \in running'[w].seen <=> Linked(ch, k)'
      BY <1>5, <2>2
    <3>1. Next1(w).do = "read" /\ Next1(w).key = Links(Channel[ch][k])
      BY <2>1, SaveAt DEF Do
    <3>2. ReadsOn(w) /\ ~ListsOn(w)
      BY <1>5, <3>1 DEF GoesOnAt, PassesOn, ReadsOn, PutsOn, PutsAt, DelsOn, DelsAt, ListsOn
    <3>3. Next1(w).key[2] = Channel[ch][k]
      BY <3>1 DEF Links
    <3>4. running'[w].seen = List(Channel[ch][k])
      BY <3>2, <3>3 DEF ReadsOn
    <3>5. Linked(ch, k)' <=> Linked(ch, k)
      BY <1>3, <1>5, <3>2
    <3> QED
      BY <3>4, <3>5 DEF Linked
  <2>7. Stage(w)' > 2 * k + 1 => Stage(w) = 2 * k + 1 \/ Stage(w) > 2 * k + 1
    BY <1>5, <2>2
  <2> QED
    BY <2>3, <2>4, <2>5, <2>6, <2>7
<1> QED
  BY <1>0, <1>1, <1>2, <1>4, <1>5, OnStep

\* The same of a deletion.
LEMMA DeletingHolds ==
  ASSUME RunningOK, RunningOK', ListsOK, AloneOrAstray, SavingOK, DeletingOK, ChannelStep
  PROVE  DeletingOK'
<1> SUFFICES ASSUME NEW w \in 1..2, NEW ch \in DOMAIN Channel, Deleting(w, ch)', NEW k \in 1..2, Pair(ch, k) \notin astray'
             PROVE  /\ At(w)' = 2 * k + 3 => (ch \in running'[w].seen <=> Linked(ch, k)')
                    /\ At(w)' > 2 * k + 3 => ~Linked(ch, k)'
  BY DEF DeletingOK, Pair
<1> DEFINE op == "deleteChannelAnnouncement"
<1>0. Doing(w, op, ch)'
  BY DEF Deleting
<1>1. CASE BeginsOn(w)
  BY <1>1 DEF BeginsOn
<1>3. ASSUME Doing(w, op, ch)
      PROVE  /\ Deleting(w, ch) /\ On(w, ch) /\ Pair(ch, k) \notin astray /\ At(w) \in 1..8
             /\ \/ Linked(ch, k)' <=> Linked(ch, k)
                \/ ListsOn(w) /\ Next1(w).key = Links(Channel[ch][k])
             /\ At(w) = 2 * k + 3 => (ch \in running[w].seen <=> Linked(ch, k))
             /\ At(w) > 2 * k + 3 => ~Linked(ch, k)
  <2>1. Deleting(w, ch) /\ On(w, ch)
    BY <1>3 DEF Deleting, On
  <2>2. At(w) \in 1..8
    BY <2>1, DeleteAt
  <2>3. ~PutsOn(w)
    <3>1. Next1(w).do # "put"
      BY <2>1, DeletePlaces
    <3> QED
      BY <3>1 DEF PutsOn, PutsAt
  <2>4. Pair(ch, k) \notin astray
    BY <2>1, <2>3, Steady
  <2> QED
    BY <2>1, <2>2, <2>3, <2>4, Steady DEF DeletingOK
<1>4. CASE Doing(w, op, ch) /\ running'[w] = running[w] /\ At(w)' = At(w)
  <2>1. ~ListsOn(w)
    <3>1. Busy(w) /\ Busy(w)' /\ At(w) \in 1..8
      BY <1>0, <1>3, <1>4 DEF Doing
    <3>2. ~Moves(w)
      BY <1>4, <3>1 DEF Moves
    <3> QED
      BY <3>2 DEF ListsOn
  <2> QED
    BY <1>3, <1>4, <2>1
<1>5. CASE Doing(w, op, ch) /\ At(w)' = At(w) + 1 /\ At(w) < Len(Steps(w)) /\ GoesOnAt(w)
  <2>1. Deleting(w, ch) /\ On(w, ch) /\ At(w) \in 1..8
    BY <1>3, <1>5
  <2>4. At(w) = 2 * k + 3 => ~Linked(ch, k)'
    <3> SUFFICES ASSUME At(w) = 2 * k + 3 PROVE ~Linked(ch, k)'
      OBVIOUS
    <3>1. Next1(w).do = "unlink" /\ Next1(w).key = Links(Channel[ch][k])
      BY <2>1, DeleteAt DEF Do
    <3>2. ListsOn(w)
      BY <1>5, <3>1 DEF GoesOnAt, PassesOn, ReadsOn, PutsOn, PutsAt, DelsOn, DelsAt
    <3> QED
      BY <1>3, <1>5, <3>1, <3>2, Lists
  <2>5. At(w) > 2 * k + 3 => ~Linked(ch, k)'
    <3> SUFFICES ASSUME At(w) > 2 * k + 3 PROVE ~Linked(ch, k)'
      OBVIOUS
    <3>1. ~Linked(ch, k)
      BY <1>3, <1>5
    <3> QED
      BY <1>3, <1>5, <3>1, Lists
  <2>6. At(w)' = 2 * k + 3 => (ch \in running'[w].seen <=> Linked(ch, k)')
    <3> SUFFICES ASSUME At(w) = 2 * k + 2 PROVE ch \in running'[w].seen <=> Linked(ch, k)'
      BY <1>5, <2>1
    <3>1. Next1(w).do = "read" /\ Next1(w).key = Links(Channel[ch][k])
      BY <2>1, DeleteAt DEF Do
    <3>2. ReadsOn(w) /\ ~ListsOn(w)
      BY <1>5, <3>1 DEF GoesOnAt, PassesOn, ReadsOn, PutsOn, PutsAt, DelsOn, DelsAt, ListsOn
    <3>3. Next1(w).key[2] = Channel[ch][k]
      BY <3>1 DEF Links
    <3>4. running'[w].seen = List(Channel[ch][k])
      BY <3>2, <3>3 DEF ReadsOn
    <3>5. Linked(ch, k)' <=> Linked(ch, k)
      BY <1>3, <1>5, <3>2
    <3> QED
      BY <3>4, <3>5 DEF Linked
  <2>7. At(w)' > 2 * k + 3 => At(w) = 2 * k + 3 \/ At(w) > 2 * k + 3
    BY <1>5, <2>1
  <2> QED
    BY <2>4, <2>5, <2>6, <2>7
<1> QED
  BY <1>0, <1>1, <1>4, <1>5, OnStep

\* What a task in a call can do next.
LEMMA TaskAfter ==
  ASSUME RunningOK, ChannelStep, NEW w \in 1..2, Busy(w)
  PROVE  Crashed \/ running'[w] = running[w] \/ HaltsOn(w) \/ GoesOnAt(w)
<1>1. \A v : BeginsOn(v) \/ HaltsOn(v) \/ GoesOnAt(v) => Others(v)
  BY DEF BeginsOn, HaltsOn, GoesOnAt, PassesOn, ReadsOn, PutsOn, PutsAt, DelsOn, DelsAt, ListsOn
<1>2. ~BeginsOn(w)
  BY DEF BeginsOn
<1>3. Crashed \/ \E v \in 1..2 : BeginsOn(v) \/ HaltsOn(v) \/ GoesOnAt(v)
  BY DEF ChannelStep, GoesOnAt
<1> QED
  BY <1>1, <1>2, <1>3 DEF Others

\* A channel that is saved is in both lists, or a call is to put it there or to take it off.
LEMMA LinkedHolds ==
  ASSUME RunningOK, RunningOK', ListsOK, AloneOrAstray, SavingOK, DeletingOK, LinkedOK, ChannelStep
  PROVE  LinkedOK'
<1> SUFFICES ASSUME NEW ch \in DOMAIN Channel, Saved(<<"channel", ch>>)', <<"channel", ch>> \notin torn',
                    NEW k \in 1..2, Pair(ch, k) \notin astray', ~Linked(ch, k)'
             PROVE  \E w \in 1..2 : Deleting(w, ch)' \/ (Saving(w, ch)' /\ Stage(w)' <= 2 * k + 1)
  BY DEF LinkedOK, Pair
<1>0. ASSUME NEW w \in 1..2, NEW op, Doing(w, op, ch)
      PROVE  /\ running'[w] = running[w] => Doing(w, op, ch)' /\ At(w)' = At(w) /\ Steps(w)' = Steps(w)
             /\ Moves(w) /\ At(w) < Len(Steps(w)) =>
                  Doing(w, op, ch)' /\ At(w)' = At(w) + 1 /\ Steps(w)' = Steps(w)
             /\ GoesOnAt(w) => Moves(w)
  <2>1. running'[w] = running[w] => Doing(w, op, ch)' /\ At(w)' = At(w) /\ Steps(w)' = Steps(w)
    BY <1>0 DEF Doing, Busy, At, Steps
  <2>2. Moves(w) /\ At(w) < Len(Steps(w)) => Doing(w, op, ch)' /\ At(w)' = At(w) + 1 /\ Steps(w)' = Steps(w)
    BY <1>0 DEF Doing, Moves, Steps
  <2>3. GoesOnAt(w) => Moves(w)
    BY DEF GoesOnAt, PassesOn, ReadsOn, PutsOn, PutsAt, DelsOn, DelsAt, ListsOn
  <2> QED
    BY <2>1, <2>2, <2>3
<1>1. CASE \E w \in 1..2 : PutsOn(w) /\ Next1(w).key = <<"channel", ch>>
  <2>1. PICK w \in 1..2 : PutsOn(w) /\ Next1(w).key = <<"channel", ch>>
    BY <1>1
  <2>2. Saving(w, ch) /\ At(w) = 1 /\ Len(Steps(w)) \in 5..6 /\ Moves(w)
    BY <2>1, ChannelPut, SaveAt DEF PutsOn, PutsAt
  <2>3. Doing(w, "saveChannelAnnouncement", ch) /\ At(w) < Len(Steps(w))
    BY <2>2, StageRange DEF Saving
  <2>4. Saving(w, ch)' /\ At(w)' = At(w) + 1 /\ Steps(w)' = Steps(w)
    BY <1>0, <2>2, <2>3 DEF Saving
  <2>5. Stage(w)' = 1 + 1 - Len(Steps(w)) + 5
    BY <2>2, <2>4 DEF Stage
  <2>6. Stage(w)' \in 1..2
    BY <2>2, <2>5, StageRange
  <2>7. Stage(w)' <= 2 * k + 1
    BY <2>6
  <2> QED
    BY <2>4, <2>7
<1>2. CASE ~\E w \in 1..2 : PutsOn(w) /\ Next1(w).key = <<"channel", ch>>
  <2>1. Pair(ch, k) \notin astray
    BY <1>2, AstrayIs DEF Pair
  <2>2. Saved(<<"channel", ch>>) /\ <<"channel", ch>> \notin torn
    BY <1>2, ChannelSaved
  <2>3. ~(\E w \in 1..2 : DelsOn(w) /\ Next1(w).key = <<"channel", ch>>)
    BY <2>2 DEF DelsOn, DelsAt, Saved
  <2>4. \/ Linked(ch, k)
        \/ \E w \in 1..2 : Deleting(w, ch) \/ (Saving(w, ch) /\ Stage(w) <= 2 * k + 1)
    BY <2>1, <2>2 DEF LinkedOK
  <2>5. ASSUME NEW w \in 1..2, On(w, ch) PROVE ~Crashed /\ Busy(w)
    <3>1. Busy(w) /\ Records(running[w].call) = {<<"channel", ch>>}
      BY <2>5, OnAt
    <3> QED
      BY <3>1 DEF Crashed
  <2>6. CASE Linked(ch, k)
    <3>1. PICK w \in 1..2 : ListsOn(w) /\ On(w, ch) /\ Next1(w).key = Links(Channel[ch][k])
      BY <2>6, ListKept DEF Linked, Pair
    <3>2. ~Saving(w, ch)
      BY <2>1, <3>1, Lists
    <3>3. Deleting(w, ch)
      BY <3>1, <3>2 DEF On
    <3>4. Next1(w).do # "del" /\ Moves(w)
      BY <3>1 DEF ListsOn
    <3>5. At(w) < Len(Steps(w))
      <4>1. At(w) # 8 /\ At(w) \in 1..8 /\ Len(Steps(w)) = 8
        BY <3>3, <3>4, DeleteAt
      <4> QED
        BY <4>1
    <3> QED
      BY <1>0, <3>3, <3>4, <3>5 DEF Deleting
  <2>7. ASSUME NEW w \in 1..2, Deleting(w, ch) PROVE Deleting(w, ch)'
    <3>1. At(w) \in 1..8 /\ Len(Steps(w)) = 8
      BY <2>7, DeleteAt
    <3>2. ~HaltsOn(w)
      <4>1. Next1(w).do # "throw" /\ (Next1(w).do = "need" => Next1(w).key = <<"channel", ch>>)
        BY <2>7, DeletePlaces, DeleteAt
      <4> QED
        BY <2>2, <4>1 DEF HaltsOn, Saved
    <3>3. CASE running'[w] = running[w]
      BY <1>0, <2>7, <3>3 DEF Deleting
    <3>4. CASE GoesOnAt(w)
      <4>1. At(w) # 8
        <5> SUFFICES ASSUME At(w) = 8 PROVE FALSE
          OBVIOUS
        <5>1. Next1(w).do = "del" /\ Next1(w).key = <<"channel", ch>>
          BY <2>7, DeleteAt
        <5>2. DelsOn(w)
          BY <3>4, <5>1 DEF GoesOnAt, PassesOn, ReadsOn, PutsOn, PutsAt, ListsOn
        <5> QED
          BY <2>3, <5>1, <5>2
      <4>2. At(w) < Len(Steps(w))
        BY <3>1, <4>1
      <4> QED
        BY <1>0, <2>7, <3>4, <4>2 DEF Deleting
    <3> QED
      BY <2>5, <2>7, <3>2, <3>3, <3>4, TaskAfter DEF On
  <2>8. ASSUME NEW w \in 1..2, Saving(w, ch), Stage(w) <= 2 * k + 1 PROVE Saving(w, ch)' /\ Stage(w)' <= 2 * k + 1
    <3>1. At(w) \in 1..Len(Steps(w)) /\ Len(Steps(w)) \in 5..6 /\ Stage(w) = At(w) - Len(Steps(w)) + 5
      BY <2>8, SaveAt DEF Stage
    <3>2. ~HaltsOn(w)
      <4>1. Next1(w).do \notin {"throw", "need"}
        BY <2>8, SavePlaces
      <4> QED
        BY <4>1 DEF HaltsOn
    <3>3. CASE running'[w] = running[w]
      BY <1>0, <2>8, <3>3 DEF Saving, Stage
    <3>4. CASE GoesOnAt(w)
      <4>1. Stage(w) # 2 * k + 1
        <5> SUFFICES ASSUME Stage(w) = 2 * k + 1 PROVE FALSE
          OBVIOUS
        <5>1. Next1(w).do = "link" /\ Next1(w).key = Links(Channel[ch][k])
          BY <2>8, SaveAt DEF Do
        <5>2. ListsOn(w)
          BY <3>4, <5>1 DEF GoesOnAt, PassesOn, ReadsOn, PutsOn, PutsAt, DelsOn, DelsAt
        <5> QED
          BY <2>1, <2>8, <5>1, <5>2, Lists DEF On
      <4>2. At(w) < Len(Steps(w)) /\ Stage(w) + 1 <= 2 * k + 1
        BY <2>8, <3>1, <4>1
      <4>3. Saving(w, ch)' /\ At(w)' = At(w) + 1 /\ Steps(w)' = Steps(w)
        BY <1>0, <2>8, <3>4, <4>2 DEF Saving
      <4>4. Stage(w)' = Stage(w) + 1
        BY <3>1, <4>3 DEF Stage
      <4> QED
        BY <4>2, <4>3, <4>4
    <3> QED
      BY <2>5, <2>8, <3>2, <3>3, <3>4, TaskAfter DEF On
  <2> QED
    BY <2>4, <2>6, <2>7, <2>8
<1> QED
  BY <1>1, <1>2

(***************************************************************************)
(* The theorems.                                                           *)
(***************************************************************************)
LEMMA StoresInit == Init => StoresInv
<1> SUFFICES ASSUME Init PROVE StoresInv
  OBVIOUS
<1>1. db = [k \in {Offer(c) : c \in DOMAIN Contract} |-> k[2]] /\ calls \in Workload
  BY DEF Init
<1>2. running = [w \in 1..2 |-> Idle] /\ astray = {}
  BY DEF Init
<1>3. \A key \in DOMAIN db : key[1] = "offer"
  BY <1>1 DEF Offer
<1>4. \A w \in 1..2 : ~Busy(w)
  BY <1>2 DEF Busy, Idle
<1>5. RunningOK
  <2>1. Idle \in TaskSet
    BY DEF Idle, TaskSet
  <2>2. calls \subseteq Calls
    BY <1>1 DEF Calls
  <2> QED
    BY <1>2, <1>4, <2>1, <2>2 DEF RunningOK, InCall, TaskSet
<1>6. PutsKnown /\ AloneOrAstray /\ SavingOK /\ DeletingOK
  BY <1>4 DEF PutsKnown, AloneOrAstray, SavingOK, DeletingOK, On, Saving, Deleting, Doing
<1>7. KeysStand /\ KeysBacked /\ ListsOK
  BY <1>3 DEF KeysStand, KeysBacked, ListsOK, StandsFor, Secondary
<1>8. Found /\ LinkedOK
  BY <1>3 DEF Found, LinkedOK, Saved, Indexed
<1> QED
  BY <1>5, <1>6, <1>7, <1>8 DEF StoresInv

\* Every step keeps it.
LEMMA StoresNext == StoresInv /\ [Next]_vars => StoresInv'
<1> SUFFICES ASSUME StoresInv, [Next]_vars PROVE StoresInv'
  OBVIOUS
<1>0. /\ RunningOK /\ PutsKnown /\ KeysStand /\ KeysBacked /\ Found
      /\ ListsOK /\ AloneOrAstray /\ SavingOK /\ DeletingOK /\ LinkedOK
  BY DEF StoresInv
<1>1. CASE Next
  <2>1. RunningOK' /\ RecordStep /\ ChannelStep
    BY <1>0, <1>1, RecordSteps, ChannelSteps
  <2>2. PutsKnown' /\ KeysStand' /\ KeysBacked' /\ Found'
    BY <1>0, <2>1, PutsKnownOK, KeysOK, FoundOK
  <2>3. ListsOK' /\ AloneOrAstray' /\ SavingOK' /\ DeletingOK' /\ LinkedOK'
    BY <1>0, <2>1, ListsHold, AloneHolds, SavingHolds, DeletingHolds, LinkedHolds
  <2> QED
    BY <2>1, <2>2, <2>3 DEF StoresInv
<1>2. CASE UNCHANGED vars
  <2>1. UNCHANGED <<db, calls, running, gone, torn, astray>>
    BY <1>2 DEF vars
  <2>2. RunningOK' /\ PutsKnown'
    BY <1>0, <2>1, SameInCall DEF RunningOK, PutsKnown, Known, Saved, At, Steps, Busy
  <2>3. KeysStand' /\ KeysBacked' /\ Found'
    BY <1>0, <2>1 DEF KeysStand, KeysBacked, Found, Known, Saved, Coming, At, Steps, Busy
  <2>4. ListsOK' /\ AloneOrAstray'
    BY <1>0, <2>1 DEF ListsOK, AloneOrAstray, Saved, On, Saving, Deleting, Doing, Busy
  <2>5. \A w, ch, k : /\ At(w)' = At(w) /\ Stage(w)' = Stage(w) /\ (Linked(ch, k)' <=> Linked(ch, k))
                      /\ (Saving(w, ch)' <=> Saving(w, ch)) /\ (Deleting(w, ch)' <=> Deleting(w, ch))
                      /\ (Saved(<<"channel", ch>>)' <=> Saved(<<"channel", ch>>))
    BY <2>1 DEF Linked, List, Saved, Saving, Deleting, Doing, Busy, At, Stage, Steps
  <2>6. SavingOK' /\ DeletingOK'
    BY <1>0, <2>1, <2>5 DEF SavingOK, DeletingOK
  <2>7. LinkedOK'
    BY <1>0, <2>1, <2>5 DEF LinkedOK
  <2> QED
    BY <2>2, <2>3, <2>4, <2>6, <2>7 DEF StoresInv
<1> QED
  BY <1>1, <1>2

\* What a key leads to is there.
LEMMA StoresIndex == StoresInv => IndexHasRecord
<1> SUFFICES ASSUME StoresInv PROVE IndexHasRecord
  OBVIOUS
<1>0. KeysBacked /\ ListsOK
  BY DEF StoresInv
<1>1. ASSUME NEW key \in DOMAIN db
      PROVE  /\ key[1] = "temp" => Known(<<"accept", db[key]>>)
             /\ key[1] = "script" => Known(<<"transactions", db[key]>>)
             /\ key[1] = "outpoint" =>
                  Known(<<"accept", db[key]>>) \/ Known(<<"transactions", db[key]>>) \/ Overrun(db[key])
             /\ key[1] = "funding" => Known(<<"channel", db[key]>>)
  BY <1>0 DEF KeysBacked, LedTo, Secondary
<1>2. ASSUME NEW key \in DOMAIN db, key[1] = "links"
      PROVE  \A ch \in db[key] : Saved(<<"channel", ch>>) \/ <<key[2], ch>> \in astray
  BY <1>0, <1>2 DEF ListsOK
<1> QED
  BY <1>1, <1>2 DEF IndexHasRecord

\* What is there is found by its keys.
LEMMA StoresIndexed == StoresInv => RecordIsIndexed
<1> SUFFICES ASSUME StoresInv PROVE RecordIsIndexed
  OBVIOUS
<1>0. RunningOK /\ KeysStand /\ Found /\ LinkedOK
  BY DEF StoresInv
<1>1. ASSUME NEW c, NEW r, Settled(r), Indexed(r, db[r], c), NEW key \in KeysOf(r, c)
      PROVE  key \in DOMAIN db /\ StandsFor(key, db[key])
  <2>1. key \in DOMAIN db \/ \E w \in 1..2 : Coming(w, r, key)
    BY <1>0, <1>1 DEF Found, Settled
  <2>2. \A w \in 1..2 : ~Coming(w, r, key)
    BY <1>0, <1>1 DEF Settled, Working, Coming, Tasks, RunningOK
  <2> QED
    BY <1>0, <2>1, <2>2 DEF KeysStand
<1>2. ASSUME NEW c \in DOMAIN Contract, Settled(<<"accept", c>>), ~Overrun(c)
      PROVE  /\ LeadsTo(Temp(c), LAMBDA x : Contract[x].temp = Contract[c].temp)
             /\ \A o \in ToSet(Contract[c].inputs) :
                  LeadsTo(Outpoint(o), LAMBDA x : Spends(x, o) \/ Contract[x].out = o)
  <2> DEFINE r == <<"accept", c>>
  <2>1. Indexed(r, db[r], c) /\ KeysOf(r, c) = {Temp(c)} \union {Outpoint(o) : o \in ToSet(Contract[c].inputs)}
    BY <1>2 DEF Indexed, KeysOf
  <2>2. Temp(c) \in DOMAIN db /\ StandsFor(Temp(c), db[Temp(c)])
    BY <1>1, <1>2, <2>1
  <2>3. Contract[db[Temp(c)]].temp = Contract[c].temp
    BY <2>2 DEF StandsFor, Temp
  <2>4. ASSUME NEW o \in ToSet(Contract[c].inputs)
        PROVE  /\ Outpoint(o) \in DOMAIN db
               /\ Spends(db[Outpoint(o)], o) \/ Contract[db[Outpoint(o)]].out = o
    <3>1. Outpoint(o) \in DOMAIN db /\ StandsFor(Outpoint(o), db[Outpoint(o)])
      BY <1>1, <1>2, <2>1
    <3> QED
      BY <3>1 DEF StandsFor, Outpoint
  <2> QED
    BY <2>2, <2>3, <2>4 DEF LeadsTo
<1>3. ASSUME NEW c \in DOMAIN Contract, Settled(<<"transactions", c>>)
      PROVE  /\ LeadsTo(Script(c), LAMBDA x : Contract[x].spk = Contract[c].spk)
             /\ LeadsTo(Outpoint(Contract[c].out), LAMBDA x : x = c \/ Spends(x, Contract[c].out))
  <2> DEFINE r == <<"transactions", c>>
             o == Contract[c].out
  <2>1. Indexed(r, db[r], c) /\ KeysOf(r, c) = {Script(c), Outpoint(o)}
    BY <1>3 DEF Indexed, KeysOf
  <2>2. /\ Script(c) \in DOMAIN db /\ StandsFor(Script(c), db[Script(c)])
        /\ Outpoint(o) \in DOMAIN db /\ StandsFor(Outpoint(o), db[Outpoint(o)])
    BY <1>1, <1>3, <2>1
  <2>3. Contract[db[Script(c)]].spk = Contract[c].spk
    BY <2>2 DEF StandsFor, Script
  <2>4. /\ db[Outpoint(o)] \in DOMAIN Contract
        /\ Spends(db[Outpoint(o)], o) \/ Contract[db[Outpoint(o)]].out = o
    BY <2>2 DEF StandsFor, Outpoint
  <2>5. Contract[db[Outpoint(o)]].out = o => db[Outpoint(o)] = c
    BY <2>4, ContractAssumption
  <2> QED
    BY <2>2, <2>3, <2>4, <2>5 DEF LeadsTo
<1>4. ASSUME NEW ch \in DOMAIN Channel, Settled(<<"channel", ch>>), NEW k \in 1..2
      PROVE  ch \in List(Channel[ch][k]) \/ <<Channel[ch][k], ch>> \in astray
  <2>1. \A w \in 1..2 : ~On(w, ch)
    <3> SUFFICES ASSUME NEW w \in 1..2, On(w, ch) PROVE FALSE
      OBVIOUS
    <3>1. Busy(w) /\ Records(running[w].call) = {<<"channel", ch>>} /\ w \in Tasks
      BY <1>0, OnAt DEF Tasks, RunningOK
    <3> QED
      BY <1>4, <3>1 DEF Settled, Working
  <2> QED
    BY <1>0, <1>4, <2>1 DEF LinkedOK, Settled, On, Linked, Pair
<1>5. ASSUME NEW ch \in DOMAIN Channel, Settled(<<"channel", ch>>), db[<<"channel", ch>>] = "extended"
      PROVE  LeadsTo(Funding(ch), LAMBDA x : Channel[x][3] = Channel[ch][3])
  <2> DEFINE r == <<"channel", ch>>
  <2>1. Indexed(r, db[r], ch) /\ KeysOf(r, ch) = {Funding(ch)}
    BY <1>5 DEF Indexed, KeysOf
  <2>2. Funding(ch) \in DOMAIN db /\ StandsFor(Funding(ch), db[Funding(ch)])
    BY <1>1, <1>5, <2>1
  <2>3. Channel[db[Funding(ch)]][3] = Channel[ch][3]
    BY <2>2 DEF StandsFor, Funding
  <2> QED
    BY <2>2, <2>3 DEF LeadsTo
<1> QED
  BY <1>2, <1>3, <1>4, <1>5 DEF RecordIsIndexed

\* The invariant of the two stores: what keys stand for, what is still to be put, and where the
\* calls on a channel are.
THEOREM StoresInvariant == Spec => []StoresInv
BY StoresInit, StoresNext, PTL DEF Spec

\* LeveldbDlcStore, LeveldbGossipStore: whatever the contracts, the channels and the calls, however
\* they interleave and crash, what a key leads to is there or was deleted since; but for the batches
\* that file too early and the lists two calls wrote over.
THEOREM StoresIndexHasRecord == Spec => []IndexHasRecord
BY StoresInvariant, StoresIndex, PTL

\* LeveldbDlcStore, LeveldbGossipStore: in the same cases a record whose saving was not cut short is
\* found by all its keys, and by those of a contract that stands for it.
THEOREM StoresRecordIsIndexed == Spec => []RecordIsIndexed
BY StoresInvariant, StoresIndexed, PTL

-----------------------------------------------------------------------------
(***************************************************************************)
(* FundingTx: sums.                                                        *)
(***************************************************************************)
\* the member of a set that is taken first
First(T) == CHOOSE x \in T : TRUE

\* h has the sums of f over the subsets of D, taken member by member.
Sums(h, f, D) ==
  /\ h \in [SUBSET D -> Int] /\ h[{}] = 0
  /\ \A T \in SUBSET D : T # {} => h[T] = f[First(T)] + h[T \ {First(T)}]

(* What holds of the empty set, and of a set whenever of one with a member  *)
(* less, holds of every finite set.                                        *)
LEMMA SetInduct ==
    ASSUME NEW D, IsFiniteSet(D), NEW G, {} \in G,
           \A T \in SUBSET D : T # {} /\ T \ {First(T)} \in G => T \in G
    PROVE  SUBSET D \subseteq G
<1> DEFINE S == {k \in Nat : \A T \in SUBSET D : Cardinality(T) = k => T \in G}
<1>1. \A T \in SUBSET D : IsFiniteSet(T) /\ Cardinality(T) \in Nat
    BY FS_Subset, FS_CardinalityType
<1>2. 0 \in S
    BY <1>1, FS_EmptySet
<1>3. ASSUME NEW k \in Nat, k \in S PROVE k + 1 \in S
    <2> SUFFICES ASSUME NEW T \in SUBSET D, Cardinality(T) = k + 1 PROVE T \in G
        OBVIOUS
    <2>1. T # {} /\ First(T) \in T
        BY <1>1, FS_EmptySet DEF First
    <2>2. Cardinality(T \ {First(T)}) = k
        BY <1>1, <2>1, FS_RemoveElement
    <2>3. T \ {First(T)} \in SUBSET D
        OBVIOUS
    <2>4. T \ {First(T)} \in G
        BY <1>3, <2>2, <2>3
    <2> QED BY <2>1, <2>4
<1> HIDE DEF S
<1>4. Nat \subseteq S
    BY <1>2, <1>3, Induct
<1> QED BY <1>1, <1>4 DEF S

LEMMA SumChosen ==
    ASSUME NEW f
    PROVE  SumOf(f) = (CHOOSE h : h = [T \in SUBSET DOMAIN f |->
                       IF T = {} THEN 0 ELSE f[First(T)] + h[T \ {First(T)}]])[DOMAIN f]
BY Zenon DEF SumOf, MapThenSumSet, MapThenFoldSet, First

(* SumOf follows this recursion. *)
LEMMA SumIs ==
    ASSUME NEW D, IsFiniteSet(D), NEW f \in [D -> Int]
    PROVE  \E h : Sums(h, f, D) /\ SumOf(f) = h[D]
<1> DEFINE E(h, T) == IF T = {} THEN 0 ELSE f[First(T)] + h[T \ {First(T)}]
           S == {k \in Nat : \E h \in [SUBSET D -> Int] : \A T \in SUBSET D : Cardinality(T) <= k => h[T] = E(h, T)}
           iter == CHOOSE h : h = [T \in SUBSET D |-> E(h, T)]
<1>1. \A T \in SUBSET D : IsFiniteSet(T) /\ Cardinality(T) \in Nat
    BY FS_Subset, FS_CardinalityType
<1>2. \A T \in SUBSET D : T # {} =>
        First(T) \in D /\ T \ {First(T)} \in SUBSET D /\ Cardinality(T \ {First(T)}) = Cardinality(T) - 1
    BY <1>1, FS_RemoveElement DEF First
<1>3. 0 \in S
    <2>1. [T \in SUBSET D |-> 0] \in [SUBSET D -> Int]
        OBVIOUS
    <2>2. \A T \in SUBSET D : Cardinality(T) <= 0 => T = {}
        BY <1>1, FS_EmptySet
    <2> QED BY <2>1, <2>2
<1>4. ASSUME NEW k \in Nat, k \in S PROVE k + 1 \in S
    <2>1. PICK h \in [SUBSET D -> Int] : \A T \in SUBSET D : Cardinality(T) <= k => h[T] = E(h, T)
        BY <1>4
    <2> DEFINE g == [T \in SUBSET D |-> IF Cardinality(T) <= k THEN h[T] ELSE E(h, T)]
    <2>2. g \in [SUBSET D -> Int]
        BY <1>2
    <2>3. ASSUME NEW T \in SUBSET D, Cardinality(T) <= k + 1 PROVE g[T] = E(g, T)
        <3>1. g[T] = E(h, T)
            BY <2>1
        <3>2. T # {} => g[T \ {First(T)}] = h[T \ {First(T)}]
            BY <1>1, <1>2, <2>3
        <3> HIDE DEF g
        <3> QED BY <3>1, <3>2
    <2> HIDE DEF g, E
    <2> QED BY <2>2, <2>3 DEF S
<1> HIDE DEF S
<1>5. Nat \subseteq S
    BY <1>3, <1>4, Induct
<1>6. PICK h \in [SUBSET D -> Int] : \A T \in SUBSET D : h[T] = E(h, T)
    <2>1. Cardinality(D) \in S /\ \A T \in SUBSET D : Cardinality(T) <= Cardinality(D)
        BY <1>1, <1>5, FS_Subset
    <2> QED BY <2>1 DEF S
<1>7. h = [T \in SUBSET D |-> E(h, T)]
    BY <1>6
<1>8. iter = [T \in SUBSET D |-> E(iter, T)]
    BY <1>7
<1> HIDE DEF iter
<1>9. iter[{}] = 0 /\ \A T \in SUBSET D : T # {} => iter[T] = f[First(T)] + iter[T \ {First(T)}]
    BY <1>8
<1> DEFINE G == {T \in SUBSET D : iter[T] \in Int}
<1>10. SUBSET D \subseteq G
    <2>1. {} \in G
        BY <1>9
    <2>2. ASSUME NEW T \in SUBSET D, T # {}, T \ {First(T)} \in G PROVE T \in G
        <3>1. f[First(T)] \in Int /\ iter[T \ {First(T)}] \in Int
            BY <1>2, <2>2
        <3>2. iter[T] = f[First(T)] + iter[T \ {First(T)}]
            BY <1>9, <2>2
        <3> QED BY <3>1, <3>2
    <2> HIDE DEF G
    <2> QED BY <2>1, <2>2, SetInduct, Zenon
<1>11. Sums(iter, f, D)
    BY <1>8, <1>9, <1>10 DEF Sums
<1>12. SumOf(f) = iter[D]
    <2>1. DOMAIN f = D
        OBVIOUS
    <2> QED BY <2>1, SumChosen, Zenon DEF iter
<1> QED BY <1>11, <1>12

LEMMA SumInt ==
    ASSUME NEW D, IsFiniteSet(D), NEW f \in [D -> Int]
    PROVE  SumOf(f) \in Int
<1>1. PICK h : Sums(h, f, D) /\ SumOf(f) = h[D]
    BY SumIs
<1> QED BY <1>1 DEF Sums

AddsUp(s, f, g, D) ==
    /\ IsFiniteSet(D)
    /\ f \in [D -> Int] /\ g \in [D -> Int] /\ s \in [D -> Int]
    /\ \A x \in D : s[x] = f[x] + g[x]
OnlyAt(f, d, D) == \A x \in D : x # d => f[x] = 0

(* Sums over the same set are taken in the same order. *)
LEMMA SumAdds ==
    \A D, f, g, s : AddsUp(s, f, g, D) => SumOf(s) = SumOf(f) + SumOf(g)
<1> SUFFICES ASSUME NEW D, NEW f, NEW g, NEW s, AddsUp(s, f, g, D) PROVE SumOf(s) = SumOf(f) + SumOf(g)
    BY Zenon
<1>0. IsFiniteSet(D) /\ f \in [D -> Int] /\ g \in [D -> Int] /\ s \in [D -> Int] /\ \A x \in D : s[x] = f[x] + g[x]
    BY DEF AddsUp
<1>1. PICK F : Sums(F, f, D) /\ SumOf(f) = F[D]
    BY <1>0, SumIs
<1>2. PICK G : Sums(G, g, D) /\ SumOf(g) = G[D]
    BY <1>0, SumIs
<1>3. PICK S : Sums(S, s, D) /\ SumOf(s) = S[D]
    BY <1>0, SumIs
<1> DEFINE Same == {T \in SUBSET D : S[T] = F[T] + G[T]}
<1>4. {} \in Same
    BY <1>1, <1>2, <1>3 DEF Sums
<1>5. ASSUME NEW T \in SUBSET D, T # {}, T \ {First(T)} \in Same PROVE T \in Same
    <2> DEFINE x == First(T)
               U == T \ {x}
    <2>1. x \in D /\ U \in SUBSET D
        BY <1>5 DEF First
    <2> HIDE DEF x
    <2>2. F[T] = f[x] + F[U] /\ G[T] = g[x] + G[U] /\ S[T] = s[x] + S[U]
        BY <1>1, <1>2, <1>3, <1>5, Zenon DEF Sums, x
    <2>3. F[U] \in Int /\ G[U] \in Int /\ f[x] \in Int /\ g[x] \in Int
        BY <1>1, <1>2, <1>0, <2>1 DEF Sums
    <2>4. S[U] = F[U] + G[U] /\ s[x] = f[x] + g[x]
        BY <1>5, <1>0, <2>1 DEF x
    <2> QED BY <2>2, <2>3, <2>4
<1> HIDE DEF Same
<1>6. SUBSET D \subseteq Same
    BY <1>0, <1>4, <1>5, SetInduct, Zenon
<1> QED BY <1>1, <1>2, <1>3, <1>6 DEF Same

LEMMA SumMonotonic ==
    ASSUME NEW D, IsFiniteSet(D), NEW f \in [D -> Int], NEW g \in [D -> Int],
           \A x \in D : f[x] <= g[x]
    PROVE  SumOf(f) <= SumOf(g)
<1>1. PICK F : Sums(F, f, D) /\ SumOf(f) = F[D]
    BY SumIs
<1>2. PICK G : Sums(G, g, D) /\ SumOf(g) = G[D]
    BY SumIs
<1> DEFINE Less == {T \in SUBSET D : F[T] <= G[T]}
<1>4. {} \in Less
    BY <1>1, <1>2 DEF Sums
<1>5. ASSUME NEW T \in SUBSET D, T # {}, T \ {First(T)} \in Less PROVE T \in Less
    <2> DEFINE x == First(T)
               U == T \ {x}
    <2>1. x \in D /\ U \in SUBSET D
        BY <1>5 DEF First
    <2> HIDE DEF x
    <2>2. F[T] = f[x] + F[U] /\ G[T] = g[x] + G[U]
        BY <1>1, <1>2, <1>5, Zenon DEF Sums, x
    <2>3. F[U] \in Int /\ G[U] \in Int /\ f[x] \in Int /\ g[x] \in Int
        BY <1>1, <1>2, <2>1 DEF Sums
    <2>4. F[U] <= G[U] /\ f[x] <= g[x]
        BY <1>5, <2>1 DEF x
    <2> QED BY <2>2, <2>3, <2>4
<1> HIDE DEF Less
<1>6. SUBSET D \subseteq Less
    BY <1>4, <1>5, SetInduct, Zenon
<1> QED BY <1>1, <1>2, <1>6 DEF Less

LEMMA SumConstant ==
    ASSUME NEW D, IsFiniteSet(D), NEW c \in Int, NEW f \in [D -> Int], \A x \in D : f[x] = c
    PROVE  SumOf(f) = Cardinality(D) * c
<1>1. PICK F : Sums(F, f, D) /\ SumOf(f) = F[D]
    BY SumIs
<1>2. \A T \in SUBSET D : IsFiniteSet(T) /\ Cardinality(T) \in Nat
    BY FS_Subset, FS_CardinalityType
<1> DEFINE Times == {T \in SUBSET D : F[T] = Cardinality(T) * c}
<1>4. {} \in Times
    BY <1>1, FS_EmptySet DEF Sums
<1>5. ASSUME NEW T \in SUBSET D, T # {}, T \ {First(T)} \in Times PROVE T \in Times
    <2> DEFINE x == First(T)
               U == T \ {x}
    <2>1. x \in T /\ U \in SUBSET D
        BY <1>5 DEF First
    <2> HIDE DEF x
    <2>2. F[T] = c + F[U]
        <3>1. F[T] = f[x] + F[U]
            BY <1>1, <1>5, Zenon DEF Sums, x
        <3> QED BY <2>1, <3>1
    <2>3. Cardinality(T) = Cardinality(U) + 1 /\ Cardinality(U) \in Nat
        BY <1>2, <2>1, FS_RemoveElement
    <2>4. F[U] = Cardinality(U) * c
        BY <1>5 DEF x
    <2>5. \A n \in Nat : (n + 1) * c = c + n * c
        OBVIOUS
    <2>6. F[T] = Cardinality(T) * c
        BY <2>2, <2>3, <2>4, <2>5
    <2> QED BY <2>6
<1> HIDE DEF Times
<1>6. SUBSET D \subseteq Times
    BY <1>4, <1>5, SetInduct, Zenon
<1> QED BY <1>1, <1>6 DEF Times

LEMMA SumSpot ==
    ASSUME NEW D, IsFiniteSet(D), NEW d \in D, NEW f \in [D -> Int], OnlyAt(f, d, D)
    PROVE  SumOf(f) = f[d]
<1>1. PICK F : Sums(F, f, D) /\ SumOf(f) = F[D]
    BY SumIs
<1> DEFINE Spot == {T \in SUBSET D : F[T] = IF d \in T THEN f[d] ELSE 0}
<1>4. {} \in Spot
    BY <1>1 DEF Sums
<1>5. ASSUME NEW T \in SUBSET D, T # {}, T \ {First(T)} \in Spot PROVE T \in Spot
    <2> DEFINE x == First(T)
               U == T \ {x}
    <2>1. x \in T /\ U \in SUBSET D
        BY <1>5 DEF First
    <2> HIDE DEF x
    <2>2. F[T] = f[x] + F[U]
        BY <1>1, <1>5, Zenon DEF Sums, x
    <2>3. F[U] = IF d \in U THEN f[d] ELSE 0
        BY <1>5 DEF x
    <2>4. f[x] \in Int /\ f[d] \in Int /\ (x # d => f[x] = 0)
        BY <2>1 DEF OnlyAt
    <2> QED BY <2>1, <2>2, <2>3, <2>4
<1> HIDE DEF Spot
<1>6. SUBSET D \subseteq Spot
    BY <1>4, <1>5, SetInduct, Zenon
<1> QED BY <1>1, <1>6 DEF Spot

(***************************************************************************)
(* FundingTx: fees.                                                        *)
(***************************************************************************)
LEMMA Ceil ==
    ASSUME NEW n \in Nat, NEW d \in Nat \ {0}
    PROVE  CeilDiv(n, d) \in Nat /\ n <= d * CeilDiv(n, d) /\ d * CeilDiv(n, d) < n + d
<1> DEFINE q == CeilDiv(n, d)
           p == d * q
<1>1. n + d - 1 \in Nat /\ q = (n + d - 1) \div d
    BY DEF CeilDiv
<1>2. PICK r \in 0..d - 1 : q \in Nat /\ n + d - 1 = p + r
    BY <1>1, DivMod
<1>3. p \in Int
    BY <1>2
<1> HIDE DEF q, p
<1>4. n <= p /\ p < n + d
    BY <1>2, <1>3
<1> QED BY <1>2, <1>4 DEF p, q

\* what the scripts add to the fees of n contracts, and what they do not
Beyond(n) == CeilDiv(249 * n, 4)
BesidesScripts(coins, n) ==
  CeilDiv(36 + 21 + 86 * n + SumOf([i \in DOMAIN coins |-> InputWeight(coins[i])]), 4)

LEMMA CoinsAre ==
    ASSUME NEW D, IsFiniteSet(D), NEW coins \in [D -> UTXO]
    PROVE  /\ coins = <<>> <=> D = {}
           /\ Total(coins) \in Nat
           /\ D # {} => Total(coins) > 0
           /\ D = {} => Total(coins) = 0
           /\ SumOf([i \in DOMAIN coins |-> InputWeight(coins[i])]) \in Nat
<1> DEFINE v == [i \in D |-> coins[i].value]
           w == [i \in D |-> InputWeight(coins[i])]
           zero == [i \in D |-> 0]
           one == [i \in D |-> 1]
<1>1. v \in [D -> Int] /\ w \in [D -> Int] /\ zero \in [D -> Int] /\ one \in [D -> Int]
    BY DEF UTXO, InputWeight
<1>2. \A i \in D : one[i] <= v[i] /\ zero[i] <= w[i]
    BY DEF UTXO, InputWeight
<1>3. \A i \in D : one[i] = 1 /\ zero[i] = 0
    OBVIOUS
<1>4. Total(coins) = SumOf(v)
    BY DEF Total
<1>5. [i \in DOMAIN coins |-> InputWeight(coins[i])] = w
    OBVIOUS
<1>6. coins = <<>> <=> D = {}
    OBVIOUS
<1> HIDE DEF v, w, zero, one
<1>7. SumOf(one) = Cardinality(D) * 1 /\ SumOf(zero) = Cardinality(D) * 0
    BY <1>1, <1>3, SumConstant
<1>8. Cardinality(D) \in Nat /\ (Cardinality(D) = 0 <=> D = {})
    BY FS_CardinalityType, FS_EmptySet
<1>9. SumOf(v) \in Int /\ SumOf(w) \in Int
    BY <1>1, SumInt
<1>10. SumOf(one) <= SumOf(v) /\ SumOf(zero) <= SumOf(w)
    BY <1>1, <1>2, SumMonotonic
<1>11. D = {} => SumOf(v) = 0
    <2> SUFFICES ASSUME D = {} PROVE SumOf(v) = 0
        OBVIOUS
    <2>1. v \in [D -> Int] /\ 0 \in Int /\ \A x \in D : v[x] = 0
        BY <1>1
    <2>2. SumOf(v) = Cardinality(D) * 0
        BY <2>1, SumConstant, Zenon
    <2> QED BY <1>8, <2>2
<1> QED BY <1>4, <1>5, <1>6, <1>7, <1>8, <1>9, <1>10, <1>11

\* the fees of the coins in the places D
FeesSplit(coins, D, spk, rate, n) ==
  /\ Beyond(n) \in Nat /\ BesidesScripts(coins, n) \in Nat /\ 4 * Beyond(n) >= 249 * n
  /\ FutureFee(coins, spk, rate, n) = IF D = {} THEN 0 ELSE rate * (spk * n + Beyond(n))
  /\ FundingFee(coins, spk, rate, n) = IF D = {} THEN 0 ELSE rate * (spk + BesidesScripts(coins, n))

LEMMA FeesAre ==
    ASSUME NEW D, IsFiniteSet(D), NEW coins \in [D -> UTXO],
           NEW spk \in Nat, NEW rate \in Nat \ {0}, NEW n \in Nat \ {0}
    PROVE  FeesSplit(coins, D, spk, rate, n)
<1> DEFINE W == SumOf([i \in DOMAIN coins |-> InputWeight(coins[i])])
           p == spk * n
<1>1. W \in Nat /\ (coins = <<>> <=> D = {})
    BY CoinsAre
<1>2. p \in Nat /\ (249 + 4 * spk) * n = 249 * n + 4 * p
    <2>1. p \in Nat
        OBVIOUS
    <2>2. \A a, b \in Nat : (249 + 4 * a) * b = 249 * b + 4 * (a * b)
        OBVIOUS
    <2> QED BY <2>1, <2>2
<1>3. 249 * n \in Nat /\ 36 + 21 + 86 * n + W \in Nat
    BY <1>1
<1>4. Beyond(n) \in Nat /\ BesidesScripts(coins, n) \in Nat /\ 4 * Beyond(n) >= 249 * n
    <2>1. \A a \in Nat : CeilDiv(a, 4) \in Nat /\ a <= 4 * CeilDiv(a, 4)
        BY Ceil
    <2> QED BY <1>3, <2>1 DEF Beyond, BesidesScripts
<1>5. CeilDiv((249 + 4 * spk) * n, 4) = p + Beyond(n)
    <2>1. \A a, b \in Nat : (a + 4 * b + 4 - 1) \div 4 = b + (a + 4 - 1) \div 4
        OBVIOUS
    <2> HIDE DEF p
    <2> QED BY <1>2, <1>3, <2>1 DEF CeilDiv, Beyond
<1>6. CeilDiv(36 + 4 * spk + ((42 + 43 * n * 4) \div 2) + W, 4) = spk + BesidesScripts(coins, n)
    <2> DEFINE c == 21 + 86 * n
    <2>1. (42 + 43 * n * 4) \div 2 = c /\ c \in Nat
        OBVIOUS
    <2> HIDE DEF W
    <2>2. BesidesScripts(coins, n) = (36 + c + W + 4 - 1) \div 4
        BY <1>1 DEF BesidesScripts, CeilDiv, W
    <2> HIDE DEF c
    <2>3. (36 + 4 * spk + c + W + 4 - 1) \div 4 = spk + (36 + c + W + 4 - 1) \div 4
        BY <1>1, <2>1
    <2> QED BY <2>1, <2>2, <2>3, Zenon DEF CeilDiv
<1>7. FutureFee(coins, spk, rate, n) = IF D = {} THEN 0 ELSE rate * (p + Beyond(n))
    BY <1>1, <1>5, Zenon DEF FutureFee
<1>8. FundingFee(coins, spk, rate, n) = IF D = {} THEN 0 ELSE rate * (spk + BesidesScripts(coins, n))
    BY <1>1, <1>6, Zenon DEF FundingFee
<1> QED BY <1>4, <1>7, <1>8 DEF FeesSplit

(***************************************************************************)
(* FundingTx: the coins that are selected.                                 *)
(***************************************************************************)
Worth(wallet, rate) == {i \in DOMAIN wallet : Score(wallet[i], rate) >= 0}
Place(wallet, rate) ==
  [i \in Worth(wallet, rate) |-> 1 + Cardinality({j \in Worth(wallet, rate) : Before(wallet, rate, j, i)})]
Sorted(wallet, rate) ==
  [k \in 1..Cardinality(Worth(wallet, rate)) |->
     wallet[CHOOSE i \in Worth(wallet, rate) : Place(wallet, rate)[i] = k]]

LEMMA ScoreIs ==
    ASSUME NEW coin \in UTXO, NEW rate \in Nat
    PROVE  /\ InputVBytes(coin.witness) \in Nat /\ Score(coin, rate) \in Int
           /\ Score(coin, rate) = coin.value - rate * InputVBytes(coin.witness)
           /\ InputWeight(coin) <= 4 * InputVBytes(coin.witness)
           /\ coin.value \in Nat \ {0} /\ coin.witness \in Nat /\ InputWeight(coin) \in Nat
<1>1. coin.value \in Nat \ {0} /\ coin.witness \in Nat
    BY DEF UTXO
<1>2. 164 + coin.witness \in Nat /\ 4 \in Nat \ {0}
    BY <1>1
<1>3. InputVBytes(coin.witness) \in Nat /\ 164 + coin.witness <= 4 * InputVBytes(coin.witness)
    BY <1>2, Ceil DEF InputVBytes
<1> QED BY <1>1, <1>3 DEF Score, InputWeight

LEMMA BeforeIsTotal ==
    ASSUME NEW wallet \in Seq(UTXO), NEW rate \in Nat
    PROVE  \A i, j, k \in DOMAIN wallet :
             /\ ~Before(wallet, rate, i, i)
             /\ i # j => Before(wallet, rate, i, j) \/ Before(wallet, rate, j, i)
             /\ Before(wallet, rate, i, j) /\ Before(wallet, rate, j, k) => Before(wallet, rate, i, k)
             /\ Before(wallet, rate, i, j) => Score(wallet[i], rate) >= Score(wallet[j], rate)
<1>1. \A i \in DOMAIN wallet : i \in Int /\ Score(wallet[i], rate) \in Int
    <2>1. \A i \in DOMAIN wallet : i \in Int /\ wallet[i] \in UTXO
        OBVIOUS
    <2> QED BY <2>1, ScoreIs
<1> TAKE i, j, k \in DOMAIN wallet
<1> QED BY <1>1, SMT DEF Before

(* The places of the coins are their number in the order. *)
LEMMA PlaceIs ==
    ASSUME NEW wallet \in Seq(UTXO), NEW rate \in Nat
    PROVE  /\ IsFiniteSet(Worth(wallet, rate)) /\ Cardinality(Worth(wallet, rate)) \in Nat
           /\ Place(wallet, rate) \in [Worth(wallet, rate) -> 1..Cardinality(Worth(wallet, rate))]
           /\ \A i, j \in Worth(wallet, rate) :
                Before(wallet, rate, i, j) => Place(wallet, rate)[i] < Place(wallet, rate)[j]
           /\ \A k \in 1..Cardinality(Worth(wallet, rate)) :
                \E i \in Worth(wallet, rate) : Place(wallet, rate)[i] = k
<1> DEFINE W == Worth(wallet, rate)
           m == Cardinality(W)
           place == Place(wallet, rate)
           B(i, j) == Before(wallet, rate, i, j)
           P(i) == {j \in W : B(j, i)}
<1>1. W \subseteq DOMAIN wallet /\ IsFiniteSet(W) /\ m \in Nat
    <2>1. W \subseteq DOMAIN wallet
        BY DEF Worth
    <2>2. DOMAIN wallet = 1..Len(wallet) /\ Len(wallet) \in Int
        OBVIOUS
    <2>3. IsFiniteSet(1..Len(wallet))
        BY <2>2, FS_Interval
    <2> HIDE DEF W
    <2> QED BY <2>1, <2>2, <2>3, FS_Subset, FS_CardinalityType
<1>2. \A i, j, k \in W : ~B(i, i) /\ (i # j => B(i, j) \/ B(j, i)) /\ (B(i, j) /\ B(j, k) => B(i, k))
    BY <1>1, BeforeIsTotal
<1>3. \A i \in W : IsFiniteSet(P(i)) /\ Cardinality(P(i)) \in Nat /\ place[i] = 1 + Cardinality(P(i))
    BY <1>1, FS_Subset, FS_CardinalityType DEF Place
<1>4. place \in [W -> Int]
    <2>1. place = [i \in W |-> 1 + Cardinality(P(i))]
        BY DEF Place
    <2> HIDE DEF W, place, P
    <2> QED BY <1>3, <2>1
<1> HIDE DEF W, place, B
<1>5. ASSUME NEW i \in W, NEW T \in SUBSET W, IsFiniteSet(T), P(i) \subseteq T, i \in T
      PROVE  Cardinality(P(i)) + 1 <= Cardinality(T)
    <2>1. i \notin P(i)
        BY <1>2
    <2>2. IsFiniteSet(P(i) \union {i}) /\ Cardinality(P(i) \union {i}) = Cardinality(P(i)) + 1
        BY <1>3, <2>1, FS_AddElement
    <2>3. P(i) \union {i} \subseteq T
        BY <1>5
    <2> HIDE DEF P
    <2> QED BY <1>5, <2>2, <2>3, FS_Subset
<1>6. ASSUME NEW i \in W PROVE place[i] \in 1..m
    <2>1. Cardinality(P(i)) + 1 <= m
        BY <1>1, <1>5
    <2> QED BY <1>1, <1>3, <2>1
<1>7. ASSUME NEW i \in W, NEW j \in W, B(i, j) PROVE place[i] < place[j]
    <2>1. P(i) \subseteq P(j) /\ i \in P(j) /\ P(j) \in SUBSET W
        BY <1>2, <1>7
    <2>2. Cardinality(P(i)) + 1 <= Cardinality(P(j))
        BY <1>3, <1>5, <2>1
    <2> HIDE DEF P
    <2> QED BY <1>3, <2>2
<1>8. place \in Injection(W, 1..m)
    <2>1. \A i, j \in W : place[i] = place[j] => i = j
        BY <1>2, <1>4, <1>7
    <2>2. place \in [W -> 1..m]
        BY <1>4, <1>6
    <2> QED BY <2>1, <2>2 DEF Injection, IsInjective
<1>9. place \in Surjection(W, 1..m)
    <2>1. IsFiniteSet(1..m) /\ Cardinality(1..m) = Cardinality(W)
        BY <1>1, FS_Interval
    <2> QED BY <1>8, <2>1, FS_Injection
<1>10. \A k \in 1..m : \E i \in W : place[i] = k
    BY <1>9 DEF Surjection
<1> QED BY <1>1, <1>4, <1>6, <1>7, <1>10 DEF W, place, B

LEMMA SortedIs ==
    ASSUME NEW wallet \in Seq(UTXO), NEW rate \in Nat
    PROVE  /\ Cardinality(Worth(wallet, rate)) \in Nat
           /\ Sorted(wallet, rate) \in Seq(UTXO) /\ Len(Sorted(wallet, rate)) = Cardinality(Worth(wallet, rate))
           /\ \A i \in Worth(wallet, rate) : Sorted(wallet, rate)[Place(wallet, rate)[i]] = wallet[i]
<1> DEFINE W == Worth(wallet, rate)
           m == Cardinality(W)
           place == Place(wallet, rate)
           sorted == Sorted(wallet, rate)
           Spot(k) == CHOOSE i \in W : place[i] = k
<1>1. m \in Nat /\ W \subseteq DOMAIN wallet
    BY PlaceIs DEF Worth
<1>2. \A k \in 1..m : Spot(k) \in W /\ place[Spot(k)] = k
    BY PlaceIs
<1>3. \A i, j \in W : place[i] = place[j] => i = j
    <2> SUFFICES ASSUME NEW i \in W, NEW j \in W, place[i] = place[j] PROVE i = j
        OBVIOUS
    <2>1. i # j => Before(wallet, rate, i, j) \/ Before(wallet, rate, j, i)
        BY <1>1, BeforeIsTotal
    <2>2. place[i] \in 1..m /\ place[j] \in 1..m
        BY PlaceIs
    <2> QED BY <2>1, <2>2, PlaceIs
<1>4. \A i \in W : place[i] \in 1..m
    BY PlaceIs
<1>5. sorted = [k \in 1..m |-> wallet[Spot(k)]]
    BY DEF Sorted
<1> HIDE DEF W, place, Spot, m
<1>6. \A k \in 1..m : wallet[Spot(k)] \in UTXO
    BY <1>1, <1>2
<1>7. sorted \in [1..m -> UTXO]
    BY <1>5, <1>6
<1>8. sorted \in Seq(UTXO) /\ Len(sorted) = m
    BY <1>1, <1>7
<1>9. ASSUME NEW i \in W PROVE sorted[place[i]] = wallet[i]
    BY <1>2, <1>3, <1>4, <1>5
<1> QED BY <1>1, <1>8, <1>9 DEF W, place, m

LEMMA SelectedIs ==
    ASSUME NEW wallet \in Seq(UTXO), NEW rate \in Nat, NEW target, NEW n
    PROVE  LET sorted == Sorted(wallet, rate)
               lengths == {k \in 1..Len(sorted) : Enough(SubSeq(sorted, 1, k), target, rate, n)}
               selected == DualFundingCoinSelect(wallet, target, rate, n)
           IN  \/ lengths = {} /\ selected = <<>>
               \/ \E k \in lengths : selected = SubSeq(sorted, 1, k) /\ \A l \in lengths : k <= l
<1> DEFINE sorted == Sorted(wallet, rate)
           lengths == {k \in 1..Len(sorted) : Enough(SubSeq(sorted, 1, k), target, rate, n)}
<1>1. sorted \in Seq(UTXO) /\ DOMAIN sorted = 1..Len(sorted)
    <2>1. sorted \in Seq(UTXO)
        BY SortedIs
    <2> HIDE DEF sorted
    <2> QED BY <2>1
<1> DEFINE selected == DualFundingCoinSelect(wallet, target, rate, n)
           enough == {coins \in {SubSeq(sorted, 1, k) : k \in DOMAIN sorted} : Enough(coins, target, rate, n)}
<1>2. selected = IF enough = {} THEN <<>>
                 ELSE CHOOSE coins \in enough : \A more \in enough : Len(coins) <= Len(more)
    BY Zenon DEF DualFundingCoinSelect, Sorted, Place, Worth
<1>3. /\ \A coins \in enough : \E k \in lengths : coins = SubSeq(sorted, 1, k)
      /\ \A k \in lengths : SubSeq(sorted, 1, k) \in enough
    BY <1>1, Zenon
<1>4. \A k \in lengths : k \in Nat /\ Len(SubSeq(sorted, 1, k)) = k
    <2>1. \A k \in lengths : k \in 1..Len(sorted)
        OBVIOUS
    <2> HIDE DEF sorted, lengths
    <2> QED BY <1>1, <2>1, SubSeqProperties
<1> HIDE DEF sorted, lengths, selected, enough
<1>5. CASE enough = {}
    <2>1. lengths = {} /\ selected = <<>>
        BY <1>2, <1>3, <1>5
    <2> QED BY <2>1 DEF selected, lengths, sorted
<1>6. CASE enough # {}
    <2>1. PICK k \in lengths : \A l \in lengths : k <= l
        <3>1. lengths \in SUBSET Nat /\ lengths # {}
            BY <1>3, <1>4, <1>6
        <3> QED BY <3>1, Least
    <2>2. \A more \in enough : Len(SubSeq(sorted, 1, k)) <= Len(more)
        BY <1>3, <1>4, <2>1
    <2>3. selected \in enough /\ \A more \in enough : Len(selected) <= Len(more)
        <3>1. \E coins \in enough : \A more \in enough : Len(coins) <= Len(more)
            BY <1>3, <2>1, <2>2
        <3> QED BY <1>2, <1>6, <3>1, Zenon
    <2>4. PICK j \in lengths : selected = SubSeq(sorted, 1, j)
        BY <1>3, <2>3
    <2>5. \A l \in lengths : j <= l
        BY <1>3, <1>4, <2>3, <2>4
    <2>6. \E i \in lengths : selected = SubSeq(sorted, 1, i) /\ \A l \in lengths : i <= l
        BY <2>4, <2>5
    <2> QED BY <2>6 DEF selected, lengths, sorted
<1> QED BY <1>5, <1>6

(***************************************************************************)
(* FundingTx: the invariant.                                               *)
(***************************************************************************)
ChosenInputs ==
  IF terms.mode = "selected" THEN DualFundingCoinSelect(terms.wallet, SumOf(Asked), terms.rate, N)
  ELSE terms.wallet
Largest == MaxCollateral(terms.wallet, terms.rate, N)
ChosenCollaterals ==
  IF terms.mode = "max" THEN [i \in DOMAIN Asked |-> (Largest \div N) + (IF i = 1 THEN Largest % N ELSE 0)]
  ELSE Asked
Outputs == [funds |-> FundingValues, offerChange |-> Undusted(OfferChange), acceptChange |-> Undusted(AcceptChange)]

FundingInv ==
  /\ TermsOK(terms)
  /\ step \in {"choosing", "building", "built", "insufficient"}
  /\ step # "choosing" => inputs = ChosenInputs /\ offered = ChosenCollaterals
  /\ step = "insufficient" => Insufficient
  /\ step = "built" => ~Insufficient /\ tx = Outputs

LEMMA FundingStep == FundingInv /\ [FundingNext]_fundingVars => FundingInv'
<1> SUFFICES ASSUME FundingInv, [FundingNext]_fundingVars PROVE FundingInv'
    OBVIOUS
<1>1. CASE Choose
    <2>1. terms' = terms /\ step' = "building"
        BY <1>1 DEF Choose
    <2>2. inputs' = ChosenInputs /\ offered' = ChosenCollaterals
        BY <1>1, Zenon DEF Choose, ChosenInputs, ChosenCollaterals, Largest
    <2>3. ChosenInputs' = ChosenInputs /\ ChosenCollaterals' = ChosenCollaterals
        BY <2>1, Zenon DEF ChosenInputs, ChosenCollaterals, Largest, Asked, N
    <2> QED BY <2>1, <2>2, <2>3, Zenon DEF FundingInv
<1>2. ASSUME UNCHANGED <<terms, inputs, offered>>
      PROVE  /\ ChosenInputs' = ChosenInputs /\ ChosenCollaterals' = ChosenCollaterals
             /\ Insufficient' = Insufficient /\ Outputs' = Outputs
    <2>1. terms' = terms /\ inputs' = inputs /\ offered' = offered
        BY <1>2
    <2>2. N' = N /\ Asked' = Asked /\ Accepted' = Accepted
        BY <2>1, Zenon DEF N, Asked, Accepted
    <2>3. ChosenInputs' = ChosenInputs /\ ChosenCollaterals' = ChosenCollaterals
        BY <2>1, <2>2, Zenon DEF ChosenInputs, ChosenCollaterals, Largest
    <2>4. OfferChange' = OfferChange /\ AcceptChange' = AcceptChange
        BY <2>1, <2>2, Zenon DEF OfferChange, AcceptChange, OfferFees, AcceptFees
    <2>5. Insufficient' = Insufficient
        BY <2>1, <2>4, Zenon DEF Insufficient
    <2>6. FundingValues' = FundingValues
        BY <2>1, <2>2, Zenon DEF FundingValues, Share
    <2>7. Outputs' = Outputs
        BY <2>4, <2>6, Zenon DEF Outputs
    <2> QED BY <2>3, <2>5, <2>7
<1>3. CASE BuildFundingTransaction
    <2>1. UNCHANGED <<terms, inputs, offered>> /\ step = "building"
        BY <1>3, Zenon DEF BuildFundingTransaction
    <2>2. CASE Insufficient
        <3>1. step' = "insufficient"
            BY <1>3, <2>2, Zenon DEF BuildFundingTransaction
        <3> QED BY <1>2, <2>1, <2>2, <3>1 DEF FundingInv
    <2>3. CASE ~Insufficient
        <3>1. step' = "built" /\ tx' = Outputs
            BY <1>3, <2>3, Zenon DEF BuildFundingTransaction, Outputs
        <3> QED BY <1>2, <2>1, <2>3, <3>1 DEF FundingInv
    <2> QED BY <2>2, <2>3
<1>4. CASE UNCHANGED fundingVars
    <2>1. UNCHANGED <<terms, inputs, offered>> /\ step' = step /\ tx' = tx
        BY <1>4 DEF fundingVars
    <2> QED BY <1>2, <2>1 DEF FundingInv
<1> QED BY <1>1, <1>3, <1>4, Zenon DEF FundingNext

LEMMA TermsAre ==
    ASSUME FundingInv
    PROVE  /\ N \in Nat \ {0} /\ terms.rate \in Nat \ {0} /\ terms.spk \in 22..34
           /\ terms.wallet \in Seq(UTXO) /\ terms.theirs \in Seq(UTXO)
           /\ Asked \in [1..N -> Nat] /\ Accepted \in [1..N -> Nat]
           /\ IsFiniteSet(1..N) /\ Cardinality(1..N) = N
           /\ terms.mode = "max" => terms.theirs = <<>>
<1> DEFINE K == [offer : Nat, accept : Nat]
<1>1. terms.contracts \in Seq(K) /\ terms.contracts # <<>>
    BY DEF FundingInv, TermsOK
<1>2. N \in Nat \ {0} /\ DOMAIN terms.contracts = 1..N /\ \A i \in 1..N : terms.contracts[i] \in K
    <2> DEFINE c == terms.contracts
    <2> HIDE DEF c, K
    <2>1. c \in Seq(K) /\ c # <<>>
        BY <1>1 DEF c
    <2>2. Len(c) \in Nat \ {0} /\ DOMAIN c = 1..Len(c) /\ \A i \in 1..Len(c) : c[i] \in K
        BY <2>1
    <2> QED BY <2>2 DEF N, c
<1>3. Asked \in [1..N -> Nat] /\ Accepted \in [1..N -> Nat]
    BY <1>2 DEF Asked, Accepted
<1>4. IsFiniteSet(1..N) /\ Cardinality(1..N) = N
    BY <1>2, FS_Interval
<1>5. /\ terms.rate \in Nat \ {0} /\ terms.spk \in 22..34
      /\ terms.wallet \in Seq(UTXO) /\ terms.theirs \in Seq(UTXO)
      /\ terms.mode = "max" => terms.theirs = <<>>
    BY DEF FundingInv, TermsOK, FakeSPK
<1> QED BY <1>2, <1>3, <1>4, <1>5

LEMMA SelectedCoins ==
    ASSUME NEW wallet \in Seq(UTXO), NEW rate \in Nat, NEW target, NEW n
    PROVE  DualFundingCoinSelect(wallet, target, rate, n) \in Seq(UTXO)
<1> DEFINE sorted == Sorted(wallet, rate)
           selected == DualFundingCoinSelect(wallet, target, rate, n)
<1>1. sorted \in Seq(UTXO)
    BY SortedIs
<1>2. selected = <<>> \/ \E k \in 1..Len(sorted) : selected = SubSeq(sorted, 1, k)
    <2> DEFINE lengths == {k \in 1..Len(sorted) : Enough(SubSeq(sorted, 1, k), target, rate, n)}
    <2>1. \/ lengths = {} /\ selected = <<>>
          \/ \E k \in lengths : selected = SubSeq(sorted, 1, k) /\ \A l \in lengths : k <= l
        BY SelectedIs
    <2>2. lengths \subseteq 1..Len(sorted)
        OBVIOUS
    <2> HIDE DEF sorted, selected, lengths
    <2> QED BY <2>1, <2>2
<1> HIDE DEF sorted, selected
<1>3. \A k \in 1..Len(sorted) : SubSeq(sorted, 1, k) \in Seq(UTXO)
    BY <1>1, SubSeqProperties
<1>4. <<>> \in Seq(UTXO)
    OBVIOUS
<1>5. selected \in Seq(UTXO)
    BY <1>2, <1>3, <1>4
<1> QED BY <1>5 DEF selected

(***************************************************************************)
(* FundingTx: what the transaction pays.                                   *)
(***************************************************************************)
Paying(coins) == IF coins = <<>> THEN 0 ELSE 1
\* the rounding of a party's shares, and its change that is too small to pay
Rounding(coins) == N * Share(coins) - FutureFee(coins, terms.spk, terms.rate, N)

LEMMA CoinsDomain ==
    ASSUME NEW coins \in Seq(UTXO)
    PROVE  /\ coins \in [1..Len(coins) -> UTXO] /\ IsFiniteSet(1..Len(coins))
           /\ 1..Len(coins) = {} <=> coins = <<>>
<1>1. Len(coins) \in Nat
    OBVIOUS
<1>2. IsFiniteSet(1..Len(coins))
    BY <1>1, FS_Interval
<1>3. coins \in [1..Len(coins) -> UTXO]
    OBVIOUS
<1>4. coins = <<>> <=> Len(coins) = 0
    BY EmptySeq
<1>5. 1..Len(coins) = {} <=> Len(coins) = 0
    BY <1>1
<1> QED BY <1>2, <1>3, <1>4, <1>5

ShareSound(coins) ==
  /\ Share(coins) \in Nat /\ Agreed(coins) \in Nat /\ Total(coins) \in Nat
  /\ FutureFee(coins, terms.spk, terms.rate, N) \in Nat
  /\ Rounding(coins) \in 0..Paying(coins) * (N - 1)
  /\ coins = <<>> => /\ Share(coins) = 0 /\ Agreed(coins) = 0 /\ Total(coins) = 0
                     /\ FutureFee(coins, terms.spk, terms.rate, N) = 0
  /\ coins # <<>> => /\ 4 * Share(coins) >= terms.rate * (249 + 4 * terms.spk)
                     /\ Total(coins) > 0

LEMMA ShareIs ==
    ASSUME FundingInv, NEW coins \in Seq(UTXO)
    PROVE  ShareSound(coins)
<1> DEFINE F == FutureFee(coins, terms.spk, terms.rate, N)
           D == 1..Len(coins)
           b == BesidesScripts(coins, N)
           a == Beyond(N)
           spk == terms.spk
           rate == terms.rate
           n == N
<1>1. n \in Nat \ {0} /\ rate \in Nat \ {0} /\ spk \in Nat
    BY TermsAre
<1>2. coins \in [D -> UTXO] /\ IsFiniteSet(D) /\ (D = {} <=> coins = <<>>)
    BY CoinsDomain
<1>3. Total(coins) \in Nat /\ (coins # <<>> => Total(coins) > 0) /\ (coins = <<>> => Total(coins) = 0)
    BY <1>2, CoinsAre
<1>4. /\ a \in Nat /\ b \in Nat /\ 4 * a >= 249 * n
      /\ F = IF D = {} THEN 0 ELSE rate * (spk * n + a)
      /\ Agreed(coins) = IF D = {} THEN 0 ELSE rate * (spk + b)
    <2>1. FeesSplit(coins, D, spk, rate, n)
        BY <1>1, <1>2, FeesAre, Zenon
    <2> QED BY <2>1, Zenon DEF FeesSplit, Agreed
<1>5. Share(coins) = CeilDiv(F, n)
    BY DEF Share
<1>6. Rounding(coins) = n * Share(coins) - F
    BY DEF Rounding
<1> HIDE DEF F, D, a, b, n, rate, spk
<1>7. F \in Nat /\ Agreed(coins) \in Nat
    BY <1>1, <1>4
<1>8. Share(coins) \in Nat /\ F <= n * Share(coins) /\ n * Share(coins) < F + n
    BY <1>1, <1>5, <1>7, Ceil
<1>9. CASE coins = <<>>
    <2>1. F = 0 /\ Agreed(coins) = 0
        BY <1>2, <1>4, <1>9
    <2>2. Share(coins) = 0
        <3>1. Share(coins) = (n - 1) \div n /\ \A k \in Nat \ {0} : (k - 1) \div k = 0
            BY <1>1, <1>5, <2>1 DEF CeilDiv
        <3> QED BY <1>1, <3>1
    <2>3. Rounding(coins) = 0 /\ Paying(coins) * (n - 1) = 0
        BY <1>1, <1>6, <1>9, <2>1, <2>2 DEF Paying
    <2> QED BY <1>1, <1>3, <1>7, <1>8, <1>9, <2>1, <2>2, <2>3 DEF ShareSound, F, n
<1>10. CASE coins # <<>>
    <2>1. Rounding(coins) \in 0..Paying(coins) * (n - 1)
        <3> DEFINE p == n * Share(coins)
        <3>1. p \in Int
            BY <1>1, <1>8
        <3> HIDE DEF p
        <3>2. p - F \in 0..n - 1
            BY <1>1, <1>7, <1>8, <3>1 DEF p
        <3>3. Paying(coins) * (n - 1) = n - 1
            BY <1>1, <1>10 DEF Paying
        <3> QED BY <1>6, <3>2, <3>3 DEF p
    <2>2. F = rate * (spk * n + a)
        BY <1>2, <1>4, <1>10
    <2>3. 4 * Share(coins) >= rate * (249 + 4 * spk)
        <3> DEFINE S == Share(coins)
                   c == 249 + 4 * spk
        <3>1. 4 * (spk * n + a) >= c * n
            <4>1. c * n = 249 * n + 4 * (spk * n) /\ spk * n \in Nat
                BY <1>1
            <4> QED BY <1>1, <1>4, <4>1
        <3>2. 4 * F >= rate * (c * n)
            <4> DEFINE x == spk * n + a
                       y == c * n
            <4>1. x \in Nat /\ y \in Nat
                BY <1>1, <1>4
            <4> HIDE DEF x, y
            <4>2. \A r, u, v \in Nat : 4 * u >= v => 4 * (r * u) >= r * v
                <5> TAKE r, u, v \in Nat
                <5>1. 4 * u >= v => r * (4 * u - v) >= 0
                    OBVIOUS
                <5>2. r * (4 * u - v) = 4 * (r * u) - r * v
                    OBVIOUS
                <5>3. r * u \in Nat /\ r * v \in Nat
                    OBVIOUS
                <5> QED BY <5>1, <5>2, <5>3
            <4>3. 4 * x >= y
                BY <3>1 DEF x, y
            <4>4. F = rate * x
                BY <2>2 DEF x
            <4> QED BY <1>1, <4>1, <4>2, <4>3, <4>4 DEF y
        <3>3. n * (4 * S) >= n * (rate * c)
            <4>1. rate * (c * n) = n * (rate * c) /\ n * (4 * S) = 4 * (n * S) /\ n * S \in Nat
                BY <1>1, <1>8
            <4>2. 4 * (n * S) >= 4 * F
                BY <1>7, <1>8, <4>1
            <4>3. n * (rate * c) \in Int
                BY <1>1
            <4> QED BY <1>7, <3>2, <4>1, <4>2, <4>3
        <3>4. \A k \in Nat \ {0}, u, v \in Nat : k * u >= k * v => u >= v
            <4> TAKE k \in Nat \ {0}, u, v \in Nat
            <4>1. k * (v - u) = k * v - k * u /\ k * u \in Nat /\ k * v \in Nat
                OBVIOUS
            <4>2. v > u => k * (v - u) > 0
                OBVIOUS
            <4> QED BY <4>1, <4>2
        <3>5. 4 * S \in Nat /\ rate * c \in Nat
            BY <1>1, <1>8
        <3> HIDE DEF S, c
        <3> QED BY <1>1, <3>3, <3>4, <3>5 DEF S, c
    <2> QED BY <1>3, <1>7, <1>8, <1>10, <2>1, <2>3 DEF ShareSound, F, n, rate, spk
<1> QED BY <1>9, <1>10

\* The funds are the collaterals and the shares of both.
LEMMA FundsAre ==
    ASSUME FundingInv, NEW theirs \in Seq(UTXO), NEW own \in Seq(UTXO),
           NEW o \in [1..N -> Nat], NEW funds \in [1..N -> Int],
           \A i \in 1..N : funds[i] = o[i] + Accepted[i] + Share(own) + Share(theirs)
    PROVE  /\ SumOf(o) \in Nat /\ SumOf(Accepted) \in Nat
           /\ SumOf(funds) = SumOf(o) + SumOf(Accepted) + N * Share(own) + N * Share(theirs)
<1> DEFINE D == 1..N
           a == Accepted
           x == Share(own)
           y == Share(theirs)
           xs == [i \in D |-> x]
           ys == [i \in D |-> y]
           oa == [i \in D |-> o[i] + a[i]]
           xy == [i \in D |-> xs[i] + ys[i]]
           zero == [i \in D |-> 0]
<1>1. IsFiniteSet(D) /\ Cardinality(D) = N /\ N \in Nat /\ a \in [D -> Nat]
    BY TermsAre
<1>2. x \in Nat /\ y \in Nat
    BY ShareIs DEF ShareSound
<1> HIDE DEF D, a, x, y
<1>3. /\ o \in [D -> Int] /\ a \in [D -> Int] /\ xs \in [D -> Int] /\ ys \in [D -> Int]
      /\ oa \in [D -> Int] /\ xy \in [D -> Int] /\ funds \in [D -> Int] /\ zero \in [D -> Int]
    BY <1>1, <1>2 DEF D
<1>4. /\ \A i \in D : oa[i] = o[i] + a[i] /\ xy[i] = xs[i] + ys[i] /\ xs[i] = x /\ ys[i] = y
      /\ \A i \in D : zero[i] = 0 /\ zero[i] <= o[i] /\ zero[i] <= a[i]
    BY <1>1 DEF D
<1>5. \A i \in D : funds[i] = oa[i] + xy[i]
    BY <1>1, <1>2 DEF D, a, x, y
<1> HIDE DEF xs, ys, oa, xy, zero
<1>6. SumOf(oa) = SumOf(o) + SumOf(a) /\ SumOf(xy) = SumOf(xs) + SumOf(ys) /\ SumOf(funds) = SumOf(oa) + SumOf(xy)
    <2>1. AddsUp(oa, o, a, D)
        BY <1>1, <1>3, <1>4 DEF AddsUp
    <2>2. AddsUp(xy, xs, ys, D)
        BY <1>1, <1>3, <1>4 DEF AddsUp
    <2>6. AddsUp(funds, oa, xy, D)
        BY <1>1, <1>3, <1>5 DEF AddsUp
    <2>3. SumOf(oa) = SumOf(o) + SumOf(a)
        BY <2>1, SumAdds
    <2>4. SumOf(xy) = SumOf(xs) + SumOf(ys)
        BY <2>2, SumAdds
    <2>5. SumOf(funds) = SumOf(oa) + SumOf(xy)
        BY <2>6, SumAdds
    <2> QED BY <2>3, <2>4, <2>5
<1>7. SumOf(xs) = N * x /\ SumOf(ys) = N * y /\ SumOf(zero) = N * 0
    <2>1. (\A i \in D : xs[i] = x) /\ (\A i \in D : ys[i] = y) /\ \A i \in D : zero[i] = 0
        BY <1>4
    <2>2. x \in Int /\ y \in Int /\ 0 \in Int
        BY <1>2
    <2>3. SumOf(xs) = Cardinality(D) * x
        BY <1>1, <1>3, <2>1, <2>2, SumConstant, Zenon
    <2>4. SumOf(ys) = Cardinality(D) * y
        BY <1>1, <1>3, <2>1, <2>2, SumConstant, Zenon
    <2>5. SumOf(zero) = Cardinality(D) * 0
        BY <1>1, <1>3, <2>1, <2>2, SumConstant, Zenon
    <2> QED BY <1>1, <2>3, <2>4, <2>5, Zenon
<1>8. SumOf(o) \in Int /\ SumOf(a) \in Int
    BY <1>1, <1>3, SumInt
<1>9. SumOf(zero) <= SumOf(o) /\ SumOf(zero) <= SumOf(a)
    BY <1>1, <1>3, <1>4, SumMonotonic
<1>10. N * x \in Int /\ N * y \in Int /\ N * 0 = 0
    BY <1>1, <1>2
<1>11. SumOf(o) \in Nat /\ SumOf(a) \in Nat
    BY <1>7, <1>8, <1>9, <1>10
<1>12. SumOf(funds) = SumOf(o) + SumOf(a) + N * x + N * y
    BY <1>6, <1>7, <1>8, <1>10
<1> QED BY <1>11, <1>12 DEF a, x, y

\* The maximal collateral is shared out in full.
LEMMA LargestIs ==
    ASSUME FundingInv
    PROVE  /\ Largest \in Nat
           /\ Largest > 0 => Largest = Total(terms.wallet) - Fees(terms.wallet, FakeSPK, terms.rate, N)
           /\ ChosenCollaterals \in [1..N -> Nat]
           /\ terms.mode = "max" => SumOf(ChosenCollaterals) = Largest
<1> DEFINE v == Total(terms.wallet) - Fees(terms.wallet, FakeSPK, terms.rate, N)
           L == Largest
           D == 1..N
           q == L \div N
           r == L % N
           qs == [i \in D |-> q]
           rs == [i \in D |-> IF i = 1 THEN r ELSE 0]
           c == [i \in D |-> q + (IF i = 1 THEN r ELSE 0)]
<1>1. /\ N \in Nat \ {0} /\ IsFiniteSet(D) /\ Cardinality(D) = N
      /\ Asked \in [D -> Nat] /\ terms.rate \in Nat \ {0} /\ terms.wallet \in Seq(UTXO)
    BY TermsAre
<1>2. v \in Int
    <2> DEFINE w == terms.wallet
               E == 1..Len(w)
    <2>1. w \in [E -> UTXO] /\ IsFiniteSet(E)
        BY <1>1, CoinsDomain
    <2>2. FakeSPK \in Nat
        BY DEF FakeSPK
    <2>3. FeesSplit(w, E, FakeSPK, terms.rate, N)
        BY <1>1, <2>1, <2>2, FeesAre, Zenon
    <2>4. FutureFee(w, FakeSPK, terms.rate, N) \in Int /\ FundingFee(w, FakeSPK, terms.rate, N) \in Int
        BY <1>1, <2>2, <2>3 DEF FeesSplit
    <2>5. Total(w) \in Nat
        BY <2>1, CoinsAre
    <2> QED BY <2>4, <2>5 DEF Fees
<1>3. L = Max({0, v})
    BY DEF Largest, MaxCollateral
<1> HIDE DEF v, L
<1>4. L \in {0, v} /\ L >= 0 /\ L >= v
    <2>1. \E x \in {0, v} : \A y \in {0, v} : x >= y
        BY <1>2
    <2> QED BY <1>3, <2>1, Zenon DEF Max
<1>5. L \in Nat /\ (L > 0 => L = v)
    BY <1>2, <1>4
<1>6. q \in Nat /\ r \in Nat /\ L = N * q + r
    <2>1. L \in Nat /\ N \in Nat /\ N > 0
        BY <1>1, <1>5
    <2>2. q \in Nat /\ r \in 0..N - 1 /\ L = N * q + r
        BY <2>1, DivMod, Zenon
    <2> QED BY <2>1, <2>2
<1> HIDE DEF q, r
<1>7. c \in [D -> Nat] /\ qs \in [D -> Int] /\ rs \in [D -> Int] /\ c \in [D -> Int]
    BY <1>6
<1>8. 1 \in D /\ \A i \in D : c[i] = qs[i] + rs[i] /\ qs[i] = q /\ (i # 1 => rs[i] = 0)
    BY <1>1
<1>9. rs[1] = r
    BY <1>1
<1>10. ChosenCollaterals = IF terms.mode = "max" THEN c ELSE Asked
    BY <1>1 DEF ChosenCollaterals, L, q, r
<1> HIDE DEF c, qs, rs, D
<1>11. SumOf(c) = SumOf(qs) + SumOf(rs)
    <2>1. AddsUp(c, qs, rs, D)
        BY <1>1, <1>7, <1>8 DEF AddsUp, D
    <2> QED BY <2>1, SumAdds
<1>12. SumOf(qs) = N * q
    <2>1. q \in Int /\ \A i \in D : qs[i] = q
        BY <1>6, <1>8
    <2>2. SumOf(qs) = Cardinality(D) * q
        BY <1>1, <1>7, <2>1, SumConstant, Zenon
    <2> QED BY <1>1, <2>2
<1>13. SumOf(rs) = r
    <2>1. OnlyAt(rs, 1, D)
        BY <1>8 DEF OnlyAt
    <2>2. SumOf(rs) = rs[1]
        BY <1>1, <1>7, <1>8, <2>1, SumSpot, Zenon
    <2> QED BY <1>9, <2>2
<1>14. SumOf(c) = L
    BY <1>6, <1>11, <1>12, <1>13
<1> QED BY <1>1, <1>5, <1>7, <1>10, <1>14 DEF v, L, D

LEMMA OffererIs ==
    ASSUME FundingInv, step # "choosing"
    PROVE  inputs \in Seq(UTXO) /\ offered \in [1..N -> Nat]
<1>1. inputs = ChosenInputs /\ offered = ChosenCollaterals
    BY DEF FundingInv
<1>2. terms.wallet \in Seq(UTXO) /\ terms.rate \in Nat
    BY TermsAre
<1>3. ChosenInputs \in Seq(UTXO)
    BY <1>2, SelectedCoins, Zenon DEF ChosenInputs
<1> QED BY <1>1, <1>3, LargestIs

\* What a party leaves to the miner: what it reckoned with, roundings and dust.
LEMMA LeftOver ==
    ASSUME NEW change \in Nat
    PROVE  Undusted(change) \in Nat /\ change - Undusted(change) \in 0..DUST_LIMIT - 1
BY DEF Undusted, DUST_LIMIT

LEMMA PartiesAre ==
    ASSUME NEW a, NEW b
    PROVE  Cardinality({p \in {1, 2} : (<<a, b>>)[p] # <<>>}) = Paying(a) + Paying(b)
<1> DEFINE S == {p \in {1, 2} : (<<a, b>>)[p] # <<>>}
<1>1. /\ Cardinality({}) = 0 /\ Cardinality({1}) = 1 /\ Cardinality({2}) = 1
      /\ Cardinality({1, 2}) = 2
    <2>1. IsFiniteSet({1}) /\ Cardinality({1}) = 1 /\ Cardinality({2}) = 1
        BY FS_Singleton
    <2>2. Cardinality({1} \union {2}) = 2
        BY <2>1, FS_AddElement
    <2>3. {1, 2} = {1} \union {2}
        OBVIOUS
    <2> QED BY <2>1, <2>2, <2>3, FS_EmptySet
<1>2. CASE a = <<>> /\ b = <<>>
    <2>1. S = {}
        BY <1>2
    <2> HIDE DEF S
    <2>2. Cardinality(S) = Paying(a) + Paying(b)
        BY <1>1, <1>2, <2>1 DEF Paying
    <2> QED BY <2>2 DEF S
<1>3. CASE a = <<>> /\ b # <<>>
    <2>1. S = {2}
        BY <1>3
    <2> HIDE DEF S
    <2>2. Cardinality(S) = Paying(a) + Paying(b)
        BY <1>1, <1>3, <2>1 DEF Paying
    <2> QED BY <2>2 DEF S
<1>4. CASE a # <<>> /\ b = <<>>
    <2>1. S = {1}
        BY <1>4
    <2> HIDE DEF S
    <2>2. Cardinality(S) = Paying(a) + Paying(b)
        BY <1>1, <1>4, <2>1 DEF Paying
    <2> QED BY <2>2 DEF S
<1>5. CASE a # <<>> /\ b # <<>>
    <2>1. S = {1, 2}
        BY <1>5
    <2> HIDE DEF S
    <2>2. Cardinality(S) = Paying(a) + Paying(b)
        BY <1>1, <1>5, <2>1 DEF Paying
    <2> QED BY <2>2 DEF S
<1> QED BY <1>2, <1>3, <1>4, <1>5

\* What the miner is left with, of each party.
LEMMA MinerFeeIs ==
    ASSUME FundingInv, step = "built"
    PROVE  /\ SumOf(offered) \in Nat /\ SumOf(Accepted) \in Nat
           /\ OfferChange \in Int /\ AcceptChange \in Int
           /\ MinerFee = Agreed(inputs) + (OfferChange - Undusted(OfferChange)) - Rounding(inputs)
                         + Agreed(terms.theirs) + (AcceptChange - Undusted(AcceptChange)) - Rounding(terms.theirs)
<1> DEFINE a == inputs
           b == terms.theirs
           fa == FutureFee(a, terms.spk, terms.rate, N)
           fb == FutureFee(b, terms.spk, terms.rate, N)
           o == SumOf(offered)
           c == SumOf(Accepted)
<1>1. a \in Seq(UTXO) /\ b \in Seq(UTXO) /\ offered \in [1..N -> Nat] /\ Accepted \in [1..N -> Nat] /\ N \in Nat
    BY OffererIs, TermsAre
<1>2. /\ Share(a) \in Nat /\ Agreed(a) \in Nat /\ Total(a) \in Nat /\ fa \in Nat
      /\ Share(b) \in Nat /\ Agreed(b) \in Nat /\ Total(b) \in Nat /\ fb \in Nat
    BY <1>1, ShareIs DEF ShareSound
<1>3. tx = Outputs
    BY DEF FundingInv
<1>4. tx.funds = FundingValues /\ tx.offerChange = Undusted(OfferChange) /\ tx.acceptChange = Undusted(AcceptChange)
    BY <1>3 DEF Outputs
<1>5. FundingValues = [i \in 1..N |-> offered[i] + Accepted[i] + Share(a) + Share(b)]
    BY <1>1 DEF FundingValues
<1>6. FundingValues \in [1..N -> Int]
    <2> DEFINE x == Share(a)
               y == Share(b)
               v(i) == offered[i] + Accepted[i] + x + y
    <2>1. x \in Nat /\ y \in Nat
        BY <1>2
    <2>2. FundingValues = [i \in 1..N |-> v(i)]
        BY <1>5
    <2> HIDE DEF x, y
    <2>3. ASSUME NEW i \in 1..N PROVE v(i) \in Int
        BY <1>1, <2>1
    <2> HIDE DEF v
    <2> QED BY <2>2, <2>3
<1>7. \A i \in 1..N : FundingValues[i] = offered[i] + Accepted[i] + Share(a) + Share(b)
    BY <1>5
<1>8. /\ o \in Nat /\ c \in Nat
      /\ SumOf(FundingValues) = o + c + N * Share(a) + N * Share(b)
    BY <1>1, <1>6, <1>7, FundsAre
<1>9. OfferChange = Total(a) - o - (fa + Agreed(a)) /\ AcceptChange = Total(b) - c - (fb + Agreed(b))
    BY DEF OfferChange, AcceptChange, OfferFees, AcceptFees, Fees, Agreed
<1>10. Rounding(a) = N * Share(a) - fa /\ Rounding(b) = N * Share(b) - fb
    BY DEF Rounding
<1>11. MinerFee = Total(a) + Total(b) - SumOf(FundingValues) - Undusted(OfferChange) - Undusted(AcceptChange)
    BY <1>4 DEF MinerFee
<1>12. OfferChange \in Int /\ AcceptChange \in Int /\ N * Share(a) \in Int /\ N * Share(b) \in Int
    <2>1. N * Share(a) \in Int /\ N * Share(b) \in Int
        BY <1>1, <1>2
    <2> HIDE DEF a, b, fa, fb, o, c
    <2> QED BY <1>2, <1>8, <1>9, <2>1
<1>13. Undusted(OfferChange) \in Int /\ Undusted(AcceptChange) \in Int
    BY <1>12 DEF Undusted
<1> HIDE DEF a, b, fa, fb, o, c
<1>14. MinerFee = Agreed(a) + (OfferChange - Undusted(OfferChange)) - Rounding(a)
                  + Agreed(b) + (AcceptChange - Undusted(AcceptChange)) - Rounding(b)
    BY <1>2, <1>8, <1>9, <1>10, <1>11, <1>12, <1>13
<1> QED BY <1>8, <1>12, <1>14 DEF a, b, o, c

LEMMA BuiltBalances ==
    ASSUME FundingInv, step = "built", ~Unfunded
    PROVE  LET agreed == Agreed(inputs) + Agreed(terms.theirs)
               parties == Cardinality({p \in {1, 2} : (<<inputs, terms.theirs>>)[p] # <<>>})
           IN  /\ MinerFee \in agreed - parties * (N - 1)..agreed + parties * (DUST_LIMIT - 1)
               /\ \A i \in DOMAIN tx.funds :
                    4 * (tx.funds[i] - offered[i] - Accepted[i]) >= parties * terms.rate * (249 + 4 * terms.spk)
<1> DEFINE a == inputs
           b == terms.theirs
           p == Paying(a)
           q == Paying(b)
           dusta == OfferChange - Undusted(OfferChange)
           dustb == AcceptChange - Undusted(AcceptChange)
           K == 249 + 4 * terms.spk
<1>1. a \in Seq(UTXO) /\ b \in Seq(UTXO) /\ N \in Nat \ {0} /\ terms.rate \in Nat /\ terms.spk \in Nat
    BY OffererIs, TermsAre
<1>2. /\ SumOf(offered) \in Nat /\ SumOf(Accepted) \in Nat
      /\ OfferChange \in Int /\ AcceptChange \in Int
      /\ MinerFee = Agreed(a) + dusta - Rounding(a) + Agreed(b) + dustb - Rounding(b)
    BY MinerFeeIs
<1>3. /\ OfferChange = Total(a) - SumOf(offered) - Fees(a, terms.spk, terms.rate, N)
      /\ AcceptChange = Total(b) - SumOf(Accepted) - Fees(b, terms.spk, terms.rate, N)
    BY DEF OfferChange, AcceptChange, OfferFees, AcceptFees
<1>4. ASSUME NEW coins \in Seq(UTXO), coins = <<>>
      PROVE  Total(coins) = 0 /\ Fees(coins, terms.spk, terms.rate, N) = 0
    <2>1. Agreed(coins) = 0 /\ Total(coins) = 0 /\ FutureFee(coins, terms.spk, terms.rate, N) = 0
        BY <1>4, ShareIs DEF ShareSound
    <2> QED BY <2>1 DEF Fees, Agreed
<1>5. OfferChange \in Nat /\ (AcceptChange < 0 => ~(Total(b) > 0))
    BY <1>2 DEF FundingInv, Insufficient
<1>6. AcceptChange \in Nat
    <2>1. CASE b = <<>>
        <3>1. SumOf(Accepted) = 0
            BY <1>2, <2>1 DEF Unfunded
        <3>2. Total(b) = 0 /\ Fees(b, terms.spk, terms.rate, N) = 0
            BY <1>1, <1>4, <2>1
        <3> HIDE DEF b
        <3> QED BY <1>3, <3>1, <3>2
    <2>2. CASE b # <<>>
        <3>1. Total(b) > 0
            BY <1>1, <2>2, ShareIs DEF ShareSound
        <3> QED BY <1>2, <1>5, <3>1
    <2> QED BY <2>1, <2>2
<1>7. dusta \in 0..p * (DUST_LIMIT - 1)
    <2>1. CASE a = <<>>
        <3>2. Total(a) = 0 /\ Fees(a, terms.spk, terms.rate, N) = 0
            BY <1>1, <1>4, <2>1
        <3>1. OfferChange = 0
            <4> HIDE DEF a
            <4> QED BY <1>2, <1>3, <1>5, <3>2
        <3> QED BY <2>1, <3>1 DEF Paying, Undusted, DUST_LIMIT
    <2>2. CASE a # <<>>
        <3>1. dusta \in 0..DUST_LIMIT - 1
            BY <1>5, LeftOver
        <3>2. p * (DUST_LIMIT - 1) = DUST_LIMIT - 1
            BY <2>2 DEF Paying, DUST_LIMIT
        <3> QED BY <3>1, <3>2
    <2> QED BY <2>1, <2>2
<1>8. dustb \in 0..q * (DUST_LIMIT - 1)
    <2>1. CASE b = <<>>
        <3>2. Total(b) = 0 /\ Fees(b, terms.spk, terms.rate, N) = 0
            BY <1>1, <1>4, <2>1
        <3>1. AcceptChange = 0
            <4> HIDE DEF b
            <4> QED BY <1>2, <1>3, <1>6, <3>2
        <3> QED BY <2>1, <3>1 DEF Paying, Undusted, DUST_LIMIT
    <2>2. CASE b # <<>>
        <3>1. dustb \in 0..DUST_LIMIT - 1
            BY <1>6, LeftOver
        <3>2. q * (DUST_LIMIT - 1) = DUST_LIMIT - 1
            BY <2>2 DEF Paying, DUST_LIMIT
        <3> QED BY <3>1, <3>2
    <2> QED BY <2>1, <2>2
<1>9. /\ Rounding(a) \in 0..p * (N - 1) /\ Rounding(b) \in 0..q * (N - 1)
      /\ Agreed(a) \in Nat /\ Agreed(b) \in Nat /\ Share(a) \in Nat /\ Share(b) \in Nat
    BY <1>1, ShareIs DEF ShareSound
<1>10. p \in {0, 1} /\ q \in {0, 1}
    BY DEF Paying
<1>11. /\ (p + q) * (N - 1) = p * (N - 1) + q * (N - 1)
       /\ (p + q) * (DUST_LIMIT - 1) = p * (DUST_LIMIT - 1) + q * (DUST_LIMIT - 1)
    BY <1>1, <1>10 DEF DUST_LIMIT
<1>12. MinerFee \in (Agreed(a) + Agreed(b)) - (p + q) * (N - 1)..Agreed(a) + Agreed(b) + (p + q) * (DUST_LIMIT - 1)
    <2> DEFINE pn == p * (N - 1)
               qn == q * (N - 1)
               pd == p * (DUST_LIMIT - 1)
               qd == q * (DUST_LIMIT - 1)
    <2>1. pn \in Int /\ qn \in Int /\ pd \in Int /\ qd \in Int
        BY <1>1, <1>10 DEF DUST_LIMIT
    <2>2. dusta \in Int /\ dusta >= 0 /\ dusta <= pd /\ dustb \in Int /\ dustb >= 0 /\ dustb <= qd
        BY <1>7, <1>8, <2>1
    <2>3. /\ Rounding(a) \in Int /\ Rounding(a) >= 0 /\ Rounding(a) <= pn
          /\ Rounding(b) \in Int /\ Rounding(b) >= 0 /\ Rounding(b) <= qn
        BY <1>9, <2>1
    <2> HIDE DEF pn, qn, pd, qd, dusta, dustb, a, b
    <2>4. MinerFee \in (Agreed(a) + Agreed(b)) - (pn + qn)..Agreed(a) + Agreed(b) + (pd + qd)
        BY <1>2, <1>9, <2>1, <2>2, <2>3
    <2> QED BY <1>11, <2>4 DEF pn, qn, pd, qd
<1>13. ASSUME NEW i \in DOMAIN tx.funds
       PROVE  4 * (tx.funds[i] - offered[i] - Accepted[i]) >= (p + q) * terms.rate * K
    <2>1. offered \in [1..N -> Nat] /\ Accepted \in [1..N -> Nat]
        BY OffererIs, TermsAre
    <2>2. tx.funds = [j \in 1..N |-> offered[j] + Accepted[j] + Share(a) + Share(b)]
        BY <2>1 DEF FundingInv, Outputs, FundingValues
    <2>3. i \in 1..N /\ tx.funds[i] = offered[i] + Accepted[i] + Share(a) + Share(b)
        BY <1>13, <2>2
    <2>4. tx.funds[i] - offered[i] - Accepted[i] = Share(a) + Share(b)
        BY <1>9, <2>1, <2>3
    <2>5. 4 * Share(a) >= p * (terms.rate * K)
        <3>1. CASE a = <<>>
            <4>1. p = 0 /\ terms.rate * K \in Int
                BY <1>1, <3>1 DEF Paying
            <4> QED BY <1>9, <4>1
        <3>2. CASE a # <<>>
            <4>1. p = 1 /\ terms.rate * K \in Int
                BY <1>1, <3>2 DEF Paying
            <4>2. 4 * Share(a) >= terms.rate * K
                BY <1>1, <3>2, ShareIs DEF ShareSound
            <4> QED BY <4>1, <4>2
        <3> QED BY <3>1, <3>2
    <2>6. 4 * Share(b) >= q * (terms.rate * K)
        <3>1. CASE b = <<>>
            <4>1. q = 0 /\ terms.rate * K \in Int
                BY <1>1, <3>1 DEF Paying
            <4> QED BY <1>9, <4>1
        <3>2. CASE b # <<>>
            <4>1. q = 1 /\ terms.rate * K \in Int
                BY <1>1, <3>2 DEF Paying
            <4>2. 4 * Share(b) >= terms.rate * K
                BY <1>1, <3>2, ShareIs DEF ShareSound
            <4> QED BY <4>1, <4>2
        <3> QED BY <3>1, <3>2
    <2>7. (p + q) * terms.rate * K = p * (terms.rate * K) + q * (terms.rate * K) /\ terms.rate * K \in Int
        <3>1. \A x \in {0, 1, 2}, r, k \in Nat : x * r * k = x * (r * k) /\ r * k \in Int
            OBVIOUS
        <3>2. \A x, y \in {0, 1}, m \in Int : (x + y) * m = x * m + y * m
            OBVIOUS
        <3>3. p + q \in {0, 1, 2} /\ K \in Nat /\ terms.rate \in Nat
            BY <1>1, <1>10
        <3> HIDE DEF p, q, K
        <3>4. (p + q) * terms.rate * K = (p + q) * (terms.rate * K) /\ terms.rate * K \in Int
            BY <3>1, <3>3, Zenon
        <3>5. (p + q) * (terms.rate * K) = p * (terms.rate * K) + q * (terms.rate * K)
            BY <1>10, <3>2, <3>4, Zenon
        <3> QED BY <3>4, <3>5, Zenon
    <2>8. p * (terms.rate * K) \in Int /\ q * (terms.rate * K) \in Int
        BY <1>10, <2>7
    <2> QED BY <1>9, <2>4, <2>5, <2>6, <2>7, <2>8
<1>14. Cardinality({x \in {1, 2} : (<<inputs, terms.theirs>>)[x] # <<>>}) = p + q
    BY PartiesAre
<1> HIDE DEF p, q, K, a, b
<1>15. \A i \in DOMAIN tx.funds : 4 * (tx.funds[i] - offered[i] - Accepted[i]) >= (p + q) * terms.rate * K
    BY <1>13
<1> DEFINE agreed == Agreed(inputs) + Agreed(terms.theirs)
           parties == Cardinality({x \in {1, 2} : (<<inputs, terms.theirs>>)[x] # <<>>})
<1>16. MinerFee \in agreed - parties * (N - 1)..agreed + parties * (DUST_LIMIT - 1)
    <2>1. MinerFee \in agreed - (p + q) * (N - 1)..agreed + (p + q) * (DUST_LIMIT - 1)
        BY <1>12 DEF a, b
    <2>2. parties = p + q
        BY <1>14
    <2> HIDE DEF agreed, parties
    <2> QED BY <2>1, <2>2
<1>17. \A i \in DOMAIN tx.funds :
         4 * (tx.funds[i] - offered[i] - Accepted[i]) >= parties * terms.rate * (249 + 4 * terms.spk)
    BY <1>14, <1>15, Zenon DEF K, a, b
<1> QED BY <1>16, <1>17, Zenon

\* A longer script costs more.
LEMMA LongerScript ==
    ASSUME FundingInv, NEW coins \in Seq(UTXO), coins # <<>>
    PROVE  /\ Fees(coins, FakeSPK, terms.rate, N) \in Int /\ Fees(coins, terms.spk, terms.rate, N) \in Int
           /\ Fees(coins, terms.spk, terms.rate, N) - Fees(coins, FakeSPK, terms.rate, N)
                = (terms.rate * (terms.spk - FakeSPK)) * (N + 1)
           /\ Fees(coins, FakeSPK, terms.rate, N) > 0
<1> DEFINE D == 1..Len(coins)
           b == BesidesScripts(coins, N)
           a == Beyond(N)
           rate == terms.rate
           n == N
<1>1. n \in Nat \ {0} /\ rate \in Nat \ {0} /\ terms.spk \in 22..34
    BY TermsAre
<1>2. coins \in [D -> UTXO] /\ IsFiniteSet(D) /\ D # {}
    BY CoinsDomain
<1> HIDE DEF D, rate, n, a, b
<1>3. ASSUME NEW spk \in Nat
      PROVE  a \in Nat /\ b \in Nat /\ Fees(coins, spk, rate, n) = rate * (spk * n + a) + rate * (spk + b)
    <2>1. FeesSplit(coins, D, spk, rate, n)
        BY <1>1, <1>2, FeesAre, Zenon
    <2> QED BY <1>2, <2>1, Zenon DEF FeesSplit, Fees, a, b, n
<1>4. \A spk \in Nat : Fees(coins, spk, rate, n) = rate * (spk * n + a) + rate * (spk + b)
    BY <1>3
<1>5. a \in Nat /\ b \in Nat
    BY <1>1, <1>3
<1> DEFINE ra == rate * a
           rb == rate * b
           rn == rate * n
<1>6. ra \in Nat /\ rb \in Nat /\ rn \in Nat /\ rn > 0
    BY <1>1, <1>5
<1>7. \A spk \in Nat : rate * (spk * n + a) + rate * (spk + b) = spk * rn + ra + spk * rate + rb
    BY <1>1, <1>5
<1> DEFINE s == terms.spk
<1>8. s \in Nat /\ FakeSPK = 22
    BY <1>1 DEF FakeSPK
<1>9. s * rn \in Nat /\ s * rate \in Nat
    BY <1>1, <1>6, <1>8
<1>10. Fees(coins, s, rate, n) = s * rn + ra + s * rate + rb
    BY <1>4, <1>7, <1>8
<1>11. Fees(coins, FakeSPK, rate, n) = 22 * rn + ra + 22 * rate + rb
    BY <1>4, <1>7, <1>8
<1>12. (rate * (s - FakeSPK)) * (n + 1) = (s * rn + s * rate) - (22 * rn + 22 * rate)
    <2>1. \A x, y, z \in Nat : (x * (y - 22)) * (z + 1) = (y * (x * z) + y * x) - (22 * (x * z) + 22 * x)
        OBVIOUS
    <2>2. n \in Nat /\ rate \in Nat
        BY <1>1
    <2>3. (rate * (s - 22)) * (n + 1) = (s * (rate * n) + s * rate) - (22 * (rate * n) + 22 * rate)
        BY <1>8, <2>1, <2>2, Zenon
    <2> QED BY <1>8, <2>3, Zenon DEF rn
<1> HIDE DEF s, ra, rb, rn
<1>13. /\ Fees(coins, FakeSPK, rate, n) \in Int /\ Fees(coins, s, rate, n) \in Int
       /\ Fees(coins, s, rate, n) - Fees(coins, FakeSPK, rate, n) = (rate * (s - FakeSPK)) * (n + 1)
       /\ Fees(coins, FakeSPK, rate, n) > 0
    BY <1>1, <1>6, <1>9, <1>10, <1>11, <1>12
<1> QED BY <1>13 DEF s, rate, n

LEMMA MaximumBalances ==
    ASSUME FundingInv, terms.mode = "max", step \in {"built", "insufficient"}, SumOf(offered) > 0
    PROVE  IF terms.spk > FakeSPK THEN step = "insufficient"
           ELSE step = "built" /\ OfferChange = 0 /\ MinerFee <= Agreed(inputs)
<1> DEFINE w == terms.wallet
           spk == terms.spk
           rate == terms.rate
<1>1. /\ N \in Nat \ {0} /\ rate \in Nat \ {0} /\ spk \in 22..34 /\ w \in Seq(UTXO)
      /\ terms.theirs \in Seq(UTXO) /\ terms.theirs = <<>>
    BY TermsAre
<1>2. inputs = w /\ offered = ChosenCollaterals
    BY DEF FundingInv, ChosenInputs
<1>3. SumOf(offered) = Largest /\ Largest \in Nat /\ Largest = Total(w) - Fees(w, FakeSPK, rate, N)
    BY <1>2, LargestIs
<1>4. OfferChange = Total(w) - SumOf(offered) - Fees(w, spk, rate, N)
    BY <1>2 DEF OfferChange, OfferFees
<1>5. w # <<>>
    <2> SUFFICES ASSUME w = <<>> PROVE FALSE
        OBVIOUS
    <2>1. Total(w) = 0
        BY <1>1, ShareIs DEF ShareSound
    <2>2. Fees(w, FakeSPK, rate, N) = 0
        BY DEF Fees, FutureFee, FundingFee
    <2> QED BY <1>3, <2>1, <2>2
<1>6. Total(w) \in Nat
    BY <1>1, ShareIs DEF ShareSound
<1>7. /\ Fees(w, FakeSPK, rate, N) \in Int /\ Fees(w, spk, rate, N) \in Int
      /\ Fees(w, spk, rate, N) - Fees(w, FakeSPK, rate, N) = (rate * (spk - FakeSPK)) * (N + 1)
    BY <1>1, <1>5, LongerScript
<1> DEFINE more == (rate * (spk - FakeSPK)) * (N + 1)
<1>8. more \in Int /\ (spk = FakeSPK => more = 0) /\ (spk > FakeSPK => more > 0)
    <2>1. spk - FakeSPK \in Nat /\ FakeSPK = 22
        BY <1>1 DEF FakeSPK
    <2>2. \A x, y, z \in Nat : x * y * z \in Int /\ (y = 0 => x * y * z = 0) /\ (x > 0 /\ y > 0 /\ z > 0 => x * y * z > 0)
        OBVIOUS
    <2>3. N + 1 \in Nat /\ N + 1 > 0 /\ rate \in Nat /\ rate > 0
        BY <1>1
    <2>4. /\ more \in Int /\ (spk - FakeSPK = 0 => more = 0)
          /\ (rate > 0 /\ spk - FakeSPK > 0 /\ N + 1 > 0 => more > 0)
        BY <2>1, <2>2, <2>3, Zenon DEF more
    <2>5. (spk = FakeSPK => spk - FakeSPK = 0) /\ (spk > FakeSPK => spk - FakeSPK > 0)
        BY <1>1, <2>1
    <2> HIDE DEF more, spk, rate
    <2> QED BY <2>3, <2>4, <2>5, Zenon
<1> HIDE DEF w, spk, rate, more
<1>9. OfferChange = 0 - more
    <2>1. Fees(w, spk, rate, N) - Fees(w, FakeSPK, rate, N) = more
        BY <1>7 DEF more
    <2> QED BY <1>3, <1>4, <1>6, <1>7, <1>8, <2>1
<1>12. OfferChange \in Int /\ (more > 0 => OfferChange < 0) /\ (more = 0 => OfferChange = 0)
    BY <1>8, <1>9
<1>10. CASE spk > FakeSPK
    <2>1. Insufficient
        <3>1. OfferChange < 0
            BY <1>8, <1>10, <1>12, Zenon
        <3> QED BY <3>1, Zenon DEF Insufficient
    <2> QED BY <1>10, <2>1 DEF FundingInv, spk
<1>11. CASE ~(spk > FakeSPK)
    <2>1. spk = FakeSPK
        BY <1>1, <1>11 DEF FakeSPK
    <2>2. OfferChange = 0
        BY <1>8, <1>12, <2>1, Zenon
    <2>3. ShareSound(terms.theirs) /\ ShareSound(inputs)
        BY <1>1, <1>2, ShareIs
    <2>4. Total(terms.theirs) = 0 /\ Agreed(terms.theirs) = 0 /\ FutureFee(terms.theirs, terms.spk, terms.rate, N) = 0
        BY <1>1, <2>3 DEF ShareSound
    <2>5. step = "built"
        BY <2>2, <2>4 DEF Insufficient, FundingInv
    <2>6. /\ SumOf(Accepted) \in Nat
          /\ MinerFee = Agreed(inputs) + (OfferChange - Undusted(OfferChange)) - Rounding(inputs)
                        + Agreed(terms.theirs) + (AcceptChange - Undusted(AcceptChange)) - Rounding(terms.theirs)
        BY <2>5, MinerFeeIs
    <2>7. AcceptChange = 0 - SumOf(Accepted)
        BY <2>4, <2>6 DEF AcceptChange, AcceptFees, Fees, Agreed
    <2>8. Undusted(AcceptChange) = 0 /\ Undusted(OfferChange) = 0
        BY <2>2, <2>6, <2>7 DEF Undusted, DUST_LIMIT
    <2>9. Paying(inputs) * (N - 1) \in Int /\ Paying(terms.theirs) * (N - 1) \in Int
        BY <1>1 DEF Paying
    <2>10. Rounding(inputs) \in Nat /\ Rounding(terms.theirs) \in Nat /\ Agreed(inputs) \in Nat
        BY <2>3, <2>9 DEF ShareSound
    <2>11. MinerFee <= Agreed(inputs)
        BY <2>2, <2>4, <2>6, <2>7, <2>8, <2>10
    <2> QED BY <1>11, <2>2, <2>5, <2>11 DEF spk
<1> QED BY <1>10, <1>11

LEMMA InvBalances == FundingInv => Balances
<1> SUFFICES ASSUME FundingInv PROVE Balances
    OBVIOUS
<1>1. step = "built" /\ ~Unfunded =>
        LET agreed == Agreed(inputs) + Agreed(terms.theirs)
            parties == Cardinality({p \in {1, 2} : (<<inputs, terms.theirs>>)[p] # <<>>})
        IN  /\ MinerFee \in agreed - parties * (N - 1)..agreed + parties * (DUST_LIMIT - 1)
            /\ \A i \in DOMAIN tx.funds :
                 4 * (tx.funds[i] - offered[i] - Accepted[i]) >= parties * terms.rate * (249 + 4 * terms.spk)
    BY BuiltBalances, Zenon
<1>2. terms.mode = "max" /\ step \in {"built", "insufficient"} /\ SumOf(offered) > 0 =>
        IF terms.spk > FakeSPK THEN step = "insufficient"
        ELSE step = "built" /\ OfferChange = 0 /\ MinerFee <= Agreed(inputs)
    BY MaximumBalances, Zenon
<1> QED BY <1>1, <1>2, Zenon DEF Balances

LEMMA OfferBegins == OfferInit => FundingInv
BY OffersAssumption DEF OfferInit, FundingInit, FundingInv

LEMMA OfferStep == FundingInv /\ [OfferNext]_offerVars => FundingInv'
<1>1. [OfferNext]_offerVars => [FundingNext]_fundingVars
    BY DEF OfferNext, Fund, Split, offerVars
<1> QED BY <1>1, FundingStep

(* buildFundingTransaction: what the transaction leaves to the miner is what *)
(* the parties reckoned with, but for roundings and dust, and every fund     *)
(* output pays its share of the transaction that spends it, for any coins,   *)
(* collaterals, rates and number of contracts.                               *)
THEOREM FundingBalances == OfferSpec => []Balances
BY InvBalances, OfferBegins, OfferStep, PTL DEF OfferSpec

(***************************************************************************)
(* FundingTx: the best of the coins.                                       *)
(***************************************************************************)
\* f at the places in S, and 0 at the others of D
Within(f, S, D) == [x \in D |-> IF x \in S THEN f[x] ELSE 0]

LEMMA WithinIs ==
    ASSUME NEW D, NEW f \in [D -> Int]
    PROVE  \A S : Within(f, S, D) \in [D -> Int] /\ \A x \in D : Within(f, S, D)[x] = IF x \in S THEN f[x] ELSE 0
BY DEF Within

Renames(b, E, D) ==
  /\ IsFiniteSet(D) /\ IsFiniteSet(E) /\ b \in [E -> D]
  /\ \A x, y \in E : b[x] = b[y] => x = y

(* A sum does not depend on what the summands are indexed with. *)
LEMMA SumMoved ==
    ASSUME NEW D, NEW E, NEW b, Renames(b, E, D), NEW f \in [D -> Int]
    PROVE  SumOf([x \in E |-> f[b[x]]]) = SumOf(Within(f, {b[x] : x \in E}, D))
<1> DEFINE g == [x \in E |-> f[b[x]]]
           Img(T) == {b[x] : x \in T}
           In(S) == Within(f, S, D)
<1>0. IsFiniteSet(D) /\ IsFiniteSet(E) /\ b \in [E -> D] /\ \A x, y \in E : b[x] = b[y] => x = y
    BY DEF Renames
<1>1. g \in [E -> Int] /\ \A x \in E : g[x] = f[b[x]]
    BY <1>0
<1>2. \A S : In(S) \in [D -> Int] /\ \A x \in D : In(S)[x] = IF x \in S THEN f[x] ELSE 0
    BY WithinIs
<1> HIDE DEF g, In
<1>3. PICK h : Sums(h, g, E) /\ SumOf(g) = h[E]
    BY <1>1, <1>0, SumIs
<1> DEFINE Same == {T \in SUBSET E : SumOf(In(Img(T))) = h[T]}
<1>4. {} \in Same
    <2>1. Img({}) = {}
        OBVIOUS
    <2>2. In({}) \in [D -> Int] /\ 0 \in Int /\ \A x \in D : In({})[x] = 0
        BY <1>2
    <2>3. SumOf(In({})) = Cardinality(D) * 0
        BY <1>0, <2>2, SumConstant, Zenon
    <2>4. Cardinality(D) * 0 = 0
        BY <1>0, FS_CardinalityType
    <2>5. h[{}] = 0
        BY <1>3 DEF Sums
    <2>6. SumOf(In(Img({}))) = h[{}]
        BY <2>1, <2>3, <2>4, <2>5, Zenon
    <2> QED BY <2>6
<1>5. ASSUME NEW T \in SUBSET E, T # {}, T \ {First(T)} \in Same PROVE T \in Same
    <2> DEFINE x == First(T)
               U == T \ {x}
    <2>1. x \in T /\ U \in SUBSET E
        BY <1>5 DEF First
    <2>2. h[T] = g[x] + h[U] /\ SumOf(In(Img(U))) = h[U]
        BY <1>3, <1>5, Zenon DEF Sums
    <2> HIDE DEF x
    <2>3. b[x] \in D /\ b[x] \notin Img(U) /\ \A y : y \in Img(T) <=> y = b[x] \/ y \in Img(U)
        BY <1>0, <2>1
    <2>4. f[b[x]] \in Int
        BY <2>3
    <2> HIDE DEF Img, U
    <2>5. AddsUp(In(Img(T)), In({b[x]}), In(Img(U)), D)
        <3> SUFFICES ASSUME NEW y \in D PROVE In(Img(T))[y] = In({b[x]})[y] + In(Img(U))[y]
            BY <1>2, <1>0 DEF AddsUp
        <3>1. f[y] \in Int
            OBVIOUS
        <3> QED BY <1>2, <2>3, <3>1
    <2>6. SumOf(In(Img(T))) = SumOf(In({b[x]})) + SumOf(In(Img(U)))
        BY <2>5, SumAdds
    <2>7. SumOf(In({b[x]})) = In({b[x]})[b[x]]
        <3>1. OnlyAt(In({b[x]}), b[x], D)
            BY <1>2, <2>3 DEF OnlyAt
        <3>2. In({b[x]}) \in [D -> Int]
            BY <1>2
        <3> QED BY <1>0, <2>3, <3>1, <3>2, SumSpot, Zenon
    <2>8. In({b[x]})[b[x]] = g[x]
        BY <1>1, <1>2, <2>1, <2>3
    <2> QED BY <2>2, <2>6, <2>7, <2>8
<1>6. SUBSET E \subseteq Same
    <2> HIDE DEF Same
    <2> QED BY <1>4, <1>5, <1>0, SetInduct, Zenon
<1> QED BY <1>3, <1>6 DEF g, In

LEMMA SumPart ==
    ASSUME NEW D, IsFiniteSet(D), NEW S \in SUBSET D, NEW f \in [D -> Int]
    PROVE  SumOf([x \in S |-> f[x]]) = SumOf(Within(f, S, D))
<1> DEFINE b == [x \in S |-> x]
<1>1. IsFiniteSet(S)
    BY FS_Subset
<1>2. Renames(b, S, D)
    BY <1>1 DEF Renames
<1>3. {b[x] : x \in S} = S /\ [x \in S |-> f[b[x]]] = [x \in S |-> f[x]]
    OBVIOUS
<1> HIDE DEF b
<1>4. SumOf([x \in S |-> f[b[x]]]) = SumOf(Within(f, {b[x] : x \in S}, D))
    BY <1>2, SumMoved
<1> QED BY <1>3, <1>4

Scaled(g, c, f, D) ==
  /\ IsFiniteSet(D) /\ c \in Int /\ f \in [D -> Int] /\ g \in [D -> Int]
  /\ \A x \in D : g[x] = c * f[x]

LEMMA SumScale ==
    ASSUME NEW D, NEW c, NEW f, NEW g, Scaled(g, c, f, D)
    PROVE  SumOf(g) = c * SumOf(f)
<1>0. /\ IsFiniteSet(D) /\ c \in Int /\ f \in [D -> Int] /\ g \in [D -> Int]
      /\ \A x \in D : g[x] = c * f[x]
    BY DEF Scaled
<1>1. PICK F : Sums(F, f, D) /\ SumOf(f) = F[D]
    BY <1>0, SumIs
<1>2. PICK G : Sums(G, g, D) /\ SumOf(g) = G[D]
    BY <1>0, SumIs
<1> DEFINE Times == {T \in SUBSET D : G[T] = c * F[T]}
<1>4. {} \in Times
    BY <1>0, <1>1, <1>2 DEF Sums
<1>5. ASSUME NEW T \in SUBSET D, T # {}, T \ {First(T)} \in Times PROVE T \in Times
    <2> DEFINE x == First(T)
               U == T \ {x}
    <2>1. x \in D /\ U \in SUBSET D
        BY <1>5 DEF First
    <2> HIDE DEF x
    <2>2. F[T] = f[x] + F[U] /\ G[T] = g[x] + G[U]
        BY <1>1, <1>2, <1>5, Zenon DEF Sums, x
    <2>3. F[U] \in Int /\ f[x] \in Int
        BY <1>0, <1>1, <2>1 DEF Sums
    <2>4. G[U] = c * F[U] /\ g[x] = c * f[x]
        BY <1>0, <1>5, <2>1 DEF x
    <2>5. \A y, z \in Int : c * y + c * z = c * (y + z)
        BY <1>0
    <2>6. G[T] = c * F[T]
        <3>1. c * f[x] + c * F[U] = c * (f[x] + F[U])
            BY <2>3, <2>5, Zenon
        <3> QED BY <2>2, <2>4, <3>1, Zenon
    <2> QED BY <2>6
<1> HIDE DEF Times
<1>6. SUBSET D \subseteq Times
    BY <1>0, <1>4, <1>5, SetInduct, Zenon
<1> QED BY <1>1, <1>2, <1>6 DEF Times

Best(wallet, rate, k) == {i \in Worth(wallet, rate) : Place(wallet, rate)[i] <= k}
Scores(wallet, rate) == [i \in DOMAIN wallet |-> Score(wallet[i], rate)]
Spots(b, wallet, rate, k) ==
  /\ b \in [1..k -> DOMAIN wallet]
  /\ \A x, y \in 1..k : b[x] = b[y] => x = y
  /\ {b[x] : x \in 1..k} = Best(wallet, rate, k)
  /\ \A x \in 1..k : Sorted(wallet, rate)[x] = wallet[b[x]]

(* The first k coins in the order are those of the best places. *)
LEMMA SpotsAre ==
    ASSUME NEW wallet \in Seq(UTXO), NEW rate \in Nat, NEW k \in 0..Cardinality(Worth(wallet, rate))
    PROVE  \E b : Spots(b, wallet, rate, k)
<1> DEFINE W == Worth(wallet, rate)
           m == Cardinality(W)
           place == Place(wallet, rate)
           b == [x \in 1..k |-> CHOOSE i \in W : place[i] = x]
<1>1. m \in Nat /\ W \subseteq DOMAIN wallet /\ place \in [W -> 1..m] /\ \A x \in 1..m : \E i \in W : place[i] = x
    BY PlaceIs DEF Worth
<1>2. \A i \in W : Sorted(wallet, rate)[place[i]] = wallet[i]
    BY SortedIs
<1>3. \A i, j \in W : place[i] = place[j] => i = j
    <2> SUFFICES ASSUME NEW i \in W, NEW j \in W, place[i] = place[j] PROVE i = j
        OBVIOUS
    <2>1. i # j => Before(wallet, rate, i, j) \/ Before(wallet, rate, j, i)
        BY <1>1, BeforeIsTotal
    <2>2. place[i] \in 1..m /\ place[j] \in 1..m
        BY <1>1
    <2>3. (Before(wallet, rate, i, j) => place[i] < place[j]) /\ (Before(wallet, rate, j, i) => place[j] < place[i])
        BY PlaceIs
    <2> HIDE DEF place, m
    <2> QED BY <2>1, <2>2, <2>3
<1> HIDE DEF W, m, place
<1>4. \A x \in 1..k : x \in 1..m
    BY <1>1 DEF m, W
<1>5. ASSUME NEW x \in 1..k PROVE b[x] \in W /\ place[b[x]] = x
    BY <1>1, <1>4
<1>6. b \in [1..k -> DOMAIN wallet]
    BY <1>1, <1>5
<1> HIDE DEF b
<1>7. \A x, y \in 1..k : b[x] = b[y] => x = y
    BY <1>5
<1>8. {b[x] : x \in 1..k} = {i \in W : place[i] <= k}
    <2>1. ASSUME NEW x \in 1..k PROVE b[x] \in {i \in W : place[i] <= k}
        BY <1>5
    <2>2. ASSUME NEW i \in W, place[i] <= k PROVE \E x \in 1..k : b[x] = i
        <3>1. place[i] \in 1..k
            BY <1>1, <2>2
        <3>2. b[place[i]] \in W /\ place[b[place[i]]] = place[i]
            BY <1>5, <3>1
        <3> QED BY <1>3, <3>1, <3>2
    <2> QED BY <2>1, <2>2
<1>9. \A x \in 1..k : Sorted(wallet, rate)[x] = wallet[b[x]]
    BY <1>2, <1>5
<1> QED BY <1>6, <1>7, <1>8, <1>9 DEF Spots, Best, W, place

(* No coins are worth more than as many of the best, or than all that are  *)
(* worth something.                                                        *)
LEMMA BestAre ==
    ASSUME NEW wallet \in Seq(UTXO), NEW rate \in Nat, NEW S \in SUBSET DOMAIN wallet, NEW k \in Nat,
           IsFiniteSet(DOMAIN wallet), k <= Cardinality(Worth(wallet, rate)),
           k = Cardinality(S) \/ k = Cardinality(Worth(wallet, rate))
    PROVE  k <= Cardinality(S) =>
             SumOf(Within(Scores(wallet, rate), S, DOMAIN wallet))
               <= SumOf(Within(Scores(wallet, rate), Best(wallet, rate, k), DOMAIN wallet))
<1> SUFFICES ASSUME k <= Cardinality(S)
             PROVE  SumOf(Within(Scores(wallet, rate), S, DOMAIN wallet))
                      <= SumOf(Within(Scores(wallet, rate), Best(wallet, rate, k), DOMAIN wallet))
    OBVIOUS
<1> DEFINE D == DOMAIN wallet
           W == Worth(wallet, rate)
           m == Cardinality(W)
           place == Place(wallet, rate)
           sc == Scores(wallet, rate)
           Q == Best(wallet, rate, k)
           c == Cardinality(S)
<1>1. /\ m \in Nat /\ place \in [W -> 1..m] /\ \A x \in 1..m : \E i \in W : place[i] = x
      /\ W = {i \in D : sc[i] >= 0} /\ Q = {i \in W : place[i] <= k}
    BY PlaceIs DEF Worth, Best, Scores
<1>2. sc \in [D -> Int]
    <2>1. \A i \in D : wallet[i] \in UTXO
        OBVIOUS
    <2>2. \A i \in D : Score(wallet[i], rate) \in Int
        BY <2>1, ScoreIs
    <2> QED BY <2>2 DEF Scores
<1>3. \A i, j \in W : place[i] < place[j] => sc[i] >= sc[j]
    <2> SUFFICES ASSUME NEW i \in W, NEW j \in W, place[i] < place[j] PROVE sc[i] >= sc[j]
        OBVIOUS
    <2>1. i \in D /\ j \in D /\ place[i] \in Int /\ place[j] \in Int
        BY <1>1
    <2>5. Before(wallet, rate, j, i) => place[j] < place[i]
        BY PlaceIs
    <2>2. i # j /\ ~Before(wallet, rate, j, i)
        <3> HIDE DEF place
        <3> QED BY <2>1, <2>5
    <2>3. Before(wallet, rate, i, j)
        BY <2>1, <2>2, BeforeIsTotal
    <2>4. Score(wallet[i], rate) >= Score(wallet[j], rate)
        BY <2>1, <2>3, BeforeIsTotal
    <2> QED BY <2>1, <2>4 DEF Scores
<1>4. c \in Nat /\ IsFiniteSet(S) /\ IsFiniteSet(D) /\ S \in SUBSET D
    BY FS_Subset, FS_CardinalityType
<1>5. PICK b : Spots(b, wallet, rate, k)
    <2>1. k \in 0..Cardinality(Worth(wallet, rate))
        BY <1>1
    <2> QED BY <2>1, SpotsAre
<1>6. b \in [1..k -> D] /\ (\A x, y \in 1..k : b[x] = b[y] => x = y) /\ {b[x] : x \in 1..k} = Q
    BY <1>5 DEF Spots
<1>7. k <= c /\ k <= m /\ (k = c \/ k = m)
    OBVIOUS
<1> HIDE DEF D, W, m, place, sc, Q, c
\* t is worth at most what the chosen ones are and at least what the others are
<1>8. PICK t \in Int : (k # c => t = 0) /\ \A i \in D : IF i \in Q THEN sc[i] >= t ELSE sc[i] <= t
    <2>1. CASE k # c
        <3>1. \A i \in W : place[i] <= k
            BY <1>1, <1>7, <2>1
        <3>2. Q = W
            BY <1>1, <3>1
        <3>3. \A i \in D : IF i \in Q THEN sc[i] >= 0 ELSE sc[i] <= 0
            BY <1>1, <1>2, <3>2
        <3> QED BY <2>1, <3>3
    <2>2. CASE k = c /\ k = m
        <3>1. \A i \in W : place[i] <= k
            BY <1>1, <2>2
        <3>2. Q = W
            BY <1>1, <3>1
        <3>3. \A i \in D : IF i \in Q THEN sc[i] >= 0 ELSE sc[i] <= 0
            BY <1>1, <1>2, <3>2
        <3> QED BY <2>2, <3>3
    <2>3. CASE k = c /\ k < m
        <3>1. k + 1 \in 1..m
            BY <1>1, <2>3
        <3>2. PICK j \in W : place[j] = k + 1
            BY <1>1, <3>1
        <3>3. j \in D /\ sc[j] \in Int /\ sc[j] >= 0
            BY <1>1, <1>2
        <3>4. ASSUME NEW i \in D PROVE IF i \in Q THEN sc[i] >= sc[j] ELSE sc[i] <= sc[j]
            <4>1. sc[i] \in Int /\ (i \in W => place[i] \in Int)
                BY <1>1, <1>2
            <4>2. CASE i \in Q
                <5>1. i \in W /\ place[i] < place[j]
                    BY <1>1, <3>2, <4>1, <4>2
                <5> QED BY <1>3, <4>2, <5>1
            <4>3. CASE i \notin W
                BY <1>1, <3>3, <4>1, <4>3
            <4>4. CASE i \in W /\ i \notin Q
                <5>1. place[i] > k
                    BY <1>1, <4>1, <4>4
                <5>2. i = j \/ place[j] < place[i]
                    <6>1. place[i] = place[j] => i = j
                        <7>1. i # j => Before(wallet, rate, i, j) \/ Before(wallet, rate, j, i)
                            BY <3>3, BeforeIsTotal DEF D
                        <7>2. (Before(wallet, rate, i, j) => place[i] < place[j])
                                /\ (Before(wallet, rate, j, i) => place[j] < place[i])
                            BY <4>4, PlaceIs DEF W, place
                        <7> QED BY <3>2, <4>1, <7>1, <7>2
                    <6> QED BY <3>2, <4>1, <4>4, <5>1, <6>1
                <5> QED BY <1>3, <3>3, <4>4, <5>2
            <4> QED BY <4>2, <4>3, <4>4, <1>1
        <3> QED BY <2>3, <3>3, <3>4
    <2> QED BY <1>7, <2>1, <2>2, <2>3, <1>1, <1>4
<1> DEFINE rest == [i \in D |-> sc[i] - t]
           all == [i \in D |-> t]
<1>9. rest \in [D -> Int] /\ all \in [D -> Int] /\ \A i \in D : sc[i] = rest[i] + t /\ all[i] = t
    BY <1>2
<1>10. \A i \in D : IF i \in Q THEN rest[i] >= 0 ELSE rest[i] <= 0
    BY <1>2, <1>8
<1> HIDE DEF rest, all
<1>11. ASSUME NEW T
       PROVE  /\ Within(sc, T, D) \in [D -> Int] /\ \A i \in D : Within(sc, T, D)[i] = IF i \in T THEN sc[i] ELSE 0
              /\ Within(rest, T, D) \in [D -> Int] /\ \A i \in D : Within(rest, T, D)[i] = IF i \in T THEN rest[i] ELSE 0
              /\ Within(all, T, D) \in [D -> Int] /\ \A i \in D : Within(all, T, D)[i] = IF i \in T THEN all[i] ELSE 0
    <2>1. Within(sc, T, D) \in [D -> Int] /\ \A i \in D : Within(sc, T, D)[i] = IF i \in T THEN sc[i] ELSE 0
        BY <1>2, WithinIs
    <2>2. Within(rest, T, D) \in [D -> Int] /\ \A i \in D : Within(rest, T, D)[i] = IF i \in T THEN rest[i] ELSE 0
        BY <1>9, WithinIs
    <2>3. Within(all, T, D) \in [D -> Int] /\ \A i \in D : Within(all, T, D)[i] = IF i \in T THEN all[i] ELSE 0
        BY <1>9, WithinIs
    <2> QED BY <2>1, <2>2, <2>3
<1>12. ASSUME NEW T PROVE SumOf(Within(sc, T, D)) = SumOf(Within(rest, T, D)) + SumOf(Within(all, T, D))
    <2>1. AddsUp(Within(sc, T, D), Within(rest, T, D), Within(all, T, D), D)
        <3>1. /\ Within(sc, T, D) \in [D -> Int] /\ Within(rest, T, D) \in [D -> Int]
              /\ Within(all, T, D) \in [D -> Int]
            BY <1>2, <1>9, <1>11
        <3>2. ASSUME NEW i \in D PROVE Within(sc, T, D)[i] = Within(rest, T, D)[i] + Within(all, T, D)[i]
            <4>1. /\ Within(sc, T, D)[i] = IF i \in T THEN sc[i] ELSE 0
                  /\ Within(rest, T, D)[i] = IF i \in T THEN rest[i] ELSE 0
                  /\ Within(all, T, D)[i] = IF i \in T THEN all[i] ELSE 0
                BY <1>2, <1>9, <1>11
            <4> QED BY <1>9, <4>1
        <3> QED BY <1>4, <3>1, <3>2 DEF AddsUp
    <2> QED BY <2>1, SumAdds
<1>13. SumOf(Within(all, S, D)) = c * t
    <2>1. SumOf([x \in S |-> all[x]]) = SumOf(Within(all, S, D))
        BY <1>4, <1>9, SumPart
    <2>2. [x \in S |-> all[x]] \in [S -> Int] /\ \A x \in S : [y \in S |-> all[y]][x] = t
        BY <1>4, <1>9
    <2>3. SumOf([x \in S |-> all[x]]) = Cardinality(S) * t
        BY <1>4, <2>2, SumConstant
    <2> QED BY <2>1, <2>3 DEF c
<1>14. SumOf(Within(all, Q, D)) = k * t
    <2>1. IsFiniteSet(1..k) /\ Cardinality(1..k) = k
        BY FS_Interval
    <2>5. SumOf([x \in 1..k |-> all[b[x]]]) = SumOf(Within(all, {b[x] : x \in 1..k}, D))
        <3>1. Renames(b, 1..k, D) /\ all \in [D -> Int]
            BY <1>4, <1>6, <1>9, <2>1 DEF Renames
        <3> QED BY <3>1, SumMoved
    <2>2. SumOf([x \in 1..k |-> all[b[x]]]) = SumOf(Within(all, Q, D))
        BY <1>6, <2>5
    <2> DEFINE g == [x \in 1..k |-> all[b[x]]]
    <2>3. g \in [1..k -> Int] /\ \A x \in 1..k : g[x] = t
        BY <1>6, <1>9
    <2>4. SumOf(g) = Cardinality(1..k) * t
        <3> HIDE DEF g
        <3> QED BY <2>1, <2>3, SumConstant
    <2> QED BY <2>1, <2>2, <2>4
<1>15. SumOf(Within(rest, S, D)) <= SumOf(Within(rest, Q, D))
    <2> DEFINE f == Within(rest, S, D)
               g == Within(rest, Q, D)
    <2>1. f \in [D -> Int] /\ g \in [D -> Int]
        BY <1>9, <1>11
    <2>2. \A i \in D : f[i] <= g[i]
        <3> SUFFICES ASSUME NEW i \in D PROVE f[i] <= g[i]
            OBVIOUS
        <3>1. f[i] = (IF i \in S THEN rest[i] ELSE 0) /\ g[i] = (IF i \in Q THEN rest[i] ELSE 0)
            BY <1>9, <1>11
        <3>2. rest[i] \in Int /\ IF i \in Q THEN rest[i] >= 0 ELSE rest[i] <= 0
            BY <1>9, <1>10
        <3> HIDE DEF f, g
        <3> QED BY <3>1, <3>2
    <2> HIDE DEF f, g
    <2>3. SumOf(f) <= SumOf(g)
        BY <1>4, <2>1, <2>2, SumMonotonic
    <2> QED BY <2>3 DEF f, g
<1>16. \A T : SumOf(Within(rest, T, D)) \in Int
    BY <1>4, <1>9, <1>11, SumInt
<1>17. c * t = k * t /\ k * t \in Int
    BY <1>4, <1>8
<1> QED BY <1>12, <1>13, <1>14, <1>15, <1>16, <1>17 DEF D, sc, Q

(***************************************************************************)
(* FundingTx: what is selected is enough, and no more than need be.        *)
(***************************************************************************)
Values(wallet) == [i \in DOMAIN wallet |-> wallet[i].value]
Weights(wallet) == [i \in DOMAIN wallet |-> InputWeight(wallet[i])]
Sizes(wallet) == [i \in DOMAIN wallet |-> InputVBytes(wallet[i].witness)]

\* the sum of f over the places in T
Over(f, T, wallet) == SumOf(Within(f, T, DOMAIN wallet))

LEMMA WalletIs ==
    ASSUME NEW wallet \in Seq(UTXO), NEW rate \in Nat
    PROVE  /\ IsFiniteSet(DOMAIN wallet) /\ \A i \in DOMAIN wallet : wallet[i] \in UTXO
           /\ Values(wallet) \in [DOMAIN wallet -> Int] /\ Weights(wallet) \in [DOMAIN wallet -> Nat]
           /\ Sizes(wallet) \in [DOMAIN wallet -> Nat] /\ Scores(wallet, rate) \in [DOMAIN wallet -> Int]
<1> DEFINE D == DOMAIN wallet
<1>1. D = 1..Len(wallet) /\ Len(wallet) \in Nat /\ \A i \in D : wallet[i] \in UTXO
    OBVIOUS
<1>2. IsFiniteSet(D)
    BY <1>1, FS_Interval
<1> HIDE DEF D
<1>3. ASSUME NEW i \in D
      PROVE  /\ wallet[i].value \in Int /\ InputWeight(wallet[i]) \in Nat
             /\ InputVBytes(wallet[i].witness) \in Nat /\ Score(wallet[i], rate) \in Int
    <2> DEFINE coin == wallet[i]
    <2>1. coin \in UTXO
        BY <1>1
    <2> HIDE DEF coin
    <2>2. /\ coin.value \in Int /\ InputWeight(coin) \in Nat
          /\ InputVBytes(coin.witness) \in Nat /\ Score(coin, rate) \in Int
        <3>1. /\ Score(coin, rate) \in Int /\ Score(coin, rate) = coin.value - rate * InputVBytes(coin.witness)
              /\ coin.value \in Nat \ {0} /\ InputVBytes(coin.witness) \in Nat /\ InputWeight(coin) \in Nat
            BY <2>1, ScoreIs
        <3> QED BY <3>1
    <2> QED BY <2>2 DEF coin
<1> QED BY <1>1, <1>2, <1>3 DEF D, Values, Weights, Sizes, Scores

\* coins are those of the wallet at the places b has
Picked(coins, b, E, wallet) ==
  /\ Renames(b, E, DOMAIN wallet)
  /\ coins \in [E -> UTXO] /\ \A e \in E : coins[e] = wallet[b[e]]

LEMMA TakenFrom ==
    ASSUME NEW wallet \in Seq(UTXO), NEW E, NEW b, NEW coins, Picked(coins, b, E, wallet)
    PROVE  /\ Total(coins) = Over(Values(wallet), {b[e] : e \in E}, wallet)
           /\ SumOf([e \in DOMAIN coins |-> InputWeight(coins[e])]) = Over(Weights(wallet), {b[e] : e \in E}, wallet)
<1> DEFINE D == DOMAIN wallet
           v == Values(wallet)
           w == Weights(wallet)
<1>0. Renames(b, E, D) /\ coins \in [E -> UTXO] /\ \A e \in E : coins[e] = wallet[b[e]]
    BY DEF Picked
<1>1. v \in [D -> Int] /\ w \in [D -> Int]
    BY WalletIs
<1>2. \A e \in E : b[e] \in D
    BY <1>0 DEF Renames
<1>3. \A e \in E : v[b[e]] = coins[e].value /\ w[b[e]] = InputWeight(coins[e])
    BY <1>0, <1>2 DEF Values, Weights
<1>4. DOMAIN coins = E
    BY <1>0
<1> HIDE DEF v, w
<1>5. [e \in DOMAIN coins |-> coins[e].value] = [e \in E |-> v[b[e]]]
    BY <1>3, <1>4
<1>6. [e \in DOMAIN coins |-> InputWeight(coins[e])] = [e \in E |-> w[b[e]]]
    BY <1>3, <1>4
<1>7. SumOf([e \in E |-> v[b[e]]]) = SumOf(Within(v, {b[e] : e \in E}, D))
    BY <1>0, <1>1, SumMoved
<1>8. SumOf([e \in E |-> w[b[e]]]) = SumOf(Within(w, {b[e] : e \in E}, D))
    BY <1>0, <1>1, SumMoved
<1> QED BY <1>5, <1>6, <1>7, <1>8, Zenon DEF Total, Over, v, w

Odd(wallet, T) == {i \in T : InputWeight(wallet[i]) % 4 # 0}

(* What coins bring, and what the rounding of their sizes comes to. *)
LEMMA CoinSums ==
    ASSUME NEW wallet \in Seq(UTXO), NEW rate \in Nat, NEW T \in SUBSET DOMAIN wallet
    PROVE  /\ Over(Weights(wallet), T, wallet) \in Nat /\ Over(Sizes(wallet), T, wallet) \in Nat
           /\ Over(Scores(wallet, rate), T, wallet) \in Int /\ Cardinality(Odd(wallet, T)) \in Nat
           /\ Over(Values(wallet), T, wallet)
                = Over(Scores(wallet, rate), T, wallet) + rate * Over(Sizes(wallet), T, wallet)
           /\ Over(Weights(wallet), T, wallet) <= 4 * Over(Sizes(wallet), T, wallet)
           /\ 4 * Over(Sizes(wallet), T, wallet) <= Over(Weights(wallet), T, wallet) + 3 * Cardinality(Odd(wallet, T))
<1> DEFINE D == DOMAIN wallet
           F(f) == Within(f, T, D)
           v == F(Values(wallet))
           w == F(Weights(wallet))
           z == F(Sizes(wallet))
           c == F(Scores(wallet, rate))
           O == Odd(wallet, T)
           three == [i \in D |-> 3]
           odd == Within(three, O, D)
           cost == [i \in D |-> rate * z[i]]
           four == [i \in D |-> 4 * z[i]]
           more == [i \in D |-> w[i] + odd[i]]
           zero == [i \in D |-> 0]
<1>1. /\ IsFiniteSet(D) /\ \A i \in D : wallet[i] \in UTXO
      /\ Values(wallet) \in [D -> Int] /\ Weights(wallet) \in [D -> Nat]
      /\ Sizes(wallet) \in [D -> Nat] /\ Scores(wallet, rate) \in [D -> Int]
    BY WalletIs
<1>2. O \in SUBSET D /\ O \subseteq T /\ IsFiniteSet(O) /\ Cardinality(O) \in Nat
    <2>1. O \in SUBSET D /\ O \subseteq T
        BY DEF Odd
    <2> QED BY <1>1, <2>1, FS_Subset, FS_CardinalityType
<1>3. three \in [D -> Int] /\ \A i \in D : three[i] = 3
    OBVIOUS
<1> HIDE DEF O, three
<1>4. /\ v \in [D -> Int] /\ w \in [D -> Nat] /\ z \in [D -> Nat] /\ c \in [D -> Int] /\ odd \in [D -> Int]
    BY <1>1, <1>3 DEF Within
<1>5. ASSUME NEW i \in D
      PROVE  /\ v[i] = c[i] + rate * z[i] /\ w[i] <= 4 * z[i] /\ 4 * z[i] <= w[i] + odd[i]
             /\ w[i] \in Nat /\ z[i] \in Nat /\ c[i] \in Int /\ odd[i] \in Int
    <2> DEFINE coin == wallet[i]
               s == InputVBytes(coin.witness)
               g == InputWeight(coin)
    <2>1. coin \in UTXO
        BY <1>1
    <2> HIDE DEF coin
    <2>2. /\ s \in Nat /\ Score(coin, rate) \in Int /\ Score(coin, rate) = coin.value - rate * s
          /\ g <= 4 * s /\ coin.value \in Nat /\ g \in Nat
        BY <2>1, ScoreIs
    <2>3. 4 * s <= g + (IF g % 4 # 0 THEN 3 ELSE 0)
        <3>1. coin.witness \in Nat /\ g = 164 + coin.witness /\ s = (164 + coin.witness + 4 - 1) \div 4
            BY <2>1 DEF UTXO, InputVBytes, CeilDiv, InputWeight
        <3>2. \A x \in Nat : 4 * ((x + 4 - 1) \div 4) <= x + (IF x % 4 # 0 THEN 3 ELSE 0)
            OBVIOUS
        <3> HIDE DEF g, s
        <3>3. 164 + coin.witness \in Nat
            BY <3>1
        <3> QED BY <3>1, <3>2, <3>3
    <2>4. /\ v[i] = IF i \in T THEN coin.value ELSE 0
          /\ w[i] = IF i \in T THEN g ELSE 0
          /\ z[i] = IF i \in T THEN s ELSE 0
          /\ c[i] = IF i \in T THEN Score(coin, rate) ELSE 0
        BY DEF Within, Values, Weights, Sizes, Scores, coin
    <2>5. odd[i] = IF i \in T /\ g % 4 # 0 THEN 3 ELSE 0
        BY <1>3 DEF Within, O, Odd, coin
    <2> HIDE DEF s, g, v, w, z, c, odd
    <2>6. CASE i \in T
        <3>1. rate * s \in Nat
            BY <2>2
        <3> QED BY <2>2, <2>3, <2>4, <2>5, <2>6, <3>1
    <2>7. CASE i \notin T
        <3>1. rate * 0 = 0
            OBVIOUS
        <3> QED BY <2>4, <2>5, <2>7, <3>1
    <2> QED BY <2>6, <2>7
<1> HIDE DEF v, w, z, c, odd, D
<1>6. /\ cost \in [D -> Int] /\ four \in [D -> Int] /\ more \in [D -> Int] /\ zero \in [D -> Int]
      /\ w \in [D -> Int] /\ z \in [D -> Int]
    <2>1. \A i \in D : rate * z[i] \in Int /\ 4 * z[i] \in Int /\ w[i] + odd[i] \in Int
        BY <1>4, <1>5
    <2> QED BY <1>4, <2>1
<1>7. \A i \in D : /\ cost[i] = rate * z[i] /\ four[i] = 4 * z[i] /\ more[i] = w[i] + odd[i] /\ zero[i] = 0
                   /\ v[i] = c[i] + cost[i] /\ w[i] <= four[i] /\ four[i] <= more[i]
                   /\ zero[i] <= w[i] /\ zero[i] <= z[i]
    BY <1>5
<1> HIDE DEF cost, four, more, zero
<1>8. SumOf(v) = SumOf(c) + SumOf(cost)
    <2>1. AddsUp(v, c, cost, D)
        BY <1>1, <1>4, <1>6, <1>7 DEF AddsUp, D
    <2> QED BY <2>1, SumAdds
<1>9. SumOf(more) = SumOf(w) + SumOf(odd)
    <2>1. AddsUp(more, w, odd, D)
        BY <1>1, <1>4, <1>6, <1>7 DEF AddsUp, D
    <2> QED BY <2>1, SumAdds
<1>10. IsFiniteSet(D)
    BY <1>1 DEF D
<1>11. SumOf(cost) = rate * SumOf(z)
    <2>1. Scaled(cost, rate, z, D)
        BY <1>6, <1>7, <1>10 DEF Scaled
    <2> QED BY <2>1, SumScale
<1>12. SumOf(four) = 4 * SumOf(z)
    <2>1. Scaled(four, 4, z, D)
        BY <1>6, <1>7, <1>10 DEF Scaled
    <2> QED BY <2>1, SumScale
<1>13. SumOf(w) <= SumOf(four) /\ SumOf(four) <= SumOf(more)
    <2>1. (\A i \in D : w[i] <= four[i]) /\ \A i \in D : four[i] <= more[i]
        BY <1>7
    <2> QED BY <1>6, <1>10, <2>1, SumMonotonic
<1>14. SumOf(zero) = Cardinality(D) * 0
    <2>1. \A i \in D : zero[i] = 0
        BY <1>7
    <2>2. 0 \in Int /\ zero \in [D -> Int]
        BY <1>6
    <2> QED BY <1>10, <2>1, <2>2, SumConstant, Zenon
<1>15. SumOf(zero) = 0
    BY <1>10, <1>14, FS_CardinalityType
<1>16. SumOf(zero) <= SumOf(w) /\ SumOf(zero) <= SumOf(z)
    <2>1. (\A i \in D : zero[i] <= w[i]) /\ \A i \in D : zero[i] <= z[i]
        BY <1>7
    <2> QED BY <1>6, <1>10, <2>1, SumMonotonic
<1>17. SumOf(w) \in Int /\ SumOf(z) \in Int /\ SumOf(c) \in Int
    BY <1>4, <1>6, <1>10, SumInt
<1>18. SumOf(odd) = Cardinality(O) * 3
    <2> DEFINE g == [i \in O |-> three[i]]
    <2>1. SumOf(g) = SumOf(odd)
        BY <1>2, <1>3, <1>10, SumPart DEF odd, D
    <2>2. g \in [O -> Int] /\ \A i \in O : g[i] = 3
        BY <1>2, <1>3 DEF D
    <2> HIDE DEF g
    <2>3. SumOf(g) = Cardinality(O) * 3
        BY <1>2, <2>2, SumConstant
    <2> QED BY <2>1, <2>3
<1>19. /\ SumOf(w) \in Nat /\ SumOf(z) \in Nat /\ SumOf(c) \in Int /\ Cardinality(O) \in Nat
       /\ SumOf(v) = SumOf(c) + rate * SumOf(z) /\ SumOf(w) <= 4 * SumOf(z)
       /\ 4 * SumOf(z) <= SumOf(w) + 3 * Cardinality(O)
    <2>1. SumOf(v) = SumOf(c) + rate * SumOf(z)
        BY <1>8, <1>11, Zenon
    <2> QED BY <1>2, <1>9, <1>12, <1>13, <1>15, <1>16, <1>17, <1>18, <2>1
<1> QED BY <1>19, Zenon DEF Over, v, w, z, c, O, D

\* the fees of a selection but for what its inputs weigh
Fixed(target, rate, n) == target + rate * 68 + rate * (FakeSPK * n + Beyond(n)) + rate * FakeSPK
Charge(weight, n) == CeilDiv(57 + 86 * n + weight, 4)

LEMMA EnoughIs ==
    ASSUME NEW E, IsFiniteSet(E), E # {}, NEW coins \in [E -> UTXO], NEW target \in Int,
           NEW rate \in Nat \ {0}, NEW n \in Nat \ {0},
           NEW weight, weight = SumOf([e \in DOMAIN coins |-> InputWeight(coins[e])])
    PROVE  Enough(coins, target, rate, n) <=> Total(coins) >= Fixed(target, rate, n) + rate * Charge(weight, n)
<1>1. weight \in Nat /\ Total(coins) \in Nat
    BY CoinsAre
<1>2. FeesSplit(coins, E, FakeSPK, rate, n)
    BY FeesAre DEF FakeSPK
<1> DEFINE a == Beyond(n)
           b == Charge(weight, n)
<1>3. BesidesScripts(coins, n) = b
    <2>1. 36 + 21 + 86 * n + weight = 57 + 86 * n + weight
        BY <1>1
    <2> QED BY <2>1 DEF BesidesScripts, Charge
<1>4. a \in Nat /\ b \in Nat
    BY <1>2, <1>3 DEF FeesSplit
<1>5. Fees(coins, FakeSPK, rate, n) = rate * (FakeSPK * n + a) + rate * (FakeSPK + b)
    BY <1>2, <1>3, Zenon DEF FeesSplit, Fees
<1>6. InputVBytes(DefaultWitness) = 68
    BY DEF InputVBytes, DefaultWitness, CeilDiv
<1> HIDE DEF a, b
<1> DEFINE p == rate * (FakeSPK * n + a)
           q == rate * FakeSPK
           r == rate * b
<1>7. p \in Int /\ q \in Int /\ r \in Int /\ rate * (FakeSPK + b) = q + r
    BY <1>4 DEF FakeSPK
<1>8. Fixed(target, rate, n) + rate * b = target + rate * 68 + (p + (q + r))
    <2>1. Fixed(target, rate, n) = target + rate * 68 + p + q
        BY Zenon DEF Fixed, a
    <2> HIDE DEF p, q
    <2>2. rate * 68 \in Int /\ rate * b = r
        OBVIOUS
    <2> HIDE DEF r
    <2> QED BY <1>7, <2>1, <2>2
<1>9. Enough(coins, target, rate, n) <=> Total(coins) >= target + rate * 68 + (p + (q + r))
    BY <1>5, <1>6, <1>7, Zenon DEF Enough
<1> QED BY <1>8, <1>9 DEF b

(* If coins would do, so do any that bring as much. *)
LEMMA AsGood ==
    ASSUME NEW n \in Nat, NEW rate \in Nat, NEW fixed \in Int, NEW odd \in Nat,
           NEW w1 \in Nat, NEW z1 \in Nat, NEW c1 \in Int,
           NEW w2 \in Nat, NEW z2 \in Nat, NEW c2 \in Int,
           4 * z1 <= w1 + 3 * odd, w2 <= 4 * z2, c1 <= c2,
           c1 + rate * z1 >= fixed + rate * odd + rate * Charge(w1, n)
    PROVE  /\ c2 >= fixed + rate * Charge(0, n)
           /\ c2 + rate * z2 >= fixed + rate * Charge(w2, n)
<1> DEFINE m == 57 + 86 * n
           x1 == Charge(w1, n)
           x2 == Charge(w2, n)
           x0 == Charge(0, n)
<1>1. m \in Nat /\ x1 = (m + w1 + 4 - 1) \div 4 /\ x2 = (m + w2 + 4 - 1) \div 4 /\ x0 = (m + 4 - 1) \div 4
    BY DEF Charge, CeilDiv
<1> HIDE DEF m, x0, x1, x2
<1>2. x0 \in Nat /\ x1 \in Nat /\ x2 \in Nat /\ x0 + z1 <= odd + x1 /\ x2 <= x0 + z2
    BY <1>1
<1> DEFINE p(x) == rate * x
<1>3. \A x, y \in Nat : p(x) \in Int /\ p(x + y) = p(x) + p(y) /\ (x <= y => p(x) <= p(y))
    <2>1. \A r, x, y \in Nat : r * x \in Int /\ r * (x + y) = r * x + r * y
        OBVIOUS
    <2>2. \A r, x, y \in Nat : x <= y => r * x <= r * y
        <3> SUFFICES ASSUME NEW r \in Nat, NEW x \in Nat, NEW y \in Nat, x <= y PROVE r * x <= r * y
            OBVIOUS
        <3>1. PICK d \in Nat : y = x + d
            <4>1. y - x \in Nat /\ y = x + (y - x)
                OBVIOUS
            <4> QED BY <4>1
        <3>2. r * (x + d) = r * x + r * d /\ r * x \in Int
            OBVIOUS
        <3>3. r * d >= 0 /\ r * d \in Int
            OBVIOUS
        <3>4. r * x <= r * (x + d)
            BY <3>2, <3>3
        <3> QED BY <3>1, <3>4, Zenon
    <2> QED BY <2>1, <2>2
<1>4. c1 + p(z1) >= fixed + p(odd) + p(x1)
    BY DEF x1
<1>5. p(x0 + z1) <= p(odd + x1) /\ p(x2) <= p(x0 + z2)
    <2>1. x0 + z1 \in Nat /\ odd + x1 \in Nat /\ x0 + z2 \in Nat
        BY <1>2
    <2> HIDE DEF p
    <2> QED BY <1>2, <1>3, <2>1
<1>6. p(x0) + p(z1) <= p(odd) + p(x1) /\ p(x2) <= p(x0) + p(z2)
    <2> HIDE DEF p
    <2> QED BY <1>2, <1>3, <1>5
<1>7. /\ p(x0) \in Int /\ p(x1) \in Int /\ p(x2) \in Int /\ p(z1) \in Int /\ p(z2) \in Int /\ p(odd) \in Int
    <2> HIDE DEF p
    <2> QED BY <1>2, <1>3
<1> HIDE DEF p
<1>8. c2 >= fixed + p(x0) /\ c2 + p(z2) >= fixed + p(x2)
    BY <1>4, <1>6, <1>7
<1> QED BY <1>8, Zenon DEF p, x0, x2

LEMMA SumNat ==
    ASSUME NEW D, IsFiniteSet(D), NEW f \in [D -> Nat]
    PROVE  SumOf(f) \in Nat
<1> DEFINE zero == [x \in D |-> 0]
<1>1. zero \in [D -> Int] /\ f \in [D -> Int] /\ 0 \in Int
    OBVIOUS
<1>2. (\A x \in D : zero[x] = 0) /\ \A x \in D : zero[x] <= f[x]
    OBVIOUS
<1> HIDE DEF zero
<1>3. SumOf(zero) = Cardinality(D) * 0
    BY <1>1, <1>2, SumConstant
<1>4. SumOf(zero) <= SumOf(f)
    BY <1>1, <1>2, SumMonotonic
<1>5. Cardinality(D) * 0 = 0
    BY FS_CardinalityType
<1>6. SumOf(f) \in Int
    BY <1>1, SumInt
<1> QED BY <1>3, <1>4, <1>5, <1>6

LEMMA OverNone ==
    ASSUME NEW wallet \in Seq(UTXO), NEW f \in [DOMAIN wallet -> Int]
    PROVE  Over(f, {}, wallet) = 0
<1> DEFINE D == DOMAIN wallet
           g == Within(f, {}, D)
<1>1. IsFiniteSet(D) /\ Cardinality(D) * 0 = 0
    <2>1. IsFiniteSet(D)
        BY WalletIs
    <2> QED BY <2>1, FS_CardinalityType
<1>2. g \in [D -> Int] /\ 0 \in Int /\ \A x \in D : g[x] = 0
    BY DEF Within
<1> HIDE DEF g, D
<1>3. SumOf(g) = Cardinality(D) * 0
    BY <1>1, <1>2, SumConstant
<1> QED BY <1>1, <1>3, Zenon DEF Over, g, D

(* When some coins would do, so do as many of the best. *)
LEMMA FewestCoins ==
    ASSUME FundingInv, NEW S \in SUBSET DOMAIN terms.wallet, WouldDo(S)
    PROVE  \E k \in 1..Len(Sorted(terms.wallet, terms.rate)) :
             /\ k <= Cardinality(S)
             /\ Enough(SubSeq(Sorted(terms.wallet, terms.rate), 1, k), SumOf(Asked), terms.rate, N)
<1> DEFINE w == terms.wallet
           rate == terms.rate
           n == N
           target == SumOf(Asked)
           D == DOMAIN w
           o == Cardinality(Odd(w, S))
           coins == [i \in S |-> w[i]]
           weight == SumOf([i \in DOMAIN coins |-> InputWeight(coins[i])])
           m == Cardinality(Worth(w, rate))
           k == IF Cardinality(S) <= m THEN Cardinality(S) ELSE m
           Q == Best(w, rate, k)
           sorted == Sorted(w, rate)
           chosen == SubSeq(sorted, 1, k)
<1>1. n \in Nat \ {0} /\ rate \in Nat \ {0} /\ w \in Seq(UTXO) /\ target \in Nat
    <2>1. target \in Nat
        BY TermsAre, SumNat
    <2> QED BY <2>1, TermsAre
<1>2. Enough(coins, target + rate * o, rate, n)
    BY Zenon DEF WouldDo, Odd
<1> HIDE DEF w, rate, n, target
<1>3. /\ IsFiniteSet(D) /\ Scores(w, rate) \in [D -> Int] /\ S \in SUBSET D /\ \A i \in D : w[i] \in UTXO
    BY <1>1, WalletIs DEF w
<1>4. IsFiniteSet(S) /\ coins \in [S -> UTXO] /\ Cardinality(S) \in Nat
    BY <1>3, FS_Subset, FS_CardinalityType
<1>5. /\ Over(Weights(w), S, w) \in Nat /\ Over(Sizes(w), S, w) \in Nat
      /\ Over(Scores(w, rate), S, w) \in Int /\ o \in Nat
      /\ Over(Values(w), S, w) = Over(Scores(w, rate), S, w) + rate * Over(Sizes(w), S, w)
      /\ 4 * Over(Sizes(w), S, w) <= Over(Weights(w), S, w) + 3 * o
    BY <1>1, <1>3, CoinSums
<1>6. Total(coins) = Over(Values(w), S, w) /\ weight = Over(Weights(w), S, w)
    <2> DEFINE b == [i \in S |-> i]
    <2>1. Renames(b, S, D)
        BY <1>3, <1>4 DEF Renames
    <2>2. \A i \in S : coins[i] = w[b[i]]
        OBVIOUS
    <2>3. {b[i] : i \in S} = S
        OBVIOUS
    <2> HIDE DEF b, coins
    <2>4. /\ Total(coins) = Over(Values(w), {b[i] : i \in S}, w)
          /\ weight = Over(Weights(w), {b[i] : i \in S}, w)
        <3>1. Picked(coins, b, S, w)
            BY <1>4, <2>1, <2>2 DEF Picked
        <3> QED BY <1>1, <3>1, TakenFrom
    <2> QED BY <2>3, <2>4
<1>7. rate * o \in Nat /\ rate * 68 > 0 /\ rate * 68 \in Int
    BY <1>1, <1>5
<1>8. S # {}
    <2> SUFFICES ASSUME S = {} PROVE FALSE
        OBVIOUS
    <2>1. coins = <<>> /\ Total(coins) = 0
        BY <1>4, CoinsAre
    <2>2. Fees(coins, FakeSPK, rate, n) = 0
        BY <2>1 DEF Fees, FutureFee, FundingFee
    <2>3. InputVBytes(DefaultWitness) = 68
        BY DEF InputVBytes, DefaultWitness, CeilDiv
    <2> HIDE DEF coins, o
    <2>4. Total(coins) >= target + rate * o + rate * 68 + 0
        BY <1>2, <2>2, <2>3, Zenon DEF Enough
    <2> QED BY <1>1, <1>7, <2>1, <2>4
<1> HIDE DEF coins, o
<1>9. Over(Values(w), S, w) >= Fixed(target + rate * o, rate, n) + rate * Charge(Over(Weights(w), S, w), n)
    <2>1. target + rate * o \in Int
        BY <1>1, <1>7
    <2>2. Enough(coins, target + rate * o, rate, n)
            <=> Total(coins) >= Fixed(target + rate * o, rate, n) + rate * Charge(weight, n)
        BY <1>1, <1>4, <1>8, <2>1, EnoughIs
    <2> HIDE DEF weight
    <2> QED BY <1>2, <1>6, <2>2, Zenon
<1> HIDE DEF weight
<1>10. Fixed(target + rate * o, rate, n) = Fixed(target, rate, n) + rate * o /\ Fixed(target, rate, n) \in Nat \ {0}
    <2> DEFINE p == rate * (FakeSPK * n + Beyond(n))
               q == rate * FakeSPK
    <2>1. Beyond(n) \in Nat
        <3>1. 249 * n \in Nat /\ 4 \in Nat \ {0}
            BY <1>1
        <3>2. CeilDiv(249 * n, 4) \in Nat
            BY <3>1, Ceil
        <3> QED BY <3>2 DEF Beyond
    <2>2. p \in Nat /\ q \in Nat
        <3>1. FakeSPK * n + Beyond(n) \in Nat /\ FakeSPK \in Nat /\ rate \in Nat
            BY <1>1, <2>1 DEF FakeSPK
        <3>2. \A x, y \in Nat : x * y \in Nat
            OBVIOUS
        <3> QED BY <3>1, <3>2, Zenon
    <2> DEFINE y == rate * o
               x == rate * 68
    <2>3. /\ Fixed(target + y, rate, n) = target + y + x + p + q
          /\ Fixed(target, rate, n) = target + x + p + q
        BY Zenon DEF Fixed
    <2>4. y \in Nat /\ x \in Int /\ x > 0 /\ target \in Nat
        BY <1>1, <1>7
    <2> HIDE DEF p, q, x, y
    <2>5. Fixed(target + y, rate, n) = Fixed(target, rate, n) + y /\ Fixed(target, rate, n) \in Nat \ {0}
        BY <2>2, <2>3, <2>4
    <2> QED BY <2>5 DEF y
<1>11. k \in Nat /\ k <= m /\ k <= Cardinality(S) /\ (k = Cardinality(S) \/ k = m) /\ m \in Nat
    <2>1. m \in Nat
        BY <1>1, PlaceIs
    <2> QED BY <1>4, <2>1
<1> HIDE DEF k, m
<1>12. Q \in SUBSET D
    BY DEF Best, Worth
<1>13. Over(Scores(w, rate), S, w) <= Over(Scores(w, rate), Q, w)
    <2>1. k <= Cardinality(Worth(w, rate)) /\ (k = Cardinality(S) \/ k = Cardinality(Worth(w, rate)))
        BY <1>11 DEF m
    <2>2. SumOf(Within(Scores(w, rate), S, D)) <= SumOf(Within(Scores(w, rate), Q, D))
        BY <1>1, <1>3, <1>11, <2>1, BestAre
    <2> QED BY <2>2, Zenon DEF Over
<1> HIDE DEF Q
<1>14. /\ Over(Weights(w), Q, w) \in Nat /\ Over(Sizes(w), Q, w) \in Nat
       /\ Over(Scores(w, rate), Q, w) \in Int
       /\ Over(Values(w), Q, w) = Over(Scores(w, rate), Q, w) + rate * Over(Sizes(w), Q, w)
       /\ Over(Weights(w), Q, w) <= 4 * Over(Sizes(w), Q, w)
    BY <1>1, <1>12, CoinSums
<1>15. /\ Over(Scores(w, rate), Q, w) >= Fixed(target, rate, n) + rate * Charge(0, n)
       /\ Over(Values(w), Q, w) >= Fixed(target, rate, n) + rate * Charge(Over(Weights(w), Q, w), n)
    <2> DEFINE w1 == Over(Weights(w), S, w)
               z1 == Over(Sizes(w), S, w)
               c1 == Over(Scores(w, rate), S, w)
               w2 == Over(Weights(w), Q, w)
               z2 == Over(Sizes(w), Q, w)
               c2 == Over(Scores(w, rate), Q, w)
               f == Fixed(target, rate, n)
    <2>1. /\ w1 \in Nat /\ z1 \in Nat /\ c1 \in Int /\ w2 \in Nat /\ z2 \in Nat /\ c2 \in Int
          /\ f \in Int /\ o \in Nat /\ n \in Nat /\ rate \in Nat
        BY <1>1, <1>5, <1>10, <1>14
    <2>2. 4 * z1 <= w1 + 3 * o /\ w2 <= 4 * z2 /\ c1 <= c2
        BY <1>5, <1>13, <1>14
    <2>3. c1 + rate * z1 >= f + rate * o + rate * Charge(w1, n)
        BY <1>5, <1>9, <1>10, Zenon
    <2>4. Over(Values(w), Q, w) = c2 + rate * z2
        BY <1>14
    <2> HIDE DEF w1, z1, c1, w2, z2, c2, f
    <2>5. c2 >= f + rate * Charge(0, n) /\ c2 + rate * z2 >= f + rate * Charge(w2, n)
        BY <2>1, <2>2, <2>3, AsGood
    <2> QED BY <2>4, <2>5, Zenon DEF w2, c2, f
<1>16. PICK b : Spots(b, w, rate, k)
    <2>1. k \in 0..Cardinality(Worth(w, rate))
        BY <1>11 DEF m
    <2> QED BY <1>1, <2>1, SpotsAre
<1>17. /\ Renames(b, 1..k, D) /\ {b[x] : x \in 1..k} = Q /\ (\A x \in 1..k : sorted[x] = w[b[x]])
       /\ b \in [1..k -> D]
    <2>1. IsFiniteSet(1..k)
        <3>1. 1 \in Int /\ k \in Int
            BY <1>11
        <3> QED BY <3>1, FS_Interval, Zenon
    <2> QED BY <1>3, <1>16, <2>1 DEF Renames, Spots, Q
<1>18. k # 0
    <2> SUFFICES ASSUME k = 0 PROVE FALSE
        OBVIOUS
    <2>1. Q = {}
        BY <1>17
    <2>2. Over(Scores(w, rate), Q, w) = 0
        BY <1>1, <1>3, <2>1, OverNone
    <2>3. rate * Charge(0, n) \in Nat
        <3>1. 57 + 86 * n + 0 \in Nat /\ 4 \in Nat \ {0}
            BY <1>1
        <3>3. CeilDiv(57 + 86 * n + 0, 4) \in Nat
            BY <3>1, Ceil
        <3>2. Charge(0, n) \in Nat
            BY <3>3 DEF Charge
        <3> QED BY <1>1, <3>2
    <2> QED BY <1>10, <1>15, <2>2, <2>3
<1>19. sorted \in Seq(UTXO) /\ Len(sorted) = m
    BY <1>1, SortedIs DEF m
<1>20. chosen \in [1..k -> UTXO] /\ \A x \in 1..k : chosen[x] = w[b[x]]
    <2> HIDE DEF sorted
    <2>1. /\ Len(chosen) = k /\ chosen \in Seq(UTXO) /\ \A x \in 1..k : chosen[x] = sorted[x]
        BY <1>11, <1>18, <1>19, SubSeqProperties
    <2> HIDE DEF chosen
    <2>2. chosen \in [1..k -> UTXO]
        BY <2>1
    <2> QED BY <1>17, <2>1, <2>2
<1> HIDE DEF sorted, chosen
<1> DEFINE heavy == SumOf([x \in DOMAIN chosen |-> InputWeight(chosen[x])])
<1>21. Total(chosen) = Over(Values(w), Q, w) /\ heavy = Over(Weights(w), Q, w)
    <2>1. \A x \in 1..k : chosen[x] = w[b[x]]
        BY <1>20
    <2>2. /\ Total(chosen) = Over(Values(w), {b[x] : x \in 1..k}, w)
          /\ heavy = Over(Weights(w), {b[x] : x \in 1..k}, w)
        <3>1. Picked(chosen, b, 1..k, w)
            BY <1>17, <1>20, <2>1 DEF Picked
        <3> QED BY <1>1, <3>1, TakenFrom
    <2> QED BY <1>17, <2>2
<1>22. Enough(chosen, target, rate, n)
    <2>1. target \in Int /\ IsFiniteSet(1..k) /\ 1..k # {}
        <3>1. target \in Int /\ 1 \in Int /\ k \in Int /\ 1 \in 1..k
            BY <1>1, <1>11, <1>18
        <3>2. IsFiniteSet(1..k)
            BY <3>1, FS_Interval, Zenon
        <3> QED BY <3>1, <3>2
    <2>2. Enough(chosen, target, rate, n) <=> Total(chosen) >= Fixed(target, rate, n) + rate * Charge(heavy, n)
        BY <1>1, <1>20, <2>1, EnoughIs
    <2> HIDE DEF heavy
    <2> QED BY <1>15, <1>21, <2>2, Zenon
<1>23. k \in 1..Len(sorted) /\ k <= Cardinality(S)
    BY <1>11, <1>18, <1>19
<1> QED BY <1>22, <1>23 DEF chosen, sorted, w, rate, n, target

LEMMA InvSelects == FundingInv => SelectionWorks
<1> SUFFICES ASSUME FundingInv, terms.mode = "selected", step # "choosing"
             PROVE  /\ \A places \in SUBSET DOMAIN terms.wallet :
                         WouldDo(places) => inputs # <<>> /\ Len(inputs) <= Cardinality(places)
                    /\ step = "insufficient" /\ AcceptChange >= 0 /\ (terms.spk <= FakeSPK \/ N <= 4) => inputs = <<>>
    BY Zenon DEF SelectionWorks
<1> DEFINE rate == terms.rate
           n == N
           target == SumOf(Asked)
           sorted == Sorted(terms.wallet, rate)
           lengths == {k \in 1..Len(sorted) : Enough(SubSeq(sorted, 1, k), target, rate, n)}
<1>1. n \in Nat \ {0} /\ rate \in Nat \ {0} /\ terms.wallet \in Seq(UTXO) /\ terms.spk \in 22..34 /\ target \in Nat
    <2>1. target \in Nat
        BY TermsAre, SumNat
    <2> QED BY <2>1, TermsAre
<1>2. inputs = DualFundingCoinSelect(terms.wallet, target, rate, n) /\ offered = Asked
    BY DEF FundingInv, ChosenInputs, ChosenCollaterals
<1>3. sorted \in Seq(UTXO)
    BY <1>1, SortedIs
<1>4. \/ lengths = {} /\ inputs = <<>>
      \/ \E k \in lengths : inputs = SubSeq(sorted, 1, k) /\ \A l \in lengths : k <= l
    <2>1. terms.wallet \in Seq(UTXO) /\ rate \in Nat
        BY <1>1
    <2>2. LET selected == DualFundingCoinSelect(terms.wallet, target, rate, n)
          IN  \/ lengths = {} /\ selected = <<>>
              \/ \E k \in lengths : selected = SubSeq(sorted, 1, k) /\ \A l \in lengths : k <= l
        BY <2>1, SelectedIs, Zenon
    <2> QED BY <1>2, <2>2, Zenon
<1>5. ASSUME NEW k \in lengths
      PROVE  /\ k \in 1..Len(sorted) /\ Enough(SubSeq(sorted, 1, k), target, rate, n)
             /\ SubSeq(sorted, 1, k) \in Seq(UTXO) /\ Len(SubSeq(sorted, 1, k)) = k
    <2>1. k \in 1..Len(sorted) /\ Enough(SubSeq(sorted, 1, k), target, rate, n)
        OBVIOUS
    <2> HIDE DEF sorted, lengths
    <2>2. k \in Nat /\ k <= Len(sorted) /\ 1 \in 1..Len(sorted) + 1
        BY <1>3, <2>1
    <2> QED BY <1>3, <2>1, <2>2, SubSeqProperties
<1>6. ASSUME NEW S \in SUBSET DOMAIN terms.wallet, WouldDo(S)
      PROVE  inputs # <<>> /\ Len(inputs) <= Cardinality(S)
    <2>1. PICK k \in 1..Len(sorted) : k <= Cardinality(S) /\ Enough(SubSeq(sorted, 1, k), target, rate, n)
        BY <1>6, FewestCoins
    <2>2. k \in lengths
        BY <2>1
    <2>3. Cardinality(S) \in Nat
        <3>1. IsFiniteSet(S)
            BY <1>1, WalletIs, FS_Subset
        <3> QED BY <3>1, FS_CardinalityType
    <2> HIDE DEF lengths, sorted
    <2>4. PICK l \in lengths : inputs = SubSeq(sorted, 1, l) /\ l <= k
        BY <1>4, <2>2
    <2>5. Len(inputs) = l /\ l \in 1..Len(sorted) /\ inputs \in Seq(UTXO) /\ Len(sorted) \in Nat
        BY <1>3, <1>5, <2>4
    <2>6. inputs # <<>>
        BY <2>5, EmptySeq
    <2> QED BY <2>1, <2>3, <2>4, <2>5, <2>6
<1>7. ASSUME step = "insufficient", AcceptChange >= 0, terms.spk <= FakeSPK \/ N <= 4, inputs # <<>>
      PROVE  FALSE
    <2> DEFINE spk == terms.spk
               low == Fees(inputs, FakeSPK, rate, n)
               high == Fees(inputs, spk, rate, n)
               more == (rate * (spk - FakeSPK)) * (n + 1)
    <2>1. inputs \in Seq(UTXO) /\ Enough(inputs, target, rate, n)
        <3> HIDE DEF lengths, sorted
        <3>1. PICK k \in lengths : inputs = SubSeq(sorted, 1, k)
            BY <1>4, <1>7
        <3> QED BY <1>5, <3>1
    <2>2. low \in Int /\ high \in Int /\ high - low = more
        BY <1>7, <2>1, LongerScript
    <2>3. Total(inputs) \in Nat /\ Total(inputs) >= target + rate * 68 + low
        <3>1. Total(inputs) \in Nat
            BY <2>1, ShareIs DEF ShareSound
        <3>2. InputVBytes(DefaultWitness) = 68
            BY DEF InputVBytes, DefaultWitness, CeilDiv
        <3>3. Total(inputs) >= target + rate * 68 + low
            BY <2>1, <3>2, Zenon DEF Enough
        <3> QED BY <3>1, <3>3
    <2>4. OfferChange = Total(inputs) - target - high
        BY <1>2 DEF OfferChange, OfferFees
    <2>5. OfferChange < 0
        <3>1. AcceptChange \in Int
            <4>1. SumOf(Accepted) \in Nat
                BY TermsAre, SumNat
            <4>2. ShareSound(terms.theirs)
                BY TermsAre, ShareIs
            <4>3. AcceptFees = FutureFee(terms.theirs, terms.spk, terms.rate, N) + Agreed(terms.theirs)
                BY Zenon DEF AcceptFees, Fees, Agreed
            <4>4. Total(terms.theirs) \in Nat /\ AcceptFees \in Nat
                BY <4>2, <4>3 DEF ShareSound
            <4> QED BY <4>1, <4>4 DEF AcceptChange
        <3>2. Insufficient
            BY <1>7 DEF FundingInv
        <3> QED BY <1>7, <3>1, <3>2 DEF Insufficient
    <2>6. more \in Int /\ more <= rate * 68 /\ rate * 68 \in Int
        <3> DEFINE x == spk - FakeSPK
                   y == n + 1
        <3>1. x \in 0..12 /\ y \in Nat /\ (x = 0 \/ y <= 5)
            BY <1>1, <1>7 DEF FakeSPK
        <3> HIDE DEF x, y
        <3>2. \A u \in 0..12, v \in Nat : (u = 0 \/ v <= 5) => u * v \in 0..60
            <4>1. \A u \in 0..12, v \in 0..5 : u * v <= 12 * v /\ u * v >= 0
                OBVIOUS
            <4> SUFFICES ASSUME NEW u \in 0..12, NEW v \in Nat, u = 0 \/ v <= 5 PROVE u * v \in 0..60
                OBVIOUS
            <4>2. CASE u = 0
                BY <4>2
            <4>3. CASE v <= 5
                BY <4>1, <4>3
            <4> QED BY <4>2, <4>3
        <3>3. x * y \in 0..60
            BY <3>1, <3>2
        <3>4. \A r, u, v \in Nat : (r * u) * v = r * (u * v)
            OBVIOUS
        <3>5. \A r \in Nat, u \in 0..60 : r * u \in Int /\ r * u <= r * 68 /\ r * 68 \in Int
            OBVIOUS
        <3>6. rate \in Nat /\ x \in Nat /\ y \in Nat
            BY <1>1, <3>1
        <3>7. (rate * x) * y = rate * (x * y)
            BY <3>4, <3>6
        <3>8. rate * (x * y) \in Int /\ rate * (x * y) <= rate * 68 /\ rate * 68 \in Int
            BY <3>3, <3>5, <3>6
        <3> QED BY <3>7, <3>8, Zenon DEF x, y
    <2> DEFINE aside == rate * 68
               total == Total(inputs)
    <2>7. /\ total \in Int /\ target \in Int /\ low \in Int /\ high \in Int /\ more \in Int /\ aside \in Int
          /\ high - low = more /\ total >= target + aside + low /\ more <= aside
        BY <1>1, <2>2, <2>3, <2>6
    <2>8. total - target - high < 0
        BY <2>4, <2>5
    <2> HIDE DEF low, high, more, aside, total, target
    <2> QED BY <2>7, <2>8
<1> QED BY <1>6, <1>7

(* dualFundingCoinSelect: for any wallet, any collaterals, rate and number   *)
(* of contracts coins are found whenever some would do, no more than those,  *)
(* and what is found is enough for the transaction to be built, unless five  *)
(* contracts or more are funded with longer scripts than estimated.          *)
THEOREM FundingSelectionWorks == OfferSpec => []SelectionWorks
BY InvSelects, OfferBegins, OfferStep, PTL DEF OfferSpec
=============================================================================
