----------------------------- MODULE BlockDiff -----------------------------
(***************************************************************************)
(* BlockDiffer.diff: which blocks have to be disconnected and connected to *)
(* get from the block last seen to the best one.  One turn of its loop is  *)
(* a step: what it waits for are headers, which do not change.             *)
(***************************************************************************)
EXTENDS ChainTree, Sequences, FiniteSets

VARIABLES
  at,          \* "idle", "looping", "done", or "failed" when a call rejected
  from,        \* history: the two headers diff was called with
  current,     \* currentHeader
  prior,       \* priorHeader
  connects,    \* not yet reversed
  disconnects,
  refused      \* history: the node refused a header it has

diffVars == <<at, from, current, prior, connects, disconnects, refused>>

DiffInit ==
  /\ at = "idle"
  /\ from = [current |-> Genesis, prior |-> Genesis]
  /\ current = Genesis /\ prior = Genesis
  /\ connects = <<>> /\ disconnects = <<>>
  /\ refused = FALSE

Diff(c, p) ==
  /\ at = "idle"
  /\ at' = "looping"
  /\ from' = [current |-> c, prior |-> p]
  /\ current' = c /\ prior' = p
  /\ UNCHANGED <<connects, disconnects, refused>>

Fail == at' = "failed"

\* A slip: of two blocks of the same height only one is taken.
BehindSlip == Height[prior] > Height[current]

\* The block to disconnect is looked for first, and the other test is made
\* with the header that came of it, without looking at the hashes again.
Behind == Height[prior] >= Height[current]
NextPrior == IF Behind THEN Parent[prior] ELSE prior
Ahead == Height[current] >= Height[NextPrior]

Turn ==
  /\ at = "looping" /\ current # prior
  /\ \/ /\ Behind /\ prior = Genesis
        /\ Fail
        /\ UNCHANGED <<current, prior, connects, disconnects>>
     \/ /\ Behind => prior # Genesis
        /\ disconnects' = IF Behind THEN Append(disconnects, prior) ELSE disconnects
        /\ prior' = NextPrior
        /\ \/ /\ Ahead /\ current # Genesis
              /\ connects' = Append(connects, current)
              /\ current' = Parent[current]
              /\ UNCHANGED at
           \/ /\ Ahead /\ current = Genesis
              /\ Fail
              /\ UNCHANGED <<current, connects>>
           \/ /\ ~Ahead
              /\ UNCHANGED <<at, current, connects>>
  /\ UNCHANGED <<from, refused>>

Refuse ==
  /\ at = "looping" /\ current # prior
  /\ Fail
  /\ refused' = TRUE
  /\ UNCHANGED <<from, current, prior, connects, disconnects>>

Finish ==
  /\ at = "looping" /\ current = prior
  /\ at' = "done"
  /\ UNCHANGED <<from, current, prior, connects, disconnects, refused>>

\* What the caller gets is taken: another diff may be asked for.
Take ==
  /\ at \in {"done", "failed"}
  /\ at' = "idle"
  /\ from' = [current |-> Genesis, prior |-> Genesis]
  /\ current' = Genesis /\ prior' = Genesis
  /\ connects' = <<>> /\ disconnects' = <<>>
  /\ refused' = FALSE

DiffNext == (\E c, p \in Blocks : Diff(c, p)) \/ Turn \/ Refuse \/ Finish \/ Take

DiffSpec == DiffInit /\ [][DiffNext]_diffVars

-----------------------------------------------------------------------------
(* The steps from the top of a chain down to, and without, block b. *)
Descent(path, top, b) ==
  /\ \A i \in 1..Len(path) : path[i] \in Below[top] \ Below[b]
  /\ Len(path) = Height[top] - Height[b]
  /\ \A i \in 1..Len(path) : Height[path[i]] = Height[top] + 1 - i

(* BlockDiffer.diff: what it returns is the last block the two chains have   *)
(* in common and the blocks above it on either side; and it finds them,      *)
(* unless a header is refused or the block last seen is the higher one, when *)
(* the walk passes the common ancestor and runs off the genesis block.       *)
DiffRight ==
  /\ at = "done" =>
       /\ Below[from.current] \intersect Below[from.prior] = Below[current]
       /\ Descent(connects, from.current, current)
       /\ Descent(disconnects, from.prior, current)
  /\ at = "failed" => refused \/ Height[from.prior] > Height[from.current]
=============================================================================
