---------------------------- MODULE PayoutRanges ----------------------------
(***************************************************************************)
(* splitIntoRanges: from the payout curve of a contract to ranges of       *)
(* outcomes with one rounded payout each, as computePayouts calls it for   *)
(* the pieces of a payout function.  A turn of either loop is a step.      *)
(*                                                                         *)
(* Numbers on the curve are fractions.  BigNumber keeps 20 decimals of a   *)
(* quotient: the sign of what it drops decides between two outcomes or     *)
(* payouts when the exact value is the same, and never otherwise for       *)
(* numbers of this size.  A payout halfway between two roundings is        *)
(* written doubled, as w for w / 2.                                        *)
(***************************************************************************)
EXTENDS Integers, Sequences, SequencesExt, FiniteSets

VARIABLES
  contract, \* [points, curves, collateral, rounding], see below
  piece,    \* the piece being split
  pc,       \* "outer", "inner", "done", or "looping" when it never ends
  cur,      \* currentOutcome
  mid,      \* currentMidRoundedOutcome
  paid,     \* currentPayout
  leg,      \* rounding, nextFirstRoundingOutcome and isAscending of a turn
  started,  \* history: the outcomes the outer loop of the piece took up
  result,   \* the ranges of the piece
  ranges    \* those of the pieces before it

splitVars == <<contract, piece, pc, cur, mid, paid, leg, started, result, ranges>>

\* contract: point i + 1 ends piece i, which follows curves[i]; the first point
\* is at the outcome the curve starts with.  A line goes from point to point; a
\* hyperbola need not go through any.

PayoutPoint(collateral) == [outcome : Nat, payout : 0..collateral]
LineCurve(collateral) == [kind : {"line"}, from : PayoutPoint(collateral), to : PayoutPoint(collateral)]
HyperbolaCurve == [kind : {"hyperbola"}, k : Nat \ {0}, t : Int, f : Int]
RoundingInterval == [begin : Nat, mod : Nat \ {0}]

ContractOK(c) ==
  /\ c.collateral \in Nat
  /\ c.points \in Seq(PayoutPoint(c.collateral)) /\ Len(c.points) = Len(c.curves) + 1
  /\ \A j, k \in DOMAIN c.points : j < k => c.points[j].outcome < c.points[k].outcome
  /\ c.curves \in Seq(LineCurve(c.collateral) \union HyperbolaCurve) /\ c.curves # <<>>
  /\ \A i \in DOMAIN c.curves :
       c.curves[i].kind = "line" => c.curves[i].from = c.points[i] /\ c.curves[i].to = c.points[i + 1]
  /\ c.rounding \in Seq(RoundingInterval)
  /\ \A j, k \in DOMAIN c.rounding : j < k => c.rounding[j].begin < c.rounding[k].begin

Sign(n) == CASE n > 0 -> 1 [] n = 0 -> 0 [] OTHER -> -1
Abs(n) == IF n < 0 THEN -n ELSE n

\* What is left of 10^20 * n divided by d.
Left20(n, d) ==
  LET Left4(r) == (r * 10000) % d IN Left4(Left4(Left4(Left4(Left4(n % d)))))

\* How far the 20 decimals kept of n / d are above it, in the last of them, times d.
Excess(n, d) ==
  LET r == Left20(Abs(n), d) IN Sign(n) * (IF 2 * r >= d THEN d - r ELSE -r)

\* n / d rounded to an integer, a half away from zero, for d > 0.
Nearest(n, d) == IF n >= 0 THEN (2 * n + d) \div (2 * d) ELSE -((d - 2 * n) \div (2 * d))

-----------------------------------------------------------------------------
(* The curve of a piece: a line between two points, or a hyperbola *)
(* k / (x - t) + f (b = c = 0), infinite up to outcome t.          *)

Rise(c) == c.to.payout - c.from.payout
Run(c) == c.to.outcome - c.from.outcome

\* The sign of the payout at outcome x less w / 2.
LineCompare(c, x, w) ==
  LET exact == Sign(2 * Rise(c) * (x - c.from.outcome) + (2 * c.from.payout - w) * Run(c))
  IN  IF exact # 0 THEN exact ELSE Sign(Excess(Rise(c), Run(c)) * (x - c.from.outcome))

HyperbolaCompare(c, x, w) ==
  LET u == x - c.t
      exact == Sign(2 * c.k + (2 * c.f - w) * u)
  IN  IF u <= 0 THEN 1 ELSE IF exact # 0 THEN exact ELSE Sign(Excess(c.k, u))

Compare(c, x, w) == IF c.kind = "line" THEN LineCompare(c, x, w) ELSE HyperbolaCompare(c, x, w)

Between(low, n, high) == IF n < low THEN low ELSE IF n > high THEN high ELSE n

\* Of an outcome halfway between two the slope's own rounding decides.
LineOutcome(c, w) ==
  LET n == (w - 2 * c.from.payout) * Run(c) * Sign(Rise(c))
      d == 2 * Abs(Rise(c))
      halves == (2 * n) \div d
      short == (2 * n) % d = 0 /\ halves % 2 = 1
                 /\ halves * Excess(Abs(Rise(c)), Run(c)) > Abs(Rise(c))
  IN  Between(c.from.outcome, c.from.outcome + Nearest(n, d) - (IF short THEN 1 ELSE 0), c.to.outcome)

HyperbolaOutcome(c, w) ==
  LET n == 2 * c.k - c.t * (2 * c.f - w)
      d == w - 2 * c.f
  IN  IF d = 0 THEN -1 ELSE Nearest(n * Sign(d), Abs(d))

\* The outcome that pays w / 2.
OutcomeForPayout(c, w) == IF c.kind = "line" THEN LineOutcome(c, w) ELSE HyperbolaOutcome(c, w)

-----------------------------------------------------------------------------
From(i) == contract.points[i]
To(i) == contract.points[i + 1]
Pieces == 1..Len(contract.curves)
Clamp(payout) == Between(0, payout, contract.collateral)

\* The clamped payout of outcome x, rounded to the next multiple, a half up.
RoundPayout(i, x, mod) ==
  LET Reached(w) == w <= 0 \/ (w <= 2 * contract.collateral /\ Compare(contract.curves[i], x, w) >= 0)
  IN  mod * (CHOOSE j \in 0..contract.collateral \div mod + 1 :
               Reached((2 * j - 1) * mod) /\ ~Reached((2 * j + 1) * mod))

\* The last rounding interval that has begun, or 0.
IntervalAt(x) ==
  LET begun == {k \in DOMAIN contract.rounding : contract.rounding[k].begin <= x}
  IN  IF begun = {} THEN 0 ELSE CHOOSE k \in begun : \A j \in begun : j <= k
Mod(x) == IF IntervalAt(x) = 0 THEN 1 ELSE contract.rounding[IntervalAt(x)].mod

\* Where the next interval begins, be it past the piece, or the piece ends.
NextFirst(i, x) ==
  IF IntervalAt(x) \in 1..Len(contract.rounding) - 1
  THEN contract.rounding[IntervalAt(x) + 1].begin
  ELSE To(i).outcome

CETPayout(a, b, p) == [from |-> a, to |-> b, payout |-> p]

\* Range k of rs goes on where the one before it ends, or shares its end, with the same payout.
Joined(rs, k) == rs[k - 1].to \in {rs[k].from, rs[k].from - 1} /\ rs[k - 1].payout = rs[k].payout

\* Ranges that are joined are one.
MergePayouts(rs) ==
  LET heads == {k \in DOMAIN rs : k = 1 \/ ~Joined(rs, k)}
      Begin(h) == CHOOSE k \in heads : Cardinality({j \in heads : j <= k}) = h
      End(h) == IF h < Cardinality(heads) THEN Begin(h + 1) - 1 ELSE Len(rs)
  IN  [h \in 1..Cardinality(heads) |-> CETPayout(rs[Begin(h)].from, rs[End(h)].to, rs[Begin(h)].payout)]

-----------------------------------------------------------------------------
NoLeg == [mod |-> 1, end |-> 0, up |-> FALSE]

SplitInit(c) ==
  /\ contract = c
  /\ piece = 1 /\ pc = "outer"
  /\ cur = contract.points[1].outcome + 1
  /\ mid = 0 /\ paid = 0 /\ leg = NoLeg /\ started = {}
  /\ result = <<CETPayout(contract.points[1].outcome, contract.points[1].outcome, contract.points[1].payout)>>
  /\ ranges = <<>>

Constant(i) == From(i).payout = To(i).payout

\* The last point is added, the ranges are merged, and the next piece begins.
EndPiece(rs) ==
  LET at == To(piece).outcome
      last == CETPayout(at, at, To(piece).payout)
      more == piece < Len(contract.curves)
  IN  \E all \in {ranges \o MergePayouts(Append(rs, last))} :
        /\ ranges' = IF more THEN all ELSE MergePayouts(all)
        /\ pc' = IF more THEN "outer" ELSE "done"
        /\ piece' = IF more THEN piece + 1 ELSE piece
        /\ cur' = at + 1
        /\ result' = IF more THEN <<last>> ELSE <<>>
        /\ mid' = 0 /\ paid' = 0 /\ leg' = NoLeg /\ started' = {}

Flat ==
  /\ pc = "outer" /\ Constant(piece)
  /\ EndPiece(Append(result, CETPayout(From(piece).outcome, To(piece).outcome, To(piece).payout)))
  /\ UNCHANGED contract

\* A slip: a curve that ends at the rounded payout rises.
AscendingSlip(end, p) == Compare(contract.curves[piece], end, 2 * p) >= 0

\* The direction is read off the rounded payout of the first outcome.
Ascending(end, p) == Compare(contract.curves[piece], end, 2 * p) = 1

Outer ==
  /\ pc = "outer" /\ ~Constant(piece) /\ cur < To(piece).outcome
  /\ started' = started \union {cur}
  /\ LET end == NextFirst(piece, cur)
         p == RoundPayout(piece, cur, Mod(cur))
     IN  /\ paid' = p
         /\ mid' = cur
         /\ leg' = [mod |-> Mod(cur), end |-> end, up |-> Ascending(end, p)]
         /\ pc' = IF cur \in started THEN "looping" ELSE "inner"
  /\ UNCHANGED <<contract, piece, cur, result, ranges>>

OuterEnds ==
  /\ pc = "outer" /\ ~Constant(piece) /\ cur >= To(piece).outcome
  /\ EndPiece(result)
  /\ UNCHANGED contract

NextPaid == IF leg.up THEN paid + leg.mod ELSE paid - leg.mod
MidPaid2 == IF leg.up THEN 2 * paid + leg.mod ELSE 2 * paid - leg.mod

\* A slip: the outcome at which the next rounding begins is kept.
MidOutcomeSlip ==
  LET o == OutcomeForPayout(contract.curves[piece], MidPaid2) IN IF o < 0 THEN mid + 1 ELSE o

\* nextMidRoundedOutcome: the last outcome before the next rounding.
MidOutcome ==
  LET o == OutcomeForPayout(contract.curves[piece], MidPaid2)
      n == IF o < 0 THEN mid + 1 ELSE o
      c == Compare(contract.curves[piece], n, MidPaid2)
      passed == IF leg.up THEN c >= 0 ELSE c = -1
  IN  IF ~passed THEN n ELSE IF n = 0 THEN mid ELSE n - 1

NextOutcome == OutcomeForPayout(contract.curves[piece], 2 * NextPaid)

LastStep ==
  \/ NextPaid > contract.collateral \/ NextPaid < 0
  \/ NextOutcome >= To(piece).outcome \/ NextOutcome < 0

Inner ==
  /\ pc = "inner" /\ mid < leg.end
  /\ UNCHANGED <<contract, piece, leg, started, ranges>>
  /\ \/ /\ MidOutcome >= leg.end
        /\ result' = Append(result, CETPayout(mid, leg.end - 1, Clamp(paid)))
        /\ cur' = leg.end /\ pc' = "outer"
        /\ UNCHANGED <<mid, paid>>
     \/ /\ MidOutcome < leg.end /\ LastStep
        /\ result' = result \o
             IF MidOutcome \in From(piece).outcome..To(piece).outcome
             THEN <<CETPayout(mid, MidOutcome, Clamp(paid)),
                    CETPayout(MidOutcome + 1, To(piece).outcome - 1, Clamp(NextPaid))>>
             ELSE <<CETPayout(mid, To(piece).outcome, Clamp(paid))>>
        /\ cur' = To(piece).outcome /\ pc' = "outer"
        /\ UNCHANGED <<mid, paid>>
     \/ /\ MidOutcome < leg.end /\ ~LastStep
        /\ result' = Append(result, CETPayout(mid, MidOutcome, Clamp(paid)))
        /\ paid' = NextPaid
        /\ mid' = MidOutcome + 1
        /\ IF mid' <= mid THEN cur' = leg.end /\ pc' = "outer"
                          ELSE cur' = NextOutcome + 1 /\ pc' = "inner"

InnerEnds ==
  /\ pc = "inner" /\ mid >= leg.end
  /\ pc' = "outer"
  /\ UNCHANGED <<contract, piece, cur, mid, paid, leg, started, result, ranges>>

SplitNext == Flat \/ Outer \/ OuterEnds \/ Inner \/ InnerEnds

-----------------------------------------------------------------------------
(* What the loops do not provide for. *)

Inside(i) == From(i).outcome + 1..To(i).outcome - 1

\* Where a rounding interval begins inside a piece, past its first turn.
Begins(i) ==
  {contract.rounding[k].begin : k \in DOMAIN contract.rounding} \intersect From(i).outcome + 2..To(i).outcome - 1

\* Two outcomes in a row are more than one rounding apart.
Steep(i) ==
  \E x \in Inside(i) : Abs(RoundPayout(i, x, Mod(x)) - RoundPayout(i, x + 1, Mod(x))) > Mod(x)

\* An interval that begins after the piece.
BeginsLater(i) == \E k \in DOMAIN contract.rounding : contract.rounding[k].begin > To(i).outcome

\* An interval that begins inside a piece when none has begun before: it is passed over.
PassedOver(i) == IntervalAt(From(i).outcome + 1) = 0 /\ Begins(i) # {}

\* The first payout is rounded up to, or past, the last: a rising curve is taken to fall.
Misjudged(i) ==
  \E x \in {From(i).outcome + 1} \union Begins(i) :
    LET c == contract.curves[i]
        end == NextFirst(i, x)
        rising == c.kind = "line" /\ Rise(c) > 0
    IN  x < To(i).outcome /\ (Compare(c, end, 2 * RoundPayout(i, x, Mod(x))) = 1) # rising

\* The rounded payout changes with the interval, or would only change after the piece.
ChangesAtBegin(i) ==
  \E b \in Begins(i) :
    LET before == RoundPayout(i, b - 1, Mod(b - 1))
    IN  \/ before # RoundPayout(i, b, Mod(b - 1))
        \/ OutcomeForPayout(contract.curves[i], 2 * before) \notin 0..To(i).outcome - 1

\* The rounded payout at the end of the piece, by the interval of the outcome before.
LastRounded(i) == RoundPayout(i, To(i).outcome, Mod(To(i).outcome - 1))

\* The rounded payout changes with the last outcome.
ChangesLast(i) ==
  Inside(i) # {} /\ LastRounded(i) # RoundPayout(i, To(i).outcome - 1, Mod(To(i).outcome - 1))

\* It does so to another payout than that of the end point; or the curve is below
\* nothing before an end point that pays something.
Ragged(i) ==
  LET c == contract.curves[i]
  IN  \/ ChangesLast(i) /\ LastRounded(i) # To(i).payout
      \/ c.kind = "hyperbola" /\ To(i).payout # 0 /\ Compare(c, To(i).outcome - 1, 0) = -1

\* It does so to less than the curve ever falls to: the outcome that would pay as
\* little is before the pole of the hyperbola.
NeverThatLow(i) ==
  /\ contract.curves[i].kind = "hyperbola" /\ contract.curves[i].f > LastRounded(i)
  /\ ChangesLast(i)

\* A hyperbola that stays above the payout where the next rounding begins.
NeverThere(i) ==
  /\ contract.curves[i].kind = "hyperbola"
  /\ \E x \in Inside(i) :
       /\ x + 1 \in Begins(i) \union {To(i).outcome}
       /\ 2 * contract.curves[i].f >= 2 * RoundPayout(i, x, Mod(x)) - Mod(x)

Awkward(i) ==
  /\ ~Constant(i)
  /\ \/ Steep(i) \/ BeginsLater(i) \/ PassedOver(i) \/ Misjudged(i) \/ ChangesAtBegin(i)
     \/ Ragged(i) \/ NeverThatLow(i) \/ NeverThere(i)

Outcomes == contract.points[1].outcome..Last(contract.points).outcome

\* The payout of outcome x by the contract: that of a point, or the rounded curve.
Owed(x) ==
  LET i == CHOOSE i \in Pieces : From(i).outcome <= x /\ x <= To(i).outcome
  IN  CASE x = From(i).outcome \/ Constant(i) -> From(i).payout
        [] x = To(i).outcome -> To(i).payout
        [] OTHER -> Clamp(RoundPayout(i, x, Mod(x)))

PaidFor(x, payout) ==
  \E k \in DOMAIN ranges :
    /\ x \in ranges[k].from..ranges[k].to /\ ranges[k].payout = payout
    /\ \A j \in DOMAIN ranges \ {k} : x \notin ranges[j].from..ranges[j].to

(* splitIntoRanges: every outcome is in one range, with the payout of the   *)
(* curve rounded in its interval, and no range is empty; unless a piece is  *)
(* one the loops do not provide for.                                        *)
PaidAsDrawn ==
  pc = "done" /\ (\A i \in Pieces : ~Awkward(i)) =>
    /\ \A x \in Outcomes : PaidFor(x, Owed(x))
    /\ \A k \in DOMAIN ranges : ranges[k].from <= ranges[k].to

(* CETCalculator.ts:190: the ranges are the payout function, evaluated and  *)
(* rounded.  A curve with more than one rounding step from an outcome to    *)
(* the next ends the loops early: the outcomes after it have no payout.     *)
EvaluatesTheFunction ==
  pc = "done" => \A x \in Outcomes : PaidFor(x, Owed(x))
=============================================================================
