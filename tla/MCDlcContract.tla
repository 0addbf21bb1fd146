----------------------------- MODULE MCDlcContract -----------------------------
(* Payout functions with small numbers, and the digits their ranges are *)
(* signed with.                                                         *)
EXTENDS DlcContract

CONSTANTS Collateral, Reach, MostK

Point(x, y) == [outcome |-> x, payout |-> y]
Line(p, q) == [kind |-> "line", from |-> p, to |-> q]
Hyperbola(k, t, f) == [kind |-> "hyperbola", k |-> k, t |-> t, f |-> f]
Interval(b, m) == [begin |-> b, mod |-> m]

Roundings ==
  {<<Interval(0, m)>> : m \in 1..4} \union
    {<<>>, <<Interval(3, 2)>>, <<Interval(0, 1), Interval(3, 2)>>, <<Interval(0, 2), Interval(3, 1)>>,
     <<Interval(0, 3), Interval(4, 2)>>, <<Interval(0, 1), Interval(2, 2), Interval(4, 1)>>}

Payouts == 0..Collateral

Lines ==
  {[points |-> <<Point(0, a), Point(n, b)>>, curves |-> <<Line(Point(0, a), Point(n, b))>>,
    collateral |-> Collateral, rounding |-> r] :
     a \in Payouts, b \in Payouts, n \in 1..Reach, r \in Roundings}

Corners ==
  {[points |-> <<Point(0, a), Point(n, b), Point(m, c)>>,
    curves |-> <<Line(Point(0, a), Point(n, b)), Line(Point(n, b), Point(m, c))>>,
    collateral |-> Collateral, rounding |-> r] :
     a \in Payouts, b \in Payouts, c \in Payouts, n \in {2, 3}, m \in {Reach - 2, Reach}, r \in Roundings}

\* It ends with what it pays there, clamped and rounded to satoshis, or with
\* nothing, as that of a covered call.
Ends(k, f, n) == {0, Between(0, f + Nearest(k, n), Collateral)}

Hyperbolas ==
  UNION {{[points |-> <<Point(0, Collateral), Point(n, p)>>,
           curves |-> <<Hyperbola(k, 0, f)>>, collateral |-> Collateral, rounding |-> r] : p \in Ends(k, f, n)} :
           k \in 1..MostK, f \in -1..1, n \in 2..Reach, r \in Roundings}

\* With the pole before the first outcome or after it, and any end.
ShiftedHyperbolas ==
  {[points |-> <<Point(x, Collateral), Point(n, p)>>,
    curves |-> <<Hyperbola(k, 3 - x, f)>>, collateral |-> Collateral, rounding |-> r] :
     x \in {0, 3}, p \in {0, 1}, k \in 1..4, f \in -1..1, n \in 5..Reach, r \in Roundings}

AllContracts == Lines \union Corners \union Hyperbolas \union ShiftedHyperbolas

\* Two satoshis and more from an outcome to the next, rounded to one.
SteepLines ==
  {[points |-> <<Point(0, 0), Point(n, Collateral)>>, curves |-> <<Line(Point(0, 0), Point(n, Collateral))>>,
    collateral |-> Collateral, rounding |-> <<Interval(0, 1)>>] : n \in 2..Collateral \div 2}

-----------------------------------------------------------------------------
Coin(value, witness) == [value |-> value, witness |-> witness]
\* Among them coins that cost more than they bring at the higher rate, two that
\* do so only by the rounding of their size, and one a few satoshis above what
\* five contracts need.
Coins == {Coin(v, 108) : v \in {231, 480, 2114, 5703, 9100}} \union {Coin(v, 66) : v \in {231, 9100}}
Wallets == {w \in UNION {[1..n -> Coins] : n \in 1..3} : \A i \in 2..Len(w) : w[i - 1].value <= w[i].value}

Batches ==
  {[i \in 1..n |-> [offer |-> o, accept |-> a]] : n \in {1, 2}, o \in {1000, 2300}, a \in {0, 1500}}
    \union {[i \in 1..5 |-> [offer |-> 1000, accept |-> 0]]}

Single == {b \in Batches : b[1].accept = 0}

Agreements(modes, theirs, batches) ==
  {[mode |-> m, wallet |-> w, theirs |-> t, contracts |-> b, rate |-> r, spk |-> s] :
     m \in modes, w \in Wallets, t \in theirs, b \in batches, r \in {1, 4}, s \in {22, 34}}

AllTerms ==
  Agreements({"selected", "all"}, {<<>>, <<Coin(4200, 108)>>}, Batches) \union Agreements({"max"}, {<<>>}, Single)

\* Any terms with one contract, and any contract with one of the terms.
SomeTerms == CHOOSE t \in AllTerms : t.mode = "max" /\ t.wallet = <<Coin(9100, 108)>> /\ t.spk = 22 /\ Len(t.contracts) = 1
SomeContract == CHOOSE c \in Lines : c.points[2].outcome = Reach

AllOffers == (AllTerms \X {SomeContract}) \union ({SomeTerms} \X AllContracts)
SteepOffers == {SomeTerms} \X SteepLines
=============================================================================
