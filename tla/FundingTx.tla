----------------------------- MODULE FundingTx -----------------------------
(***************************************************************************)
(* The money of a funding transaction: the coins a party selects, the fees *)
(* it reckons with, and the outputs BatchDlcTxBuilder makes of both        *)
(* parties' inputs.  Weights and sizes are those of the code; the scripts  *)
(* of a party's payout and change have the same length.                    *)
(***************************************************************************)
EXTENDS Integers, Sequences, FiniteSets, FiniteSetsExt

VARIABLES
  terms,   \* [mode, wallet, theirs, contracts, rate, spk], see below
  step,    \* "choosing", "building", "built", or "insufficient" when it threw
  inputs,  \* the offerer's
  offered, \* its collateral in each contract
  tx       \* the values of the outputs; 0 for change that is left out

fundingVars == <<terms, step, inputs, offered, tx>>

\* terms: the offerer's coins, the accepter's inputs, the collaterals of each
\* contract.  A coin has a value and a maximal witness length.  mode: the
\* offerer funds with the coins that are "selected", with "all" of them, or
\* with all of them and the "max" collateral.

DUST_LIMIT == 1000
FakeSPK == 22     \* the length of the script fees are estimated with
DefaultWitness == 108

UTXO == [value : Nat \ {0}, witness : Nat]

\* Scripts are from 22 bytes (P2WPKH) to 34 (P2WSH, P2TR) long, and there is no
\* accepter with inputs where the collateral is maximal.
TermsOK(t) ==
  /\ t.mode \in {"selected", "all", "max"}
  /\ t.rate \in Nat \ {0} /\ t.spk \in FakeSPK..34
  /\ t.wallet \in Seq(UTXO) /\ t.theirs \in Seq(UTXO)
  /\ t.contracts \in Seq([offer : Nat, accept : Nat]) \ {<<>>}
  /\ t.mode = "max" => t.theirs = <<>>

SumOf(f) == MapThenSumSet(LAMBDA i : f[i], DOMAIN f)
Total(coins) == SumOf([i \in DOMAIN coins |-> coins[i].value])
CeilDiv(n, d) == (n + d - 1) \div d

\* The inputs are native witness inputs: their scriptSigLength is zero.
InputWeight(coin) == 164 + coin.witness
InputVBytes(witness) == CeilDiv(164 + witness, 4)

\* computeFees: nothing without inputs.
FutureFee(coins, spk, rate, n) ==
  IF coins = <<>> THEN 0 ELSE rate * CeilDiv((249 + 4 * spk) * n, 4)
FundingFee(coins, spk, rate, n) ==
  LET inputWeight == SumOf([i \in DOMAIN coins |-> InputWeight(coins[i])])
      contractWeight == (42 + 43 * n * 4) \div 2
  IN  IF coins = <<>> THEN 0 ELSE rate * CeilDiv(36 + 4 * spk + contractWeight + inputWeight, 4)
Fees(coins, spk, rate, n) == FutureFee(coins, spk, rate, n) + FundingFee(coins, spk, rate, n)

\* A slip: the fees are those of a single contract.
EnoughSlip(coins, target, rate, n) ==
  Total(coins) >= target + rate * InputVBytes(DefaultWitness) + Fees(coins, FakeSPK, rate, 1)

\* What is selected so far covers the collaterals, the fees and a change input.
Enough(coins, target, rate, n) ==
  Total(coins) >= target + rate * InputVBytes(DefaultWitness) + Fees(coins, FakeSPK, rate, n)

Score(coin, rate) == coin.value - rate * InputVBytes(coin.witness)

\* The order of the scores; sort() leaves coins of one score as they were.
Before(wallet, rate, i, j) ==
  LET si == Score(wallet[i], rate)
      sj == Score(wallet[j], rate)
  IN  si > sj \/ (si = sj /\ i < j)

\* The best coins, as few as will do, without those that cost more than they bring.
DualFundingCoinSelect(wallet, target, rate, n) ==
  LET worth == {i \in DOMAIN wallet : Score(wallet[i], rate) >= 0}
      place == [i \in worth |-> 1 + Cardinality({j \in worth : Before(wallet, rate, j, i)})]
      sorted == [k \in 1..Cardinality(worth) |-> wallet[CHOOSE i \in worth : place[i] = k]]
      enough == {coins \in {SubSeq(sorted, 1, k) : k \in DOMAIN sorted} : Enough(coins, target, rate, n)}
  IN  IF enough = {} THEN <<>> ELSE CHOOSE coins \in enough : \A more \in enough : Len(coins) <= Len(more)

MaxCollateral(coins, rate, n) == Max({0, Total(coins) - Fees(coins, FakeSPK, rate, n)})

-----------------------------------------------------------------------------
N == Len(terms.contracts)

Asked == [i \in DOMAIN terms.contracts |-> terms.contracts[i].offer]
Accepted == [i \in DOMAIN terms.contracts |-> terms.contracts[i].accept]

FundingInit(t) ==
  /\ terms = t
  /\ step = "choosing"
  /\ inputs = <<>> /\ offered = <<>> /\ tx = <<>>

\* The offerer's coins and collaterals; a maximal collateral is shared between the contracts.
Choose ==
  /\ step = "choosing"
  /\ step' = "building"
  /\ inputs' = IF terms.mode = "selected"
               THEN DualFundingCoinSelect(terms.wallet, SumOf(Asked), terms.rate, N) ELSE terms.wallet
  /\ LET max == MaxCollateral(terms.wallet, terms.rate, N)
     IN  offered' = IF terms.mode = "max"
                    THEN [i \in DOMAIN Asked |-> (max \div N) + (IF i = 1 THEN max % N ELSE 0)] ELSE Asked
  /\ UNCHANGED <<terms, tx>>

OfferFees == Fees(inputs, terms.spk, terms.rate, N)
AcceptFees == Fees(terms.theirs, terms.spk, terms.rate, N)
OfferChange == Total(inputs) - SumOf(offered) - OfferFees
AcceptChange == Total(terms.theirs) - SumOf(Accepted) - AcceptFees

Insufficient == OfferChange < 0 \/ (AcceptChange < 0 /\ Total(terms.theirs) > 0)

\* A slip: the share of a fee is rounded down.
ShareSlip(coins) == FutureFee(coins, terms.spk, terms.rate, N) \div N

\* What a party leaves in each fund output for the transaction that spends it.
Share(coins) == CeilDiv(FutureFee(coins, terms.spk, terms.rate, N), N)

FundingValues == [i \in DOMAIN offered |-> offered[i] + Accepted[i] + Share(inputs) + Share(terms.theirs)]

Undusted(value) == IF value >= DUST_LIMIT THEN value ELSE 0

BuildFundingTransaction ==
  /\ step = "building"
  /\ IF Insufficient
     THEN step' = "insufficient" /\ tx' = tx
     ELSE /\ step' = "built"
          /\ tx' = [funds |-> FundingValues, offerChange |-> Undusted(OfferChange), acceptChange |-> Undusted(AcceptChange)]
  /\ UNCHANGED <<terms, inputs, offered>>

FundingNext == Choose \/ BuildFundingTransaction

-----------------------------------------------------------------------------
\* What the transaction leaves to the miner.
MinerFee == Total(inputs) + Total(terms.theirs) - SumOf(tx.funds) - tx.offerChange - tx.acceptChange

Agreed(coins) == FundingFee(coins, terms.spk, terms.rate, N)

\* An accepter with a collateral and no inputs, which no test refuses.
Unfunded == terms.theirs = <<>> /\ SumOf(Accepted) > 0

(* buildFundingTransaction: the miner gets what the parties reckoned with,   *)
(* but for the rounding of the shares and two changes too small to pay out,  *)
(* and every fund output can pay for the transaction that spends it; unless  *)
(* the accepter puts up a collateral without an input.  With the collateral  *)
(* of calculateMaxCollateral nothing is left over, and it cannot be funded   *)
(* when a script is longer than the estimate's.                              *)
Balances ==
  /\ step = "built" /\ ~Unfunded =>
       LET agreed == Agreed(inputs) + Agreed(terms.theirs)
           parties == Cardinality({p \in {1, 2} : (<<inputs, terms.theirs>>)[p] # <<>>})
       IN  /\ MinerFee \in agreed - parties * (N - 1)..agreed + parties * (DUST_LIMIT - 1)
           /\ \A i \in DOMAIN tx.funds :
                4 * (tx.funds[i] - offered[i] - Accepted[i]) >= parties * terms.rate * (249 + 4 * terms.spk)
  /\ terms.mode = "max" /\ step \in {"built", "insufficient"} /\ SumOf(offered) > 0 =>
       IF terms.spk > FakeSPK THEN step = "insufficient"
       ELSE step = "built" /\ OfferChange = 0 /\ MinerFee <= Agreed(inputs)

\* The coins at these places of the wallet would do, a vbyte aside for each whose
\* size is rounded up.
WouldDo(places) ==
  LET coins == [i \in places |-> terms.wallet[i]]
      odd == Cardinality({i \in places : InputWeight(terms.wallet[i]) % 4 # 0})
  IN  Enough(coins, SumOf(Asked) + terms.rate * odd, terms.rate, N)

(* dualFundingCoinSelect, buildFundingTransaction: coins are found whenever  *)
(* some of the wallet would do, no more than need be; what is found funds    *)
(* the contracts, unless there are five or more and the scripts are longer   *)
(* than the fees were estimated with.                                        *)
SelectionWorks ==
  terms.mode = "selected" /\ step # "choosing" =>
    /\ \A places \in SUBSET DOMAIN terms.wallet :
         WouldDo(places) => inputs # <<>> /\ Len(inputs) <= Cardinality(places)
    /\ step = "insufficient" /\ AcceptChange >= 0 /\ (terms.spk <= FakeSPK \/ N <= 4) => inputs = <<>>

=============================================================================
