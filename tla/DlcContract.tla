---------------------------- MODULE DlcContract ----------------------------
(***************************************************************************)
(* The transactions of a contract: its funding transaction, and, once that *)
(* is built, the ranges of outcomes its CETs pay.                          *)
(***************************************************************************)
EXTENDS FundingTx, PayoutRanges, DigitPrefixes

CONSTANT Offers  \* pairs of terms and a contract

ASSUME OffersAssumption == \A o \in Offers : TermsOK(o[1]) /\ ContractOK(o[2])

\* The outcomes of a contract are those its digits can tell apart.
ASSUME DigitsAssumption ==
  /\ Base \in Nat \ {0, 1} /\ NumDigits \in Nat \ {0}
  /\ \A o \in Offers : Last(o[2].points).outcome < Power[NumDigits]

offerVars == <<fundingVars, splitVars>>

OfferInit == \E o \in Offers : FundingInit(o[1]) /\ SplitInit(o[2])

Fund == FundingNext /\ UNCHANGED splitVars
Split == step = "built" /\ SplitNext /\ UNCHANGED fundingVars

OfferNext == Fund \/ Split

OfferSpec == OfferInit /\ [][OfferNext]_offerVars /\ WF_offerVars(OfferNext)

(* groupByIgnoringDigits and splitIntoRanges: every outcome of a contract   *)
(* whose pieces the loops provide for begins with the digits of exactly one *)
(* prefix, that of the range it is in.                                      *)
OnePrefix ==
  pc = "done" /\ (\A i \in Pieces : ~Awkward(i)) =>
    LET signed == UNION {{<<k, p>> : p \in GroupByIgnoringDigits(ranges[k].from, ranges[k].to)} : k \in DOMAIN ranges}
    IN  \A x \in Outcomes :
          LET fits == {s \in signed : Matches(s[2], x)}
          IN  Cardinality(fits) = 1 /\ \A s \in fits : x \in ranges[s[1]].from..ranges[s[1]].to

(* The outer loop comes to its end, unless the funds do not suffice, or the  *)
(* direction is misjudged, the payout changes with the interval, or a        *)
(* hyperbola stays above the next payout: then currentOutcome is set back.   *)
SetBack(i) == Misjudged(i) \/ ChangesAtBegin(i) \/ NeverThatLow(i) \/ NeverThere(i)

LoopsEnd ==
  <>(step = "insufficient" \/ pc = "done" \/ (pc = "looping" /\ SetBack(piece)))
=============================================================================
