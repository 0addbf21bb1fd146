-------------------------- MODULE ContractLayouts --------------------------
(***************************************************************************)
(* The parts of a contract: contract info, descriptors, payout functions   *)
(* and rounding intervals, and what the parties negotiate about them.      *)
(***************************************************************************)
EXTENDS Layout

(* ContractInfo.                                                             *)
SingleContractInfoSerialize == <<
  Tag("big", "0"), U64("totalCollateral"), Sub("contractDescriptor", "ContractDescriptor"),
  Sub("oracleInfo", "OracleInContract") >>

SingleContractInfoDeserialize == <<
  Ignore("big"), U64("totalCollateral"), Sub("contractDescriptor", "ContractDescriptor"),
  Sub("oracleInfo", "OracleInContract") >>

SingleContractInfoToJSON == <<
  ToUnder("singleContractInfo", <<
    To("totalCollateral", "totalCollateral", "near"),
    ToUnder("contractInfo", <<
      ToObj("contractDescriptor", "contractDescriptor", "ContractDescriptor"),
      ToObj("oracleInfo", "oracleInfo", "OracleInContract")>>)>>) >>

SingleContractInfoFromJSON == <<
  Else(From("totalCollateral", <<"totalCollateral", "total_collateral">>, "big"), Zero),
  FromUnder(<<"contractInfo", "contract_info">>, <<
    FromObj("contractDescriptor", <<"contractDescriptor", "contract_descriptor">>, "ContractDescriptor"),
    FromObj("oracleInfo", <<"oracleInfo", "oracle_info">>, "OracleInContract")>>) >>

DisjointContractInfoSerialize == <<
  Tag("big", "1"), U64("totalCollateral"), VecHere("big", "contractOraclePairs", "ContractOraclePair") >>

DisjointContractInfoDeserialize == <<
  Ignore("big"), U64("totalCollateral"), VecHere("big", "contractOraclePairs", "ContractOraclePair") >>

ContractOraclePair == <<
  Sub("contractDescriptor", "ContractDescriptor"), Sub("oracleInfo", "OracleInContract") >>

DisjointContractInfoToJSON == <<
  ToUnder("disjointContractInfo", <<
    To("totalCollateral", "totalCollateral", "near"),
    ToList("contractInfos", "contractOraclePairs", "ContractOraclePair")>>) >>

ContractOraclePairToJSON == <<
  ToObj("contractDescriptor", "contractDescriptor", "ContractDescriptor"),
  ToObj("oracleInfo", "oracleInfo", "OracleInContract") >>

DisjointContractInfoFromJSON == <<
  Else(From("totalCollateral", <<"totalCollateral", "total_collateral">>, "big"), Zero),
  FromList("contractOraclePairs", <<"contractInfos", "contract_infos">>, "ContractOraclePair") >>

ContractOraclePairFromJSON == <<
  FromObj("contractDescriptor", <<"contractDescriptor", "contract_descriptor">>, "ContractDescriptor"),
  FromObj("oracleInfo", <<"oracleInfo", "oracle_info">>, "OracleInContract") >>

\* ContractInfo.deserialize and fromJSON.
ContractInfoTypes == [w |-> "big", of |-> <<Case("0", "SingleContractInfo"), Case("1", "DisjointContractInfo")>>]
ContractInfoKeys == <<Under("singleContractInfo", "SingleContractInfo"),
                      Under("single_contract_info", "SingleContractInfo"),
                      Under("disjointContractInfo", "DisjointContractInfo"),
                      Under("disjoint_contract_info", "DisjointContractInfo")>>

------------------------------------------------------------------------------
(* ContractDescriptor.                                                       *)
EnumeratedDescriptorSerialize == <<Tag("big", "0"), VecHere("big", "outcomes", "Outcome")>>
EnumeratedDescriptorDeserialize == <<Ignore("big"), VecHere("big", "outcomes", "Outcome")>>
OutcomeSerialize == <<Text("tbig", "outcome"), U64("localPayout")>>
OutcomeDeserialize == <<Text("tbig", "outcome"), U64("localPayout")>>

EnumeratedDescriptorToJSON ==
  <<ToUnder("enumeratedContractDescriptor", <<ToList("payouts", "outcomes", "Outcome")>>)>>
OutcomeToJSON == <<To("outcome", "outcome", "text"), To("offerPayout", "localPayout", "near")>>

EnumeratedDescriptorFromJSON == <<FromList("outcomes", <<"payouts">>, "Outcome")>>
OutcomeFromJSON == <<
  From("outcome", <<"outcome">>, "text"), Else(From("localPayout", <<"offerPayout">>, "big"), Zero) >>

NumericalDescriptorSerialize == <<
  Tag("big", "1"), U16("numDigits"), Sub("payoutFunction", "PayoutFunction"),
  Sub("roundingIntervals", "RoundingIntervals") >>

NumericalDescriptorDeserialize == <<
  Ignore("big"), U16("numDigits"), Sub("payoutFunction", "PayoutFunction"),
  Sub("roundingIntervals", "RoundingIntervals") >>

NumericalDescriptorToJSON == <<
  ToUnder("numericOutcomeContractDescriptor", <<
    To("numDigits", "numDigits", "num"), ToObj("payoutFunction", "payoutFunction", "PayoutFunction"),
    ToObj("roundingIntervals", "roundingIntervals", "RoundingIntervals")>>) >>

NumericalDescriptorFromJSON == <<
  Else(From("numDigits", <<"numDigits", "num_digits">>, "num"), Zero),
  FromObj("payoutFunction", <<"payoutFunction", "payout_function">>, "PayoutFunction"),
  FromObj("roundingIntervals", <<"roundingIntervals", "rounding_intervals">>, "RoundingIntervals") >>

ContractDescriptorTypes ==
  [w |-> "big", of |-> <<Case("0", "EnumeratedDescriptor"), Case("1", "NumericalDescriptor")>>]
ContractDescriptorKeys == <<Under("enumeratedContractDescriptor", "EnumeratedDescriptor"),
                            Under("enumerated_contract_descriptor", "EnumeratedDescriptor"),
                            Under("numericOutcomeContractDescriptor", "NumericalDescriptor"),
                            Under("numeric_outcome_contract_descriptor", "NumericalDescriptor")>>

------------------------------------------------------------------------------
(* PayoutFunction: pieces, each behind the point it starts at, and the point *)
(* the last one ends at.                                                     *)
PayoutFunctionSerialize == <<
  VecHere("big", "payoutFunctionPieces", "PayoutFunctionPiece"), SubHere("lastEndpoint", "PayoutPoint") >>
PayoutFunctionDeserialize == <<
  VecHere("big", "payoutFunctionPieces", "PayoutFunctionPiece"), SubHere("lastEndpoint", "PayoutPoint") >>

PayoutPoint == <<U64("eventOutcome"), U64("outcomePayout"), U16("extraPrecision")>>
PayoutFunctionPiece == <<SubHere("endPoint", "PayoutPoint"), Sub("payoutCurvePiece", "PayoutCurvePiece")>>

PayoutFunctionToJSON == <<
  ToList("payoutFunctionPieces", "payoutFunctionPieces", "PayoutFunctionPiece"),
  ToObj("lastEndpoint", "lastEndpoint", "PayoutPoint") >>
PayoutFunctionPieceToJSON == <<
  ToObj("endPoint", "endPoint", "PayoutPoint"),
  ToObj("payoutCurvePiece", "payoutCurvePiece", "PayoutCurvePiece") >>
PayoutPointToJSON == <<
  To("eventOutcome", "eventOutcome", "num"), To("outcomePayout", "outcomePayout", "num"),
  To("extraPrecision", "extraPrecision", "num") >>

PayoutFunctionFromJSON == <<
  FromList("payoutFunctionPieces", <<"payoutFunctionPieces", "payout_function_pieces">>, "PayoutFunctionPiece"),
  FromObj("lastEndpoint", <<"lastEndpoint", "last_endpoint">>, "PayoutPoint") >>
PayoutFunctionPieceFromJSON == <<
  FromObj("endPoint", <<"endPoint">>, "PayoutPoint"),
  FromObj("payoutCurvePiece", <<"payoutCurvePiece", "payout_curve_piece">>, "PayoutCurvePiece") >>
PayoutPointFromJSON == <<
  From("eventOutcome", <<"eventOutcome">>, "big"), From("outcomePayout", <<"outcomePayout">>, "big"),
  Else(From("extraPrecision", <<"extraPrecision">>, "num"), Zero) >>

PolynomialPayoutCurvePieceSerialize == <<Tag("big", "0"), VecHere("big", "points", "CurvePoint")>>
PolynomialPayoutCurvePieceDeserialize == <<Ignore("big"), VecHere("big", "points", "CurvePoint")>>
CurvePoint == <<U64("eventOutcome"), U64("outcomePayout"), U16("extraPrecision")>>
PolynomialPayoutCurvePieceToJSON ==
  <<ToUnder("polynomialPayoutCurvePiece", <<ToList("payoutPoints", "points", "CurvePoint")>>)>>
PolynomialPayoutCurvePieceFromJSON == <<FromList("points", <<"payoutPoints", "points">>, "CurvePoint")>>
CurvePointFromJSON == <<
  From("eventOutcome", <<"eventOutcome", "event_outcome">>, "big"),
  From("outcomePayout", <<"outcomePayout", "outcome_payout">>, "big"),
  Else(From("extraPrecision", <<"extraPrecision", "extra_precision">>, "num"), Zero) >>

\* The end points of a hyperbola are not part of its bytes.
HyperbolaPayoutCurvePieceSerialize == <<
  Tag("big", "1"), U8("usePositivePiece"), F64("translateOutcome"), F64("translatePayout"),
  F64("a"), F64("b"), F64("c"), F64("d") >>
HyperbolaPayoutCurvePieceDeserialize == <<
  Ignore("big"), U8("usePositivePiece"), F64("translateOutcome"), F64("translatePayout"),
  F64("a"), F64("b"), F64("c"), F64("d") >>
HyperbolaPayoutCurvePieceToJSON == <<
  ToUnder("hyperbolaPayoutCurvePiece", <<
    To("usePositivePiece", "usePositivePiece", "num"), To("translateOutcome", "translateOutcome", "num"),
    To("translatePayout", "translatePayout", "num"), To("a", "a", "num"), To("b", "b", "num"),
    To("c", "c", "num"), To("d", "d", "num")>>) >>
HyperbolaPayoutCurvePieceFromJSON == <<
  Else(From("usePositivePiece", <<"usePositivePiece", "use_positive_piece">>, "num"), Zero),
  From("translateOutcome", <<"translateOutcome">>, "num"), From("translatePayout", <<"translatePayout">>, "num"),
  From("a", <<"a">>, "num"), From("b", <<"b">>, "num"), From("c", <<"c">>, "num"), From("d", <<"d">>, "num") >>

PayoutCurvePieceTypes ==
  [w |-> "big", of |-> <<Case("0", "PolynomialPayoutCurvePiece"), Case("1", "HyperbolaPayoutCurvePiece")>>]
PayoutCurvePieceKeys == <<Under("polynomialPayoutCurvePiece", "PolynomialPayoutCurvePiece"),
                          Under("hyperbolaPayoutCurvePiece", "HyperbolaPayoutCurvePiece")>>

------------------------------------------------------------------------------
(* RoundingIntervals.                                                        *)
RoundingIntervalsSerialize == <<VecHere("big", "intervals", "Interval")>>
RoundingIntervalsDeserialize == <<VecHere("big", "intervals", "Interval")>>
Interval == <<U64("beginInterval"), U64("roundingMod")>>
RoundingIntervalsToJSON == <<ToList("intervals", "intervals", "Interval")>>
IntervalToJSON == <<To("beginInterval", "beginInterval", "near"), To("roundingMod", "roundingMod", "near")>>
RoundingIntervalsFromJSON == <<FromList("intervals", <<"intervals">>, "Interval")>>
IntervalFromJSON == <<
  From("beginInterval", <<"beginInterval", "begin_interval">>, "big"),
  From("roundingMod", <<"roundingMod", "rounding_mod">>, "big") >>

------------------------------------------------------------------------------
(* NegotiationFields.                                                        *)
SingleNegotiationFieldsSerialize == <<Tag("big", "0"), Sub("roundingIntervals", "RoundingIntervals")>>
SingleNegotiationFieldsDeserialize == <<Ignore("big"), Sub("roundingIntervals", "RoundingIntervals")>>
SingleNegotiationFieldsToJSON == <<
  ToType("variant", "Single"), ToObj("roundingIntervals", "roundingIntervals", "RoundingIntervals") >>
SingleNegotiationFieldsFromJSON == <<FromObj("roundingIntervals", <<"roundingIntervals">>, "RoundingIntervals")>>

DisjointNegotiationFieldsSerialize ==
  <<Tag("big", "1"), Vec("big", "negotiationFields", "NegotiationFields")>>
\* Disjoint fields inside disjoint fields are written, and refused when read.
DisjointNegotiationFieldsDeserialize ==
  <<Ignore("big"), Vec("big", "negotiationFields", "NestedNegotiationFields")>>
NestedNegotiationFieldsTypes == [w |-> "big", of |-> <<Case("0", "SingleNegotiationFields")>>]
DisjointNegotiationFieldsToJSON == <<
  ToType("variant", "Disjoint"), ToList("negotiationFields", "negotiationFields", "NegotiationFields") >>
DisjointNegotiationFieldsFromJSON == <<FromList("negotiationFields", <<"negotiationFields">>, "NegotiationFields")>>

NegotiationFieldsTypes ==
  [w |-> "big", of |-> <<Case("0", "SingleNegotiationFields"), Case("1", "DisjointNegotiationFields")>>]
NegotiationFieldsVariants ==
  <<Tagged("variant", "Single", "SingleNegotiationFields"),
    Tagged("variant", "Disjoint", "DisjointNegotiationFields")>>
=============================================================================
