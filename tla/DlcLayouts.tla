----------------------------- MODULE DlcLayouts -----------------------------
(***************************************************************************)
(* The messages two parties make a DLC with, of packages/messaging: what   *)
(* each class writes, reads, shows as JSON and takes from JSON.            *)
(***************************************************************************)
EXTENDS Layout

(* DlcOffer.                                                                 *)
DlcOfferSerialize == <<
  Tag("u16", "DlcOffer"), OrOlder("protocolVersion"), B1("contractFlags"), B32("chainHash"),
  B32("temporaryContractId"), Sub("contractInfo", "ContractInfo"), B33("fundingPubkey"),
  S16("payoutSpk"), U64("payoutSerialId"), U64("offerCollateral"),
  Vec("big", "fundingInputs", "FundingInputBody"),
  S16("changeSpk"), U64("changeSerialId"), U64("fundOutputSerialId"), U64("feeRatePerVb"),
  U32("cetLocktime"), U32("refundLocktime"),
  Stream(<<Takes("OrderMetadataV0", "metadata", "OrderMetadata"),
           Takes("OrderIrcInfoV0", "ircInfo", "OrderIrcInfo"),
           Takes("OrderPositionInfo", "positionInfo", "OrderPositionInfo"),
           TakesAll("BatchFundingGroup", "batchFundingGroups", "BatchFundingGroup")>>) >>

DlcOfferDeserialize == <<
  Check("u16", "DlcOffer"), OrOlder("protocolVersion"), B1("contractFlags"), B32("chainHash"),
  B32("temporaryContractId"), Sub("contractInfo", "ContractInfo"), B33("fundingPubkey"),
  S16("payoutSpk"), U64("payoutSerialId"), U64("offerCollateral"),
  Vec("big", "fundingInputs", "FundingInputBody"),
  S16("changeSpk"), U64("changeSerialId"), U64("fundOutputSerialId"), U64("feeRatePerVb"),
  U32("cetLocktime"), U32("refundLocktime"),
  Stream(<<Takes("OrderMetadataV0", "metadata", "OrderMetadataV0"),
           Takes("OrderIrcInfoV0", "ircInfo", "OrderIrcInfoV0"),
           Takes("OrderPositionInfo", "positionInfo", "OrderPositionInfo"),
           TakesAll("BatchFundingGroup", "batchFundingGroups", "BatchFundingGroup")>>) >>

\* The TLVs, known and unknown, are not part of the JSON.
DlcOfferToJSON == <<
  To("protocolVersion", "protocolVersion", "num"), To("temporaryContractId", "temporaryContractId", "hex"),
  To("contractFlags", "contractFlags", "num"), To("chainHash", "chainHash", "hex"),
  ToObj("contractInfo", "contractInfo", "ContractInfo"), To("fundingPubkey", "fundingPubkey", "hex"),
  To("payoutSpk", "payoutSpk", "hexvar"), To("payoutSerialId", "payoutSerialId", "num"),
  To("offerCollateral", "offerCollateral", "num"), ToList("fundingInputs", "fundingInputs", "FundingInputBody"),
  To("changeSpk", "changeSpk", "hexvar"), To("changeSerialId", "changeSerialId", "num"),
  To("fundOutputSerialId", "fundOutputSerialId", "num"), To("feeRatePerVb", "feeRatePerVb", "num"),
  To("cetLocktime", "cetLocktime", "num"), To("refundLocktime", "refundLocktime", "num") >>

\* A slip: the change script read under the key of the payout script.
DlcOfferFromJSONSlip == <<
  Else(From("protocolVersion", <<"protocolVersion", "protocol_version">>, "num"), Some("protocolVersion", 1)),
  Else(From("contractFlags", <<"contractFlags", "contract_flags">>, "hex"), Zero),
  From("chainHash", <<"chainHash", "chain_hash">>, "hex"),
  From("temporaryContractId", <<"temporaryContractId", "temporary_contract_id">>, "hex"),
  From("fundingPubkey", <<"fundingPubkey", "fundingPubKey", "funding_pubkey">>, "hex"),
  From("payoutSpk", <<"payoutSpk", "payoutSPK", "payout_spk">>, "hex"),
  From("payoutSerialId", <<"payoutSerialId", "payout_serial_id">>, "big"),
  From("offerCollateral", <<"offerCollateral", "offerCollateralSatoshis", "offer_collateral">>, "big"),
  From("changeSpk", <<"payoutSpk", "changeSPK", "change_spk">>, "hex"),
  From("changeSerialId", <<"changeSerialId", "change_serial_id">>, "big"),
  From("fundOutputSerialId", <<"fundOutputSerialId", "fund_output_serial_id">>, "big"),
  From("feeRatePerVb", <<"feeRatePerVb", "fee_rate_per_vb">>, "big"),
  Else(From("cetLocktime", <<"cetLocktime", "cet_locktime">>, "num"), Zero),
  Else(From("refundLocktime", <<"refundLocktime", "refund_locktime">>, "num"), Zero),
  FromObj("contractInfo", <<"contractInfo", "contract_info">>, "ContractInfo"),
  FromList("fundingInputs", <<"fundingInputs", "funding_inputs">>, "FundingInputBody") >>

DlcOfferFromJSON == <<
  Else(From("protocolVersion", <<"protocolVersion", "protocol_version">>, "num"), Some("protocolVersion", 1)),
  Else(From("contractFlags", <<"contractFlags", "contract_flags">>, "hex"), Zero),
  From("chainHash", <<"chainHash", "chain_hash">>, "hex"),
  From("temporaryContractId", <<"temporaryContractId", "temporary_contract_id">>, "hex"),
  From("fundingPubkey", <<"fundingPubkey", "fundingPubKey", "funding_pubkey">>, "hex"),
  From("payoutSpk", <<"payoutSpk", "payoutSPK", "payout_spk">>, "hex"),
  From("payoutSerialId", <<"payoutSerialId", "payout_serial_id">>, "big"),
  From("offerCollateral", <<"offerCollateral", "offerCollateralSatoshis", "offer_collateral">>, "big"),
  From("changeSpk", <<"changeSpk", "changeSPK", "change_spk">>, "hex"),
  From("changeSerialId", <<"changeSerialId", "change_serial_id">>, "big"),
  From("fundOutputSerialId", <<"fundOutputSerialId", "fund_output_serial_id">>, "big"),
  From("feeRatePerVb", <<"feeRatePerVb", "fee_rate_per_vb">>, "big"),
  Else(From("cetLocktime", <<"cetLocktime", "cet_locktime">>, "num"), Zero),
  Else(From("refundLocktime", <<"refundLocktime", "refund_locktime">>, "num"), Zero),
  FromObj("contractInfo", <<"contractInfo", "contract_info">>, "ContractInfo"),
  FromList("fundingInputs", <<"fundingInputs", "funding_inputs">>, "FundingInputBody") >>

\* The containers: a count, and each message behind its length.
DlcOfferContainerSerialize == <<VecSized("big", "offers", "DlcOffer")>>
DlcOfferContainerDeserialize == <<VecSized("big", "offers", "DlcOffer")>>

------------------------------------------------------------------------------
(* DlcAccept.                                                                *)
DlcAcceptSerialize == <<
  Tag("u16", "DlcAccept"), Val("version", "protocolVersion"), B32("temporaryContractId"), U64("acceptCollateral"),
  B33("fundingPubkey"), S16("payoutSpk"), U64("payoutSerialId"),
  Vec("big", "fundingInputs", "FundingInputBody"),
  S16("changeSpk"), U64("changeSerialId"),
  Sub("cetAdaptorSignatures", "CetAdaptorSignatures"), B64("refundSignature"),
  Opt("negotiationFields", "NegotiationFields"),
  Stream(<<TakesAll("BatchFundingGroup", "batchFundingGroups", "BatchFundingGroup")>>) >>

\* What follows the refund signature is read under a catch that goes on with
\* what has been read.
DlcAcceptDeserialize == <<
  Ignore("u16"), Val("version", "protocolVersion"), B32("temporaryContractId"), U64("acceptCollateral"),
  B33("fundingPubkey"), S16("payoutSpk"), U64("payoutSerialId"),
  Vec("big", "fundingInputs", "FundingInputBody"),
  S16("changeSpk"), U64("changeSerialId"),
  Sub("cetAdaptorSignatures", "CetAdaptorSignatures"), B64("refundSignature"),
  Try(<<FlagTlv("negotiationFields", "NegotiationFields"),
        Stream(<<TakesAll("BatchFundingGroup", "batchFundingGroups", "BatchFundingGroup")>>)>>) >>

DlcAcceptToJSON == <<
  To("protocolVersion", "protocolVersion", "num"), To("temporaryContractId", "temporaryContractId", "hex"),
  To("acceptCollateral", "acceptCollateral", "num"), To("fundingPubkey", "fundingPubkey", "hex"),
  To("payoutSpk", "payoutSpk", "hexvar"), To("payoutSerialId", "payoutSerialId", "num"),
  ToList("fundingInputs", "fundingInputs", "FundingInputBody"),
  To("changeSpk", "changeSpk", "hexvar"), To("changeSerialId", "changeSerialId", "num"),
  ToObj("cetAdaptorSignatures", "cetAdaptorSignatures", "CetAdaptorSignatures"),
  To("refundSignature", "refundSignature", "hex"),
  ToOpt("negotiationFields", "negotiationFields", "NegotiationFields") >>

DlcAcceptFromJSON == <<
  Else(From("protocolVersion", <<"protocolVersion", "protocol_version">>, "num"), Some("protocolVersion", 1)),
  From("temporaryContractId", <<"temporaryContractId", "tempContractId", "temporary_contract_id">>, "hex"),
  From("acceptCollateral", <<"acceptCollateral", "acceptCollateralSatoshis", "accept_collateral">>, "big"),
  From("fundingPubkey", <<"fundingPubkey", "fundingPubKey", "funding_pubkey">>, "hex"),
  From("payoutSpk", <<"payoutSpk", "payoutSPK", "payout_spk">>, "hex"),
  From("payoutSerialId", <<"payoutSerialId", "payout_serial_id">>, "big"),
  From("changeSpk", <<"changeSpk", "changeSPK", "change_spk">>, "hex"),
  From("changeSerialId", <<"changeSerialId", "change_serial_id">>, "big"),
  FromList("fundingInputs", <<"fundingInputs", "funding_inputs">>, "FundingInputBody"),
  FromObj("cetAdaptorSignatures", <<"cetAdaptorSignatures", "cet_adaptor_signatures">>, "CetAdaptorSignatures"),
  From("refundSignature", <<"refundSignature", "refund_signature">>, "hex"),
  FromOpt("negotiationFields", <<"negotiationFields", "negotiation_fields">>, "NegotiationFields") >>

\* parseCetAdaptorSignaturesFromJSON, the same text in DlcAccept and DlcSign.
ParseCetAdaptorSignaturesFromJSON ==
  <<FromList("sigs", <<"ecdsaAdaptorSignatures", "ecdsa_adaptor_signatures">>, "AdaptorSig")>>

\* One hexadecimal text holds both parts.
AdaptorSigFromJSON == <<
  From("encryptedSig", <<"signature[0..65]">>, "hex"), From("dleqProof", <<"signature[65..162]">>, "hex") >>

DlcAcceptContainerSerialize == <<VecSized("big", "accepts", "DlcAccept")>>
DlcAcceptContainerDeserialize == <<VecSized("big", "accepts", "DlcAccept")>>

------------------------------------------------------------------------------
(* DlcSign.                                                                  *)
DlcSignSerialize == <<
  Tag("u16", "DlcSign"), Val("version", "protocolVersion"), B32("contractId"),
  Sub("cetAdaptorSignatures", "CetAdaptorSignatures"), B64("refundSignature"),
  Sub("fundingSignatures", "FundingSignatures"),
  Stream(<<TakesAll("BatchFundingGroup", "batchFundingGroups", "BatchFundingGroup")>>) >>

DlcSignDeserialize == <<
  Ignore("u16"), Val("version", "protocolVersion"), B32("contractId"),
  Sub("cetAdaptorSignatures", "CetAdaptorSignatures"), B64("refundSignature"),
  Sub("fundingSignatures", "FundingSignatures"),
  Stream(<<TakesAll("BatchFundingGroup", "batchFundingGroups", "BatchFundingGroup")>>) >>

DlcSignToJSON == <<
  To("protocolVersion", "protocolVersion", "num"), To("contractId", "contractId", "hex"),
  ToObj("cetAdaptorSignatures", "cetAdaptorSignatures", "CetAdaptorSignatures"),
  To("refundSignature", "refundSignature", "hex"),
  ToObj("fundingSignatures", "fundingSignatures", "FundingSignatures") >>

DlcSignFromJSON == <<
  Else(From("protocolVersion", <<"protocolVersion", "protocol_version">>, "num"), Some("protocolVersion", 1)),
  From("contractId", <<"contractId", "contract_id">>, "hex"),
  FromObj("cetAdaptorSignatures", <<"cetAdaptorSignatures", "cet_adaptor_signatures">>, "CetAdaptorSignatures"),
  From("refundSignature", <<"refundSignature", "refund_signature">>, "hex"),
  FromObj("fundingSignatures", <<"fundingSignatures", "funding_signatures">>, "FundingSignatures") >>

\* parseFundingSignaturesFromJSON takes element.witness || element: an empty
\* witness makes Buffer.from throw for the object around it.
ParseFundingSignaturesFromJSON(stack) ==
  <<FromList("witnessElements", <<"fundingSignatures", "funding_signatures">>, stack)>>
WitnessStackFromJSON(witness) ==
  <<FromList("elements", <<"witnessElements", "witness_elements">>, witness)>>
ScriptWitnessV0FromJSON == <<From("witness", <<"witness", "the object itself">>, "hex")>>

DlcSignContainerSerialize == <<VecSized("big", "signs", "DlcSign")>>
DlcSignContainerDeserialize == <<VecSized("big", "signs", "DlcSign")>>

------------------------------------------------------------------------------
(* The signatures.                                                           *)
CetAdaptorSignaturesSerialize == <<VecHere("big", "sigs", "AdaptorSig")>>
CetAdaptorSignaturesDeserialize == <<VecHere("big", "sigs", "AdaptorSig")>>
AdaptorSigSerialize == <<Val("b65", "encryptedSig"), Val("b97", "dleqProof")>>
AdaptorSigDeserialize == <<Val("b65", "encryptedSig"), Val("b97", "dleqProof")>>
CetAdaptorSignaturesToJSON == <<ToList("ecdsaAdaptorSignatures", "sigs", "AdaptorSig")>>
AdaptorSigToJSON == <<To("signature[0..65]", "encryptedSig", "hex"), To("signature[65..162]", "dleqProof", "hex")>>

\* DlcClose parses the JSON of the same classes with a text of its own, hence
\* the parameter.
FundingSignaturesSerialize(stack) == <<VecHere("big", "witnessElements", stack)>>
FundingSignaturesDeserialize(stack) == <<VecHere("big", "witnessElements", stack)>>
WitnessStackSerialize(witness) == <<VecHere("big", "elements", witness)>>
WitnessStackDeserialize(witness) == <<VecHere("big", "elements", witness)>>
FundingSignaturesToJSON(stack) == <<ToList("fundingSignatures", "witnessElements", stack)>>
WitnessStackToJSON(witness) == <<ToList("witnessElements", "elements", witness)>>

ScriptWitnessV0Serialize == <<SBig("witness")>>
ScriptWitnessV0Deserialize == <<SBig("witness")>>
ScriptWitnessV0ToJSON == <<To("witness", "witness", "hexvar")>>

------------------------------------------------------------------------------
(* DlcCancel, DlcIds, DlcInfo.                                               *)
DlcCancelSerialize == <<Tag("u16", "DlcCancel"), B32("contractId"), U8("cancelType")>>
DlcCancelDeserialize == <<Ignore("u16"), B32("contractId"), U8("cancelType")>>

DlcIdsSerialize == <<Tag("u16", "DlcIds"), VecHere("big", "ids", "Bytes32")>>
DlcIdsDeserialize == <<Check("u16", "DlcIds"), VecHere("big", "ids", "Bytes32")>>

DlcInfoSerialize == <<
  Tag("u16", "DlcInfo"), U32("numDlcOffers"), U32("numDlcAccepts"), U32("numDlcSigns"),
  U32("numDlcCancels"), U32("numDlcCloses"), U32("numDlcTransactions") >>
DlcInfoDeserialize == <<
  Check("u16", "DlcInfo"), U32("numDlcOffers"), U32("numDlcAccepts"), U32("numDlcSigns"),
  U32("numDlcCancels"), U32("numDlcCloses"), U32("numDlcTransactions") >>

------------------------------------------------------------------------------
(* DlcClose.                                                                 *)
DlcCloseSerialize == <<
  Tag("u16", "DlcClose"), Val("version", "protocolVersion"), B32("contractId"), B64("closeSignature"),
  U64("offerPayoutSatoshis"), U64("acceptPayoutSatoshis"), U64("fundInputSerialId"),
  Vec("big", "fundingInputs", "FundingInputBody"),
  Sub("fundingSignatures", "CloseFundingSignatures"), Stream(<<>>) >>

DlcCloseDeserialize == <<
  Check("u16", "DlcClose"), Val("version", "protocolVersion"), B32("contractId"), B64("closeSignature"),
  U64("offerPayoutSatoshis"), U64("acceptPayoutSatoshis"), U64("fundInputSerialId"),
  Vec("big", "fundingInputs", "FundingInputBody"),
  Sub("fundingSignatures", "CloseFundingSignatures"), Stream(<<>>) >>

DlcCloseToJSON == <<
  To("protocolVersion", "protocolVersion", "num"), To("contractId", "contractId", "hex"),
  To("closeSignature", "closeSignature", "hex"), To("offerPayoutSatoshis", "offerPayoutSatoshis", "num"),
  To("acceptPayoutSatoshis", "acceptPayoutSatoshis", "num"),
  To("fundInputSerialId", "fundInputSerialId", "num"),
  ToList("fundingInputs", "fundingInputs", "FundingInputBody"),
  ToObj("fundingSignatures", "fundingSignatures", "CloseFundingSignatures") >>

DlcCloseFromJSON == <<
  Else(From("protocolVersion", <<"protocolVersion", "protocol_version">>, "num"), Some("protocolVersion", 1)),
  From("contractId", <<"contractId", "contract_id">>, "hex"),
  From("closeSignature", <<"closeSignature", "close_signature">>, "hex"),
  From("offerPayoutSatoshis", <<"offerPayoutSatoshis", "offer_payout_satoshis">>, "big"),
  From("acceptPayoutSatoshis", <<"acceptPayoutSatoshis", "accept_payout_satoshis">>, "big"),
  From("fundInputSerialId", <<"fundInputSerialId", "fund_input_serial_id">>, "big"),
  FromList("fundingInputs", <<"fundingInputs", "funding_inputs">>, "FundingInputBody"),
  FromObj("fundingSignatures", <<"fundingSignatures", "funding_signatures">>, "CloseFundingSignatures") >>

\* Unlike DlcSign, DlcClose takes elem.witness || '' and so an empty witness.
CloseWitnessFromJSON == <<Else(From("witness", <<"witness">>, "hex"), Zero)>>

------------------------------------------------------------------------------
(* DlcCloseMetadata has a JSON form only.                                    *)
DlcCloseMetadataFields == <<
  B33("offerFundingPubKey"), B33("acceptFundingPubKey"), S16("offerPayoutSPK"), S16("acceptPayoutSPK"),
  U64("offerPayoutSerialId"), U64("acceptPayoutSerialId"), U64("feeRatePerVb"),
  Val("tx16", "fundTx"), U32("fundTxVout") >>

DlcCloseMetadataToJSON == <<
  To("offerFundingPubKey", "offerFundingPubKey", "hex"), To("acceptFundingPubKey", "acceptFundingPubKey", "hex"),
  To("offerPayoutSPK", "offerPayoutSPK", "hexvar"), To("acceptPayoutSPK", "acceptPayoutSPK", "hexvar"),
  To("offerPayoutSerialId", "offerPayoutSerialId", "near"),
  To("acceptPayoutSerialId", "acceptPayoutSerialId", "near"),
  To("feeRatePerVb", "feeRatePerVb", "near"), To("fundTx", "fundTx", "hex"), To("fundTxVout", "fundTxVout", "num") >>

DlcCloseMetadataFromJSON == <<
  From("offerFundingPubKey", <<"offerFundingPubKey">>, "hex"),
  From("acceptFundingPubKey", <<"acceptFundingPubKey">>, "hex"),
  From("offerPayoutSPK", <<"offerPayoutSPK">>, "hex"), From("acceptPayoutSPK", <<"acceptPayoutSPK">>, "hex"),
  From("offerPayoutSerialId", <<"offerPayoutSerialId">>, "big"),
  From("acceptPayoutSerialId", <<"acceptPayoutSerialId">>, "big"),
  From("feeRatePerVb", <<"feeRatePerVb">>, "big"), From("fundTx", <<"fundTx">>, "hex"),
  From("fundTxVout", <<"fundTxVout">>, "num") >>

------------------------------------------------------------------------------
(* DlcTransactions, with parseCets.                                          *)
DlcTransactionsSerialize == <<
  Tag("u16", "DlcTransactions"), B32("contractId"), Val("tx16", "fundTx"), U32("fundTxVout"),
  B32("fundEpochHash"), U32("fundEpochHeight"), U32("fundBroadcastHeight"), Val("tx16", "refundTx"),
  VecHere("big", "cets", "Cet"), B32("closeEpochHash"), U32("closeEpochHeight"), B32("closeTxHash"),
  U8("closeType"), U32("closeBroadcastHeight") >>

DlcTransactionsDeserialize == <<
  Ignore("u16"), B32("contractId"), Val("tx16", "fundTx"), U32("fundTxVout"),
  B32("fundEpochHash"), U32("fundEpochHeight"), U32("fundBroadcastHeight"), Val("tx16", "refundTx"),
  VecHere("big", "cets", "Cet"), B32("closeEpochHash"), U32("closeEpochHeight"), B32("closeTxHash"),
  U8("closeType"), U32("closeBroadcastHeight") >>

Cet == <<Val("tx16", "tx")>>

------------------------------------------------------------------------------
(* FundingInput, as a TLV and bare, and the DLC an input splices in.         *)
FundingInputSerialize == <<
  Tlv("FundingInput", <<
    U64("inputSerialId"), Val("tx16", "prevTx"), U32("prevTxVout"), U32("sequence"),
    U16("maxWitnessLen"), S16("redeemScript"), Opt("dlcInput", "DlcInputBody")>>) >>

FundingInputDeserialize == InAnyTlv \o <<
  U64("inputSerialId"), Val("tx16", "prevTx"), U32("prevTxVout"), U32("sequence"),
  U16("maxWitnessLen"), S16("redeemScript"), OptLenient("dlcInput", "DlcInputBody") >>

FundingInputSerializeBody == <<
  U64("inputSerialId"), Val("txbig", "prevTx"), U32("prevTxVout"), U32("sequence"),
  U16("maxWitnessLen"), S16("redeemScript"), Opt("dlcInput", "DlcInputBody") >>

FundingInputDeserializeBody == <<
  U64("inputSerialId"), Val("txbig", "prevTx"), U32("prevTxVout"), U32("sequence"),
  U16("maxWitnessLen"), S16("redeemScript"), OptLenient("dlcInput", "DlcInputBody") >>

FundingInputToJSON == <<
  To("inputSerialId", "inputSerialId", "num"), To("prevTx", "prevTx", "hex"),
  To("prevTxVout", "prevTxVout", "num"), To("sequence", "sequence", "num"),
  To("maxWitnessLen", "maxWitnessLen", "num"), To("redeemScript", "redeemScript", "hexvar"),
  ToOpt("dlcInput", "dlcInput", "DlcInputBody") >>

\* A sequence of 0 becomes 0xffffffff and a maximum of 0 becomes 108.
FundingInputFromJSON == <<
  From("inputSerialId", <<"inputSerialId", "input_serial_id">>, "big"),
  Else(From("prevTx", <<"prevTx", "prev_tx">>, "hex"), Const("dummy")),
  Else(From("prevTxVout", <<"prevTxVout", "prev_tx_vout">>, "num"), Zero),
  Else(From("sequence", <<"sequence">>, "num"), Const("0xffffffff")),
  Else(From("maxWitnessLen", <<"maxWitnessLen", "max_witness_len">>, "num"), Const("108")),
  Else(From("redeemScript", <<"redeemScript", "redeem_script">>, "hex"), Zero),
  FromOpt("dlcInput", <<"dlcInput", "dlc_input">>, "DlcInputBody") >>

DlcInputSerialize == <<
  Tlv("DlcInput", <<B33("localFundPubkey"), B33("remoteFundPubkey"), B32("contractId")>>) >>
DlcInputDeserialize == InAnyTlv \o <<B33("localFundPubkey"), B33("remoteFundPubkey"), B32("contractId")>>
DlcInputSerializeBody == <<B33("localFundPubkey"), B33("remoteFundPubkey"), B32("contractId")>>
DlcInputDeserializeBody == <<B33("localFundPubkey"), B33("remoteFundPubkey"), B32("contractId")>>
DlcInputToJSON == <<
  To("localFundPubkey", "localFundPubkey", "hex"), To("remoteFundPubkey", "remoteFundPubkey", "hex"),
  To("contractId", "contractId", "hex") >>
DlcInputFromJSON == <<
  From("localFundPubkey", <<"localFundPubkey", "local_fund_pubkey">>, "hex"),
  From("remoteFundPubkey", <<"remoteFundPubkey", "remote_fund_pubkey">>, "hex"),
  From("contractId", <<"contractId", "contract_id">>, "hex") >>

------------------------------------------------------------------------------
(* BatchFundingGroup.                                                        *)
BatchFundingGroupSerialize == <<
  Tlv("BatchFundingGroup", <<
    VecHere("big", "tempContractIds", "SizedId"), VecHere("big", "contractIds", "SizedId"),
    U64("allocatedCollateral"), VecHere("big", "eventIds", "EventIdText")>>) >>

BatchFundingGroupDeserialize == InAnyTlv \o <<
  VecHere("big", "tempContractIds", "SizedId"), VecHere("big", "contractIds", "SizedId"),
  U64("allocatedCollateral"), VecHere("big", "eventIds", "EventIdText") >>

\* The elements of lists of plain values.
Bytes32 == <<B32("bytes")>>
Bytes64 == <<B64("bytes")>>
SizedId == <<SBig("bytes")>>
EventIdText == <<Text("tbig", "text")>>
BytesToJSON == <<To("bytes", "bytes", "hex")>>
BytesFromJSON == <<From("bytes", <<"bytes">>, "hex")>>
TextToJSON == <<To("text", "text", "text")>>
TextFromJSON == <<From("text", <<"text">>, "text")>>
=============================================================================
