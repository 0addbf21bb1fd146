--------------------------- MODULE MCDlcMessages ---------------------------
(***************************************************************************)
(* The classes by name, and the messages the model checker makes of them.  *)
(* A message is made in a style: what its scalars hold, how long its lists *)
(* are (an optional part is there when they are not empty), which classes  *)
(* its parts are of and which of its fields differ from the others.        *)
(***************************************************************************)
EXTENDS DlcMessages, DlcLayouts, ContractLayouts, OracleLayouts, OrderLayouts, WireLayouts

AllWrites == [
  AcceptChannel |-> AcceptChannelSerialize, AdaptorSig |-> AdaptorSigSerialize, Address |-> AddressSerialize,
  AddressCache |-> AddressCacheSerialize, AddressIPv4 |-> AddressIPv4Serialize,
  AddressIPv6 |-> AddressIPv6Serialize, AddressTor2 |-> AddressTor2Serialize, AddressTor3 |-> AddressTor3Serialize,
  AnnouncementSignatures |-> AnnouncementSignaturesSerialize, BatchFundingGroup |-> BatchFundingGroupSerialize,
  Bytes32 |-> Bytes32, Bytes64 |-> Bytes64, Cet |-> Cet,
  CetAdaptorSignatures |-> CetAdaptorSignaturesSerialize, ChannelAnnouncement |-> ChannelAnnouncementSerialize,
  ChannelCapacity |-> ChannelCapacitySerialize, ChannelOutpoint |-> ChannelOutpointSerialize,
  ChannelUpdate |-> ChannelUpdateSerialize,
  CloseFundingSignatures |-> FundingSignaturesSerialize("CloseWitnessStack"),
  CloseWitness |-> ScriptWitnessV0Serialize, CloseWitnessStack |-> WitnessStackSerialize("CloseWitness"),
  ClosingSigned |-> ClosingSignedSerialize, ContractOraclePair |-> ContractOraclePair, CurvePoint |-> CurvePoint,
  DigitDecompositionEventDescriptor |-> DigitDecompositionEventDescriptorSerialize,
  DisjointContractInfo |-> DisjointContractInfoSerialize,
  DisjointNegotiationFields |-> DisjointNegotiationFieldsSerialize,
  DisjointOrderNegotiationFields |-> DisjointOrderNegotiationFieldsSerialize, DlcAccept |-> DlcAcceptSerialize,
  DlcAcceptContainer |-> DlcAcceptContainerSerialize, DlcCancel |-> DlcCancelSerialize,
  DlcClose |-> DlcCloseSerialize, DlcCloseMetadata |-> DlcCloseMetadataFields, DlcIds |-> DlcIdsSerialize,
  DlcInfo |-> DlcInfoSerialize, DlcInput |-> DlcInputSerialize, DlcInputBody |-> DlcInputSerializeBody,
  DlcOffer |-> DlcOfferSerialize, DlcOfferContainer |-> DlcOfferContainerSerialize, DlcSign |-> DlcSignSerialize,
  DlcSignContainer |-> DlcSignContainerSerialize, DlcTransactions |-> DlcTransactionsSerialize,
  EnumEventDescriptor |-> EnumEventDescriptorSerialize, EnumeratedDescriptor |-> EnumeratedDescriptorSerialize,
  Error |-> ErrorSerialize, EventIdText |-> EventIdText,
  ExtendedChannelAnnouncement |-> ExtendedChannelAnnouncementSerialize, FundingCreated |-> FundingCreatedSerialize,
  FundingInput |-> FundingInputSerialize, FundingInputBody |-> FundingInputSerializeBody,
  FundingLocked |-> FundingLockedSerialize, FundingSignatures |-> FundingSignaturesSerialize("WitnessStack"),
  FundingSigned |-> FundingSignedSerialize, GossipTimestampFilter |-> GossipTimestampFilterSerialize,
  HyperbolaPayoutCurvePiece |-> HyperbolaPayoutCurvePieceSerialize, Init |-> InitSerialize,
  InitNetworks |-> InitNetworksSerialize, Interval |-> Interval, IrcMessageV0 |-> IrcMessageSerialize,
  LightningNodeAnnouncement |-> LightningNodeAnnouncementSerialize,
  MultiOracleInContract |-> MultiOracleInfoSerializeBody, MultiOracleInfo |-> MultiOracleInfoSerialize,
  NodeAddresses |-> NodeAddressesSerialize, NodeAnnouncementMessage |-> NodeAnnouncementMessageSerialize,
  NumericalDescriptor |-> NumericalDescriptorSerialize, OpenChannel |-> OpenChannelSerialize,
  OracleAnnouncement |-> OracleAnnouncementSerialize, OracleAttestation |-> OracleAttestationSerialize,
  OracleEvent |-> OracleEventSerialize, OracleEventContainer |-> OracleEventContainerSerialize,
  OracleIdentifier |-> OracleIdentifierSerialize, OracleParamsBody |-> OracleParamsSerializeBody,
  OracleParamsV0 |-> OracleParamsSerialize, OrderAccept |-> OrderAcceptSerialize,
  OrderAcceptContainer |-> OrderAcceptContainerSerialize, OrderIrcInfoV0 |-> OrderIrcInfoSerialize,
  OrderMetadataV0 |-> OrderMetadataSerialize, OrderOffer |-> OrderOfferSerialize,
  OrderOfferContainer |-> OrderOfferContainerSerialize, OrderPositionInfo |-> OrderPositionInfoSerialize,
  Outcome |-> OutcomeSerialize, OutcomeText |-> OutcomeText, PayoutFunction |-> PayoutFunctionSerialize,
  PayoutFunctionPiece |-> PayoutFunctionPiece, PayoutPoint |-> PayoutPoint, Ping |-> PingSerialize,
  PolynomialPayoutCurvePiece |-> PolynomialPayoutCurvePieceSerialize, Pong |-> PongSerialize,
  QueryChannelRange |-> QueryChannelRangeSerialize, QueryFlags |-> QueryFlagsSerialize,
  QueryShortChannelIds |-> QueryShortChannelIdsSerialize, RangeOptions |-> RangeOptionsSerialize,
  RawScids |-> RawScidsSerialize, ReplyChannelRange |-> ReplyChannelRangeSerialize,
  ReplyChecksums |-> ReplyChecksumsSerialize, ReplyShortChannelIdsEnd |-> ReplyShortChannelIdsEndSerialize,
  ReplyTimestamps |-> ReplyTimestampsSerialize, RoundingIntervals |-> RoundingIntervalsSerialize,
  ScidBytes |-> ScidBytes, ScidFlags |-> ScidFlagsSerialize, ScriptWitnessV0 |-> ScriptWitnessV0Serialize,
  Shutdown |-> ShutdownSerialize, SingleContractInfo |-> SingleContractInfoSerialize,
  SingleNegotiationFields |-> SingleNegotiationFieldsSerialize,
  SingleOracleInContract |-> SingleOracleInfoSerializeBody, SingleOracleInfo |-> SingleOracleInfoSerialize,
  SingleOrderNegotiationFields |-> SingleOrderNegotiationFieldsSerialize, SizedId |-> SizedId,
  SizedScript |-> SizedScript, UpdatePair |-> UpdatePair, UpfrontShutdownScript |-> UpfrontShutdownScriptSerialize,
  WitnessStack |-> WitnessStackSerialize("ScriptWitnessV0"), ZlibScids |-> ZlibScidsSerialize]

AllReads == [
  AcceptChannel |-> AcceptChannelDeserialize, AdaptorSig |-> AdaptorSigDeserialize, Address |-> AddressDeserialize,
  AddressCache |-> AddressCacheDeserialize, AddressIPv4 |-> AddressIPv4Deserialize,
  AddressIPv6 |-> AddressIPv6Deserialize, AddressTor2 |-> AddressTor2Deserialize,
  AddressTor3 |-> AddressTor3Deserialize, AnnouncementSignatures |-> AnnouncementSignaturesDeserialize,
  BatchFundingGroup |-> BatchFundingGroupDeserialize, Bytes32 |-> Bytes32, Bytes64 |-> Bytes64,
  Cet |-> Cet, CetAdaptorSignatures |-> CetAdaptorSignaturesDeserialize,
  ChannelAnnouncement |-> ChannelAnnouncementDeserialize, ChannelCapacity |-> ChannelCapacityDeserialize,
  ChannelOutpoint |-> ChannelOutpointDeserialize, ChannelUpdate |-> ChannelUpdateDeserialize,
  CloseFundingSignatures |-> FundingSignaturesDeserialize("CloseWitnessStack"),
  CloseWitness |-> ScriptWitnessV0Deserialize, CloseWitnessStack |-> WitnessStackDeserialize("CloseWitness"),
  ClosingSigned |-> ClosingSignedDeserialize, ContractOraclePair |-> ContractOraclePair, CurvePoint |-> CurvePoint,
  DigitDecompositionEventDescriptor |-> DigitDecompositionEventDescriptorDeserialize,
  DisjointContractInfo |-> DisjointContractInfoDeserialize,
  DisjointNegotiationFields |-> DisjointNegotiationFieldsDeserialize,
  DisjointOrderNegotiationFields |-> DisjointOrderNegotiationFieldsDeserialize, DlcAccept |-> DlcAcceptDeserialize,
  DlcAcceptContainer |-> DlcAcceptContainerDeserialize, DlcCancel |-> DlcCancelDeserialize,
  DlcClose |-> DlcCloseDeserialize, DlcCloseMetadata |-> DlcCloseMetadataFields, DlcIds |-> DlcIdsDeserialize,
  DlcInfo |-> DlcInfoDeserialize, DlcInput |-> DlcInputDeserialize, DlcInputBody |-> DlcInputDeserializeBody,
  DlcOffer |-> DlcOfferDeserialize, DlcOfferContainer |-> DlcOfferContainerDeserialize,
  DlcSign |-> DlcSignDeserialize, DlcSignContainer |-> DlcSignContainerDeserialize,
  DlcTransactions |-> DlcTransactionsDeserialize, EnumEventDescriptor |-> EnumEventDescriptorDeserialize,
  EnumeratedDescriptor |-> EnumeratedDescriptorDeserialize, Error |-> ErrorDeserialize, EventIdText |-> EventIdText,
  ExtendedChannelAnnouncement |-> ExtendedChannelAnnouncementDeserialize,
  FundingCreated |-> FundingCreatedDeserialize, FundingInput |-> FundingInputDeserialize,
  FundingInputBody |-> FundingInputDeserializeBody, FundingLocked |-> FundingLockedDeserialize,
  FundingSignatures |-> FundingSignaturesDeserialize("WitnessStack"), FundingSigned |-> FundingSignedDeserialize,
  GossipTimestampFilter |-> GossipTimestampFilterDeserialize,
  HyperbolaPayoutCurvePiece |-> HyperbolaPayoutCurvePieceDeserialize, Init |-> InitDeserialize,
  InitNetworks |-> InitNetworksDeserialize, Interval |-> Interval, IrcMessageV0 |-> IrcMessageDeserialize,
  LightningNodeAnnouncement |-> LightningNodeAnnouncementDeserialize,
  MultiOracleInContract |-> MultiOracleInfoDeserializeBody, MultiOracleInfo |-> MultiOracleInfoDeserialize,
  NodeAddresses |-> NodeAddressesDeserialize, NodeAnnouncementMessage |-> NodeAnnouncementMessageDeserialize,
  NumericalDescriptor |-> NumericalDescriptorDeserialize, OpenChannel |-> OpenChannelDeserialize,
  OracleAnnouncement |-> OracleAnnouncementDeserialize, OracleAttestation |-> OracleAttestationDeserialize,
  OracleEvent |-> OracleEventDeserialize, OracleEventContainer |-> OracleEventContainerDeserialize,
  OracleIdentifier |-> OracleIdentifierDeserialize, OracleParamsBody |-> OracleParamsDeserializeBody,
  OracleParamsV0 |-> OracleParamsDeserialize, OrderAccept |-> OrderAcceptDeserialize,
  OrderAcceptContainer |-> OrderAcceptContainerDeserialize, OrderIrcInfoV0 |-> OrderIrcInfoDeserialize,
  OrderMetadataV0 |-> OrderMetadataDeserialize, OrderOffer |-> OrderOfferDeserialize,
  OrderOfferContainer |-> OrderOfferContainerDeserialize, OrderPositionInfo |-> OrderPositionInfoDeserialize,
  Outcome |-> OutcomeDeserialize, OutcomeText |-> OutcomeText, PayoutFunction |-> PayoutFunctionDeserialize,
  PayoutFunctionPiece |-> PayoutFunctionPiece, PayoutPoint |-> PayoutPoint, Ping |-> PingDeserialize,
  PolynomialPayoutCurvePiece |-> PolynomialPayoutCurvePieceDeserialize, Pong |-> PongDeserialize,
  QueryChannelRange |-> QueryChannelRangeDeserialize, QueryFlags |-> QueryFlagsDeserialize,
  QueryShortChannelIds |-> QueryShortChannelIdsDeserialize, RangeOptions |-> RangeOptionsDeserialize,
  RawScids |-> EncodedScidsDeserialize, ReplyChannelRange |-> ReplyChannelRangeDeserialize,
  ReplyChecksums |-> ReplyChecksumsDeserialize, ReplyShortChannelIdsEnd |-> ReplyShortChannelIdsEndDeserialize,
  ReplyTimestamps |-> ReplyTimestampsDeserialize, RoundingIntervals |-> RoundingIntervalsDeserialize,
  ScidBytes |-> ScidBytes, ScidFlags |-> ScidFlagsDeserialize, ScriptWitnessV0 |-> ScriptWitnessV0Deserialize,
  Shutdown |-> ShutdownDeserialize, SingleContractInfo |-> SingleContractInfoDeserialize,
  SingleNegotiationFields |-> SingleNegotiationFieldsDeserialize,
  SingleOracleInContract |-> SingleOracleInfoDeserializeBody, SingleOracleInfo |-> SingleOracleInfoDeserialize,
  SingleOrderNegotiationFields |-> SingleOrderNegotiationFieldsDeserialize, SizedId |-> SizedId,
  SizedScript |-> SizedScript, UpdatePair |-> UpdatePair,
  UpfrontShutdownScript |-> UpfrontShutdownScriptDeserialize,
  WitnessStack |-> WitnessStackDeserialize("ScriptWitnessV0"), ZlibScids |-> EncodedScidsDeserialize]

AllToJson == [
  AdaptorSig |-> AdaptorSigToJSON, Bytes32 |-> BytesToJSON, Bytes64 |-> BytesToJSON,
  CetAdaptorSignatures |-> CetAdaptorSignaturesToJSON,
  CloseFundingSignatures |-> FundingSignaturesToJSON("CloseWitnessStack"), CloseWitness |-> ScriptWitnessV0ToJSON,
  CloseWitnessStack |-> WitnessStackToJSON("CloseWitness"), ContractOraclePair |-> ContractOraclePairToJSON,
  CurvePoint |-> PayoutPointToJSON, DigitDecompositionEventDescriptor |-> DigitDecompositionEventDescriptorToJSON,
  DisjointContractInfo |-> DisjointContractInfoToJSON,
  DisjointNegotiationFields |-> DisjointNegotiationFieldsToJSON,
  DisjointOrderNegotiationFields |-> DisjointOrderNegotiationFieldsToJSON, DlcAccept |-> DlcAcceptToJSON,
  DlcClose |-> DlcCloseToJSON, DlcCloseMetadata |-> DlcCloseMetadataToJSON, DlcInput |-> DlcInputToJSON,
  DlcInputBody |-> DlcInputToJSON, DlcOffer |-> DlcOfferToJSON, DlcSign |-> DlcSignToJSON,
  EnumEventDescriptor |-> EnumEventDescriptorToJSON, EnumeratedDescriptor |-> EnumeratedDescriptorToJSON,
  FundingInput |-> FundingInputToJSON, FundingInputBody |-> FundingInputToJSON,
  FundingSignatures |-> FundingSignaturesToJSON("WitnessStack"),
  HyperbolaPayoutCurvePiece |-> HyperbolaPayoutCurvePieceToJSON, Interval |-> IntervalToJSON,
  MultiOracleInContract |-> MultiOracleInfoToJSON, MultiOracleInfo |-> MultiOracleInfoToJSON,
  NumericalDescriptor |-> NumericalDescriptorToJSON, OracleAnnouncement |-> OracleAnnouncementToJSON,
  OracleAttestation |-> OracleAttestationToJSON, OracleEvent |-> OracleEventToJSON,
  OracleIdentifier |-> OracleIdentifierToJSON, OracleParamsBody |-> OracleParamsToJSON,
  OracleParamsV0 |-> OracleParamsToJSON, OrderAccept |-> OrderAcceptToJSON, OrderIrcInfoV0 |-> OrderIrcInfoToJSON,
  OrderMetadataV0 |-> OrderMetadataToJSON, OrderOffer |-> OrderOfferToJSON,
  OrderPositionInfo |-> OrderPositionInfoToJSON, Outcome |-> OutcomeToJSON, OutcomeText |-> TextToJSON,
  PayoutFunction |-> PayoutFunctionToJSON, PayoutFunctionPiece |-> PayoutFunctionPieceToJSON,
  PayoutPoint |-> PayoutPointToJSON, PolynomialPayoutCurvePiece |-> PolynomialPayoutCurvePieceToJSON,
  RoundingIntervals |-> RoundingIntervalsToJSON, ScriptWitnessV0 |-> ScriptWitnessV0ToJSON,
  SingleContractInfo |-> SingleContractInfoToJSON, SingleNegotiationFields |-> SingleNegotiationFieldsToJSON,
  SingleOracleInContract |-> SingleOracleInfoToJSON, SingleOracleInfo |-> SingleOracleInfoToJSON,
  SingleOrderNegotiationFields |-> SingleOrderNegotiationFieldsToJSON,
  WitnessStack |-> WitnessStackToJSON("ScriptWitnessV0")]

AllFromJson == [
  AdaptorSig |-> AdaptorSigFromJSON, Bytes32 |-> BytesFromJSON, Bytes64 |-> BytesFromJSON,
  CetAdaptorSignatures |-> ParseCetAdaptorSignaturesFromJSON,
  CloseFundingSignatures |-> ParseFundingSignaturesFromJSON("CloseWitnessStack"),
  CloseWitness |-> CloseWitnessFromJSON, CloseWitnessStack |-> WitnessStackFromJSON("CloseWitness"),
  ContractOraclePair |-> ContractOraclePairFromJSON, CurvePoint |-> CurvePointFromJSON,
  DigitDecompositionEventDescriptor |-> DigitDecompositionEventDescriptorFromJSON,
  DisjointContractInfo |-> DisjointContractInfoFromJSON,
  DisjointNegotiationFields |-> DisjointNegotiationFieldsFromJSON,
  DisjointOrderNegotiationFields |-> DisjointOrderNegotiationFieldsFromJSON, DlcAccept |-> DlcAcceptFromJSON,
  DlcClose |-> DlcCloseFromJSON, DlcCloseMetadata |-> DlcCloseMetadataFromJSON, DlcInput |-> DlcInputFromJSON,
  DlcInputBody |-> DlcInputFromJSON, DlcOffer |-> DlcOfferFromJSON, DlcSign |-> DlcSignFromJSON,
  EnumEventDescriptor |-> EnumEventDescriptorFromJSON, EnumeratedDescriptor |-> EnumeratedDescriptorFromJSON,
  FundingInput |-> FundingInputFromJSON, FundingInputBody |-> FundingInputFromJSON,
  FundingSignatures |-> ParseFundingSignaturesFromJSON("WitnessStack"),
  HyperbolaPayoutCurvePiece |-> HyperbolaPayoutCurvePieceFromJSON, Interval |-> IntervalFromJSON,
  MultiOracleInContract |-> MultiOracleInfoFromJSON, MultiOracleInfo |-> MultiOracleInfoFromJSON,
  NumericalDescriptor |-> NumericalDescriptorFromJSON, OracleAnnouncement |-> OracleAnnouncementFromJSON,
  OracleAttestation |-> OracleAttestationFromJSON, OracleEvent |-> OracleEventFromJSON,
  OracleParamsBody |-> OracleParamsFromJSON, OracleParamsV0 |-> OracleParamsFromJSON,
  OrderAccept |-> OrderAcceptFromJSON, OrderOffer |-> OrderOfferFromJSON, Outcome |-> OutcomeFromJSON,
  OutcomeText |-> TextFromJSON, PayoutFunction |-> PayoutFunctionFromJSON,
  PayoutFunctionPiece |-> PayoutFunctionPieceFromJSON, PayoutPoint |-> PayoutPointFromJSON,
  PolynomialPayoutCurvePiece |-> PolynomialPayoutCurvePieceFromJSON,
  RoundingIntervals |-> RoundingIntervalsFromJSON, ScriptWitnessV0 |-> ScriptWitnessV0FromJSON,
  SingleContractInfo |-> SingleContractInfoFromJSON, SingleNegotiationFields |-> SingleNegotiationFieldsFromJSON,
  SingleOracleInContract |-> SingleOracleInfoFromJSON, SingleOracleInfo |-> SingleOracleInfoFromJSON,
  SingleOrderNegotiationFields |-> SingleOrderNegotiationFieldsFromJSON,
  WitnessStack |-> WitnessStackFromJSON("ScriptWitnessV0")]

AllFamily == [
  ContractInfo |-> ContractInfoTypes, ContractDescriptor |-> ContractDescriptorTypes,
  PayoutCurvePiece |-> PayoutCurvePieceTypes, NegotiationFields |-> NegotiationFieldsTypes,
  NestedNegotiationFields |-> NestedNegotiationFieldsTypes, OracleInfo |-> OracleInfoTypes,
  OracleInContract |-> OracleInContractTypes, EventDescriptor |-> EventDescriptorTypes,
  OrderNegotiationFields |-> OrderNegotiationFieldsTypes, OrderMetadata |-> OrderMetadataTypes,
  OrderIrcInfo |-> OrderIrcInfoTypes, IrcMessage |-> IrcMessageTypes, DlcMessage |-> DlcMessageTypes,
  NodeAddress |-> NodeAddressTypes, EncodedScids |-> EncodedScidsTypes, MessageFactory |-> MessageFactoryTypes]

AllJsonFamily == [
  ContractInfo |-> ContractInfoKeys, ContractDescriptor |-> ContractDescriptorKeys,
  PayoutCurvePiece |-> PayoutCurvePieceKeys, NegotiationFields |-> NegotiationFieldsVariants,
  OracleInfo |-> OracleInfoKeys("SingleOracleInfo", "MultiOracleInfo"),
  OracleInContract |-> OracleInfoKeys("SingleOracleInContract", "MultiOracleInContract"),
  EventDescriptor |-> EventDescriptorKeys, OrderNegotiationFields |-> OrderNegotiationFieldsVariants]

AllFactories == {"DlcMessage", "MessageFactory", "IrcMessage", "ContractInfo", "ContractDescriptor", "OracleInfo",
                 "EventDescriptor", "NegotiationFields", "OrderMetadata", "OrderIrcInfo"}

------------------------------------------------------------------------------
(* The messages.  differ maps a field to what it holds whatever the others   *)
(* do; a list or an optional part that differs is left out.                  *)
Style(num, count, pick, differ) == [num |-> num, count |-> count, pick |-> pick, differ |-> differ]

Zeroable == {"u8", "u16", "u32", "u64", "big", "b1", "s16", "sbig", "f64", "text", "tu16", "tu64", "all", "bit"}
Oddable == {"u64", "text", "bit"}

Holds(f, st) == IF f \in DOMAIN st.differ THEN st.differ[f] ELSE st.num

Scalar(w, f, i, st) ==
  CASE Holds(f, st) = "zero" /\ w \in Zeroable -> Zero
    [] Holds(f, st) = "odd" /\ w \in Oddable -> Odd(f, i)
    [] Holds(f, st) = "long" /\ w = "text" -> Long(f, i)
    [] OTHER -> Some(f, i)

\* The digit of pick that chooses among the classes of a family.
Digit == [ContractInfo |-> 1, ContractDescriptor |-> 2, PayoutCurvePiece |-> 4, OracleInContract |-> 8,
          EventDescriptor |-> 16, NodeAddress |-> 1, EncodedScids |-> 1, NegotiationFields |-> 1,
          OrderNegotiationFields |-> 1]
ClassOf(k, i, st) ==
  IF k \notin DOMAIN AllFamily THEN k
  ELSE LET of == AllFamily[k].of
           d  == IF k \in DOMAIN Digit THEN Digit[k] ELSE 1
       IN of[1 + (((st.pick \div d) + i) % Len(of))].k

\* What a list is made of: disjoint fields hold single ones, but see Deep.
ElementOf(k) == IF k = "NegotiationFields" THEN "SingleNegotiationFields" ELSE k

RECURSIVE Make(_, _, _), FieldsOf(_, _, _)
List(f, k, st) == IF f \in DOMAIN st.differ THEN <<>> ELSE [j \in 1..st.count |-> Make(ElementOf(k), j, st)]
Maybe(f, k, st) == IF f \in DOMAIN st.differ \/ st.count = 0 THEN <<>> ELSE <<Make(k, 1, st)>>

FieldsOf(it, i, st) ==
  CASE it.op = "val" -> it.f :> Scalar(it.w, it.f, i, st)
    [] it.op = "bit" -> it.f :> Scalar("bit", it.f, i, st)
    [] it.op = "text" -> it.f :> Scalar("text", it.f, i, st)
    [] it.op = "older" -> it.f :> Some(it.f, 1)
    [] it.op = "byflags" -> (it.f :> Some(it.f, 1)) @@ (it.flags :> Scalar("b1", it.flags, i, st))
    [] it.op \in {"sub", "sized"} -> it.f :> Make(it.k, i, st)
    [] it.op \in {"vec", "rest", "lengthy"} -> it.f :> List(it.f, it.k, st)
    [] it.op = "opt" -> it.f :> Maybe(it.f, it.k, st)
    [] it.op \in {"stream", "bolt1"} ->
         FoldLeft(LAMBDA r, e : (e.f :> IF e.many THEN List(e.f, e.k, st) ELSE Maybe(e.f, e.k, st)) @@ r,
                  IF it.op = "stream" THEN "unknownTlvs" :> <<>> ELSE <<>>, it.known)
    [] OTHER -> <<>>

Make(k, i, st) ==
  LET class == ClassOf(k, i, st)
  IN FoldLeft(LAMBDA r, it : FieldsOf(it, i, st) @@ r, "kind" :> class, Leaves(AllWrites[class]))

\* The classes that are not a part of another one's serialize.
Classes == DOMAIN AllWrites \ {
  "AdaptorSig", "Bytes32", "Bytes64", "Cet", "CurvePoint", "ContractOraclePair", "EventIdText", "Interval",
  "Outcome", "OutcomeText", "PayoutFunctionPiece", "PayoutPoint", "SizedId", "SizedScript", "UpdatePair",
  "UpfrontShutdownScript", "InitNetworks", "ChannelOutpoint", "ChannelCapacity", "NodeAddresses", "RangeOptions",
  "QueryFlags", "ScidFlags", "ScidBytes", "ReplyTimestamps", "ReplyChecksums", "CloseWitness", "CloseWitnessStack",
  "CloseFundingSignatures", "WitnessStack"}

Large == {"DlcOfferContainer", "OrderOfferContainer", "OrderAcceptContainer", "DlcAcceptContainer", "DlcSignContainer",
          "OrderAccept", "DisjointOrderNegotiationFields"}
Picks(k) == IF k \in Large THEN {9} ELSE {0, 6, 9, 21, 28, 31}
Counts(k) == IF k \in Large THEN {0, 1} ELSE {0, 1, 2}

\* All alike: everything set, zero or odd.
Uniform(k) == {Style(num, count, pick, <<>>) : <<num, count, pick>> \in {"some", "zero", "odd"} \X Counts(k) \X Picks(k)}

\* The messages the parties exchange have no contract flags, and an acceptance
\* mostly negotiates nothing.
Plain == "contractFlags" :> "zero"
Agreed == Plain @@ ("negotiationFields" :> "none")
Bare == Agreed @@ [f \in {"metadata", "ircInfo", "positionInfo", "batchFundingGroups"} |-> "none"]
Ordinary(k) ==
  {Style(num, count, pick, differ) :
     <<num, count, pick, differ>> \in {"some", "odd"} \X (Counts(k) \ {0}) \X Picks(k) \X {Plain, Agreed, Bare}}

\* An ordinary message one field of which is zero, odd, long or not there.
KnownTlvs(it) == IF it.op \in {"stream", "bolt1"} THEN {e.f : e \in Range(it.known)} ELSE {}
MayLack(it) == IF it.op \in {"vec", "rest", "lengthy", "opt"} THEN {it.f} ELSE KnownTlvs(it)
Differences(it) ==
  IF it.op \in {"val", "bit", "text"}
  THEN {it.f :> how : how \in {"zero", "odd"} \union IF it.op = "text" THEN {"long"} ELSE {}}
  ELSE {f :> "none" : f \in MayLack(it)}
Varied(k) ==
  {Style("some", 1, 9, d @@ Agreed) : d \in UNION {Differences(it) : it \in Range(Leaves(AllWrites[k]))}}

\* Disjoint fields of which one is disjoint again.
Deep == LET fields == Make("DisjointNegotiationFields", 1, Style("some", 1, 0, <<>>))
        IN [fields EXCEPT !.negotiationFields = <<fields>>]

AllOrigins == {Deep} \union UNION {{Make(k, 1, st) : st \in Uniform(k) \union Ordinary(k) \union Varied(k)} : k \in Classes}

------------------------------------------------------------------------------
(* What is excused does not hide a class or a field: each of them is set in  *)
(* a message that comes through whole, but for these, which never do.        *)
SetBy(m, it) ==
  CASE it.op \in {"val", "bit", "text", "older"} -> IF m[it.f] = Zero THEN {} ELSE {it.f}
    [] it.op = "byflags" -> {it.f} \union IF m[it.flags] = Zero THEN {} ELSE {it.flags}
    [] it.op \in {"sub", "sized"} -> {it.f}
    [] OTHER -> {f \in MayLack(it) : m[f] # <<>>}
FieldsSet(origins) ==
  UNION {{<<m.kind, f>> : f \in UNION {SetBy(m, it) : it \in Range(Leaves(AllWrites[m.kind]))}} : m \in origins}

OnlyLost(forms, classes) ==
  LET of == {m \in AllOrigins : m.kind \in classes}
  IN FieldsSet(of) \ FieldsSet({m \in of : ~LosesIn(m, forms)})

NeverInBytes ==
  {<<"DlcAccept", "negotiationFields">>, <<"MultiOracleInfo", "threshold">>, <<"MultiOracleInfo", "announcements">>,
   <<"MultiOracleInfo", "oracleParams">>, <<"OrderOffer", "contractFlags">>}
NeverInJson ==
  {<<"DlcOffer", "contractFlags">>, <<"OrderOffer", "contractFlags">>, <<"OrderAccept", "negotiationFields">>}

ASSUME EveryFieldMet ==
  LET jsonClasses == DOMAIN AllToJson \intersect DOMAIN AllFromJson IN
  /\ OnlyLost({"bytes"}, DOMAIN AllReads) = NeverInBytes
  /\ OnlyLost({"json"}, jsonClasses) = NeverInJson
  /\ OnlyLost({"bytes", "json"}, jsonClasses) = {x \in NeverInBytes : x[1] \in jsonClasses} \union NeverInJson
=============================================================================
