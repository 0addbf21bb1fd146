---------------------------- MODULE OrderLayouts ----------------------------
(***************************************************************************)
(* The messages of the order book: orders, what is attached to an offer,   *)
(* and what the IRC transport and the nodes of the order book exchange.    *)
(***************************************************************************)
EXTENDS Layout

(* OrderOffer.                                                               *)
OrderOfferSerialize == <<
  Tag("u16", "OrderOffer"), OrOlderByFlags("protocolVersion", "contractFlags"), B32("chainHash"),
  B32("temporaryContractId"), Sub("contractInfo", "ContractInfo"), U64("offerCollateral"),
  U64("feeRatePerVb"), U32("cetLocktime"), U32("refundLocktime"),
  Stream(<<Takes("OrderMetadataV0", "metadata", "OrderMetadata"),
           Takes("OrderIrcInfoV0", "ircInfo", "OrderIrcInfo"),
           Takes("OrderPositionInfo", "positionInfo", "OrderPositionInfo"),
           TakesAll("BatchFundingGroup", "batchFundingGroups", "BatchFundingGroup")>>) >>

OrderOfferDeserialize == <<
  Check("u16", "OrderOffer"), OrOlderByFlags("protocolVersion", "contractFlags"), B32("chainHash"),
  B32("temporaryContractId"), Sub("contractInfo", "ContractInfo"), U64("offerCollateral"),
  U64("feeRatePerVb"), U32("cetLocktime"), U32("refundLocktime"),
  Stream(<<Takes("OrderMetadataV0", "metadata", "OrderMetadataV0"),
           Takes("OrderIrcInfoV0", "ircInfo", "OrderIrcInfoV0"),
           Takes("OrderPositionInfo", "positionInfo", "OrderPositionInfo"),
           TakesAll("BatchFundingGroup", "batchFundingGroups", "BatchFundingGroup")>>) >>

OrderOfferToJSON == <<
  To("protocolVersion", "protocolVersion", "num"), To("temporaryContractId", "temporaryContractId", "hex"),
  To("contractFlags", "contractFlags", "num"), To("chainHash", "chainHash", "hex"),
  ToObj("contractInfo", "contractInfo", "ContractInfo"), To("offerCollateral", "offerCollateral", "num"),
  To("offerCollateralSatoshis", "offerCollateral", "num"), To("feeRatePerVb", "feeRatePerVb", "num"),
  To("cetLocktime", "cetLocktime", "num"), To("refundLocktime", "refundLocktime", "num") >>

OrderOfferFromJSON == <<
  Else(From("protocolVersion", <<"protocolVersion", "protocol_version">>, "num"), Some("protocolVersion", 1)),
  Else(From("contractFlags", <<"contractFlags", "contract_flags">>, "hex"), Zero),
  From("chainHash", <<"chainHash", "chain_hash">>, "hex"),
  From("temporaryContractId", <<"temporaryContractId", "temporary_contract_id">>, "hex"),
  From("offerCollateral", <<"offerCollateral", "offerCollateralSatoshis", "offer_collateral">>, "big"),
  From("feeRatePerVb", <<"feeRatePerVb", "fee_rate_per_vb">>, "big"),
  Else(From("cetLocktime", <<"cetLocktime", "cet_locktime">>, "num"), Zero),
  Else(From("refundLocktime", <<"refundLocktime", "refund_locktime">>, "num"), Zero),
  FromObj("contractInfo", <<"contractInfo", "contract_info">>, "ContractInfo") >>

OrderOfferContainerSerialize == <<VecSized("big", "offers", "OrderOffer")>>
OrderOfferContainerDeserialize == <<VecSized("big", "offers", "OrderOffer")>>

------------------------------------------------------------------------------
(* OrderAccept and what it negotiates.                                       *)
OrderAcceptSerialize == <<
  Tag("u16", "OrderAccept"), B32("tempOrderId"), Opt("negotiationFields", "OrderNegotiationFields") >>
OrderAcceptDeserialize == <<
  Check("u16", "OrderAccept"), B32("tempOrderId"), FlagSub("negotiationFields", "OrderNegotiationFields") >>
OrderAcceptToJSON == <<
  To("tempOrderId", "tempOrderId", "hex"), ToOpt("negotiationFields", "negotiationFields", "OrderNegotiationFields") >>
\* The negotiation fields stay the JSON object they are.
OrderAcceptFromJSON == <<
  From("tempOrderId", <<"tempOrderId", "temp_order_id">>, "hex"),
  From("negotiationFields", <<"negotiationFields", "negotiation_fields">>, "raw") >>

OrderAcceptContainerSerialize == <<VecSized("big", "accepts", "OrderAccept")>>
OrderAcceptContainerDeserialize == <<VecSized("big", "accepts", "OrderAccept")>>

SingleOrderNegotiationFieldsSerialize == <<Tag("big", "0")>>
SingleOrderNegotiationFieldsDeserialize == <<Ignore("big")>>
SingleOrderNegotiationFieldsToJSON == <<ToType("variant", "Single")>>
SingleOrderNegotiationFieldsFromJSON == <<>>

DisjointOrderNegotiationFieldsSerialize == <<Tag("big", "1"), Sized("big", "orderOffer", "OrderOffer")>>
DisjointOrderNegotiationFieldsDeserialize == <<Ignore("big"), Sized("big", "orderOffer", "OrderOffer")>>
DisjointOrderNegotiationFieldsToJSON ==
  <<ToType("variant", "Disjoint"), ToObj("orderOffer", "orderOffer", "OrderOffer")>>
DisjointOrderNegotiationFieldsFromJSON == <<FromObj("orderOffer", <<"orderOffer">>, "OrderOffer")>>

OrderNegotiationFieldsTypes ==
  [w |-> "big", of |-> <<Case("0", "SingleOrderNegotiationFields"), Case("1", "DisjointOrderNegotiationFields")>>]
OrderNegotiationFieldsVariants ==
  <<Tagged("variant", "Single", "SingleOrderNegotiationFields"),
    Tagged("variant", "Disjoint", "DisjointOrderNegotiationFields")>>

------------------------------------------------------------------------------
(* What an offer carries in its TLVs.                                        *)
OrderMetadataTypes == [w |-> "big", of |-> <<Case("OrderMetadataV0", "OrderMetadataV0")>>]
OrderMetadataSerialize ==
  <<Tlv("OrderMetadataV0", <<Text("tbig", "offerId"), U32("createdAt"), U32("goodTill")>>)>>
OrderMetadataDeserialize == InAnyTlv \o <<Text("tbig", "offerId"), IfMore(<<U32("createdAt"), U32("goodTill")>>)>>
OrderMetadataToJSON == <<
  To("offerId", "offerId", "text"), To("createdAt", "createdAt", "num"), To("goodTill", "goodTill", "num") >>

OrderIrcInfoTypes == [w |-> "big", of |-> <<Case("OrderIrcInfoV0", "OrderIrcInfoV0")>>]
OrderIrcInfoSerialize == <<Tlv("OrderIrcInfoV0", <<Text("tbig", "nick"), B33("pubKey")>>)>>
OrderIrcInfoDeserialize == InAnyTlv \o <<Text("tbig", "nick"), B33("pubKey")>>
OrderIrcInfoToJSON == <<To("nick", "nick", "text"), To("pubKey", "pubKey", "hex")>>

\* Without the name of an instrument only the fees are written.
OrderPositionInfoSerialize ==
  <<Tlv("OrderPositionInfo", <<U8("shiftForFees"), U64("fees"),
        UnlessZero("instrumentName", <<Text("tbig", "instrumentName"), U64("contractSize"), U8("direction"),
                                       U64("price"), U16("extraPrecision")>>)>>)>>
OrderPositionInfoDeserialize == InAnyTlv \o <<
  U8("shiftForFees"), U64("fees"),
  IfMore(<<Text("tbig", "instrumentName"), U64("contractSize"), U8("direction"),
           U64("price"), U16("extraPrecision")>>) >>
OrderPositionInfoToJSON == <<
  To("shiftForFees", "shiftForFees", "num"), To("fees", "fees", "near"),
  To("instrumentName", "instrumentName", "text"), To("direction", "direction", "num"),
  To("price", "price", "near"), To("extraPrecision", "extraPrecision", "num") >>

------------------------------------------------------------------------------
(* IrcMessage: written behind a BigSize, dispatched on a u16.                *)
IrcMessageTypes == [w |-> "u16", of |-> <<Case("IrcMessageV0", "IrcMessageV0")>>]
IrcMessageSerialize ==
  <<Tlv("IrcMessageV0", <<Big("sequenceLength"), Big("sequenceNumber"), U32("checksum"), B64("signature"),
                          B33("pubkey"), U32("timestamp"), S16("data")>>)>>
IrcMessageDeserialize == InAnyTlv \o <<
  Big("sequenceLength"), Big("sequenceNumber"), U32("checksum"), B64("signature"),
  B33("pubkey"), U32("timestamp"), S16("data") >>

(* AddressCache: the count is read over, the entries go on to the end.       *)
AddressCacheSerialize == <<Tag("u16", "AddressCache"), VecHere("big", "cacheSPKs", "SizedScript")>>
AddressCacheDeserialize == <<Ignore("u16"), Ignore("big"), RestHere("cacheSPKs", "SizedScript")>>
SizedScript == <<SBig("script")>>

(* NodeAnnouncementMessage and its addresses.                                *)
NodeAnnouncementMessageSerialize == <<
  Tag("u16", "NodeAnnouncement"), B64("signature"), S16("features"), U32("timestamp"), B33("nodeId"),
  Val("b3", "rgbColor"), B32("alias"), Lengthy("u16", "addresses", "Address") >>
NodeAnnouncementMessageDeserialize == <<
  Ignore("u16"), B64("signature"), S16("features"), U32("timestamp"), B33("nodeId"),
  Val("b3", "rgbColor"), B32("alias"), Ignore("u16"), RestTlv("addresses", "Address") >>

AddressSerialize == <<Tlv("NodeAnnouncementAddress", <<Text("tbig", "host"), U16("port")>>)>>
AddressDeserialize == InAnyTlv \o <<Text("tbig", "host"), U16("port")>>

(* The classes DlcMessage.deserialize knows, by the u16 at the front.        *)
DlcMessageTypes == [w |-> "u16", of |-> <<
  Case("ContractDescriptorV0", "EnumeratedDescriptor"), Case("ContractDescriptorV1", "NumericalDescriptor"),
  Case("SingleContractInfo", "SingleContractInfo"), Case("DisjointContractInfo", "DisjointContractInfo"),
  Case("OrderOffer", "OrderOffer"), Case("OrderAccept", "OrderAccept"), Case("DlcOffer", "DlcOffer"),
  Case("DlcAccept", "DlcAccept"), Case("DlcSign", "DlcSign"), Case("DlcClose", "DlcClose"),
  Case("OracleAttestation", "OracleAttestation"), Case("OracleAnnouncement", "OracleAnnouncement"),
  Case("NodeAnnouncement", "NodeAnnouncementMessage")>>]
=============================================================================
