--------------------------- MODULE OracleLayouts ---------------------------
(***************************************************************************)
(* What the oracles say: oracle info, announcements, events, descriptors   *)
(* and attestations.                                                       *)
(***************************************************************************)
EXTENDS Layout

(* OracleInfo: as a TLV, and without type and length inside a contract,      *)
(* where ContractInfo puts 0 or 1 in front.                                  *)
OracleParamsSerialize ==
  <<Tlv("OracleParamsV0", <<U16("maxErrorExp"), U16("minFailExp"), U8("maximizeCoverage")>>)>>
OracleParamsDeserialize == InAnyTlv \o <<U16("maxErrorExp"), U16("minFailExp"), U8("maximizeCoverage")>>
OracleParamsSerializeBody == <<U16("maxErrorExp"), U16("minFailExp"), U8("maximizeCoverage")>>
OracleParamsDeserializeBody == <<U16("maxErrorExp"), U16("minFailExp"), U8("maximizeCoverage")>>
OracleParamsToJSON == <<
  To("maxErrorExp", "maxErrorExp", "num"), To("minFailExp", "minFailExp", "num"),
  To("maximizeCoverage", "maximizeCoverage", "num") >>
OracleParamsFromJSON == <<
  Else(From("maxErrorExp", <<"maxErrorExp", "max_error_exp">>, "num"), Zero),
  Else(From("minFailExp", <<"minFailExp", "min_fail_exp">>, "num"), Zero),
  Else(From("maximizeCoverage", <<"maximizeCoverage", "maximize_coverage">>, "num"), Zero) >>

SingleOracleInfoSerialize == <<Tlv("SingleOracleInfo", <<Sub("announcement", "OracleAnnouncement")>>)>>
SingleOracleInfoDeserialize == <<Ignore("big"), Sized("big", "announcement", "OracleAnnouncement")>>
SingleOracleInfoSerializeBody == <<Tag("big", "0"), Sub("announcement", "OracleAnnouncement")>>
SingleOracleInfoDeserializeBody == <<Ignore("big"), Sub("announcement", "OracleAnnouncement")>>
SingleOracleInfoToJSON ==
  <<ToUnder("single", <<ToObj("oracleAnnouncement", "announcement", "OracleAnnouncement")>>)>>
SingleOracleInfoFromJSON ==
  <<FromObj("announcement", <<"announcement", "oracleAnnouncement">>, "OracleAnnouncement")>>

\* serialize() leaves out the type and the length that deserialize() reads.
MultiOracleInfoSerialize == <<
  U16("threshold"), VecTlv("big", "announcements", "OracleAnnouncement"), Opt("oracleParams", "OracleParamsBody") >>
MultiOracleInfoDeserialize == InAnyTlv \o <<
  U16("threshold"), VecTlv("big", "announcements", "OracleAnnouncement"), Opt("oracleParams", "OracleParamsBody") >>
MultiOracleInfoSerializeBody == <<
  Tag("big", "1"), U16("threshold"), VecTlv("big", "announcements", "OracleAnnouncement"),
  Opt("oracleParams", "OracleParamsBody") >>
MultiOracleInfoDeserializeBody == <<
  Ignore("big"), U16("threshold"), VecTlv("big", "announcements", "OracleAnnouncement"),
  Opt("oracleParams", "OracleParamsBody") >>
MultiOracleInfoToJSON == <<
  ToUnder("multi", <<
    To("threshold", "threshold", "num"), ToList("oracleAnnouncements", "announcements", "OracleAnnouncement"),
    ToOpt("oracleParams", "oracleParams", "OracleParamsBody")>>) >>
MultiOracleInfoFromJSON == <<
  Else(From("threshold", <<"threshold">>, "num"), Const("1")),
  FromList("announcements", <<"oracleAnnouncements", "oracle_announcements">>, "OracleAnnouncement"),
  FromOpt("oracleParams", <<"oracleParams", "oracle_params">>, "OracleParamsBody") >>

OracleInfoTypes == [w |-> "big", of |-> <<Case("SingleOracleInfo", "SingleOracleInfo"),
                                          Case("MultiOracleInfo", "MultiOracleInfo")>>]
OracleInContractTypes == [w |-> "big", of |-> <<Case("0", "SingleOracleInContract"), Case("1", "MultiOracleInContract")>>]
OracleInfoKeys(single, multi) == <<Under("single", single), Under("multi", multi)>>

------------------------------------------------------------------------------
(* OracleAnnouncement and OracleEvent.                                       *)
OracleAnnouncementSerialize ==
  <<Tlv("OracleAnnouncement", <<B64("announcementSig"), B32("oraclePublicKey"), Sub("oracleEvent", "OracleEvent")>>)>>
OracleAnnouncementDeserialize ==
  InAnyTlv \o <<B64("announcementSig"), B32("oraclePublicKey"), SubTlv("oracleEvent", "OracleEvent")>>
OracleAnnouncementToJSON == <<
  To("announcementSignature", "announcementSig", "hex"), To("oraclePublicKey", "oraclePublicKey", "hex"),
  ToObj("oracleEvent", "oracleEvent", "OracleEvent") >>
OracleAnnouncementFromJSON == <<
  From("announcementSig", <<"announcementSignature", "announcementSig", "announcement_signature">>, "hex"),
  From("oraclePublicKey", <<"oraclePublicKey", "oraclePubkey", "oracle_public_key">>, "hex"),
  FromObj("oracleEvent", <<"oracleEvent", "oracle_event">>, "OracleEvent") >>

OracleEventSerialize ==
  <<Tlv("OracleEvent", <<VecHere("u16", "oracleNonces", "Bytes32"), U32("eventMaturityEpoch"),
                         Sub("eventDescriptor", "EventDescriptor"), Text("tbig", "eventId")>>)>>
OracleEventDeserialize == InAnyTlv \o <<
  VecHere("u16", "oracleNonces", "Bytes32"), U32("eventMaturityEpoch"),
  SubTlv("eventDescriptor", "EventDescriptor"), Text("tbig", "eventId") >>
OracleEventToJSON == <<
  ToList("oracleNonces", "oracleNonces", "Bytes32"), To("eventMaturityEpoch", "eventMaturityEpoch", "num"),
  ToObj("eventDescriptor", "eventDescriptor", "EventDescriptor"), To("eventId", "eventId", "text") >>
OracleEventFromJSON == <<
  FromList("oracleNonces", <<"oracleNonces", "oracle_nonces">>, "Bytes32"),
  Else(From("eventMaturityEpoch", <<"eventMaturityEpoch", "event_maturity_epoch">>, "num"), Zero),
  FromObj("eventDescriptor", <<"eventDescriptor", "event_descriptor">>, "EventDescriptor"),
  Else(From("eventId", <<"eventId", "event_id">>, "text"), Zero) >>

------------------------------------------------------------------------------
(* EventDescriptor.  The count of the outcomes is read over: they go on to   *)
(* the end of the TLV.                                                       *)
EnumEventDescriptorSerialize == <<Tlv("EnumEventDescriptor", <<VecHere("u16", "outcomes", "OutcomeText")>>)>>
EnumEventDescriptorDeserialize == InAnyTlv \o <<Ignore("u16"), RestHere("outcomes", "OutcomeText")>>
OutcomeText == <<Text("tbig", "text")>>
EnumEventDescriptorToJSON == <<ToUnder("enumEvent", <<ToList("outcomes", "outcomes", "OutcomeText")>>)>>
EnumEventDescriptorFromJSON == <<FromList("outcomes", <<"outcomes">>, "OutcomeText")>>

DigitDecompositionEventDescriptorSerialize ==
  <<Tlv("DigitDecompositionEventDescriptor",
        <<U16("base"), U8("isSigned"), Text("tbig", "unit"), U32("precision"), U16("nbDigits")>>)>>
DigitDecompositionEventDescriptorDeserialize ==
  InAnyTlv \o <<U16("base"), U8("isSigned"), Text("tbig", "unit"), U32("precision"), U16("nbDigits")>>
DigitDecompositionEventDescriptorToJSON ==
  <<ToUnder("digitDecompositionEvent", <<
      To("base", "base", "num"), To("isSigned", "isSigned", "num"), To("unit", "unit", "text"),
      To("precision", "precision", "num"), To("nbDigits", "nbDigits", "num")>>)>>
\* A base of 0 becomes 10.
DigitDecompositionEventDescriptorFromJSON == <<
  Else(From("base", <<"base">>, "num"), Const("10")),
  Else(From("isSigned", <<"isSigned", "is_signed">>, "num"), Zero), Else(From("unit", <<"unit">>, "text"), Zero),
  Else(From("precision", <<"precision">>, "num"), Zero),
  Else(From("nbDigits", <<"nbDigits", "nb_digits">>, "num"), Zero) >>

EventDescriptorTypes ==
  [w |-> "big", of |-> <<Case("EnumEventDescriptor", "EnumEventDescriptor"),
                         Case("DigitDecompositionEventDescriptor", "DigitDecompositionEventDescriptor")>>]
EventDescriptorKeys == <<Under("enumEvent", "EnumEventDescriptor"), Under("enum_event", "EnumEventDescriptor"),
                         Under("digitDecompositionEvent", "DigitDecompositionEventDescriptor"),
                         Under("digit_decomposition_event", "DigitDecompositionEventDescriptor")>>

------------------------------------------------------------------------------
(* OracleAttestation.  The reader takes the bytes for the older format when  *)
(* the event id is longer than 100 bytes, and when an outcome is empty.      *)
OracleAttestationSerialize ==
  <<Tlv("OracleAttestation", <<Text("tbig", "eventId"), B32("oraclePublicKey"),
                               VecHere("u16", "signatures", "Bytes64"), VecHere("u16", "outcomes", "OutcomeText")>>)>>
OracleAttestationDeserialize == InAnyTlv \o <<
  TextOrOld("eventId"), B32("oraclePublicKey"), VecHere("u16", "signatures", "Bytes64"),
  OutcomesOrOld("outcomes", "OutcomeText") >>
OracleAttestationToJSON == <<
  To("eventId", "eventId", "text"), To("oraclePublicKey", "oraclePublicKey", "hex"),
  ToList("signatures", "signatures", "Bytes64"), ToList("outcomes", "outcomes", "OutcomeText") >>
OracleAttestationFromJSON == <<
  From("eventId", <<"eventId">>, "text"),
  From("oraclePublicKey", <<"oraclePublicKey", "oraclePubkey", "oracle_public_key">>, "hex"),
  FromList("signatures", <<"signatures">>, "Bytes64"), FromList("outcomes", <<"outcomes">>, "OutcomeText") >>

------------------------------------------------------------------------------
(* OracleEventContainer, OracleIdentifier.                                   *)
OracleEventContainerSerialize ==
  <<Tlv("OracleEventContainer", <<Text("tbig", "oracleName"), Text("tbig", "uri"),
                                  Sub("announcement", "OracleAnnouncement"),
                                  Sub("attestation", "OracleAttestation"), Text("tbig", "outcome")>>)>>
OracleEventContainerDeserialize == InAnyTlv \o <<
  Text("tbig", "oracleName"), Text("tbig", "uri"), SubTlv("announcement", "OracleAnnouncement"),
  SubTlv("attestation", "OracleAttestation"), Text("tbig", "outcome") >>

OracleIdentifierSerialize == <<Tlv("OracleIdentifier", <<Text("tbig", "oracleName"), B32("oraclePubkey")>>)>>
OracleIdentifierDeserialize == InAnyTlv \o <<Text("tbig", "oracleName"), B32("oraclePubkey")>>
OracleIdentifierToJSON == <<To("oracleName", "oracleName", "text"), To("oraclePubkey", "oraclePubkey", "hex")>>
=============================================================================
