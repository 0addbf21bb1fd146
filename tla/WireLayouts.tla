----------------------------- MODULE WireLayouts -----------------------------
(***************************************************************************)
(* The Lightning messages of packages/wire: channel opening and closing,   *)
(* the connection itself, and gossip.                                      *)
(***************************************************************************)
EXTENDS Layout

(* AcceptChannelMessage, OpenChannelMessage.                                 *)
AcceptChannelSerialize == <<
  Tag("u16", "AcceptChannel"), B32("temporaryChannelId"), U64("dustLimitSatoshis"),
  U64("maxHtlcValueInFlightMsat"), U64("channelReserveSatoshis"), U64("htlcMinimumMsat"), U32("minimumDepth"),
  U16("toSelfDelay"), U16("maxAcceptedHtlcs"), B33("fundingPubKey"), B33("revocationBasePoint"),
  B33("paymentBasePoint"), B33("delayedPaymentBasePoint"), B33("htlcBasePoint"), B33("firstPerCommitmentPoint"),
  Bolt1Stream(<<Takes("0", "upfrontShutdownScript", "UpfrontShutdownScript")>>) >>
AcceptChannelDeserialize == <<
  Ignore("u16"), B32("temporaryChannelId"), U64("dustLimitSatoshis"),
  U64("maxHtlcValueInFlightMsat"), U64("channelReserveSatoshis"), U64("htlcMinimumMsat"), U32("minimumDepth"),
  U16("toSelfDelay"), U16("maxAcceptedHtlcs"), B33("fundingPubKey"), B33("revocationBasePoint"),
  B33("paymentBasePoint"), B33("delayedPaymentBasePoint"), B33("htlcBasePoint"), B33("firstPerCommitmentPoint"),
  Bolt1Stream(<<Takes("0", "upfrontShutdownScript", "UpfrontShutdownScript")>>) >>

\* Of the channel flags only announce_channel is written.
OpenChannelSerialize == <<
  Tag("u16", "OpenChannel"), B32("chainHash"), B32("temporaryChannelId"), U64("fundingSatoshis"), U64("pushMsat"),
  U64("dustLimitSatoshis"), U64("maxHtlcValueInFlightMsat"), U64("channelReserveSatoshis"),
  U64("htlcMinimumMsat"), U32("feeRatePerKw"), U16("toSelfDelay"), U16("maxAcceptedHtlcs"),
  B33("fundingPubKey"), B33("revocationBasePoint"), B33("paymentBasePoint"), B33("delayedPaymentBasePoint"),
  B33("htlcBasePoint"), B33("firstPerCommitmentPoint"), Bit("channelFlags"),
  Bolt1Stream(<<Takes("0", "upfrontShutdownScript", "UpfrontShutdownScript")>>) >>
OpenChannelDeserialize == <<
  Ignore("u16"), B32("chainHash"), B32("temporaryChannelId"), U64("fundingSatoshis"), U64("pushMsat"),
  U64("dustLimitSatoshis"), U64("maxHtlcValueInFlightMsat"), U64("channelReserveSatoshis"),
  U64("htlcMinimumMsat"), U32("feeRatePerKw"), U16("toSelfDelay"), U16("maxAcceptedHtlcs"),
  B33("fundingPubKey"), B33("revocationBasePoint"), B33("paymentBasePoint"), B33("delayedPaymentBasePoint"),
  B33("htlcBasePoint"), B33("firstPerCommitmentPoint"), U8("channelFlags"),
  Bolt1Stream(<<Takes("0", "upfrontShutdownScript", "UpfrontShutdownScript")>>) >>

UpfrontShutdownScriptSerialize == <<Tlv("0", <<All("script")>>)>>
UpfrontShutdownScriptDeserialize == InTlv("0") \o <<All("script")>>

(* FundingCreated, FundingSigned, FundingLocked, Shutdown, ClosingSigned.    *)
FundingCreatedSerialize ==
  <<Tag("u16", "FundingCreated"), B32("temporaryChannelId"), B32("fundingTxId"), U16("fundingOutputIndex"), B64("signature")>>
FundingCreatedDeserialize ==
  <<Ignore("u16"), B32("temporaryChannelId"), B32("fundingTxId"), U16("fundingOutputIndex"), B64("signature")>>
FundingSignedSerialize == <<Tag("u16", "FundingSigned"), B32("channelId"), B64("signature")>>
FundingSignedDeserialize == <<Ignore("u16"), B32("channelId"), B64("signature")>>
FundingLockedSerialize == <<Tag("u16", "FundingLocked"), B32("channelId"), B33("nextPerCommitmentPoint")>>
FundingLockedDeserialize == <<Ignore("u16"), B32("channelId"), B33("nextPerCommitmentPoint")>>
ShutdownSerialize == <<Tag("u16", "Shutdown"), B32("channelId"), S16("scriptPubKey")>>
ShutdownDeserialize == <<Ignore("u16"), B32("channelId"), S16("scriptPubKey")>>
ClosingSignedSerialize == <<Tag("u16", "ClosingSigned"), B32("channelId"), U64("feeSatoshis"), B64("signature")>>
ClosingSignedDeserialize == <<Ignore("u16"), B32("channelId"), U64("feeSatoshis"), B64("signature")>>

------------------------------------------------------------------------------
(* InitMessage: the global features are written empty and read into the same *)
(* set as the local ones.                                                    *)
InitSerialize == <<
  Tag("u16", "Init"), Empty("s16"), S16("features"), Bolt1Stream(<<Takes("1", "chainHashes", "InitNetworks")>>) >>
InitDeserialize == <<
  Ignore("u16"), S16("features"), Joined("s16", "features"),
  Bolt1Stream(<<Takes("1", "chainHashes", "InitNetworks")>>) >>
InitNetworksSerialize == <<Tlv("1", <<Rest("hashes", "Bytes32")>>)>>
InitNetworksDeserialize == InTlv("1") \o <<RestHere("hashes", "Bytes32")>>

ErrorSerialize == <<Tag("u16", "Error"), U32("channelId"), S16("data")>>
ErrorDeserialize == <<Ignore("u16"), U32("channelId"), S16("data")>>
PingSerialize == <<Tag("u16", "Ping"), U16("numPongBytes"), S16("ignored")>>
PingDeserialize == <<Ignore("u16"), U16("numPongBytes"), S16("ignored")>>
PongSerialize == <<Tag("u16", "Pong"), S16("ignored")>>
PongDeserialize == <<Ignore("u16"), S16("ignored")>>

------------------------------------------------------------------------------
(* Gossip: announcements and updates.                                        *)
AnnouncementSignaturesSerialize == <<
  Tag("u16", "AnnouncementSignatures"), B32("channelId"), Scid("shortChannelId"), B64("nodeSignature"),
  B64("bitcoinSignature") >>
AnnouncementSignaturesDeserialize ==
  <<Ignore("u16"), B32("channelId"), Scid("shortChannelId"), B64("nodeSignature"), B64("bitcoinSignature")>>

ChannelAnnouncementSerialize == <<
  Tag("u16", "ChannelAnnouncement"), B64("nodeSignature1"), B64("nodeSignature2"), B64("bitcoinSignature1"),
  B64("bitcoinSignature2"), S16("features"), B32("chainHash"), Scid("shortChannelId"), B33("nodeId1"),
  B33("nodeId2"), B33("bitcoinKey1"), B33("bitcoinKey2") >>
ChannelAnnouncementDeserialize == <<
  Ignore("u16"), B64("nodeSignature1"), B64("nodeSignature2"), B64("bitcoinSignature1"),
  B64("bitcoinSignature2"), S16("features"), B32("chainHash"), Scid("shortChannelId"), B33("nodeId1"),
  B33("nodeId2"), B33("bitcoinKey1"), B33("bitcoinKey2") >>

\* The extended announcement adds what the chain says of the channel.
ExtendedChannelAnnouncementSerialize == ChannelAnnouncementSerialize \o
  <<Bolt1Stream(<<Takes("16777271", "outpoint", "ChannelOutpoint"), Takes("16777273", "capacity", "ChannelCapacity")>>)>>
ExtendedChannelAnnouncementDeserialize == ChannelAnnouncementDeserialize \o
  <<Bolt1Stream(<<Takes("16777271", "outpoint", "ChannelOutpoint"), Takes("16777273", "capacity", "ChannelCapacity")>>)>>
ChannelOutpointSerialize == <<Tlv("16777271", <<B32("txid"), UnlessZero("outputIndex", <<Val("tu16", "outputIndex")>>)>>)>>
ChannelOutpointDeserialize == InTlv("16777271") \o <<B32("txid"), IfMore(<<Val("tu16", "outputIndex")>>)>>
ChannelCapacitySerialize == <<Tlv("16777273", <<UnlessZero("capacity", <<Val("tu64", "capacity")>>)>>)>>
ChannelCapacityDeserialize == InTlv("16777273") \o <<IfMore(<<Val("tu64", "capacity")>>)>>

\* The maximum is there when the message flags say so.
ChannelUpdateSerialize == <<
  Tag("u16", "ChannelUpdate"), B64("signature"), B32("chainHash"), Scid("shortChannelId"), U32("timestamp"),
  U8("messageFlags"), U8("channelFlags"), U16("cltvExpiryDelta"), U64("htlcMinimumMsat"), U32("feeBaseMsat"),
  U32("feeProportionalMillionths"), UnlessZero("messageFlags", <<U64("htlcMaximumMsat")>>) >>
ChannelUpdateDeserialize == <<
  Ignore("u16"), B64("signature"), B32("chainHash"), Scid("shortChannelId"), U32("timestamp"),
  U8("messageFlags"), U8("channelFlags"), U16("cltvExpiryDelta"), U64("htlcMinimumMsat"), U32("feeBaseMsat"),
  U32("feeProportionalMillionths"), UnlessZero("messageFlags", <<U64("htlcMaximumMsat")>>) >>

LightningNodeAnnouncementSerialize == <<
  Tag("u16", "LightningNodeAnnouncement"), B64("signature"), S16("features"), U32("timestamp"), B33("nodeId"),
  Val("b3", "rgbColor"), B32("alias"), Sized("u16", "addresses", "NodeAddresses") >>
LightningNodeAnnouncementDeserialize == <<
  Ignore("u16"), B64("signature"), S16("features"), U32("timestamp"), B33("nodeId"),
  Val("b3", "rgbColor"), B32("alias"), Sized("u16", "addresses", "NodeAddresses") >>
NodeAddressesSerialize == <<Rest("addresses", "NodeAddress")>>
NodeAddressesDeserialize == <<RestHere("addresses", "NodeAddress")>>

\* serializeAddress and deserializeAddress.
NodeAddressTypes == [w |-> "u8", of |-> <<
  Case("IPv4", "AddressIPv4"), Case("IPv6", "AddressIPv6"), Case("TOR2", "AddressTor2"), Case("TOR3", "AddressTor3")>>]
AddressIPv4Serialize == <<Tag("u8", "IPv4"), B4("host"), U16("port")>>
AddressIPv4Deserialize == <<Ignore("u8"), B4("host"), U16("port")>>
AddressIPv6Serialize == <<Tag("u8", "IPv6"), Val("b16", "host"), U16("port")>>
AddressIPv6Deserialize == <<Ignore("u8"), Val("b16", "host"), U16("port")>>
AddressTor2Serialize == <<Tag("u8", "TOR2"), Val("b10", "host"), U16("port")>>
AddressTor2Deserialize == <<Ignore("u8"), Val("b10", "host"), U16("port")>>
AddressTor3Serialize == <<Tag("u8", "TOR3"), Val("b35", "host"), U16("port")>>
AddressTor3Deserialize == <<Ignore("u8"), Val("b35", "host"), U16("port")>>

------------------------------------------------------------------------------
(* Gossip: queries.  The lists are encoded behind a byte that says how.      *)
GossipTimestampFilterSerialize ==
  <<Tag("u16", "GossipTimestampFilter"), B32("chainHash"), U32("firstTimestamp"), U32("timestampRange")>>
GossipTimestampFilterDeserialize == <<Ignore("u16"), B32("chainHash"), U32("firstTimestamp"), U32("timestampRange")>>

QueryChannelRangeSerialize == <<
  Tag("u16", "QueryChannelRange"), B32("chainHash"), U32("firstBlocknum"), U32("numberOfBlocks"),
  Bolt1Stream(<<Takes("1", "options", "RangeOptions")>>) >>
QueryChannelRangeDeserialize == <<
  Ignore("u16"), B32("chainHash"), U32("firstBlocknum"), U32("numberOfBlocks"),
  Bolt1Stream(<<Takes("1", "options", "RangeOptions")>>) >>
RangeOptionsSerialize == <<Tlv("1", <<Val("bits", "flags")>>)>>
RangeOptionsDeserialize == InTlv("1") \o <<Val("bits", "flags")>>

QueryShortChannelIdsSerialize == <<
  Tag("u16", "QueryShortChannelIds"), B32("chainHash"), Sized("u16", "shortChannelIds", "EncodedScids"),
  Bolt1Stream(<<Takes("1", "flags", "QueryFlags")>>) >>
QueryShortChannelIdsDeserialize == <<
  Ignore("u16"), B32("chainHash"), Sized("u16", "shortChannelIds", "EncodedScids"),
  Bolt1Stream(<<Takes("1", "flags", "QueryFlags")>>) >>
\* A set of flags without a flag is written as no byte at all.
QueryFlagsSerialize == <<Tlv("1", <<Tag("u8", "ZlibDeflate"), Rest("flags", "ScidFlags")>>)>>
QueryFlagsDeserialize == InTlv("1") \o <<Ignore("u8"), RestHere("flags", "ScidFlags")>>
ScidFlagsSerialize == <<UnlessZero("flags", <<Big("flags")>>)>>
ScidFlagsDeserialize == <<Big("flags")>>

ReplyShortChannelIdsEndSerialize == <<Tag("u16", "ReplyShortChannelIdsEnd"), B32("chainHash"), U8("complete")>>
ReplyShortChannelIdsEndDeserialize == <<Ignore("u16"), B32("chainHash"), U8("complete")>>

ReplyChannelRangeSerialize == <<
  Tag("u16", "ReplyChannelRange"), B32("chainHash"), U32("firstBlocknum"), U32("numberOfBlocks"),
  U8("fullInformation"), Sized("u16", "shortChannelIds", "EncodedScids"),
  Bolt1Stream(<<Takes("1", "timestamps", "ReplyTimestamps"), Takes("3", "checksums", "ReplyChecksums")>>) >>
ReplyChannelRangeDeserialize == <<
  Ignore("u16"), B32("chainHash"), U32("firstBlocknum"), U32("numberOfBlocks"),
  U8("fullInformation"), Sized("u16", "shortChannelIds", "EncodedScids"),
  Bolt1Stream(<<Takes("1", "timestamps", "ReplyTimestamps"), Takes("3", "checksums", "ReplyChecksums")>>) >>
ReplyTimestampsSerialize == <<Tlv("1", <<Tag("u8", "ZlibDeflate"), Rest("timestamps", "UpdatePair")>>)>>
ReplyTimestampsDeserialize == InTlv("1") \o <<Ignore("u8"), RestHere("timestamps", "UpdatePair")>>
ReplyChecksumsSerialize == <<Tlv("3", <<Rest("checksums", "UpdatePair")>>)>>
ReplyChecksumsDeserialize == InTlv("3") \o <<RestHere("checksums", "UpdatePair")>>
UpdatePair == <<U32("node1"), U32("node2")>>

\* Encoder: the encodings it knows.
EncodedScidsTypes == [w |-> "u8", of |-> <<Case("Raw", "RawScids"), Case("ZlibDeflate", "ZlibScids")>>]
RawScidsSerialize == <<Tag("u8", "Raw"), Rest("ids", "ScidBytes")>>
ZlibScidsSerialize == <<Tag("u8", "ZlibDeflate"), Rest("ids", "ScidBytes")>>
EncodedScidsDeserialize == <<Ignore("u8"), RestHere("ids", "ScidBytes")>>
ScidBytes == <<Scid("scid")>>

------------------------------------------------------------------------------
(* MessageFactory: the types it knows; for another it returns undefined.     *)
MessageFactoryTypes == [w |-> "u16", of |-> <<
  Case("Init", "Init"), Case("Error", "Error"), Case("Ping", "Ping"), Case("Pong", "Pong"),
  Case("OpenChannel", "OpenChannel"), Case("AcceptChannel", "AcceptChannel"), Case("Shutdown", "Shutdown"),
  Case("LightningNodeAnnouncement", "LightningNodeAnnouncement"), Case("ChannelAnnouncement", "ChannelAnnouncement"),
  Case("ChannelUpdate", "ChannelUpdate"), Case("QueryShortChannelIds", "QueryShortChannelIds"),
  Case("ReplyShortChannelIdsEnd", "ReplyShortChannelIdsEnd"), Case("QueryChannelRange", "QueryChannelRange"),
  Case("ReplyChannelRange", "ReplyChannelRange"), Case("GossipTimestampFilter", "GossipTimestampFilter")>>]
=============================================================================
