---------------------------- MODULE DlcMessages ----------------------------
(***************************************************************************)
(* A message between the forms it takes: the instance a party makes, the   *)
(* bytes it sends or stores, the instance another party reads from them,   *)
(* and the JSON form.  A newer version of the other party may add TLVs of  *)
(* its own to the bytes of a message that ends in a TLV stream.            *)
(*                                                                         *)
(* The code has no single place where what is written and what is read are *)
(* compared: the layouts of some eighty classes are each written twice, by *)
(* hand, and a class that contains another one skips it by the length it   *)
(* would write itself.                                                     *)
(***************************************************************************)
EXTENDS JsonForm

CONSTANTS
  Origins,     \* the messages a party may make
  Factories,   \* the functions that find the class by the type in front
  MaxExtra     \* how many TLVs a newer version adds

VARIABLES
  meant,       \* what its holder may expect to read
  extra,       \* the TLVs added on the way
  through,     \* the forms it has passed through: "bytes", "json"
  form,        \* what the message is now
  value        \* the instance, the bytes or the JSON; how it was lost

vars == <<meant, extra, through, form, value>>

Instances == {"made", "read", "parsed"}
Forms == Instances \union {"bytes", "dispatched", "json", "lost"}

------------------------------------------------------------------------------
Init ==
  /\ meant \in Origins
  /\ extra = <<>>
  /\ through = {}
  /\ form = "made"
  /\ value = meant

Become(f, v) == form' = f /\ value' = v

\* An exception leaves nothing but what was called.
Attempt(call, f, r) == IF r.ok THEN Become(f, r.m) ELSE Become("lost", call)

\* The negotiation fields of a parsed OrderAccept have no serialize or toJSON.
HoldsJson(m) == m.kind = "OrderAccept" /\ m.negotiationFields # <<>> /\ m.negotiationFields[1].kind = "JSON"

Serialize ==
  /\ form \in Instances
  /\ meant.kind \in DOMAIN Reads
  /\ IF HoldsJson(value) THEN Become("lost", "serialize") ELSE Become("bytes", Encode(value))
  /\ through' = through \union {"bytes"}
  /\ UNCHANGED <<meant, extra>>

StreamOf(k, op) == SelectSeq(Writes[k], LAMBDA it : it.op = op)
HasStream(m) == StreamOf(m.kind, "stream") # <<>>
HasBolt1(m) == StreamOf(m.kind, "bolt1") # <<>>

NewTlv(i) == TlvTokens(NewerTypes[i], <<Token("all", Some("body", i))>>)

\* The newer types are appended in their order, some left out.
Extend ==
  /\ form = "bytes"
  /\ HasStream(meant) \/ HasBolt1(meant)
  /\ Len(extra) < MaxExtra
  /\ \E i \in DOMAIN NewerTypes :
       /\ \A j \in i..Len(NewerTypes) : NewTlv(j) \notin Range(extra)
       /\ extra' = Append(extra, NewTlv(i))
       /\ Become("bytes", value \o NewTlv(i))
  /\ UNCHANGED <<meant, through>>

Deserialize ==
  /\ form = "bytes"
  /\ Attempt("deserialize", "read", Decode(meant.kind, value))
  /\ UNCHANGED <<meant, extra, through>>

Lists(factory, k) == \E case \in Range(Family[factory].of) : case.k = k

\* DlcMessage.deserialize, MessageFactory.deserialize and the abstract classes.
Dispatch ==
  /\ form = "bytes"
  /\ \E factory \in Factories :
       /\ Lists(factory, meant.kind)
       /\ Attempt(factory, "dispatched", Decode(factory, value))
  /\ UNCHANGED <<meant, extra, through>>

\* The TLVs do not come back from JSON.
WithoutTlvs(m) ==
  LET streams == Range(StreamOf(m.kind, "stream")) IN
  [f \in UNION {{"unknownTlvs"} \union {e.f : e \in Range(it.known)} : it \in streams} |-> <<>>] @@ m

ToJSON ==
  /\ form \in Instances
  /\ meant.kind \in DOMAIN ToJson
  /\ IF HoldsJson(value) THEN Become("lost", "toJSON") ELSE Become("json", JsonOf(value))
  /\ meant' = WithoutTlvs(meant)
  /\ extra' = <<>>
  /\ through' = through \union {"json"}

\* A class whose object is under a key is parsed by the abstract class.
ParserOf(k) ==
  LET abstract == {a \in DOMAIN JsonFamily : \E e \in Range(JsonFamily[a]) : e.k = k /\ e.is = ""} IN
  IF abstract = {} THEN k ELSE CHOOSE a \in abstract : TRUE

FromJSON ==
  /\ form = "json"
  /\ meant.kind \in DOMAIN FromJson
  /\ Attempt("fromJSON", "parsed", Parse(ParserOf(meant.kind), value))
  /\ UNCHANGED <<meant, extra, through>>

Next == Serialize \/ Extend \/ Deserialize \/ Dispatch \/ ToJSON \/ FromJSON

Spec == Init /\ [][Next]_vars

------------------------------------------------------------------------------
(* What the code loses, part by part: everything else has to arrive.         *)
RECURSIVE Leaves(_), PartsOf(_), JsonLeaves(_)
Leaves(items) ==
  FlattenSeq([i \in DOMAIN items |-> IF items[i].op \in {"tlv", "unless"} THEN Leaves(items[i].of) ELSE <<items[i]>>])

\* A message and all the messages in it.
PartsOf(m) ==
  LET Held(list) == Each(PartsOf, list) IN
  <<m>> \o Each(LAMBDA it : CASE it.op \in {"sub", "sized"} -> PartsOf(m[it.f])
                              [] it.op \in {"vec", "rest", "lengthy", "opt"} -> Held(m[it.f])
                              [] it.op \in {"stream", "bolt1"} -> Each(LAMBDA e : Held(m[e.f]), it.known)
                              [] OTHER -> <<>>, Leaves(Writes[m.kind]))

IsOdd(v) == v[1] = "odd"
IsLong(v) == v[1] = "long"

\* What the bytes do not keep.
LosesInBytes(p) ==
  \* a text is cut when its characters take more than a byte
  \/ \E it \in Range(Leaves(Writes[p.kind])) : it.op \in {"text", "bit"} /\ IsOdd(p[it.f])
  \* written without the type and length that are read
  \/ p.kind = "MultiOracleInfo"
  \* written bare and read as a TLV, the exception swallowed
  \/ p.kind = "DlcAccept" /\ p.negotiationFields # <<>>
  \* taken for the older format
  \/ p.kind = "OracleAttestation" /\ (IsLong(p.eventId) \/ p.outcomes = <<>> \/ \E o \in Range(p.outcomes) : o.text = Zero)
  \/ p.kind = "OrderOffer" /\ p.contractFlags # Zero
  \* disjoint fields inside disjoint fields, which are written and not read
  \/ p.kind = "DisjointNegotiationFields" /\ \E f \in Range(p.negotiationFields) : f.kind = p.kind
  \* left out with the field that says whether they are there
  \/ p.kind = "OrderPositionInfo" /\ p.instrumentName = Zero
       /\ {p.contractSize, p.direction, p.price, p.extraPrecision} # {Zero}
  \/ p.kind = "ChannelUpdate" /\ p.messageFlags = Zero /\ p.htlcMaximumMsat # Zero
  \* a number of no bytes
  \/ p.kind = "ScidFlags" /\ p.flags = Zero

JsonLeaves(items) ==
  FlattenSeq([i \in DOMAIN items |-> IF items[i].conv = "self" THEN JsonLeaves(items[i].of) ELSE <<items[i]>>])

\* What the JSON form does not keep.
LosesInJson(p) ==
  \* Number() above 2^53
  \/ p.kind \in DOMAIN ToJson /\ \E it \in Range(JsonLeaves(ToJson[p.kind])) : it.conv = "near" /\ IsOdd(p[it.f])
  \* the TLVs of an offer inside
  \/ p.kind = "DisjointOrderNegotiationFields" /\ p.orderOffer # WithoutTlvs(p.orderOffer)
  \* a zero that || replaces by the default
  \/ p.kind \in {"FundingInput", "FundingInputBody"} /\ Zero \in {p.sequence, p.maxWitnessLen}
  \/ p.kind = "DigitDecompositionEventDescriptor" /\ p.base = Zero
  \/ p.kind \in {"MultiOracleInfo", "MultiOracleInContract"} /\ p.threshold = Zero
  \* Buffer.from throws for a number, and for the undefined that an empty text leads to
  \/ p.kind \in {"DlcOffer", "OrderOffer"} /\ p.contractFlags # Zero
  \/ p.kind \in {"DlcOffer", "DlcAccept"} /\ Zero \in {p.payoutSpk, p.changeSpk}
  \/ p.kind = "ScriptWitnessV0" /\ p.witness = Zero
  \* kept as the JSON object it was
  \/ p.kind = "OrderAccept" /\ p.negotiationFields # <<>>

LosesIn(m, forms) ==
  LET parts == PartsOf(m) IN
  \E i \in DOMAIN parts : \/ "bytes" \in forms /\ LosesInBytes(parts[i])
                          \/ "json" \in forms /\ LosesInJson(parts[i])

Loses == LosesIn(meant, through)

EvenTlvs == {NewTlv(i) : i \in {j \in DOMAIN NewerTypes : NewerTypes[j] \in EvenTypes}}
NotUnderstood == HasBolt1(meant) /\ Range(extra) \intersect EvenTlvs # {}

AsMeant(m) == m = (IF "unknownTlvs" \in DOMAIN m THEN [meant EXCEPT !.unknownTlvs = m.unknownTlvs] ELSE meant)

------------------------------------------------------------------------------
(* Properties.                                                               *)

\* The width a class writes its type with: two bytes, or a bigsize.
WrittenAs(kind) == IF Writes[kind][1].op = "tlv" THEN "big" ELSE Writes[kind][1].w

\* What deserialize() of a class reads is what serialize() of the same class
\* wrote, however deep the parts are nested, however often the message is
\* written again and whatever a newer version adds.  A factory finds the class a
\* message was written by, and no other, when that class writes its type with
\* the width the factory reads.
KeptInBytes ==
  ~Loses => /\ form = "read" => AsMeant(value)
            /\ form = "lost" => value \notin {"serialize", "deserialize"} \/ NotUnderstood
            /\ form = "dispatched" => value.kind = meant.kind
            /\ form = "lost" /\ value \in Factories /\ ~NotUnderstood => WrittenAs(meant.kind) # Family[value].w

\* The TLVs of a newer version reach everyone who reads the message, in their
\* order, also when an older version writes it again; a Lightning message with
\* an unknown even type is not read at all.
UnknownKept ==
  form = "read" /\ ~Loses => /\ HasStream(meant) => value.unknownTlvs = extra
                             /\ ~NotUnderstood

\* fromJSON() of what toJSON() made is the message, apart from its TLVs.
KeptInJson ==
  ~Loses => /\ form = "parsed" => AsMeant(value)
            /\ form = "lost" => value \notin {"toJSON", "fromJSON"}

=============================================================================
