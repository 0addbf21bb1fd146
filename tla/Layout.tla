------------------------------- MODULE Layout -------------------------------
(***************************************************************************)
(* The vocabulary the layouts of the messages are written in.  A layout is *)
(* the sequence of the calls a serialize() or deserialize() makes, in the  *)
(* order of the code: one item for a call of BufferWriter or BufferReader, *)
(* with the width of the call and the field it writes or fills.  Codec     *)
(* gives the items their meaning.                                          *)
(***************************************************************************)
EXTENDS Naturals, Sequences

------------------------------------------------------------------------------
(* Values: a length or a flag, a constant, and what a field holds, zero      *)
(* (0, the empty text, no bytes), something else, something odd (a number     *)
(* above 2^53, a text whose characters are not all one byte) or a text       *)
(* longer than 100 bytes.                                                    *)
Num(n) == <<"n", n>>
Const(t) == <<"t", t>>
Zero == <<"zero">>
Some(f, i) == <<"some", f, i>>
Odd(f, i) == <<"odd", f, i>>
Long(f, i) == <<"long", f, i>>

------------------------------------------------------------------------------
(* Items.                                                                    *)
\* One value, by the width it is written with.
Val(w, f) == [op |-> "val", w |-> w, f |-> f]
U8(f)  == Val("u8", f)
U16(f) == Val("u16", f)
U32(f) == Val("u32", f)
U64(f) == Val("u64", f)
Big(f) == Val("big", f)         \* a BigSize
F64(f) == Val("f64", f)
B1(f)  == Val("b1", f)          \* one byte of flags
B4(f)  == Val("b4", f)
B32(f) == Val("b32", f)
B33(f) == Val("b33", f)
B64(f) == Val("b64", f)
S16(f) == Val("s16", f)         \* a buffer behind its length as a u16
SBig(f) == Val("sbig", f)       \* a buffer behind its length as a BigSize
All(f) == Val("all", f)         \* what is left of the buffer
Text(w, f) == [op |-> "text", w |-> w, f |-> f]

Scid(f) == Val("scid", f)       \* three, three and two bytes
Bit(f) == [op |-> "bit", w |-> "u8", f |-> f]      \* only the lowest bit of the flags
Empty(w) == [op |-> "empty", w |-> w]              \* nothing behind a length
Joined(w, f) == [op |-> "joined", w |-> w, f |-> f] \* read into a field that has a value

\* A constant: the type of a message, a discriminator.  The reader compares
\* it (Check) or reads over it (Ignore).
Tag(w, t) == [op |-> "tag", w |-> w, t |-> t]
Check(w, t) == [op |-> "check", w |-> w, t |-> t]
Ignore(w) == [op |-> "ignore", w |-> w]

\* A nested message: bare, behind its length, or optional behind a flag.
\* SubHere reads from the caller's reader; Sub gives the nested class a copy
\* of the buffer and moves on by the length of what that class would write.
Sub(f, k) == [op |-> "sub", f |-> f, k |-> k, here |-> FALSE]
SubHere(f, k) == [op |-> "sub", f |-> f, k |-> k, here |-> TRUE]
SubTlv(f, k) == [op |-> "subtlv", f |-> f, k |-> k]
Sized(w, f, k) == [op |-> "sized", w |-> w, f |-> f, k |-> k]
Opt(f, k) == [op |-> "opt", f |-> f, k |-> k, lenient |-> FALSE]
OptLenient(f, k) == [op |-> "opt", f |-> f, k |-> k, lenient |-> TRUE]
FlagTlv(f, k) == [op |-> "flagtlv", f |-> f, k |-> k]
FlagSub(f, k) == [op |-> "flagsub", f |-> f, k |-> k]

\* A list: a count and the elements, or elements up to the end of the buffer.
\* An element is read like Sub, SubHere, SubTlv or Sized.
Vec(w, f, k) == [op |-> "vec", w |-> w, f |-> f, k |-> k, how |-> "sub"]
VecHere(w, f, k) == [Vec(w, f, k) EXCEPT !.how = "here"]
VecTlv(w, f, k) == [Vec(w, f, k) EXCEPT !.how = "tlv"]
VecSized(w, f, k) == [Vec(w, f, k) EXCEPT !.how = "sized"]
Rest(f, k) == [op |-> "rest", f |-> f, k |-> k, how |-> "sub"]
RestHere(f, k) == [Rest(f, k) EXCEPT !.how = "here"]
RestTlv(f, k) == [Rest(f, k) EXCEPT !.how = "tlv"]

\* A list behind the length of all of it, which the readers read over.
Lengthy(w, f, k) == [op |-> "lengthy", w |-> w, f |-> f, k |-> k]

\* A type, a length and the items it covers; readers read over the length.
Tlv(t, items) == [op |-> "tlv", t |-> t, of |-> items]
InTlv(t) == <<Check("big", t), Ignore("big")>>
InAnyTlv == <<Ignore("big"), Ignore("big")>>

\* The TLVs at the end of a message: those of a known type go to a field,
\* one (Takes) or as many as come (TakesAll), the others to unknownTlvs.
Takes(t, f, k) == [t |-> t, f |-> f, k |-> k, many |-> FALSE]
TakesAll(t, f, k) == [t |-> t, f |-> f, k |-> k, many |-> TRUE]
Stream(known) == [op |-> "stream", known |-> known]

\* readTlvs of the Lightning messages: ascending types, an unknown even type
\* is an error and an unknown odd type is dropped.
Bolt1Stream(known) == [op |-> "bolt1", known |-> known]

\* An abstract class hands the buffer to the class of the value it finds.
Case(t, k) == [t |-> t, k |-> k]

\* Items that are there only under a condition.
UnlessZero(f, items) == [op |-> "unless", f |-> f, of |-> items]
IfMore(items) == [op |-> "tail", of |-> items]  \* unless at the end
Try(items) == [op |-> "try", of |-> items]      \* an exception is swallowed

\* A field the older format does not have: absent, the reader keeps old.
OrOlder(f) == [op |-> "older", w |-> "version", f |-> f]

\* The flags say which format it is: above 0 the reader takes the bytes for
\* the older one, without a version.
OrOlderByFlags(f, flags) == [op |-> "byflags", w |-> "version", f |-> f, flags |-> flags]

\* The older attestation has neither an event id nor a count of its outcomes.
TextOrOld(f) == [op |-> "textorold", w |-> "tbig", f |-> f]
OutcomesOrOld(f, k) == [op |-> "outcomes", w |-> "u16", f |-> f, k |-> k, how |-> "here"]

------------------------------------------------------------------------------
(* The properties of a JSON form: a key and how its value is made.  "near"   *)
(* is Number(), which rounds above 2^53; "num" keeps the number; "hex" is a  *)
(* buffer of a fixed length and "hexvar" one that can be empty.              *)
To(key, f, conv) == [key |-> key, f |-> f, conv |-> conv, k |-> "", of |-> <<>>]
ToObj(key, f, k) == [To(key, f, "obj") EXCEPT !.k = k]
ToOpt(key, f, k) == [To(key, f, "opt") EXCEPT !.k = k]
ToList(key, f, k) == [To(key, f, "list") EXCEPT !.k = k]
ToUnder(key, items) == [To(key, "", "self") EXCEPT !.of = items]
ToType(key, t) == [To(key, t, "type") EXCEPT !.k = t]

\* From(f, keys, conv): the first of the keys that is truthy, as in
\* json.a || json.b; with Else the value that ends the chain.
From(f, keys, conv) == [f |-> f, keys |-> keys, conv |-> conv, k |-> "", of |-> <<>>, else |-> "none"]
Else(item, v) == [item EXCEPT !.else = v]
FromObj(f, keys, k) == [From(f, keys, "obj") EXCEPT !.k = k]
FromOpt(f, keys, k) == [From(f, keys, "opt") EXCEPT !.k = k]
FromList(f, keys, k) == [From(f, keys, "list") EXCEPT !.k = k]
\* An abstract class finds the class by a key, under which the object is, or
\* by what a key says.
Under(key, k) == [key |-> key, is |-> "", k |-> k]
Tagged(key, is, k) == [key |-> key, is |-> is, k |-> k]
FromUnder(keys, items) == [From("", keys, "self") EXCEPT !.of = items]
=============================================================================
