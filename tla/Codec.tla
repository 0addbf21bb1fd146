------------------------------- MODULE Codec -------------------------------
(***************************************************************************)
(* What a message becomes when it is written and read: the buffer writer   *)
(* and reader of packages/bufio, getTlv and deserializeTlv, and the TLV    *)
(* stream at the end of a message, interpreting the layouts of the classes.*)
(*                                                                         *)
(* A message is a record of its fields and of the class ("kind") it        *)
(* belongs to; an optional field is a sequence of at most one.  Its bytes  *)
(* are a sequence of tokens, one per call of the writer, each with the     *)
(* width it was written with.  Reading with another width fails, and a     *)
(* length counts tokens.  A class has two layouts, one taken from its      *)
(* serialize and one from its deserialize: the code keeps them in step by  *)
(* hand.                                                                   *)
(***************************************************************************)
EXTENDS Layout, SequencesExt, TLC

CONSTANTS
  Writes,    \* kind -> the calls serialize makes
  Reads,     \* kind -> the calls deserialize makes
  Family     \* abstract class -> the width and the values it dispatches on

------------------------------------------------------------------------------
Token(w, v) == [w |-> w, v |-> v]
IsNum(v) == v[1] = "n"

\* The length in front of a text is its number of characters.
TextTokens(w, v) ==
  IF v[1] = "odd" THEN <<Token(w, [v EXCEPT ![1] = "cut"]), Token("over", v)>>
  ELSE <<Token(w, v)>>

------------------------------------------------------------------------------
(* Writing.                                                                  *)
TlvTokens(t, body) == <<Token("big", Const(t)), Token("big", Num(Len(body)))>> \o body
Framed(w, body) == <<Token(w, Num(Len(body)))>> \o body
Each(Op(_), s) == FlattenSeq([i \in DOMAIN s |-> Op(s[i])])

RECURSIVE Encode(_), EncodeItem(_, _)

EncodeItem(m, it) ==
  CASE it.op \in {"val", "older"} -> <<Token(it.w, m[it.f])>>
    [] it.op = "bit"     -> <<Token(it.w, IF m[it.f] = Zero THEN Zero ELSE Some(it.f, 1))>>
    [] it.op = "empty"   -> <<Token(it.w, Zero)>>
    [] it.op = "text"    -> TextTokens(it.w, m[it.f])
    [] it.op = "tag"     -> <<Token(it.w, Const(it.t))>>
    [] it.op = "sub"     -> Encode(m[it.f])
    [] it.op = "sized"   -> Framed(it.w, Encode(m[it.f]))
    [] it.op = "vec"     -> <<Token(it.w, Num(Len(m[it.f])))>>
                              \o Each(LAMBDA e : IF it.how = "sized" THEN Framed(it.w, Encode(e)) ELSE Encode(e), m[it.f])
    [] it.op = "rest"    -> Each(Encode, m[it.f])
    [] it.op = "lengthy" -> Framed(it.w, Each(Encode, m[it.f]))
    [] it.op = "byflags" -> <<Token(it.w, m[it.f]), Token("b1", m[it.flags])>>
    [] it.op = "opt"     -> <<Token("u8", Num(Len(m[it.f])))>> \o Each(Encode, m[it.f])
    [] it.op = "tlv"     -> TlvTokens(it.t, Each(LAMBDA x : EncodeItem(m, x), it.of))
    [] it.op = "unless"  -> IF m[it.f] = Zero THEN <<>> ELSE Each(LAMBDA x : EncodeItem(m, x), it.of)
    [] it.op = "stream"  -> Each(LAMBDA e : Each(Encode, m[e.f]), it.known) \o FlattenSeq(m.unknownTlvs)
    [] it.op = "bolt1"   -> Each(LAMBDA e : Each(Encode, m[e.f]), it.known)

Encode(m) == Each(LAMBDA it : EncodeItem(m, it), Writes[m.kind])

------------------------------------------------------------------------------
(* Reading.  A state of the reader: the position, the instance filled so     *)
(* far, and whether nothing has thrown.                                      *)
Throw(s) == [s EXCEPT !.ok = FALSE]
Advance(s, n) == [s EXCEPT !.pos = @ + n]
Put(s, f, v) == [s EXCEPT !.m = (f :> v) @@ @]
PutLast(s, f, v) == Put(s, f, Append(s.m[f], v))
Eof(toks, s) == s.pos > Len(toks)
Ready(toks, s, w) == s.pos <= Len(toks) /\ toks[s.pos].w = w
HasCount(toks, s, w) == Ready(toks, s, w) /\ IsNum(toks[s.pos].v)
Left(toks, s) == SubSeq(toks, s.pos, Len(toks))

\* getTlv: the type, the length and as many bytes as the length says.
HasTlv(toks, s) ==
  /\ Ready(toks, s, "big")
  /\ HasCount(toks, Advance(s, 1), "big")
  /\ s.pos + 1 + toks[s.pos + 1].v[2] <= Len(toks)
TlvAt(toks, s) == SubSeq(toks, s.pos, s.pos + 1 + toks[s.pos + 1].v[2])

HasFrame(toks, s, w) == HasCount(toks, s, w) /\ s.pos + toks[s.pos].v[2] <= Len(toks)
FrameAt(toks, s) == SubSeq(toks, s.pos + 1, s.pos + toks[s.pos].v[2])

RECURSIVE Decode(_, _), DecodeItem(_, _, _), DecodeItems(_, _, _), DecodeVec(_, _, _, _),
          DecodeStream(_, _, _), DecodeBolt1(_, _, _, _)

\* A slip: the reader moves on past all that was left.
NestedSlip(toks, s, k, how) ==
  LET r == Decode(k, Left(toks, s)) IN
  IF how = "sub" /\ r.ok THEN [n |-> Len(Left(toks, s))] @@ r ELSE r

\* A nested message: what it is, and where the reader goes on.  "sub" gives
\* the class the rest of the buffer and moves on by what it would write.
Nested(toks, s, k, how) ==
  CASE how = "tlv" ->
         IF ~HasTlv(toks, s) THEN [ok |-> FALSE]
         ELSE [n |-> Len(TlvAt(toks, s))] @@ Decode(k, TlvAt(toks, s))
    [] how \in {"big", "u16", "u32", "u8"} ->
         IF ~HasFrame(toks, s, how) THEN [ok |-> FALSE]
         ELSE [n |-> 1 + Len(FrameAt(toks, s))] @@ Decode(k, FrameAt(toks, s))
    [] how = "here" -> Decode(k, Left(toks, s))
    [] how = "sub" -> LET r == Decode(k, Left(toks, s)) IN
                      IF r.ok THEN [n |-> Len(Encode(r.m))] @@ r ELSE r

\* The instance takes the nested message with Fill and the reader moves on.
Fill(toks, s, f, k, how, Filled(_, _)) ==
  LET r == Nested(toks, s, k, how) IN
  IF r.ok /\ s.pos + r.n <= Len(toks) + 1 THEN Advance(Filled(s, r.m), r.n) ELSE Throw(s)

How(it) == IF it.how = "sized" THEN it.w ELSE it.how

DecodeVec(toks, s, it, n) ==
  IF n = 0 \/ ~s.ok THEN s
  ELSE DecodeVec(toks, Fill(toks, s, it.f, it.k, How(it), LAMBDA t, m : PutLast(t, it.f, m)), it, n - 1)

Taker(known, v) == SelectSeq(known, LAMBDA e : Const(e.t) = v)

\* A slip: the types that are not known are passed over.
DecodeStreamSlip(toks, s, it) ==
  LET tlv   == TlvAt(toks, s)
      taker == Taker(it.known, tlv[1].v)
  IN IF Eof(toks, s) \/ ~s.ok THEN s
     ELSE IF ~HasTlv(toks, s) THEN Throw(s)
     ELSE IF taker = <<>> THEN DecodeStream(toks, Advance(s, Len(tlv)), it)
     ELSE DecodeStream(toks, Fill(toks, s, taker[1].f, taker[1].k, "tlv", LAMBDA t, m : Put(t, taker[1].f, <<m>>)), it)

DecodeStream(toks, s, it) ==
  LET tlv   == TlvAt(toks, s)
      taker == Taker(it.known, tlv[1].v)
  IN IF Eof(toks, s) \/ ~s.ok THEN s
     ELSE IF ~HasTlv(toks, s) THEN Throw(s)
     ELSE IF taker = <<>> THEN DecodeStream(toks, Advance(PutLast(s, "unknownTlvs", tlv), Len(tlv)), it)
     ELSE DecodeStream(toks, Fill(toks, s, taker[1].f, taker[1].k, "tlv",
                                  LAMBDA t, m : IF taker[1].many THEN PutLast(t, taker[1].f, m)
                                                ELSE Put(t, taker[1].f, <<m>>)), it)

\* readTlvs: the types ascend, an unknown even type throws, an unknown odd
\* one is passed over, and a handler has to use all the bytes it was given.
NewerTypes == <<"16777275", "16777276", "16777277">>
EvenTypes == {"16777276"}
Rank(known, v) ==
  LET types == [i \in DOMAIN known |-> known[i].t] \o NewerTypes IN
  CHOOSE i \in DOMAIN types : Const(types[i]) = v

DecodeBolt1(toks, s, it, last) ==
  LET tlv   == TlvAt(toks, s)
      taker == Taker(it.known, tlv[1].v)
      rank  == Rank(it.known, tlv[1].v)
  IN IF Eof(toks, s) \/ ~s.ok THEN s
     ELSE IF ~HasTlv(toks, s) \/ rank <= last THEN Throw(s)
     ELSE IF taker = <<>>
     THEN IF \E t \in EvenTypes : tlv[1].v = Const(t) THEN Throw(s)
          ELSE DecodeBolt1(toks, Advance(s, Len(tlv)), it, rank)
     ELSE LET r == Decode(taker[1].k, tlv) IN
          IF r.ok /\ r.n = Len(tlv)
          THEN DecodeBolt1(toks, Advance(Put(s, taker[1].f, <<r.m>>), Len(tlv)), it, rank) ELSE Throw(s)

\* n outcomes take 2n bytes, unless some are empty.
BornOut(toks, s, it) ==
  /\ HasCount(toks, s, it.w)
  /\ toks[s.pos].v[2] > 0
  /\ \A i \in s.pos + 1..Len(toks) : toks[i].v # Zero

\* Without a count its two bytes are the lengths of two outcomes.
Misread(toks, s, k) ==
  << [kind |-> k, text |-> Zero],
     [kind |-> k, text |-> IF s.pos = Len(toks) THEN Zero ELSE Const("the other outcomes")] >>

DecodeItem(toks, s, it) ==
  CASE it.op \in {"val", "text"} ->
         IF Ready(toks, s, it.w) THEN Put(Advance(s, 1), it.f, toks[s.pos].v) ELSE Throw(s)
    [] it.op = "joined" ->
         IF Ready(toks, s, it.w)
         THEN Put(Advance(s, 1), it.f, IF toks[s.pos].v = Zero THEN s.m[it.f] ELSE toks[s.pos].v) ELSE Throw(s)
    [] it.op = "unless" -> IF s.m[it.f] = Zero THEN s ELSE DecodeItems(toks, s, it.of)
    [] it.op = "ignore" ->
         IF Ready(toks, s, it.w) THEN Advance(s, 1) ELSE Throw(s)
    [] it.op = "check" ->
         IF Ready(toks, s, it.w) /\ toks[s.pos].v = Const(it.t) THEN Advance(s, 1) ELSE Throw(s)
    [] it.op = "older" ->     \* the older format has no such field
         IF Ready(toks, s, "version") THEN Put(Advance(s, 1), it.f, toks[s.pos].v)
         ELSE Put(s, it.f, Some(it.f, 1))
    [] it.op = "byflags" ->   \* with flags above 0 what follows is read four bytes early
         IF Ready(toks, s, "version")
         THEN IF Ready(toks, Advance(s, 1), "b1") /\ toks[s.pos + 1].v = Zero
              THEN Put(Put(Advance(s, 2), it.f, toks[s.pos].v), it.flags, Zero) ELSE Throw(s)
         ELSE IF Ready(toks, s, "b1")
         THEN Put(Put(Advance(s, 1), it.f, Some(it.f, 1)), it.flags, toks[s.pos].v) ELSE Throw(s)
    [] it.op = "sub" ->
         Fill(toks, s, it.f, it.k, IF it.here THEN "here" ELSE "sub", LAMBDA t, m : Put(t, it.f, m))
    [] it.op = "subtlv" -> Fill(toks, s, it.f, it.k, "tlv", LAMBDA t, m : Put(t, it.f, m))
    [] it.op = "sized" -> Fill(toks, s, it.f, it.k, it.w, LAMBDA t, m : Put(t, it.f, m))
    [] it.op = "vec" ->
         IF HasCount(toks, s, it.w)
         THEN DecodeVec(toks, Put(Advance(s, 1), it.f, <<>>), it, toks[s.pos].v[2]) ELSE Throw(s)
    [] it.op = "rest" ->      \* a loop that ends with the buffer
         IF Eof(toks, s) \/ ~s.ok THEN s
         ELSE DecodeItem(toks, Fill(toks, s, it.f, it.k, it.how, LAMBDA t, m : PutLast(t, it.f, m)), it)
    [] it.op = "opt" ->       \* readOptional takes all that is left
         IF it.lenient /\ Eof(toks, s) THEN s
         ELSE IF ~HasCount(toks, s, "u8") THEN Throw(s)
         ELSE IF toks[s.pos].v = Num(0) THEN Advance(s, 1)
         ELSE LET t == Fill(toks, Advance(s, 1), it.f, it.k, "here", LAMBDA u, m : Put(u, it.f, <<m>>)) IN
              IF t.ok THEN [t EXCEPT !.pos = Len(toks) + 1] ELSE t
    [] it.op = "flagtlv" ->   \* a flag, and a TLV if it is set
         IF ~Ready(toks, s, "u8") THEN Throw(s)
         ELSE IF toks[s.pos].v = Num(0) THEN Advance(s, 1)
         ELSE Fill(toks, Advance(s, 1), it.f, it.k, "tlv", LAMBDA t, m : Put(t, it.f, <<m>>))
    [] it.op = "flagsub" ->   \* a flag, and a bare message if it is set
         IF ~Ready(toks, s, "u8") THEN Throw(s)
         ELSE IF toks[s.pos].v = Num(0) THEN Advance(s, 1)
         ELSE Fill(toks, Advance(s, 1), it.f, it.k, "here", LAMBDA t, m : Put(t, it.f, <<m>>))
    [] it.op = "textorold" -> \* a length above 100 or past the end: no event id
         IF Ready(toks, s, it.w) /\ toks[s.pos].v[1] \notin {"cut", "odd", "long"}
         THEN Put(Advance(s, 1), it.f, toks[s.pos].v) ELSE Put(s, it.f, Zero)
    [] it.op = "outcomes" ->  \* a count that the bytes left do not bear out is no count
         IF Eof(toks, s) THEN s
         ELSE IF BornOut(toks, s, it) THEN DecodeVec(toks, Advance(s, 1), it, toks[s.pos].v[2])
         ELSE [Put(s, it.f, Misread(toks, s, it.k)) EXCEPT !.pos = Len(toks) + 1]
    [] it.op = "tail" -> IF Eof(toks, s) THEN s ELSE DecodeItems(toks, s, it.of)
    [] it.op = "try" ->       \* an exception is caught, what was read stays
         IF Eof(toks, s) THEN s ELSE [DecodeItems(toks, s, it.of) EXCEPT !.ok = TRUE]
    [] it.op = "stream" -> DecodeStream(toks, s, it)
    [] it.op = "bolt1" -> DecodeBolt1(toks, s, it, 0)

DecodeItems(toks, s, items) ==
  IF items = <<>> \/ ~s.ok THEN s
  ELSE DecodeItems(toks, DecodeItem(toks, s, Head(items)), Tail(items))

\* The class an abstract class hands the buffer to, none for another value.
Chosen(k, toks) ==
  IF k \notin DOMAIN Family THEN <<k>>
  ELSE IF toks = <<>> \/ toks[1].w # Family[k].w THEN <<>>
  ELSE LET fits == SelectSeq(Family[k].of, LAMBDA e : Const(e.t) = toks[1].v) IN
       [i \in DOMAIN fits |-> fits[i].k]

\* A new instance: the lists and the optional fields are empty, and so are the
\* fields that are there only under a condition.
RECURSIVE ListFields(_)
ListFields(items) ==
  UNION {CASE it.op \in {"vec", "rest", "opt", "flagtlv", "flagsub", "outcomes"} -> {it.f}
           [] it.op = "stream" -> {"unknownTlvs"} \union {e.f : e \in Range(it.known)}
           [] it.op = "bolt1" -> {e.f : e \in Range(it.known)}
           [] it.op \in {"tail", "try"} -> ListFields(it.of)
           [] OTHER -> {} : it \in Range(items)}
Conditional(items) ==
  UNION {IF it.op \in {"tail", "unless"} THEN {x.f : x \in Range(it.of)} ELSE {} : it \in Range(items)}

Fresh(k) == [kind |-> k] @@ [f \in ListFields(Reads[k]) |-> <<>>] @@ [f \in Conditional(Reads[k]) |-> Zero]

Decode(k, toks) ==
  LET c == Chosen(k, toks) IN
  IF c = <<>> THEN [ok |-> FALSE]
  ELSE LET s == DecodeItems(toks, [ok |-> TRUE, pos |-> 1, m |-> Fresh(c[1])], Reads[c[1]]) IN
       IF s.ok THEN [ok |-> TRUE, m |-> s.m, n |-> s.pos - 1] ELSE [ok |-> FALSE]
=============================================================================
