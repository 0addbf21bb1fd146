------------------------------ MODULE JsonForm ------------------------------
(***************************************************************************)
(* The JSON forms of the messages: toJSON() and fromJSON(), which accept   *)
(* several spellings of a key and fill in defaults with ||.  A JSON object *)
(* is a function from the keys it has; a value carries its JSON type.      *)
(***************************************************************************)
EXTENDS Codec

CONSTANTS
  ToJson,      \* kind -> the properties toJSON makes
  FromJson,    \* kind -> the properties fromJSON takes
  JsonFamily   \* abstract class -> the keys that tell its classes apart

Value(j, v) == [j |-> j, v |-> v]
Undefined == Value("undefined", Zero)

\* Number() of a number above 2^53 gives one near it.
Near(v) == IF v[1] = "odd" THEN [v EXCEPT ![1] = "near"] ELSE v

\* What || passes over: 0, '', false and undefined; '00' is a text that is
\* not empty.
Falsy(x) == x.j = "undefined" \/ (x.j \in {"num", "text", "hexvar"} /\ x.v = Zero)

RECURSIVE JsonOf(_), JsonItem(_, _)

JsonItem(m, it) ==
  CASE it.conv \in {"num", "text", "hex", "hexvar"} -> Value(it.conv, m[it.f])
    [] it.conv = "near" -> Value("num", Near(m[it.f]))
    [] it.conv = "type" -> Value("type", Const(it.k))
    [] it.conv = "obj"  -> Value("obj", JsonOf(m[it.f]))
    [] it.conv = "opt"  -> IF m[it.f] = <<>> THEN Undefined ELSE Value("obj", JsonOf(m[it.f][1]))
    [] it.conv = "list" -> Value("list", [i \in DOMAIN m[it.f] |-> Value("obj", JsonOf(m[it.f][i]))])
    [] it.conv = "self" -> Value("obj", [key \in {x.key : x \in Range(it.of)} |->
                                          JsonItem(m, CHOOSE x \in Range(it.of) : x.key = key)])

JsonOf(m) == [key \in {x.key : x \in Range(ToJson[m.kind])} |->
               JsonItem(m, CHOOSE x \in Range(ToJson[m.kind]) : x.key = key)]

------------------------------------------------------------------------------
Lookup(json, key) == IF key \in DOMAIN json THEN json[key] ELSE Undefined

\* json.a || json.b || ...: the first that is truthy, otherwise the last.
FirstOf(json, keys) ==
  LET truthy == SelectSeq(keys, LAMBDA key : ~Falsy(Lookup(json, key))) IN
  IF truthy # <<>> THEN Lookup(json, truthy[1]) ELSE Lookup(json, keys[Len(keys)])

OrElse(x, d) == IF d # "none" /\ Falsy(x) THEN Value("num", d) ELSE x

RECURSIVE Parse(_, _), ParseItems(_, _, _)

ParseList(k, xs) == [i \in DOMAIN xs |-> Parse(k, xs[i].v)]

ParseItem(r, json, it) ==
  LET x == OrElse(FirstOf(json, it.keys), it.else)
      Set(v) == [r EXCEPT !.m = (it.f :> v) @@ @]
  IN CASE it.conv \in {"num", "text"} -> Set(x.v)
       [] it.conv = "big" -> IF x.j \in {"num", "undefined"} THEN Set(x.v) ELSE [ok |-> FALSE]
       [] it.conv = "hex" ->     \* Buffer.from throws for a number and for undefined
            IF x.j \in {"hex", "hexvar"} \/ x = Value("num", it.else) THEN Set(x.v) ELSE [ok |-> FALSE]
       [] it.conv = "obj" ->
            IF x.j # "obj" THEN [ok |-> FALSE]
            ELSE LET p == Parse(it.k, x.v) IN IF p.ok THEN Set(p.m) ELSE p
       [] it.conv = "opt" ->
            IF x.j # "obj" THEN Set(<<>>)
            ELSE LET p == Parse(it.k, x.v) IN IF p.ok THEN Set(<<p.m>>) ELSE p
       [] it.conv = "raw" -> Set(IF x.j = "obj" THEN <<[kind |-> "JSON", of |-> x.v]>> ELSE <<>>)
       [] it.conv = "list" ->
            IF x.j # "list" THEN Set(<<>>)
            ELSE LET ps == ParseList(it.k, x.v) IN
                 IF \A i \in DOMAIN ps : ps[i].ok THEN Set([i \in DOMAIN ps |-> ps[i].m]) ELSE [ok |-> FALSE]
       [] it.conv = "self" ->
            IF x.j = "obj" THEN ParseItems(r, x.v, it.of) ELSE [ok |-> FALSE]

ParseItems(r, json, items) ==
  IF items = <<>> \/ ~r.ok THEN r
  ELSE ParseItems(ParseItem(r, json, Head(items)), json, Tail(items))

\* The class an abstract class parses with, and what it gives that class.
Fits(k, json) ==
  SelectSeq(JsonFamily[k], LAMBDA e : IF e.is = "" THEN ~Falsy(Lookup(json, e.key))
                                      ELSE Lookup(json, e.key).v = Const(e.is))

Parse(k, json) ==
  LET fits  == IF k \in DOMAIN JsonFamily THEN Fits(k, json) ELSE <<Tagged("", "itself", k)>>
      class == fits[1].k
      start == [f \in ListFields(Reads[class]) |-> <<>>] @@ [kind |-> class]
  IN IF fits = <<>> THEN [ok |-> FALSE]
     ELSE ParseItems([ok |-> TRUE, m |-> start],
                     IF fits[1].is = "" THEN json[fits[1].key].v ELSE json, FromJson[class])
=============================================================================
