--------------------------- MODULE DigitPrefixes ---------------------------
(***************************************************************************)
(* groupByIgnoringDigits: the digit prefixes a range of outcomes is signed *)
(* with, so that the oracle's attestation of the other digits is ignored.  *)
(* A list of prefixes is a set here: which are in it is what matters.      *)
(***************************************************************************)
EXTENDS Integers, Sequences, FiniteSets

CONSTANTS Base, NumDigits

Power[n \in Nat] == IF n = 0 THEN 1 ELSE Base * Power[n - 1]

\* The digits of num, the most significant first; what is left above them is dropped.
Decompose(num) == [i \in 1..NumDigits |-> (num \div Power[NumDigits - i]) % Base]

All(digits, d) == \A i \in DOMAIN digits : digits[i] = d

\* How many digits the two have in common before they differ (separatePrefix).
InCommon(s, e) ==
  CHOOSE k \in 0..Len(s) :
    /\ \A i \in 1..k : s[i] = e[i]
    /\ k < Len(s) => s[k + 1] # e[k + 1]

\* The position of the last digit that is not d (dropUntil on the reversed digits).
LastNot(digits, d) ==
  CHOOSE p \in DOMAIN digits : digits[p] # d /\ \A q \in p + 1..Len(digits) : digits[q] = d

\* The groups at the inner side of a bound: a digit up to p changes to one of ds[p].
Beside(digits, p, ds(_)) ==
  {SubSeq(digits, 1, p)} \union
    UNION {{Append(SubSeq(digits, 1, q - 1), n) : n \in ds(q)} : q \in 2..p}

\* A slip: the groups above a digit begin with the digit itself.
FrontGroupingsSlip(digits) ==
  LET Above(q) == digits[q]..Base - 1
  IN  IF All(digits, 0) THEN {<<0>>} ELSE Beside(digits, LastNot(digits, 0), Above)

FrontGroupings(digits) ==
  LET Above(q) == digits[q] + 1..Base - 1
  IN  IF All(digits, 0) THEN {<<0>>} ELSE Beside(digits, LastNot(digits, 0), Above)

BackGroupings(digits) ==
  LET Under(q) == 0..digits[q] - 1
  IN  IF All(digits, Base - 1) THEN {<<Base - 1>>}
      ELSE Beside(digits, LastNot(digits, Base - 1), Under)

MiddleGroupings(first, last) == {<<d>> : d \in first + 1..last - 1}

GroupByIgnoringDigits(start, end) ==
  LET s == Decompose(start)
      e == Decompose(end)
      k == InCommon(s, e)
      prefix == SubSeq(s, 1, k)
      from == SubSeq(s, k + 1, NumDigits)
      to == SubSeq(e, k + 1, NumDigits)
  IN  IF start = end \/ (All(from, 0) /\ All(to, Base - 1) /\ k # 0)
      THEN {prefix}
      ELSE IF k = NumDigits - 1
      THEN {Append(prefix, d) : d \in s[NumDigits]..e[NumDigits]}
      ELSE {prefix \o g : g \in FrontGroupings(from) \union BackGroupings(to)
                                  \union MiddleGroupings(from[1], to[1])}

\* The oracle's digits begin with prefix.
Matches(prefix, outcome) ==
  LET digits == Decompose(outcome)
  IN  Len(prefix) <= NumDigits /\ \A i \in DOMAIN prefix : prefix[i] = digits[i]
=============================================================================
