-------------------------- MODULE ConnectionProofs --------------------------
(***************************************************************************)
(* Theorems about how a connection is made and kept.                       *)
(*                                                                         *)
(* NoiseHandshake, for all keys and any set of keys that the initiator may *)
(* dial.  The argument follows the transcript: what each end has mixed     *)
(* into its hash and chaining key in each handshake state is a fixed term, *)
(* an act that opens under such a term is the act the other end sealed,    *)
(* and the first act names the responder's static key.                     *)
(*                                                                         *)
(* PeerConnection, for any traffic of the remote, any high-water mark and  *)
(* any flood threshold.                                                    *)
(***************************************************************************)
EXTENDS NoiseHandshake, PeerConnection, SequenceTheorems, TLAPS

(***************************************************************************)
(* The handshake.                                                          *)
(***************************************************************************)
I == "initiator"
R == "responder"
IS == InitiatorStatic
RS == ResponderStatic
IE == InitiatorEphemeral
ER == ResponderEphemeral

-----------------------------------------------------------------------------
(* The transcript of the handshake.  The first act depends on the key that *)
(* was dialled; the others are only ever sent when it was the right one.   *)
Chain1(d) == Mix(Ck0, ECDH(d, IE))
Hash1(d) == Mix(H0(d), IE)
Box1(d) == Box(Temp(Chain1(d)), 0, Hash1(d), None)
Sent1(d) == [act |-> 1, len |-> 50, v |-> 0, re |-> IE, c |-> Box1(d)]
After1(d) == Mix(Hash1(d), Box1(d))

Chain2 == Mix(Chain1(RS), ECDH(IE, ER))
Hash2 == Mix(After1(RS), ER)
Box2 == Box(Temp(Chain2), 0, Hash2, None)
Sent2 == [act |-> 2, len |-> 50, v |-> 0, re |-> ER, c |-> Box2]
After2 == Mix(Hash2, Box2)

Box3 == Box(Temp(Chain2), 1, After2, IS)
Chain3 == Mix(Chain2, ECDH(ER, IS))
Hash3 == Mix(After2, Box3)
Tag3 == Box(Temp(Chain3), 0, Hash3, None)
Sent3 == [act |-> 3, len |-> 66, v |-> 0, c |-> Box3, t |-> Tag3]

IsSeq(s) == \E S : s \in Seq(S)

(* Mixing yields a sequence again, which is not empty.                     *)
LEMMA MixSeq ==
    ASSUME NEW s, IsSeq(s), NEW x
    PROVE  IsSeq(Mix(s, x)) /\ Mix(s, x) # <<>>
<1>1. PICK S : s \in Seq(S)
    BY DEF IsSeq
<1> DEFINE T == S \cup {x}
<1>2. s \in Seq(T)
    BY <1>1, SeqMonotonic
<1> HIDE DEF T
<1>3. x \in T
    BY DEF T
<1>4. Append(s, x) \in Seq(T) /\ Append(s, x) # <<>>
    BY <1>2, <1>3, AppendProperties
<1> QED BY <1>4 DEF IsSeq, Mix

(* Nothing is lost by mixing: it is injective in both its arguments.       *)
LEMMA MixInjective ==
    ASSUME NEW s, IsSeq(s), NEW t, IsSeq(t), NEW x, NEW y,
           Mix(s, x) = Mix(t, y)
    PROVE  s = t /\ x = y
<1>1. PICK S : s \in Seq(S)
    BY DEF IsSeq
<1>2. PICK T : t \in Seq(T)
    BY DEF IsSeq
<1> DEFINE U == (S \cup T) \cup {x, y}
<1>3. s \in Seq(U) /\ t \in Seq(U)
    BY <1>1, <1>2, SeqMonotonic
<1> HIDE DEF U
<1>4. x \in U /\ y \in U
    BY DEF U
<1>5. Append(s, x) = Append(t, y)
    BY DEF Mix
<1> QED BY <1>3, <1>4, <1>5, AppendInjective

(* The terms of the transcript are sequences.                              *)
LEMMA TranscriptSeq ==
    /\ \A d : IsSeq(H0(d)) /\ IsSeq(Hash1(d)) /\ IsSeq(After1(d)) /\ IsSeq(Chain1(d))
    /\ IsSeq(Ck0) /\ IsSeq(Chain2) /\ IsSeq(Hash2) /\ IsSeq(After2)
    /\ IsSeq(Hash3) /\ IsSeq(Chain3)
<1>1. ASSUME NEW d PROVE IsSeq(H0(d))
    <2>1. H0(d) \in Seq({"protocol", "prologue", d})
        BY DEF H0
    <2> QED BY <2>1 DEF IsSeq
<1>2. IsSeq(Ck0)
    <2>1. Ck0 \in Seq({"protocol"})
        BY DEF Ck0
    <2> QED BY <2>1 DEF IsSeq
<1>3. \A d : IsSeq(Hash1(d)) /\ IsSeq(Chain1(d))
    BY <1>1, <1>2, MixSeq DEF Hash1, Chain1
<1>4. \A d : IsSeq(After1(d))
    BY <1>3, MixSeq DEF After1
<1>5. IsSeq(Chain2) /\ IsSeq(Hash2)
    BY <1>3, <1>4, MixSeq DEF Chain2, Hash2
<1>6. IsSeq(After2) /\ IsSeq(Chain3)
    BY <1>5, MixSeq DEF After2, Chain3
<1>7. IsSeq(Hash3)
    BY <1>6, MixSeq DEF Hash3
<1> QED BY <1>1, <1>2, <1>3, <1>4, <1>5, <1>6, <1>7

(* Two static keys never begin the same transcript.                        *)
LEMMA PrologueNamesKey == ASSUME NEW d, NEW f, H0(d) = H0(f) PROVE d = f
<1>1. H0(d)[3] = d /\ H0(f)[3] = f
    BY DEF H0
<1> QED BY <1>1

(* The junk box was sealed under nothing that was mixed.                   *)
LEMMA JunkNeverOpens ==
    ASSUME NEW s, IsSeq(s), NEW x, NEW n, NEW ad
    PROVE  ~OpensBox(JunkBox, Temp(Mix(s, x)), n, ad)
<1>1. Mix(s, x) # <<>>
    BY MixSeq
<1> QED BY <1>1 DEF OpensBox, JunkBox, Box, Temp

LEMMA SharedSecret == \A x, y : ECDH(x, y) = ECDH(y, x)
BY DEF ECDH

-----------------------------------------------------------------------------
(* An act that its reader accepts is the act that was sent.  The first one *)
(* is only accepted when the responder's own key was dialled.              *)
Received(sent) == {sent} \cup Damaged(sent)

LEMMA Act1Genuine ==
    ASSUME NEW d, NEW m \in Received(Sent1(d)), Act1Valid(R, m)
    PROVE  d = RS /\ m = Sent1(RS)
<1> DEFINE u == Sent1(d)
<1>1. /\ m = u \/ m = [u EXCEPT !.v = 1] \/ m = [u EXCEPT !.len = @ - 1]
         \/ m = [u EXCEPT !.c = JunkBox] \/ m = [u EXCEPT !.re = Junk]
    BY DEF Received, Damaged, Sent1
<1>2. m.len = 50 /\ m.v = 0 /\ OpensBox(m.c, Temp(Act1Chain(R, m)), 0, Act1Hash(R, m))
    BY DEF Act1Valid
<1>3. CASE m = [u EXCEPT !.v = 1] \/ m = [u EXCEPT !.len = @ - 1]
    BY <1>2, <1>3 DEF Sent1
<1>4. CASE m = [u EXCEPT !.c = JunkBox]
    <2>1. m.c = JunkBox
        BY <1>4 DEF Sent1
    <2> QED BY <1>2, <2>1, JunkNeverOpens, TranscriptSeq DEF Act1Chain
<1>5. CASE m.c = Box1(d) /\ (m = u \/ m.re = Junk)
    <2>1. Hash1(d) = Mix(H0(RS), m.re)
        BY <1>2, <1>5 DEF OpensBox, Act1Hash, Box1, Box, ls, R, RS
    <2>2. H0(d) = H0(RS) /\ m.re = IE
        BY <2>1, MixInjective, TranscriptSeq DEF Hash1
    <2>3. d = RS
        BY <2>2, PrologueNamesKey
    <2>4. m.re # Junk
        BY <2>2, JunkIsNoKey DEF IE
    <2> QED BY <1>5, <2>3, <2>4
<1>6. m = u \/ m = [u EXCEPT !.re = Junk] => m.c = Box1(d) /\ (m = u \/ m.re = Junk)
    BY DEF Sent1
<1> QED BY <1>1, <1>3, <1>4, <1>5, <1>6

LEMMA Act2Genuine ==
    ASSUME h[I] = After1(RS), ck[I] = Chain1(RS),
           NEW m \in Received(Sent2), Act2Valid(I, m)
    PROVE  m = Sent2
<1>1. /\ m = Sent2 \/ m = [Sent2 EXCEPT !.v = 1] \/ m = [Sent2 EXCEPT !.len = @ - 1]
         \/ m = [Sent2 EXCEPT !.c = JunkBox] \/ m = [Sent2 EXCEPT !.re = Junk]
    BY DEF Received, Damaged, Sent2
<1>2. m.len = 50 /\ m.v = 0 /\ OpensBox(m.c, Temp(Act2Chain(I, m)), 0, Act2Hash(I, m))
    BY DEF Act2Valid
<1>3. CASE m = [Sent2 EXCEPT !.v = 1] \/ m = [Sent2 EXCEPT !.len = @ - 1]
    BY <1>2, <1>3 DEF Sent2
<1>4. CASE m = [Sent2 EXCEPT !.c = JunkBox]
    <2>1. m.c = JunkBox
        BY <1>4 DEF Sent2
    <2> QED BY <1>2, <2>1, JunkNeverOpens, TranscriptSeq DEF Act2Chain
<1>5. CASE m = [Sent2 EXCEPT !.re = Junk]
    <2>1. m.c = Box2 /\ m.re = Junk
        BY <1>5 DEF Sent2
    <2>2. Hash2 = Mix(After1(RS), Junk)
        BY <1>2, <2>1 DEF OpensBox, Act2Hash, Box2, Box
    <2>3. ER = Junk
        BY <2>2, MixInjective, TranscriptSeq DEF Hash2
    <2> QED BY <2>3, JunkIsNoKey DEF ER
<1> QED BY <1>1, <1>3, <1>4, <1>5

LEMMA Act3Genuine ==
    ASSUME h[R] = After2, ck[R] = Chain2,
           NEW m \in Received(Sent3), Act3Valid(R, m)
    PROVE  m = Sent3
<1>1. /\ m = Sent3 \/ m = [Sent3 EXCEPT !.v = 1] \/ m = [Sent3 EXCEPT !.len = @ - 1]
         \/ m = [Sent3 EXCEPT !.c = JunkBox] \/ m = [Sent3 EXCEPT !.t = JunkBox]
    BY DEF Received, Damaged, Sent3
<1>2. /\ m.len = 66 /\ m.v = 0
      /\ OpensBox(m.c, Temp(Chain2), 1, After2)
      /\ OpensBox(m.t, Temp(Act3Chain(R, m)), 0, Act3Hash(R, m))
    BY DEF Act3Valid
<1>3. CASE m = [Sent3 EXCEPT !.v = 1] \/ m = [Sent3 EXCEPT !.len = @ - 1]
    BY <1>2, <1>3 DEF Sent3
<1>4. CASE m = [Sent3 EXCEPT !.c = JunkBox]
    <2>1. m.c = JunkBox
        BY <1>4 DEF Sent3
    <2> QED BY <1>2, <2>1, JunkNeverOpens, TranscriptSeq DEF Chain2
<1>5. CASE m = [Sent3 EXCEPT !.t = JunkBox]
    <2>1. m.t = JunkBox
        BY <1>5 DEF Sent3
    <2>2. OpensBox(JunkBox, Temp(Mix(Chain2, ECDH(m.c.plain, es(R)))), 0, Act3Hash(R, m))
        BY <1>2, <2>1 DEF Act3Chain
    <2> QED BY <2>2, JunkNeverOpens, TranscriptSeq
<1> QED BY <1>1, <1>3, <1>4, <1>5

-----------------------------------------------------------------------------
(* What each pair of handshake states implies.                             *)
Halves(e, mine, theirs) == sk[e] = Half(mine, Chain3) /\ rk[e] = Half(theirs, Chain3)
Blank(e) == sk[e] = NoKey /\ repk[e] = None
Nothing(e) == wire[e] = <<>>
AtMost(e, sent) == Nothing(e) \/ \E m \in Received(sent) : wire[e] = <<m>>
Undamaged(e, sent) == ~disturbed => Nothing(e) \/ wire[e] = <<sent>>

OnEnds(f) == f = [e \in Ends |-> f[e]]
Shape ==
    /\ hs \in [Ends -> States] /\ rpk[I] \in Dialable
    /\ OnEnds(rpk) /\ OnEnds(repk) /\ OnEnds(h) /\ OnEnds(ck)
    /\ OnEnds(sk) /\ OnEnds(rk) /\ OnEnds(wire)
    /\ open \in [Ends -> BOOLEAN] /\ disturbed \in BOOLEAN
    /\ hs[I] \in {"INITIATOR_INITIATING", "AWAITING_RESPONDER_REPLY", "READY"}
    /\ hs[R] \in {"AWAITING_INITIATOR", "AWAITING_INITIATOR_REPLY", "READY"}

InitiatorInv ==
    /\ hs[I] = "INITIATOR_INITIATING" =>
          Blank(I) /\ Nothing(R) /\ hs[R] = "AWAITING_INITIATOR"
    /\ hs[I] = "AWAITING_RESPONDER_REPLY" =>
          /\ Blank(I) /\ hs[R] # "READY"
          /\ h[I] = After1(rpk[I]) /\ ck[I] = Chain1(rpk[I])
    /\ hs[I] = "READY" =>
          /\ rpk[I] = RS /\ repk[I] = ER
          /\ h[I] = Hash3 /\ ck[I] = Chain3 /\ Halves(I, 1, 2)
          /\ hs[R] # "AWAITING_INITIATOR"

ResponderInv ==
    /\ hs[R] = "AWAITING_INITIATOR" =>
          /\ Blank(R) /\ rpk[R] = None /\ Nothing(I)
          /\ AtMost(R, Sent1(rpk[I])) /\ Undamaged(R, Sent1(rpk[I]))
    /\ hs[R] = "AWAITING_INITIATOR_REPLY" =>
          /\ sk[R] = NoKey /\ repk[R] = IE /\ rpk[R] = None /\ rpk[I] = RS
          /\ h[R] = After2 /\ ck[R] = Chain2
          /\ hs[I] = "READY" =>
                Nothing(I) /\ AtMost(R, Sent3) /\ Undamaged(R, Sent3)
          /\ hs[I] # "READY" =>
                Nothing(R) /\ AtMost(I, Sent2) /\ Undamaged(I, Sent2)
    /\ hs[R] = "READY" =>
          /\ hs[I] = "READY" /\ Nothing(I) /\ Nothing(R)
          /\ rpk[R] = IS /\ repk[R] = IE
          /\ h[R] = Hash3 /\ ck[R] = Chain3 /\ Halves(R, 2, 1)

HandshakeInv == Shape /\ InitiatorInv /\ ResponderInv

LEMMA TwoEnds ==
    /\ I \in Ends /\ R \in Ends /\ I # R /\ Other(I) = R /\ Other(R) = I
    /\ \A e \in Ends : e = I \/ e = R
BY DEF Ends, Other, I, R

LEMMA OneAct == \A m : /\ Append(<<>>, m) = <<m>> /\ Tail(<<m>>) = <<>>
                       /\ Head(<<m>>) = m /\ <<m>> # <<>>
OBVIOUS

(* A function of the ends stays one when it is updated.                    *)
LEMMA Update ==
    ASSUME NEW f, OnEnds(f), NEW e \in Ends, NEW x
    PROVE  LET g == [f EXCEPT ![e] = x]
           IN  OnEnds(g) /\ g[e] = x /\ \A k \in Ends : k # e => g[k] = f[k]
BY DEF OnEnds

(* An end sends an act and takes the one it has just read off its wire.    *)
LEMMA SendActWire ==
    ASSUME NEW e \in Ends, NEW m, SendAct(e, m)
    PROVE  /\ OnEnds(wire')
           /\ wire'[e] = Tail(wire[e])
           /\ wire'[Other(e)] = Append(wire[Other(e)], m)
<1> DEFINE w == [f \in Ends |-> IF f = e THEN Tail(wire[f]) ELSE Append(wire[f], m)]
<1>1. Other(e) \in Ends /\ Other(e) # e
    BY DEF Other, Ends
<1>2. OnEnds(w) /\ w[e] = Tail(wire[e]) /\ w[Other(e)] = Append(wire[Other(e)], m)
    BY <1>1 DEF OnEnds
<1>3. wire' = w
    BY DEF SendAct
<1> HIDE DEF w
<1> QED BY <1>2, <1>3, Zenon

(* Nothing has been sent, derived or learned when the sockets connect.     *)
LEMMA HandshakeBegins == HandshakeInit => HandshakeInv
<1> SUFFICES ASSUME HandshakeInit PROVE HandshakeInv
    OBVIOUS
<1>1. Shape
    BY TwoEnds, Zenon DEF HandshakeInit, Shape, OnEnds, States, I, R
<1>2. InitiatorInv
    BY TwoEnds DEF HandshakeInit, InitiatorInv, Blank, Nothing, I, R
<1>3. ResponderInv
    BY TwoEnds DEF HandshakeInit, ResponderInv, Blank, Nothing, AtMost, Undamaged, I, R
<1> QED BY <1>1, <1>2, <1>3 DEF HandshakeInv

-----------------------------------------------------------------------------
(* The first act goes out.                                                 *)
LEMMA InitiateStep == HandshakeInv /\ InitiateHandshake => HandshakeInv'
<1> SUFFICES ASSUME HandshakeInv, InitiateHandshake PROVE HandshakeInv'
    OBVIOUS
<1> USE DEF HandshakeInv
<1>1. /\ hs[I] = "INITIATOR_INITIATING" /\ hs[R] = "AWAITING_INITIATOR"
      /\ Blank(I) /\ Blank(R) /\ Nothing(R) /\ Nothing(I) /\ rpk[R] = None
    BY DEF InitiateHandshake, InitiatorInv, ResponderInv, I
<1>2. /\ hs' = [hs EXCEPT ![I] = "AWAITING_RESPONDER_REPLY"]
      /\ wire' = [wire EXCEPT ![R] = Append(@, Sent1(rpk[I]))]
      /\ h' = [h EXCEPT ![I] = After1(rpk[I])]
      /\ ck' = [ck EXCEPT ![I] = Chain1(rpk[I])]
      /\ UNCHANGED <<rpk, repk, sk, rk, open, disturbed>>
    <2>1. es(I) = IE
        BY DEF es, I, IE
    <2> QED BY <2>1, TwoEnds, Zenon DEF InitiateHandshake, Goto, Transcript, I, After1,
            Hash1, Sent1, Box1, Chain1
<1>3. wire'[R] = <<Sent1(rpk[I])>> /\ wire'[I] = <<>>
    BY <1>1, <1>2, TwoEnds, OneAct DEF Nothing, Shape, OnEnds
<1>4. Shape'
    <2>1. /\ OnEnds(wire') /\ OnEnds(h') /\ OnEnds(ck')
          /\ OnEnds(rpk') /\ OnEnds(repk') /\ OnEnds(sk') /\ OnEnds(rk')
        BY <1>2, TwoEnds, Update, Zenon DEF Shape
    <2>2. hs' \in [Ends -> States] /\ hs'[I] = "AWAITING_RESPONDER_REPLY" /\ hs'[R] = hs[R]
        BY <1>2, TwoEnds DEF Shape, States
    <2> QED BY <1>2, <2>1, <2>2 DEF Shape
<1>5. hs'[I] = "AWAITING_RESPONDER_REPLY" /\ hs'[R] = "AWAITING_INITIATOR"
    BY <1>1, <1>2, TwoEnds DEF Shape
<1>6. h'[I] = After1(rpk[I]) /\ ck'[I] = Chain1(rpk[I])
    BY <1>2, TwoEnds DEF Shape, OnEnds
<1>7. InitiatorInv'
    BY <1>1, <1>2, <1>5, <1>6 DEF InitiatorInv, Blank
<1>8. ResponderInv'
    BY <1>1, <1>2, <1>3, <1>5 DEF ResponderInv, Blank, Nothing, AtMost, Undamaged, Received
<1> QED BY <1>4, <1>7, <1>8

(* The responder accepts the first act only when it is the intended peer;  *)
(* its transcript is then the initiator's.                                 *)
LEMMA InitiatorStep == HandshakeInv /\ ProcessInitiator => HandshakeInv'
<1> SUFFICES ASSUME HandshakeInv, ProcessInitiator PROVE HandshakeInv'
    OBVIOUS
<1> USE DEF HandshakeInv
<1> DEFINE m == Head(wire[R])
<1>1. hs[R] = "AWAITING_INITIATOR" /\ wire[R] # <<>> /\ Act1Valid(R, m)
    BY DEF ProcessInitiator, ReadsAct, Act, R
<1>2. /\ Blank(R) /\ rpk[R] = None /\ Nothing(I)
      /\ \E u \in Received(Sent1(rpk[I])) : wire[R] = <<u>>
    BY <1>1 DEF ResponderInv, AtMost, Nothing
<1>3. m \in Received(Sent1(rpk[I])) /\ wire[R] = <<m>>
    BY <1>2, OneAct
<1> HIDE DEF m
<1>4. rpk[I] = RS /\ m = Sent1(RS)
    BY <1>1, <1>3, Act1Genuine
<1>5. m.re = IE /\ m.c = Box1(RS)
    BY <1>4 DEF Sent1
<1>6. Act1Hash(R, m) = Hash1(RS) /\ Act1Chain(R, m) = Chain1(RS)
    BY <1>5, SharedSecret DEF Act1Hash, Act1Chain, Hash1, Chain1, ls, R, RS
<1>7. /\ hs' = [hs EXCEPT ![R] = "AWAITING_INITIATOR_REPLY"]
      /\ repk' = [repk EXCEPT ![R] = IE]
      /\ h' = [h EXCEPT ![R] = After2]
      /\ ck' = [ck EXCEPT ![R] = Chain2]
      /\ SendAct(R, Sent2)
      /\ UNCHANGED <<rpk, sk, rk, open, disturbed>>
    <2>1. Act("responder") = m /\ es("responder") = ER
        BY DEF m, Act, R, es, ER
    <2>2. /\ Goto(R, "AWAITING_INITIATOR_REPLY")
          /\ repk' = [repk EXCEPT ![R] = m.re]
          /\ LET h2 == Mix(Mix(Act1Hash(R, m), m.c), ER)
                 c2 == Mix(Act1Chain(R, m), ECDH(m.re, ER))
                 c  == Box(Temp(c2), 0, h2, None)
             IN  /\ Transcript(R, Mix(h2, c), c2)
                 /\ SendAct(R, [act |-> 2, len |-> 50, v |-> 0, re |-> ER, c |-> c])
          /\ UNCHANGED <<rpk, sk, rk, open, disturbed>>
        BY <2>1, Zenon DEF ProcessInitiator, R
    <2>3. /\ Transcript(R, After2, Chain2) /\ SendAct(R, Sent2)
        BY <1>5, <1>6, <2>2 DEF After2, Hash2, Sent2, Box2, Chain2, After1
    <2> QED BY <1>5, <2>2, <2>3, Zenon DEF Goto, Transcript
<1>8. OnEnds(wire') /\ wire'[R] = <<>> /\ wire'[I] = <<Sent2>>
    <2>1. /\ OnEnds(wire')
          /\ wire'[R] = Tail(wire[R]) /\ wire'[I] = Append(wire[I], Sent2)
        BY <1>7, SendActWire, TwoEnds
    <2> QED BY <1>2, <1>3, <2>1, OneAct DEF Nothing
<1>9. Shape'
    <2>1. /\ OnEnds(wire') /\ OnEnds(h') /\ OnEnds(ck')
          /\ OnEnds(rpk') /\ OnEnds(repk') /\ OnEnds(sk') /\ OnEnds(rk')
        <3>1. OnEnds(repk') /\ OnEnds(h') /\ OnEnds(ck')
            BY <1>7, TwoEnds, Update, Zenon DEF Shape
        <3>3. OnEnds(rpk') /\ OnEnds(sk') /\ OnEnds(rk')
            BY <1>7, Zenon DEF Shape
        <3> QED BY <1>8, <3>1, <3>3
    <2>2. hs' \in [Ends -> States] /\ hs'[R] = "AWAITING_INITIATOR_REPLY" /\ hs'[I] = hs[I]
        BY <1>7, TwoEnds DEF Shape, States
    <2> QED BY <1>7, <2>1, <2>2 DEF Shape
<1>10. /\ hs'[R] = "AWAITING_INITIATOR_REPLY" /\ hs'[I] = hs[I]
       /\ hs[I] = "AWAITING_RESPONDER_REPLY"
    BY <1>1, <1>3, <1>7, TwoEnds, OneAct DEF Shape, InitiatorInv, Nothing
<1>11. /\ h'[R] = After2 /\ ck'[R] = Chain2 /\ repk'[R] = IE
       /\ h'[I] = h[I] /\ ck'[I] = ck[I] /\ repk'[I] = repk[I]
    <2>1. OnEnds(h) /\ OnEnds(ck) /\ OnEnds(repk)
        BY DEF Shape
    <2> DOMAIN h = Ends /\ DOMAIN ck = Ends /\ DOMAIN repk = Ends
        BY <2>1 DEF OnEnds
    <2>2. h'[R] = After2 /\ h'[I] = h[I]
        BY <1>7, TwoEnds
    <2>3. ck'[R] = Chain2 /\ ck'[I] = ck[I]
        BY <1>7, TwoEnds
    <2>4. repk'[R] = IE /\ repk'[I] = repk[I]
        BY <1>7, TwoEnds
    <2> QED BY <2>2, <2>3, <2>4
<1>12. InitiatorInv'
    BY <1>7, <1>10, <1>11 DEF InitiatorInv, Blank
<1>13. ResponderInv'
    BY <1>2, <1>4, <1>7, <1>8, <1>10, <1>11
        DEF ResponderInv, Blank, Nothing, AtMost, Undamaged, Received
<1> QED BY <1>9, <1>12, <1>13

(* The initiator accepts the reply of the responder it dialled and of      *)
(* nobody else, and is READY.                                              *)
LEMMA ReplyStep == HandshakeInv /\ ProcessResponderReply => HandshakeInv'
<1> SUFFICES ASSUME HandshakeInv, ProcessResponderReply PROVE HandshakeInv'
    OBVIOUS
<1> USE DEF HandshakeInv
<1> DEFINE m == Head(wire[I])
<1>1. hs[I] = "AWAITING_RESPONDER_REPLY" /\ wire[I] # <<>> /\ Act2Valid(I, m)
    BY DEF ProcessResponderReply, ReadsAct, Act, I
<1>2. hs[R] = "AWAITING_INITIATOR_REPLY"
    BY <1>1 DEF Shape, InitiatorInv, ResponderInv, Nothing
<1>3. /\ rpk[I] = RS /\ rpk[R] = None /\ sk[R] = NoKey /\ repk[R] = IE
      /\ h[R] = After2 /\ ck[R] = Chain2 /\ Nothing(R)
      /\ \E u \in Received(Sent2) : wire[I] = <<u>>
    BY <1>1, <1>2 DEF ResponderInv, AtMost, Nothing
<1>4. h[I] = After1(RS) /\ ck[I] = Chain1(RS)
    BY <1>1, <1>3 DEF InitiatorInv
<1>5. m \in Received(Sent2) /\ wire[I] = <<m>>
    BY <1>3, OneAct
<1> HIDE DEF m
<1>6. m = Sent2
    BY <1>1, <1>4, <1>5, Act2Genuine
<1>7. m.re = ER /\ m.c = Box2
    BY <1>6 DEF Sent2
<1>8. Act2Hash(I, m) = Hash2 /\ Act2Chain(I, m) = Chain2
    <2>1. es(I) = IE
        BY DEF es, I, IE
    <2> QED BY <1>4, <1>7, <2>1, SharedSecret DEF Act2Hash, Act2Chain, Hash2, Chain2
<1>9. /\ hs' = [hs EXCEPT ![I] = "READY"]
      /\ repk' = [repk EXCEPT ![I] = ER]
      /\ h' = [h EXCEPT ![I] = Hash3]
      /\ ck' = [ck EXCEPT ![I] = Chain3]
      /\ sk' = [sk EXCEPT ![I] = Half(1, Chain3)]
      /\ rk' = [rk EXCEPT ![I] = Half(2, Chain3)]
      /\ SendAct(I, Sent3)
      /\ UNCHANGED <<rpk, open, disturbed>>
    <2>1. Act("initiator") = m /\ ls("initiator") = IS
        BY DEF m, Act, I, ls, IS
    <2>2. /\ Goto(I, "READY")
          /\ repk' = [repk EXCEPT ![I] = m.re]
          /\ LET h2 == Mix(Act2Hash(I, m), m.c)
                 c2 == Act2Chain(I, m)
                 c  == Box(Temp(c2), 1, h2, IS)
                 h3 == Mix(h2, c)
                 c3 == Mix(c2, ECDH(m.re, IS))
                 t  == Box(Temp(c3), 0, h3, None)
             IN  /\ Transcript(I, h3, c3)
                 /\ DeriveKeys(I, 1, 2, c3)
                 /\ SendAct(I, [act |-> 3, len |-> 66, v |-> 0, c |-> c, t |-> t])
          /\ UNCHANGED <<rpk, open, disturbed>>
        BY <2>1, Zenon DEF ProcessResponderReply, I
    <2>3. /\ Transcript(I, Hash3, Chain3) /\ DeriveKeys(I, 1, 2, Chain3)
          /\ SendAct(I, Sent3)
        BY <1>7, <1>8, <2>2 DEF After2, Box3, Hash3, Chain3, Tag3, Sent3
    <2> QED BY <1>7, <2>2, <2>3, Zenon DEF Goto, Transcript, DeriveKeys
<1>10. OnEnds(wire') /\ wire'[I] = <<>> /\ wire'[R] = <<Sent3>>
    <2>1. /\ OnEnds(wire')
          /\ wire'[I] = Tail(wire[I]) /\ wire'[R] = Append(wire[R], Sent3)
        BY <1>9, SendActWire, TwoEnds
    <2> QED BY <1>3, <1>5, <2>1, OneAct DEF Nothing
<1>11. Shape'
    <2>1. /\ OnEnds(repk') /\ OnEnds(h') /\ OnEnds(ck') /\ OnEnds(sk') /\ OnEnds(rk')
        BY <1>9, TwoEnds, Update, Zenon DEF Shape
    <2>2. OnEnds(rpk')
        BY <1>9, Zenon DEF Shape
    <2>3. hs' \in [Ends -> States] /\ hs'[I] = "READY" /\ hs'[R] = hs[R]
        BY <1>9, TwoEnds DEF Shape, States
    <2> QED BY <1>9, <1>10, <2>1, <2>2, <2>3 DEF Shape
<1>12. hs'[I] = "READY" /\ hs'[R] = "AWAITING_INITIATOR_REPLY"
    BY <1>2, <1>9, TwoEnds DEF Shape
<1>13. /\ repk'[I] = ER /\ repk'[R] = IE
       /\ h'[I] = Hash3 /\ h'[R] = After2
       /\ ck'[I] = Chain3 /\ ck'[R] = Chain2
       /\ Halves(I, 1, 2)' /\ sk'[R] = NoKey
    <2> DOMAIN repk = Ends /\ DOMAIN h = Ends /\ DOMAIN ck = Ends
        BY DEF Shape, OnEnds
    <2> DOMAIN sk = Ends /\ DOMAIN rk = Ends
        BY DEF Shape, OnEnds
    <2>1. repk'[I] = ER /\ repk'[R] = IE
        BY <1>3, <1>9, TwoEnds
    <2>2. h'[I] = Hash3 /\ h'[R] = After2
        BY <1>3, <1>9, TwoEnds
    <2>3. ck'[I] = Chain3 /\ ck'[R] = Chain2
        BY <1>3, <1>9, TwoEnds
    <2>4. Halves(I, 1, 2)' /\ sk'[R] = NoKey
        BY <1>3, <1>9, TwoEnds DEF Halves
    <2> QED BY <2>1, <2>2, <2>3, <2>4
<1>14. InitiatorInv'
    BY <1>3, <1>9, <1>12, <1>13 DEF InitiatorInv
<1>15. ResponderInv'
    BY <1>3, <1>9, <1>10, <1>12, <1>13
        DEF ResponderInv, Nothing, AtMost, Undamaged, Received
<1> QED BY <1>11, <1>14, <1>15

(* The responder accepts the third act only as its initiator sealed it:    *)
(* both transcripts end the same, with the initiator's true static key.    *)
LEMMA ThirdActStep == HandshakeInv /\ ProcessInitiatorReply => HandshakeInv'
<1> SUFFICES ASSUME HandshakeInv, ProcessInitiatorReply PROVE HandshakeInv'
    OBVIOUS
<1> USE DEF HandshakeInv
<1> DEFINE m == Head(wire[R])
<1>1. hs[R] = "AWAITING_INITIATOR_REPLY" /\ wire[R] # <<>> /\ Act3Valid(R, m)
    BY DEF ProcessInitiatorReply, ReadsAct, Act, R
<1>2. /\ hs[I] = "READY" /\ Nothing(I) /\ repk[R] = IE
      /\ h[R] = After2 /\ ck[R] = Chain2
      /\ \E u \in Received(Sent3) : wire[R] = <<u>>
    BY <1>1 DEF ResponderInv, AtMost, Nothing
<1>3. m \in Received(Sent3) /\ wire[R] = <<m>>
    BY <1>2, OneAct
<1> HIDE DEF m
<1>4. m = Sent3
    BY <1>1, <1>2, <1>3, Act3Genuine
<1>5. m.c = Box3 /\ m.c.plain = IS
    BY <1>4 DEF Sent3, Box3, Box
<1>6. Act3Hash(R, m) = Hash3 /\ Act3Chain(R, m) = Chain3
    <2>1. es(R) = ER
        BY DEF es, I, R, ER
    <2> QED BY <1>2, <1>5, <2>1, SharedSecret DEF Act3Hash, Act3Chain, Hash3, Chain3
<1>7. /\ hs' = [hs EXCEPT ![R] = "READY"]
      /\ rpk' = [rpk EXCEPT ![R] = IS]
      /\ h' = [h EXCEPT ![R] = Hash3]
      /\ ck' = [ck EXCEPT ![R] = Chain3]
      /\ sk' = [sk EXCEPT ![R] = Half(2, Chain3)]
      /\ rk' = [rk EXCEPT ![R] = Half(1, Chain3)]
      /\ wire' = [wire EXCEPT ![R] = Tail(@)]
      /\ UNCHANGED <<repk, open, disturbed>>
    <2>1. Act("responder") = m
        BY DEF m, Act, R
    <2>2. /\ Goto(R, "READY")
          /\ rpk' = [rpk EXCEPT ![R] = m.c.plain]
          /\ Transcript(R, Act3Hash(R, m), Act3Chain(R, m))
          /\ DeriveKeys(R, 2, 1, Act3Chain(R, m))
          /\ wire' = [wire EXCEPT ![R] = Tail(@)]
          /\ UNCHANGED <<repk, open, disturbed>>
        BY <2>1, Zenon DEF ProcessInitiatorReply, R
    <2> QED BY <1>5, <1>6, <2>2, Zenon DEF Goto, Transcript, DeriveKeys
<1>8. OnEnds(wire') /\ wire'[R] = <<>> /\ wire'[I] = wire[I]
    <2>1. OnEnds(wire)
        BY DEF Shape
    <2>2. OnEnds(wire')
        BY <1>7, <2>1, TwoEnds, Update, Zenon
    <2>3. wire'[R] = Tail(wire[R]) /\ wire'[I] = wire[I]
        BY <1>7, <2>1, TwoEnds DEF OnEnds
    <2> QED BY <1>3, <2>2, <2>3, OneAct
<1>9. Shape'
    <2>1. /\ OnEnds(rpk') /\ OnEnds(h') /\ OnEnds(ck') /\ OnEnds(sk') /\ OnEnds(rk')
        BY <1>7, TwoEnds, Update, Zenon DEF Shape
    <2>2. OnEnds(repk')
        BY <1>7, Zenon DEF Shape
    <2>3. hs' \in [Ends -> States] /\ hs'[R] = "READY" /\ hs'[I] = hs[I]
        BY <1>7, TwoEnds DEF Shape, States
    <2>4. rpk'[I] = rpk[I]
        BY <1>7, TwoEnds DEF Shape, OnEnds
    <2> QED BY <1>7, <1>8, <2>1, <2>2, <2>3, <2>4 DEF Shape
<1>10. hs'[R] = "READY" /\ hs'[I] = "READY"
    BY <1>2, <1>7, TwoEnds DEF Shape
<1>11. /\ rpk'[R] = IS /\ rpk'[I] = rpk[I]
       /\ h'[R] = Hash3 /\ h'[I] = h[I]
       /\ ck'[R] = Chain3 /\ ck'[I] = ck[I]
       /\ Halves(R, 2, 1)' /\ sk'[I] = sk[I] /\ rk'[I] = rk[I]
    <2> DOMAIN rpk = Ends /\ DOMAIN h = Ends /\ DOMAIN ck = Ends
        BY DEF Shape, OnEnds
    <2> DOMAIN sk = Ends /\ DOMAIN rk = Ends
        BY DEF Shape, OnEnds
    <2>1. rpk'[R] = IS /\ rpk'[I] = rpk[I]
        BY <1>7, TwoEnds
    <2>2. h'[R] = Hash3 /\ h'[I] = h[I]
        BY <1>7, TwoEnds
    <2>3. ck'[R] = Chain3 /\ ck'[I] = ck[I]
        BY <1>7, TwoEnds
    <2>4. Halves(R, 2, 1)' /\ sk'[I] = sk[I] /\ rk'[I] = rk[I]
        BY <1>7, TwoEnds DEF Halves
    <2> QED BY <2>1, <2>2, <2>3, <2>4
<1>12. InitiatorInv'
    BY <1>2, <1>7, <1>10, <1>11 DEF InitiatorInv, Halves
<1>13. ResponderInv'
    BY <1>2, <1>7, <1>8, <1>10, <1>11 DEF ResponderInv, Nothing
<1> QED BY <1>9, <1>12, <1>13

(* A socket that is destroyed, by an act that does not open, a reset or a  *)
(* lost connection, keeps its NoiseState.                                  *)
LEMMA ClosingStep ==
    ASSUME HandshakeInv, NEW e \in Ends,
           ActFails(e) \/ ConnectionReset(e) \/ ConnectionLost(e)
    PROVE  HandshakeInv'
<1>1. /\ open' \in [Ends -> BOOLEAN] /\ disturbed' \in BOOLEAN
      /\ disturbed => disturbed'
      /\ UNCHANGED <<hs, rpk, repk, h, ck, sk, rk, wire>>
    <2>1. /\ open' = [open EXCEPT ![e] = FALSE]
          /\ disturbed' = TRUE \/ disturbed' = disturbed
          /\ UNCHANGED <<hs, rpk, repk, h, ck, sk, rk, wire>>
        BY Zenon DEF ActFails, ConnectionReset, ConnectionLost, Destroy
    <2>2. open' \in [Ends -> BOOLEAN]
        BY <2>1 DEF HandshakeInv, Shape
    <2>3. disturbed' \in BOOLEAN /\ (disturbed => disturbed')
        BY <2>1, Zenon DEF HandshakeInv, Shape
    <2> QED BY <2>1, <2>2, <2>3
<1>2. Shape'
    BY <1>1 DEF HandshakeInv, Shape, OnEnds
<1>3. InitiatorInv'
    BY <1>1 DEF HandshakeInv, InitiatorInv, Blank, Nothing, Halves
<1>4. ResponderInv'
    BY <1>1 DEF HandshakeInv, ResponderInv, Blank, Nothing, Halves, AtMost, Undamaged
<1> QED BY <1>2, <1>3, <1>4 DEF HandshakeInv

(* Damage is done to an act that was intact until then.                    *)
LEMMA DamageStep ==
    ASSUME HandshakeInv, NEW e \in Ends, DamageAct(e) PROVE HandshakeInv'
<1>1. /\ ~disturbed /\ wire[e] # <<>> /\ disturbed' = TRUE
      /\ UNCHANGED <<hs, rpk, repk, h, ck, sk, rk, open>>
    BY Zenon DEF DamageAct
<1>2. PICK m \in Damaged(Head(wire[e])) : wire' = [wire EXCEPT ![e] = <<m>> \o Tail(@)]
    BY Zenon DEF DamageAct
<1>3. OnEnds(wire)
    BY DEF HandshakeInv, Shape
<1>4. OnEnds(wire') /\ wire'[e] = <<m>> \o Tail(wire[e])
      /\ \A k \in Ends : k # e => wire'[k] = wire[k]
    <2>1. wire' = [wire EXCEPT ![e] = <<m>> \o Tail(wire[e])]
        BY <1>2
    <2>2. DOMAIN wire = Ends
        BY <1>3 DEF OnEnds
    <2>3. wire'[e] = <<m>> \o Tail(wire[e]) /\ \A k \in Ends : k # e => wire'[k] = wire[k]
        BY <2>1, <2>2
    <2>4. OnEnds(wire')
        BY <1>3, <2>1 DEF OnEnds
    <2> QED BY <2>3, <2>4
<1>5. ASSUME NEW sent, Undamaged(e, sent) PROVE AtMost(e, sent)'
    <2>1. wire[e] = <<sent>>
        BY <1>1, <1>5 DEF Undamaged, Nothing
    <2>2. m \in Received(sent)
        BY <1>2, <2>1, OneAct DEF Received
    <2>3. wire'[e] = <<m>>
        BY <1>4, <2>1
    <2> QED BY <2>2, <2>3 DEF AtMost, Received, Damaged
<1>6. Shape'
    BY <1>1, <1>4 DEF HandshakeInv, Shape, OnEnds
<1>7. CASE e = R
    <2>1. wire'[I] = wire[I]
        BY <1>4, <1>7, TwoEnds
    <2>2. hs[I] # "INITIATOR_INITIATING" /\ ~Nothing(R)
        BY <1>1, <1>7 DEF HandshakeInv, InitiatorInv, Nothing
    <2>3. InitiatorInv'
        BY <1>1, <2>2 DEF HandshakeInv, InitiatorInv, Blank, Halves
    <2>4. ResponderInv'
        BY <1>1, <1>5, <1>7, <2>1, <2>2
            DEF HandshakeInv, ResponderInv, Blank, Nothing, Undamaged
    <2> QED BY <1>6, <2>3, <2>4 DEF HandshakeInv
<1>8. CASE e = I
    <2>1. wire'[R] = wire[R]
        BY <1>4, <1>8, TwoEnds
    <2>2. ~Nothing(I)
        BY <1>1, <1>8 DEF Nothing
    <2>3. InitiatorInv'
        BY <1>1, <2>1 DEF HandshakeInv, InitiatorInv, Blank, Halves, Nothing
    <2>4. ResponderInv'
        BY <1>1, <1>5, <1>8, <2>1, <2>2
            DEF HandshakeInv, ResponderInv, Blank, Nothing, Undamaged
    <2> QED BY <1>6, <2>3, <2>4 DEF HandshakeInv
<1> QED BY <1>7, <1>8, TwoEnds

LEMMA StepInv == HandshakeInv /\ [HandshakeNext]_handshakeVars => HandshakeInv'
<1> SUFFICES ASSUME HandshakeInv, [HandshakeNext]_handshakeVars PROVE HandshakeInv'
    OBVIOUS
<1>1. CASE InitiateHandshake
    BY <1>1, InitiateStep
<1>2. ASSUME NEW e \in Ends, OnData(e) PROVE HandshakeInv'
    BY <1>2, InitiatorStep, ReplyStep, ThirdActStep, ClosingStep DEF OnData
<1>3. ASSUME NEW e \in Ends, ConnectionReset(e) \/ DamageAct(e) \/ ConnectionLost(e)
      PROVE  HandshakeInv'
    BY <1>3, ClosingStep, DamageStep
<1>4. CASE UNCHANGED handshakeVars
    <2>1. Shape'
        BY <1>4 DEF HandshakeInv, Shape, OnEnds, handshakeVars
    <2>2. InitiatorInv'
        BY <1>4 DEF HandshakeInv, InitiatorInv, Blank, Nothing, Halves, handshakeVars
    <2>3. ResponderInv'
        BY <1>4 DEF HandshakeInv, ResponderInv, Blank, Nothing, Halves, AtMost, Undamaged,
            handshakeVars
    <2> QED BY <2>1, <2>2, <2>3 DEF HandshakeInv
<1> QED BY <1>1, <1>2, <1>3, <1>4 DEF HandshakeNext

-----------------------------------------------------------------------------
LEMMA Invariance == HandshakeSpec => []HandshakeInv
BY HandshakeBegins, StepInv, PTL DEF HandshakeSpec

(* An end is READY exactly when it has traffic keys, at most one act is on *)
(* its way to it, and the keys it has learned are keys that exist.         *)
THEOREM TypeCorrect == HandshakeSpec => []HandshakeTypeOK
<1>1. ASSUME HandshakeInv PROVE HandshakeTypeOK
    <2>1. \A x, y, n : Half(1, x) # Half(0, y) /\ Half(2, x) # Half(0, y)
        BY DEF Half
    <2>2. \A m : Len(<<m>>) <= 1 /\ Len(<<>>) <= 1
        OBVIOUS
    <2>3. /\ rpk[I] \in Dialable \cup {InitiatorStatic, None}
          /\ repk[I] \in {InitiatorEphemeral, ResponderEphemeral, None}
          /\ Ready(I) <=> sk[I] # NoKey
        BY <1>1, <2>1 DEF HandshakeInv, Shape, InitiatorInv, Blank, Halves, Ready, NoKey, ER
    <2>4. /\ rpk[R] \in Dialable \cup {InitiatorStatic, None}
          /\ repk[R] \in {InitiatorEphemeral, ResponderEphemeral, None}
          /\ Ready(R) <=> sk[R] # NoKey
        BY <1>1, <2>1
            DEF HandshakeInv, Shape, ResponderInv, Blank, Halves, Ready, NoKey, IE, IS
    <2>5. Len(wire[I]) <= 1 /\ Len(wire[R]) <= 1
        <3>1. /\ wire[I] = <<>> \/ \E m : wire[I] = <<m>>
              /\ wire[R] = <<>> \/ \E m : wire[R] = <<m>>
            BY <1>1 DEF HandshakeInv, Shape, ResponderInv, Nothing, AtMost
        <3>2. Len(<<>>) = 0 /\ \A m : Len(<<m>>) = 1
            OBVIOUS
        <3>3. \A w : w = <<>> \/ (\E m : w = <<m>>) => Len(w) <= 1
            BY <3>2
        <3> QED BY <3>1, <3>3, Zenon
    <2> QED BY <1>1, <2>3, <2>4, <2>5, TwoEnds DEF HandshakeTypeOK, HandshakeInv, Shape
<1> QED BY <1>1, Invariance, PTL

(* Whatever key was dialled and whatever happens on the wire, an initiator *)
(* that finishes has the responder it dialled: see OnlyTheDialledKey.      *)
THEOREM DialledKeyOnly == HandshakeSpec => []OnlyTheDialledKey
<1>1. HandshakeInv => OnlyTheDialledKey
    BY DEF HandshakeInv, InitiatorInv, OnlyTheDialledKey, Ready, I, RS, ER
<1> QED BY <1>1, Invariance, PTL

(* The two ends of a finished handshake agree on everything they learned   *)
(* and derived: see ReadyMeansAgreed.                                      *)
THEOREM Agreement == HandshakeSpec => []ReadyMeansAgreed
<1>1. ASSUME HandshakeInv PROVE ReadyMeansAgreed
    <2>1. Half(1, Chain3) # Half(2, Chain3)
        BY DEF Half
    <2> QED BY <1>1, <2>1 DEF HandshakeInv, InitiatorInv, ResponderInv, Halves,
                ReadyMeansAgreed, Ready, I, R, IS, IE
<1> QED BY <1>1, Invariance, PTL

-----------------------------------------------------------------------------
(***************************************************************************)
(* The peer.                                                               *)
(***************************************************************************)
(* The inductive invariant.  The ping interval is known to be off while    *)
(* the peer awaits its init, so that starting it leaves one; a scheduled   *)
(* reconnection excludes a socket, so that a new one never takes the place *)
(* of one in use.                                                          *)
PingsFollowState ==
    /\ OnePinger /\ QuietWhenDown
    /\ state = "AwaitingPeerInit" => ~held

SocketFollowsState ==
    /\ ReadyIsCurrent
    /\ sock = "connecting" => ~readyFired
    /\ backoff => sock = "closed"
    /\ closed => sock = "closed" /\ ~backoff

Reopens == isInitiator /\ sock = "closed" => backoff \/ closed

IInv == TypeOK /\ PingsFollowState /\ SocketFollowsState /\ Reopens

(* The two halves of TypeOK: the Boolean variables, and the others.        *)
Flags ==
    /\ isInitiator \in BOOLEAN /\ backoff \in BOOLEAN /\ ended \in BOOLEAN
    /\ notify \in BOOLEAN /\ reading \in BOOLEAN /\ loop \in BOOLEAN
    /\ held \in BOOLEAN /\ pongTimer \in BOOLEAN /\ sentPing \in BOOLEAN
    /\ heard \in BOOLEAN
    /\ wanted \in BOOLEAN /\ pending \in BOOLEAN /\ revived \in BOOLEAN
    /\ closed \in BOOLEAN /\ readyFired \in BOOLEAN

Data ==
    /\ state \in {"Disconnected", "AwaitingPeerInit", "Ready", "Disconnecting"}
    /\ sock \in {"none", "connecting", "up", "closed"}
    /\ out \in Nat /\ live \in Nat
    /\ inbox \in Seq(Kinds) /\ budget \in 0..Budget
    /\ pings \in 0..(PingFloodThreshold + 1)

LEMMA TypeParts == TypeOK <=> Flags /\ Data
BY Zenon DEF TypeOK, Flags, Data

LEMMA TypePartsNext == Flags' /\ Data' => TypeOK'
BY Zenon DEF TypeOK, Flags, Data

LEMMA PushFlag == Push => loop' \in BOOLEAN /\ reading' \in BOOLEAN
<1> SUFFICES ASSUME Push PROVE loop' \in BOOLEAN /\ reading' \in BOOLEAN
    OBVIOUS
<1>1. CASE out + 1 < HighWaterMark
    BY <1>1 DEF Push
<1>2. CASE ~(out + 1 < HighWaterMark)
    <2>1. loop' \in BOOLEAN
        BY <1>2 DEF Push
    <2> QED BY <2>1, Zenon DEF Push
<1> QED BY <1>1, <1>2

LEMMA InitInv == Init => IInv
<1> SUFFICES ASSUME Init PROVE IInv
    OBVIOUS
<1>1. TypeOK
    <2>1. isInitiator \in BOOLEAN
        BY PeerAssumption DEF Init
    <2>2. inbox \in Seq(Kinds) /\ budget \in 0..Budget /\ pings \in 0..(PingFloodThreshold + 1)
        BY PeerAssumption, EmptySeq DEF Init
    <2>3. Flags
        BY <2>1, Zenon DEF Init, Flags
    <2>4. Data
        BY <2>2 DEF Init, Data
    <2> QED BY <2>3, <2>4, TypeParts
<1>2. PingsFollowState /\ SocketFollowsState /\ Reopens
    BY DEF Init, PingsFollowState, SocketFollowsState, Reopens, OnePinger, QuietWhenDown,
           ReadyIsCurrent
<1> QED BY <1>1, <1>2 DEF IInv

-----------------------------------------------------------------------------
(* What TypeOK says of the variables that are not Boolean.                 *)
LEMMA NextInv == IInv /\ [Next]_vars => IInv'
<1> SUFFICES ASSUME IInv, [Next]_vars PROVE IInv'
    OBVIOUS
<1>1. CASE UserConnects
    <2>1. TypeOK'
        <3>1. Flags'
            BY <1>1, PeerAssumption, TypeParts, ZenonT(60) DEF UserConnects, NewSocket,
                Flags, IInv, sockVars, pingVars, history
        <3>2. Data'
            BY <1>1, PeerAssumption, TypeParts DEF UserConnects, NewSocket, Data, IInv,
                OnePinger, PingsFollowState, sockVars, pingVars, history
        <3> QED BY <3>1, <3>2, TypePartsNext
    <2>2. PingsFollowState'
        BY <1>1 DEF UserConnects, NewSocket, IInv, TypeOK, PingsFollowState, OnePinger,
            QuietWhenDown, SocketFollowsState, ReadyIsCurrent, sockVars, pingVars, history
    <2>3. SocketFollowsState'
        BY <1>1 DEF UserConnects, NewSocket, IInv, TypeOK, SocketFollowsState,
            ReadyIsCurrent, sockVars, pingVars, history
    <2>4. Reopens'
        BY <1>1 DEF UserConnects, NewSocket, IInv, TypeOK, Reopens, SocketFollowsState,
            ReadyIsCurrent, sockVars, pingVars, history
    <2> QED BY <2>1, <2>2, <2>3, <2>4 DEF IInv
<1>2. CASE UserDisconnects
    <2>1. TypeOK'
        <3>1. Flags'
            BY <1>2, PeerAssumption, TypeParts, ZenonT(60) DEF UserDisconnects,
                DisconnectAsked, Disconnect, Flags, IInv, sockVars, pingVars, history
        <3>2. Data'
            BY <1>2, PeerAssumption, TypeParts DEF UserDisconnects, DisconnectAsked,
                Disconnect, Data, IInv, OnePinger, PingsFollowState, sockVars, pingVars,
                history
        <3> QED BY <3>1, <3>2, TypePartsNext
    <2>2. PingsFollowState'
        BY <1>2 DEF UserDisconnects, DisconnectAsked, Disconnect, IInv, TypeOK,
            PingsFollowState, OnePinger, QuietWhenDown, SocketFollowsState, ReadyIsCurrent,
            sockVars, pingVars, history
    <2>3. SocketFollowsState'
        BY <1>2 DEF UserDisconnects, DisconnectAsked, Disconnect, IInv, TypeOK,
            SocketFollowsState, ReadyIsCurrent, sockVars, pingVars, history
    <2>4. Reopens'
        BY <1>2 DEF UserDisconnects, DisconnectAsked, Disconnect, IInv, TypeOK, Reopens,
            SocketFollowsState, ReadyIsCurrent, sockVars, pingVars, history
    <2> QED BY <2>1, <2>2, <2>3, <2>4 DEF IInv
<1>3. CASE UserReconnects
    <2>1. TypeOK'
        <3>1. Flags'
            BY <1>3, PeerAssumption, TypeParts, ZenonT(60) DEF UserReconnects, Flags, IInv,
                sockVars, pingVars, history
        <3>2. Data'
            BY <1>3, PeerAssumption, TypeParts DEF UserReconnects, Data, IInv, OnePinger,
                PingsFollowState, sockVars, pingVars, history
        <3> QED BY <3>1, <3>2, TypePartsNext
    <2>2. PingsFollowState'
        BY <1>3 DEF UserReconnects, IInv, TypeOK, PingsFollowState, OnePinger,
            QuietWhenDown, SocketFollowsState, ReadyIsCurrent, sockVars, pingVars, history
    <2>3. SocketFollowsState'
        BY <1>3 DEF UserReconnects, IInv, TypeOK, SocketFollowsState, ReadyIsCurrent,
            sockVars, pingVars, history
    <2>4. Reopens'
        BY <1>3 DEF UserReconnects, IInv, TypeOK, Reopens, SocketFollowsState,
            ReadyIsCurrent, sockVars, pingVars, history
    <2> QED BY <2>1, <2>2, <2>3, <2>4 DEF IInv
<1>4. CASE SocketReady
    <2>1. TypeOK'
        <3>1. Flags'
            BY <1>4, PeerAssumption, TypeParts, ZenonT(60) DEF SocketReady, Flags, IInv,
                sockVars, pingVars, history
        <3>2. Data'
            BY <1>4, PeerAssumption, TypeParts DEF SocketReady, Data, IInv, OnePinger,
                PingsFollowState, sockVars, pingVars, history
        <3> QED BY <3>1, <3>2, TypePartsNext
    <2>2. PingsFollowState'
        BY <1>4 DEF SocketReady, IInv, TypeOK, PingsFollowState, OnePinger, QuietWhenDown,
            SocketFollowsState, ReadyIsCurrent, sockVars, pingVars, history
    <2>3. SocketFollowsState'
        BY <1>4 DEF SocketReady, IInv, TypeOK, SocketFollowsState, ReadyIsCurrent, sockVars,
            pingVars, history
    <2>4. Reopens'
        BY <1>4 DEF SocketReady, IInv, TypeOK, Reopens, SocketFollowsState, ReadyIsCurrent,
            sockVars, pingVars, history
    <2> QED BY <2>1, <2>2, <2>3, <2>4 DEF IInv
<1>5. CASE SocketCloses
    <2>1. TypeOK'
        <3>1. Flags'
            BY <1>5, PeerAssumption, TypeParts, ZenonT(60) DEF SocketCloses, StopPings,
                StateAfterClose, Reconnects, Flags, IInv, sockVars, pingVars, history
        <3>2. Data'
            BY <1>5, PeerAssumption, TypeParts DEF SocketCloses, StopPings, StateAfterClose,
                Reconnects, Data, IInv, OnePinger, PingsFollowState, sockVars, pingVars,
                history
        <3> QED BY <3>1, <3>2, TypePartsNext
    <2>2. PingsFollowState'
        BY <1>5 DEF SocketCloses, StopPings, StateAfterClose, Reconnects, IInv, TypeOK,
            PingsFollowState, OnePinger, QuietWhenDown, SocketFollowsState, ReadyIsCurrent,
            sockVars, pingVars, history
    <2>3. SocketFollowsState'
        BY <1>5 DEF SocketCloses, StopPings, StateAfterClose, Reconnects, IInv, TypeOK,
            SocketFollowsState, ReadyIsCurrent, sockVars, pingVars, history
    <2>4. Reopens'
        BY <1>5, Zenon DEF SocketCloses, Reconnects, Reopens
    <2> QED BY <2>1, <2>2, <2>3, <2>4 DEF IInv
<1>6. CASE ReconnectTimer
    <2>1. TypeOK'
        <3>1. Flags'
            BY <1>6, PeerAssumption, TypeParts, ZenonT(60) DEF ReconnectTimer, NewSocket,
                Flags, IInv, sockVars, pingVars, history
        <3>2. Data'
            BY <1>6, PeerAssumption, TypeParts DEF ReconnectTimer, NewSocket, Data, IInv,
                OnePinger, PingsFollowState, sockVars, pingVars, history
        <3> QED BY <3>1, <3>2, TypePartsNext
    <2>2. PingsFollowState'
        BY <1>6 DEF ReconnectTimer, NewSocket, IInv, TypeOK, PingsFollowState, OnePinger,
            QuietWhenDown, SocketFollowsState, ReadyIsCurrent, sockVars, pingVars, history
    <2>3. SocketFollowsState'
        BY <1>6 DEF ReconnectTimer, NewSocket, IInv, TypeOK, SocketFollowsState,
            ReadyIsCurrent, sockVars, pingVars, history
    <2>4. Reopens'
        BY <1>6 DEF ReconnectTimer, NewSocket, IInv, TypeOK, Reopens, SocketFollowsState,
            ReadyIsCurrent, sockVars, pingVars, history
    <2> QED BY <2>1, <2>2, <2>3, <2>4 DEF IInv
<1>7. CASE \E m \in Sends : RemoteSends(m)
    <2>1. TypeOK'
        <3>1. Flags'
            BY <1>7, PeerAssumption, TypeParts, ZenonT(60) DEF RemoteSends, Flags, IInv,
                sockVars, pingVars, history
        <3>2. Data'
            BY <1>7, PeerAssumption, TypeParts, AppendProperties DEF RemoteSends, Data,
                IInv, OnePinger, PingsFollowState, sockVars, pingVars, history
        <3> QED BY <3>1, <3>2, TypePartsNext
    <2>2. PingsFollowState'
        BY <1>7 DEF RemoteSends, IInv, TypeOK, PingsFollowState, OnePinger, QuietWhenDown,
            SocketFollowsState, ReadyIsCurrent, sockVars, pingVars, history
    <2>3. SocketFollowsState'
        BY <1>7 DEF RemoteSends, IInv, TypeOK, SocketFollowsState, ReadyIsCurrent, sockVars,
            pingVars, history
    <2>4. Reopens'
        BY <1>7 DEF RemoteSends, IInv, TypeOK, Reopens, SocketFollowsState, ReadyIsCurrent,
            sockVars, pingVars, history
    <2> QED BY <2>1, <2>2, <2>3, <2>4 DEF IInv
<1>8. CASE Readable
    <2>1. TypeOK'
        <3>1. Flags'
            BY <1>8, PeerAssumption, TypeParts, ZenonT(60) DEF Readable, Flags, IInv,
                sockVars, pingVars, history
        <3>2. Data'
            BY <1>8, PeerAssumption, TypeParts DEF Readable, Data, IInv, OnePinger,
                PingsFollowState, sockVars, pingVars, history
        <3> QED BY <3>1, <3>2, TypePartsNext
    <2>2. PingsFollowState'
        BY <1>8 DEF Readable, IInv, TypeOK, PingsFollowState, OnePinger, QuietWhenDown,
            SocketFollowsState, ReadyIsCurrent, sockVars, pingVars, history
    <2>3. SocketFollowsState'
        BY <1>8 DEF Readable, IInv, TypeOK, SocketFollowsState, ReadyIsCurrent, sockVars,
            pingVars, history
    <2>4. Reopens'
        BY <1>8 DEF Readable, IInv, TypeOK, Reopens, SocketFollowsState, ReadyIsCurrent,
            sockVars, pingVars, history
    <2> QED BY <2>1, <2>2, <2>3, <2>4 DEF IInv
<1>9. CASE ReadNothing
    <2>1. TypeOK'
        <3>1. Flags'
            BY <1>9, PeerAssumption, TypeParts, ZenonT(60) DEF ReadNothing, Flags, IInv,
                sockVars, pingVars, history
        <3>2. Data'
            BY <1>9, PeerAssumption, TypeParts DEF ReadNothing, Data, IInv, OnePinger,
                PingsFollowState, sockVars, pingVars, history
        <3> QED BY <3>1, <3>2, TypePartsNext
    <2>2. PingsFollowState'
        BY <1>9 DEF ReadNothing, IInv, TypeOK, PingsFollowState, OnePinger, QuietWhenDown,
            SocketFollowsState, ReadyIsCurrent, sockVars, pingVars, history
    <2>3. SocketFollowsState'
        BY <1>9 DEF ReadNothing, IInv, TypeOK, SocketFollowsState, ReadyIsCurrent, sockVars,
            pingVars, history
    <2>4. Reopens'
        BY <1>9 DEF ReadNothing, IInv, TypeOK, Reopens, SocketFollowsState, ReadyIsCurrent,
            sockVars, pingVars, history
    <2> QED BY <2>1, <2>2, <2>3, <2>4 DEF IInv
<1>10. CASE ReadsInit
    <2>1. TypeOK'
        <3>1. Flags'
            BY <1>10, PeerAssumption, TypeParts, ZenonT(60) DEF ReadsInit, Reads,
                StartPings, Flags, IInv, sockVars, pingVars, history
        <3>2. Data'
            BY <1>10, PeerAssumption, TypeParts, HeadTailProperties DEF ReadsInit, Reads,
                StartPings, Data, IInv, OnePinger, PingsFollowState, sockVars, pingVars,
                history
        <3> QED BY <3>1, <3>2, TypePartsNext
    <2>2. PingsFollowState'
        BY <1>10 DEF ReadsInit, Reads, StartPings, IInv, TypeOK, PingsFollowState,
            OnePinger, QuietWhenDown, SocketFollowsState, ReadyIsCurrent, sockVars,
            pingVars, history
    <2>3. SocketFollowsState'
        BY <1>10 DEF ReadsInit, Reads, StartPings, IInv, TypeOK, SocketFollowsState,
            ReadyIsCurrent, sockVars, pingVars, history
    <2>4. Reopens'
        BY <1>10 DEF ReadsInit, Reads, StartPings, IInv, TypeOK, Reopens,
            SocketFollowsState, ReadyIsCurrent, sockVars, pingVars, history
    <2> QED BY <2>1, <2>2, <2>3, <2>4 DEF IInv
<1>11. CASE ReadsBadInit
    <2>1. TypeOK'
        <3>1. Flags'
            BY <1>11, PeerAssumption, TypeParts, ZenonT(60) DEF ReadsBadInit, Reads,
                Disconnect, Flags, IInv, sockVars, pingVars, history
        <3>2. Data'
            BY <1>11, PeerAssumption, TypeParts, HeadTailProperties DEF ReadsBadInit, Reads,
                Disconnect, Data, IInv, OnePinger, PingsFollowState, sockVars, pingVars,
                history
        <3> QED BY <3>1, <3>2, TypePartsNext
    <2>2. PingsFollowState'
        BY <1>11 DEF ReadsBadInit, Reads, Disconnect, IInv, TypeOK, PingsFollowState,
            OnePinger, QuietWhenDown, SocketFollowsState, ReadyIsCurrent, sockVars,
            pingVars, history
    <2>3. SocketFollowsState'
        BY <1>11 DEF ReadsBadInit, Reads, Disconnect, IInv, TypeOK, SocketFollowsState,
            ReadyIsCurrent, sockVars, pingVars, history
    <2>4. Reopens'
        BY <1>11 DEF ReadsBadInit, Reads, Disconnect, IInv, TypeOK, Reopens,
            SocketFollowsState, ReadyIsCurrent, sockVars, pingVars, history
    <2> QED BY <2>1, <2>2, <2>3, <2>4 DEF IInv
<1>12. CASE ReadsNoInit
    <2>1. TypeOK'
        <3>1. Flags'
            BY <1>12, PeerAssumption, TypeParts, ZenonT(60) DEF ReadsNoInit, Reads, Catch,
                Flags, IInv, sockVars, pingVars, history
        <3>2. Data'
            BY <1>12, PeerAssumption, TypeParts, HeadTailProperties DEF ReadsNoInit, Reads,
                Catch, Data, IInv, OnePinger, PingsFollowState, sockVars, pingVars, history
        <3> QED BY <3>1, <3>2, TypePartsNext
    <2>2. PingsFollowState'
        BY <1>12 DEF ReadsNoInit, Reads, Catch, IInv, TypeOK, PingsFollowState, OnePinger,
            QuietWhenDown, SocketFollowsState, ReadyIsCurrent, sockVars, pingVars, history
    <2>3. SocketFollowsState'
        BY <1>12 DEF ReadsNoInit, Reads, Catch, IInv, TypeOK, SocketFollowsState,
            ReadyIsCurrent, sockVars, pingVars, history
    <2>4. Reopens'
        BY <1>12 DEF ReadsNoInit, Reads, Catch, IInv, TypeOK, Reopens, SocketFollowsState,
            ReadyIsCurrent, sockVars, pingVars, history
    <2> QED BY <2>1, <2>2, <2>3, <2>4 DEF IInv
<1>13. CASE ReadsOther
    <2>1. TypeOK'
        <3>1. Flags'
            BY <1>13, PeerAssumption, TypeParts, PushFlag, ZenonT(60) DEF ReadsOther,
                Passes, Reads, Flags, IInv, sockVars, pingVars, history
        <3>2. Data'
            BY <1>13, PeerAssumption, TypeParts, HeadTailProperties DEF ReadsOther, Passes,
                Reads, Push, Data, IInv, OnePinger, PingsFollowState, sockVars, pingVars,
                history
        <3> QED BY <3>1, <3>2, TypePartsNext
    <2>2. PingsFollowState'
        BY <1>13 DEF ReadsOther, Passes, Reads, Push, IInv, TypeOK, PingsFollowState,
            OnePinger, QuietWhenDown, SocketFollowsState, ReadyIsCurrent, sockVars,
            pingVars, history
    <2>3. SocketFollowsState'
        BY <1>13 DEF ReadsOther, Passes, Reads, Push, IInv, TypeOK, SocketFollowsState,
            ReadyIsCurrent, sockVars, pingVars, history
    <2>4. Reopens'
        BY <1>13 DEF ReadsOther, Passes, Reads, Push, IInv, TypeOK, Reopens,
            SocketFollowsState, ReadyIsCurrent, sockVars, pingVars, history
    <2> QED BY <2>1, <2>2, <2>3, <2>4 DEF IInv
<1>14. CASE ReadsJunk
    <2>1. TypeOK'
        <3>1. Flags'
            BY <1>14, PeerAssumption, TypeParts, ZenonT(60) DEF ReadsJunk, Passes, Reads,
                Catch, Flags, IInv, sockVars, pingVars, history
        <3>2. Data'
            BY <1>14, PeerAssumption, TypeParts, HeadTailProperties DEF ReadsJunk, Passes,
                Reads, Catch, Data, IInv, OnePinger, PingsFollowState, sockVars, pingVars,
                history
        <3> QED BY <3>1, <3>2, TypePartsNext
    <2>2. PingsFollowState'
        BY <1>14 DEF ReadsJunk, Passes, Reads, Catch, IInv, TypeOK, PingsFollowState,
            OnePinger, QuietWhenDown, SocketFollowsState, ReadyIsCurrent, sockVars,
            pingVars, history
    <2>3. SocketFollowsState'
        BY <1>14 DEF ReadsJunk, Passes, Reads, Catch, IInv, TypeOK, SocketFollowsState,
            ReadyIsCurrent, sockVars, pingVars, history
    <2>4. Reopens'
        BY <1>14 DEF ReadsJunk, Passes, Reads, Catch, IInv, TypeOK, Reopens,
            SocketFollowsState, ReadyIsCurrent, sockVars, pingVars, history
    <2> QED BY <2>1, <2>2, <2>3, <2>4 DEF IInv
<1>15. CASE ReadsPong
    <2>1. TypeOK'
        <3>1. Flags'
            BY <1>15, PeerAssumption, TypeParts, PushFlag, ZenonT(60) DEF ReadsPong, Passes,
                Reads, Flags, IInv, sockVars, pingVars, history
        <3>2. Data'
            BY <1>15, PeerAssumption, TypeParts, HeadTailProperties DEF ReadsPong, Passes,
                Reads, Push, Data, IInv, OnePinger, PingsFollowState, sockVars, pingVars,
                history
        <3> QED BY <3>1, <3>2, TypePartsNext
    <2>2. PingsFollowState'
        BY <1>15 DEF ReadsPong, Passes, Reads, Push, IInv, TypeOK, PingsFollowState,
            OnePinger, QuietWhenDown, SocketFollowsState, ReadyIsCurrent, sockVars,
            pingVars, history
    <2>3. SocketFollowsState'
        BY <1>15 DEF ReadsPong, Passes, Reads, Push, IInv, TypeOK, SocketFollowsState,
            ReadyIsCurrent, sockVars, pingVars, history
    <2>4. Reopens'
        BY <1>15 DEF ReadsPong, Passes, Reads, Push, IInv, TypeOK, Reopens,
            SocketFollowsState, ReadyIsCurrent, sockVars, pingVars, history
    <2> QED BY <2>1, <2>2, <2>3, <2>4 DEF IInv
<1>16. CASE ReadsBadPong
    <2>1. TypeOK'
        <3>1. Flags'
            BY <1>16, PeerAssumption, TypeParts, PushFlag, ZenonT(60) DEF ReadsBadPong,
                Passes, Reads, Disconnect, Flags, IInv, sockVars, pingVars, history
        <3>2. Data'
            BY <1>16, PeerAssumption, TypeParts, HeadTailProperties DEF ReadsBadPong,
                Passes, Reads, Push, Disconnect, Data, IInv, OnePinger, PingsFollowState,
                sockVars, pingVars, history
        <3> QED BY <3>1, <3>2, TypePartsNext
    <2>2. PingsFollowState'
        BY <1>16 DEF ReadsBadPong, Passes, Reads, Push, Disconnect, IInv, TypeOK,
            PingsFollowState, OnePinger, QuietWhenDown, SocketFollowsState, ReadyIsCurrent,
            sockVars, pingVars, history
    <2>3. SocketFollowsState'
        BY <1>16 DEF ReadsBadPong, Passes, Reads, Push, Disconnect, IInv, TypeOK,
            SocketFollowsState, ReadyIsCurrent, sockVars, pingVars, history
    <2>4. Reopens'
        BY <1>16 DEF ReadsBadPong, Passes, Reads, Push, Disconnect, IInv, TypeOK, Reopens,
            SocketFollowsState, ReadyIsCurrent, sockVars, pingVars, history
    <2> QED BY <2>1, <2>2, <2>3, <2>4 DEF IInv
<1>17. CASE ReadsPing
    <2>1. TypeOK'
        <3>1. Flags'
            BY <1>17, PeerAssumption, TypeParts, PushFlag, ZenonT(60) DEF ReadsPing, Passes,
                Reads, CountPing, Flood, Flags, IInv, sockVars, pingVars, history
        <3>2. Data'
            BY <1>17, PeerAssumption, TypeParts, HeadTailProperties DEF ReadsPing, Passes,
                Reads, CountPing, Flood, Push, Data, IInv, OnePinger, PingsFollowState,
                sockVars, pingVars, history
        <3> QED BY <3>1, <3>2, TypePartsNext
    <2>2. PingsFollowState'
        BY <1>17 DEF ReadsPing, Passes, Reads, CountPing, Flood, Push, IInv, TypeOK,
            PingsFollowState, OnePinger, QuietWhenDown, SocketFollowsState, ReadyIsCurrent,
            sockVars, pingVars, history
    <2>3. SocketFollowsState'
        BY <1>17 DEF ReadsPing, Passes, Reads, CountPing, Flood, Push, IInv, TypeOK,
            SocketFollowsState, ReadyIsCurrent, sockVars, pingVars, history
    <2>4. Reopens'
        BY <1>17 DEF ReadsPing, Passes, Reads, CountPing, Flood, Push, IInv, TypeOK,
            Reopens, SocketFollowsState, ReadyIsCurrent, sockVars, pingVars, history
    <2> QED BY <2>1, <2>2, <2>3, <2>4 DEF IInv
<1>18. CASE ReadsPingThrows
    <2>1. TypeOK'
        <3>1. Flags'
            BY <1>18, PeerAssumption, TypeParts, ZenonT(60) DEF ReadsPingThrows, Passes,
                Reads, CountPing, Flood, Catch, Flags, IInv, sockVars, pingVars, history
        <3>2. Data'
            BY <1>18, PeerAssumption, TypeParts, HeadTailProperties DEF ReadsPingThrows,
                Passes, Reads, CountPing, Flood, Catch, Data, IInv, OnePinger,
                PingsFollowState, sockVars, pingVars, history
        <3> QED BY <3>1, <3>2, TypePartsNext
    <2>2. PingsFollowState'
        BY <1>18 DEF ReadsPingThrows, Passes, Reads, CountPing, Flood, Catch, IInv, TypeOK,
            PingsFollowState, OnePinger, QuietWhenDown, SocketFollowsState, ReadyIsCurrent,
            sockVars, pingVars, history
    <2>3. SocketFollowsState'
        BY <1>18 DEF ReadsPingThrows, Passes, Reads, CountPing, Flood, Catch, IInv, TypeOK,
            SocketFollowsState, ReadyIsCurrent, sockVars, pingVars, history
    <2>4. Reopens'
        BY <1>18 DEF ReadsPingThrows, Passes, Reads, CountPing, Flood, Catch, IInv, TypeOK,
            Reopens, SocketFollowsState, ReadyIsCurrent, sockVars, pingVars, history
    <2> QED BY <2>1, <2>2, <2>3, <2>4 DEF IInv
<1>19. CASE ConsumerReads
    <2>1. TypeOK'
        <3>1. Flags'
            BY <1>19, PeerAssumption, TypeParts, ZenonT(60) DEF ConsumerReads, Flags, IInv,
                sockVars, pingVars, history
        <3>2. Data'
            BY <1>19, PeerAssumption, TypeParts DEF ConsumerReads, Data, IInv, OnePinger,
                PingsFollowState, sockVars, pingVars, history
        <3> QED BY <3>1, <3>2, TypePartsNext
    <2>2. PingsFollowState'
        BY <1>19 DEF ConsumerReads, IInv, TypeOK, PingsFollowState, OnePinger,
            QuietWhenDown, SocketFollowsState, ReadyIsCurrent, sockVars, pingVars, history
    <2>3. SocketFollowsState'
        BY <1>19 DEF ConsumerReads, IInv, TypeOK, SocketFollowsState, ReadyIsCurrent,
            sockVars, pingVars, history
    <2>4. Reopens'
        BY <1>19 DEF ConsumerReads, IInv, TypeOK, Reopens, SocketFollowsState,
            ReadyIsCurrent, sockVars, pingVars, history
    <2> QED BY <2>1, <2>2, <2>3, <2>4 DEF IInv
<1>20. CASE TickQuiet
    <2>1. TypeOK'
        <3>1. Flags'
            BY <1>20, PeerAssumption, TypeParts, ZenonT(60) DEF TickQuiet, Tick, Flags,
                IInv, sockVars, pingVars, history
        <3>2. Data'
            BY <1>20, PeerAssumption, TypeParts DEF TickQuiet, Tick, Data, IInv, OnePinger,
                PingsFollowState, sockVars, pingVars, history
        <3> QED BY <3>1, <3>2, TypePartsNext
    <2>2. PingsFollowState'
        BY <1>20 DEF TickQuiet, Tick, IInv, TypeOK, PingsFollowState, OnePinger,
            QuietWhenDown, SocketFollowsState, ReadyIsCurrent, sockVars, pingVars, history
    <2>3. SocketFollowsState'
        BY <1>20 DEF TickQuiet, Tick, IInv, TypeOK, SocketFollowsState, ReadyIsCurrent,
            sockVars, pingVars, history
    <2>4. Reopens'
        BY <1>20 DEF TickQuiet, Tick, IInv, TypeOK, Reopens, SocketFollowsState,
            ReadyIsCurrent, sockVars, pingVars, history
    <2> QED BY <2>1, <2>2, <2>3, <2>4 DEF IInv
<1>21. CASE TickPings
    <2>1. TypeOK'
        <3>1. Flags'
            BY <1>21, PeerAssumption, TypeParts, ZenonT(60) DEF TickPings, Tick, Flags,
                IInv, sockVars, pingVars, history
        <3>2. Data'
            BY <1>21, PeerAssumption, TypeParts DEF TickPings, Tick, Data, IInv, OnePinger,
                PingsFollowState, sockVars, pingVars, history
        <3> QED BY <3>1, <3>2, TypePartsNext
    <2>2. PingsFollowState'
        BY <1>21 DEF TickPings, Tick, IInv, TypeOK, PingsFollowState, OnePinger,
            QuietWhenDown, SocketFollowsState, ReadyIsCurrent, sockVars, pingVars, history
    <2>3. SocketFollowsState'
        BY <1>21 DEF TickPings, Tick, IInv, TypeOK, SocketFollowsState, ReadyIsCurrent,
            sockVars, pingVars, history
    <2>4. Reopens'
        BY <1>21 DEF TickPings, Tick, IInv, TypeOK, Reopens, SocketFollowsState,
            ReadyIsCurrent, sockVars, pingVars, history
    <2> QED BY <2>1, <2>2, <2>3, <2>4 DEF IInv
<1>22. CASE PongTimedOut
    <2>1. TypeOK'
        <3>1. Flags'
            BY <1>22, PeerAssumption, TypeParts, ZenonT(60) DEF PongTimedOut, Flags, IInv,
                sockVars, pingVars, history
        <3>2. Data'
            BY <1>22, PeerAssumption, TypeParts DEF PongTimedOut, Data, IInv, OnePinger,
                PingsFollowState, sockVars, pingVars, history
        <3> QED BY <3>1, <3>2, TypePartsNext
    <2>2. PingsFollowState'
        BY <1>22 DEF PongTimedOut, IInv, TypeOK, PingsFollowState, OnePinger, QuietWhenDown,
            SocketFollowsState, ReadyIsCurrent, sockVars, pingVars, history
    <2>3. SocketFollowsState'
        BY <1>22 DEF PongTimedOut, IInv, TypeOK, SocketFollowsState, ReadyIsCurrent,
            sockVars, pingVars, history
    <2>4. Reopens'
        BY <1>22 DEF PongTimedOut, IInv, TypeOK, Reopens, SocketFollowsState,
            ReadyIsCurrent, sockVars, pingVars, history
    <2> QED BY <2>1, <2>2, <2>3, <2>4 DEF IInv
<1>23. CASE ReadsBigPing
    <2>1. TypeOK'
        <3>1. Flags'
            BY <1>23, PeerAssumption, TypeParts, PushFlag, ZenonT(60) DEF ReadsBigPing,
                Passes, Reads, CountPing, Flood, Disconnect, Flags, IInv, sockVars,
                pingVars, history
        <3>2. Data'
            BY <1>23, PeerAssumption, TypeParts, HeadTailProperties DEF ReadsBigPing,
                Passes, Reads, CountPing, Flood, Push, Disconnect, Data, IInv, OnePinger,
                PingsFollowState, sockVars, pingVars, history
        <3> QED BY <3>1, <3>2, TypePartsNext
    <2>2. PingsFollowState'
        BY <1>23 DEF ReadsBigPing, Passes, Reads, CountPing, Flood, Push, Disconnect, IInv,
            TypeOK, PingsFollowState, OnePinger, QuietWhenDown, SocketFollowsState,
            ReadyIsCurrent, sockVars, pingVars, history
    <2>3. SocketFollowsState'
        BY <1>23 DEF ReadsBigPing, Passes, Reads, CountPing, Flood, Push, Disconnect, IInv,
            TypeOK, SocketFollowsState, ReadyIsCurrent, sockVars, pingVars, history
    <2>4. Reopens'
        BY <1>23 DEF ReadsBigPing, Passes, Reads, CountPing, Flood, Push, Disconnect, IInv,
            TypeOK, Reopens, SocketFollowsState, ReadyIsCurrent, sockVars, pingVars, history
    <2> QED BY <2>1, <2>2, <2>3, <2>4 DEF IInv
<1>24. CASE ReadsUnknown
    <2>1. TypeOK'
        <3>1. Flags'
            BY <1>24, PeerAssumption, TypeParts, PushFlag, ZenonT(60) DEF ReadsUnknown,
                Passes, Reads, Flags, IInv, sockVars, pingVars, history
        <3>2. Data'
            BY <1>24, PeerAssumption, TypeParts, HeadTailProperties DEF ReadsUnknown,
                Passes, Reads, Push, Data, IInv, OnePinger, PingsFollowState, sockVars,
                pingVars, history
        <3> QED BY <3>1, <3>2, TypePartsNext
    <2>2. PingsFollowState'
        BY <1>24 DEF ReadsUnknown, Passes, Reads, Push, IInv, TypeOK, PingsFollowState,
            OnePinger, QuietWhenDown, SocketFollowsState, ReadyIsCurrent, sockVars,
            pingVars, history
    <2>3. SocketFollowsState'
        BY <1>24 DEF ReadsUnknown, Passes, Reads, Push, IInv, TypeOK, SocketFollowsState,
            ReadyIsCurrent, sockVars, pingVars, history
    <2>4. Reopens'
        BY <1>24 DEF ReadsUnknown, Passes, Reads, Push, IInv, TypeOK, Reopens,
            SocketFollowsState, ReadyIsCurrent, sockVars, pingVars, history
    <2> QED BY <2>1, <2>2, <2>3, <2>4 DEF IInv
<1>25. CASE StreamReads
    <2>1. TypeOK'
        <3>1. Flags'
            BY <1>25, PeerAssumption, TypeParts, ZenonT(60) DEF StreamReads, Flags, IInv,
                sockVars, pingVars, history
        <3>2. Data'
            BY <1>25, PeerAssumption, TypeParts DEF StreamReads, Data, IInv, OnePinger,
                PingsFollowState, sockVars, pingVars, history
        <3> QED BY <3>1, <3>2, TypePartsNext
    <2>2. PingsFollowState'
        BY <1>25 DEF StreamReads, IInv, TypeOK, PingsFollowState, OnePinger, QuietWhenDown,
            SocketFollowsState, ReadyIsCurrent, sockVars, pingVars, history
    <2>3. SocketFollowsState'
        BY <1>25 DEF StreamReads, IInv, TypeOK, SocketFollowsState, ReadyIsCurrent,
            sockVars, pingVars, history
    <2>4. Reopens'
        BY <1>25 DEF StreamReads, IInv, TypeOK, Reopens, SocketFollowsState, ReadyIsCurrent,
            sockVars, pingVars, history
    <2> QED BY <2>1, <2>2, <2>3, <2>4 DEF IInv
<1>26. CASE UNCHANGED vars
    BY <1>26 DEF vars, sockVars, pingVars, history, IInv, TypeOK, PingsFollowState,
        OnePinger, QuietWhenDown, SocketFollowsState, ReadyIsCurrent, Reopens
<1> QED BY <1>1, <1>2, <1>3, <1>4, <1>5, <1>6, <1>7, <1>8, <1>9, <1>10, <1>11, <1>12, <1>13,
    <1>14, <1>15, <1>16, <1>17, <1>18, <1>19, <1>20, <1>21, <1>22, <1>23, <1>24, <1>25, <1>26
    DEF Next, ReadStep

THEOREM PeerInvariant == Spec => []IInv
BY InitInv, NextInv, PTL DEF Spec

(* The peer's fields keep their types. *)
THEOREM PeerTypeCorrect == Spec => []TypeOK
<1>1. IInv => TypeOK
    BY DEF IInv
<1> QED BY <1>1, PeerInvariant, PTL

(* No sequence of connections leaves a ping interval that cannot be        *)
(* cleared.                                                                *)
THEOREM OnePingerAlways == Spec => []OnePinger
<1>1. IInv => OnePinger
    BY DEF IInv, PingsFollowState
<1> QED BY <1>1, PeerInvariant, PTL

(* _onSocketClose clears every ping timer that can be pending. *)
THEOREM QuietWithoutConnection == Spec => []QuietWhenDown
<1>1. IInv => QuietWhenDown
    BY DEF IInv, PingsFollowState
<1> QED BY <1>1, PeerInvariant, PTL

(* Readiness is always that of the socket in use. *)
THEOREM ReadyOnlyNow == Spec => []ReadyIsCurrent
<1>1. IInv => ReadyIsCurrent
    BY DEF IInv, SocketFollowsState
<1> QED BY <1>1, PeerInvariant, PTL

-----------------------------------------------------------------------------
(* A peer that dialled is never stranded: when its socket closes, either a *)
(* reconnection is scheduled or 'close' has been emitted.                  *)
THEOREM InitiatorNeverStranded ==
    ASSUME Roles = {TRUE}
    PROVE  Spec => []CloseOrReconnect
<1>1. Init => isInitiator
    BY Zenon DEF Init
<1>2. isInitiator /\ [Next]_vars => isInitiator'
    <2>1. [Next]_vars => isInitiator' = isInitiator
        BY DEF Next, ReadStep, vars, UserConnects, UserDisconnects, DisconnectAsked,
            UserReconnects, SocketReady, SocketCloses, ReconnectTimer, RemoteSends, Readable,
            ReadNothing, ReadsInit, ReadsBadInit, ReadsNoInit, ReadsOther, ReadsUnknown,
            ReadsJunk, ReadsPong, ReadsBadPong, ReadsPing, ReadsPingThrows, ReadsBigPing,
            Passes,
            Reads, ConsumerReads, StreamReads, TickQuiet, TickPings, Tick, PongTimedOut
    <2> QED BY <2>1, Zenon
<1>3. isInitiator /\ IInv => CloseOrReconnect
    BY DEF IInv, Reopens, CloseOrReconnect
<1> QED BY <1>1, <1>2, <1>3, PeerInvariant, PTL DEF Spec

(* A disconnect() that no handshake has overtaken leaves the peer without  *)
(* a socket, closing, or closed with no reconnection but the one that was  *)
(* scheduled already.                                                      *)
Parting ==
    ~wanted /\ ~revived =>
        /\ sock = "none" => ~backoff
        /\ sock \in {"connecting", "up"} => state = "Disconnecting"
        /\ sock = "closed" /\ backoff => pending /\ state = "Disconnecting"

(* disconnect() is final whenever it is called, but for the attempt that   *)
(* is scheduled already and for a handshake that completes afterwards.     *)
THEOREM DisconnectFinal == Spec => DisconnectIsFinal
<1>1. Init => Parting
    BY DEF Init, Parting
<1>2. IInv /\ Parting /\ [Next]_vars => Parting'
    <2> SUFFICES ASSUME IInv, Parting, [Next]_vars PROVE Parting'
        OBVIOUS
    <2>1. SocketFollowsState
        BY DEF IInv
    <2>2. CASE UserConnects
        BY <2>2 DEF UserConnects, Parting
    <2>3. CASE ReconnectTimer
        <3>1. sock = "closed" /\ backoff
            BY <2>1, <2>3 DEF ReconnectTimer, SocketFollowsState
        <3> QED BY <2>3, <3>1 DEF ReconnectTimer, NewSocket, Parting
    <2>4. CASE UserDisconnects
        BY <2>4 DEF UserDisconnects, DisconnectAsked, Disconnect, Parting
    <2>5. CASE SocketReady
        BY <2>5 DEF SocketReady, Parting
    <2>6. CASE SocketCloses
        <3>1. sock \in {"connecting", "up"} /\ sock' = "closed"
                  /\ wanted' = wanted /\ revived' = revived
            BY <2>6 DEF SocketCloses
        <3>2. ~wanted /\ ~revived => state = "Disconnecting"
            BY <3>1 DEF Parting
        <3>3. ~wanted /\ ~revived => ~backoff'
            BY <2>6, <3>2, Zenon DEF SocketCloses, Reconnects
        <3> QED BY <3>1, <3>3 DEF Parting
    <2>7. CASE ReadsInit \/ ReadsNoInit
        <3>1. sock = "up" /\ state = "AwaitingPeerInit"
            BY <2>1, <2>7 DEF ReadsInit, ReadsNoInit, SocketFollowsState, ReadyIsCurrent
        <3>2. wanted \/ revived
            BY <3>1 DEF Parting
        <3>3. wanted' = wanted /\ revived' = revived
            BY <2>7 DEF ReadsInit, ReadsNoInit, history
        <3> QED BY <3>2, <3>3 DEF Parting
    <2>8. CASE ReadsBadInit \/ ReadsBadPong \/ ReadsPingThrows \/ ReadsBigPing
        <3>1. UNCHANGED <<sock, backoff, wanted, pending, revived>>
            BY <2>8 DEF ReadsBadInit, ReadsBadPong, ReadsPingThrows, ReadsBigPing, CountPing,
                Passes, Reads, history
        <3>2. state' \in {"Disconnecting", state}
            BY <2>8 DEF ReadsBadInit, ReadsBadPong, ReadsPingThrows, ReadsBigPing, Disconnect
        <3> QED BY <3>1, <3>2 DEF Parting
    <2>9. ASSUME UNCHANGED <<state, sock, backoff, wanted, pending, revived>> PROVE Parting'
        BY <2>9 DEF Parting
    <2>10. UNCHANGED vars \/ Readable \/ ReadNothing \/ ConsumerReads \/ StreamReads
               \/ UserReconnects => UNCHANGED <<state, sock, backoff, wanted, pending,
                   revived>>
        BY DEF vars, sockVars, history, Readable, ReadNothing, ConsumerReads, StreamReads,
            UserReconnects
    <2>11. ReadsOther \/ ReadsUnknown \/ ReadsJunk \/ ReadsPong \/ ReadsPing
               => UNCHANGED <<state, sock, backoff, wanted, pending, revived>>
        BY DEF ReadsOther, ReadsUnknown, ReadsJunk, ReadsPong, ReadsPing, CountPing, Passes,
            Reads, history
    <2>12. TickQuiet \/ TickPings \/ PongTimedOut \/ (\E m \in Sends : RemoteSends(m))
               => UNCHANGED <<state, sock, backoff, wanted, pending, revived>>
        BY DEF TickQuiet, TickPings, Tick, PongTimedOut, RemoteSends, sockVars, history
    <2> QED BY <2>2, <2>3, <2>4, <2>5, <2>6, <2>7, <2>8, <2>9, <2>10, <2>11, <2>12
            DEF Next, ReadStep
<1>3. IInv /\ Parting /\ [Next]_vars

                       => [sock' = "connecting" /\ sock # "connecting" => wanted' \/ pending \/ revived]_vars
    <2> SUFFICES ASSUME IInv, Parting, Next, sock' = "connecting", sock # "connecting"
                 PROVE  wanted' \/ pending \/ revived
        OBVIOUS
    <2>1. UserConnects \/ ReconnectTimer
        BY DEF Next, ReadStep, UserDisconnects, DisconnectAsked, UserReconnects, SocketReady,
            SocketCloses, RemoteSends, Readable, ReadNothing, ReadsInit, ReadsBadInit,
            ReadsNoInit, ReadsOther, ReadsUnknown, ReadsJunk, ReadsPong, ReadsBadPong,
                ReadsPing,
            ReadsPingThrows, ReadsBigPing, Passes, Reads, ConsumerReads, StreamReads,
                TickQuiet,
            TickPings, Tick, PongTimedOut, sockVars
    <2>2. CASE UserConnects
        BY <2>2 DEF UserConnects
    <2>3. CASE ReconnectTimer
        <3>1. sock = "closed" /\ backoff
            BY <2>3 DEF ReconnectTimer, IInv, SocketFollowsState
        <3>2. wanted \/ pending \/ revived
            BY <3>1 DEF Parting
        <3> QED BY <2>3, <3>2 DEF ReconnectTimer
    <2> QED BY <2>1, <2>2, <2>3
<1> QED BY <1>1, <1>2, <1>3, PeerInvariant, PTL DEF Spec, DisconnectIsFinal
=============================================================================
