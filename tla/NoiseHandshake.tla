--------------------------- MODULE NoiseHandshake ---------------------------
(***************************************************************************)
(* The three acts of the Noise_XK handshake between two NoiseSockets:      *)
(* packages/noise/lib/noise-state.ts (initiatorAct1 .. receiveAct3) driven *)
(* by noise-socket.ts (_onConnected, _onData and its handlers).           *)
(*                                                                         *)
(* Cryptography is symbolic.  A key pair is its name; a shared secret is   *)
(* the set of the two names.  The handshake hash and the chaining key are  *)
(* what has been mixed into them, in order; a temporary key is derived     *)
(* from the chaining key of that moment, and a sealed box opens under the  *)
(* key, nonce and associated data it was sealed with and under no others.  *)
(*                                                                         *)
(* The peer that answers need not be the one that was dialled, and an act  *)
(* may reach its reader damaged, or cut short by a connection that ended.  *)
(***************************************************************************)
EXTENDS Naturals, Sequences

CONSTANTS
    InitiatorStatic, ResponderStatic,        \* long-term keys: ls of each end
    InitiatorEphemeral, ResponderEphemeral,  \* fresh keys: es of each end
    Dialable                                 \* keys the initiator may dial

Junk == "junk"
None == "none"

ASSUME KeysDiffer ==
    /\ ResponderStatic \in Dialable
    /\ \A s \in Dialable : s \notin {InitiatorEphemeral, ResponderEphemeral}
    /\ InitiatorStatic # ResponderStatic
    /\ InitiatorEphemeral # ResponderEphemeral

ASSUME JunkIsNoKey == Junk \notin {InitiatorEphemeral, ResponderEphemeral}

Ends == {"initiator", "responder"}
Other(e) == IF e = "initiator" THEN "responder" ELSE "initiator"
ls(e) == IF e = "initiator" THEN InitiatorStatic ELSE ResponderStatic
es(e) == IF e = "initiator" THEN InitiatorEphemeral ELSE ResponderEphemeral

VARIABLES
    hs,      \* _handshakeState of each socket
    rpk,     \* the static key each end believes the other has
    repk,    \* the ephemeral key received
    h, ck,   \* handshake hash and chaining key
    sk, rk,  \* traffic keys, once derived
    wire,    \* acts in flight towards each end
    open,    \* the socket is connected
    disturbed  \* history: an act was damaged, or the connection was lost

handshakeVars == <<hs, rpk, repk, h, ck, sk, rk, wire, open, disturbed>>

-----------------------------------------------------------------------------
ECDH(pub, priv) == {pub, priv}
Mix(x, y) == Append(x, y)
Temp(c) == [temp |-> c]
Half(i, c) == [half |-> i, of |-> c]
Box(key, nonce, ad, plain) ==
    [key |-> key, nonce |-> nonce, ad |-> ad, plain |-> plain]
JunkBox == Box(Temp(<<>>), 0, <<>>, Junk)
NoKey == Half(0, <<>>)
OpensBox(c, key, nonce, ad) == c.key = key /\ c.nonce = nonce /\ c.ad = ad

(* _initialize *)
H0(pubkey) == <<"protocol", "prologue", pubkey>>
Ck0 == <<"protocol">>

HandshakeInit ==
    /\ hs = [e \in Ends |-> IF e = "initiator" THEN "INITIATOR_INITIATING"
                                               ELSE "AWAITING_INITIATOR"]
    /\ \E dialled \in Dialable :
          rpk = [e \in Ends |-> IF e = "initiator" THEN dialled ELSE None]
    /\ repk = [e \in Ends |-> None]
    /\ h = [e \in Ends |-> <<>>] /\ ck = [e \in Ends |-> <<>>]
    /\ sk = [e \in Ends |-> NoKey] /\ rk = [e \in Ends |-> NoKey]
    /\ wire = [e \in Ends |-> <<>>]
    /\ open = [e \in Ends |-> TRUE]
    /\ disturbed = FALSE

Goto(e, state) == hs' = [hs EXCEPT ![e] = state]
Transcript(e, hash, chain) == h' = [h EXCEPT ![e] = hash] /\ ck' = [ck EXCEPT ![e] = chain]

(* Mutant: both ends send with the first half.                             *)
DeriveSameHalf(e, mine, theirs, chain) ==
    /\ sk' = [sk EXCEPT ![e] = Half(1, chain)]
    /\ rk' = [rk EXCEPT ![e] = Half(2, chain)]

(* hkdf(zero, ck): which half an end sends with, and which it receives with. *)
DeriveKeys(e, mine, theirs, chain) ==
    /\ sk' = [sk EXCEPT ![e] = Half(mine, chain)]
    /\ rk' = [rk EXCEPT ![e] = Half(theirs, chain)]

SendAct(e, m) ==
    wire' = [f \in Ends |-> IF f = e THEN Tail(wire[f]) ELSE Append(wire[f], m)]

-----------------------------------------------------------------------------
(* The socket connects: initiatorAct1, the act is written. *)
InitiateHandshake ==
    LET e  == "initiator"
        h1 == Mix(H0(rpk[e]), es(e))
        c1 == Mix(Ck0, ECDH(rpk[e], es(e)))
        c  == Box(Temp(c1), 0, h1, None)
    IN  /\ open[e] /\ hs[e] = "INITIATOR_INITIATING"
        /\ Transcript(e, Mix(h1, c), c1)
        /\ wire' = [wire EXCEPT ![Other(e)] =
                        Append(@, [act |-> 1, len |-> 50, v |-> 0, re |-> es(e), c |-> c])]
        /\ Goto(e, "AWAITING_RESPONDER_REPLY")
        /\ UNCHANGED <<rpk, repk, sk, rk, open, disturbed>>

(* What an end is about to read, while its socket is connected. *)
ReadsAct(e, state) == open[e] /\ hs[e] = state /\ wire[e] # <<>>
Act(e) == Head(wire[e])

(* receiveAct1 followed by recieveAct2: h and the chaining key after the   *)
(* initiator's ephemeral key, and whether the first box opens.             *)
Act1Hash(e, m) == Mix(H0(ls(e)), m.re)
Act1Chain(e, m) == Mix(Ck0, ECDH(m.re, ls(e)))
Act1Valid(e, m) ==
    /\ m.len = 50 /\ m.v = 0
    /\ OpensBox(m.c, Temp(Act1Chain(e, m)), 0, Act1Hash(e, m))

ProcessInitiator ==
    LET e  == "responder"
        m  == Act(e)
        h2 == Mix(Mix(Act1Hash(e, m), m.c), es(e))
        c2 == Mix(Act1Chain(e, m), ECDH(m.re, es(e)))
        c  == Box(Temp(c2), 0, h2, None)
    IN  /\ ReadsAct(e, "AWAITING_INITIATOR")
        /\ Act1Valid(e, m)
        /\ repk' = [repk EXCEPT ![e] = m.re]
        /\ Transcript(e, Mix(h2, c), c2)
        /\ SendAct(e, [act |-> 2, len |-> 50, v |-> 0, re |-> es(e), c |-> c])
        /\ Goto(e, "AWAITING_INITIATOR_REPLY")
        /\ UNCHANGED <<rpk, sk, rk, open, disturbed>>

(* initiatorAct2 followed by initiatorAct3.  The static key travels under  *)
(* the second temporary key with nonce 1.                                  *)
(* Mutant: the responder's ephemeral key is not mixed into the hash.       *)
Act2HashNoKey(e, m) == h[e]

Act2Hash(e, m) == Mix(h[e], m.re)

Act2Chain(e, m) == Mix(ck[e], ECDH(m.re, es(e)))

(* Mutant: the reply's box is not checked.                                 *)
Act2ValidNoTag(e, m) == m.len = 50 /\ m.v = 0

Act2Valid(e, m) ==
    /\ m.len = 50 /\ m.v = 0
    /\ OpensBox(m.c, Temp(Act2Chain(e, m)), 0, Act2Hash(e, m))

ProcessResponderReply ==
    LET e  == "initiator"
        m  == Act(e)
        h2 == Mix(Act2Hash(e, m), m.c)
        c2 == Act2Chain(e, m)
        c  == Box(Temp(c2), 1, h2, ls(e))
        h3 == Mix(h2, c)
        c3 == Mix(c2, ECDH(m.re, ls(e)))
        t  == Box(Temp(c3), 0, h3, None)
    IN  /\ ReadsAct(e, "AWAITING_RESPONDER_REPLY")
        /\ Act2Valid(e, m)
        /\ repk' = [repk EXCEPT ![e] = m.re]
        /\ Transcript(e, h3, c3)
        /\ DeriveKeys(e, 1, 2, c3)
        /\ SendAct(e, [act |-> 3, len |-> 66, v |-> 0, c |-> c, t |-> t])
        /\ Goto(e, "READY")
        /\ UNCHANGED <<rpk, open, disturbed>>

(* receiveAct3: two boxes, the second under a key that the content of the  *)
(* first, the initiator's static key, is needed for.                       *)
Act3Hash(e, m) == Mix(h[e], m.c)
Act3Chain(e, m) == Mix(ck[e], ECDH(m.c.plain, es(e)))
Act3Valid(e, m) ==
    /\ m.len = 66 /\ m.v = 0
    /\ OpensBox(m.c, Temp(ck[e]), 1, h[e])
    /\ OpensBox(m.t, Temp(Act3Chain(e, m)), 0, Act3Hash(e, m))

ProcessInitiatorReply ==
    LET e == "responder"
        m == Act(e)
        c3 == Act3Chain(e, m)
    IN  /\ ReadsAct(e, "AWAITING_INITIATOR_REPLY")
        /\ Act3Valid(e, m)
        /\ rpk' = [rpk EXCEPT ![e] = m.c.plain]
        /\ Transcript(e, Act3Hash(e, m), c3)
        /\ DeriveKeys(e, 2, 1, c3)
        /\ wire' = [wire EXCEPT ![e] = Tail(@)]
        /\ Goto(e, "READY")
        /\ UNCHANGED <<repk, open, disturbed>>

(* A short act, an unknown version or a box that does not open throws; the *)
(* catch of _onData destroys the socket.                                   *)
Destroy(e) ==
    /\ open' = [open EXCEPT ![e] = FALSE]
    /\ UNCHANGED <<hs, rpk, repk, h, ck, sk, rk, wire, disturbed>>

ActFails(e) ==
    /\ \/ ReadsAct(e, "AWAITING_INITIATOR") /\ ~Act1Valid(e, Act(e))
       \/ ReadsAct(e, "AWAITING_RESPONDER_REPLY") /\ ~Act2Valid(e, Act(e))
       \/ ReadsAct(e, "AWAITING_INITIATOR_REPLY") /\ ~Act3Valid(e, Act(e))
    /\ Destroy(e)

(* The other end is gone. *)
ConnectionReset(e) ==
    /\ open[e] /\ ~open[Other(e)]
    /\ Destroy(e)

-----------------------------------------------------------------------------
(* The wire: one field of an act is changed, or the act is cut short by    *)
(* the end of the stream (read(n) then returns what there is).             *)
Damaged(m) ==
    {[m EXCEPT !.v = 1], [m EXCEPT !.len = @ - 1], [m EXCEPT !.c = JunkBox]}
    \cup IF m.act = 3 THEN {[m EXCEPT !.t = JunkBox]} ELSE {[m EXCEPT !.re = Junk]}

DamageAct(e) ==
    /\ ~disturbed
    /\ wire[e] # <<>>
    /\ \E m \in Damaged(Head(wire[e])) : wire' = [wire EXCEPT ![e] = <<m>> \o Tail(@)]
    /\ disturbed' = TRUE
    /\ UNCHANGED <<hs, rpk, repk, h, ck, sk, rk, open>>

(* destroy(), called by the user or on an error of the TCP socket. *)
ConnectionLost(e) ==
    /\ ~disturbed
    /\ open[e]
    /\ open' = [open EXCEPT ![e] = FALSE]
    /\ disturbed' = TRUE
    /\ UNCHANGED <<hs, rpk, repk, h, ck, sk, rk, wire>>

OnData(e) ==
    \/ e = "responder" /\ (ProcessInitiator \/ ProcessInitiatorReply)
    \/ e = "initiator" /\ ProcessResponderReply
    \/ ActFails(e)

HandshakeNext ==
    \/ InitiateHandshake
    \/ \E e \in Ends : OnData(e) \/ ConnectionReset(e) \/ DamageAct(e) \/ ConnectionLost(e)

HandshakeSpec == HandshakeInit /\ [][HandshakeNext]_handshakeVars

(* The socket connects, and data that has arrived is read. *)
FairHandshakeSpec ==
    /\ HandshakeSpec
    /\ WF_handshakeVars(InitiateHandshake)
    /\ \A e \in Ends : WF_handshakeVars(OnData(e)) /\ WF_handshakeVars(ConnectionReset(e))

-----------------------------------------------------------------------------
States == {"INITIATOR_INITIATING", "AWAITING_INITIATOR", "AWAITING_RESPONDER_REPLY",
           "AWAITING_INITIATOR_REPLY", "READY"}
Ready(e) == hs[e] = "READY"

HandshakeTypeOK ==
    /\ hs \in [Ends -> States]
    /\ \A e \in Ends :
          /\ rpk[e] \in Dialable \cup {InitiatorStatic, None}
          /\ repk[e] \in {InitiatorEphemeral, ResponderEphemeral, None}
          /\ Len(wire[e]) <= 1
          /\ Ready(e) <=> sk[e] # NoKey
    /\ open \in [Ends -> BOOLEAN] /\ disturbed \in BOOLEAN

(* The initiator is only ever READY towards the owner of the key it        *)
(* dialled, whose ephemeral key it then has.                               *)
OnlyTheDialledKey ==
    Ready("initiator") =>
        rpk["initiator"] = ResponderStatic /\ repk["initiator"] = ResponderEphemeral

(* A responder that is READY faces an initiator that is, has learned its   *)
(* true static key, and shares crossed traffic keys with it.               *)
ReadyMeansAgreed ==
    Ready("responder") =>
        /\ Ready("initiator")
        /\ rpk["responder"] = InitiatorStatic
        /\ repk["responder"] = InitiatorEphemeral
        /\ h["responder"] = h["initiator"] /\ ck["responder"] = ck["initiator"]
        /\ sk["initiator"] = rk["responder"] /\ rk["initiator"] = sk["responder"]
        /\ sk["initiator"] # rk["initiator"]

(* Nothing but the intended peer and intact acts is needed to finish; and  *)
(* a handshake that cannot finish is torn down at both ends.               *)
Completes ==
    <>[](\/ \A e \in Ends : Ready(e) /\ open[e]
         \/ (disturbed \/ rpk["initiator"] # ResponderStatic) /\ \A e \in Ends : ~open[e])
=============================================================================
