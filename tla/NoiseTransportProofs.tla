------------------------ MODULE NoiseTransportProofs ------------------------
(***************************************************************************)
(* Theorems about NoiseTransport, for every rotation threshold, high-water *)
(* mark and amount of traffic: no nonce is reused, no wake-up is lost, the *)
(* sockets implement the streams of MessageStream, and they stay in step   *)
(* until both directions have rotated.                                     *)
(***************************************************************************)
EXTENDS NoiseTransport, FiniteSetTheorems, SequenceTheorems, TLAPS


-----------------------------------------------------------------------------
(* The (chaining key, traffic key, nonce) triples that Advance works on.   *)
CipherStates == [ck : Seq(Ends), key : Keys, nonce : 0..(RotateAt - 1)]

(* A pair (key, nonce) that was used before the state s was reached: under *)
(* an earlier key, or under the same key with a smaller nonce.             *)
Before(p, s) ==
    \/ Len(p[1].at) < Len(s.key.at)
    \/ p[1] = s.key /\ p[2] < s.nonce

(* A traffic key is no younger than a chaining key.                        *)
Behind(k, c) == Len(k.at) <= Len(c)

(* Advance keeps a cipher state well formed, never lets a key outgrow the  *)
(* chaining key it came from, and leaves every pair used so far, the one   *)
(* just used included, behind it.                                          *)
LEMMA AdvanceProgress ==
    ASSUME NEW s \in CipherStates, Behind(s.key, s.ck)
    PROVE  /\ Advance(s) \in CipherStates
           /\ Behind(Advance(s).key, Advance(s).ck)
           /\ Len(s.ck) <= Len(Advance(s).ck)
           /\ Before(<<s.key, s.nonce>>, Advance(s))
           /\ \A p \in Keys \X Nat : Before(p, s) => Before(p, Advance(s))
<1>1. /\ s.ck \in Seq(Ends) /\ s.key \in Keys /\ s.nonce \in 0..(RotateAt - 1)
      /\ s.key.dir \in Ends /\ s.key.at \in Seq(Ends)
      /\ Len(s.key.at) \in Nat /\ Len(s.ck) \in Nat
      /\ Len(s.key.at) <= Len(s.ck)
    BY LenProperties DEF CipherStates, Keys, Behind
<1>2. CASE s.nonce + 1 >= RotateAt
    <2> DEFINE mixed == Append(s.ck, s.key.dir)
               k == [dir |-> s.key.dir, at |-> mixed]
    <2>1. mixed \in Seq(Ends) /\ Len(mixed) = Len(s.ck) + 1
        BY <1>1, AppendProperties
    <2>2. Advance(s) = [ck |-> mixed, key |-> k, nonce |-> 0]
        BY <1>2 DEF Advance, Rotate
    <2> HIDE DEF mixed
    <2>3. k \in Keys /\ k.at = mixed
        BY <1>1, <2>1 DEF Keys
    <2> HIDE DEF k
    <2>4. Advance(s).ck = mixed /\ Advance(s).key = k /\ Advance(s).nonce = 0
        BY <2>2
    <2>5. Advance(s) \in CipherStates
        BY <2>1, <2>2, <2>3, RotateAssumption DEF CipherStates
    <2>6. Before(<<s.key, s.nonce>>, Advance(s))
        BY <1>1, <2>1, <2>3, <2>4 DEF Before
    <2>7. ASSUME NEW p \in Keys \X Nat, Before(p, s)
          PROVE  Before(p, Advance(s))
        <3>1. Len(p[1].at) \in Nat
            BY LenProperties DEF Keys
        <3>2. Len(p[1].at) <= Len(s.key.at)
            BY <1>1, <2>7, <3>1 DEF Before
        <3> QED BY <1>1, <2>1, <2>3, <2>4, <3>1, <3>2 DEF Before
    <2> QED BY <1>1, <2>1, <2>3, <2>4, <2>5, <2>6, <2>7 DEF Behind
<1>3. CASE ~(s.nonce + 1 >= RotateAt)
    <2>1. Advance(s) = [ck |-> s.ck, key |-> s.key, nonce |-> s.nonce + 1]
        BY <1>3 DEF Advance
    <2>2. /\ Advance(s).ck = s.ck /\ Advance(s).key = s.key
          /\ Advance(s).nonce = s.nonce + 1
        BY <2>1
    <2>3. s.nonce + 1 \in 0..(RotateAt - 1)
        BY <1>1, <1>3, RotateAssumption
    <2>4. Advance(s) \in CipherStates
        BY <1>1, <2>1, <2>3 DEF CipherStates
    <2>5. ASSUME NEW p \in Keys \X Nat, Before(p, s)
          PROVE  Before(p, Advance(s))
        BY <1>1, <2>2, <2>5 DEF Before
    <2>6. Before(<<s.key, s.nonce>>, Advance(s))
        BY <1>1, <2>2 DEF Before
    <2> QED BY <1>1, <2>2, <2>4, <2>5, <2>6 DEF Behind
<1> QED BY <1>2, <1>3

-----------------------------------------------------------------------------
(* No key is younger than the chaining key of its end. *)
KeysBehindCk == \A e \in Ends : Behind(sk[e], ck[e]) /\ Behind(rk[e], ck[e])

LEMMA OtherEnd == \A e \in Ends : Other(e) \in Ends
BY DEF Other, Ends

LEMMA InitTyped == Init => TypeOK /\ KeysBehindCk
<1> SUFFICES ASSUME Init PROVE TypeOK /\ KeysBehindCk
    OBVIOUS
<1>1. \A e \in Ends : [dir |-> e, at |-> <<>>] \in Keys
    BY DEF Keys
<1>2. \A e \in Ends : [dir |-> Other(e), at |-> <<>>] \in Keys
    BY OtherEnd DEF Keys
<1>3. TypeOK
    BY <1>1, <1>2, RotateAssumption DEF Init, TypeOK
<1>4. KeysBehindCk
    BY DEF Init, KeysBehindCk, Behind
<1> QED BY <1>3, <1>4

-----------------------------------------------------------------------------
LEMMA BehindLonger ==
    ASSUME NEW k \in Keys, NEW c \in Seq(Ends), NEW d \in Seq(Ends),
           Behind(k, c), Len(c) <= Len(d)
    PROVE  Behind(k, d)
<1>1. k.at \in Seq(Ends)
    BY DEF Keys
<1>2. Len(k.at) \in Nat /\ Len(c) \in Nat /\ Len(d) \in Nat
    BY <1>1, LenProperties
<1> QED BY <1>2 DEF Behind

LEMMA CipherStateOf ==
    ASSUME TypeOK, KeysBehindCk, NEW e \in Ends
    PROVE  /\ Sending(e) \in CipherStates /\ Receiving(e) \in CipherStates
           /\ Sending(e).ck = ck[e] /\ Receiving(e).ck = ck[e]
           /\ Sending(e).key = sk[e] /\ Receiving(e).key = rk[e]
           /\ Sending(e).nonce = sn[e] /\ Receiving(e).nonce = rn[e]
           /\ Behind(Sending(e).key, Sending(e).ck)
           /\ Behind(Receiving(e).key, Receiving(e).ck)
<1>1. /\ ck[e] \in Seq(Ends) /\ sk[e] \in Keys /\ rk[e] \in Keys
      /\ sn[e] \in 0..(RotateAt - 1) /\ rn[e] \in 0..(RotateAt - 1)
    BY DEF TypeOK
<1>2. Behind(sk[e], ck[e]) /\ Behind(rk[e], ck[e])
    BY DEF KeysBehindCk
<1>3. /\ Sending(e).ck = ck[e] /\ Receiving(e).ck = ck[e]
      /\ Sending(e).key = sk[e] /\ Receiving(e).key = rk[e]
      /\ Sending(e).nonce = sn[e] /\ Receiving(e).nonce = rn[e]
    BY DEF Sending, Receiving
<1>4. Sending(e) \in CipherStates /\ Receiving(e) \in CipherStates
    BY <1>1 DEF Sending, Receiving, CipherStates
<1> QED BY <1>2, <1>3, <1>4

(* What Write seals with, and the cipher state it leaves behind. *)
LEMMA WriteCiphers ==
    ASSUME NEW s1 \in CipherStates, Behind(s1.key, s1.ck),
           NEW s2, s2 = Advance(s1), NEW s3, s3 = Advance(s2)
    PROVE  /\ s2 \in CipherStates /\ s3 \in CipherStates
           /\ Behind(s3.key, s3.ck) /\ Len(s1.ck) <= Len(s3.ck)
           /\ Before(<<s1.key, s1.nonce>>, s2)
           /\ Before(<<s1.key, s1.nonce>>, s3)
           /\ Before(<<s2.key, s2.nonce>>, s3)
           /\ \A p \in Keys \X Nat : Before(p, s1) => Before(p, s2) /\ Before(p, s3)
<1>1. /\ s2 \in CipherStates /\ Behind(s2.key, s2.ck)
      /\ Len(s1.ck) <= Len(s2.ck)
      /\ Before(<<s1.key, s1.nonce>>, s2)
      /\ \A p \in Keys \X Nat : Before(p, s1) => Before(p, s2)
    BY AdvanceProgress
<1>2. /\ s3 \in CipherStates /\ Behind(s3.key, s3.ck)
      /\ Len(s2.ck) <= Len(s3.ck)
      /\ Before(<<s2.key, s2.nonce>>, s3)
      /\ \A p \in Keys \X Nat : Before(p, s2) => Before(p, s3)
    BY <1>1, AdvanceProgress
<1>3. <<s1.key, s1.nonce>> \in Keys \X Nat
    BY DEF CipherStates
<1>4. s1.ck \in Seq(Ends) /\ s2.ck \in Seq(Ends) /\ s3.ck \in Seq(Ends)
    BY <1>1, <1>2 DEF CipherStates
<1>5. Len(s1.ck) \in Nat /\ Len(s2.ck) \in Nat /\ Len(s3.ck) \in Nat
    BY <1>4, LenProperties
<1>6. Len(s1.ck) <= Len(s3.ck)
    BY <1>1, <1>2, <1>5
<1> QED BY <1>1, <1>2, <1>3, <1>6

LEMMA WriteTyped ==
    ASSUME TypeOK, KeysBehindCk, NEW e \in Ends, Write(e)
    PROVE  TypeOK' /\ KeysBehindCk'
<1>1. PICK s1, s2, s3, m :
          /\ s1 = Sending(e) /\ s2 = Advance(s1) /\ s3 = Advance(s2)
          /\ m = wrote[e] + 1
          /\ wrote' = [wrote EXCEPT ![e] = m]
          /\ wire' = [wire EXCEPT ![Other(e)] =
                          @ \o <<Seal("len", s1, m), Seal("body", s2, m)>>]
          /\ used' = [used EXCEPT ![e] =
                          @ \cup {<<s1.key, s1.nonce>>, <<s2.key, s2.nonce>>}]
          /\ ck' = [ck EXCEPT ![e] = s3.ck]
          /\ sk' = [sk EXCEPT ![e] = s3.key]
          /\ sn' = [sn EXCEPT ![e] = s3.nonce]
          /\ UNCHANGED <<rk, rn, buf, readState, scheduled, inbox, reading, open, got>>
    BY Zenon DEF Write, socket
<1>2. s1 \in CipherStates /\ s1.ck = ck[e] /\ Behind(s1.key, s1.ck)
    BY <1>1, CipherStateOf
<1>3. /\ s2 \in CipherStates /\ s3 \in CipherStates
      /\ Behind(s3.key, s3.ck) /\ Len(ck[e]) <= Len(s3.ck)
    BY <1>1, <1>2, WriteCiphers, Zenon
<1>4. /\ s1.key \in Keys /\ s1.nonce \in Nat /\ s2.key \in Keys /\ s2.nonce \in Nat
      /\ s3.ck \in Seq(Ends) /\ s3.key \in Keys /\ s3.nonce \in 0..(RotateAt - 1)
    BY <1>2, <1>3 DEF CipherStates
<1>5. m \in Messages /\ wrote' \in [Ends -> Nat]
    <2>1. wrote \in [Ends -> Nat]
        BY DEF TypeOK
    <2> QED BY <1>1, <2>1 DEF Messages
<1>6. wire' \in [Ends -> Seq(Ciphertexts)]
    <2>1. Seal("len", s1, m) \in Ciphertexts /\ Seal("body", s2, m) \in Ciphertexts
        BY <1>4, <1>5 DEF Seal, Ciphertexts, Parts
    <2>2. wire \in [Ends -> Seq(Ciphertexts)]
        BY DEF TypeOK
    <2>3. wire[Other(e)] \o <<Seal("len", s1, m), Seal("body", s2, m)>>
             \in Seq(Ciphertexts)
        BY <2>1, <2>2, OtherEnd
    <2> QED BY <1>1, <2>2, <2>3, OtherEnd
<1>7. /\ ck' \in [Ends -> Seq(Ends)] /\ sk' \in [Ends -> Keys]
      /\ sn' \in [Ends -> 0..(RotateAt - 1)]
    <2>1. /\ ck \in [Ends -> Seq(Ends)] /\ sk \in [Ends -> Keys]
          /\ sn \in [Ends -> 0..(RotateAt - 1)]
        BY DEF TypeOK
    <2> QED BY <1>1, <1>4, <2>1
<1>8. used' \in [Ends -> SUBSET (Keys \X Nat)]
    <2>1. used \in [Ends -> SUBSET (Keys \X Nat)]
        BY DEF TypeOK
    <2> QED BY <1>1, <1>4, <2>1
<1>9. TypeOK'
    BY <1>1, <1>5, <1>6, <1>7, <1>8, Zenon DEF TypeOK
<1>10. KeysBehindCk'
    <2>1. /\ ck \in [Ends -> Seq(Ends)] /\ sk \in [Ends -> Keys]
          /\ rk \in [Ends -> Keys]
        BY DEF TypeOK
    <2>2. Behind(rk[e], s3.ck)
        BY <1>3, <1>4, <2>1, BehindLonger DEF KeysBehindCk
    <2>3. ASSUME NEW f \in Ends
          PROVE  Behind(sk'[f], ck'[f]) /\ Behind(rk'[f], ck'[f])
        <3>1. CASE f = e
            <4>1. sk'[f] = s3.key /\ ck'[f] = s3.ck /\ rk'[f] = rk[e]
                BY <1>1, <2>1, <3>1
            <4> QED BY <1>3, <2>2, <4>1
        <3>2. CASE f # e
            <4>1. sk'[f] = sk[f] /\ ck'[f] = ck[f] /\ rk'[f] = rk[f]
                BY <1>1, <2>1, <3>2
            <4> QED BY <4>1 DEF KeysBehindCk
        <3> QED BY <3>1, <3>2
    <2> QED BY <2>3 DEF KeysBehindCk
<1> QED BY <1>9, <1>10

-----------------------------------------------------------------------------
LEMMA DecryptTyped ==
    ASSUME TypeOK, KeysBehindCk, NEW e \in Ends, CanDecrypt(e), TakeAndDecrypt(e)
    PROVE  /\ ck' \in [Ends -> Seq(Ends)] /\ rk' \in [Ends -> Keys]
           /\ rn' \in [Ends -> 0..(RotateAt - 1)]
           /\ buf' \in [Ends -> Seq(Ciphertexts)]
           /\ Head(buf[e]) \in Ciphertexts
           /\ UNCHANGED <<sk, sn>>
           /\ KeysBehindCk'
<1>1. PICK s : /\ s = Advance(Receiving(e))
               /\ buf' = [buf EXCEPT ![e] = Tail(@)]
               /\ ck' = [ck EXCEPT ![e] = s.ck]
               /\ rk' = [rk EXCEPT ![e] = s.key]
               /\ rn' = [rn EXCEPT ![e] = s.nonce]
               /\ UNCHANGED <<sk, sn>>
    BY Zenon DEF TakeAndDecrypt
<1>2. /\ s \in CipherStates /\ Behind(s.key, s.ck) /\ Len(ck[e]) <= Len(s.ck)
    <2> DEFINE r == Receiving(e)
    <2>1. r \in CipherStates /\ r.ck = ck[e] /\ Behind(r.key, r.ck)
        BY CipherStateOf
    <2> HIDE DEF r
    <2>2. /\ Advance(r) \in CipherStates
          /\ Behind(Advance(r).key, Advance(r).ck)
          /\ Len(r.ck) <= Len(Advance(r).ck)
        BY <2>1, AdvanceProgress, Zenon
    <2> QED BY <1>1, <2>1, <2>2 DEF r
<1>3. s.ck \in Seq(Ends) /\ s.key \in Keys /\ s.nonce \in 0..(RotateAt - 1)
    BY <1>2 DEF CipherStates
<1>4. /\ ck \in [Ends -> Seq(Ends)] /\ rk \in [Ends -> Keys]
      /\ sk \in [Ends -> Keys] /\ rn \in [Ends -> 0..(RotateAt - 1)]
      /\ buf \in [Ends -> Seq(Ciphertexts)]
    BY DEF TypeOK
<1>5. buf[e] # <<>> /\ buf[e] \in Seq(Ciphertexts)
    BY <1>4 DEF CanDecrypt
<1>6. Head(buf[e]) \in Ciphertexts /\ Tail(buf[e]) \in Seq(Ciphertexts)
    BY <1>5
<1>7. /\ ck' \in [Ends -> Seq(Ends)] /\ rk' \in [Ends -> Keys]
      /\ rn' \in [Ends -> 0..(RotateAt - 1)]
      /\ buf' \in [Ends -> Seq(Ciphertexts)]
    BY <1>1, <1>3, <1>4, <1>6
<1>8. KeysBehindCk'
    <2>1. Behind(sk[e], s.ck)
        BY <1>2, <1>3, <1>4, BehindLonger DEF KeysBehindCk
    <2>2. ASSUME NEW f \in Ends
          PROVE  Behind(sk'[f], ck'[f]) /\ Behind(rk'[f], ck'[f])
        <3>1. CASE f = e
            <4>1. sk'[f] = sk[e] /\ ck'[f] = s.ck /\ rk'[f] = s.key
                BY <1>1, <1>4, <3>1
            <4> QED BY <1>2, <2>1, <4>1
        <3>2. CASE f # e
            <4>1. sk'[f] = sk[f] /\ ck'[f] = ck[f] /\ rk'[f] = rk[f]
                BY <1>1, <1>4, <3>2
            <4> QED BY <4>1 DEF KeysBehindCk
        <3> QED BY <3>1, <3>2
    <2> QED BY <2>2 DEF KeysBehindCk
<1> QED BY <1>1, <1>6, <1>7, <1>8

(* Nothing but Write and a decryption touches the keys. *)
LEMMA NoiseUnchanged ==
    ASSUME KeysBehindCk, UNCHANGED noise
    PROVE  KeysBehindCk'
BY DEF KeysBehindCk, noise

LEMMA StepTyped == TypeOK /\ KeysBehindCk /\ [Next]_vars => TypeOK' /\ KeysBehindCk'
<1> SUFFICES ASSUME TypeOK, KeysBehindCk, [Next]_vars
             PROVE  TypeOK' /\ KeysBehindCk'
    OBVIOUS
<1> DEFINE ReadStates == {"READY_FOR_LEN", "READY_FOR_BODY", "BLOCKED"}
<1>t. /\ wire \in [Ends -> Seq(Ciphertexts)] /\ buf \in [Ends -> Seq(Ciphertexts)]
      /\ readState \in [Ends -> ReadStates]
      /\ scheduled \in [Ends -> BOOLEAN] /\ open \in [Ends -> BOOLEAN]
      /\ reading \in [Ends -> BOOLEAN]
      /\ inbox \in [Ends -> Seq(Messages)] /\ got \in [Ends -> Seq(Messages)]
    BY DEF TypeOK
<1>1. ASSUME NEW e \in Ends, Write(e) PROVE TypeOK' /\ KeysBehindCk'
    BY <1>1, WriteTyped
<1>2. ASSUME NEW e \in Ends, Arrive(e) PROVE TypeOK' /\ KeysBehindCk'
    <2>1. Head(wire[e]) \in Ciphertexts /\ Tail(wire[e]) \in Seq(Ciphertexts)
        BY <1>2, <1>t DEF Arrive
    <2>2. Append(buf[e], Head(wire[e])) \in Seq(Ciphertexts)
        BY <1>t, <2>1
    <2>3. /\ buf' \in [Ends -> Seq(Ciphertexts)] /\ wire' \in [Ends -> Seq(Ciphertexts)]
          /\ scheduled' \in [Ends -> BOOLEAN]
        BY <1>2, <1>t, <2>1, <2>2 DEF Arrive
    <2>4. UNCHANGED <<ck, sk, sn, rk, rn, readState, inbox, reading, open, wrote, got, used>>
        BY <1>2 DEF Arrive, noise
    <2>5. TypeOK'
        BY <2>3, <2>4, Zenon DEF TypeOK
    <2> QED BY <1>2, <2>5, NoiseUnchanged DEF Arrive
<1>3. ASSUME NEW e \in Ends, OnDataStops(e) PROVE TypeOK' /\ KeysBehindCk'
    <2>1. scheduled' \in [Ends -> BOOLEAN]
        BY <1>3, <1>t DEF OnDataStops
    <2>2. UNCHANGED <<ck, sk, sn, rk, rn, wire, buf, readState, inbox, reading, open, wrote,
                      got, used>>
        BY <1>3 DEF OnDataStops, noise
    <2>3. TypeOK'
        BY <2>1, <2>2, Zenon DEF TypeOK
    <2> QED BY <1>3, <2>3, NoiseUnchanged DEF OnDataStops
<1>4. ASSUME NEW e \in Ends, ProcessPacketLength(e) PROVE TypeOK' /\ KeysBehindCk'
    <2>1. /\ ck' \in [Ends -> Seq(Ends)] /\ rk' \in [Ends -> Keys]
          /\ rn' \in [Ends -> 0..(RotateAt - 1)]
          /\ buf' \in [Ends -> Seq(Ciphertexts)]
          /\ UNCHANGED <<sk, sn>> /\ KeysBehindCk'
        BY <1>4, DecryptTyped DEF ProcessPacketLength
    <2>2. readState' \in [Ends -> ReadStates]
        BY <1>4, <1>t DEF ProcessPacketLength
    <2>3. UNCHANGED <<wire, scheduled, inbox, reading, open, wrote, got, used>>
        BY <1>4 DEF ProcessPacketLength
    <2>4. TypeOK'
        BY <2>1, <2>2, <2>3, Zenon DEF TypeOK
    <2> QED BY <2>1, <2>4
<1>5. ASSUME NEW e \in Ends, ProcessPacketBody(e) PROVE TypeOK' /\ KeysBehindCk'
    <2>1. /\ ck' \in [Ends -> Seq(Ends)] /\ rk' \in [Ends -> Keys]
          /\ rn' \in [Ends -> 0..(RotateAt - 1)]
          /\ buf' \in [Ends -> Seq(Ciphertexts)] /\ Head(buf[e]) \in Ciphertexts
          /\ UNCHANGED <<sk, sn>> /\ KeysBehindCk'
        BY <1>5, DecryptTyped DEF ProcessPacketBody
    <2>2. Append(inbox[e], Head(buf[e]).msg) \in Seq(Messages)
        <3>1. Head(buf[e]).msg \in Messages
            BY <2>1 DEF Ciphertexts
        <3> QED BY <1>t, <3>1
    <2>3. inbox' \in [Ends -> Seq(Messages)] /\ reading' \in [Ends -> BOOLEAN]
        BY <1>5, <1>t, <2>2 DEF ProcessPacketBody
    <2> DEFINE ok == Len(Append(inbox[e], Head(buf[e]).msg)) < HighWaterMark
    <2>4. /\ readState' = [readState EXCEPT ![e] = IF ok THEN "READY_FOR_LEN" ELSE "BLOCKED"]
          /\ scheduled' = [scheduled EXCEPT ![e] = ok]
          /\ ok \in BOOLEAN
        <3>1. ok \in BOOLEAN
            BY <2>2, HighWaterMarkAssumption
        <3> QED BY <1>5, <3>1 DEF ProcessPacketBody
    <2> HIDE DEF ok
    <2>5. readState' \in [Ends -> ReadStates] /\ scheduled' \in [Ends -> BOOLEAN]
        BY <1>t, <2>4
    <2>6. UNCHANGED <<wire, open, wrote, got, used>>
        BY <1>5 DEF ProcessPacketBody
    <2>7. TypeOK'
        BY <2>1, <2>3, <2>5, <2>6, Zenon DEF TypeOK
    <2> QED BY <2>1, <2>7
<1>6. ASSUME NEW e \in Ends, DecryptFails(e) \/ ConnectionReset(e)
      PROVE  TypeOK' /\ KeysBehindCk'
    <2>1. scheduled' \in [Ends -> BOOLEAN] /\ open' \in [Ends -> BOOLEAN]
        <3>1. /\ open' = [open EXCEPT ![e] = FALSE]
              /\ scheduled' = [scheduled EXCEPT ![e] = FALSE]
            BY <1>6, Zenon DEF DecryptFails, ConnectionReset
        <3> QED BY <1>t, <3>1
    <2>2. UNCHANGED <<ck, sk, sn, rk, rn, wire, buf, readState, inbox, reading, wrote,
                      got, used>>
        BY <1>6 DEF DecryptFails, ConnectionReset, noise
    <2>3. TypeOK'
        BY <2>1, <2>2, Zenon DEF TypeOK
    <2> QED BY <1>6, <2>3, NoiseUnchanged DEF DecryptFails, ConnectionReset
<1>7. ASSUME NEW e \in Ends, ConsumerReads(e) PROVE TypeOK' /\ KeysBehindCk'
    <2>1. Head(inbox[e]) \in Messages /\ Tail(inbox[e]) \in Seq(Messages)
        BY <1>7, <1>t DEF ConsumerReads
    <2>2. Append(got[e], Head(inbox[e])) \in Seq(Messages)
        BY <1>t, <2>1
    <2>3. got' \in [Ends -> Seq(Messages)] /\ inbox' \in [Ends -> Seq(Messages)]
        BY <1>7, <1>t, <2>1, <2>2 DEF ConsumerReads
    <2>4. /\ readState' \in [Ends -> ReadStates] /\ scheduled' \in [Ends -> BOOLEAN]
          /\ reading' \in [Ends -> BOOLEAN]
        <3>1. CASE reading[e]
            BY <1>7, <1>t, <3>1 DEF ConsumerReads
        <3>2. CASE ~reading[e]
            <4>1. /\ reading' = [reading EXCEPT ![e] = TRUE]
                  /\ scheduled' = [scheduled EXCEPT ![e] = TRUE]
                  /\ readState' = [readState EXCEPT ![e] =
                                      IF @ = "BLOCKED" THEN "READY_FOR_LEN" ELSE @]
                BY <1>7, <3>2 DEF ConsumerReads
            <4> QED BY <1>t, <4>1
        <3> QED BY <3>1, <3>2
    <2>5. UNCHANGED <<ck, sk, sn, rk, rn, wire, buf, open, wrote, used>>
        BY <1>7 DEF ConsumerReads, noise
    <2>6. TypeOK'
        BY <2>3, <2>4, <2>5, Zenon DEF TypeOK
    <2> QED BY <1>7, <2>6, NoiseUnchanged DEF ConsumerReads
<1>8. CASE UNCHANGED vars
    <2>1. TypeOK'
        BY <1>8, Zenon DEF TypeOK, vars
    <2>2. UNCHANGED noise
        BY <1>8 DEF vars, noise
    <2> QED BY <2>1, <2>2, NoiseUnchanged
<1> QED BY <1>1, <1>2, <1>3, <1>4, <1>5, <1>6, <1>7, <1>8, Zenon DEF Next, OnData

(* Every reachable state of the pair of sockets is well formed: in         *)
(* particular the nonces stay below the rotation threshold, which is what  *)
(* encryptMessage and decryptLength/decryptMessage rely on.                *)
THEOREM TypeCorrect == Spec => []TypeOK
<1>1. Init => TypeOK /\ KeysBehindCk
    BY InitTyped
<1>2. TypeOK /\ KeysBehindCk /\ [Next]_vars => (TypeOK /\ KeysBehindCk)'
    BY StepTyped
<1> QED BY <1>1, <1>2, PTL DEF Spec

-----------------------------------------------------------------------------
(* Why no nonce is ever reused: every pair an end has sealed with is       *)
(* behind the cipher state it will seal with next.                         *)
UsedBehind == \A e \in Ends :
    /\ IsFiniteSet(used[e])
    /\ Cardinality(used[e]) = 2 * wrote[e]
    /\ \A p \in used[e] : Before(p, Sending(e))

LEMMA NotBeforeItself ==
    ASSUME NEW s \in CipherStates
    PROVE  ~Before(<<s.key, s.nonce>>, s)
<1>1. s.key \in Keys /\ s.nonce \in 0..(RotateAt - 1)
    BY DEF CipherStates
<1>2. s.key.at \in Seq(Ends)
    BY <1>1 DEF Keys
<1>3. Len(s.key.at) \in Nat /\ s.nonce \in Nat
    BY <1>1, <1>2, LenProperties
<1> QED BY <1>3 DEF Before

LEMMA AddNew ==
    ASSUME NEW S, IsFiniteSet(S), NEW x, x \notin S
    PROVE  IsFiniteSet(S \cup {x}) /\ Cardinality(S \cup {x}) = Cardinality(S) + 1
<1>1. Cardinality(S \cup {x}) = IF x \in S THEN Cardinality(S) ELSE Cardinality(S) + 1
    BY FS_AddElement, Zenon
<1> QED BY <1>1, FS_AddElement, Zenon

LEMMA WriteFresh ==
    ASSUME TypeOK, KeysBehindCk, UsedBehind, NEW e \in Ends, Write(e)
    PROVE  UsedBehind'
<1>1. PICK s1, s2, s3 :
          /\ s1 = Sending(e) /\ s2 = Advance(s1) /\ s3 = Advance(s2)
          /\ wrote' = [wrote EXCEPT ![e] = wrote[e] + 1]
          /\ used' = [used EXCEPT ![e] =
                          @ \cup {<<s1.key, s1.nonce>>, <<s2.key, s2.nonce>>}]
          /\ sk' = [sk EXCEPT ![e] = s3.key]
          /\ sn' = [sn EXCEPT ![e] = s3.nonce]
    BY Zenon DEF Write
<1>2. s1 \in CipherStates /\ Behind(s1.key, s1.ck)
    BY <1>1, CipherStateOf
<1>3. /\ s2 \in CipherStates /\ s3 \in CipherStates
      /\ Before(<<s1.key, s1.nonce>>, s2)
      /\ Before(<<s1.key, s1.nonce>>, s3)
      /\ Before(<<s2.key, s2.nonce>>, s3)
      /\ \A p \in Keys \X Nat : Before(p, s1) => Before(p, s2) /\ Before(p, s3)
    BY <1>1, <1>2, WriteCiphers, Zenon
<1> DEFINE p1 == <<s1.key, s1.nonce>>
           p2 == <<s2.key, s2.nonce>>
<1>4. ~Before(p1, s1) /\ ~Before(p2, s2)
    BY <1>2, <1>3, NotBeforeItself
<1>5. /\ used \in [Ends -> SUBSET (Keys \X Nat)] /\ wrote \in [Ends -> Nat]
      /\ sk \in [Ends -> Keys] /\ sn \in [Ends -> 0..(RotateAt - 1)]
    BY DEF TypeOK
<1>6. /\ IsFiniteSet(used[e]) /\ Cardinality(used[e]) = 2 * wrote[e]
      /\ \A p \in used[e] : Before(p, s1)
    BY <1>1 DEF UsedBehind
<1> HIDE DEF p1, p2
<1>7. used'[e] = (used[e] \cup {p1}) \cup {p2}
    BY <1>1, <1>5 DEF p1, p2
<1>8. \A p \in used[e] : Before(p, s2) /\ Before(p, s3)
    BY <1>3, <1>5, <1>6
<1>9. p1 \notin used[e]
    BY <1>4, <1>6
<1>10. p2 \notin used[e] \cup {p1}
    BY <1>3, <1>4, <1>8 DEF p1
<1>11. IsFiniteSet(used'[e]) /\ Cardinality(used'[e]) = 2 * wrote'[e]
    <2>1. /\ IsFiniteSet(used[e] \cup {p1})
          /\ Cardinality(used[e] \cup {p1}) = Cardinality(used[e]) + 1
        BY <1>6, <1>9, AddNew, Zenon
    <2>2. /\ IsFiniteSet(used'[e])
          /\ Cardinality(used'[e]) = Cardinality(used[e] \cup {p1}) + 1
        BY <1>7, <1>10, <2>1, AddNew, Zenon
    <2>3. wrote'[e] = wrote[e] + 1 /\ wrote[e] \in Nat
        BY <1>1, <1>5
    <2> QED BY <1>6, <2>1, <2>2, <2>3
<1>12. \A p \in used'[e] : Before(p, s3)
    BY <1>3, <1>7, <1>8 DEF p1, p2
<1>13. sk'[e] = s3.key /\ sn'[e] = s3.nonce
    BY <1>1, <1>5
<1>14. \A p \in used'[e] : Before(p, Sending(e)')
    BY <1>12, <1>13 DEF Before, Sending
<1>15. ASSUME NEW f \in Ends, f # e
       PROVE  /\ IsFiniteSet(used'[f]) /\ Cardinality(used'[f]) = 2 * wrote'[f]
              /\ \A p \in used'[f] : Before(p, Sending(f)')
    <2>1. /\ used'[f] = used[f] /\ wrote'[f] = wrote[f]
          /\ sk'[f] = sk[f] /\ sn'[f] = sn[f]
        BY <1>1, <1>5, <1>15
    <2>2. /\ IsFiniteSet(used[f]) /\ Cardinality(used[f]) = 2 * wrote[f]
          /\ \A p \in used[f] : Before(p, Sending(f))
        BY DEF UsedBehind
    <2>3. \A p \in used[f] : Before(p, Sending(f)')
        BY <2>1, <2>2 DEF Before, Sending
    <2> QED BY <2>1, <2>2, <2>3
<1> QED BY <1>11, <1>14, <1>15 DEF UsedBehind

LEMMA StepFresh == TypeOK /\ KeysBehindCk /\ UsedBehind /\ [Next]_vars => UsedBehind'
<1> SUFFICES ASSUME TypeOK, KeysBehindCk, UsedBehind, [Next]_vars PROVE UsedBehind'
    OBVIOUS
<1>1. ASSUME NEW e \in Ends, Write(e) PROVE UsedBehind'
    BY <1>1, WriteFresh
<1>2. ASSUME UNCHANGED <<sk, sn, wrote, used>> PROVE UsedBehind'
    <2>1. ASSUME NEW e \in Ends
          PROVE  /\ IsFiniteSet(used'[e]) /\ Cardinality(used'[e]) = 2 * wrote'[e]
                 /\ \A p \in used'[e] : Before(p, Sending(e)')
        <3>1. /\ IsFiniteSet(used[e]) /\ Cardinality(used[e]) = 2 * wrote[e]
              /\ \A p \in used[e] : Before(p, Sending(e))
            BY DEF UsedBehind
        <3>2. \A p \in used[e] : Before(p, Sending(e)')
            BY <1>2, <3>1 DEF Before, Sending
        <3> QED BY <1>2, <3>1, <3>2
    <2> QED BY <2>1 DEF UsedBehind
<1>3. CASE \E e \in Ends : ~Write(e) /\ (Arrive(e) \/ OnData(e) \/ ConsumerReads(e)
                                             \/ ConnectionReset(e))
    <2>1. UNCHANGED <<sk, sn, wrote, used>>
        BY <1>3, Zenon DEF Arrive, OnData, OnDataStops, ProcessPacketLength,
            ProcessPacketBody, TakeAndDecrypt, DecryptFails, ConsumerReads,
            ConnectionReset, noise
    <2> QED BY <1>2, <2>1
<1>4. CASE UNCHANGED vars
    BY <1>2, <1>4 DEF vars
<1> QED BY <1>1, <1>3, <1>4, Zenon DEF Next

(* No end of a connection ever seals two ciphertexts with the same key and *)
(* nonce, whatever rotations the messages it receives cause.               *)
THEOREM NonceFreshness == Spec => []NonceFresh
<1>1. Init => UsedBehind
    <2> SUFFICES ASSUME Init PROVE UsedBehind
        OBVIOUS
    <2>1. \A e \in Ends : used[e] = {} /\ wrote[e] = 0
        BY DEF Init
    <2> QED BY <2>1, FS_EmptySet DEF UsedBehind
<1>2. TypeOK /\ KeysBehindCk /\ [Next]_vars => (TypeOK /\ KeysBehindCk)'
    BY StepTyped
<1>3. UsedBehind => NonceFresh
    BY DEF UsedBehind, NonceFresh
<1> QED BY InitTyped, <1>1, <1>2, <1>3, StepFresh, PTL DEF Spec

-----------------------------------------------------------------------------
(* A blocked socket has something for its consumer to read, and the stream *)
(* is free to call _read when that happens.                                *)
BlockedWakes == \A e \in Ends :
    readState[e] = "BLOCKED" => inbox[e] # <<>> /\ ~reading[e]

LEMMA StepWakes ==
    ASSUME TypeOK, BlockedWakes, NoLostWakeup, [Next]_vars
    PROVE  BlockedWakes' /\ NoLostWakeup'
<1> DEFINE Wakes(f) == readState[f] = "BLOCKED" => inbox[f] # <<>> /\ ~reading[f]
           Awake(f) == open[f] /\ buf[f] # <<>> /\ ~scheduled[f] =>
                          readState[f] = "BLOCKED" /\ inbox[f] # <<>> /\ ~reading[f]
<1>t. /\ buf \in [Ends -> Seq(Ciphertexts)] /\ inbox \in [Ends -> Seq(Messages)]
      /\ readState \in [Ends -> {"READY_FOR_LEN", "READY_FOR_BODY", "BLOCKED"}]
      /\ scheduled \in [Ends -> BOOLEAN] /\ open \in [Ends -> BOOLEAN]
      /\ reading \in [Ends -> BOOLEAN]
    BY DEF TypeOK
<1>i. ASSUME NEW f \in Ends PROVE Wakes(f) /\ Awake(f)
    BY DEF BlockedWakes, NoLostWakeup
<1>u. ASSUME NEW f \in Ends,
             /\ buf'[f] = buf[f] /\ readState'[f] = readState[f]
             /\ scheduled'[f] = scheduled[f] /\ inbox'[f] = inbox[f]
             /\ reading'[f] = reading[f] /\ open'[f] = open[f]
      PROVE  Wakes(f)' /\ Awake(f)'
    BY <1>i, <1>u
<1>1. ASSUME NEW e \in Ends, Write(e), NEW f \in Ends PROVE Wakes(f)' /\ Awake(f)'
    <2>1. UNCHANGED <<buf, readState, scheduled, inbox, reading, open>>
        BY <1>1, Zenon DEF Write, socket
    <2> QED BY <1>u, <2>1
<1>2. ASSUME NEW e \in Ends, Arrive(e), NEW f \in Ends PROVE Wakes(f)' /\ Awake(f)'
    <2>1. /\ scheduled' = [scheduled EXCEPT ![e] = TRUE]
          /\ f # e => buf'[f] = buf[f]
          /\ UNCHANGED <<readState, inbox, reading, open>>
        BY <1>2, <1>t DEF Arrive
    <2> QED BY <1>i, <1>t, <2>1
<1>3. ASSUME NEW e \in Ends, OnDataStops(e), NEW f \in Ends PROVE Wakes(f)' /\ Awake(f)'
    <2>1. /\ scheduled' = [scheduled EXCEPT ![e] = FALSE]
          /\ buf[e] = <<>> \/ readState[e] = "BLOCKED"
          /\ UNCHANGED <<buf, readState, inbox, reading, open>>
        BY <1>3 DEF OnDataStops
    <2> QED BY <1>i, <1>t, <2>1
<1>4. ASSUME NEW e \in Ends, ProcessPacketLength(e), NEW f \in Ends
      PROVE  Wakes(f)' /\ Awake(f)'
    <2>1. /\ readState' = [readState EXCEPT ![e] = "READY_FOR_BODY"]
          /\ f # e => buf'[f] = buf[f]
          /\ scheduled[e] = TRUE
          /\ UNCHANGED <<scheduled, inbox, reading, open>>
        BY <1>4, <1>t DEF ProcessPacketLength, TakeAndDecrypt, CanDecrypt
    <2> QED BY <1>i, <1>t, <2>1
<1>5. ASSUME NEW e \in Ends, ProcessPacketBody(e), NEW f \in Ends
      PROVE  Wakes(f)' /\ Awake(f)'
    <2> DEFINE pushed == Append(inbox[e], Head(buf[e]).msg)
               ok == Len(pushed) < HighWaterMark
    <2>1. /\ inbox' = [inbox EXCEPT ![e] = pushed]
          /\ reading' = [reading EXCEPT ![e] = FALSE]
          /\ readState' = [readState EXCEPT ![e] = IF ok THEN "READY_FOR_LEN" ELSE "BLOCKED"]
          /\ scheduled' = [scheduled EXCEPT ![e] = ok]
          /\ UNCHANGED open
        BY <1>5, ZenonT(60) DEF ProcessPacketBody
    <2>2. f # e => buf'[f] = buf[f]
        BY <1>5, <1>t DEF ProcessPacketBody, TakeAndDecrypt
    <2>3. pushed # <<>>
        <3>1. Head(buf[e]) \in Ciphertexts
            BY <1>5, <1>t DEF ProcessPacketBody, CanDecrypt
        <3>2. Head(buf[e]).msg \in Messages
            BY <3>1 DEF Ciphertexts
        <3>3. inbox[e] \in Seq(Messages)
            BY <1>t
        <3>4. \A q \in Seq(Messages), x \in Messages : Append(q, x) # <<>>
            BY AppendProperties
        <3> QED BY <3>2, <3>3, <3>4, Zenon
    <2> HIDE DEF pushed, ok
    <2>4. CASE f = e
        <3>1. inbox'[f] # <<>> /\ ~reading'[f]
            BY <1>t, <2>1, <2>3, <2>4
        <3>2. scheduled'[f] = ok /\ (~ok => readState'[f] = "BLOCKED")
            BY <1>t, <2>1, <2>4
        <3> QED BY <3>1, <3>2
    <2>5. CASE f # e
        <3>1. /\ readState'[f] = readState[f] /\ scheduled'[f] = scheduled[f]
              /\ inbox'[f] = inbox[f] /\ reading'[f] = reading[f]
            BY <1>t, <2>1, <2>5
        <3>2. buf'[f] = buf[f] /\ open'[f] = open[f]
            BY <2>1, <2>2, <2>5
        <3> QED BY <1>u, <3>1, <3>2, Zenon
    <2> QED BY <2>4, <2>5
<1>6. ASSUME NEW e \in Ends, DecryptFails(e) \/ ConnectionReset(e), NEW f \in Ends
      PROVE  Wakes(f)' /\ Awake(f)'
    <2>1. /\ open' = [open EXCEPT ![e] = FALSE]
          /\ scheduled' = [scheduled EXCEPT ![e] = FALSE]
          /\ UNCHANGED <<buf, readState, inbox, reading>>
        BY <1>6, Zenon DEF DecryptFails, ConnectionReset
    <2> QED BY <1>i, <1>t, <2>1
<1>7. ASSUME NEW e \in Ends, ConsumerReads(e), NEW f \in Ends
      PROVE  Wakes(f)' /\ Awake(f)'
    <2>1. f # e => inbox'[f] = inbox[f]
        BY <1>7, <1>t DEF ConsumerReads
    <2>2. UNCHANGED <<buf, open>>
        BY <1>7 DEF ConsumerReads
    <2>3. CASE reading[e]
        <3>1. UNCHANGED <<readState, scheduled, reading>>
            BY <1>7, <2>3 DEF ConsumerReads
        <3> QED BY <1>i, <2>1, <2>2, <2>3, <3>1
    <2>4. CASE ~reading[e]
        <3>1. /\ scheduled' = [scheduled EXCEPT ![e] = TRUE]
              /\ reading' = [reading EXCEPT ![e] = TRUE]
              /\ readState' = [readState EXCEPT ![e] =
                                  IF @ = "BLOCKED" THEN "READY_FOR_LEN" ELSE @]
            BY <1>7, <2>4 DEF ConsumerReads
        <3>2. readState'[e] # "BLOCKED" /\ scheduled'[e]
            BY <1>t, <3>1
        <3>3. f # e => /\ scheduled'[f] = scheduled[f] /\ reading'[f] = reading[f]
                       /\ readState'[f] = readState[f]
            BY <1>t, <3>1
        <3> QED BY <1>u, <2>1, <2>2, <3>2, <3>3
    <2> QED BY <2>3, <2>4
<1>8. ASSUME UNCHANGED vars, NEW f \in Ends PROVE Wakes(f)' /\ Awake(f)'
    BY <1>u, <1>8 DEF vars
<1>9. ASSUME NEW f \in Ends PROVE Wakes(f)' /\ Awake(f)'
    BY <1>1, <1>2, <1>3, <1>4, <1>5, <1>6, <1>7, <1>8, Zenon DEF Next, OnData
<1> QED BY <1>9 DEF BlockedWakes, NoLostWakeup

(* Back-pressure never strands received data, whatever the high-water mark *)
(* and however the consumer reads: see NoLostWakeup.                       *)
THEOREM WakeupsNotLost == Spec => []NoLostWakeup
<1>1. Init => BlockedWakes /\ NoLostWakeup
    BY DEF Init, BlockedWakes, NoLostWakeup
<1>2. TypeOK /\ BlockedWakes /\ NoLostWakeup /\ [Next]_vars
        => BlockedWakes' /\ NoLostWakeup'
    BY StepWakes
<1> QED BY TypeCorrect, <1>1, <1>2, PTL DEF Spec

-----------------------------------------------------------------------------
(* The stream of ciphertexts towards an end, by position: the frame of the *)
(* n-th message is the ciphertexts 2n-1 and 2n.  `taken` ciphertexts have  *)
(* been decrypted; what follows sits in the buffer, then on the wire.      *)
Numbered(s, taken) ==
    \A i \in 1..Len(s) : taken + i <= 2 * s[i].msg /\ 2 * s[i].msg <= taken + i + 1
Counts(s, n) == \A i \in 1..Len(s) : s[i] = n + i
Arrived(e) == Len(got[e]) + Len(inbox[e])
Taken(e) == 2 * Arrived(e) + (IF readState[e] = "READY_FOR_BODY" THEN 1 ELSE 0)

FramesOf(e) ==
    /\ Counts(got[e], 0) /\ Counts(inbox[e], Len(got[e]))
    /\ Numbered(buf[e], Taken(e))
    /\ Numbered(wire[e], Taken(e) + Len(buf[e]))
    /\ Taken(e) + Len(buf[e]) + Len(wire[e]) = 2 * wrote[Other(e)]
Frames == \A e \in Ends : FramesOf(e)

LEMMA NumberedTail ==
    ASSUME NEW s \in Seq(Ciphertexts), NEW n \in Nat, Numbered(s, n), s # <<>>
    PROVE  /\ Numbered(Tail(s), n + 1) /\ Len(Tail(s)) = Len(s) - 1
           /\ n + 1 <= 2 * Head(s).msg /\ 2 * Head(s).msg <= n + 2
           /\ Head(s) \in Ciphertexts /\ Tail(s) \in Seq(Ciphertexts)
<1>1. /\ Len(s) \in Nat /\ Len(s) >= 1 /\ Head(s) = s[1]
      /\ Tail(s) \in Seq(Ciphertexts) /\ Len(Tail(s)) = Len(s) - 1
      /\ \A i \in 1..Len(Tail(s)) : Tail(s)[i] = s[i + 1]
    BY HeadTailProperties
<1>2. \A i \in 1..Len(s) : s[i] \in Ciphertexts /\ s[i].msg \in Nat
    <2>1. \A c \in Ciphertexts : c.msg \in Nat
        BY DEF Ciphertexts, Messages
    <2> QED BY <2>1, ElementOfSeq
<1>3. Numbered(Tail(s), n + 1)
    <2> SUFFICES ASSUME NEW i \in 1..Len(Tail(s))
                 PROVE  /\ (n + 1) + i <= 2 * Tail(s)[i].msg
                        /\ 2 * Tail(s)[i].msg <= (n + 1) + i + 1
        BY DEF Numbered
    <2>1. i + 1 \in 1..Len(s) /\ Tail(s)[i] = s[i + 1] /\ i \in Nat
        BY <1>1
    <2>2. n + (i + 1) <= 2 * s[i + 1].msg /\ 2 * s[i + 1].msg <= n + (i + 1) + 1
        BY <2>1 DEF Numbered
    <2> QED BY <1>2, <2>1, <2>2
<1>4. 1 \in 1..Len(s)
    BY <1>1
<1>5. n + 1 <= 2 * s[1].msg /\ 2 * s[1].msg <= n + 1 + 1
    BY <1>4 DEF Numbered
<1> QED BY <1>1, <1>2, <1>3, <1>4, <1>5

LEMMA NumberedAppend ==
    ASSUME NEW s \in Seq(Ciphertexts), NEW n \in Nat, Numbered(s, n),
           NEW c \in Ciphertexts,
           n + Len(s) + 1 <= 2 * c.msg, 2 * c.msg <= n + Len(s) + 2
    PROVE  /\ Numbered(Append(s, c), n) /\ Append(s, c) \in Seq(Ciphertexts)
           /\ Len(Append(s, c)) = Len(s) + 1
<1>1. /\ Len(s) \in Nat /\ Len(Append(s, c)) = Len(s) + 1
      /\ Append(s, c) \in Seq(Ciphertexts)
      /\ Append(s, c)[Len(s) + 1] = c
      /\ \A i \in 1..Len(s) : Append(s, c)[i] = s[i]
    BY AppendProperties, LenProperties
<1> SUFFICES ASSUME NEW i \in 1..(Len(s) + 1)
             PROVE  /\ n + i <= 2 * Append(s, c)[i].msg
                    /\ 2 * Append(s, c)[i].msg <= n + i + 1
    BY <1>1 DEF Numbered
<1>2. CASE i = Len(s) + 1
    <2>1. c.msg \in Nat
        BY DEF Ciphertexts, Messages
    <2> QED BY <1>1, <1>2, <2>1
<1>3. CASE i # Len(s) + 1
    <2>1. i \in 1..Len(s)
        BY <1>1, <1>3
    <2> QED BY <1>1, <2>1 DEF Numbered
<1> QED BY <1>2, <1>3

LEMMA CountsAppend ==
    ASSUME NEW s \in Seq(Messages), NEW n \in Nat, Counts(s, n),
           NEW m \in Messages, m = n + Len(s) + 1
    PROVE  Counts(Append(s, m), n) /\ Len(Append(s, m)) = Len(s) + 1
<1>1. /\ Len(s) \in Nat /\ Len(Append(s, m)) = Len(s) + 1
      /\ Append(s, m)[Len(s) + 1] = m
      /\ \A i \in 1..Len(s) : Append(s, m)[i] = s[i]
    BY AppendProperties, LenProperties
<1> SUFFICES ASSUME NEW i \in 1..(Len(s) + 1) PROVE Append(s, m)[i] = n + i
    BY <1>1 DEF Counts
<1>2. CASE i = Len(s) + 1
    BY <1>1, <1>2
<1>3. CASE i # Len(s) + 1
    <2>1. i \in 1..Len(s)
        BY <1>1, <1>3
    <2> QED BY <1>1, <2>1 DEF Counts
<1> QED BY <1>2, <1>3

LEMMA CountsTail ==
    ASSUME NEW s \in Seq(Messages), NEW n \in Nat, Counts(s, n), s # <<>>
    PROVE  /\ Counts(Tail(s), n + 1) /\ Len(Tail(s)) = Len(s) - 1
           /\ Len(s) >= 1 /\ Head(s) = n + 1
<1>1. /\ Len(s) \in Nat /\ Len(s) >= 1 /\ Head(s) = s[1]
      /\ Len(Tail(s)) = Len(s) - 1
      /\ \A i \in 1..Len(Tail(s)) : Tail(s)[i] = s[i + 1]
    BY HeadTailProperties
<1>2. ASSUME NEW i \in 1..Len(Tail(s)) PROVE Tail(s)[i] = n + 1 + i
    <2>1. i + 1 \in 1..Len(s) /\ i \in Nat
        BY <1>1
    <2> QED BY <1>1, <2>1 DEF Counts
<1>3. 1 \in 1..Len(s)
    BY <1>1
<1> QED BY <1>1, <1>2, <1>3 DEF Counts

-----------------------------------------------------------------------------
LEMMA TwoEnds ==
    /\ \A e \in Ends : Other(e) \in Ends /\ Other(e) # e /\ Other(Other(e)) = e
    /\ \A e, f \in Ends : f # e => f = Other(e)
BY DEF Other, Ends

LEMMA FramesTyped ==
    ASSUME TypeOK, NEW e \in Ends
    PROVE  /\ buf[e] \in Seq(Ciphertexts) /\ wire[e] \in Seq(Ciphertexts)
           /\ inbox[e] \in Seq(Messages) /\ got[e] \in Seq(Messages)
           /\ Len(buf[e]) \in Nat /\ Len(wire[e]) \in Nat
           /\ Len(inbox[e]) \in Nat /\ Len(got[e]) \in Nat
           /\ Arrived(e) \in Nat /\ Taken(e) \in Nat /\ wrote[e] \in Nat
<1>1. /\ buf[e] \in Seq(Ciphertexts) /\ wire[e] \in Seq(Ciphertexts)
      /\ inbox[e] \in Seq(Messages) /\ got[e] \in Seq(Messages) /\ wrote[e] \in Nat
    BY DEF TypeOK
<1>2. /\ Len(buf[e]) \in Nat /\ Len(wire[e]) \in Nat
      /\ Len(inbox[e]) \in Nat /\ Len(got[e]) \in Nat
    BY <1>1, LenProperties
<1>3. Arrived(e) \in Nat
    <2>1. \A x, y \in Nat : x + y \in Nat
        OBVIOUS
    <2> QED BY <1>2, <2>1, Zenon DEF Arrived
<1>4. Taken(e) = 2 * Arrived(e) + 1 \/ Taken(e) = 2 * Arrived(e) + 0
    BY Zenon DEF Taken
<1> QED BY <1>1, <1>2, <1>3, <1>4

(* What is not touched by a step keeps its place in the stream.            *)
LEMMA SameFrames ==
    ASSUME NEW e \in Ends, FramesOf(e),
           buf'[e] = buf[e], wire'[e] = wire[e], inbox'[e] = inbox[e],
           got'[e] = got[e], wrote'[Other(e)] = wrote[Other(e)],
           (readState'[e] = "READY_FOR_BODY") <=> (readState[e] = "READY_FOR_BODY")
    PROVE  FramesOf(e)'
<1>1. Arrived(e)' = Arrived(e)
    BY DEF Arrived
<1>2. Taken(e)' = Taken(e)
    <2>1. CASE readState[e] = "READY_FOR_BODY"
        BY <1>1, <2>1 DEF Taken
    <2>2. CASE readState[e] # "READY_FOR_BODY"
        BY <1>1, <2>2 DEF Taken
    <2> QED BY <2>1, <2>2
<1> QED BY <1>1, <1>2 DEF FramesOf

LEMMA WriteFrames ==
    ASSUME TypeOK, KeysBehindCk, Frames, NEW e \in Ends, Write(e)
    PROVE  Frames'
<1>1. PICK a, b, m :
          /\ m = wrote[e] + 1 /\ a.msg = m /\ b.msg = m
          /\ a \in Ciphertexts /\ b \in Ciphertexts
          /\ wrote' = [wrote EXCEPT ![e] = m]
          /\ wire' = [wire EXCEPT ![Other(e)] = @ \o <<a, b>>]
          /\ UNCHANGED <<buf, readState, inbox, got>>
    <2> DEFINE s1 == Sending(e)
               s2 == Advance(s1)
               m == wrote[e] + 1
    <2>1. /\ wrote' = [wrote EXCEPT ![e] = m]
          /\ wire' = [wire EXCEPT ![Other(e)] =
                          @ \o <<Seal("len", s1, m), Seal("body", s2, m)>>]
          /\ UNCHANGED <<buf, readState, inbox, got>>
        BY Zenon DEF Write, socket
    <2>2. s1 \in CipherStates /\ Behind(s1.key, s1.ck)
        BY CipherStateOf
    <2> HIDE DEF s1
    <2>3. s2 \in CipherStates
        BY <2>2, AdvanceProgress, Zenon
    <2> HIDE DEF s2
    <2>4. m \in Messages
        BY DEF TypeOK, Messages
    <2>5. /\ Seal("len", s1, m) \in Ciphertexts /\ Seal("body", s2, m) \in Ciphertexts
          /\ Seal("len", s1, m).msg = m /\ Seal("body", s2, m).msg = m
        BY <2>2, <2>3, <2>4 DEF Seal, Ciphertexts, Parts, CipherStates
    <2> HIDE DEF m
    <2>6. m = wrote[e] + 1
        BY DEF m
    <2> QED BY <2>1, <2>5, <2>6, Zenon
<1> DEFINE o == Other(e)
<1>2. o \in Ends /\ o # e /\ Other(o) = e
    BY TwoEnds
<1>3. FramesOf(o) /\ FramesOf(e)
    BY <1>2 DEF Frames
<1>4. wire'[o] = Append(Append(wire[o], a), b) /\ wire'[e] = wire[e]
    <2>1. wire \in [Ends -> Seq(Ciphertexts)]
        BY DEF TypeOK
    <2>2. wire'[o] = wire[o] \o <<a, b>> /\ wire'[e] = wire[e]
        BY <1>1, <1>2, <2>1
    <2>3. wire[o] \o <<a, b>> = Append(Append(wire[o], a), b)
        BY <1>1, <1>2, <2>1
    <2> QED BY <2>2, <2>3
<1>5. wrote'[e] = wrote[e] + 1 /\ wrote'[o] = wrote[o] /\ wrote[e] \in Nat
    BY <1>1, <1>2 DEF TypeOK
<1> HIDE DEF o
<1>6. FramesOf(o)'
    <2> DEFINE n == Taken(o) + Len(buf[o])
               s == Append(wire[o], a)
    <2>1. /\ n \in Nat /\ wire[o] \in Seq(Ciphertexts) /\ Len(wire[o]) \in Nat
          /\ Taken(o) \in Nat /\ Len(buf[o]) \in Nat
        BY <1>2, FramesTyped
    <2>2. Numbered(wire[o], n) /\ n + Len(wire[o]) = 2 * wrote[e]
        BY <1>2, <1>3 DEF FramesOf
    <2> HIDE DEF n
    <2>3. Numbered(s, n) /\ s \in Seq(Ciphertexts) /\ Len(s) = Len(wire[o]) + 1
        BY <1>1, <1>5, <2>1, <2>2, NumberedAppend
    <2> HIDE DEF s
    <2>4. Numbered(Append(s, b), n) /\ Len(Append(s, b)) = Len(s) + 1
        <3>1. \A x, y, z \in Nat : x + y = 2 * z =>
                 /\ x + (y + 1) + 1 <= 2 * (z + 1) /\ 2 * (z + 1) <= x + (y + 1) + 2
            OBVIOUS
        <3>2. n + Len(s) + 1 <= 2 * b.msg /\ 2 * b.msg <= n + Len(s) + 2
            BY <1>1, <1>5, <2>1, <2>2, <2>3, <3>1, Zenon
        <3> QED BY <1>1, <2>1, <2>3, <3>2, NumberedAppend, Zenon
    <2>5. wire'[o] = Append(s, b)
        BY <1>4 DEF s
    <2>6. Arrived(o)' = Arrived(o) /\ Taken(o)' = Taken(o) /\ buf'[o] = buf[o]
        BY <1>1 DEF Arrived, Taken
    <2>7. Taken(o) + Len(buf[o]) + Len(wire'[o]) = 2 * wrote'[e]
        <3>1. Len(wire'[o]) = Len(wire[o]) + 1 + 1
            BY <2>3, <2>4, <2>5
        <3>2. \A x, y, z \in Nat : x + y = 2 * z => x + ((y + 1) + 1) = 2 * (z + 1)
            OBVIOUS
        <3>3. n + ((Len(wire[o]) + 1) + 1) = 2 * (wrote[e] + 1)
            <4>1. /\ n \in Nat /\ Len(wire[o]) \in Nat /\ wrote[e] \in Nat
                  /\ n + Len(wire[o]) = 2 * wrote[e]
                BY <1>5, <2>1, <2>2, Zenon
            <4> QED BY <3>2, <4>1
        <3> QED BY <1>5, <3>1, <3>3, Zenon DEF n
    <2>8. Numbered(wire'[o], Taken(o) + Len(buf[o]))
        BY <2>4, <2>5 DEF n
    <2> QED BY <1>1, <1>2, <1>3, <2>6, <2>7, <2>8 DEF FramesOf
<1>7. FramesOf(e)'
    BY <1>1, <1>3, <1>4, <1>5, SameFrames DEF o
<1> QED BY <1>2, <1>6, <1>7, TwoEnds DEF Frames, o

(* A piece that arrives moves from the head of the wire to the end of the  *)
(* buffer.                                                                 *)
LEMMA ArriveFrames ==
    ASSUME TypeOK, NEW e \in Ends, FramesOf(e), Arrive(e)
    PROVE  FramesOf(e)'
<1> DEFINE c == Head(wire[e])
           n == Taken(e) + Len(buf[e])
<1>1. /\ buf' = [buf EXCEPT ![e] = Append(@, c)] /\ wire' = [wire EXCEPT ![e] = Tail(@)]
      /\ wire[e] # <<>> /\ UNCHANGED <<readState, inbox, got, wrote>>
    BY Zenon DEF Arrive
<1>2. /\ buf[e] \in Seq(Ciphertexts) /\ wire[e] \in Seq(Ciphertexts)
      /\ Len(buf[e]) \in Nat /\ Len(wire[e]) \in Nat /\ Taken(e) \in Nat
      /\ wrote[Other(e)] \in Nat
    BY FramesTyped, TwoEnds
<1>3. buf'[e] = Append(buf[e], c) /\ wire'[e] = Tail(wire[e])
    BY <1>1 DEF TypeOK
<1>4. Arrived(e)' = Arrived(e) /\ Taken(e)' = Taken(e)
    BY <1>1 DEF Arrived, Taken
<1>5. n \in Nat
    BY <1>2
<1>6. Numbered(wire[e], n) /\ n + Len(wire[e]) = 2 * wrote[Other(e)]
    BY DEF FramesOf
<1> HIDE DEF n, c
<1>7. /\ Numbered(Tail(wire[e]), n + 1) /\ Len(Tail(wire[e])) = Len(wire[e]) - 1
      /\ c \in Ciphertexts /\ n + 1 <= 2 * c.msg /\ 2 * c.msg <= n + 2
    BY <1>1, <1>2, <1>5, <1>6, NumberedTail, Zenon DEF c
<1>8. Numbered(Append(buf[e], c), Taken(e)) /\ Len(Append(buf[e], c)) = Len(buf[e]) + 1
    BY <1>2, <1>7, NumberedAppend, Zenon DEF n, FramesOf
<1>9. Numbered(wire'[e], Taken(e) + Len(buf'[e]))
    <2>1. \A x, y \in Nat : x + y + 1 = x + (y + 1)
        OBVIOUS
    <2>2. n + 1 = Taken(e) + Len(buf'[e])
        BY <1>2, <1>3, <1>8, <2>1, Zenon DEF n
    <2> QED BY <1>3, <1>7, <2>2, Zenon
<1>10. Taken(e) + Len(buf'[e]) + Len(wire'[e]) = 2 * wrote[Other(e)]
    <2>1. \A x, y, z \in Nat : x + (y + 1) + (z - 1) = x + y + z
        OBVIOUS
    <2>2. Taken(e) + (Len(buf[e]) + 1) + (Len(wire[e]) - 1) = 2 * wrote[Other(e)]
        BY <1>2, <1>6, <2>1, Zenon DEF n
    <2> QED BY <1>3, <1>7, <1>8, <2>2, Zenon
<1> QED BY <1>1, <1>3, <1>4, <1>8, <1>9, <1>10 DEF FramesOf

(* Taking a ciphertext from the buffer, as both decryptions do.            *)
LEMMA TakeNumbered ==
    ASSUME TypeOK, NEW e \in Ends, FramesOf(e), CanDecrypt(e), TakeAndDecrypt(e)
    PROVE  /\ Numbered(buf'[e], Taken(e) + 1) /\ Len(buf'[e]) = Len(buf[e]) - 1
           /\ Len(buf[e]) \in Nat /\ Len(wire[e]) \in Nat /\ Taken(e) \in Nat
           /\ Head(buf[e]) \in Ciphertexts
           /\ Taken(e) + 1 <= 2 * Head(buf[e]).msg
           /\ 2 * Head(buf[e]).msg <= Taken(e) + 2
           /\ Numbered(wire[e], (Taken(e) + 1) + Len(buf'[e]))
           /\ (Taken(e) + 1) + Len(buf'[e]) + Len(wire[e]) = 2 * wrote[Other(e)]
<1>1. buf' = [buf EXCEPT ![e] = Tail(@)] /\ buf[e] # <<>>
    BY Zenon DEF TakeAndDecrypt, CanDecrypt
<1>2. buf'[e] = Tail(buf[e])
    BY <1>1 DEF TypeOK
<1>3. /\ buf[e] \in Seq(Ciphertexts) /\ Len(buf[e]) \in Nat /\ Len(wire[e]) \in Nat
      /\ Taken(e) \in Nat /\ wrote[Other(e)] \in Nat
    BY FramesTyped, TwoEnds
<1>4. Numbered(buf[e], Taken(e))
    BY DEF FramesOf
<1>5. /\ Numbered(buf'[e], Taken(e) + 1) /\ Len(buf'[e]) = Len(buf[e]) - 1
      /\ Head(buf[e]) \in Ciphertexts
      /\ Taken(e) + 1 <= 2 * Head(buf[e]).msg
      /\ 2 * Head(buf[e]).msg <= Taken(e) + 2
    BY <1>1, <1>2, <1>3, <1>4, NumberedTail, Zenon
<1>6. (Taken(e) + 1) + Len(buf'[e]) = Taken(e) + Len(buf[e])
    <2>1. \A x, y \in Nat : (x + 1) + (y - 1) = x + y
        OBVIOUS
    <2> QED BY <1>3, <1>5, <2>1, Zenon
<1> QED BY <1>3, <1>5, <1>6, Zenon DEF FramesOf

LEMMA LengthFrames ==
    ASSUME TypeOK, NEW e \in Ends, FramesOf(e), ProcessPacketLength(e)
    PROVE  FramesOf(e)'
<1>1. /\ CanDecrypt(e) /\ TakeAndDecrypt(e) /\ readState[e] = "READY_FOR_LEN"
      /\ readState' = [readState EXCEPT ![e] = "READY_FOR_BODY"]
      /\ UNCHANGED <<wire, inbox, got, wrote>>
    BY Zenon DEF ProcessPacketLength
<1>2. readState'[e] = "READY_FOR_BODY"
    BY <1>1 DEF TypeOK
<1>3. Arrived(e)' = Arrived(e)
    BY <1>1 DEF Arrived
<1>4. Taken(e)' = Taken(e) + 1
    <2>1. Arrived(e) \in Nat
        BY FramesTyped
    <2>2. Taken(e)' = 2 * Arrived(e) + 1
        BY <1>2, <1>3 DEF Taken
    <2>3. Taken(e) = 2 * Arrived(e) + 0
        BY <1>1 DEF Taken
    <2> QED BY <2>1, <2>2, <2>3
<1>5. /\ Numbered(buf'[e], Taken(e) + 1)
      /\ Numbered(wire[e], (Taken(e) + 1) + Len(buf'[e]))
      /\ (Taken(e) + 1) + Len(buf'[e]) + Len(wire[e]) = 2 * wrote[Other(e)]
    BY <1>1, TakeNumbered
<1> QED BY <1>1, <1>4, <1>5 DEF FramesOf

(* A body completes the next message in order, and it goes to the inbox.   *)
LEMMA BodyFrames ==
    ASSUME TypeOK, NEW e \in Ends, FramesOf(e), ProcessPacketBody(e)
    PROVE  FramesOf(e)'
<1> DEFINE c == Head(buf[e])
           pushOk == Len(Append(inbox[e], c.msg)) < HighWaterMark
<1>1. /\ CanDecrypt(e) /\ TakeAndDecrypt(e) /\ readState[e] = "READY_FOR_BODY"
      /\ readState' = [readState EXCEPT ![e] =
                          IF pushOk THEN "READY_FOR_LEN" ELSE "BLOCKED"]
      /\ inbox' = [inbox EXCEPT ![e] = Append(inbox[e], c.msg)]
      /\ UNCHANGED <<wire, got, wrote>>
    BY Zenon DEF ProcessPacketBody
<1> HIDE DEF pushOk
<1>2. readState'[e] # "READY_FOR_BODY" /\ inbox'[e] = Append(inbox[e], c.msg)
    BY <1>1 DEF TypeOK
<1>3. /\ inbox[e] \in Seq(Messages) /\ got[e] \in Seq(Messages) /\ Arrived(e) \in Nat
      /\ Len(inbox[e]) \in Nat /\ Len(got[e]) \in Nat
    BY FramesTyped
<1>4. /\ Numbered(buf'[e], Taken(e) + 1)
      /\ c \in Ciphertexts
      /\ Taken(e) + 1 <= 2 * c.msg /\ 2 * c.msg <= Taken(e) + 2
      /\ Numbered(wire[e], (Taken(e) + 1) + Len(buf'[e]))
      /\ (Taken(e) + 1) + Len(buf'[e]) + Len(wire[e]) = 2 * wrote[Other(e)]
    BY <1>1, TakeNumbered
<1>5. Taken(e) = 2 * Arrived(e) + 1
    BY <1>1 DEF Taken
<1> HIDE DEF c
<1>6. c.msg = Arrived(e) + 1 /\ c.msg \in Messages
    <2>1. c.msg \in Messages /\ c.msg \in Nat
        BY <1>4 DEF Ciphertexts, Messages
    <2>2. \A k, m \in Nat : (2 * k + 1) + 1 <= 2 * m /\ 2 * m <= (2 * k + 1) + 2 => m = k + 1
        OBVIOUS
    <2> QED BY <1>3, <1>4, <1>5, <2>1, <2>2, Zenon
<1>7. Counts(inbox'[e], Len(got[e])) /\ Len(inbox'[e]) = Len(inbox[e]) + 1
    <2>1. c.msg = Len(got[e]) + Len(inbox[e]) + 1
        BY <1>6, Zenon DEF Arrived
    <2>2. Counts(inbox[e], Len(got[e]))
        BY DEF FramesOf
    <2> QED BY <1>2, <1>3, <1>6, <2>1, <2>2, CountsAppend, Zenon
<1>8. Taken(e)' = Taken(e) + 1
    <2>1. \A x, y \in Nat : x + (y + 1) = (x + y) + 1
        OBVIOUS
    <2>2. Arrived(e)' = Arrived(e) + 1
        BY <1>1, <1>3, <1>7, <2>1, Zenon DEF Arrived
    <2>3. Taken(e)' = 2 * Arrived(e)' + 0
        BY <1>2 DEF Taken
    <2>4. \A k \in Nat : 2 * (k + 1) + 0 = (2 * k + 1) + 1
        OBVIOUS
    <2> QED BY <1>3, <1>5, <2>2, <2>3, <2>4, Zenon
<1> QED BY <1>1, <1>4, <1>7, <1>8 DEF FramesOf

(* The consumer reads the next message, and it had been written.           *)
LEMMA ReadFrames ==
    ASSUME TypeOK, NEW e \in Ends, FramesOf(e), ConsumerReads(e)
    PROVE  /\ FramesOf(e)'
           /\ got' = [got EXCEPT ![e] = Append(@, Len(@) + 1)]
           /\ Len(got[e]) < wrote[Other(e)]
<1> DEFINE m == Head(inbox[e])
<1>1. /\ got' = [got EXCEPT ![e] = Append(@, m)]
      /\ inbox' = [inbox EXCEPT ![e] = Tail(@)] /\ inbox[e] # <<>>
      /\ UNCHANGED <<buf, wire, wrote>>
    BY Zenon DEF ConsumerReads
<1>2. /\ got'[e] = Append(got[e], m) /\ inbox'[e] = Tail(inbox[e])
    BY <1>1 DEF TypeOK
<1>3. (readState'[e] = "READY_FOR_BODY") <=> (readState[e] = "READY_FOR_BODY")
    BY DEF ConsumerReads, TypeOK
<1>4. /\ inbox[e] \in Seq(Messages) /\ got[e] \in Seq(Messages) /\ Taken(e) \in Nat
      /\ Len(inbox[e]) \in Nat /\ Len(got[e]) \in Nat /\ Arrived(e) \in Nat
      /\ Len(buf[e]) \in Nat /\ Len(wire[e]) \in Nat /\ wrote[Other(e)] \in Nat
    BY FramesTyped, TwoEnds
<1>5. /\ Counts(Tail(inbox[e]), Len(got[e]) + 1)
      /\ Len(Tail(inbox[e])) = Len(inbox[e]) - 1 /\ Len(inbox[e]) >= 1
      /\ m = Len(got[e]) + 1
    BY <1>1, <1>4, CountsTail, Zenon DEF FramesOf
<1>6. m \in Messages
    BY <1>1, <1>4
<1> HIDE DEF m
<1>7. Counts(got'[e], 0) /\ Len(got'[e]) = Len(got[e]) + 1
    <2>1. m = 0 + Len(got[e]) + 1
        BY <1>4, <1>5
    <2> QED BY <1>2, <1>4, <1>6, <2>1, CountsAppend DEF FramesOf
<1>8. Arrived(e)' = Arrived(e)
    <2>1. \A x, y \in Nat : (x + 1) + (y - 1) = x + y
        OBVIOUS
    <2>2. Arrived(e)' = (Len(got[e]) + 1) + (Len(inbox[e]) - 1)
        BY <1>2, <1>5, <1>7, Zenon DEF Arrived
    <2> QED BY <1>4, <2>1, <2>2, Zenon DEF Arrived
<1>9. Taken(e)' = Taken(e)
    BY <1>3, <1>8 DEF Taken
<1>10. Len(got[e]) < wrote[Other(e)]
    <2>1. \A g, i, t, b, w, x \in Nat :
             i >= 1 /\ (t = 2 * (g + i) + 1 \/ t = 2 * (g + i) + 0) /\ t + b + w = 2 * x => g < x
        OBVIOUS
    <2>2. Taken(e) = 2 * (Len(got[e]) + Len(inbox[e])) + 1
             \/ Taken(e) = 2 * (Len(got[e]) + Len(inbox[e])) + 0
        BY Zenon DEF Taken, Arrived
    <2>3. Taken(e) + Len(buf[e]) + Len(wire[e]) = 2 * wrote[Other(e)]
        BY DEF FramesOf
    <2> QED BY <1>4, <1>5, <2>1, <2>2, <2>3, Zenon
<1>11. FramesOf(e)'
    BY <1>1, <1>2, <1>5, <1>7, <1>9 DEF FramesOf
<1> QED BY <1>1, <1>5, <1>10, <1>11

-----------------------------------------------------------------------------
LEMMA InitFrames == Init => Frames
<1> SUFFICES ASSUME Init, NEW e \in Ends PROVE FramesOf(e)
    BY DEF Frames
<1>1. /\ got[e] = <<>> /\ inbox[e] = <<>> /\ buf[e] = <<>> /\ wire[e] = <<>>
      /\ wrote[Other(e)] = 0 /\ readState[e] = "READY_FOR_LEN"
    BY TwoEnds DEF Init
<1>2. Len(<<>>) = 0
    OBVIOUS
<1>3. Arrived(e) = 0 /\ Taken(e) = 0
    BY <1>1, <1>2 DEF Arrived, Taken
<1> QED BY <1>1, <1>2, <1>3 DEF FramesOf, Counts, Numbered

(* A step of one end leaves what travels to the other where it was; only   *)
(* Write adds to it.                                                       *)
LEMMA StepFrames ==
    ASSUME TypeOK, KeysBehindCk, Frames, [Next]_vars
    PROVE  Frames'
<1>1. ASSUME NEW e \in Ends, Write(e) PROVE Frames'
    BY <1>1, WriteFrames
<1>2. ASSUME NEW e \in Ends, FramesOf(e)',
             UNCHANGED wrote,
             \A f \in Ends : f # e =>
                /\ buf'[f] = buf[f] /\ wire'[f] = wire[f] /\ inbox'[f] = inbox[f]
                /\ got'[f] = got[f] /\ readState'[f] = readState[f]
      PROVE  Frames'
    <2> SUFFICES ASSUME NEW f \in Ends PROVE FramesOf(f)'
        BY DEF Frames
    <2>1. CASE f = e
        BY <1>2, <2>1
    <2>2. CASE f # e
        BY <1>2, <2>2, SameFrames, Zenon DEF Frames
    <2> QED BY <2>1, <2>2
<1>t. /\ buf \in [Ends -> Seq(Ciphertexts)] /\ wire \in [Ends -> Seq(Ciphertexts)]
      /\ inbox \in [Ends -> Seq(Messages)] /\ got \in [Ends -> Seq(Messages)]
      /\ readState \in [Ends -> {"READY_FOR_LEN", "READY_FOR_BODY", "BLOCKED"}]
    BY DEF TypeOK
<1>3. ASSUME NEW e \in Ends, Arrive(e) PROVE Frames'
    <2>1. FramesOf(e)'
        BY <1>3, ArriveFrames DEF Frames
    <2>2. \A f \in Ends : f # e => buf'[f] = buf[f] /\ wire'[f] = wire[f]
        BY <1>3, <1>t DEF Arrive
    <2>3. UNCHANGED <<readState, inbox, got, wrote>>
        BY <1>3 DEF Arrive
    <2> QED BY <1>2, <2>1, <2>2, <2>3
<1>4. ASSUME NEW e \in Ends, ProcessPacketLength(e) PROVE Frames'
    <2>1. FramesOf(e)'
        BY <1>4, LengthFrames DEF Frames
    <2>2. \A f \in Ends : f # e => buf'[f] = buf[f] /\ readState'[f] = readState[f]
        BY <1>4, <1>t DEF ProcessPacketLength, TakeAndDecrypt
    <2>3. UNCHANGED <<wire, inbox, got, wrote>>
        BY <1>4 DEF ProcessPacketLength
    <2> QED BY <1>2, <2>1, <2>2, <2>3
<1>5. ASSUME NEW e \in Ends, ProcessPacketBody(e) PROVE Frames'
    <2>1. FramesOf(e)'
        BY <1>5, BodyFrames DEF Frames
    <2>2. PICK b, i, r : /\ buf' = [buf EXCEPT ![e] = b] /\ inbox' = [inbox EXCEPT ![e] = i]
                         /\ readState' = [readState EXCEPT ![e] = r]
                         /\ UNCHANGED <<wire, got, wrote>>
        BY <1>5, Zenon DEF ProcessPacketBody, TakeAndDecrypt
    <2>3. \A f \in Ends : f # e =>
             buf'[f] = buf[f] /\ inbox'[f] = inbox[f] /\ readState'[f] = readState[f]
        BY <2>2, <1>t
    <2> QED BY <1>2, <2>1, <2>2, <2>3
<1>6. ASSUME NEW e \in Ends, ConsumerReads(e) PROVE Frames'
    <2>1. FramesOf(e)'
        BY <1>6, ReadFrames DEF Frames
    <2>2. \A f \in Ends : f # e =>
             got'[f] = got[f] /\ inbox'[f] = inbox[f] /\ readState'[f] = readState[f]
        BY <1>6, <1>t DEF ConsumerReads
    <2>3. UNCHANGED <<buf, wire, wrote>>
        BY <1>6 DEF ConsumerReads
    <2> QED BY <1>2, <2>1, <2>2, <2>3
<1>7. ASSUME UNCHANGED <<buf, wire, inbox, got, readState, wrote>> PROVE Frames'
    <2> SUFFICES ASSUME NEW f \in Ends PROVE FramesOf(f)'
        BY DEF Frames
    <2> QED BY <1>7, SameFrames, Zenon DEF Frames
<1>8. ASSUME NEW e \in Ends, OnDataStops(e) \/ DecryptFails(e) \/ ConnectionReset(e)
      PROVE  Frames'
    BY <1>7, <1>8 DEF OnDataStops, DecryptFails, ConnectionReset
<1>9. CASE UNCHANGED vars
    BY <1>7, <1>9 DEF vars
<1> QED BY <1>1, <1>3, <1>4, <1>5, <1>6, <1>8, <1>9, Zenon DEF Next, OnData

(* The other end, as the abstract stream names it.                         *)
LEMMA PeerIsOther == \A e \in Ends : Stream!Peer(e) = Other(e)
<1> SUFFICES ASSUME NEW e \in Ends PROVE (CHOOSE f \in Ends : f # e) = Other(e)
    BY DEF Stream!Peer
<1>1. \E f \in Ends : f # e
    BY TwoEnds
<1>2. (CHOOSE f \in Ends : f # e) \in Ends /\ (CHOOSE f \in Ends : f # e) # e
    BY <1>1
<1> QED BY <1>2, TwoEnds

(* Every step of the sockets is a step of the streams, or none of theirs.  *)
LEMMA StepStreams ==
    ASSUME TypeOK, Frames, [Next]_vars
    PROVE  [Stream!StreamNext]_(Stream!streamVars)
<1>1. ASSUME NEW e \in Ends, Write(e) PROVE Stream!Send(e)
    BY <1>1, Zenon DEF Write, Stream!Send
<1>2. ASSUME NEW e \in Ends, ConsumerReads(e) PROVE Stream!Receive(e)
    <2>1. /\ got' = [got EXCEPT ![e] = Append(@, Len(@) + 1)]
          /\ Len(got[e]) < wrote[Other(e)]
        BY <1>2, ReadFrames DEF Frames
    <2>2. UNCHANGED wrote
        BY <1>2 DEF ConsumerReads
    <2> QED BY <2>1, <2>2, PeerIsOther, Zenon DEF Stream!Receive
<1>3. ASSUME NEW e \in Ends, Arrive(e) \/ OnData(e) \/ ConnectionReset(e)
      PROVE  UNCHANGED <<wrote, got>>
    BY <1>3, Zenon DEF Arrive, OnData, OnDataStops, ProcessPacketLength, ProcessPacketBody,
        DecryptFails, ConnectionReset
<1>4. CASE UNCHANGED vars
    BY <1>4, Zenon DEF vars, Stream!streamVars
<1> QED BY <1>1, <1>2, <1>3, <1>4, Zenon DEF Next, Stream!StreamNext, Stream!streamVars

(* The pair of sockets implements the pair of streams, for every quota,    *)
(* high-water mark and rotation threshold: see InOrder.                    *)
THEOREM StreamsInOrder == Spec => InOrder
<1>1. Init => TypeOK /\ KeysBehindCk /\ Frames /\ Stream!StreamInit
    BY InitTyped, InitFrames DEF Init, Stream!StreamInit
<1>2. /\ TypeOK /\ KeysBehindCk /\ Frames /\ [Next]_vars
      => /\ (TypeOK /\ KeysBehindCk /\ Frames)'
         /\ [Stream!StreamNext]_(Stream!streamVars)
    BY StepTyped, StepFrames, StepStreams
<1> QED BY <1>1, <1>2, PTL DEF Spec, InOrder, Stream!StreamSafe

-----------------------------------------------------------------------------
(* While only one direction rotates, its traffic keys follow from one      *)
(* another alone, as NextAt does it, at both ends: the chaining key then   *)
(* is the history of that very traffic key.                                *)
At(s) == <<s.key, s.nonce>>
NextAt(p) ==
    IF p[2] + 1 >= RotateAt
    THEN <<[dir |-> p[1].dir, at |-> Append(p[1].at, p[1].dir)], 0>>
    ELSE <<p[1], p[2] + 1>>

AllOf(c, d) == \A i \in 1..Len(c) : c[i] = d
Uniform(c) == \A i, j \in 1..Len(c) : c[i] = c[j]
Extends(d, c) == Len(c) <= Len(d) /\ \A i \in 1..Len(c) : d[i] = c[i]
Aligned(c, k, d) == AllOf(c, d) => k.at = c

(* From x, each ciphertext of s was sealed one advance after the one       *)
(* before it, and the sender is now at y.                                  *)
Chained(x, s, y) ==
    /\ s = <<>> => x = y
    /\ s # <<>> => At(s[1]) = x /\ NextAt(At(s[Len(s)])) = y
    /\ \A i \in 1..Len(s) : i < Len(s) => At(s[i + 1]) = NextAt(At(s[i]))

KeysAligned == \A e \in Ends :
    /\ sk[e].dir = e /\ rk[e].dir = Other(e)
    /\ Aligned(ck[e], sk[e], e) /\ Aligned(ck[e], rk[e], Other(e))
Linked(e) == Chained(<<rk[e], rn[e]>>, InTransit(e), <<sk[Other(e)], sn[Other(e)]>>)
AllLinked == OneWay => \A e \in Ends : Linked(e)

LEMMA AdvanceAligned ==
    ASSUME NEW s \in CipherStates, NEW d, d = s.key.dir,
           NEW t, t = Advance(s)
    PROVE  /\ t.key.dir = d /\ Extends(t.ck, s.ck)
           /\ Aligned(s.ck, s.key, d) => Aligned(t.ck, t.key, d)
           /\ Aligned(s.ck, s.key, d) /\ Uniform(t.ck) => At(t) = NextAt(At(s))
           /\ \A f, k : f # d /\ Aligned(s.ck, k, f) => Aligned(t.ck, k, f)
<1>1. /\ s.ck \in Seq(Ends) /\ s.key \in Keys /\ s.key.at \in Seq(Ends)
      /\ d \in Ends /\ Len(s.ck) \in Nat
    BY LenProperties DEF CipherStates, Keys
<1>2. CASE s.nonce + 1 >= RotateAt
    <2> DEFINE mixed == Append(s.ck, d)
               k == [dir |-> d, at |-> mixed]
    <2>1. t = [ck |-> mixed, key |-> k, nonce |-> 0]
        BY <1>2 DEF Advance, Rotate
    <2>2. /\ Len(mixed) = Len(s.ck) + 1 /\ mixed[Len(s.ck) + 1] = d
          /\ \A i \in 1..Len(s.ck) : mixed[i] = s.ck[i]
        BY <1>1, AppendProperties
    <2> HIDE DEF mixed
    <2>3. t.ck = mixed /\ t.key = k /\ t.nonce = 0 /\ k.dir = d /\ k.at = mixed
        BY <2>1
    <2> HIDE DEF k
    <2>4. Extends(mixed, s.ck)
        BY <1>1, <2>2 DEF Extends
    <2>5. Aligned(t.ck, t.key, d)
        BY <2>3 DEF Aligned
    <2>6. ASSUME Aligned(s.ck, s.key, d), Uniform(mixed) PROVE At(t) = NextAt(At(s))
        <3>1. Len(s.ck) + 1 \in 1..Len(mixed) /\ 1..Len(s.ck) \subseteq 1..Len(mixed)
            BY <1>1, <2>2
        <3>2. AllOf(s.ck, d)
            BY <2>2, <2>6, <3>1 DEF Uniform, AllOf
        <3>3. s.key.at = s.ck
            BY <2>6, <3>2 DEF Aligned
        <3>4. NextAt(At(s)) = <<[dir |-> s.key.dir, at |-> Append(s.key.at, s.key.dir)], 0>>
            <4>1. At(s)[1] = s.key /\ At(s)[2] = s.nonce
                BY DEF At
            <4>2. At(s)[2] + 1 >= RotateAt
                BY <1>2, <4>1, Zenon
            <4> QED BY <4>1, <4>2, Zenon DEF NextAt
        <3> QED BY <2>3, <3>3, <3>4 DEF At, mixed, k
    <2>7. ASSUME NEW f, f # d PROVE ~AllOf(mixed, f)
        BY <1>1, <2>2, <2>7 DEF AllOf
    <2>8. \A f, x : f # d => Aligned(t.ck, x, f)
        BY <2>3, <2>7 DEF Aligned
    <2>9. Aligned(s.ck, s.key, d) /\ Uniform(t.ck) => At(t) = NextAt(At(s))
        BY <2>3, <2>6
    <2>10. t.key.dir = d /\ Extends(t.ck, s.ck)
        BY <2>3, <2>4
    <2> QED BY <2>5, <2>8, <2>9, <2>10
<1>3. CASE ~(s.nonce + 1 >= RotateAt)
    <2>1. t = [ck |-> s.ck, key |-> s.key, nonce |-> s.nonce + 1]
        BY <1>3 DEF Advance
    <2>2. t.ck = s.ck /\ t.key = s.key /\ t.nonce = s.nonce + 1
        BY <2>1
    <2>3. At(t) = NextAt(At(s))
        BY <1>3, <2>2 DEF At, NextAt
    <2>4. Extends(s.ck, s.ck)
        BY <1>1 DEF Extends
    <2> QED BY <2>2, <2>3, <2>4
<1> QED BY <1>2, <1>3

LEMMA ExtendsTransitive ==
    ASSUME NEW a \in Seq(Ends), NEW b \in Seq(Ends), NEW c \in Seq(Ends),
           Extends(c, b), Extends(b, a)
    PROVE  Extends(c, a)
<1>1. Len(a) \in Nat /\ Len(b) \in Nat /\ Len(c) \in Nat
    BY LenProperties
<1>2. 1..Len(a) \subseteq 1..Len(b)
    BY <1>1 DEF Extends
<1>3. \A x, y, z \in Nat : x <= y /\ y <= z => x <= z
    OBVIOUS
<1>4. Len(a) <= Len(c)
    BY <1>1, <1>3, Zenon DEF Extends
<1> QED BY <1>2, <1>4 DEF Extends

LEMMA UniformPrefix ==
    ASSUME NEW a \in Seq(Ends), NEW b \in Seq(Ends), Extends(b, a), Uniform(b)
    PROVE  Uniform(a)
<1>1. Len(a) \in Nat /\ Len(b) \in Nat
    BY LenProperties
<1>2. 1..Len(a) \subseteq 1..Len(b)
    BY <1>1 DEF Extends
<1> QED BY <1>2, Zenon DEF Extends, Uniform

-----------------------------------------------------------------------------
(* Taking the first ciphertext of a chain, and sealing one more at its end. *)
LEMMA ChainedTail ==
    ASSUME NEW s \in Seq(Ciphertexts), NEW x, NEW y, Chained(x, s, y), s # <<>>
    PROVE  At(Head(s)) = x /\ Chained(NextAt(x), Tail(s), y)
<1>1. /\ Len(s) \in Nat /\ Len(s) >= 1 /\ Head(s) = s[1]
      /\ Tail(s) \in Seq(Ciphertexts) /\ Len(Tail(s)) = Len(s) - 1
      /\ \A i \in 1..Len(Tail(s)) : Tail(s)[i] = s[i + 1]
    BY HeadTailProperties
<1>2. At(s[1]) = x /\ NextAt(At(s[Len(s)])) = y
    BY DEF Chained
<1>3. Tail(s) = <<>> => NextAt(x) = y
    <2>1. Tail(s) = <<>> => Len(Tail(s)) = 0
        <3>1. Len(<<>>) = 0
            OBVIOUS
        <3> QED BY <3>1, Zenon
    <2>2. Tail(s) = <<>> => Len(s) = 1
        BY <1>1, <2>1
    <2> QED BY <1>2, <2>2
<1>4. ASSUME Tail(s) # <<>>
      PROVE  At(Tail(s)[1]) = NextAt(x) /\ NextAt(At(Tail(s)[Len(Tail(s))])) = y
    <2>1. Len(Tail(s)) # 0
        BY <1>1, <1>4, EmptySeq
    <2>2. 1 \in 1..Len(s) /\ 1 < Len(s)
        BY <1>1, <2>1
    <2>3. Tail(s)[1] = s[1 + 1] /\ Tail(s)[Len(Tail(s))] = s[Len(s)]
        <3>1. 1 \in 1..Len(Tail(s)) /\ Len(Tail(s)) \in 1..Len(Tail(s))
              /\ Len(Tail(s)) + 1 = Len(s)
            BY <1>1, <2>2
        <3> QED BY <1>1, <3>1
    <2>4. At(s[1 + 1]) = NextAt(At(s[1]))
        BY <2>2 DEF Chained
    <2> QED BY <1>2, <2>3, <2>4, Zenon
<1>5. ASSUME NEW i \in 1..Len(Tail(s)), i < Len(Tail(s))
      PROVE  At(Tail(s)[i + 1]) = NextAt(At(Tail(s)[i]))
    <2>1. /\ i + 1 \in 1..Len(Tail(s)) /\ i + 1 \in 1..Len(s) /\ i + 1 < Len(s)
        BY <1>1, <1>5
    <2>2. Tail(s)[i] = s[i + 1] /\ Tail(s)[i + 1] = s[(i + 1) + 1]
        BY <1>1, <2>1
    <2>3. At(s[(i + 1) + 1]) = NextAt(At(s[i + 1]))
        BY <2>1 DEF Chained
    <2> QED BY <2>2, <2>3, Zenon
<1> QED BY <1>1, <1>2, <1>3, <1>4, <1>5 DEF Chained

LEMMA ChainedAppend ==
    ASSUME NEW s \in Seq(Ciphertexts), NEW x, NEW y, Chained(x, s, y),
           NEW c \in Ciphertexts, At(c) = y
    PROVE  Chained(x, Append(s, c), NextAt(y)) /\ Append(s, c) \in Seq(Ciphertexts)
<1> DEFINE t == Append(s, c)
<1>1. /\ Len(s) \in Nat /\ Len(t) = Len(s) + 1 /\ t[Len(s) + 1] = c
      /\ t \in Seq(Ciphertexts) /\ t # <<>>
      /\ \A i \in 1..Len(s) : t[i] = s[i]
    BY AppendProperties, LenProperties
<1> HIDE DEF t
<1>2. NextAt(At(t[Len(t)])) = NextAt(y)
    BY <1>1
<1>3. At(t[1]) = x
    <2>1. CASE s = <<>>
        <3>1. Len(s) = 0
            BY <2>1
        <3>2. t[1] = c
            BY <1>1, <3>1
        <3> QED BY <2>1, <3>2 DEF Chained
    <2>2. CASE s # <<>>
        <3>1. 1 \in 1..Len(s)
            BY <1>1, <2>2, EmptySeq
        <3> QED BY <1>1, <2>2, <3>1 DEF Chained
    <2> QED BY <2>1, <2>2
<1>4. ASSUME NEW i \in 1..Len(t), i < Len(t) PROVE At(t[i + 1]) = NextAt(At(t[i]))
    <2>1. i \in 1..Len(s) /\ t[i] = s[i]
        BY <1>1, <1>4
    <2>2. CASE i = Len(s)
        <3>1. s # <<>>
            <4>1. Len(<<>>) = 0
                OBVIOUS
            <4> QED BY <1>1, <2>1, <2>2, <4>1
        <3> QED BY <1>1, <2>1, <2>2, <3>1 DEF Chained
    <2>3. CASE i < Len(s)
        <3>1. i + 1 \in 1..Len(s)
            BY <1>1, <2>1, <2>3
        <3>2. t[i + 1] = s[i + 1]
            BY <1>1, <3>1
        <3> QED BY <2>1, <2>3, <3>2 DEF Chained
    <2> QED BY <1>1, <2>1, <2>2, <2>3
<1>5. Chained(x, t, NextAt(y))
    BY <1>1, <1>2, <1>3, <1>4 DEF Chained
<1> QED BY <1>1, <1>5 DEF t

-----------------------------------------------------------------------------
LEMMA TransitTyped ==
    ASSUME TypeOK, NEW e \in Ends
    PROVE  InTransit(e) \in Seq(Ciphertexts)
BY FramesTyped DEF InTransit

(* If only one direction has rotated after a step, so it had before: the   *)
(* chaining keys only grow.                                                *)
LEMMA OneWayBefore ==
    ASSUME TypeOK, TypeOK', OneWay', \A e \in Ends : Extends(ck'[e], ck[e])
    PROVE  OneWay /\ \A e \in Ends : Uniform(ck'[e])
<1>1. \A e \in Ends : /\ ck[e] \in Seq(Ends) /\ ck'[e] \in Seq(Ends)
                      /\ DOMAIN ck[e] = 1..Len(ck[e]) /\ DOMAIN ck'[e] = 1..Len(ck'[e])
                      /\ Len(ck[e]) \in Nat /\ Len(ck'[e]) \in Nat
    BY LenProperties DEF TypeOK
<1>2. \A e \in Ends : Len(ck[e]) <= Len(ck'[e])
                      /\ \A i \in 1..Len(ck[e]) : ck'[e][i] = ck[e][i]
    BY DEF Extends
<1>3. \A e \in Ends : 1..Len(ck[e]) \subseteq 1..Len(ck'[e])
    <2>1. \A x, y \in Nat : x <= y => 1..x \subseteq 1..y
        OBVIOUS
    <2> QED BY <1>1, <1>2, <2>1, Zenon
<1>4. OneWay
    <2> SUFFICES ASSUME NEW e \in Ends, NEW f \in Ends,
                        NEW i \in DOMAIN ck[e], NEW j \in DOMAIN ck[f]
                 PROVE  ck[e][i] = ck[f][j]
        BY DEF OneWay
    <2>1. \A g \in Ends : \A k \in DOMAIN ck[g] : k \in DOMAIN ck'[g] /\ ck'[g][k] = ck[g][k]
        <3> SUFFICES ASSUME NEW g \in Ends, NEW k \in 1..Len(ck[g])
                     PROVE  k \in 1..Len(ck'[g]) /\ ck'[g][k] = ck[g][k]
            BY <1>1, Zenon
        <3> QED BY <1>2, <1>3
    <2>2. i \in DOMAIN ck'[e] /\ j \in DOMAIN ck'[f]
        BY <2>1, Zenon
    <2>3. \A g, h \in Ends : \A k \in DOMAIN ck'[g], l \in DOMAIN ck'[h] :
              ck'[g][k] = ck'[h][l]
        BY DEF OneWay
    <2>4. ck'[e][i] = ck'[f][j]
        BY <2>2, <2>3
    <2> QED BY <2>1, <2>4, Zenon
<1>5. ASSUME NEW e \in Ends PROVE Uniform(ck'[e])
    BY <1>1 DEF Uniform, OneWay
<1> QED BY <1>4, <1>5

(* The same, for an end e that sends from s to t and the keys of end o.    *)
Advanced(s, t, e, o) ==
    /\ t.key.dir = e /\ Extends(t.ck, s.ck)
    /\ Aligned(t.ck, t.key, e)
    /\ Uniform(t.ck) => At(t) = NextAt(At(s))
    /\ \A k : Aligned(s.ck, k, o) => Aligned(t.ck, k, o)

LEMMA SendingAdvances ==
    ASSUME NEW e, NEW o, o # e,
           NEW s \in CipherStates, s.key.dir = e, Aligned(s.ck, s.key, e),
           NEW t, t = Advance(s)
    PROVE  Advanced(s, t, e, o)
<1>1. e = s.key.dir
    OBVIOUS
<1>2. /\ t.key.dir = e /\ Extends(t.ck, s.ck)
      /\ Aligned(s.ck, s.key, e) => Aligned(t.ck, t.key, e)
      /\ Aligned(s.ck, s.key, e) /\ Uniform(t.ck) => At(t) = NextAt(At(s))
      /\ \A f, k : f # e /\ Aligned(s.ck, k, f) => Aligned(t.ck, k, f)
    <2> DEFINE d == e
    <2>1. d = s.key.dir
        BY <1>1
    <2> HIDE DEF d
    <2>2. /\ t.key.dir = d /\ Extends(t.ck, s.ck)
          /\ Aligned(s.ck, s.key, d) => Aligned(t.ck, t.key, d)
          /\ Aligned(s.ck, s.key, d) /\ Uniform(t.ck) => At(t) = NextAt(At(s))
          /\ \A f, k : f # d /\ Aligned(s.ck, k, f) => Aligned(t.ck, k, f)
        BY <2>1, AdvanceAligned
    <2> QED BY <2>2, Zenon DEF d
<1>3. ASSUME NEW k, Aligned(s.ck, k, o) PROVE Aligned(t.ck, k, o)
    BY <1>2, <1>3, Zenon
<1> QED BY <1>2, <1>3, Zenon DEF Advanced

(* A step that leaves the keys alone and what is on its way.               *)
LEMMA SameLinks ==
    ASSUME KeysAligned, AllLinked, UNCHANGED noise,
           \A e \in Ends : InTransit(e)' = InTransit(e)
    PROVE  KeysAligned' /\ AllLinked'
<1>1. UNCHANGED <<ck, sk, sn, rk, rn>>
    BY DEF noise
<1>2. KeysAligned'
    BY <1>1 DEF KeysAligned
<1>3. OneWay' <=> OneWay
    BY <1>1 DEF OneWay
<1>4. ASSUME NEW e \in Ends, Linked(e) PROVE Linked(e)'
    <2>1. InTransit(e)' = InTransit(e)
        OBVIOUS
    <2> QED BY <1>1, <1>4, <2>1, Zenon DEF Linked
<1> QED BY <1>2, <1>3, <1>4 DEF AllLinked

LEMMA WriteLinks ==
    ASSUME TypeOK, KeysBehindCk, TypeOK', KeysAligned, AllLinked,
           NEW e \in Ends, Write(e)
    PROVE  KeysAligned' /\ AllLinked'
<1> DEFINE o == Other(e)
<1>1. PICK s1, s2, s3, m :
          /\ s1 = Sending(e) /\ s2 = Advance(s1) /\ s3 = Advance(s2)
          /\ m = wrote[e] + 1
          /\ wire' = [wire EXCEPT ![o] =
                          @ \o <<Seal("len", s1, m), Seal("body", s2, m)>>]
          /\ ck' = [ck EXCEPT ![e] = s3.ck]
          /\ sk' = [sk EXCEPT ![e] = s3.key]
          /\ sn' = [sn EXCEPT ![e] = s3.nonce]
          /\ UNCHANGED <<rk, rn, buf>>
    BY Zenon DEF Write
<1>2. o \in Ends /\ o # e /\ Other(o) = e /\ \A f \in Ends : f = e \/ f = o
    BY TwoEnds
<1> HIDE DEF o
<1>3. /\ s1 \in CipherStates /\ Behind(s1.key, s1.ck)
      /\ s1.ck = ck[e] /\ s1.key = sk[e] /\ s1.nonce = sn[e]
    BY <1>1, CipherStateOf
<1>4. s2 \in CipherStates /\ s3 \in CipherStates
    BY <1>1, <1>3, WriteCiphers, Zenon
<1>5. s1.key.dir = e /\ Aligned(s1.ck, s1.key, e) /\ Aligned(ck[e], rk[e], o)
    BY <1>3 DEF KeysAligned, o
<1>6. /\ s2.key.dir = e /\ Extends(s2.ck, s1.ck)
      /\ Aligned(s2.ck, s2.key, e)
      /\ Uniform(s2.ck) => At(s2) = NextAt(At(s1))
      /\ \A k : Aligned(s1.ck, k, o) => Aligned(s2.ck, k, o)
    <2>1. s1 \in CipherStates /\ s1.key.dir = e /\ Aligned(s1.ck, s1.key, e)
        BY <1>3, <1>5, Zenon
    <2>2. s2 = Advance(s1) /\ o # e
        BY <1>1, <1>2, Zenon
    <2>3. Advanced(s1, s2, e, o)
        BY <2>1, <2>2, SendingAdvances
    <2> QED BY <2>3, Zenon DEF Advanced
<1>7. /\ s3.key.dir = e /\ Extends(s3.ck, s2.ck)
      /\ Aligned(s3.ck, s3.key, e)
      /\ Uniform(s3.ck) => At(s3) = NextAt(At(s2))
      /\ \A k : Aligned(s2.ck, k, o) => Aligned(s3.ck, k, o)
    <2>1. s2 \in CipherStates /\ s2.key.dir = e /\ Aligned(s2.ck, s2.key, e)
        BY <1>4, <1>6, Zenon
    <2>2. s3 = Advance(s2) /\ o # e
        BY <1>1, <1>2, Zenon
    <2>3. Advanced(s2, s3, e, o)
        BY <2>1, <2>2, SendingAdvances
    <2> QED BY <2>3, Zenon DEF Advanced
<1>8. s1.ck \in Seq(Ends) /\ s2.ck \in Seq(Ends) /\ s3.ck \in Seq(Ends)
    BY <1>3, <1>4 DEF CipherStates
<1>9. /\ ck'[e] = s3.ck /\ sk'[e] = s3.key /\ sn'[e] = s3.nonce
      /\ ck'[o] = ck[o] /\ sk'[o] = sk[o] /\ sn'[o] = sn[o]
    <2>1. ck \in [Ends -> Seq(Ends)]
        BY DEF TypeOK
    <2>2. sk \in [Ends -> Keys] /\ sn \in [Ends -> 0..(RotateAt - 1)]
        BY DEF TypeOK
    <2>3. ck'[e] = s3.ck /\ ck'[o] = ck[o]
        BY <1>1, <1>2, <2>1
    <2>4. sk'[e] = s3.key /\ sk'[o] = sk[o]
        BY <1>1, <1>2, <2>2
    <2>5. sn'[e] = s3.nonce /\ sn'[o] = sn[o]
        BY <1>1, <1>2, <2>2
    <2> QED BY <2>3, <2>4, <2>5
<1>10. rk' = rk /\ rn' = rn
    BY <1>1
<1>11. KeysAligned'
    <2>1. ASSUME NEW f \in Ends, f = e
          PROVE  /\ sk'[f].dir = f /\ rk'[f].dir = Other(f)
                 /\ Aligned(ck'[f], sk'[f], f) /\ Aligned(ck'[f], rk'[f], Other(f))
        BY <1>3, <1>5, <1>6, <1>7, <1>9, <1>10, <2>1, Zenon DEF KeysAligned, o
    <2>2. ASSUME NEW f \in Ends, f = o
          PROVE  /\ sk'[f].dir = f /\ rk'[f].dir = Other(f)
                 /\ Aligned(ck'[f], sk'[f], f) /\ Aligned(ck'[f], rk'[f], Other(f))
        BY <1>9, <1>10, <2>2, Zenon DEF KeysAligned
    <2> QED BY <1>2, <2>1, <2>2, Zenon DEF KeysAligned
<1>12. ASSUME OneWay' PROVE Linked(e)' /\ Linked(o)'
    <2>1. \A f \in Ends : Extends(ck'[f], ck[f])
        <3>1. Extends(ck'[e], ck[e])
            BY <1>3, <1>6, <1>7, <1>8, <1>9, ExtendsTransitive
        <3>2. \A c \in Seq(Ends) : Extends(c, c)
            BY LenProperties DEF Extends
        <3>3. ck[o] \in Seq(Ends)
            BY <1>2 DEF TypeOK
        <3>4. Extends(ck'[o], ck[o])
            BY <1>9, <3>2, <3>3, Zenon
        <3> QED BY <1>2, <3>1, <3>4, Zenon
    <2>2. OneWay /\ Uniform(s3.ck)
        BY <1>9, <1>12, <2>1, OneWayBefore
    <2>3. At(s2) = NextAt(At(s1)) /\ At(s3) = NextAt(At(s2))
        BY <1>6, <1>7, <1>8, <2>2, UniformPrefix
    <2>4. Linked(e) /\ Linked(o)
        BY <1>2, <2>2 DEF AllLinked
    <2> DEFINE a == Seal("len", s1, m)
               b == Seal("body", s2, m)
               t == InTransit(o)
    <2>5. /\ a \in Ciphertexts /\ b \in Ciphertexts
          /\ At(a) = At(s1) /\ At(b) = At(s2)
        <3>1. m \in Messages
            <4>1. wrote[e] \in Nat
                BY DEF TypeOK
            <4> QED BY <1>1, <4>1 DEF Messages
        <3>2. a \in Ciphertexts /\ b \in Ciphertexts
            BY <1>3, <1>4, <3>1 DEF Seal, Ciphertexts, Parts, CipherStates
        <3> QED BY <3>2 DEF Seal, At
    <2>6. t \in Seq(Ciphertexts) /\ t' = Append(Append(t, a), b)
        <3>1. wire \in [Ends -> Seq(Ciphertexts)] /\ buf[o] \in Seq(Ciphertexts)
            BY <1>2 DEF TypeOK
        <3>2. wire'[o] = wire[o] \o <<a, b>> /\ wire[o] \in Seq(Ciphertexts)
            BY <1>1, <1>2, <3>1
        <3>3. <<a, b>> \in Seq(Ciphertexts)
            BY <2>5
        <3> HIDE DEF a, b
        <3>4. (buf[o] \o wire[o]) \o <<a, b>> = buf[o] \o (wire[o] \o <<a, b>>)
            <4>1. \A u, v, w \in Seq(Ciphertexts) : (u \o v) \o w = u \o (v \o w)
                BY ConcatAssociative
            <4> QED BY <3>1, <3>2, <3>3, <4>1, Zenon
        <3>5. \A s \in Seq(Ciphertexts) : s \o <<a, b>> = Append(Append(s, a), b)
            BY <2>5
        <3>6. buf[o] \o wire[o] \in Seq(Ciphertexts)
            BY <3>1, <3>2
        <3> QED BY <1>10, <1>1, <3>2, <3>4, <3>5, <3>6, Zenon DEF InTransit
    <2> HIDE DEF a, b, t
    <2>7. Chained(<<rk[o], rn[o]>>, t, At(s1))
        BY <1>2, <1>3, <2>4, Zenon DEF Linked, t, At
    <2>8. /\ Chained(<<rk[o], rn[o]>>, Append(t, a), At(s2))
          /\ Append(t, a) \in Seq(Ciphertexts)
        BY <2>3, <2>5, <2>6, <2>7, ChainedAppend, Zenon
    <2>9. Chained(<<rk[o], rn[o]>>, Append(Append(t, a), b), At(s3))
        BY <2>3, <2>5, <2>8, ChainedAppend, Zenon
    <2>10. Linked(o)'
        BY <1>2, <1>9, <1>10, <2>6, <2>9, Zenon DEF Linked, t, At
    <2>11. InTransit(e)' = InTransit(e)
        <3>1. wire'[e] = wire[e] /\ buf' = buf
            BY <1>1, <1>2 DEF TypeOK
        <3> QED BY <3>1 DEF InTransit
    <2>12. Linked(e)'
        BY <1>9, <1>10, <2>4, <2>11, Zenon DEF Linked, o
    <2> QED BY <2>10, <2>12
<1>13. AllLinked'
    BY <1>2, <1>12, Zenon DEF AllLinked
<1> QED BY <1>11, <1>13

LEMMA TakeLinks ==
    ASSUME TypeOK, KeysBehindCk, TypeOK', KeysAligned, AllLinked,
           NEW e \in Ends, CanDecrypt(e), TakeAndDecrypt(e), UNCHANGED wire
    PROVE  KeysAligned' /\ AllLinked'
<1> DEFINE o == Other(e)
<1>1. PICK s, t : /\ s = Receiving(e) /\ t = Advance(s)
                  /\ buf' = [buf EXCEPT ![e] = Tail(@)]
                  /\ ck' = [ck EXCEPT ![e] = t.ck]
                  /\ rk' = [rk EXCEPT ![e] = t.key]
                  /\ rn' = [rn EXCEPT ![e] = t.nonce]
                  /\ UNCHANGED <<sk, sn, wire>>
    BY Zenon DEF TakeAndDecrypt
<1>2. o \in Ends /\ o # e /\ e # o /\ Other(o) = e /\ \A f \in Ends : f = e \/ f = o
    BY TwoEnds
<1> HIDE DEF o
<1>3. /\ s \in CipherStates /\ Behind(s.key, s.ck)
      /\ s.ck = ck[e] /\ s.key = rk[e] /\ s.nonce = rn[e]
    BY <1>1, CipherStateOf
<1>4. s.key.dir = o /\ Aligned(s.ck, s.key, o) /\ Aligned(ck[e], sk[e], e)
    BY <1>3 DEF KeysAligned, o
<1>5. /\ t.key.dir = o /\ Extends(t.ck, s.ck)
      /\ Aligned(t.ck, t.key, o)
      /\ Uniform(t.ck) => At(t) = NextAt(At(s))
      /\ \A k : Aligned(s.ck, k, e) => Aligned(t.ck, k, e)
    <2>1. /\ t.key.dir = o /\ Extends(t.ck, s.ck)
          /\ Aligned(s.ck, s.key, o) => Aligned(t.ck, t.key, o)
          /\ Aligned(s.ck, s.key, o) /\ Uniform(t.ck) => At(t) = NextAt(At(s))
          /\ \A f, k : f # o /\ Aligned(s.ck, k, f) => Aligned(t.ck, k, f)
        BY <1>1, <1>3, <1>4, AdvanceAligned
    <2> QED BY <1>2, <1>4, <2>1, Zenon
<1>6. /\ ck'[e] = t.ck /\ rk'[e] = t.key /\ rn'[e] = t.nonce
      /\ ck'[o] = ck[o] /\ rk'[o] = rk[o] /\ rn'[o] = rn[o]
      /\ buf'[e] = Tail(buf[e]) /\ buf'[o] = buf[o]
    <2>1. ck \in [Ends -> Seq(Ends)] /\ rk \in [Ends -> Keys]
        BY DEF TypeOK
    <2>2. rn \in [Ends -> 0..(RotateAt - 1)] /\ buf \in [Ends -> Seq(Ciphertexts)]
        BY DEF TypeOK
    <2>3. ck'[e] = t.ck /\ ck'[o] = ck[o]
        BY <1>1, <1>2, <2>1
    <2>4. rk'[e] = t.key /\ rk'[o] = rk[o]
        BY <1>1, <1>2, <2>1
    <2>5. rn'[e] = t.nonce /\ rn'[o] = rn[o]
        BY <1>1, <1>2, <2>2
    <2>6. buf'[e] = Tail(buf[e]) /\ buf'[o] = buf[o]
        BY <1>1, <1>2, <2>2
    <2> QED BY <2>3, <2>4, <2>5, <2>6
<1>7. sk' = sk /\ sn' = sn /\ wire' = wire
    BY <1>1
<1>8. KeysAligned'
    <2>1. ASSUME NEW f \in Ends, f = e
          PROVE  /\ sk'[f].dir = f /\ rk'[f].dir = Other(f)
                 /\ Aligned(ck'[f], sk'[f], f) /\ Aligned(ck'[f], rk'[f], Other(f))
        BY <1>3, <1>4, <1>5, <1>6, <1>7, <2>1, Zenon DEF KeysAligned, o
    <2>2. ASSUME NEW f \in Ends, f = o
          PROVE  /\ sk'[f].dir = f /\ rk'[f].dir = Other(f)
                 /\ Aligned(ck'[f], sk'[f], f) /\ Aligned(ck'[f], rk'[f], Other(f))
        BY <1>6, <1>7, <2>2, Zenon DEF KeysAligned
    <2> QED BY <1>2, <2>1, <2>2, Zenon DEF KeysAligned
<1>9. ASSUME OneWay' PROVE Linked(e)' /\ Linked(o)'
    <2>1. \A f \in Ends : Extends(ck'[f], ck[f])
        <3>1. Extends(ck'[e], ck[e])
            BY <1>3, <1>5, <1>6, Zenon
        <3>2. \A c \in Seq(Ends) : Extends(c, c)
            BY LenProperties DEF Extends
        <3>3. ck[o] \in Seq(Ends)
            BY <1>2 DEF TypeOK
        <3>4. Extends(ck'[o], ck[o])
            BY <1>6, <3>2, <3>3, Zenon
        <3> QED BY <1>2, <3>1, <3>4, Zenon
    <2>2. OneWay /\ Uniform(t.ck)
        BY <1>6, <1>9, <2>1, OneWayBefore
    <2>3. At(t) = NextAt(At(s))
        BY <1>5, <2>2
    <2>4. Linked(e) /\ Linked(o)
        BY <1>2, <2>2 DEF AllLinked
    <2> DEFINE x == InTransit(e)
    <2>5. x \in Seq(Ciphertexts) /\ x # <<>> /\ x' = Tail(x)
        <3>1. /\ buf[e] \in Seq(Ciphertexts) /\ wire[e] \in Seq(Ciphertexts)
              /\ buf[e] # <<>>
            BY DEF TypeOK, CanDecrypt
        <3>2. \A v, w \in Seq(Ciphertexts) : v # <<>> =>
                 v \o w # <<>> /\ Tail(v \o w) = Tail(v) \o w
            OBVIOUS
        <3>3. x' = Tail(buf[e]) \o wire[e]
            BY <1>6, <1>7, Zenon DEF InTransit
        <3>4. x \in Seq(Ciphertexts)
            BY TransitTyped
        <3> QED BY <3>1, <3>2, <3>3, <3>4, Zenon DEF InTransit
    <2> HIDE DEF x
    <2>6. Chained(At(s), x, <<sk[o], sn[o]>>)
        BY <1>3, <2>4, Zenon DEF Linked, x, At, o
    <2>7. Chained(At(t), Tail(x), <<sk[o], sn[o]>>)
        BY <2>3, <2>5, <2>6, ChainedTail, Zenon
    <2>8. Linked(e)'
        BY <1>6, <1>7, <2>5, <2>7, Zenon DEF Linked, x, At, o
    <2>9. InTransit(o)' = InTransit(o)
        BY <1>6, <1>7, Zenon DEF InTransit
    <2>10. Linked(o)'
        BY <1>2, <1>6, <1>7, <2>4, <2>9, Zenon DEF Linked
    <2> QED BY <2>8, <2>10
<1>10. AllLinked'
    BY <1>2, <1>9, Zenon DEF AllLinked
<1> QED BY <1>8, <1>10

LEMMA StepLinks ==
    ASSUME TypeOK, KeysBehindCk, TypeOK', KeysAligned, AllLinked, [Next]_vars
    PROVE  KeysAligned' /\ AllLinked'
<1>1. ASSUME NEW e \in Ends, Write(e) PROVE KeysAligned' /\ AllLinked'
    BY <1>1, WriteLinks
<1>2. ASSUME NEW e \in Ends, ProcessPacketLength(e) \/ ProcessPacketBody(e)
      PROVE  KeysAligned' /\ AllLinked'
    <2>1. CanDecrypt(e) /\ TakeAndDecrypt(e) /\ UNCHANGED wire
        BY <1>2, Zenon DEF ProcessPacketLength, ProcessPacketBody
    <2> QED BY <2>1, TakeLinks
<1>3. ASSUME NEW e \in Ends, Arrive(e) PROVE KeysAligned' /\ AllLinked'
    <2>1. /\ buf' = [buf EXCEPT ![e] = Append(buf[e], Head(wire[e]))]
          /\ wire' = [wire EXCEPT ![e] = Tail(wire[e])]
          /\ wire[e] # <<>> /\ UNCHANGED noise
        BY <1>3 DEF Arrive
    <2>2. buf \in [Ends -> Seq(Ciphertexts)] /\ wire \in [Ends -> Seq(Ciphertexts)]
        BY DEF TypeOK
    <2>3. \A b, w \in Seq(Ciphertexts) : w # <<>> => Append(b, Head(w)) \o Tail(w) = b \o w
        OBVIOUS
    <2>4. ASSUME NEW f \in Ends PROVE InTransit(f)' = InTransit(f)
        <3>1. CASE f = e
            <4>1. buf'[f] = Append(buf[f], Head(wire[f])) /\ wire'[f] = Tail(wire[f])
                BY <2>1, <2>2, <3>1
            <4>2. buf[f] \in Seq(Ciphertexts) /\ wire[f] \in Seq(Ciphertexts)
                BY <2>2
            <4>3. wire[f] # <<>>
                BY <2>1, <3>1
            <4>4. Append(buf[f], Head(wire[f])) \o Tail(wire[f]) = buf[f] \o wire[f]
                BY <2>3, <4>2, <4>3
            <4> QED BY <4>1, <4>4, Zenon DEF InTransit
        <3>2. CASE f # e
            <4>1. buf'[f] = buf[f] /\ wire'[f] = wire[f]
                BY <2>1, <2>2, <3>2
            <4> QED BY <4>1, Zenon DEF InTransit
        <3> QED BY <3>1, <3>2
    <2> QED BY <2>1, <2>4, SameLinks
<1>4. ASSUME UNCHANGED <<noise, buf, wire>> PROVE KeysAligned' /\ AllLinked'
    <2>1. \A f \in Ends : InTransit(f)' = InTransit(f)
        BY <1>4, Zenon DEF InTransit
    <2> QED BY <1>4, <2>1, SameLinks
<1>5. ASSUME NEW e \in Ends,
             OnDataStops(e) \/ DecryptFails(e) \/ ConsumerReads(e) \/ ConnectionReset(e)
      PROVE  KeysAligned' /\ AllLinked'
    BY <1>4, <1>5, Zenon DEF OnDataStops, DecryptFails, ConsumerReads, ConnectionReset
<1>6. CASE UNCHANGED vars
    BY <1>4, <1>6 DEF vars, noise
<1> QED BY <1>1, <1>2, <1>3, <1>5, <1>6, Zenon DEF Next, OnData

LEMMA InitLinks == Init => KeysAligned /\ AllLinked
<1> SUFFICES ASSUME Init, NEW e \in Ends
             PROVE  /\ sk[e].dir = e /\ rk[e].dir = Other(e)
                    /\ Aligned(ck[e], sk[e], e) /\ Aligned(ck[e], rk[e], Other(e))
                    /\ Linked(e)
    BY DEF KeysAligned, AllLinked
<1>1. /\ ck[e] = <<>> /\ sk[e] = [dir |-> e, at |-> <<>>]
      /\ rk[e] = [dir |-> Other(e), at |-> <<>>] /\ rn[e] = 0
      /\ sk[Other(e)] = [dir |-> Other(e), at |-> <<>>] /\ sn[Other(e)] = 0
      /\ wire[e] = <<>> /\ buf[e] = <<>>
    BY TwoEnds DEF Init
<1>2. InTransit(e) = <<>>
    BY <1>1 DEF InTransit
<1>3. Len(<<>>) = 0
    OBVIOUS
<1>4. Linked(e)
    BY <1>1, <1>2, <1>3 DEF Linked, Chained
<1> QED BY <1>1, <1>4 DEF Aligned

(* Until both directions have rotated, the next ciphertext to reach a live *)
(* end opens there, for every rotation threshold: see InStepUntilCrossed.  *)
THEOREM InStep == Spec => []InStepUntilCrossed
<1>1. Init => TypeOK /\ KeysBehindCk /\ KeysAligned /\ AllLinked
    BY InitTyped, InitLinks
<1>2. /\ TypeOK /\ KeysBehindCk /\ KeysAligned /\ AllLinked /\ [Next]_vars
      => (TypeOK /\ KeysBehindCk /\ KeysAligned /\ AllLinked)'
    BY StepTyped, StepLinks
<1>3. TypeOK /\ AllLinked => InStepUntilCrossed
    <2> SUFFICES ASSUME TypeOK, AllLinked, OneWay, NEW e \in Ends, InTransit(e) # <<>>
                 PROVE  Opens(Head(InTransit(e)), Receiving(e))
        BY DEF InStepUntilCrossed, KeysInStep
    <2>1. InTransit(e) \in Seq(Ciphertexts)
        BY TransitTyped
    <2>2. At(Head(InTransit(e))) = <<rk[e], rn[e]>>
        BY <2>1, ChainedTail, Zenon DEF AllLinked, Linked
    <2> QED BY <2>2 DEF At, Opens, Receiving
<1> QED BY <1>1, <1>2, <1>3, PTL DEF Spec
=============================================================================
