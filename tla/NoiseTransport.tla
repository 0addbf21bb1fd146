--------------------------- MODULE NoiseTransport ---------------------------
(***************************************************************************)
(* The transport phase of a NoiseSocket pair, after the BOLT 8 handshake:  *)
(* packages/noise/lib/noise-state.ts (encryptMessage, decryptLength,       *)
(* decryptMessage and the key rotation) and noise-socket.ts (_write,       *)
(* _onData, _processPacketLength, _processPacketBody, _read, destroy).     *)
(*                                                                         *)
(* Cryptography is symbolic.  HKDF is injective, so the chaining key `ck`  *)
(* of an end is represented by the history of the rotations mixed into it: *)
(* the sequence of the ends whose traffic key was rotated.  A traffic key  *)
(* is the direction it protects together with the chaining key that its    *)
(* last rotation produced, and a ciphertext is the key and the nonce it    *)
(* was sealed with: it opens under that key and that nonce and no others.  *)
(*                                                                         *)
(* A frame is two ciphertexts, the length and the body.  TCP keeps their   *)
(* order and may deliver a frame in pieces.                                *)
(***************************************************************************)
EXTENDS Naturals, Sequences, FiniteSets

CONSTANTS
    RotateAt,        \* nonces used under one key: 1000, below the 2^16 they have
    HighWaterMark,   \* capacity of the object-mode read buffer: 2048
    Quota            \* bound: how many messages each end writes

Ends == {"initiator", "responder"}
Parts == {"len", "body"}
Other(e) == IF e = "initiator" THEN "responder" ELSE "initiator"

ASSUME RotateAssumption == RotateAt \in Nat \ {0}
ASSUME HighWaterMarkAssumption == HighWaterMark \in Nat \ {0}
ASSUME QuotaAssumption == Quota \in [Ends -> Nat]

VARIABLES
    ck,         \* NoiseState.ck of each end, as the history of rotations
    sk, sn,     \* sending key and nonce of each end
    rk, rn,     \* receiving key and nonce of each end
    wire,       \* ciphertexts in flight towards each end
    buf,        \* ciphertexts waiting in the TCP socket's read buffer
    readState,  \* READ_STATE of each socket
    scheduled,  \* an _onData call is pending ('readable' or setImmediate)
    inbox,      \* Duplex read buffer: decrypted, not read by the consumer
    reading,    \* Duplex state.reading: _read was called, nothing pushed since
    open,       \* the socket has not been destroyed
    wrote,      \* number of messages written by each end
    got,        \* messages the consumer at each end has read
    used        \* history: the (key, nonce) pairs each end sealed with

noise == <<ck, sk, sn, rk, rn>>
socket == <<readState, scheduled, inbox, reading, open>>
vars == <<ck, sk, sn, rk, rn, wire, buf, readState, scheduled, inbox, reading,
          open, wrote, got, used>>

-----------------------------------------------------------------------------
Keys == [dir : Ends, at : Seq(Ends)]
Messages == Nat \ {0}
Ciphertexts == [part : Parts, key : Keys, nonce : Nat, msg : Messages]

TypeOK ==
    /\ ck \in [Ends -> Seq(Ends)]
    /\ sk \in [Ends -> Keys] /\ rk \in [Ends -> Keys]
    /\ sn \in [Ends -> 0..(RotateAt - 1)] /\ rn \in [Ends -> 0..(RotateAt - 1)]
    /\ wire \in [Ends -> Seq(Ciphertexts)] /\ buf \in [Ends -> Seq(Ciphertexts)]
    /\ readState \in [Ends -> {"READY_FOR_LEN", "READY_FOR_BODY", "BLOCKED"}]
    /\ scheduled \in [Ends -> BOOLEAN] /\ open \in [Ends -> BOOLEAN]
    /\ reading \in [Ends -> BOOLEAN]
    /\ inbox \in [Ends -> Seq(Messages)] /\ got \in [Ends -> Seq(Messages)]
    /\ wrote \in [Ends -> Nat]
    /\ used \in [Ends -> SUBSET (Keys \X Nat)]

(* The handshake leaves both ends with the same chaining key and with      *)
(* crossed traffic keys, and both nonces at zero.  A consumer that tried    *)
(* to read before the handshake was over has left `reading` set.           *)
Init ==
    /\ ck = [e \in Ends |-> <<>>]
    /\ sk = [e \in Ends |-> [dir |-> e, at |-> <<>>]]
    /\ rk = [e \in Ends |-> [dir |-> Other(e), at |-> <<>>]]
    /\ sn = [e \in Ends |-> 0] /\ rn = [e \in Ends |-> 0]
    /\ wire = [e \in Ends |-> <<>>] /\ buf = [e \in Ends |-> <<>>]
    /\ readState = [e \in Ends |-> "READY_FOR_LEN"]
    /\ scheduled = [e \in Ends |-> FALSE] /\ open = [e \in Ends |-> TRUE]
    /\ reading \in [Ends -> BOOLEAN]
    /\ inbox = [e \in Ends |-> <<>>] /\ got = [e \in Ends |-> <<>>]
    /\ wrote = [e \in Ends |-> 0]
    /\ used = [e \in Ends |-> {}]

-----------------------------------------------------------------------------
(* Mutant: the nonce restarts and the traffic key stays.                   *)
RotateSameKey(s) == [ck |-> Append(s.ck, s.key.dir), key |-> s.key, nonce |-> 0]

(* _incrementSendingNonce with _rotateSendingKeys, and the receiving twin: *)
(* both rotate from, and replace, the one chaining key of the end.         *)
Rotate(s) ==
    LET mixed == Append(s.ck, s.key.dir)
    IN  [ck |-> mixed, key |-> [dir |-> s.key.dir, at |-> mixed], nonce |-> 0]

Advance(s) ==
    IF s.nonce + 1 >= RotateAt THEN Rotate(s)
    ELSE [ck |-> s.ck, key |-> s.key, nonce |-> s.nonce + 1]

Sending(e) == [ck |-> ck[e], key |-> sk[e], nonce |-> sn[e]]
Receiving(e) == [ck |-> ck[e], key |-> rk[e], nonce |-> rn[e]]

Seal(part, s, m) == [part |-> part, key |-> s.key, nonce |-> s.nonce, msg |-> m]
Opens(c, s) == c.key = s.key /\ c.nonce = s.nonce

(* _write: encryptMessage seals the length, advances, seals the body,      *)
(* advances, and the frame goes to the TCP socket.                         *)
Write(e) ==
    LET s1 == Sending(e)
        s2 == Advance(s1)
        s3 == Advance(s2)
        m  == wrote[e] + 1
    IN  /\ open[e]
        /\ wrote[e] < Quota[e]
        /\ wrote' = [wrote EXCEPT ![e] = m]
        /\ wire' = [wire EXCEPT ![Other(e)] =
                        @ \o <<Seal("len", s1, m), Seal("body", s2, m)>>]
        /\ used' = [used EXCEPT ![e] =
                        @ \cup {<<s1.key, s1.nonce>>, <<s2.key, s2.nonce>>}]
        /\ ck' = [ck EXCEPT ![e] = s3.ck]
        /\ sk' = [sk EXCEPT ![e] = s3.key]
        /\ sn' = [sn EXCEPT ![e] = s3.nonce]
        /\ UNCHANGED <<rk, rn, buf, socket, got>>

(* TCP delivers the next piece and the socket emits 'readable'. *)
Arrive(e) ==
    /\ open[e]
    /\ wire[e] # <<>>
    /\ buf' = [buf EXCEPT ![e] = Append(@, Head(wire[e]))]
    /\ wire' = [wire EXCEPT ![e] = Tail(@)]
    /\ scheduled' = [scheduled EXCEPT ![e] = TRUE]
    /\ UNCHANGED <<noise, readState, inbox, reading, open, wrote, got, used>>

-----------------------------------------------------------------------------
(* One iteration of the loop of _onData.  An iteration that returns TRUE   *)
(* leaves the call scheduled, so that a run of the loop is a sequence of   *)
(* these steps.                                                            *)

(* socket.read returned null, or the consumer is not keeping up: the loop  *)
(* ends until the next 'readable' or _read.                                *)
OnDataStops(e) ==
    /\ open[e] /\ scheduled[e]
    /\ buf[e] = <<>> \/ readState[e] = "BLOCKED"
    /\ scheduled' = [scheduled EXCEPT ![e] = FALSE]
    /\ UNCHANGED <<noise, wire, buf, readState, inbox, reading, open, wrote, got,
                   used>>

(* Mutant: a receiving rotation forgets to replace the chaining key.       *)
TakeAndDecryptKeepsCk(e) ==
    LET s == Advance(Receiving(e))
    IN  /\ buf' = [buf EXCEPT ![e] = Tail(@)]
        /\ rk' = [rk EXCEPT ![e] = s.key]
        /\ rn' = [rn EXCEPT ![e] = s.nonce]
        /\ UNCHANGED <<ck, sk, sn>>

TakeAndDecrypt(e) ==
    LET s == Advance(Receiving(e))
    IN  /\ buf' = [buf EXCEPT ![e] = Tail(@)]
        /\ ck' = [ck EXCEPT ![e] = s.ck]
        /\ rk' = [rk EXCEPT ![e] = s.key]
        /\ rn' = [rn EXCEPT ![e] = s.nonce]
        /\ UNCHANGED <<sk, sn>>

CanDecrypt(e) ==
    /\ open[e] /\ scheduled[e]
    /\ buf[e] # <<>>
    /\ Opens(Head(buf[e]), Receiving(e))

ProcessPacketLength(e) ==
    /\ CanDecrypt(e)
    /\ readState[e] = "READY_FOR_LEN"
    /\ TakeAndDecrypt(e)
    /\ readState' = [readState EXCEPT ![e] = "READY_FOR_BODY"]
    /\ UNCHANGED <<wire, scheduled, inbox, reading, open, wrote, got, used>>

(* Mutant: the message for which push returned FALSE is taken as refused.  *)
ProcessPacketBodyDrops(e) ==
    LET pushed == Append(inbox[e], Head(buf[e]).msg)
        pushOk == Len(pushed) < HighWaterMark
    IN  /\ CanDecrypt(e)
        /\ readState[e] = "READY_FOR_BODY"
        /\ TakeAndDecrypt(e)
        /\ inbox' = [inbox EXCEPT ![e] = IF pushOk THEN pushed ELSE @]
        /\ reading' = [reading EXCEPT ![e] = FALSE]
        /\ readState' = [readState EXCEPT ![e] =
                            IF pushOk THEN "READY_FOR_LEN" ELSE "BLOCKED"]
        /\ scheduled' = [scheduled EXCEPT ![e] = pushOk]
        /\ UNCHANGED <<wire, open, wrote, got, used>>

(* push returns FALSE once the read buffer has reached its high-water mark. *)
ProcessPacketBody(e) ==
    LET pushed == Append(inbox[e], Head(buf[e]).msg)
        pushOk == Len(pushed) < HighWaterMark
    IN  /\ CanDecrypt(e)
        /\ readState[e] = "READY_FOR_BODY"
        /\ TakeAndDecrypt(e)
        /\ inbox' = [inbox EXCEPT ![e] = pushed]
        /\ reading' = [reading EXCEPT ![e] = FALSE]
        /\ readState' = [readState EXCEPT ![e] =
                            IF pushOk THEN "READY_FOR_LEN" ELSE "BLOCKED"]
        /\ scheduled' = [scheduled EXCEPT ![e] = pushOk]
        /\ UNCHANGED <<wire, open, wrote, got, used>>

(* A ciphertext that does not open throws out of the loop: destroy(err). *)
DecryptFails(e) ==
    /\ open[e] /\ scheduled[e]
    /\ readState[e] # "BLOCKED"
    /\ buf[e] # <<>>
    /\ ~Opens(Head(buf[e]), Receiving(e))
    /\ open' = [open EXCEPT ![e] = FALSE]
    /\ scheduled' = [scheduled EXCEPT ![e] = FALSE]
    /\ UNCHANGED <<noise, wire, buf, readState, inbox, reading, wrote, got, used>>

(* Mutant: _read unblocks and schedules nothing.                           *)
ConsumerReadsNoSchedule(e) ==
    /\ open[e] /\ inbox[e] # <<>>
    /\ got' = [got EXCEPT ![e] = Append(@, Head(inbox[e]))]
    /\ inbox' = [inbox EXCEPT ![e] = Tail(@)]
    /\ reading' = [reading EXCEPT ![e] = TRUE]
    /\ readState' = [readState EXCEPT ![e] =
                        IF @ = "BLOCKED" THEN "READY_FOR_LEN" ELSE @]
    /\ UNCHANGED <<noise, wire, buf, scheduled, open, wrote, used>>

(* The consumer reads one message.  The stream then has room and calls     *)
(* _read, unless a call of it is outstanding; _read unblocks the socket    *)
(* and schedules _onData.  (The stream makes more calls of _read of its    *)
(* own accord; they only add OnDataStops steps, and no property relies on  *)
(* them.)                                                                  *)
ConsumerReads(e) ==
    /\ open[e]
    /\ inbox[e] # <<>>
    /\ got' = [got EXCEPT ![e] = Append(@, Head(inbox[e]))]
    /\ inbox' = [inbox EXCEPT ![e] = Tail(@)]
    /\ IF reading[e]
       THEN UNCHANGED <<readState, scheduled, reading>>
       ELSE /\ reading' = [reading EXCEPT ![e] = TRUE]
            /\ readState' = [readState EXCEPT ![e] =
                                IF @ = "BLOCKED" THEN "READY_FOR_LEN" ELSE @]
            /\ scheduled' = [scheduled EXCEPT ![e] = TRUE]
    /\ UNCHANGED <<noise, wire, buf, open, wrote, used>>

(* The other end destroyed its socket: this one is reset. *)
ConnectionReset(e) ==
    /\ open[e] /\ ~open[Other(e)]
    /\ open' = [open EXCEPT ![e] = FALSE]
    /\ scheduled' = [scheduled EXCEPT ![e] = FALSE]
    /\ UNCHANGED <<noise, wire, buf, readState, inbox, reading, wrote, got, used>>

OnData(e) ==
    \/ OnDataStops(e)
    \/ ProcessPacketLength(e)
    \/ ProcessPacketBody(e)
    \/ DecryptFails(e)

Next == \E e \in Ends :
    \/ Write(e)
    \/ Arrive(e)
    \/ OnData(e)
    \/ ConsumerReads(e)
    \/ ConnectionReset(e)

Spec == Init /\ [][Next]_vars

(* TCP delivers, the event loop runs what it scheduled, and the consumer   *)
(* keeps reading.  Nothing makes an end write.                             *)
Fairness == \A e \in Ends :
    /\ WF_vars(Arrive(e))
    /\ WF_vars(OnData(e))
    /\ WF_vars(ConsumerReads(e))

FairSpec == Spec /\ Fairness

-----------------------------------------------------------------------------
(* encryptMessage rotates the key before its nonce can repeat: no end ever *)
(* seals two ciphertexts with the same key and nonce, whatever the         *)
(* interleaving with the rotations of the receiving side.                  *)
NonceFresh == \A e \in Ends : Cardinality(used[e]) = 2 * wrote[e]

(* Back-pressure loses no wake-up.  Data that waits in the TCP buffer of a *)
(* live socket has an _onData call coming, or the socket is blocked behind *)
(* a full read buffer whose next read will call _read and unblock it.      *)
NoLostWakeup == \A e \in Ends :
    open[e] /\ buf[e] # <<>> /\ ~scheduled[e] =>
        readState[e] = "BLOCKED" /\ inbox[e] # <<>> /\ ~reading[e]

(* The socket decrypts what it receives: the next ciphertext that reaches  *)
(* an end is sealed with exactly the key and the nonce this end will try.  *)
InTransit(e) == buf[e] \o wire[e]
KeysInStep == \A e \in Ends :
    open[e] /\ InTransit(e) # <<>> => Opens(Head(InTransit(e)), Receiving(e))

(* Both ends have only rotated for traffic of one and the same direction.  *)
OneWay == \A e, f \in Ends : \A i \in DOMAIN ck[e], j \in DOMAIN ck[f] : ck[e][i] = ck[f][j]

(* As long as only one direction has rotated its key, that never fails.    *)
InStepUntilCrossed == OneWay => KeysInStep

(* A pair of sockets implements the pair of streams of MessageStream. *)
Stream == INSTANCE MessageStream WITH
    End <- Ends, sent <- wrote, received <- got

InOrder == Stream!StreamSafe

(* Every message that is written is read in the end, unless both           *)
(* directions come to rotate.                                              *)
DeliveredUnlessCrossed == \A e \in Ends :
    (Len(got[e]) < wrote[Other(e)]) ~> (Len(got[e]) = wrote[Other(e)] \/ ~OneWay)
=============================================================================
