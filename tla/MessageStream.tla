--------------------------- MODULE MessageStream ---------------------------
(***************************************************************************)
(* What a connected pair of NoiseSockets promises its two users: a pair of *)
(* object streams, each of which hands over the messages written to the    *)
(* other end, each once and in the order they were written.                *)
(***************************************************************************)
EXTENDS Naturals, Sequences

CONSTANT End      \* the two ends

VARIABLES
    sent,         \* the number of messages each end has written
    received      \* the messages each end has read

streamVars == <<sent, received>>

Peer(e) == CHOOSE f \in End : f # e

StreamInit ==
    /\ sent = [e \in End |-> 0]
    /\ received = [e \in End |-> <<>>]

Send(e) ==
    /\ sent' = [sent EXCEPT ![e] = @ + 1]
    /\ UNCHANGED received

Receive(e) ==
    /\ Len(received[e]) < sent[Peer(e)]
    /\ received' = [received EXCEPT ![e] = Append(@, Len(@) + 1)]
    /\ UNCHANGED sent

StreamNext == \E e \in End : Send(e) \/ Receive(e)

(* Nothing is lost, invented, repeated or reordered. *)
StreamSafe == StreamInit /\ [][StreamNext]_streamVars
=============================================================================
