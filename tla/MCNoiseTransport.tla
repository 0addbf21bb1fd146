-------------------------- MODULE MCNoiseTransport --------------------------
(* A small instance of NoiseTransport for TLC: who writes how much. *)
EXTENDS NoiseTransport

(* Both ends may write enough to rotate their own sending key, the         *)
(* initiator past the middle of a frame; each may also write less.         *)
Crossing == [e \in Ends |-> IF e = "initiator" THEN 4 ELSE 2]
=============================================================================
