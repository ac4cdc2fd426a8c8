---------------------------- MODULE MCDirectSound ----------------------------
(* Half a ring of two words: a refill that is interrupted, and a level of one. *)
EXTENDS DirectSound
=============================================================================
