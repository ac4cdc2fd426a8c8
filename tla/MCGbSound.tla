------------------------------ MODULE MCGbSound ------------------------------
(* Every kind of channel, each with the writes that matter to it: the sweep   *)
(* with a constant volume, the square with moving envelopes.  A frequency is  *)
(* two bits wide, a counter of 16 bits is three values wider than a period.  *)
EXTENDS GbSound

MCMaxLength == [k \in Kinds |-> IF k = "sweep" THEN 1 ELSE 2]

Envelope(init, up, period) == [init |-> init, up |-> up, period |-> period]
MCEnvelopeWrites ==
    [k \in Kinds |->
        IF k = "sweep" THEN {Envelope(0, FALSE, 0), Envelope(1, FALSE, 0)}
        ELSE {Envelope(0, FALSE, 1), Envelope(MaxVolume, FALSE, 2), Envelope(0, TRUE, 1),
              Envelope(1, FALSE, 1), Envelope(1, TRUE, 0)}]

MCSweepWrites == [shift: {0, 1}, time: {1, NoTime}, down: BOOLEAN]
=============================================================================
