---------------------------- MODULE MCDmaChannels ----------------------------
(* Channels that wait once, with an interrupt, and channels that repeat       *)
(* without one, for everything there is to wait for; one value that stops.   *)
EXTENDS DmaChannels

Value(enabled, mode, repeat, dreq) ==
    [enabled |-> enabled, repeat |-> repeat, irq |-> ~repeat, dreq |-> dreq, mode |-> mode]

MCControls ==
    {Value(TRUE, "hblank", TRUE, FALSE), Value(TRUE, "hblank", FALSE, FALSE),
     Value(TRUE, "vblank", FALSE, FALSE), Value(TRUE, "special", FALSE, FALSE),
     Value(TRUE, "immediate", TRUE, FALSE), Value(TRUE, "hblank", TRUE, TRUE),
     Value(FALSE, "hblank", TRUE, FALSE)}
=============================================================================
