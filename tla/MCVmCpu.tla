------------------------------ MODULE MCVmCpu ------------------------------
(* Every register starts with a value of its own, and moving it or pushing a *)
(* frame toggles between that and a second one, so that a register that is   *)
(* not saved, not restored or put in another's place shows.                  *)
EXTENDS VmCpu, TLC

CONSTANTS arm7, vblank, timer, dma, none, bios, swi

MCValues == (Registers \X {0, 1}) \union {<<none, 0>>, <<none, 1>>, <<bios, 0>>, <<swi, 0>>}
MCMoved == [v \in MCValues |-> IF v[1] \in {bios, swi} THEN v ELSE <<v[1], 1 - v[2]>>]
\* Where only interrupts matter, it does not show.
Unmoved == [v \in MCValues |-> v]
MCInitialValue == [reg \in Registers |-> <<reg, 0>>]
MCZeroValue == <<none, 0>>
MCBiosReturn == <<bios, 0>>
MCSwiReturn == <<swi, 0>>

Psr(m, i) == [mode |-> m, i |-> i]
MCBootPsr == Psr("svc", TRUE)
MCZeroPsr == Psr("usr", FALSE)
AllModes == {Psr("usr", FALSE), Psr("sys", FALSE), Psr("fiq", FALSE), Psr("abt", TRUE),
             Psr("und", FALSE), Psr("irq", TRUE), Psr("svc", TRUE)}
AllMasks == SUBSET Irqs
\* Everything, or only what the emulator raises.
SomeMasks == {Irqs, EmuIrqs}
ToFiq == {Psr("fiq", FALSE)}
FewModes == {Psr("sys", FALSE), Psr("svc", TRUE)}
=============================================================================
