------------------------------ MODULE DmaChannels ------------------------------
(***************************************************************************)
(* The DMA channels of the guest (Peripherals/DmaTransfer.c, Dma.s) and the  *)
(* interrupt handlers that serve them (HBlankIrq.s, VBlankIrq.s, Arm7Irq.s). *)
(* A handler does not look at the channels: starting one patches a call into *)
(* it, and stopping one puts the nop back.  Beside its slot a waiting channel *)
(* has a flag, a bit of vm_forcedIrqMask that keeps the DS interrupt on while *)
(* any channel needs it, and the instruction that skips all slots.           *)
(*                                                                         *)
(* A store of the guest and a handler run with interrupts masked.  Only an   *)
(* immediate transfer lets them in, so handlers find the channel that is     *)
(* being moved already disabled.                                            *)
(***************************************************************************)
CONSTANTS
    Channels,   \* 0..3 in the code
    Sound,      \* of them, those that can feed a FIFO: 1 and 2
    Controls,   \* what the guest writes to a control register
    None        \* no immediate transfer is under way

Control ==
    [enabled: BOOLEAN, repeat: BOOLEAN, irq: BOOLEAN, dreq: BOOLEAN,
     mode: {"immediate", "vblank", "hblank", "special"}]

ASSUME DmaConstants ==
    /\ Sound \subseteq Channels
    /\ Controls \subseteq Control
    /\ None \notin Channels \X Control

VARIABLES
    control,    \* GbaDmaChannel::control of each channel
    hFlags,     \* dma_state.dmaFlags: channels that wait for H-blank,
    vFlags,     \* ... for V-blank,
    sFlags,     \* ... for the FIFO of a sound channel
    hSlots,     \* emu_hblankDmaJumpInstructions that are calls
    vSlots,     \* emu_vblankDmaJumpInstructions that are calls
    sSlots,     \* emu_soundDma1JumpInstruction, emu_soundDma2JumpInstruction
    hSkip,      \* emu_hblankDmaSkipInstruction is unconditional
    vJump,      \* emu_vblankDmaJumpInstruction is a branch
    forced,     \* of vm_forcedIrqMask, the bits of H-blank and of the ARM7
    dispStat,   \* the guest's H-blank interrupt enable in REG_DISPSTAT
    hIrq,       \* the one of the DS
    busy,       \* the immediate transfer under way: its channel and control
    event,      \* history: what the last step was,
    moved,      \* ... the channels that moved a block in the last step,
    raised      \* ... and those whose bit it set in vm_emulatedIfImeIe

flagVars == <<hFlags, vFlags, sFlags>>
slotVars == <<hSlots, vSlots, sSlots, hSkip, vJump>>
vars == <<control, flagVars, slotVars, forced, dispStat, hIrq, busy, event, moved, raised>>

TypeOK ==
    /\ control \in [Channels -> Control]
    /\ hFlags \subseteq Channels /\ vFlags \subseteq Channels /\ sFlags \subseteq Sound
    /\ hSlots \subseteq Channels /\ vSlots \subseteq Channels /\ sSlots \subseteq Sound
    /\ hSkip \in BOOLEAN /\ vJump \in BOOLEAN
    /\ forced \subseteq {"hblank", "arm7"}
    /\ dispStat \in BOOLEAN /\ hIrq \in BOOLEAN
    /\ busy \in (Channels \X Control) \union {None}
    /\ event \in {"store", "transfer", "hblank", "vblank", "sound"}
    /\ moved \subseteq Channels /\ raised \subseteq Channels

\* dma_init, and the guest's registers at reset.
Init ==
    /\ control = [c \in Channels |->
                    [enabled |-> FALSE, repeat |-> FALSE, irq |-> FALSE, dreq |-> FALSE,
                     mode |-> "immediate"]]
    /\ hFlags = {} /\ vFlags = {} /\ sFlags = {}
    /\ hSlots = {} /\ vSlots = {} /\ sSlots = {}
    /\ hSkip = TRUE /\ vJump = FALSE
    /\ forced = {}
    /\ dispStat = FALSE /\ hIrq = FALSE
    /\ busy = None
    /\ event = "store" /\ moved = {} /\ raised = {}

Disabled(value) == [value EXCEPT !.enabled = FALSE]
Quiet == event' = "store" /\ moved' = {} /\ raised' = {}

\* A bit of vm_forcedIrqMask goes when the last channel that needs it stops.
Without(mask, irq, flags) == IF flags = {} THEN mask \ {irq} ELSE mask

\* updateHBlankIrqForChannelStop, with the flags as they are by then.
UpdateHBlankIrq ==
    /\ hSkip' = (hSkip \/ hFlags' = {})
    /\ hIrq' = (hIrq /\ (hFlags' # {} \/ dispStat))

\* updateForVBlankChannelStop.
UpdateForVBlank == vJump' = (vJump /\ vFlags' # {})

-----------------------------------------------------------------------------
(* Stores of the guest.                                                     *)

\* dma_CntHStore16 without a change of the enable bit: nothing but the register
\* changes, whatever the channel is waiting for.
ChangeControl(c, value) ==
    /\ busy = None
    /\ value.enabled = control[c].enabled
    /\ control' = [control EXCEPT ![c] = value]
    /\ Quiet
    /\ UNCHANGED <<flagVars, slotVars, forced, dispStat, hIrq, busy>>

\* Mutant: the slots are left for the next start to patch.
StopFlagsOnly(c, value) ==
    /\ busy = None
    /\ control[c].enabled /\ ~value.enabled
    /\ control' = [control EXCEPT ![c] = value]
    /\ hFlags' = hFlags \ {c} /\ vFlags' = vFlags \ {c} /\ sFlags' = sFlags \ {c}
    /\ UpdateHBlankIrq /\ UpdateForVBlank
    /\ forced' = Without(Without(forced, "hblank", hFlags'), "arm7", sFlags')
    /\ Quiet
    /\ UNCHANGED <<hSlots, vSlots, sSlots, dispStat, busy>>

\* dmaStop.
Stop(c, value) ==
    /\ busy = None
    /\ control[c].enabled /\ ~value.enabled
    /\ control' = [control EXCEPT ![c] = value]
    /\ hFlags' = hFlags \ {c} /\ vFlags' = vFlags \ {c} /\ sFlags' = sFlags \ {c}
    /\ UpdateHBlankIrq /\ UpdateForVBlank
    /\ forced' = Without(Without(forced, "hblank", hFlags'), "arm7", sFlags')
    /\ hSlots' = hSlots \ {c} /\ vSlots' = vSlots \ {c} /\ sSlots' = sSlots \ {c}
    /\ Quiet
    /\ UNCHANGED <<dispStat, busy>>

Starts(c, value) ==
    /\ busy = None
    /\ ~control[c].enabled /\ value.enabled

\* dmaStart where nothing is to be armed: a transfer paced by the cartridge, a
\* source in the window the ROM is linked at, video capture.
StartRefused(c, value) ==
    /\ Starts(c, value)
    /\ value.dreq \/ value.mode # "immediate"
    /\ control' = [control EXCEPT ![c] = Disabled(value)]
    /\ Quiet
    /\ UNCHANGED <<flagVars, slotVars, forced, dispStat, hIrq, busy>>

\* dmaStartHBlank.
StartHBlank(c, value) ==
    /\ Starts(c, value)
    /\ ~value.dreq /\ value.mode = "hblank"
    /\ control' = [control EXCEPT ![c] = value]
    /\ hFlags' = hFlags \union {c}
    /\ forced' = forced \union {"hblank"}
    /\ hIrq' = TRUE
    /\ hSkip' = FALSE
    /\ hSlots' = hSlots \union {c}
    /\ Quiet
    /\ UNCHANGED <<vFlags, sFlags, vSlots, sSlots, vJump, dispStat, busy>>

\* dmaStartVBlank.
StartVBlank(c, value) ==
    /\ Starts(c, value)
    /\ ~value.dreq /\ value.mode = "vblank"
    /\ control' = [control EXCEPT ![c] = value]
    /\ vFlags' = vFlags \union {c}
    /\ vJump' = TRUE
    /\ vSlots' = vSlots \union {c}
    /\ Quiet
    /\ UNCHANGED <<hFlags, sFlags, hSlots, sSlots, hSkip, forced, dispStat, hIrq, busy>>

\* dmaStartSound.
StartSound(c, value) ==
    /\ Starts(c, value)
    /\ ~value.dreq /\ value.mode = "special" /\ c \in Sound
    /\ control' = [control EXCEPT ![c] = value]
    /\ sFlags' = sFlags \union {c}
    /\ forced' = forced \union {"arm7"}
    /\ sSlots' = sSlots \union {c}
    /\ Quiet
    /\ UNCHANGED <<hFlags, vFlags, hSlots, vSlots, hSkip, vJump, dispStat, hIrq, busy>>

\* dmaStartImmediate up to the transfer, which channel 3 and any block of the ROM
\* that is not loaded open to interrupts.
StartImmediate(c, value) ==
    /\ Starts(c, value)
    /\ ~value.dreq /\ value.mode = "immediate"
    /\ control' = [control EXCEPT ![c] = Disabled(value)]
    /\ busy' = <<c, value>>
    /\ Quiet
    /\ UNCHANGED <<flagVars, slotVars, forced, dispStat, hIrq>>

\* Its end.
EndImmediate ==
    /\ busy # None
    /\ event' = "transfer"
    /\ moved' = {busy[1]}
    /\ raised' = IF busy[2].irq THEN {busy[1]} ELSE {}
    /\ busy' = None
    /\ UNCHANGED <<control, flagVars, slotVars, forced, dispStat, hIrq>>

\* Mutant: only what the guest wants reaches the DS.
StoreGuestBitOnly(enabled) ==
    /\ busy = None
    /\ dispStat' = enabled
    /\ hIrq' = enabled
    /\ Quiet
    /\ UNCHANGED <<control, flagVars, slotVars, forced, busy>>

\* emu_regDispStatStore16.
StoreDispStat(enabled) ==
    /\ busy = None
    /\ dispStat' = enabled
    /\ hIrq' = (enabled \/ "hblank" \in forced)
    /\ Quiet
    /\ UNCHANGED <<control, flagVars, slotVars, forced, busy>>

-----------------------------------------------------------------------------
(* Interrupts of the DS.                                                    *)

Once(set) == {c \in set : ~control[c].repeat}

\* What a set of channels does to registers and to the guest's interrupts.
Transfer(occasion, set) ==
    /\ event' = occasion /\ moved' = set
    /\ raised' = {c \in set : control[c].irq}
    /\ control' = [c \in Channels |->
                     IF c \in Once(set) THEN Disabled(control[c]) ELSE control[c]]

\* dma_dmaTransfer of every channel of a set, one after the other: the ones that
\* do not repeat leave both blankings.
BlankTransfers(occasion, set) ==
    /\ Transfer(occasion, set)
    /\ hFlags' = hFlags \ Once(set) /\ vFlags' = vFlags \ Once(set)
    /\ hSlots' = hSlots \ Once(set) /\ vSlots' = vSlots \ Once(set)
    /\ IF Once(set) = {}
       THEN UNCHANGED <<hSkip, hIrq, vJump, forced>>
       ELSE /\ UpdateHBlankIrq /\ UpdateForVBlank
            /\ forced' = Without(forced, "hblank", hFlags')
    /\ UNCHANGED <<sFlags, sSlots, dispStat, busy>>

\* The beam leaves a visible line: emu_hblankIrq, if the DS is told.
HBlank ==
    BlankTransfers("hblank", IF hIrq /\ ~hSkip THEN hSlots ELSE {})

\* emu_vblankIrq.
VBlank ==
    BlankTransfers("vblank", IF vJump THEN vSlots ELSE {})

\* emu_arm7Irq: dma_dmaSound of the channels in a slot that the ARM7 has asked for.
SoundRequests(set) ==
    /\ "arm7" \in forced
    /\ set # {} /\ set \subseteq sSlots
    /\ Transfer("sound", set)
    /\ sFlags' = sFlags \ Once(set)
    /\ sSlots' = sSlots \ Once(set)
    /\ forced' = IF Once(set) = {} THEN forced ELSE Without(forced, "arm7", sFlags')
    /\ UNCHANGED <<hFlags, vFlags, hSlots, vSlots, hSkip, vJump, dispStat, hIrq, busy>>

Next ==
    \/ \E c \in Channels, value \in Controls :
          \/ ChangeControl(c, value)
          \/ Stop(c, value)
          \/ StartRefused(c, value)
          \/ StartHBlank(c, value)
          \/ StartVBlank(c, value)
          \/ StartSound(c, value)
          \/ StartImmediate(c, value)
    \/ EndImmediate
    \/ \E enabled \in BOOLEAN : StoreDispStat(enabled)
    \/ HBlank
    \/ VBlank
    \/ \E set \in SUBSET Sound : SoundRequests(set)

Spec == Init /\ [][Next]_vars

-----------------------------------------------------------------------------
(* Correctness.                                                             *)

\* A channel waits for one thing at most, and the guest sees it enabled exactly
\* while it does: no end of a transfer, no stop and no change of the register
\* leaves a channel half armed (DmaTransfer.c:134-142, 345-363).
OneOccasion ==
    /\ hFlags \intersect vFlags = {}
    /\ (hFlags \union vFlags) \intersect sFlags = {}
    /\ \A c \in Channels : control[c].enabled <=> c \in hFlags \union vFlags \union sFlags

\* The handlers are patched as the flags say: each slot, and each instruction
\* that stands for all slots (DmaTransfer.c:365-393).
SlotsFollowFlags ==
    /\ hSlots = hFlags /\ vSlots = vFlags /\ sSlots = sFlags
    /\ hSkip <=> hFlags = {}
    /\ vJump <=> vFlags # {}

\* The DS is told of an H-blank exactly when a channel waits for it or the guest
\* wants to know, though both change the same bit at different times, and of
\* the ARM7's requests while a sound channel can serve them.
IrqsFollowNeeds ==
    /\ "hblank" \in forced <=> hFlags # {}
    /\ hIrq <=> ("hblank" \in forced \/ dispStat)
    /\ "arm7" \in forced <=> sFlags # {}

\* The channel of an immediate transfer does not wait for anything.
BusyIsIdle == busy # None => ~control[busy[1]].enabled

IndInv == TypeOK /\ OneOccasion /\ SlotsFollowFlags /\ IrqsFollowNeeds /\ BusyIsIdle

\* The channels as a game sees them.
Waits ==
    [c \in Channels |->
        IF c \in hFlags THEN "hblank" ELSE
        IF c \in vFlags THEN "vblank" ELSE
        IF c \in sFlags THEN "sound" ELSE "off"]

Gba == INSTANCE GbaDma WITH waits <- Waits

\* Patched handlers do what the table of channels they stand for would do.
ImplementsGbaDma == Gba!DmaSpec
=============================================================================
