--------------------------- MODULE DmaChannelsProofs ---------------------------
(***************************************************************************)
(* The proofs about DmaChannels: the flags, the patched instructions and     *)
(* the interrupt masks agree after every step, and with them the handlers do *)
(* what the controller of GbaDma does.                                      *)
(***************************************************************************)
EXTENDS DmaChannels, TLAPS

LEMMA DisabledTyped ==
    ASSUME NEW value \in Control
    PROVE  Disabled(value) \in Control /\ ~Disabled(value).enabled
BY DEF Control, Disabled

LEMMA ControlsTyped ==
    ASSUME NEW value \in Controls
    PROVE  /\ value \in Control
           /\ Disabled(value) \in Control
           /\ ~Disabled(value).enabled
<1>1. value \in Control
  BY DmaConstants, Zenon
<1> QED
  BY <1>1, DisabledTyped, Zenon

LEMMA InitInv == Init => IndInv
<1> SUFFICES ASSUME Init PROVE IndInv
  OBVIOUS
<1>1. control \in [Channels -> Control] /\ \A c \in Channels : ~control[c].enabled
  BY DEF Init, Control
<1> QED
  BY <1>1
  DEF Init, IndInv, TypeOK, OneOccasion, SlotsFollowFlags, IrqsFollowNeeds, BusyIsIdle

LEMMA StuttersInv == IndInv /\ UNCHANGED vars => IndInv'
BY DEF IndInv, TypeOK, OneOccasion, SlotsFollowFlags, IrqsFollowNeeds, BusyIsIdle,
       vars, flagVars, slotVars

-----------------------------------------------------------------------------
(* Stores of the guest.                                                     *)

LEMMA ChangeControlInv ==
    ASSUME IndInv, NEW c \in Channels, NEW value \in Controls, ChangeControl(c, value)
    PROVE  IndInv'
BY ControlsTyped
DEF IndInv, TypeOK, OneOccasion, SlotsFollowFlags, IrqsFollowNeeds, BusyIsIdle,
    ChangeControl, Quiet, flagVars, slotVars

LEMMA StopInv ==
    ASSUME IndInv, NEW c \in Channels, NEW value \in Controls, Stop(c, value)
    PROVE  IndInv'
<1>1. TypeOK'
  BY ControlsTyped
  DEF IndInv, TypeOK, Stop, Quiet, UpdateHBlankIrq, UpdateForVBlank, Without
<1>2. OneOccasion' /\ BusyIsIdle'
  BY ControlsTyped DEF IndInv, TypeOK, OneOccasion, BusyIsIdle, Stop
<1>3. SlotsFollowFlags'
  BY DEF IndInv, TypeOK, SlotsFollowFlags, Stop, UpdateHBlankIrq, UpdateForVBlank
<1>4. IrqsFollowNeeds'
  BY DEF IndInv, TypeOK, IrqsFollowNeeds, Stop, UpdateHBlankIrq, Without
<1> QED
  BY <1>1, <1>2, <1>3, <1>4 DEF IndInv

LEMMA StartRefusedInv ==
    ASSUME IndInv, NEW c \in Channels, NEW value \in Controls, StartRefused(c, value)
    PROVE  IndInv'
BY ControlsTyped
DEF IndInv, TypeOK, OneOccasion, SlotsFollowFlags, IrqsFollowNeeds, BusyIsIdle,
    StartRefused, Starts, Quiet, flagVars, slotVars

LEMMA StartHBlankInv ==
    ASSUME IndInv, NEW c \in Channels, NEW value \in Controls, StartHBlank(c, value)
    PROVE  IndInv'
<1>1. TypeOK'
  BY ControlsTyped DEF IndInv, TypeOK, StartHBlank, Quiet
<1>2. OneOccasion' /\ BusyIsIdle'
  BY ControlsTyped DEF IndInv, TypeOK, OneOccasion, BusyIsIdle, StartHBlank, Starts
<1>3. SlotsFollowFlags' /\ IrqsFollowNeeds'
  BY DEF IndInv, TypeOK, SlotsFollowFlags, IrqsFollowNeeds, StartHBlank
<1> QED
  BY <1>1, <1>2, <1>3 DEF IndInv

LEMMA StartVBlankInv ==
    ASSUME IndInv, NEW c \in Channels, NEW value \in Controls, StartVBlank(c, value)
    PROVE  IndInv'
<1>1. TypeOK'
  BY ControlsTyped DEF IndInv, TypeOK, StartVBlank, Quiet
<1>2. OneOccasion' /\ BusyIsIdle'
  BY ControlsTyped DEF IndInv, TypeOK, OneOccasion, BusyIsIdle, StartVBlank, Starts
<1>3. SlotsFollowFlags' /\ IrqsFollowNeeds'
  BY DEF IndInv, TypeOK, SlotsFollowFlags, IrqsFollowNeeds, StartVBlank
<1> QED
  BY <1>1, <1>2, <1>3 DEF IndInv

LEMMA StartSoundInv ==
    ASSUME IndInv, NEW c \in Channels, NEW value \in Controls, StartSound(c, value)
    PROVE  IndInv'
<1>1. TypeOK'
  BY ControlsTyped DEF IndInv, TypeOK, StartSound, Quiet
<1>2. OneOccasion' /\ BusyIsIdle'
  BY ControlsTyped DEF IndInv, TypeOK, OneOccasion, BusyIsIdle, StartSound, Starts
<1>3. SlotsFollowFlags' /\ IrqsFollowNeeds'
  BY DEF IndInv, TypeOK, SlotsFollowFlags, IrqsFollowNeeds, StartSound
<1> QED
  BY <1>1, <1>2, <1>3 DEF IndInv

LEMMA StartImmediateInv ==
    ASSUME IndInv, NEW c \in Channels, NEW value \in Controls, StartImmediate(c, value)
    PROVE  IndInv'
<1>1. busy' = <<c, value>> /\ busy' # None /\ ~control'[c].enabled
  BY ControlsTyped, DmaConstants DEF IndInv, TypeOK, StartImmediate
<1>2. TypeOK'
  BY ControlsTyped DEF IndInv, TypeOK, StartImmediate, Quiet, flagVars, slotVars
<1>3. OneOccasion' /\ BusyIsIdle'
  BY <1>1, ControlsTyped
  DEF IndInv, TypeOK, OneOccasion, BusyIsIdle, StartImmediate, Starts, flagVars
<1>4. SlotsFollowFlags' /\ IrqsFollowNeeds'
  BY DEF IndInv, TypeOK, SlotsFollowFlags, IrqsFollowNeeds, StartImmediate, flagVars,
         slotVars
<1> QED
  BY <1>2, <1>3, <1>4 DEF IndInv

LEMMA EndImmediateInv == IndInv /\ EndImmediate => IndInv'
BY DEF IndInv, TypeOK, OneOccasion, SlotsFollowFlags, IrqsFollowNeeds, BusyIsIdle,
       EndImmediate, flagVars, slotVars

LEMMA StoreDispStatInv ==
    ASSUME IndInv, NEW enabled \in BOOLEAN, StoreDispStat(enabled)
    PROVE  IndInv'
BY DEF IndInv, TypeOK, OneOccasion, SlotsFollowFlags, IrqsFollowNeeds, BusyIsIdle,
       StoreDispStat, Quiet, flagVars, slotVars

-----------------------------------------------------------------------------
(* Interrupts of the DS.                                                    *)

\* Both handlers of a blanking run slots of that blanking, or nothing.
LEMMA BlankTransfersInv ==
    ASSUME IndInv, NEW occasion \in {"hblank", "vblank"}, NEW set \in SUBSET Channels,
           set \subseteq hFlags \/ set \subseteq vFlags, BlankTransfers(occasion, set)
    PROVE  IndInv'
<1>1. /\ Once(set) \subseteq set
      /\ \A c \in Channels : c \in Once(set) => ~control'[c].enabled
      /\ \A c \in Channels : c \notin Once(set) => control'[c] = control[c]
      /\ control' \in [Channels -> Control]
  BY DisabledTyped DEF IndInv, TypeOK, BlankTransfers, Transfer, Once
<1>2. TypeOK'
  BY <1>1
  DEF IndInv, TypeOK, BlankTransfers, Transfer, UpdateHBlankIrq, UpdateForVBlank, Without
<1>3. OneOccasion' /\ BusyIsIdle'
  BY <1>1 DEF IndInv, TypeOK, OneOccasion, BusyIsIdle, BlankTransfers
<1>4. CASE Once(set) = {}
  <2>1. SlotsFollowFlags' /\ IrqsFollowNeeds'
    BY <1>4 DEF IndInv, TypeOK, SlotsFollowFlags, IrqsFollowNeeds, BlankTransfers
  <2> QED
    BY <1>2, <1>3, <2>1 DEF IndInv
<1>5. CASE Once(set) # {}
  <2>1. SlotsFollowFlags'
    BY <1>5
    DEF IndInv, TypeOK, SlotsFollowFlags, BlankTransfers, UpdateHBlankIrq, UpdateForVBlank
  <2>2. IrqsFollowNeeds'
    BY <1>5
    DEF IndInv, TypeOK, IrqsFollowNeeds, BlankTransfers, UpdateHBlankIrq, Without
  <2> QED
    BY <1>2, <1>3, <2>1, <2>2 DEF IndInv
<1> QED
  BY <1>4, <1>5

LEMMA SoundRequestsInv ==
    ASSUME IndInv, NEW set \in SUBSET Sound, SoundRequests(set)
    PROVE  IndInv'
<1>1. /\ Once(set) \subseteq set
      /\ \A c \in Channels : c \in Once(set) => ~control'[c].enabled
      /\ \A c \in Channels : c \notin Once(set) => control'[c] = control[c]
      /\ control' \in [Channels -> Control]
  BY DisabledTyped DEF IndInv, TypeOK, SoundRequests, Transfer, Once
<1>2. TypeOK'
  BY <1>1, DmaConstants DEF IndInv, TypeOK, SoundRequests, Transfer, Without
<1>3. OneOccasion' /\ BusyIsIdle'
  BY <1>1 DEF IndInv, TypeOK, OneOccasion, BusyIsIdle, SlotsFollowFlags, SoundRequests
<1>4. SlotsFollowFlags' /\ IrqsFollowNeeds'
  BY <1>1 DEF IndInv, TypeOK, SlotsFollowFlags, IrqsFollowNeeds, SoundRequests, Without
<1> QED
  BY <1>2, <1>3, <1>4 DEF IndInv

LEMMA NextInv == IndInv /\ [Next]_vars => IndInv'
<1> SUFFICES ASSUME IndInv, [Next]_vars PROVE IndInv'
  OBVIOUS
<1>1. CASE HBlank
  BY <1>1, BlankTransfersInv DEF HBlank, IndInv, TypeOK, SlotsFollowFlags
<1>2. CASE VBlank
  BY <1>2, BlankTransfersInv DEF VBlank, IndInv, TypeOK, SlotsFollowFlags
<1> QED
  BY <1>1, <1>2, ChangeControlInv, StopInv, StartRefusedInv, StartHBlankInv,
     StartVBlankInv, StartSoundInv, StartImmediateInv, EndImmediateInv,
     StoreDispStatInv, SoundRequestsInv, StuttersInv
  DEF Next

\* The inductive invariant.
THEOREM IndInvHolds == Spec => []IndInv
BY InitInv, NextInv, PTL DEF Spec

\* No channel waits for two things, nor is enabled without waiting.
THEOREM OneOccasionHolds == Spec => []OneOccasion
BY IndInvHolds, PTL DEF IndInv

\* The handlers are patched for the channels that wait, and for no others.
THEOREM SlotsAgree == Spec => []SlotsFollowFlags
BY IndInvHolds, PTL DEF IndInv

\* The interrupts of the DS are on for what somebody needs, and for nothing else.
THEOREM IrqsAgree == Spec => []IrqsFollowNeeds
BY IndInvHolds, PTL DEF IndInv
-----------------------------------------------------------------------------
(* The controller that the patched handlers stand for.                      *)

\* What a channel waits for, by its flags; the last is the only case that needs
\* the rest of the invariant.
LEMMA WaitsByFlags ==
    ASSUME IndInv
    PROVE  /\ Gba!Waiting("hblank") = hSlots
           /\ Gba!Waiting("vblank") = vSlots
           /\ Gba!Waiting("sound") = sSlots
           /\ \A c \in Channels : ~control[c].enabled => Waits[c] = "off"
<1>1. Sound \subseteq Channels
  BY DmaConstants
<1> QED
  BY <1>1
  DEF IndInv, TypeOK, OneOccasion, SlotsFollowFlags, Waits, Gba!Waiting

LEMMA QuietStep ==
    ASSUME IndInv, Quiet, UNCHANGED <<control, flagVars>>
    PROVE  Gba!Other
BY DEF Waits, flagVars, Quiet, Gba!Other, Gba!Quiet

\* The stores that start or stop a channel.
LEMMA StoresRefine ==
    ASSUME IndInv, NEW c \in Channels, NEW value \in Controls
    PROVE  /\ ChangeControl(c, value) => Gba!Change(c, value)
           /\ Stop(c, value) => Gba!Stop(c, value)
           /\ StartRefused(c, value) => Gba!Start(c, value, FALSE)
           /\ \/ StartHBlank(c, value) \/ StartVBlank(c, value)
              \/ StartSound(c, value) \/ StartImmediate(c, value)
              => Gba!Start(c, value, TRUE)
<1>1. ASSUME ChangeControl(c, value)
      PROVE  Gba!Change(c, value)
  BY <1>1 DEF ChangeControl, Quiet, flagVars, Waits, Gba!Change, Gba!Quiet
<1>2. ASSUME Stop(c, value)
      PROVE  Gba!Stop(c, value)
  <2>1. Waits' = [Waits EXCEPT ![c] = "off"]
    BY <1>2 DEF Stop, Waits
  <2> QED
    BY <1>2, <2>1 DEF Stop, Quiet, Gba!Stop, Gba!Quiet
<1>3. ASSUME StartRefused(c, value)
      PROVE  Gba!Start(c, value, FALSE)
  <2>1. Waits' = [Waits EXCEPT ![c] = "off"]
    BY <1>3, WaitsByFlags DEF StartRefused, Starts, Waits, flagVars
  <2> QED
    BY <1>3, <2>1
    DEF StartRefused, Starts, Quiet, Disabled, Gba!Start, Gba!Quiet, Gba!Disabled
<1>4. ASSUME StartHBlank(c, value)
      PROVE  Gba!Start(c, value, TRUE)
  <2>1. Waits' = [Waits EXCEPT ![c] = "hblank"] /\ Gba!Occasion(c, value) = "hblank"
    BY <1>4 DEF StartHBlank, Waits, Gba!Occasion
  <2> QED
    BY <1>4, <2>1 DEF StartHBlank, Starts, Quiet, Gba!Start, Gba!Quiet
<1>5. ASSUME StartVBlank(c, value)
      PROVE  Gba!Start(c, value, TRUE)
  <2>1. c \notin hFlags
    BY <1>5 DEF IndInv, OneOccasion, StartVBlank, Starts
  <2>2. Waits' = [Waits EXCEPT ![c] = "vblank"] /\ Gba!Occasion(c, value) = "vblank"
    BY <1>5, <2>1 DEF StartVBlank, Waits, Gba!Occasion
  <2> QED
    BY <1>5, <2>2 DEF StartVBlank, Starts, Quiet, Gba!Start, Gba!Quiet
<1>6. ASSUME StartSound(c, value)
      PROVE  Gba!Start(c, value, TRUE)
  <2>1. c \notin hFlags /\ c \notin vFlags
    BY <1>6 DEF IndInv, OneOccasion, StartSound, Starts
  <2>2. Waits' = [Waits EXCEPT ![c] = "sound"] /\ Gba!Occasion(c, value) = "sound"
    BY <1>6, <2>1 DEF StartSound, Waits, Gba!Occasion
  <2> QED
    BY <1>6, <2>2 DEF StartSound, Starts, Quiet, Gba!Start, Gba!Quiet
<1>7. ASSUME StartImmediate(c, value)
      PROVE  Gba!Start(c, value, TRUE)
  <2>1. Waits' = [Waits EXCEPT ![c] = "off"] /\ Gba!Occasion(c, value) = "off"
    BY <1>7, WaitsByFlags DEF StartImmediate, Starts, Waits, flagVars, Gba!Occasion
  <2> QED
    BY <1>7, <2>1
    DEF StartImmediate, Starts, Quiet, Disabled, Gba!Start, Gba!Quiet, Gba!Disabled
<1> QED
  BY <1>1, <1>2, <1>3, <1>4, <1>5, <1>6, <1>7

\* A handler moves the channels in its slots, and they are those that wait.
LEMMA TransfersRefine ==
    ASSUME IndInv, NEW occasion, NEW set \in SUBSET Channels, Transfer(occasion, set),
           \A c \in Channels : Waits'[c] = IF c \in Once(set) THEN "off" ELSE Waits[c]
    PROVE  Gba!Move(occasion, set)
<1>1. Once(set) = {c \in set : ~control[c].repeat}
  BY DEF Once
<1>2. Waits' = [c \in Channels |-> IF c \in Once(set) THEN "off" ELSE Waits[c]]
  BY DEF Waits
<1> QED
  BY <1>1, <1>2 DEF Transfer, Disabled, Gba!Move, Gba!Disabled

LEMMA BlanksRefine ==
    ASSUME IndInv, NEW occasion \in {"hblank", "vblank"}, NEW set \in SUBSET Channels,
           set \subseteq hFlags \/ set \subseteq vFlags, BlankTransfers(occasion, set)
    PROVE  Gba!Move(occasion, set)
<1>1. Transfer(occasion, set)
  BY DEF BlankTransfers
<1>2. \A c \in Channels : Waits'[c] = IF c \in Once(set) THEN "off" ELSE Waits[c]
  BY DEF IndInv, TypeOK, OneOccasion, BlankTransfers, Waits, Once
<1> QED
  BY <1>1, <1>2, TransfersRefine

LEMMA StepsRefine ==
    ASSUME IndInv, [Next]_vars
    PROVE  [Gba!DmaNext]_(Gba!vars)
<1>1. ASSUME NEW c \in Channels, NEW value \in Controls,
             \/ ChangeControl(c, value) \/ Stop(c, value) \/ StartRefused(c, value)
             \/ StartHBlank(c, value) \/ StartVBlank(c, value)
             \/ StartSound(c, value) \/ StartImmediate(c, value)
      PROVE  Gba!DmaNext
  BY <1>1, StoresRefine DEF Gba!DmaNext
<1>2. ASSUME EndImmediate
      PROVE  Gba!DmaNext
  <2>1. busy[1] \in Channels /\ Waits[busy[1]] = "off"
    BY <1>2, WaitsByFlags DEF EndImmediate, IndInv, TypeOK, BusyIsIdle
  <2>2. UNCHANGED Waits /\ UNCHANGED control
    BY <1>2 DEF EndImmediate, flagVars, Waits
  <2>3. event' = "transfer" /\ moved' = {busy[1]} /\ raised' \in {{}, {busy[1]}}
    BY <1>2 DEF EndImmediate
  <2>4. Gba!Immediate(busy[1])
    BY <2>1, <2>2, <2>3 DEF Gba!Immediate
  <2> QED
    BY <2>1, <2>4 DEF Gba!DmaNext
<1>3. ASSUME NEW enabled \in BOOLEAN, StoreDispStat(enabled)
      PROVE  Gba!DmaNext
  <2>1. Gba!Other
    BY <1>3, QuietStep DEF StoreDispStat
  <2> QED
    BY <2>1 DEF Gba!DmaNext
<1>4. ASSUME HBlank
      PROVE  Gba!DmaNext
  <2>1. BlankTransfers("hblank", hSlots)
    BY <1>4 DEF HBlank, IndInv, SlotsFollowFlags, IrqsFollowNeeds
  <2>2. Gba!Move("hblank", Gba!Waiting("hblank"))
    BY <2>1, BlanksRefine, WaitsByFlags DEF IndInv, TypeOK, SlotsFollowFlags
  <2> QED
    BY <2>2 DEF Gba!DmaNext
<1>5. ASSUME VBlank
      PROVE  Gba!DmaNext
  <2>1. BlankTransfers("vblank", vSlots)
    BY <1>5 DEF VBlank, IndInv, SlotsFollowFlags
  <2>2. Gba!Move("vblank", Gba!Waiting("vblank"))
    BY <2>1, BlanksRefine, WaitsByFlags DEF IndInv, TypeOK, SlotsFollowFlags
  <2> QED
    BY <2>2 DEF Gba!DmaNext
<1>6. ASSUME NEW set \in SUBSET Sound, SoundRequests(set)
      PROVE  Gba!DmaNext
  <2>1. Transfer("sound", set) /\ set \subseteq sSlots /\ set \in SUBSET Channels
    BY <1>6, DmaConstants DEF SoundRequests
  <2>2. \A c \in Channels : Waits'[c] = IF c \in Once(set) THEN "off" ELSE Waits[c]
    BY <1>6, <2>1
    DEF IndInv, TypeOK, OneOccasion, SlotsFollowFlags, SoundRequests, Waits, Once
  <2>3. Gba!Move("sound", set) /\ set \in SUBSET Gba!Waiting("sound")
    BY <2>1, <2>2, TransfersRefine, WaitsByFlags
  <2> QED
    BY <2>3 DEF Gba!DmaNext
<1>7. ASSUME UNCHANGED vars
      PROVE  UNCHANGED Gba!vars
  BY <1>7 DEF vars, flagVars, Waits, Gba!vars
<1> QED
  BY <1>1, <1>2, <1>3, <1>4, <1>5, <1>6, <1>7 DEF Next

\* The handlers that starting and stopping channels patch do what a controller
\* with a table of channels would do.
THEOREM Refinement == Spec => ImplementsGbaDma
<1>1. Init => Gba!DmaInit
  BY DEF Init, Waits, Gba!DmaInit
<1> QED
  BY <1>1, IndInvHolds, StepsRefine, PTL DEF Spec, ImplementsGbaDma, Gba!DmaSpec
=============================================================================
