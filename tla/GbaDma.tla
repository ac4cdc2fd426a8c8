-------------------------------- MODULE GbaDma --------------------------------
(***************************************************************************)
(* What the emulated DMA controller promises a game: a channel that is       *)
(* started waits for the occasion its control register named at that moment, *)
(* moves a block on each of them, and stops after the first unless it        *)
(* repeats; no channel disturbs another.                                    *)
(***************************************************************************)
CONSTANTS Channels, Sound, Controls

VARIABLES
    control,  \* the control registers as the game reads them
    waits,    \* what each channel waits for: "hblank", "vblank", "sound", "off"
    event,    \* what happened last: an occasion, "transfer" or "store"
    moved,    \* the channels that moved a block in the last step
    raised    \* the channels that asked for an interrupt in the last step

vars == <<control, waits, event, moved, raised>>

Disabled(value) == [value EXCEPT !.enabled = FALSE]

Occasion(c, value) ==
    CASE value.dreq \/ value.mode = "immediate" -> "off"
      [] ~value.dreq /\ value.mode = "special" -> IF c \in Sound THEN "sound" ELSE "off"
      [] ~value.dreq /\ value.mode \in {"hblank", "vblank"} -> value.mode

DmaInit ==
    /\ waits = [c \in Channels |-> "off"]
    /\ \A c \in Channels : ~control[c].enabled
    /\ event = "store" /\ moved = {} /\ raised = {}

Quiet == event' = "store" /\ moved' = {} /\ raised' = {}

\* A store that does not change the enable bit.
Change(c, value) ==
    /\ value.enabled = control[c].enabled
    /\ control' = [control EXCEPT ![c] = value]
    /\ Quiet /\ UNCHANGED waits

Stop(c, value) ==
    /\ control[c].enabled /\ ~value.enabled
    /\ control' = [control EXCEPT ![c] = value]
    /\ waits' = [waits EXCEPT ![c] = "off"]
    /\ Quiet

\* The channel waits, unless its source is not one a waiting channel can have.
Start(c, value, usable) ==
    /\ ~control[c].enabled /\ value.enabled
    /\ LET occasion == IF usable THEN Occasion(c, value) ELSE "off"
       IN /\ waits' = [waits EXCEPT ![c] = occasion]
          /\ control' = [control EXCEPT ![c] =
                IF occasion = "off" THEN Disabled(value) ELSE value]
    /\ Quiet

\* A transfer that did not have to wait is over.
Immediate(c) ==
    /\ waits[c] = "off"
    /\ event' = "transfer" /\ moved' = {c} /\ raised' \in {{}, {c}}
    /\ UNCHANGED <<control, waits>>

\* The channels of a set move a block; those that do not repeat are done.
Move(occasion, set) ==
    LET done == {c \in set : ~control[c].repeat}
    IN /\ event' = occasion /\ moved' = set
       /\ raised' = {c \in set : control[c].irq}
       /\ control' = [c \in Channels |-> IF c \in done THEN Disabled(control[c])
                                                       ELSE control[c]]
       /\ waits' = [c \in Channels |-> IF c \in done THEN "off" ELSE waits[c]]

Waiting(occasion) == {c \in Channels : waits[c] = occasion}

\* A store to a register that does not belong to the controller.
Other == Quiet /\ UNCHANGED <<control, waits>>

\* A blanking reaches every channel that waits for it, without exception; sound,
\* those whose FIFO has asked for data.
DmaNext ==
    \/ \E c \in Channels, value \in Controls :
          \/ Change(c, value)
          \/ Stop(c, value)
          \/ \E usable \in BOOLEAN : Start(c, value, usable)
    \/ \E c \in Channels : Immediate(c)
    \/ Other
    \/ \E occasion \in {"hblank", "vblank"} : Move(occasion, Waiting(occasion))
    \/ \E set \in SUBSET Waiting("sound") : Move("sound", set)

DmaSpec == DmaInit /\ [][DmaNext]_vars
=============================================================================
