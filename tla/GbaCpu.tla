------------------------------- MODULE GbaCpu -------------------------------
(***************************************************************************)
(* What a GBA gives the program that runs on it: the banked registers of an *)
(* ARM7TDMI, its status words, and the interrupt controller.  Of a status   *)
(* word only the mode and the mask bit I are kept.  Every bank owns the     *)
(* registers it does not share.  An interrupt is taken with the             *)
(* prologue of the BIOS: a frame is pushed on the stack of IRQ mode and the *)
(* link register points into the BIOS.                                     *)
(***************************************************************************)
EXTENDS Integers

CONSTANTS
    Irqs,           \* interrupt sources the GBA has
    Values,         \* register values
    Moved,          \* [Values -> Values]: the stack pointer after a frame is pushed
    BiosReturn,     \* link register of an interrupt
    SwiReturn,      \* link register of a SWI
    InitialValue,   \* what each register holds at first
    BootPsr,        \* the status word the program starts with
    ZeroPsr         \* what the saved status words hold at first

Modes == {"usr", "fiq", "irq", "svc", "abt", "und", "sys"}
Banks == Modes \ {"usr"}
Psrs == [mode: Modes, i: BOOLEAN]

\* usr mode works on the registers of sys.
Bank(mode) == IF mode = "usr" THEN "sys" ELSE mode

\* r8 to r12 exist twice, sp (13) and lr (14) once for each bank.
Registers == ({"fiq", "sys"} \X (8 .. 14)) \union (Banks \X {13, 14})

\* The register an instruction that names r means in a mode.
Named(mode, r) ==
    IF mode # "fiq" /\ r < 13 THEN <<"sys", r>> ELSE <<Bank(mode), r>>

VARIABLES
    regs,     \* [Registers -> Values]
    psr,      \* the CPSR
    saved,    \* the SPSR of each bank that has one
    pend,     \* the requests, REG_IF
    ie,       \* those the program wants, REG_IE
    ime,      \* whether it wants any, REG_IME
    on        \* the sources whose own enable bit is set

cpuVars == <<psr, saved, regs>>
irqVars == <<pend, ie, ime, on>>

CpuInit ==
    /\ regs = InitialValue
    /\ psr = BootPsr
    /\ saved = [b \in Banks \ {"sys"} |-> ZeroPsr]
    /\ pend = {} /\ ie = {} /\ ime = FALSE
    /\ on \subseteq Irqs

-----------------------------------------------------------------------------
(* What instructions and interrupts do to the processor.                   *)

\* A register gets another value.
Write(r) ==
    /\ UNCHANGED <<psr, saved>>
    /\ regs' = [regs EXCEPT ![Named(psr.mode, r)] = Moved[@]]

MsrCpsr ==
    /\ psr.mode # "usr"
    /\ psr' \in Psrs
    /\ UNCHANGED <<saved, regs>>

MsrSpsr ==
    /\ psr.mode \in DOMAIN saved
    /\ UNCHANGED <<psr, regs>>
    /\ \E p \in Psrs : saved' = [saved EXCEPT ![psr.mode] = p]

ExceptionReturn ==
    /\ psr.mode \in DOMAIN saved
    /\ psr' = saved[psr.mode]
    /\ UNCHANGED <<saved, regs>>

Swi ==
    /\ saved' = [saved EXCEPT !["svc"] = psr]
    /\ psr' = [mode |-> "svc", i |-> TRUE]
    /\ regs' = [regs EXCEPT ![<<"svc", 14>>] = SwiReturn]

Deliverable == ime /\ ~psr.i /\ pend \intersect ie # {}

Interrupt ==
    /\ Deliverable
    /\ saved' = [saved EXCEPT !["irq"] = psr]
    /\ psr' = [mode |-> "irq", i |-> TRUE]
    /\ regs' = [regs EXCEPT ![<<"irq", 13>>] = Moved[@], ![<<"irq", 14>>] = BiosReturn]

Processor ==
    \/ MsrCpsr \/ MsrSpsr
    \/ ExceptionReturn
    \/ Swi
    \/ Interrupt
    \/ \E r \in 8 .. 14 : Write(r)

-----------------------------------------------------------------------------
(* What stores and devices do to the interrupt controller.                 *)

StoreIeIf ==
    /\ ie' \in SUBSET Irqs
    /\ \E acked \in SUBSET Irqs : pend' = pend \ acked
    /\ UNCHANGED <<ime, on>>

StoreIme ==
    /\ ime' \in BOOLEAN
    /\ UNCHANGED <<pend, ie, on>>

StoreEnable ==
    /\ on' \in SUBSET Irqs
    /\ UNCHANGED <<pend, ie, ime>>

\* Sources that are on make requests.  A request whose source was switched
\* off meanwhile may vanish: a GBA would keep it.
Hardware ==
    /\ UNCHANGED <<ie, ime, on>>
    /\ \E raised \in SUBSET on, dropped \in SUBSET (Irqs \ on) :
           pend' = (pend \ dropped) \union raised

Controller == StoreIeIf \/ StoreIme \/ StoreEnable \/ Hardware

CpuNext ==
    \/ UNCHANGED cpuVars /\ Controller
    \/ UNCHANGED irqVars /\ Processor

CpuSpec == CpuInit /\ [][CpuNext]_<<cpuVars, irqVars>>

=============================================================================
