-------------------------------- MODULE VmCpu --------------------------------
(***************************************************************************)
(* The virtual GBA processor (VirtualMachine/*.s, Emulator/EmuIrqs.s,       *)
(* Peripherals/Interrupts/*.s).  The guest always runs in the DS's user     *)
(* mode, with the DS's interrupts on.  What the guest believes is its       *)
(* status word is a variable, vm_cpsr; the registers of the banks it is not *)
(* using are words in a fixed layout (VMDtcmDefs.inc), moved by ldm and stm *)
(* at offsets of which each handler knows the ones it needs.                *)
(*                                                                         *)
(* Interrupts the guest asked for are delivered by the DS's own interrupt   *)
(* handler, vm_irq.  The DS is only told of a GBA interrupt when REG_IE was *)
(* kept up to date, and an interrupt no device will raise again needs one   *)
(* forced by the geometry engine: emu_updateIrqs does both, and every       *)
(* handler that changes what is deliverable must call it.                  *)
(*                                                                         *)
(* The guest saves no more of a status word than its mode and I; it uses    *)
(* SPSR only in modes that have one, MSR only in modes that may, and does   *)
(* not unmask interrupts in IRQ mode.                                      *)
(***************************************************************************)
EXTENDS Integers

CONSTANTS
    HwIrqs,         \* GBA interrupts that a DS device raises
    EmuIrqs,        \* those the emulator raises itself: bits of vm_emulatedIrqMask
    Required,       \* of HwIrqs, those the emulator needs itself: V-blank
    GxFifo,         \* the DS interrupt of the geometry engine
    Sound,          \* a set of the DS interrupt by which the ARM7 asks for sound data
    Values, Moved, BiosReturn, SwiReturn, InitialValue, ZeroValue,
    GuestPsrs,      \* status words the guest loads into the CPSR
    SavedPsrs,      \* those it loads into an SPSR
    BootPsr, ZeroPsr,
    Masks,          \* what the guest stores to REG_IE and REG_IF
    WrittenRegs,    \* bound: the registers whose content the guest changes
    MaxWrites       \* bound: how often it does, writes an SPSR or executes SWI

Irqs == HwIrqs \union EmuIrqs

Modes == {"usr", "fiq", "irq", "svc", "abt", "und", "sys"}
Banks == Modes \ {"usr"}
Psrs == [mode: Modes, i: BOOLEAN]
Bank(mode) == IF mode = "usr" THEN "sys" ELSE mode

\* The layout of the words: seven of fiq, seven of sys, two of every other bank.
vm_regs == [fiq |-> 0, sys |-> 7, irq |-> 14, svc |-> 16, abt |-> 18, und |-> 20]
Words == 0 .. 21

\* Where sp and lr of a bank are.
SpLr(bank) == IF bank \in {"fiq", "sys"} THEN vm_regs[bank] + 5 ELSE vm_regs[bank]

GuestRegs == 8 .. 14
Registers == ({"fiq", "sys"} \X GuestRegs) \union (Banks \X {13, 14})

Slot(reg) ==
    IF reg[1] \in {"fiq", "sys"} THEN vm_regs[reg[1]] + (reg[2] - 8)
                                 ELSE vm_regs[reg[1]] + (reg[2] - 13)

\* The register that an instruction naming r works on.
Named(mode, r) ==
    IF mode # "fiq" /\ r < 13 THEN <<"sys", r>> ELSE <<Bank(mode), r>>

ASSUME VmConstants ==
    /\ HwIrqs \intersect EmuIrqs = {}
    /\ Required \subseteq HwIrqs
    /\ GxFifo \notin Irqs \union Sound /\ Sound \intersect Irqs = {}
    /\ Moved \in [Values -> Values]
    /\ {BiosReturn, SwiReturn, ZeroValue} \subseteq Values
    /\ InitialValue \in [Registers -> Values]
    /\ GuestPsrs \union SavedPsrs \subseteq Psrs /\ {BootPsr, ZeroPsr} \subseteq Psrs
    /\ \A p \in GuestPsrs \union SavedPsrs \union {BootPsr, ZeroPsr} : p.mode = "irq" => p.i
    /\ Masks \subseteq SUBSET Irqs
    /\ WrittenRegs \subseteq GuestRegs
    /\ MaxWrites \in Nat

VARIABLES
    live,     \* r8 to r14 of the DS's user mode
    words,    \* the registers kept in memory
    cpsr,     \* vm_cpsr
    spsr,     \* vm_spsr_fiq .. vm_spsr_und
    emuIF,    \* IF, IE and IME in vm_emulatedIfImeIe
    ie,
    ime,
    hwMask,   \* vm_hwIrqMask: sources whose enable bit the guest has set
    forced,   \* vm_forcedIrqMask
    hwIF,     \* the DS's REG_IF
    hwIE,     \* the DS's REG_IE
    at,       \* "guest", "handler": in one that may take long, "irq": in vm_irq
    level,    \* vm_nestedIrqLevel
    writes    \* how often the guest did one of these

fileVars == <<live, words>>
psrVars == <<cpsr, spsr>>
ctlVars == <<emuIF, ie, ime, hwMask, forced>>
dsVars == <<hwIF, hwIE>>
vars == <<fileVars, psrVars, ctlVars, dsVars, at, level, writes>>

DsIrqs == HwIrqs \union Sound \union {GxFifo}

TypeOK ==
    /\ live \in [GuestRegs -> Values] /\ words \in [Words -> Values]
    /\ cpsr \in Psrs /\ spsr \in [Banks \ {"sys"} -> Psrs]
    /\ emuIF \subseteq Irqs /\ ie \subseteq Irqs /\ ime \in BOOLEAN
    /\ hwMask \subseteq HwIrqs
    /\ forced \subseteq DsIrqs
    /\ hwIF \subseteq DsIrqs /\ hwIE \subseteq DsIrqs
    /\ at \in {"guest", "handler", "irq"} /\ level \in 0 .. 2
    /\ writes \in 0 .. MaxWrites

-----------------------------------------------------------------------------
(* Moving registers.  A file is [live, words]; a range of registers goes to *)
(* or comes from consecutive words.                                        *)

File == [live |-> live, words |-> words]

Stm(file, base, first, last) ==
    [file EXCEPT !.words = [a \in Words |->
        IF a \in base .. (base + last - first) THEN file.live[first + (a - base)]
                                               ELSE file.words[a]]]

Ldm(file, base, first, last) ==
    [file EXCEPT !.live = [r \in GuestRegs |->
        IF r \in first .. last THEN file.words[base + (r - first)] ELSE file.live[r]]]

\* Mutant: abt and und are taken to follow svc.
AdjacentToSvc == {<<"sys", "irq">>, <<"irq", "svc">>, <<"svc", "abt">>, <<"svc", "und">>}

\* The banks whose words for sp and lr lie next to each other.
Adjacent == {<<"sys", "irq">>, <<"irq", "svc">>, <<"svc", "abt">>, <<"abt", "und">>}

\* Of two banks that only own sp and lr.
SwitchSpLr(file, old, new) ==
    IF <<old, new>> \in Adjacent
    THEN Ldm(Stm(file, vm_regs[new] - 2, 13, 14), vm_regs[new], 13, 14)
    ELSE IF <<new, old>> \in Adjacent
         THEN Ldm(Stm(file, vm_regs[old], 13, 14), vm_regs[old] - 2, 13, 14)
         ELSE Ldm(Stm(file, SpLr(old), 13, 14), SpLr(new), 13, 14)

\* vm_modeSwitch<old>To<new>.
ModeSwitch(file, old, new) ==
    CASE old = new -> file
      [] old = "sys" /\ new = "fiq" ->
           Ldm(Stm(file, vm_regs["sys"], 8, 14), vm_regs["sys"] - 7, 8, 14)
      [] old \notin {"sys", "fiq"} /\ new = "fiq" ->
           Ldm(Stm(Stm(file, vm_regs[old], 13, 14), vm_regs["sys"], 8, 12),
               vm_regs["sys"] - 7, 8, 14)
      [] old = "fiq" /\ new = "sys" ->
           Ldm(Stm(file, vm_regs["sys"] - 7, 8, 14), vm_regs["sys"], 8, 14)
      [] old = "fiq" /\ new \notin {"sys", "fiq"} ->
           Ldm(Ldm(Stm(file, vm_regs["sys"] - 7, 8, 14), vm_regs["sys"], 8, 12),
               vm_regs[new], 13, 14)
      [] old # new /\ old # "fiq" /\ new # "fiq" -> SwitchSpLr(file, old, new)

\* The table of vm_irq that leaves the bank of a mode for irq.
ToIrq(file, old) ==
    CASE old = "sys" -> Ldm(Stm(file, vm_regs["irq"] - 2, 13, 14), vm_regs["irq"], 13, 14)
      [] old = "fiq" ->
           Ldm(Ldm(Stm(file, vm_regs["sys"] - 7, 8, 14), vm_regs["sys"], 8, 12),
               vm_regs["irq"], 13, 14)
      [] old = "irq" -> Ldm(file, vm_regs["irq"] + 1, 14, 14)
      [] old = "svc" ->
           Ldm(Stm(file, vm_regs["svc"], 13, 14), vm_regs["svc"] - 2, 13, 14)
      [] old \in {"abt", "und"} ->
           Ldm(Stm(file, vm_regs[old], 13, 14), vm_regs["irq"], 13, 14)

\* The table of vm_swi that leaves the bank of a mode for svc.
ToSvc(file, old) ==
    CASE old = "sys" ->
           Ldm(Stm(file, vm_regs["sys"] + 5, 13, 14), vm_regs["svc"], 13, 14)
      [] old = "fiq" ->
           Ldm(Ldm(Stm(file, vm_regs["sys"] - 7, 8, 14), vm_regs["sys"], 8, 12),
               vm_regs["svc"], 13, 14)
      [] old = "irq" ->
           Ldm(Stm(file, vm_regs["svc"] - 2, 13, 14), vm_regs["svc"], 13, 14)
      [] old = "svc" -> Ldm(file, vm_regs["svc"] + 1, 14, 14)
      [] old \in {"abt", "und"} ->
           Ldm(Stm(file, vm_regs[old], 13, 14), vm_regs["svc"], 13, 14)

SetFile(file) == live' = file.live /\ words' = file.words

-----------------------------------------------------------------------------
(* Interrupts.                                                             *)

\* Mutant: I does not mask.
WantedUnmasked(psr, enabled, master) == IF ~master THEN {} ELSE enabled

\* What the guest may be interrupted for.
Wanted(psr, enabled, master) == IF psr.i \/ ~master THEN {} ELSE enabled

\* Mutant: a pending request is not announced.
UpdateIrqsQuietly(psr, requests, enabled, master, required, dsIF) ==
    /\ hwIE' = required \union (Wanted(psr, enabled, master) \intersect HwIrqs)
    /\ hwIF' = dsIF

\* emu_updateIrqs: REG_IE follows what the guest wants, and a request that is
\* pending already is announced by the geometry engine.
UpdateIrqs(psr, requests, enabled, master, required, dsIF) ==
    LET wanted == Wanted(psr, enabled, master)
    IN /\ hwIE' = required \union (wanted \intersect HwIrqs)
       /\ hwIF' = dsIF \union (IF wanted \intersect requests # {} THEN {GxFifo} ELSE {})

\* What the guest reads from REG_IF.
GuestIF == emuIF \union ((hwIF \intersect HwIrqs) \ forced)

\* The device bits that an acknowledgement by the guest clears in the DS's REG_IF.
Passed(acked) == (acked \intersect HwIrqs) \ forced

Init ==
    LET owned == {Named(BootPsr.mode, r) : r \in GuestRegs}
        home(a) == CHOOSE reg \in Registers : Slot(reg) = a
    IN /\ live = [r \in GuestRegs |-> InitialValue[Named(BootPsr.mode, r)]]
       /\ words = [a \in Words |-> IF home(a) \in owned THEN ZeroValue
                                                        ELSE InitialValue[home(a)]]
       /\ cpsr = BootPsr
       /\ spsr = [b \in Banks \ {"sys"} |-> ZeroPsr]
       /\ emuIF = {} /\ ie = {} /\ ime = FALSE /\ hwMask = {}
       /\ forced = Required \union {GxFifo}
       /\ hwIF = {} /\ hwIE = forced
       /\ at = "guest" /\ level = 0
       /\ writes = 0

-----------------------------------------------------------------------------
(* The guest's instructions.                                               *)

\* An instruction the DS executes itself.
Write(r) ==
    /\ at = "guest" /\ writes < MaxWrites
    /\ live' = [live EXCEPT ![r] = Moved[@]]
    /\ writes' = writes + 1
    /\ UNCHANGED <<words, psrVars, ctlVars, dsVars, at, level>>

\* vm_updateCpsr: the new word is in place before the registers are moved.
MsrCpsr(p) ==
    /\ at = "guest" /\ cpsr.mode # "usr"
    /\ cpsr' = p
    /\ SetFile(ModeSwitch(File, Bank(cpsr.mode), Bank(p.mode)))
    /\ UpdateIrqs(p, emuIF, ie, ime, forced, hwIF)
    /\ UNCHANGED <<spsr, ctlVars, at, level, writes>>

\* vm_updateSpsr.
MsrSpsr(p) ==
    /\ at = "guest" /\ cpsr.mode \in DOMAIN spsr
    /\ writes < MaxWrites
    /\ spsr' = [spsr EXCEPT ![cpsr.mode] = p]
    /\ writes' = writes + 1
    /\ UNCHANGED <<fileVars, cpsr, ctlVars, dsVars, at, level>>

\* vm_armUndefinedAluSPCImm: subs pc, lr, #imm.
ExceptionReturn ==
    /\ at = "guest" /\ cpsr.mode \in DOMAIN spsr
    /\ cpsr' = spsr[cpsr.mode]
    /\ SetFile(ModeSwitch(File, Bank(cpsr.mode), Bank(spsr[cpsr.mode].mode)))
    /\ UpdateIrqs(spsr[cpsr.mode], emuIF, ie, ime, forced, hwIF)
    /\ UNCHANGED <<spsr, ctlVars, at, level, writes>>

\* vm_swi.  REG_IE is left as it is.
Swi ==
    LET entered == [File EXCEPT !.words[vm_regs["svc"] + 1] = SwiReturn]
    IN /\ at = "guest" /\ writes < MaxWrites
       /\ spsr' = [spsr EXCEPT !["svc"] = cpsr]
       /\ cpsr' = [mode |-> "svc", i |-> TRUE]
       /\ SetFile(ToSvc(entered, Bank(cpsr.mode)))
       /\ writes' = writes + 1
       /\ UNCHANGED <<ctlVars, dsVars, at, level>>

-----------------------------------------------------------------------------
(* Stores to the registers of the interrupt controller and of its sources. *)

\* emu_regIeIfStore32, also for a store to REG_IE alone.
StoreIeIf(enabled, acked) ==
    /\ at = "guest"
    /\ ie' = enabled
    /\ emuIF' = emuIF \ acked
    /\ UpdateIrqs(cpsr, emuIF \ acked, enabled, ime, forced, hwIF \ Passed(acked))
    /\ UNCHANGED <<fileVars, psrVars, ime, hwMask, forced, at, level, writes>>

\* emu_regIfStore16.
StoreIf(acked) ==
    /\ at = "guest"
    /\ emuIF' = emuIF \ acked
    /\ hwIF' = hwIF \ Passed(acked)
    /\ UNCHANGED <<fileVars, psrVars, ie, ime, hwMask, forced, hwIE, at, level, writes>>

\* emu_regImeStore16.
StoreIme(enabled) ==
    /\ at = "guest"
    /\ ime' = enabled
    /\ UpdateIrqs(cpsr, emuIF, ie, enabled, forced, hwIF)
    /\ UNCHANGED <<fileVars, psrVars, emuIF, ie, hwMask, forced, at, level, writes>>

\* The enable bit of a source in REG_DISPSTAT, REG_TMxCNT or REG_KEYCNT.
StoreEnable(irq, enabled) ==
    /\ at = "guest"
    /\ hwMask' = IF enabled THEN hwMask \union {irq} ELSE hwMask \ {irq}
    /\ UNCHANGED <<fileVars, psrVars, emuIF, ie, ime, forced, dsVars, at, level, writes>>

\* A store that makes the emulator raise an interrupt before it returns: a DMA
\* that was carried out at once, a transfer on the serial port.
StoreRaises(irq) ==
    /\ at = "guest"
    /\ emuIF' = emuIF \union {irq}
    /\ UpdateIrqs(cpsr, emuIF \union {irq}, ie, ime, forced, hwIF)
    /\ UNCHANGED <<fileVars, psrVars, ie, ime, hwMask, forced, at, level, writes>>

\* A store that starts or stops the DMA of a sound channel.
StoreSoundDma(started) ==
    /\ at = "guest"
    /\ forced' = IF started THEN forced \union Sound ELSE forced \ Sound
    /\ UpdateIrqs(cpsr, emuIF, ie, ime, forced', hwIF)
    /\ UNCHANGED <<fileVars, psrVars, emuIF, ie, ime, hwMask, at, level, writes>>

-----------------------------------------------------------------------------
(* Handlers that let the DS's interrupts in while they work: a DMA of       *)
(* channel 3, the fetch of a block of the ROM, a transfer of the save file. *)

\* vm_enableNestedIrqs makes vm_irq always return where it would look at the
\* guest's interrupts.
BeginAccess ==
    /\ at = "guest"
    /\ at' = "handler"
    /\ level' = 1
    /\ UNCHANGED <<fileVars, psrVars, ctlVars, dsVars, writes>>

\* The DMA has to fetch a block.
Nest ==
    /\ at = "handler" /\ level = 1
    /\ level' = 2
    /\ UNCHANGED <<fileVars, psrVars, ctlVars, dsVars, at, writes>>

Unnest ==
    /\ at = "handler" /\ level = 2
    /\ level' = 1
    /\ UNCHANGED <<fileVars, psrVars, ctlVars, dsVars, at, writes>>

\* vm_disableNestedIrqs, and the interrupt of the DMA when it asked for one.
EndAccess(raised) ==
    /\ at = "handler" /\ level = 1
    /\ level' = 0
    /\ at' = "guest"
    /\ emuIF' = emuIF \union raised
    /\ UpdateIrqs(cpsr, emuIF \union raised, ie, ime, forced, hwIF)
    /\ UNCHANGED <<fileVars, psrVars, ie, ime, hwMask, forced, writes>>

-----------------------------------------------------------------------------
(* The DS.                                                                 *)

\* A device raises an interrupt: those the emulator needs always, the others
\* only when the guest has enabled them, which enables them in the DS.
Device(irq) ==
    /\ irq \in (Required \union hwMask \union Sound) \ hwIF
    /\ hwIF' = hwIF \union {irq}
    /\ UNCHANGED <<fileVars, psrVars, ctlVars, hwIE, at, level, writes>>

\* The DMA that an interrupt of the DS starts: that of a sound channel, which
\* may have been its last, or one at V-blank.  Each may raise its interrupt.
Emulation ==
    /\ \E raised \in SUBSET EmuIrqs :
           /\ raised # {} => hwIF \intersect (Required \union (Sound \intersect forced)) # {}
           /\ emuIF' = emuIF \union raised \union (hwIF \intersect hwMask)
    /\ forced' \in {forced, forced \ (hwIF \intersect Sound)}

\* Mutant: vm_irq does not return to the handler.
GatherAnywhere ==
    /\ at \in {"guest", "handler"} /\ at' = "irq"
    /\ hwIF \intersect hwIE # {}
    /\ hwIF' = {}
    /\ Emulation
    /\ UNCHANGED <<fileVars, psrVars, ie, ime, hwMask, hwIE, level, writes>>

\* vm_irq up to vm_irqReturnForNestedIrq: everything pending is acknowledged,
\* and what the guest enabled is added to its REG_IF.
Gather ==
    /\ \/ at = "guest" /\ at' = "irq"
       \/ at = "handler" /\ at' = "handler"
    /\ hwIF \intersect hwIE # {}
    /\ hwIF' = {}
    /\ Emulation
    /\ UNCHANGED <<fileVars, psrVars, ie, ime, hwMask, hwIE, level, writes>>

\* The guest does not want any of it.
Resume ==
    /\ at = "irq"
    /\ Wanted(cpsr, ie, ime) \intersect emuIF = {}
    /\ at' = "guest"
    /\ UNCHANGED <<fileVars, psrVars, ctlVars, dsVars, level, writes>>

\* The rest of vm_irq, up to the jump to the guest's handler.
Enter ==
    LET sp == Moved[words[vm_regs["irq"]]]
        entered == [File EXCEPT !.words[vm_regs["irq"]] = sp,
                                !.words[vm_regs["irq"] + 1] = BiosReturn]
    IN /\ at = "irq"
       /\ Wanted(cpsr, ie, ime) \intersect emuIF # {}
       /\ spsr' = [spsr EXCEPT !["irq"] = cpsr]
       /\ hwIE' = forced
       /\ cpsr' = [mode |-> "irq", i |-> TRUE]
       /\ SetFile(ToIrq(entered, Bank(cpsr.mode)))
       /\ at' = "guest"
       /\ UNCHANGED <<ctlVars, hwIF, level, writes>>

Next ==
    \/ \E r \in WrittenRegs : Write(r)
    \/ \E p \in GuestPsrs : MsrCpsr(p)
    \/ \E p \in SavedPsrs : MsrSpsr(p)
    \/ ExceptionReturn
    \/ Swi
    \/ \E enabled, acked \in Masks : StoreIeIf(enabled, acked)
    \/ \E acked \in Masks : StoreIf(acked)
    \/ \E enabled \in BOOLEAN : StoreIme(enabled) \/ StoreSoundDma(enabled)
    \/ \E irq \in HwIrqs, enabled \in BOOLEAN : StoreEnable(irq, enabled)
    \/ \E irq \in EmuIrqs : StoreRaises(irq)
    \/ BeginAccess \/ Nest \/ Unnest
    \/ \E raised \in SUBSET EmuIrqs : EndAccess(raised)
    \/ \E irq \in HwIrqs \union Sound : Device(irq)
    \/ Gather \/ Resume \/ Enter

\* A handler ends, vm_irq ends, and the DS takes an interrupt that stays pending
\* between the instructions of the guest.
Fairness ==
    /\ SF_vars(at = "guest" /\ Gather)
    /\ WF_vars(Resume \/ Enter)
    /\ WF_vars(Unnest)
    /\ SF_vars(\E raised \in SUBSET EmuIrqs : EndAccess(raised))

Spec == Init /\ [][Next]_vars /\ Fairness

-----------------------------------------------------------------------------
(* Correctness.                                                            *)

\* Every device whose interrupt the guest could be given is enabled in the DS, and
\* so is everything the emulator needs, the geometry engine included.
EnabledInDs ==
    /\ Required \union {GxFifo} \subseteq forced
    /\ forced \union (Wanted(cpsr, ie, ime) \intersect HwIrqs) \subseteq hwIE

\* No interrupt is lost: while the guest runs with a request it is to be given,
\* the DS has an interrupt pending that will bring it to vm_irq (EmuIrqs.s:7-9:
\* "such that the irq handler will automatically be called again as soon as
\* irqs are turned back on").
PendingIsLatched ==
    at = "guest" /\ Wanted(cpsr, ie, ime) \intersect GuestIF # {}
        => hwIF \intersect hwIE # {}

\* What makes that inductive: a request already in vm_emulatedIfImeIe is announced
\* by the geometry engine itself, which no acknowledgement of the guest clears.
Announced ==
    at = "guest" /\ Wanted(cpsr, ie, ime) \intersect emuIF # {} => GxFifo \in hwIF

IndInv == TypeOK /\ EnabledInDs /\ Announced

\* What the refinement needs besides: the guest runs in IRQ mode with interrupts
\* masked, so vm_irq never pushes a second frame while the first is in use.
MaskedInIrq ==
    /\ cpsr.mode = "irq" => cpsr.i
    /\ \A b \in DOMAIN spsr : spsr[b].mode = "irq" => spsr[b].i

\* While a handler has let interrupts in, whatever they are, the guest is not made to
\* take one: the registers the handler was called with are still the guest's.
HandlersKeepTheGuest ==
    [][level > 0 => UNCHANGED <<fileVars, psrVars>>]_vars

\* A request that is pending stays pending until the guest acknowledges it or has
\* disabled its source, whatever the DS acknowledges meanwhile.
RequestsStay ==
    [][\A irq \in emuIF \union (hwIF \intersect hwMask) :
          \/ irq \in emuIF' \union (hwIF' \intersect hwMask')
          \/ irq \notin hwMask' \union EmuIrqs
          \/ \E acked \in Masks :
                irq \in acked /\ (StoreIf(acked) \/ \E e \in Masks : StoreIeIf(e, acked))]_vars

\* A request the guest is to be given is given, or is withdrawn.
RequestsAreDelivered ==
    Wanted(cpsr, ie, ime) \intersect emuIF # {} ~> Wanted(cpsr, ie, ime) \intersect emuIF = {}

-----------------------------------------------------------------------------
(* The machine the guest believes to run on.                               *)

\* The value of a register of the GBA.
Register(reg) ==
    IF Named(cpsr.mode, reg[2]) = reg THEN live[reg[2]] ELSE words[Slot(reg)]

GbaRegs == [reg \in Registers |-> Register(reg)]
Sources == hwMask \union EmuIrqs

Gba == INSTANCE GbaCpu WITH
    regs <- GbaRegs,
    psr <- cpsr,
    saved <- spsr,
    pend <- GuestIF,
    ie <- ie,
    ime <- ime,
    on <- Sources

\* The guest cannot tell the virtual processor from a GBA's: each of its steps is
\* that of the GBA, and everything the emulator does between is invisible.
ImplementsGbaCpu == Gba!CpuSpec

=============================================================================
