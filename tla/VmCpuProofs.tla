---------------------------- MODULE VmCpuProofs ----------------------------
(* The virtual processor keeps its types, keeps the DS's interrupts enabled   *)
(* and announced as the guest needs them, never takes the guest out of a      *)
(* handler, loses no request, and is a GBA's processor to the guest, for any  *)
(* sets of interrupts, register values, status words and masks, and for runs  *)
(* of any length.                                                            *)
EXTENDS VmCpu, TLAPS

-----------------------------------------------------------------------------
(* Registers and words.                                                      *)

Files == [live: [GuestRegs -> Values], words: [Words -> Values]]

\* Storing some of the guest's registers leaves values in every word.
LEMMA StmFiles ==
    ASSUME NEW file \in Files, NEW base \in Int, NEW first \in GuestRegs, NEW last \in GuestRegs
    PROVE  Stm(file, base, first, last) \in Files
<1>1. \A a \in Words : a \in base .. (base + last - first)
          => first + (a - base) \in GuestRegs
  BY DEF GuestRegs, Words
<1>2. file.live \in [GuestRegs -> Values] /\ file.words \in [Words -> Values]
  BY DEF Files
<1>3. [a \in Words |-> IF a \in base .. (base + last - first)
                       THEN file.live[first + (a - base)] ELSE file.words[a]]
          \in [Words -> Values]
  BY <1>1, <1>2
<1> QED BY <1>2, <1>3 DEF Stm, Files

\* Loading registers from words that exist leaves values in every register.
LEMMA LdmFiles ==
    ASSUME NEW file \in Files, NEW base \in Int, NEW first \in GuestRegs, NEW last \in GuestRegs,
           base >= 0, base + (last - first) <= 21
    PROVE  Ldm(file, base, first, last) \in Files
<1>1. \A r \in GuestRegs : r \in first .. last => base + (r - first) \in Words
  BY DEF GuestRegs, Words
<1>2. file.live \in [GuestRegs -> Values] /\ file.words \in [Words -> Values]
  BY DEF Files
<1>3. [r \in GuestRegs |-> IF r \in first .. last
                           THEN file.words[base + (r - first)] ELSE file.live[r]]
          \in [GuestRegs -> Values]
  BY <1>1, <1>2
<1> QED BY <1>2, <1>3 DEF Ldm, Files

\* Where the words of the banks are.
LEMMA Layout ==
    /\ vm_regs["fiq"] = 0 /\ vm_regs["sys"] = 7 /\ vm_regs["irq"] = 14
    /\ vm_regs["svc"] = 16 /\ vm_regs["abt"] = 18 /\ vm_regs["und"] = 20
BY DEF vm_regs

LEMMA BaseInWords == ASSUME NEW bank \in Banks PROVE vm_regs[bank] \in 0 .. 20
BY Layout DEF Banks, Modes

LEMMA SpLrInWords == ASSUME NEW bank \in Banks PROVE SpLr(bank) \in 0 .. 20
<1>1. CASE bank \in {"fiq", "sys"}
  BY <1>1, Layout DEF SpLr
<1>2. CASE bank \notin {"fiq", "sys"}
  BY <1>2, BaseInWords DEF SpLr
<1> QED BY <1>1, <1>2

LEMMA NumbersOfRegs == {8, 12, 13, 14} \subseteq GuestRegs
BY DEF GuestRegs

LEMMA BankIsBank == ASSUME NEW p \in Psrs PROVE Bank(p.mode) \in Banks
BY DEF Psrs, Modes, Banks, Bank

\* A switch is one or two stores and one or two loads.
LEMMA StmLdmFiles ==
    ASSUME NEW file \in Files, NEW to, to \in Int, NEW from, from \in 0 .. 20
    PROVE  /\ Ldm(Stm(file, to, 13, 14), from, 13, 14) \in Files
           /\ Ldm(Stm(file, to, 8, 14), 0, 8, 14) \in Files
           /\ Ldm(Stm(file, to, 8, 14), 7, 8, 14) \in Files
           /\ Ldm(Stm(Stm(file, to, 13, 14), 7, 8, 12), 0, 8, 14) \in Files
           /\ Ldm(Ldm(Stm(file, to, 8, 14), 7, 8, 12), from, 13, 14) \in Files
<1>1. Stm(file, to, 13, 14) \in Files
  BY StmFiles, NumbersOfRegs
<1>2. Stm(file, to, 8, 14) \in Files
  BY StmFiles, NumbersOfRegs
<1>3. Ldm(Stm(file, to, 13, 14), from, 13, 14) \in Files
  BY <1>1, LdmFiles, NumbersOfRegs
<1>4. Ldm(Stm(file, to, 8, 14), 0, 8, 14) \in Files
  BY <1>2, LdmFiles, NumbersOfRegs
<1>5. Ldm(Stm(file, to, 8, 14), 7, 8, 14) \in Files
  BY <1>2, LdmFiles, NumbersOfRegs
<1>6. Ldm(Stm(Stm(file, to, 13, 14), 7, 8, 12), 0, 8, 14) \in Files
  <2>1. Stm(Stm(file, to, 13, 14), 7, 8, 12) \in Files
    BY <1>1, StmFiles, NumbersOfRegs
  <2> QED BY <2>1, LdmFiles, NumbersOfRegs
<1>7. Ldm(Ldm(Stm(file, to, 8, 14), 7, 8, 12), from, 13, 14) \in Files
  <2>1. Ldm(Stm(file, to, 8, 14), 7, 8, 12) \in Files
    BY <1>2, LdmFiles, NumbersOfRegs
  <2> QED BY <2>1, LdmFiles, NumbersOfRegs
<1> QED BY <1>3, <1>4, <1>5, <1>6, <1>7

LEMMA ModeSwitchFiles ==
    ASSUME NEW file \in Files, NEW old \in Banks, NEW new \in Banks
    PROVE  ModeSwitch(file, old, new) \in Files
<1>1. /\ vm_regs["sys"] = 7 /\ vm_regs["sys"] - 7 = 0
      /\ vm_regs[old] \in 0 .. 20 /\ vm_regs[new] \in 0 .. 20
      /\ SpLr(old) \in 0 .. 20 /\ SpLr(new) \in 0 .. 20
  BY Layout, BaseInWords, SpLrInWords
<1>2. /\ vm_regs[old] \in Int /\ vm_regs[new] \in Int /\ SpLr(old) \in Int
      /\ vm_regs[old] - 2 \in Int /\ vm_regs[new] - 2 \in Int
  BY <1>1
<1>3. CASE old = new
  BY <1>3 DEF ModeSwitch
<1>4. CASE old = "sys" /\ new = "fiq"
  <2>1. ModeSwitch(file, old, new) = Ldm(Stm(file, 7, 8, 14), 0, 8, 14)
    BY <1>1, <1>4 DEF ModeSwitch
  <2> QED BY <2>1, StmLdmFiles
<1>5. CASE old \notin {"sys", "fiq"} /\ new = "fiq"
  <2>1. ModeSwitch(file, old, new)
            = Ldm(Stm(Stm(file, vm_regs[old], 13, 14), 7, 8, 12), 0, 8, 14)
    BY <1>1, <1>5 DEF ModeSwitch
  <2> QED BY <1>1, <1>2, <2>1, StmLdmFiles
<1>6. CASE old = "fiq" /\ new = "sys"
  <2>1. ModeSwitch(file, old, new) = Ldm(Stm(file, 0, 8, 14), 7, 8, 14)
    BY <1>1, <1>6 DEF ModeSwitch
  <2> QED BY <2>1, StmLdmFiles
<1>7. CASE old = "fiq" /\ new \notin {"sys", "fiq"}
  <2>1. ModeSwitch(file, old, new)
            = Ldm(Ldm(Stm(file, 0, 8, 14), 7, 8, 12), vm_regs[new], 13, 14)
    BY <1>1, <1>7 DEF ModeSwitch
  <2> QED BY <1>1, <1>2, <2>1, StmLdmFiles
<1>8. CASE old # new /\ old # "fiq" /\ new # "fiq" /\ <<old, new>> \in Adjacent
  <2>1. ModeSwitch(file, old, new)
            = Ldm(Stm(file, vm_regs[new] - 2, 13, 14), vm_regs[new], 13, 14)
    BY <1>8 DEF ModeSwitch, SwitchSpLr
  <2> QED BY <1>1, <1>2, <2>1, StmLdmFiles
<1>9. CASE /\ old # new /\ old # "fiq" /\ new # "fiq"
           /\ <<old, new>> \notin Adjacent /\ <<new, old>> \in Adjacent
  <2>1. ModeSwitch(file, old, new)
            = Ldm(Stm(file, vm_regs[old], 13, 14), vm_regs[old] - 2, 13, 14)
    BY <1>9 DEF ModeSwitch, SwitchSpLr
  <2>2. old \in {"irq", "svc", "abt", "und"}
    BY <1>9 DEF Adjacent
  <2>3. vm_regs[old] - 2 \in 0 .. 20
    BY <2>2, Layout
  <2> QED BY <1>1, <1>2, <2>1, <2>3, StmLdmFiles
<1>10. CASE /\ old # new /\ old # "fiq" /\ new # "fiq"
            /\ <<old, new>> \notin Adjacent /\ <<new, old>> \notin Adjacent
  <2>1. ModeSwitch(file, old, new) = Ldm(Stm(file, SpLr(old), 13, 14), SpLr(new), 13, 14)
    BY <1>10 DEF ModeSwitch, SwitchSpLr
  <2> QED BY <1>1, <1>2, <2>1, StmLdmFiles
<1> QED BY <1>3, <1>4, <1>5, <1>6, <1>7, <1>8, <1>9, <1>10

LEMMA ToIrqFiles ==
    ASSUME NEW file \in Files, NEW old \in Banks
    PROVE  ToIrq(file, old) \in Files
<1>1. \A to \in Int : Ldm(Stm(file, to, 13, 14), 14, 13, 14) \in Files
  BY StmLdmFiles
<1>2. Ldm(Ldm(Stm(file, 0, 8, 14), 7, 8, 12), 14, 13, 14) \in Files
  BY StmLdmFiles
<1>3. Ldm(file, 15, 14, 14) \in Files
  BY LdmFiles, NumbersOfRegs
<1> QED BY <1>1, <1>2, <1>3, Layout DEF ToIrq, Banks, Modes

LEMMA ToSvcFiles ==
    ASSUME NEW file \in Files, NEW old \in Banks
    PROVE  ToSvc(file, old) \in Files
<1>1. \A to \in Int : Ldm(Stm(file, to, 13, 14), 16, 13, 14) \in Files
  BY StmLdmFiles
<1>2. Ldm(Ldm(Stm(file, 0, 8, 14), 7, 8, 12), 16, 13, 14) \in Files
  BY StmLdmFiles
<1>3. Ldm(file, 17, 14, 14) \in Files
  BY LdmFiles, NumbersOfRegs
<1> QED BY <1>1, <1>2, <1>3, Layout DEF ToSvc, Banks, Modes

-----------------------------------------------------------------------------
(* The parts of the constants' assumption that the steps below need.         *)

LEMMA ConstantsTyped ==
    /\ BiosReturn \in Values /\ SwiReturn \in Values /\ ZeroValue \in Values
    /\ \A v \in Values : Moved[v] \in Values
    /\ InitialValue \in [Registers -> Values]
    /\ BootPsr \in Psrs /\ ZeroPsr \in Psrs
    /\ \A p \in GuestPsrs \union SavedPsrs : p \in Psrs
    /\ MaxWrites \in Nat /\ WrittenRegs \subseteq GuestRegs
BY VmConstants

LEMMA IrqsTyped ==
    /\ Required \subseteq HwIrqs
    /\ Required \intersect Sound = {} /\ GxFifo \notin Sound /\ GxFifo \notin HwIrqs
    /\ HwIrqs \subseteq DsIrqs /\ Sound \subseteq DsIrqs /\ GxFifo \in DsIrqs
    /\ HwIrqs \subseteq Irqs /\ EmuIrqs \subseteq Irqs
    /\ \A acked \in Masks : acked \subseteq Irqs
BY VmConstants DEF DsIrqs, Irqs

\* What emu_updateIrqs leaves: REG_IE typed, covering what is wanted, and the
\* geometry engine pending when something wanted is.
LEMMA UpdateIrqsWorks ==
    ASSUME NEW psr, NEW requests, NEW enabled, NEW master, NEW required, NEW dsIF,
           required \subseteq DsIrqs, dsIF \subseteq DsIrqs,
           UpdateIrqs(psr, requests, enabled, master, required, dsIF)
    PROVE  /\ hwIE' \subseteq DsIrqs /\ hwIF' \subseteq DsIrqs
           /\ required \union (Wanted(psr, enabled, master) \intersect HwIrqs) \subseteq hwIE'
           /\ Wanted(psr, enabled, master) \intersect requests # {} => GxFifo \in hwIF'
<1>1. hwIE' = required \union (Wanted(psr, enabled, master) \intersect HwIrqs)
  BY DEF UpdateIrqs
<1>2. hwIF' = dsIF \union (IF Wanted(psr, enabled, master) \intersect requests # {}
                           THEN {GxFifo} ELSE {})
  BY DEF UpdateIrqs
<1> QED BY <1>1, <1>2, IrqsTyped

\* Nothing is wanted while I masks it.
LEMMA MaskedWantsNothing ==
    ASSUME NEW psr, NEW enabled, NEW master, psr.i
    PROVE  Wanted(psr, enabled, master) = {}
BY DEF Wanted

\* The parts of the type invariant.
FilesTyped == live \in [GuestRegs -> Values] /\ words \in [Words -> Values]
PsrsTyped == cpsr \in Psrs /\ spsr \in [Banks \ {"sys"} -> Psrs]
CtlTyped ==
    /\ emuIF \subseteq Irqs /\ ie \subseteq Irqs /\ ime \in BOOLEAN
    /\ hwMask \subseteq HwIrqs /\ forced \subseteq DsIrqs
DsTyped == hwIF \subseteq DsIrqs /\ hwIE \subseteq DsIrqs
PlaceTyped == at \in {"guest", "handler", "irq"} /\ level \in 0 .. 2 /\ writes \in 0 .. MaxWrites

LEMMA TypeParts == TypeOK <=> FilesTyped /\ PsrsTyped /\ CtlTyped /\ DsTyped /\ PlaceTyped
BY DEF TypeOK, FilesTyped, PsrsTyped, CtlTyped, DsTyped, PlaceTyped

LEMMA SetFileTyped ==
    ASSUME NEW file \in Files, SetFile(file)
    PROVE  FilesTyped'
BY DEF SetFile, Files, FilesTyped

LEMMA FileTyped == ASSUME TypeOK PROVE File \in Files
BY DEF TypeOK, File, Files

-----------------------------------------------------------------------------
(* The inductive invariant.                                                  *)

\* Every word is the place of a register.
LEMMA EveryWordHasARegister ==
    ASSUME NEW a \in Words
    PROVE  \E reg \in Registers : Slot(reg) = a
<1>1. CASE a \in 0 .. 6
  <2>1. <<"fiq", a + 8>> \in Registers
    BY <1>1 DEF Registers, GuestRegs
  <2>2. Slot(<<"fiq", a + 8>>) = a
    BY <1>1, Layout DEF Slot
  <2> QED BY <2>1, <2>2
<1>2. CASE a \in 7 .. 13
  <2>1. <<"sys", a + 1>> \in Registers
    BY <1>2 DEF Registers, GuestRegs
  <2>2. Slot(<<"sys", a + 1>>) = a
    BY <1>2, Layout DEF Slot
  <2> QED BY <2>1, <2>2
<1>3. ASSUME NEW bank \in {"irq", "svc", "abt", "und"}, a \in {vm_regs[bank], vm_regs[bank] + 1}
      PROVE  \E reg \in Registers : Slot(reg) = a
  <2>1. vm_regs[bank] \in Int
    BY Layout
  <2>2. <<bank, 13>> \in Registers /\ <<bank, 14>> \in Registers
    BY DEF Registers, Banks, Modes
  <2>3. Slot(<<bank, 13>>) = vm_regs[bank] /\ Slot(<<bank, 14>>) = vm_regs[bank] + 1
    BY <2>1 DEF Slot
  <2> QED BY <1>3, <2>2, <2>3
<1>4. \/ a \in 0 .. 6 \/ a \in 7 .. 13
      \/ \E bank \in {"irq", "svc", "abt", "und"} : a \in {vm_regs[bank], vm_regs[bank] + 1}
  BY Layout DEF Words
<1> QED BY <1>1, <1>2, <1>3, <1>4

LEMMA InitIndInv == Init => IndInv
<1> SUFFICES ASSUME Init PROVE IndInv
  OBVIOUS
<1> DEFINE owned == {Named(BootPsr.mode, r) : r \in GuestRegs}
           home(a) == CHOOSE reg \in Registers : Slot(reg) = a
<1>1. \A r \in GuestRegs : Named(BootPsr.mode, r) \in Registers
  <2>1. Bank(BootPsr.mode) \in Banks
    BY BankIsBank, ConstantsTyped
  <2> QED BY <2>1 DEF Named, Registers, GuestRegs, Banks, Modes, Bank
<1>2. \A a \in Words : home(a) \in Registers
  BY EveryWordHasARegister
<1>3. live \in [GuestRegs -> Values]
  <2>1. live = [r \in GuestRegs |-> InitialValue[Named(BootPsr.mode, r)]]
    BY DEF Init
  <2> QED BY <1>1, <2>1, ConstantsTyped
<1>4. words = [a \in Words |-> IF home(a) \in owned THEN ZeroValue ELSE InitialValue[home(a)]]
  BY DEF Init
<1> HIDE DEF home, owned
<1>5. words \in [Words -> Values]
  <2>1. \A a \in Words : InitialValue[home(a)] \in Values
    BY <1>2, ConstantsTyped
  <2> QED BY <1>4, <2>1, ConstantsTyped
<1>6. /\ cpsr \in Psrs /\ spsr \in [Banks \ {"sys"} -> Psrs]
      /\ emuIF \subseteq Irqs /\ ie \subseteq Irqs /\ ime \in BOOLEAN /\ hwMask \subseteq HwIrqs
      /\ at \in {"guest", "handler", "irq"} /\ level \in 0 .. 2 /\ writes \in 0 .. MaxWrites
  <2>1. /\ cpsr = BootPsr /\ spsr = [b \in Banks \ {"sys"} |-> ZeroPsr]
        /\ emuIF = {} /\ ie = {} /\ ime = FALSE /\ hwMask = {}
        /\ at = "guest" /\ level = 0 /\ writes = 0
    BY DEF Init
  <2>2. spsr \in [Banks \ {"sys"} -> Psrs]
    BY <2>1, ConstantsTyped
  <2>3. level \in 0 .. 2 /\ writes \in 0 .. MaxWrites
    BY <2>1, ConstantsTyped
  <2>4. cpsr \in Psrs /\ ime \in BOOLEAN
    BY <2>1, ConstantsTyped
  <2> QED BY <2>1, <2>2, <2>3, <2>4
<1>7. forced = Required \union {GxFifo} /\ hwIF = {} /\ hwIE = forced
  BY DEF Init
<1>8. TypeOK
  BY <1>3, <1>5, <1>6, <1>7, IrqsTyped DEF TypeOK
<1>9. Wanted(cpsr, ie, ime) = {}
  BY DEF Init, Wanted
<1> QED BY <1>7, <1>8, <1>9 DEF IndInv, EnabledInDs, Announced


-----------------------------------------------------------------------------
(* Every step keeps it.  A step that leaves the status word, REG_IE and      *)
(* REG_IME alone and forces no more interrupts leaves what is wanted.        *)

\* Where interrupts stay as they are, the DS stays set for them.
LEMMA SameInterrupts ==
    ASSUME IndInv, cpsr' = cpsr, UNCHANGED <<ctlVars, dsVars>>, at' = "guest" => at = "guest"
    PROVE  CtlTyped' /\ DsTyped' /\ EnabledInDs' /\ Announced'
<1>1. /\ emuIF' = emuIF /\ ie' = ie /\ ime' = ime /\ hwMask' = hwMask /\ forced' = forced
      /\ hwIF' = hwIF /\ hwIE' = hwIE
  BY DEF ctlVars, dsVars
<1>2. Wanted(cpsr, ie, ime)' = Wanted(cpsr, ie, ime)
  BY <1>1 DEF Wanted
<1>3. CtlTyped' /\ DsTyped'
  BY <1>1 DEF IndInv, TypeOK, CtlTyped, DsTyped
<1>4. EnabledInDs' /\ Announced'
  BY <1>1, <1>2 DEF IndInv, EnabledInDs, Announced
<1> QED BY <1>3, <1>4

\* A step that ends in emu_updateIrqs sets the DS for whatever is wanted after it.
LEMMA UpdatedInterrupts ==
    ASSUME IndInv, CtlTyped', NEW dsIF, dsIF \subseteq DsIrqs,
           Required \union {GxFifo} \subseteq forced',
           UpdateIrqs(cpsr', emuIF', ie', ime', forced', dsIF)
    PROVE  DsTyped' /\ EnabledInDs' /\ Announced'
<1>1. forced' \subseteq DsIrqs
  BY DEF CtlTyped
<1>2. /\ hwIE' \subseteq DsIrqs /\ hwIF' \subseteq DsIrqs
      /\ forced' \union (Wanted(cpsr', ie', ime') \intersect HwIrqs) \subseteq hwIE'
      /\ Wanted(cpsr', ie', ime') \intersect emuIF' # {} => GxFifo \in hwIF'
  BY <1>1, UpdateIrqsWorks
<1> QED BY <1>2 DEF DsTyped, EnabledInDs, Announced, Wanted

LEMMA InvParts ==
    ASSUME IndInv
    PROVE  /\ FilesTyped /\ PsrsTyped /\ CtlTyped /\ DsTyped /\ PlaceTyped
           /\ Required \union {GxFifo} \subseteq forced
           /\ hwIF \subseteq DsIrqs
BY TypeParts DEF IndInv, EnabledInDs, DsTyped

LEMMA PartsMakeInv ==
    ASSUME FilesTyped', PsrsTyped', CtlTyped', DsTyped', PlaceTyped', EnabledInDs', Announced'
    PROVE  IndInv'
BY DEF IndInv, TypeOK, FilesTyped, PsrsTyped, CtlTyped, DsTyped, PlaceTyped

\* A step of the interrupt controller leaves the processor alone.
LEMMA SameProcessor ==
    ASSUME IndInv, UNCHANGED <<fileVars, psrVars>>
    PROVE  FilesTyped' /\ PsrsTyped' /\ cpsr' = cpsr
BY InvParts DEF fileVars, psrVars, FilesTyped, PsrsTyped

LEMMA WriteStep == ASSUME IndInv, NEW r \in WrittenRegs, Write(r) PROVE IndInv'
<1>1. live' = [live EXCEPT ![r] = Moved[@]] /\ words' = words
  BY DEF Write
<1>2. FilesTyped'
  BY <1>1, InvParts, ConstantsTyped DEF FilesTyped
<1>3. PsrsTyped' /\ PlaceTyped'
  BY InvParts, ConstantsTyped DEF Write, psrVars, PsrsTyped, PlaceTyped
<1>4. CtlTyped' /\ DsTyped' /\ EnabledInDs' /\ Announced'
  BY SameInterrupts DEF Write, psrVars
<1> QED BY <1>2, <1>3, <1>4, PartsMakeInv

\* The switch between the banks of two status words.
LEMMA SwitchTyped ==
    ASSUME IndInv, NEW p \in Psrs, SetFile(ModeSwitch(File, Bank(cpsr.mode), Bank(p.mode)))
    PROVE  FilesTyped'
<1>1. File \in Files /\ cpsr \in Psrs
  BY FileTyped DEF IndInv, TypeOK
<1>2. ModeSwitch(File, Bank(cpsr.mode), Bank(p.mode)) \in Files
  BY <1>1, BankIsBank, ModeSwitchFiles
<1> QED BY <1>2, SetFileTyped

LEMMA MsrCpsrStep == ASSUME IndInv, NEW p \in GuestPsrs, MsrCpsr(p) PROVE IndInv'
<1>1. p \in Psrs
  BY ConstantsTyped
<1>2. FilesTyped'
  BY <1>1, SwitchTyped DEF MsrCpsr
<1>3. PsrsTyped' /\ PlaceTyped'
  BY <1>1, InvParts DEF MsrCpsr, PsrsTyped, PlaceTyped
<1>4. CtlTyped' /\ forced' = forced
  BY InvParts DEF MsrCpsr, ctlVars, CtlTyped
<1>5. UpdateIrqs(cpsr', emuIF', ie', ime', forced', hwIF)
  BY DEF MsrCpsr, ctlVars
<1>6. DsTyped' /\ EnabledInDs' /\ Announced'
  BY <1>4, <1>5, InvParts, UpdatedInterrupts
<1> QED BY <1>2, <1>3, <1>4, <1>6, PartsMakeInv

LEMMA MsrSpsrStep == ASSUME IndInv, NEW p \in SavedPsrs, MsrSpsr(p) PROVE IndInv'
<1>1. p \in Psrs
  BY ConstantsTyped
<1>2. PsrsTyped'
  BY <1>1, InvParts DEF MsrSpsr, PsrsTyped
<1>3. FilesTyped' /\ PlaceTyped'
  BY InvParts, ConstantsTyped DEF MsrSpsr, fileVars, FilesTyped, PlaceTyped
<1>4. CtlTyped' /\ DsTyped' /\ EnabledInDs' /\ Announced'
  BY SameInterrupts DEF MsrSpsr
<1> QED BY <1>2, <1>3, <1>4, PartsMakeInv

LEMMA ExceptionReturnStep == ASSUME IndInv, ExceptionReturn PROVE IndInv'
<1>1. spsr[cpsr.mode] \in Psrs
  BY InvParts DEF ExceptionReturn, PsrsTyped
<1>2. FilesTyped'
  BY <1>1, SwitchTyped DEF ExceptionReturn
<1>3. PsrsTyped' /\ PlaceTyped'
  BY <1>1, InvParts DEF ExceptionReturn, PsrsTyped, PlaceTyped
<1>4. CtlTyped' /\ forced' = forced
  BY InvParts DEF ExceptionReturn, ctlVars, CtlTyped
<1>5. UpdateIrqs(cpsr', emuIF', ie', ime', forced', hwIF)
  BY DEF ExceptionReturn, ctlVars
<1>6. DsTyped' /\ EnabledInDs' /\ Announced'
  BY <1>4, <1>5, InvParts, UpdatedInterrupts
<1> QED BY <1>2, <1>3, <1>4, <1>6, PartsMakeInv

\* An exception masks interrupts: nothing is wanted until the mask is lifted.
LEMMA MaskedInterrupts ==
    ASSUME IndInv, cpsr'.i, UNCHANGED ctlVars, hwIF' \subseteq DsIrqs, hwIE' \subseteq DsIrqs,
           forced \subseteq hwIE'
    PROVE  CtlTyped' /\ DsTyped' /\ EnabledInDs' /\ Announced'
<1>1. Wanted(cpsr', ie', ime') = {}
  BY MaskedWantsNothing
<1>2. CtlTyped' /\ DsTyped' /\ forced' = forced
  BY InvParts DEF ctlVars, CtlTyped, DsTyped
<1>3. EnabledInDs' /\ Announced'
  BY <1>1, <1>2, InvParts DEF EnabledInDs, Announced, Wanted
<1> QED BY <1>2, <1>3

LEMMA SwiStep == ASSUME IndInv, Swi PROVE IndInv'
<1> DEFINE entered == [File EXCEPT !.words[vm_regs["svc"] + 1] = SwiReturn]
<1>1. File \in Files
  BY FileTyped DEF IndInv
<1>2. entered \in Files
  BY <1>1, ConstantsTyped DEF Files
<1>3. ToSvc(entered, Bank(cpsr.mode)) \in Files
  BY <1>2, InvParts, BankIsBank, ToSvcFiles DEF PsrsTyped
<1>4. FilesTyped'
  BY <1>3, SetFileTyped DEF Swi
<1>5. PsrsTyped'
  <2>1. [mode |-> "svc", i |-> TRUE] \in Psrs
    BY DEF Psrs, Modes
  <2> QED BY <2>1, InvParts DEF Swi, PsrsTyped
<1>6. PlaceTyped'
  BY InvParts, ConstantsTyped DEF Swi, PlaceTyped
<1>7. CtlTyped' /\ DsTyped' /\ EnabledInDs' /\ Announced'
  <2>1. cpsr'.i /\ UNCHANGED ctlVars /\ hwIF' = hwIF /\ hwIE' = hwIE
    BY DEF Swi, dsVars
  <2>2. forced \subseteq hwIE
    BY DEF IndInv, EnabledInDs
  <2> QED BY <2>1, <2>2, InvParts, MaskedInterrupts DEF DsTyped
<1> QED BY <1>4, <1>5, <1>6, <1>7, PartsMakeInv

LEMMA StoreIeIfStep ==
    ASSUME IndInv, NEW enabled \in Masks, NEW acked \in Masks, StoreIeIf(enabled, acked)
    PROVE  IndInv'
<1>1. FilesTyped' /\ PsrsTyped' /\ cpsr' = cpsr
  BY SameProcessor DEF StoreIeIf
<1>2. PlaceTyped'
  BY InvParts DEF StoreIeIf, PlaceTyped
<1>3. CtlTyped' /\ Required \union {GxFifo} \subseteq forced'
  BY InvParts, IrqsTyped DEF StoreIeIf, CtlTyped
<1>4. UpdateIrqs(cpsr', emuIF', ie', ime', forced', hwIF \ Passed(acked))
  BY <1>1 DEF StoreIeIf
<1>5. DsTyped' /\ EnabledInDs' /\ Announced'
  BY <1>3, <1>4, InvParts, UpdatedInterrupts
<1> QED BY <1>1, <1>2, <1>3, <1>5, PartsMakeInv

LEMMA StoreIfStep == ASSUME IndInv, NEW acked \in Masks, StoreIf(acked) PROVE IndInv'
<1>1. FilesTyped' /\ PsrsTyped' /\ cpsr' = cpsr
  BY SameProcessor DEF StoreIf
<1>2. PlaceTyped'
  BY InvParts DEF StoreIf, PlaceTyped
<1>3. CtlTyped' /\ DsTyped'
  BY InvParts DEF StoreIf, CtlTyped, DsTyped
<1>4. Wanted(cpsr', ie', ime') = Wanted(cpsr, ie, ime) /\ emuIF' \subseteq emuIF
  BY <1>1 DEF StoreIf, Wanted
<1>5. EnabledInDs'
  BY <1>4 DEF StoreIf, IndInv, EnabledInDs, Wanted
<1>6. GxFifo \in hwIF => GxFifo \in hwIF'
  BY IrqsTyped DEF StoreIf, Passed
<1>7. at = "guest" /\ at' = at
  BY DEF StoreIf
<1>8. Announced'
  BY <1>4, <1>6, <1>7 DEF IndInv, Announced, Wanted
<1> QED BY <1>1, <1>2, <1>3, <1>5, <1>8, PartsMakeInv

LEMMA StoreImeStep == ASSUME IndInv, NEW enabled \in BOOLEAN, StoreIme(enabled) PROVE IndInv'
<1>1. FilesTyped' /\ PsrsTyped' /\ cpsr' = cpsr
  BY SameProcessor DEF StoreIme
<1>2. PlaceTyped'
  BY InvParts DEF StoreIme, PlaceTyped
<1>3. CtlTyped' /\ Required \union {GxFifo} \subseteq forced'
  BY InvParts, IrqsTyped DEF StoreIme, CtlTyped
<1>4. UpdateIrqs(cpsr', emuIF', ie', ime', forced', hwIF)
  BY <1>1 DEF StoreIme
<1>5. DsTyped' /\ EnabledInDs' /\ Announced'
  BY <1>3, <1>4, InvParts, UpdatedInterrupts
<1> QED BY <1>1, <1>2, <1>3, <1>5, PartsMakeInv

LEMMA StoreEnableStep ==
    ASSUME IndInv, NEW irq \in HwIrqs, NEW enabled \in BOOLEAN, StoreEnable(irq, enabled)
    PROVE  IndInv'
<1>1. FilesTyped' /\ PsrsTyped' /\ cpsr' = cpsr
  BY SameProcessor DEF StoreEnable
<1>2. PlaceTyped' /\ DsTyped' /\ at' = at /\ hwIF' = hwIF /\ hwIE' = hwIE
  BY InvParts DEF StoreEnable, PlaceTyped, DsTyped, dsVars
<1>3. CtlTyped' /\ emuIF' = emuIF /\ ie' = ie /\ ime' = ime /\ forced' = forced
  BY InvParts DEF StoreEnable, CtlTyped
<1>4. EnabledInDs' /\ Announced'
  BY <1>1, <1>2, <1>3 DEF IndInv, EnabledInDs, Announced, Wanted
<1> QED BY <1>1, <1>2, <1>3, <1>4, PartsMakeInv

LEMMA StoreRaisesStep == ASSUME IndInv, NEW irq \in EmuIrqs, StoreRaises(irq) PROVE IndInv'
<1>1. FilesTyped' /\ PsrsTyped' /\ cpsr' = cpsr
  BY SameProcessor DEF StoreRaises
<1>2. PlaceTyped'
  BY InvParts DEF StoreRaises, PlaceTyped
<1>3. CtlTyped' /\ Required \union {GxFifo} \subseteq forced'
  BY InvParts, IrqsTyped DEF StoreRaises, CtlTyped
<1>4. UpdateIrqs(cpsr', emuIF', ie', ime', forced', hwIF)
  BY <1>1 DEF StoreRaises
<1>5. DsTyped' /\ EnabledInDs' /\ Announced'
  BY <1>3, <1>4, InvParts, UpdatedInterrupts
<1> QED BY <1>1, <1>2, <1>3, <1>5, PartsMakeInv

LEMMA StoreSoundDmaStep == ASSUME IndInv, NEW started \in BOOLEAN, StoreSoundDma(started) PROVE IndInv'
<1>1. FilesTyped' /\ PsrsTyped' /\ cpsr' = cpsr
  BY SameProcessor DEF StoreSoundDma
<1>2. PlaceTyped'
  BY InvParts DEF StoreSoundDma, PlaceTyped
<1>3. CtlTyped' /\ Required \union {GxFifo} \subseteq forced'
  BY InvParts, IrqsTyped DEF StoreSoundDma, CtlTyped
<1>4. UpdateIrqs(cpsr', emuIF', ie', ime', forced', hwIF)
  BY <1>1 DEF StoreSoundDma
<1>5. DsTyped' /\ EnabledInDs' /\ Announced'
  BY <1>3, <1>4, InvParts, UpdatedInterrupts
<1> QED BY <1>1, <1>2, <1>3, <1>5, PartsMakeInv

LEMMA BeginAccessStep == ASSUME IndInv, BeginAccess PROVE IndInv'
<1>1. FilesTyped' /\ PsrsTyped' /\ cpsr' = cpsr
  BY SameProcessor DEF BeginAccess
<1>2. PlaceTyped'
  BY InvParts DEF BeginAccess, PlaceTyped
<1>3. UNCHANGED <<ctlVars, dsVars>> /\ (at' = "guest" => at = "guest")
  BY DEF BeginAccess
<1>4. CtlTyped' /\ DsTyped' /\ EnabledInDs' /\ Announced'
  BY <1>1, <1>3, SameInterrupts
<1> QED BY <1>1, <1>2, <1>4, PartsMakeInv

LEMMA NestStep == ASSUME IndInv, Nest PROVE IndInv'
<1>1. FilesTyped' /\ PsrsTyped' /\ cpsr' = cpsr
  BY SameProcessor DEF Nest
<1>2. PlaceTyped'
  BY InvParts DEF Nest, PlaceTyped
<1>3. UNCHANGED <<ctlVars, dsVars>> /\ (at' = "guest" => at = "guest")
  BY DEF Nest
<1>4. CtlTyped' /\ DsTyped' /\ EnabledInDs' /\ Announced'
  BY <1>1, <1>3, SameInterrupts
<1> QED BY <1>1, <1>2, <1>4, PartsMakeInv

LEMMA UnnestStep == ASSUME IndInv, Unnest PROVE IndInv'
<1>1. FilesTyped' /\ PsrsTyped' /\ cpsr' = cpsr
  BY SameProcessor DEF Unnest
<1>2. PlaceTyped'
  BY InvParts DEF Unnest, PlaceTyped
<1>3. UNCHANGED <<ctlVars, dsVars>> /\ (at' = "guest" => at = "guest")
  BY DEF Unnest
<1>4. CtlTyped' /\ DsTyped' /\ EnabledInDs' /\ Announced'
  BY <1>1, <1>3, SameInterrupts
<1> QED BY <1>1, <1>2, <1>4, PartsMakeInv

LEMMA EndAccessStep == ASSUME IndInv, NEW raised \in SUBSET EmuIrqs, EndAccess(raised) PROVE IndInv'
<1>1. FilesTyped' /\ PsrsTyped' /\ cpsr' = cpsr
  BY SameProcessor DEF EndAccess
<1>2. PlaceTyped'
  BY InvParts DEF EndAccess, PlaceTyped
<1>3. CtlTyped' /\ Required \union {GxFifo} \subseteq forced'
  BY InvParts, IrqsTyped DEF EndAccess, CtlTyped
<1>4. UpdateIrqs(cpsr', emuIF', ie', ime', forced', hwIF)
  BY <1>1 DEF EndAccess
<1>5. DsTyped' /\ EnabledInDs' /\ Announced'
  BY <1>3, <1>4, InvParts, UpdatedInterrupts
<1> QED BY <1>1, <1>2, <1>3, <1>5, PartsMakeInv

LEMMA DeviceStep == ASSUME IndInv, NEW irq \in HwIrqs \union Sound, Device(irq) PROVE IndInv'
<1>1. FilesTyped' /\ PsrsTyped' /\ cpsr' = cpsr
  BY SameProcessor DEF Device
<1>2. PlaceTyped' /\ DsTyped' /\ at' = at /\ hwIF \subseteq hwIF' /\ hwIE' = hwIE
  BY InvParts, IrqsTyped DEF Device, PlaceTyped, DsTyped
<1>3. CtlTyped' /\ emuIF' = emuIF /\ ie' = ie /\ ime' = ime /\ forced' = forced
  BY InvParts DEF Device, ctlVars, CtlTyped
<1>4. EnabledInDs' /\ Announced'
  BY <1>1, <1>2, <1>3 DEF IndInv, EnabledInDs, Announced, Wanted
<1> QED BY <1>1, <1>2, <1>3, <1>4, PartsMakeInv

\* After vm_irq has gathered, the guest is not running or was not interrupted.
LEMMA GatherStep == ASSUME IndInv, Gather PROVE IndInv'
<1>1. FilesTyped' /\ PsrsTyped' /\ cpsr' = cpsr
  BY SameProcessor DEF Gather
<1>2. PlaceTyped' /\ DsTyped' /\ at' # "guest" /\ hwIE' = hwIE
  BY InvParts DEF Gather, PlaceTyped, DsTyped
<1>3. /\ ie' = ie /\ ime' = ime /\ hwMask' = hwMask
      /\ forced' \subseteq forced /\ Required \union {GxFifo} \subseteq forced'
  BY InvParts, IrqsTyped DEF Gather, Emulation
<1>4. emuIF' \subseteq Irqs
  BY InvParts, IrqsTyped DEF Gather, Emulation, CtlTyped
<1>5. CtlTyped'
  BY <1>3, <1>4, InvParts DEF CtlTyped
<1>6. EnabledInDs' /\ Announced'
  BY <1>1, <1>2, <1>3 DEF IndInv, EnabledInDs, Announced, Wanted
<1> QED BY <1>1, <1>2, <1>5, <1>6, PartsMakeInv

LEMMA ResumeStep == ASSUME IndInv, Resume PROVE IndInv'
<1>1. FilesTyped' /\ PsrsTyped' /\ cpsr' = cpsr
  BY SameProcessor DEF Resume
<1>2. PlaceTyped'
  BY InvParts DEF Resume, PlaceTyped
<1>3. /\ emuIF' = emuIF /\ ie' = ie /\ ime' = ime /\ hwMask' = hwMask /\ forced' = forced
      /\ hwIF' = hwIF /\ hwIE' = hwIE
  BY DEF Resume, ctlVars, dsVars
<1>4. CtlTyped' /\ DsTyped' /\ EnabledInDs'
  BY <1>1, <1>3, InvParts DEF IndInv, EnabledInDs, Wanted, CtlTyped, DsTyped
<1>5. Wanted(cpsr, ie, ime)' \intersect emuIF' = {}
  BY <1>1, <1>3 DEF Resume, Wanted
<1>6. Announced'
  BY <1>5 DEF Announced
<1> QED BY <1>1, <1>2, <1>4, <1>6, PartsMakeInv

LEMMA EnterStep == ASSUME IndInv, Enter PROVE IndInv'
<1> DEFINE sp == Moved[words[vm_regs["irq"]]]
           entered == [File EXCEPT !.words[vm_regs["irq"]] = sp,
                                   !.words[vm_regs["irq"] + 1] = BiosReturn]
<1>1. File \in Files
  BY FileTyped DEF IndInv
<1>2. sp \in Values
  <2>1. words[14] \in Values
    BY InvParts DEF FilesTyped, Words
  <2> QED BY <2>1, Layout, ConstantsTyped
<1> HIDE DEF sp
<1>3. entered \in Files
  BY <1>1, <1>2, ConstantsTyped DEF Files
<1>4. ToIrq(entered, Bank(cpsr.mode)) \in Files
  BY <1>3, InvParts, BankIsBank, ToIrqFiles DEF PsrsTyped
<1>5. FilesTyped'
  BY <1>4, SetFileTyped DEF Enter, sp
<1>6. PsrsTyped'
  <2>1. [mode |-> "irq", i |-> TRUE] \in Psrs
    BY DEF Psrs, Modes
  <2> QED BY <2>1, InvParts DEF Enter, PsrsTyped
<1>7. PlaceTyped'
  BY InvParts DEF Enter, PlaceTyped
<1>8. CtlTyped' /\ DsTyped' /\ EnabledInDs' /\ Announced'
  <2>1. cpsr'.i /\ UNCHANGED ctlVars /\ hwIF' = hwIF /\ hwIE' = forced
    BY DEF Enter
  <2> QED BY <2>1, InvParts, MaskedInterrupts DEF CtlTyped
<1> QED BY <1>5, <1>6, <1>7, <1>8, PartsMakeInv


-----------------------------------------------------------------------------
(* The invariants.                                                           *)

LEMMA StutterStep == ASSUME IndInv, UNCHANGED vars PROVE IndInv'
<1>1. UNCHANGED <<fileVars, psrVars>> /\ UNCHANGED <<ctlVars, dsVars>> /\ at' = at
      /\ level' = level /\ writes' = writes
  BY DEF vars
<1>2. FilesTyped' /\ PsrsTyped' /\ cpsr' = cpsr
  BY <1>1, SameProcessor
<1>3. PlaceTyped'
  BY <1>1, InvParts DEF PlaceTyped
<1>4. CtlTyped' /\ DsTyped' /\ EnabledInDs' /\ Announced'
  BY <1>1, <1>2, SameInterrupts
<1> QED BY <1>2, <1>3, <1>4, PartsMakeInv

LEMMA StepIndInv == IndInv /\ [Next]_vars => IndInv'
<1> SUFFICES ASSUME IndInv, [Next]_vars PROVE IndInv'
  OBVIOUS
<1>1. ASSUME \E r \in WrittenRegs : Write(r) PROVE IndInv'
  BY <1>1, WriteStep
<1>2. ASSUME \E p \in GuestPsrs : MsrCpsr(p) PROVE IndInv'
  BY <1>2, MsrCpsrStep
<1>3. ASSUME \E p \in SavedPsrs : MsrSpsr(p) PROVE IndInv'
  BY <1>3, MsrSpsrStep
<1>4. ASSUME ExceptionReturn PROVE IndInv'
  BY <1>4, ExceptionReturnStep
<1>5. ASSUME Swi PROVE IndInv'
  BY <1>5, SwiStep
<1>6. ASSUME \E enabled, acked \in Masks : StoreIeIf(enabled, acked) PROVE IndInv'
  BY <1>6, StoreIeIfStep
<1>7. ASSUME \E acked \in Masks : StoreIf(acked) PROVE IndInv'
  BY <1>7, StoreIfStep
<1>8. ASSUME \E enabled \in BOOLEAN : StoreIme(enabled) PROVE IndInv'
  BY <1>8, StoreImeStep
<1>9. ASSUME \E enabled \in BOOLEAN : StoreSoundDma(enabled) PROVE IndInv'
  BY <1>9, StoreSoundDmaStep
<1>10. ASSUME \E irq \in HwIrqs, enabled \in BOOLEAN : StoreEnable(irq, enabled) PROVE IndInv'
  BY <1>10, StoreEnableStep
<1>11. ASSUME \E irq \in EmuIrqs : StoreRaises(irq) PROVE IndInv'
  BY <1>11, StoreRaisesStep
<1>12. ASSUME BeginAccess PROVE IndInv'
  BY <1>12, BeginAccessStep
<1>13. ASSUME Nest PROVE IndInv'
  BY <1>13, NestStep
<1>14. ASSUME Unnest PROVE IndInv'
  BY <1>14, UnnestStep
<1>15. ASSUME \E raised \in SUBSET EmuIrqs : EndAccess(raised) PROVE IndInv'
  BY <1>15, EndAccessStep
<1>16. ASSUME \E irq \in HwIrqs \union Sound : Device(irq) PROVE IndInv'
  BY <1>16, DeviceStep
<1>17. ASSUME Gather PROVE IndInv'
  BY <1>17, GatherStep
<1>18. ASSUME Resume PROVE IndInv'
  BY <1>18, ResumeStep
<1>19. ASSUME Enter PROVE IndInv'
  BY <1>19, EnterStep
<1>20. ASSUME UNCHANGED vars PROVE IndInv'
  BY <1>20, StutterStep
<1> QED
  BY <1>1, <1>2, <1>3, <1>4, <1>5, <1>6, <1>7, <1>8, <1>9, <1>10,
     <1>11, <1>12, <1>13, <1>14, <1>15, <1>16, <1>17, <1>18, <1>19, <1>20
  DEF Next

\* The inductive invariant holds in every run, for every choice of the constants.
THEOREM IndInvHolds == Spec => []IndInv
BY InitIndInv, StepIndInv, PTL DEF Spec

\* The state stays typed.
THEOREM TypeCorrect == Spec => []TypeOK
<1>1. IndInv => TypeOK
  BY DEF IndInv
<1> QED BY <1>1, IndInvHolds, PTL

\* The DS is enabled for all that the guest and the emulator need.
THEOREM DsIsEnabled == Spec => []EnabledInDs
<1>1. IndInv => EnabledInDs
  BY DEF IndInv
<1> QED BY <1>1, IndInvHolds, PTL

\* A running guest with a request it is to be given has an interrupt of the DS pending:
\* either the geometry engine's, or that of the device itself.
THEOREM NoInterruptIsLost == Spec => []PendingIsLatched
<1>1. IndInv => PendingIsLatched
  <2> SUFFICES ASSUME IndInv, at = "guest",
                      NEW irq \in Wanted(cpsr, ie, ime), irq \in GuestIF
               PROVE  hwIF \intersect hwIE # {}
    BY DEF PendingIsLatched
  <2>1. CASE irq \in emuIF
    <3>1. GxFifo \in hwIF
      BY <2>1 DEF IndInv, Announced
    <3>2. GxFifo \in hwIE
      BY DEF IndInv, EnabledInDs
    <3> QED BY <3>1, <3>2
  <2>2. CASE irq \in (hwIF \intersect HwIrqs) \ forced
    BY <2>2 DEF IndInv, EnabledInDs
  <2> QED BY <2>1, <2>2 DEF GuestIF
<1> QED BY <1>1, IndInvHolds, PTL

-----------------------------------------------------------------------------
(* What no step may do.                                                      *)

\* Interrupts nest in handlers only.
Nested == at = "handler" <=> level > 0

LEMMA NestedStep == TypeOK /\ Nested /\ [Next]_vars => Nested'
<1> SUFFICES ASSUME TypeOK, Nested, [Next]_vars PROVE Nested'
  OBVIOUS
<1>1. level \in 0 .. 2
  BY DEF TypeOK
<1>2. CASE at' = at /\ level' = level
  BY <1>2 DEF Nested
<1>3. ASSUME \/ \E r \in WrittenRegs : Write(r)
             \/ \E p \in GuestPsrs : MsrCpsr(p)
             \/ \E p \in SavedPsrs : MsrSpsr(p)
             \/ ExceptionReturn \/ Swi
      PROVE  at' = at /\ level' = level
  BY <1>3 DEF Write, MsrCpsr, MsrSpsr, ExceptionReturn, Swi
<1>4. ASSUME \/ \E enabled, acked \in Masks : StoreIeIf(enabled, acked)
             \/ \E acked \in Masks : StoreIf(acked)
             \/ \E enabled \in BOOLEAN : StoreIme(enabled) \/ StoreSoundDma(enabled)
             \/ \E irq \in HwIrqs, enabled \in BOOLEAN : StoreEnable(irq, enabled)
             \/ \E irq \in EmuIrqs : StoreRaises(irq)
             \/ \E irq \in HwIrqs \union Sound : Device(irq)
      PROVE  at' = at /\ level' = level
  BY <1>4 DEF StoreIeIf, StoreIf, StoreIme, StoreSoundDma, StoreEnable, StoreRaises, Device
<1>5. ASSUME \/ BeginAccess \/ Nest \/ Unnest
             \/ \E raised \in SUBSET EmuIrqs : EndAccess(raised)
      PROVE  Nested'
  <2>1. ASSUME BeginAccess PROVE Nested'
    BY <2>1 DEF Nested, BeginAccess
  <2>2. ASSUME Nest \/ Unnest PROVE Nested'
    BY <2>2 DEF Nested, Nest, Unnest
  <2>3. ASSUME NEW raised \in SUBSET EmuIrqs, EndAccess(raised) PROVE Nested'
    BY <2>3 DEF Nested, EndAccess
  <2> QED BY <1>5, <2>1, <2>2, <2>3
<1>6. ASSUME Gather PROVE Nested'
  BY <1>6 DEF Nested, Gather
<1>7. ASSUME Resume \/ Enter PROVE Nested'
  BY <1>7 DEF Nested, Resume, Enter
<1>8. ASSUME UNCHANGED vars PROVE at' = at /\ level' = level
  BY <1>8 DEF vars
<1> QED BY <1>2, <1>3, <1>4, <1>5, <1>6, <1>7, <1>8 DEF Next

LEMMA NestedHolds == Spec => []Nested
<1>1. Init => Nested
  BY DEF Init, Nested
<1> QED BY <1>1, NestedStep, TypeCorrect, PTL DEF Spec

\* No interrupt of the DS makes the guest take one in the middle of a handler.
THEOREM HandlersAreNotInterrupted == Spec => HandlersKeepTheGuest
<1>1. Nested /\ [Next]_vars => [level > 0 => UNCHANGED <<fileVars, psrVars>>]_vars
  <2> SUFFICES ASSUME Nested, Next, level > 0 PROVE UNCHANGED <<fileVars, psrVars>>
    BY DEF vars
  <2>1. at = "handler"
    BY DEF Nested
  <2>2. ~ \/ \E r \in WrittenRegs : Write(r)
          \/ \E p \in GuestPsrs : MsrCpsr(p)
          \/ \E p \in SavedPsrs : MsrSpsr(p)
          \/ ExceptionReturn \/ Swi \/ Enter \/ Resume
    BY <2>1 DEF Write, MsrCpsr, MsrSpsr, ExceptionReturn, Swi, Enter, Resume
  <2>3. ASSUME \/ \E enabled, acked \in Masks : StoreIeIf(enabled, acked)
               \/ \E acked \in Masks : StoreIf(acked)
               \/ \E enabled \in BOOLEAN : StoreIme(enabled) \/ StoreSoundDma(enabled)
               \/ \E irq \in HwIrqs, enabled \in BOOLEAN : StoreEnable(irq, enabled)
               \/ \E irq \in EmuIrqs : StoreRaises(irq)
        PROVE  UNCHANGED <<fileVars, psrVars>>
    BY <2>3 DEF StoreIeIf, StoreIf, StoreIme, StoreSoundDma, StoreEnable, StoreRaises
  <2>4. ASSUME \/ BeginAccess \/ Nest \/ Unnest
               \/ \E raised \in SUBSET EmuIrqs : EndAccess(raised)
               \/ \E irq \in HwIrqs \union Sound : Device(irq)
               \/ Gather
        PROVE  UNCHANGED <<fileVars, psrVars>>
    BY <2>4 DEF BeginAccess, Nest, Unnest, EndAccess, Device, Gather
  <2> QED BY <2>2, <2>3, <2>4 DEF Next
<1> QED BY <1>1, NestedHolds, PTL DEF Spec, HandlersKeepTheGuest

\* A step that adds to the requests and leaves the enable bits keeps every request.
LEMMA GrowingKeeps ==
    ASSUME emuIF \subseteq emuIF', hwIF \subseteq hwIF', hwMask' = hwMask
    PROVE  \A irq \in emuIF \union (hwIF \intersect hwMask) :
               irq \in emuIF' \union (hwIF' \intersect hwMask')
OBVIOUS

\* A request stays pending until it is acknowledged or its source is disabled.
THEOREM RequestsAreKept == Spec => RequestsStay
<1> DEFINE Kept(irq) ==
        \/ irq \in emuIF' \union (hwIF' \intersect hwMask')
        \/ irq \notin hwMask' \union EmuIrqs
        \/ \E acked \in Masks :
              irq \in acked /\ (StoreIf(acked) \/ \E e \in Masks : StoreIeIf(e, acked))
<1>1. ASSUME TypeOK, Next, NEW irq \in emuIF \union (hwIF \intersect hwMask) PROVE Kept(irq)
  <2>1. ASSUME \/ \E r \in WrittenRegs : Write(r)
               \/ \E p \in GuestPsrs : MsrCpsr(p)
               \/ \E p \in SavedPsrs : MsrSpsr(p)
               \/ ExceptionReturn \/ Swi \/ Resume \/ Enter
        PROVE  Kept(irq)
    <3>1. emuIF' = emuIF /\ hwMask' = hwMask /\ hwIF \subseteq hwIF'
      BY <2>1 DEF Write, MsrCpsr, MsrSpsr, ExceptionReturn, Swi, Resume, Enter, UpdateIrqs,
                  ctlVars, dsVars
    <3> QED BY <3>1, GrowingKeeps
  <2>2. ASSUME \/ \E enabled \in BOOLEAN : StoreIme(enabled) \/ StoreSoundDma(enabled)
               \/ \E e \in EmuIrqs : StoreRaises(e)
               \/ \E raised \in SUBSET EmuIrqs : EndAccess(raised)
               \/ BeginAccess \/ Nest \/ Unnest
               \/ \E i \in HwIrqs \union Sound : Device(i)
        PROVE  Kept(irq)
    <3>1. emuIF \subseteq emuIF' /\ hwMask' = hwMask /\ hwIF \subseteq hwIF'
      BY <2>2 DEF StoreIme, StoreSoundDma, StoreRaises, EndAccess, BeginAccess, Nest, Unnest,
                  Device, UpdateIrqs, ctlVars, dsVars
    <3> QED BY <3>1, GrowingKeeps
  <2>3. ASSUME NEW e \in Masks, NEW acked \in Masks, StoreIeIf(e, acked) \/ StoreIf(acked)
        PROVE  Kept(irq)
    <3>1. emuIF' = emuIF \ acked /\ hwMask' = hwMask /\ hwIF \ Passed(acked) \subseteq hwIF'
      BY <2>3 DEF StoreIeIf, StoreIf, UpdateIrqs
    <3>2. CASE irq \in acked
      BY <2>3, <3>2
    <3>3. CASE irq \notin acked
      BY <3>1, <3>3 DEF Passed
    <3> QED BY <3>2, <3>3
  <2>4. ASSUME NEW i \in HwIrqs, NEW enabled \in BOOLEAN, StoreEnable(i, enabled)
        PROVE  Kept(irq)
    <3>1. emuIF' = emuIF /\ hwIF' = hwIF
      BY <2>4 DEF StoreEnable, dsVars
    <3>2. hwMask \subseteq HwIrqs /\ HwIrqs \intersect EmuIrqs = {}
      BY <1>1, VmConstants DEF TypeOK
    <3>3. irq \in emuIF' \union (hwIF' \intersect hwMask') \/ irq \notin hwMask' \union EmuIrqs
      BY <1>1, <3>1, <3>2
    <3> QED BY <3>3
  <2>5. ASSUME Gather PROVE Kept(irq)
    <3>1. irq \in emuIF'
      BY <2>5 DEF Gather, Emulation
    <3> QED BY <3>1
  <2>6. ASSUME \/ \E e, acked \in Masks : StoreIeIf(e, acked)
               \/ \E acked \in Masks : StoreIf(acked)
        PROVE  Kept(irq)
    BY <2>3, <2>6
  <2> QED BY <1>1, <2>1, <2>2, <2>4, <2>5, <2>6 DEF Next
<1>2. TypeOK /\ [Next]_vars =>
          [\A irq \in emuIF \union (hwIF \intersect hwMask) : Kept(irq)]_vars
  BY <1>1
<1> QED BY <1>2, TypeCorrect, PTL DEF Spec, RequestsStay

-----------------------------------------------------------------------------
(* No switch of banks shows in a register of the GBA.                        *)

\* The registers of a bank: those it owns, or shares with sys.
Owned(b, n) == n \in GuestRegs /\ b \in Banks /\ (b \in {"fiq", "sys"} \/ n \in {13, 14})

\* The word of a register.
Word(b, n) == IF b \in {"fiq", "sys"} THEN vm_regs[b] + (n - 8) ELSE vm_regs[b] + (n - 13)

\* Whether a register is in the DS while the guest uses a bank.
InUse(bank, b, n) == IF bank # "fiq" /\ n < 13 THEN b = "sys" ELSE b = bank

\* The value of a register of the GBA in a file, while the guest uses a bank.
Value(file, bank, b, n) ==
    IF InUse(bank, b, n) THEN file.live[n] ELSE file.words[Word(b, n)]

\* What a store and a load of consecutive words do.
LEMMA StmAt ==
    ASSUME NEW file \in Files, NEW base \in Int, NEW first \in GuestRegs, NEW last \in GuestRegs
    PROVE  /\ Stm(file, base, first, last).live = file.live
           /\ \A a \in Words : Stm(file, base, first, last).words[a] =
                  IF base <= a /\ a <= base + last - first
                  THEN file.live[first + (a - base)] ELSE file.words[a]
<1>1. file.live \in [GuestRegs -> Values] /\ file.words \in [Words -> Values]
      /\ file = [live |-> file.live, words |-> file.words]
  BY DEF Files
<1>2. Stm(file, base, first, last) = [live |-> file.live, words |->
          [a \in Words |-> IF a \in base .. (base + last - first)
                           THEN file.live[first + (a - base)] ELSE file.words[a]]]
  BY <1>1 DEF Stm
<1> QED BY <1>2 DEF Words, GuestRegs

LEMMA LdmAt ==
    ASSUME NEW file \in Files, NEW base \in Int, NEW first \in GuestRegs, NEW last \in GuestRegs
    PROVE  /\ Ldm(file, base, first, last).words = file.words
           /\ \A n \in GuestRegs : Ldm(file, base, first, last).live[n] =
                  IF first <= n /\ n <= last THEN file.words[base + (n - first)] ELSE file.live[n]
<1>1. file = [live |-> file.live, words |-> file.words]
  BY DEF Files
<1>2. Ldm(file, base, first, last) = [words |-> file.words, live |->
          [n \in GuestRegs |-> IF n \in first .. last
                               THEN file.words[base + (n - first)] ELSE file.live[n]]]
  BY <1>1 DEF Ldm
<1> QED BY <1>2 DEF GuestRegs

LEMMA WordInWords == ASSUME NEW b, NEW n, Owned(b, n) PROVE Word(b, n) \in Words /\ n \in 8 .. 14
BY Layout DEF Owned, Word, Words, GuestRegs, Banks, Modes

\* Between banks that only own sp and lr.
LEMMA SpLrKeeps ==
    ASSUME NEW file \in Files, NEW old \in Banks \ {"fiq"}, NEW new \in Banks \ {"fiq"}, old # new,
           NEW b, NEW n, Owned(b, n)
    PROVE  Value(Ldm(Stm(file, SpLr(old), 13, 14), SpLr(new), 13, 14), new, b, n)
               = Value(file, old, b, n)
<1> DEFINE f1 == Stm(file, SpLr(old), 13, 14)
           f2 == Ldm(f1, SpLr(new), 13, 14)
<1> SUFFICES Value(f2, new, b, n) = Value(file, old, b, n)
  OBVIOUS
<1>1. /\ SpLr(old) \in {12, 14, 16, 18, 20} /\ SpLr(new) \in {12, 14, 16, 18, 20}
      /\ SpLr(old) # SpLr(new)
  BY Layout DEF SpLr, Banks, Modes
<1>0. SpLr(old) \in Int /\ SpLr(new) \in Int /\ 13 \in GuestRegs /\ 14 \in GuestRegs
  BY <1>1 DEF GuestRegs
<1>2. f1 \in Files
  BY <1>0, StmFiles
<1>3. /\ f1.live = file.live
      /\ \A a \in Words : f1.words[a] = IF SpLr(old) <= a /\ a <= SpLr(old) + 1
                                        THEN file.live[13 + (a - SpLr(old))] ELSE file.words[a]
  BY <1>0, StmAt
<1>4. /\ f2.words = f1.words
      /\ \A r \in GuestRegs : f2.live[r] = IF 13 <= r /\ r <= 14
                                           THEN f1.words[SpLr(new) + (r - 13)] ELSE f1.live[r]
  BY <1>0, <1>2, LdmAt
<1> HIDE DEF f1, f2
<1>5. Word(b, n) \in Words /\ n \in 8 .. 14 /\ n \in GuestRegs
  BY WordInWords DEF GuestRegs
<1>6. CASE n < 13
  <2>1. b \in {"fiq", "sys"} /\ f2.live[n] = file.live[n]
    BY <1>3, <1>4, <1>5, <1>6 DEF Owned
  <2>2. b = "fiq" => Word(b, n) \in 0 .. 4
    BY <1>5, <1>6, Layout DEF Word
  <2>3. b = "fiq" => f2.words[Word(b, n)] = file.words[Word(b, n)]
    BY <1>1, <1>3, <1>4, <1>5, <2>2
  <2> QED BY <1>6, <2>1, <2>3 DEF Value, InUse
<1>7. CASE n \in {13, 14}
  <2>1. Word(b, n) = SpLr(b) + (n - 13)
    BY <1>7, Layout DEF Word, SpLr, Owned, Banks, Modes
  <2>2. SpLr(b) \in {5, 12, 14, 16, 18, 20} /\ (b # old => SpLr(b) # SpLr(old))
    BY Layout DEF SpLr, Banks, Modes, Owned
  <2>3. f2.words[Word(b, n)] = IF b = old THEN file.live[n] ELSE file.words[Word(b, n)]
    BY <1>1, <1>3, <1>4, <1>5, <1>7, <2>1, <2>2
  <2>4. b = new => f2.live[n] = file.words[Word(b, n)]
    BY <1>1, <1>3, <1>4, <1>5, <1>7, <2>1 DEF Words
  <2> QED BY <1>7, <2>3, <2>4 DEF Value, InUse
<1> QED BY <1>5, <1>6, <1>7

\* Into fiq, from sys and from a bank that owns sp and lr only.
LEMMA ToFiqKeeps ==
    ASSUME NEW file \in Files, NEW old \in Banks \ {"fiq"}, NEW b, NEW n, Owned(b, n),
           NEW f1 \in Files,
           \/ old = "sys" /\ f1 = Stm(file, 7, 8, 14)
           \/ old # "sys" /\ f1 = Stm(Stm(file, vm_regs[old], 13, 14), 7, 8, 12)
    PROVE  Value(Ldm(f1, 0, 8, 14), "fiq", b, n) = Value(file, old, b, n)
<1> DEFINE f2 == Ldm(f1, 0, 8, 14)
<1> SUFFICES Value(f2, "fiq", b, n) = Value(file, old, b, n)
  OBVIOUS
<1>0. /\ 8 \in GuestRegs /\ 12 \in GuestRegs /\ 13 \in GuestRegs /\ 14 \in GuestRegs
      /\ 0 \in Int /\ 7 \in Int
  BY DEF GuestRegs
<1>1. /\ f2.words = f1.words
      /\ \A r \in GuestRegs : f2.live[r] = f1.words[r - 8]
  <2>1. \A r \in GuestRegs : 8 <= r /\ r <= 14 /\ 0 + (r - 8) = r - 8
    BY DEF GuestRegs
  <2>2. /\ f2.words = f1.words
        /\ \A r \in GuestRegs : f2.live[r] = IF 8 <= r /\ r <= 14
                                             THEN f1.words[0 + (r - 8)] ELSE f1.live[r]
    BY <1>0, LdmAt
  <2> HIDE DEF f2
  <2> QED BY <2>1, <2>2
<1> HIDE DEF f2
<1>2. Word(b, n) \in Words /\ n \in 8 .. 14 /\ n \in GuestRegs
  BY WordInWords DEF GuestRegs
<1>3. f1.words[Word(b, n)] = IF InUse(old, b, n) THEN file.live[n] ELSE file.words[Word(b, n)]
  <2>1. CASE old = "sys"
    <3>1. \A a \in Words : f1.words[a] = IF 7 <= a /\ a <= 7 + 14 - 8
                                         THEN file.live[8 + (a - 7)] ELSE file.words[a]
      BY <1>0, <2>1, StmAt
    <3>2. CASE b = "sys"
      <4>1. Word(b, n) = n - 1
        BY <1>2, <3>2, Layout DEF Word
      <4> QED BY <1>2, <2>1, <3>1, <3>2, <4>1 DEF InUse
    <3>3. CASE b # "sys"
      <4>1. Word(b, n) < 7 \/ Word(b, n) > 13
        BY <1>2, <3>3, Layout DEF Word, Owned, Banks, Modes
      <4>2. ~InUse(old, b, n)
        BY <2>1, <3>3 DEF InUse
      <4> QED BY <1>2, <3>1, <4>1, <4>2 DEF Words
    <3> QED BY <3>2, <3>3
  <2>2. CASE old # "sys"
    <3> DEFINE f0 == Stm(file, vm_regs[old], 13, 14)
    <3>1. vm_regs[old] \in {14, 16, 18, 20} /\ vm_regs[old] \in Int
      BY <2>2, Layout DEF Banks, Modes
    <3>2. f0 \in Files
      BY <1>0, <3>1, StmFiles
    <3>3. /\ f0.live = file.live
          /\ \A a \in Words : f0.words[a] =
                 IF vm_regs[old] <= a /\ a <= vm_regs[old] + 14 - 13
                 THEN file.live[13 + (a - vm_regs[old])] ELSE file.words[a]
      <4> DEFINE base == vm_regs[old]
      <4>1. base \in Int
        BY <3>1
      <4> HIDE DEF base
      <4>2. /\ Stm(file, base, 13, 14).live = file.live
            /\ \A a \in Words : Stm(file, base, 13, 14).words[a] =
                   IF base <= a /\ a <= base + 14 - 13
                   THEN file.live[13 + (a - base)] ELSE file.words[a]
        BY <1>0, <4>1, StmAt
      <4> QED BY <4>2 DEF base
    <3>4. \A a \in Words : f1.words[a] = IF 7 <= a /\ a <= 7 + 12 - 8
                                         THEN f0.live[8 + (a - 7)] ELSE f0.words[a]
      BY <1>0, <2>2, <3>2, StmAt
    <3> HIDE DEF f0
    <3>5. CASE b = "sys"
      <4>1. Word(b, n) = n - 1
        BY <1>2, <3>5, Layout DEF Word
      <4>2. InUse(old, b, n) <=> n < 13
        BY <2>2, <3>5 DEF InUse
      <4> QED BY <1>2, <3>1, <3>3, <3>4, <4>1, <4>2 DEF Words
    <3>6. CASE b = "fiq"
      <4>1. Word(b, n) = n - 8 /\ ~InUse(old, b, n)
        BY <1>2, <2>2, <3>6, Layout DEF Word, InUse
      <4> QED BY <1>2, <3>1, <3>3, <3>4, <4>1 DEF Words
    <3>7. CASE b \notin {"sys", "fiq"}
      <4>1. /\ n \in {13, 14} /\ Word(b, n) = vm_regs[b] + (n - 13)
            /\ vm_regs[b] \in {14, 16, 18, 20} /\ (b # old => vm_regs[b] # vm_regs[old])
        BY <2>2, <3>7, Layout DEF Word, Owned, Banks, Modes
      <4>2. InUse(old, b, n) <=> b = old
        BY <2>2, <4>1 DEF InUse
      <4> QED BY <1>2, <3>1, <3>3, <3>4, <4>1, <4>2 DEF Words
    <3> QED BY <3>5, <3>6, <3>7
  <2> QED BY <2>1, <2>2
<1>4. b = "fiq" => Word(b, n) = n - 8
  BY <1>2, Layout DEF Word
<1>5. CASE b = "fiq"
  <2>1. ~InUse(old, b, n) /\ InUse("fiq", b, n)
    BY <1>5 DEF InUse, Banks
  <2> QED BY <1>1, <1>2, <1>3, <1>4, <1>5, <2>1 DEF Value
<1>6. CASE b # "fiq"
  <2>1. ~InUse("fiq", b, n)
    BY <1>6 DEF InUse
  <2> QED BY <1>1, <1>3, <2>1 DEF Value
<1> QED BY <1>5, <1>6

\* Out of fiq.
LEMMA FromFiqKeeps ==
    ASSUME NEW file \in Files, NEW new \in Banks \ {"fiq"}, NEW b, NEW n, Owned(b, n),
           NEW f2,
           \/ new = "sys" /\ f2 = Ldm(Stm(file, 0, 8, 14), 7, 8, 14)
           \/ new # "sys" /\ f2 = Ldm(Ldm(Stm(file, 0, 8, 14), 7, 8, 12), vm_regs[new], 13, 14)
    PROVE  Value(f2, new, b, n) = Value(file, "fiq", b, n)
<1> DEFINE f1 == Stm(file, 0, 8, 14)
           f3 == Ldm(f1, 7, 8, 12)
<1>0. /\ 8 \in GuestRegs /\ 12 \in GuestRegs /\ 13 \in GuestRegs /\ 14 \in GuestRegs
      /\ 0 \in Int /\ 7 \in Int
  BY DEF GuestRegs
<1>1. f1 \in Files
  BY <1>0, StmFiles
<1>2. /\ f1.live = file.live
      /\ \A a \in Words : f1.words[a] = IF 0 <= a /\ a <= 0 + 14 - 8
                                        THEN file.live[8 + (a - 0)] ELSE file.words[a]
  BY <1>0, StmAt
<1>3. /\ f2.words = f1.words
      /\ \A r \in GuestRegs :
            f2.live[r] = IF r < 13 \/ new = "sys" THEN f1.words[7 + (r - 8)]
                                                  ELSE f1.words[vm_regs[new] + (r - 13)]
  <2>0. \A r \in GuestRegs : r \in 8 .. 14
    BY DEF GuestRegs
  <2>1. CASE new = "sys"
    <3>1. /\ f2.words = f1.words
          /\ \A r \in GuestRegs : f2.live[r] = IF 8 <= r /\ r <= 14
                                               THEN f1.words[7 + (r - 8)] ELSE f1.live[r]
      BY <1>0, <1>1, <2>1, LdmAt
    <3> HIDE DEF f1
    <3> QED BY <2>0, <2>1, <3>1
  <2>2. CASE new # "sys"
    <3>1. /\ f3.words = f1.words
          /\ \A r \in GuestRegs : f3.live[r] = IF 8 <= r /\ r <= 12
                                               THEN f1.words[7 + (r - 8)] ELSE f1.live[r]
      BY <1>0, <1>1, LdmAt
    <3>2. f3 \in Files /\ vm_regs[new] \in Int
      BY <1>0, <1>1, <2>2, LdmFiles, Layout DEF Banks, Modes
    <3>4. f2 = Ldm(f3, vm_regs[new], 13, 14)
      BY <2>2
    <3> HIDE DEF f3
    <3>3. /\ f2.words = f3.words
          /\ \A r \in GuestRegs : f2.live[r] = IF 13 <= r /\ r <= 14
                                     THEN f3.words[vm_regs[new] + (r - 13)] ELSE f3.live[r]
      <4> DEFINE base == vm_regs[new]
      <4>1. base \in Int
        BY <3>2
      <4> HIDE DEF base
      <4>2. /\ Ldm(f3, base, 13, 14).words = f3.words
            /\ \A r \in GuestRegs : Ldm(f3, base, 13, 14).live[r] =
                   IF 13 <= r /\ r <= 14 THEN f3.words[base + (r - 13)] ELSE f3.live[r]
        BY <1>0, <3>2, <4>1, LdmAt
      <4> QED BY <3>4, <4>2 DEF base
    <3> HIDE DEF f1
    <3> QED BY <2>0, <2>2, <3>1, <3>3
  <2> QED BY <2>1, <2>2
<1> HIDE DEF f1, f3
<1>4. Word(b, n) \in Words /\ n \in 8 .. 14 /\ n \in GuestRegs
  BY WordInWords DEF GuestRegs
<1>5. f1.words[Word(b, n)] = Value(file, "fiq", b, n)
  <2>1. CASE b = "fiq"
    <3>1. Word(b, n) = n - 8 /\ InUse("fiq", b, n)
      BY <1>4, <2>1, Layout DEF Word, InUse
    <3> QED BY <1>2, <1>4, <3>1 DEF Value
  <2>2. CASE b # "fiq"
    <3>1. ~InUse("fiq", b, n) /\ Word(b, n) > 6
      BY <1>4, <2>2, Layout DEF Word, InUse, Owned, Banks, Modes
    <3> QED BY <1>2, <1>4, <3>1 DEF Value, Words
  <2> QED BY <2>1, <2>2
<1>6. InUse(new, b, n) => f2.live[n] = f1.words[Word(b, n)]
  <2> SUFFICES ASSUME InUse(new, b, n)
               PROVE  f2.live[n] = f1.words[Word(b, n)]
    OBVIOUS
  <2>1. CASE n < 13
    <3>1. b = "sys" /\ Word(b, n) = 7 + (n - 8)
      BY <2>1, Layout DEF InUse, Word
    <3> QED BY <1>3, <1>4, <2>1, <3>1
  <2>2. CASE ~(n < 13)
    <3>1. b = new /\ (b # "fiq")
      BY <2>2 DEF InUse
    <3>2. Word(b, n) = IF new = "sys" THEN 7 + (n - 8) ELSE vm_regs[new] + (n - 13)
      BY <3>1, Layout DEF Word
    <3> QED BY <1>3, <1>4, <2>2, <3>2
  <2> QED BY <2>1, <2>2
<1> QED BY <1>3, <1>5, <1>6 DEF Value

\* Where the sp and lr of two neighbours are.
LEMMA Neighbours ==
    ASSUME NEW old, NEW new, <<old, new>> \in Adjacent
    PROVE  /\ vm_regs[new] - 2 = SpLr(old) /\ vm_regs[new] = SpLr(new)
           /\ old # "fiq" /\ new # "fiq" /\ new # "sys"
<1>1. \/ (old = "sys" /\ new = "irq") \/ (old = "irq" /\ new = "svc")
      \/ (old = "svc" /\ new = "abt") \/ (old = "abt" /\ new = "und")
  BY DEF Adjacent
<1> QED BY <1>1, Layout DEF SpLr

\* vm_modeSwitch<old>To<new> moves every register to where its new mode has it.
LEMMA ModeSwitchKeeps ==
    ASSUME NEW file \in Files, NEW old \in Banks, NEW new \in Banks, NEW b, NEW n, Owned(b, n)
    PROVE  Value(ModeSwitch(file, old, new), new, b, n) = Value(file, old, b, n)
<1>1. vm_regs["sys"] = 7 /\ vm_regs["sys"] - 7 = 0
  BY Layout
<1>2. CASE old = new
  BY <1>2 DEF ModeSwitch
<1>3. CASE old # "fiq" /\ new = "fiq"
  <2>1. PICK f1 : /\ ModeSwitch(file, old, new) = Ldm(f1, 0, 8, 14)
                  /\ \/ old = "sys" /\ f1 = Stm(file, 7, 8, 14)
                     \/ old # "sys" /\ f1 = Stm(Stm(file, vm_regs[old], 13, 14), 7, 8, 12)
    <3>1. CASE old = "sys"
      BY <1>1, <1>3, <3>1 DEF ModeSwitch
    <3>2. CASE old # "sys"
      BY <1>1, <1>3, <3>2 DEF ModeSwitch
    <3> QED BY <3>1, <3>2
  <2>2. f1 \in Files
    <3>1. 7 \in Int /\ vm_regs[old] \in Int
      BY BaseInWords
    <3>2. Stm(file, 7, 8, 14) \in Files /\ Stm(file, vm_regs[old], 13, 14) \in Files
      BY <3>1, StmFiles, NumbersOfRegs
    <3> QED BY <2>1, <3>1, <3>2, StmFiles, NumbersOfRegs
  <2> QED BY <1>3, <2>1, <2>2, ToFiqKeeps
<1>4. CASE old = "fiq" /\ new # "fiq"
  <2>1. \/ /\ new = "sys"
           /\ ModeSwitch(file, old, new) = Ldm(Stm(file, 0, 8, 14), 7, 8, 14)
        \/ /\ new # "sys"
           /\ ModeSwitch(file, old, new)
                  = Ldm(Ldm(Stm(file, 0, 8, 14), 7, 8, 12), vm_regs[new], 13, 14)
    BY <1>1, <1>4 DEF ModeSwitch
  <2> QED BY <1>4, <2>1, FromFiqKeeps
<1>5. CASE old # new /\ old # "fiq" /\ new # "fiq"
  <2>1. ModeSwitch(file, old, new) = SwitchSpLr(file, old, new)
    BY <1>5 DEF ModeSwitch
  <2>2. SwitchSpLr(file, old, new) = Ldm(Stm(file, SpLr(old), 13, 14), SpLr(new), 13, 14)
    <3>1. CASE <<old, new>> \in Adjacent
      BY <3>1, Neighbours DEF SwitchSpLr
    <3>2. CASE <<old, new>> \notin Adjacent /\ <<new, old>> \in Adjacent
      BY <3>2, Neighbours DEF SwitchSpLr
    <3>3. CASE <<old, new>> \notin Adjacent /\ <<new, old>> \notin Adjacent
      BY <3>3 DEF SwitchSpLr
    <3> QED BY <3>1, <3>2, <3>3
  <2> QED BY <1>5, <2>1, <2>2, SpLrKeeps
<1> QED BY <1>2, <1>3, <1>4, <1>5

\* So do the tables of vm_irq and vm_swi, which leave any bank but their own.
LEMMA ToIrqKeeps ==
    ASSUME NEW file \in Files, NEW old \in Banks \ {"irq"}, NEW b, NEW n, Owned(b, n)
    PROVE  Value(ToIrq(file, old), "irq", b, n) = Value(file, old, b, n)
<1>1. "irq" \in Banks \ {"fiq"} /\ SpLr("irq") = 14 /\ vm_regs["irq"] = 14
      /\ vm_regs["irq"] - 2 = 12 /\ vm_regs["svc"] - 2 = 14 /\ vm_regs["sys"] = 7
      /\ vm_regs["sys"] - 7 = 0
  BY Layout DEF SpLr, Banks, Modes
<1>2. CASE old = "fiq"
  <2>1. ToIrq(file, old) = Ldm(Ldm(Stm(file, 0, 8, 14), 7, 8, 12), vm_regs["irq"], 13, 14)
    BY <1>1, <1>2 DEF ToIrq
  <2> QED BY <1>1, <1>2, <2>1, FromFiqKeeps
<1>3. CASE old # "fiq"
  <2>1. ToIrq(file, old) = Ldm(Stm(file, SpLr(old), 13, 14), SpLr("irq"), 13, 14)
    <3>1. CASE old = "sys"
      <4>1. SpLr(old) = 12
        BY <3>1, Layout DEF SpLr
      <4> QED BY <1>1, <3>1, <4>1 DEF ToIrq
    <3>2. CASE old = "svc"
      <4>1. SpLr(old) = vm_regs[old]
        BY <3>2 DEF SpLr
      <4> QED BY <1>1, <3>2, <4>1 DEF ToIrq
    <3>3. CASE old \in {"abt", "und"}
      <4>1. SpLr(old) = vm_regs[old]
        BY <3>3 DEF SpLr
      <4> QED BY <1>1, <3>3, <4>1 DEF ToIrq
    <3> QED BY <1>3, <3>1, <3>2, <3>3 DEF Banks, Modes
  <2> QED BY <1>1, <1>3, <2>1, SpLrKeeps
<1> QED BY <1>2, <1>3

LEMMA ToSvcKeeps ==
    ASSUME NEW file \in Files, NEW old \in Banks \ {"svc"}, NEW b, NEW n, Owned(b, n)
    PROVE  Value(ToSvc(file, old), "svc", b, n) = Value(file, old, b, n)
<1>1. "svc" \in Banks \ {"fiq"} /\ SpLr("svc") = 16 /\ vm_regs["svc"] = 16
      /\ vm_regs["svc"] - 2 = 14 /\ vm_regs["sys"] = 7
      /\ vm_regs["sys"] - 7 = 0 /\ vm_regs["sys"] + 5 = 12
  BY Layout DEF SpLr, Banks, Modes
<1>2. CASE old = "fiq"
  <2>1. ToSvc(file, old) = Ldm(Ldm(Stm(file, 0, 8, 14), 7, 8, 12), vm_regs["svc"], 13, 14)
    BY <1>1, <1>2 DEF ToSvc
  <2> QED BY <1>1, <1>2, <2>1, FromFiqKeeps
<1>3. CASE old # "fiq"
  <2>1. ToSvc(file, old) = Ldm(Stm(file, SpLr(old), 13, 14), SpLr("svc"), 13, 14)
    <3>1. CASE old = "sys"
      <4>1. SpLr(old) = 12
        BY <3>1, Layout DEF SpLr
      <4> QED BY <1>1, <3>1, <4>1 DEF ToSvc
    <3>2. CASE old = "irq"
      <4>1. SpLr(old) = 14
        BY <3>2, Layout DEF SpLr
      <4> QED BY <1>1, <3>2, <4>1 DEF ToSvc
    <3>3. CASE old \in {"abt", "und"}
      <4>1. SpLr(old) = vm_regs[old]
        BY <3>3 DEF SpLr
      <4> QED BY <1>1, <3>3, <4>1 DEF ToSvc
    <3> QED BY <1>3, <3>1, <3>2, <3>3 DEF Banks, Modes
  <2> QED BY <1>1, <1>3, <2>1, SpLrKeeps
<1> QED BY <1>2, <1>3

-----------------------------------------------------------------------------
(* The guest stays masked in IRQ mode.                                       *)

LEMMA InitMasked == Init => MaskedInIrq
<1> SUFFICES ASSUME Init PROVE MaskedInIrq
  OBVIOUS
<1>1. (BootPsr.mode = "irq" => BootPsr.i) /\ (ZeroPsr.mode = "irq" => ZeroPsr.i)
  BY VmConstants
<1>2. cpsr = BootPsr /\ spsr = [b \in Banks \ {"sys"} |-> ZeroPsr]
  BY DEF Init
<1> QED BY <1>1, <1>2 DEF MaskedInIrq

LEMMA NextMasked == TypeOK /\ MaskedInIrq /\ [Next]_vars => MaskedInIrq'
<1> SUFFICES ASSUME TypeOK, MaskedInIrq, [Next]_vars PROVE MaskedInIrq'
  OBVIOUS
<1> DEFINE Safe(p) == p.mode = "irq" => p.i
<1>0. /\ \A p \in GuestPsrs \union SavedPsrs : Safe(p)
      /\ Safe(cpsr) /\ \A b \in DOMAIN spsr : Safe(spsr[b])
      /\ Safe([mode |-> "svc", i |-> TRUE]) /\ Safe([mode |-> "irq", i |-> TRUE])
  BY VmConstants DEF MaskedInIrq
<1> HIDE DEF Safe
<1>1. /\ Safe(cpsr')
      /\ \/ spsr' = spsr
         \/ \E m, p : Safe(p) /\ spsr' = [spsr EXCEPT ![m] = p]
  <2>1. CASE \E p \in GuestPsrs : MsrCpsr(p)
    BY <1>0, <2>1 DEF MsrCpsr
  <2>2. CASE \E p \in SavedPsrs : MsrSpsr(p)
    BY <1>0, <2>2 DEF MsrSpsr
  <2>3. CASE ExceptionReturn
    BY <1>0, <2>3 DEF ExceptionReturn
  <2>4. CASE Swi
    BY <1>0, <2>4 DEF Swi
  <2>5. CASE Enter
    BY <1>0, <2>5 DEF Enter
  <2>6. CASE UNCHANGED psrVars
    BY <1>0, <2>6 DEF psrVars
  <2>7. \/ \E p \in GuestPsrs : MsrCpsr(p)
        \/ \E p \in SavedPsrs : MsrSpsr(p)
        \/ ExceptionReturn \/ Swi \/ Enter \/ UNCHANGED psrVars
    BY DEF Next, vars, Write, StoreIeIf, StoreIf, StoreIme, StoreSoundDma, StoreEnable,
           StoreRaises, BeginAccess, Nest, Unnest, EndAccess, Device, Gather, Resume
  <2> QED BY <2>1, <2>2, <2>3, <2>4, <2>5, <2>6, <2>7
<1>2. \A b \in DOMAIN spsr' : Safe(spsr'[b])
  BY <1>0, <1>1
<1> QED BY <1>1, <1>2 DEF Safe, MaskedInIrq

\* The guest runs in IRQ mode masked, so an interrupt finds it in another mode.
THEOREM MaskedInIrqHolds == Spec => []MaskedInIrq
BY InitMasked, NextMasked, TypeCorrect, PTL DEF Spec

-----------------------------------------------------------------------------
(* The registers the guest sees.                                             *)

LEMMA NamesOfRegisters ==
    ASSUME NEW mode \in Modes, NEW b, NEW n, Owned(b, n)
    PROVE  /\ Named(mode, n) = <<b, n>> <=> InUse(Bank(mode), b, n)
           /\ Slot(<<b, n>>) = Word(b, n)
           /\ <<b, n>> \in Registers
           /\ Bank(mode) \in Banks
<1>1. Bank(mode) = "fiq" <=> mode = "fiq"
  BY DEF Bank
<1>2. Named(mode, n) = <<b, n>> <=> InUse(Bank(mode), b, n)
  BY <1>1 DEF Named, InUse
<1>3. Slot(<<b, n>>) = Word(b, n)
  BY DEF Slot, Word
<1>4. <<b, n>> \in Registers
  BY DEF Owned, Registers
<1>5. Bank(mode) \in Banks
  BY DEF Bank, Banks, Modes
<1> QED BY <1>2, <1>3, <1>4, <1>5

LEMMA RegistersAreOwned ==
    ASSUME NEW reg \in Registers
    PROVE  \E b, n : Owned(b, n) /\ reg = <<b, n>>
<1>1. reg = <<reg[1], reg[2]>> /\ Owned(reg[1], reg[2])
  BY DEF Registers, Owned, GuestRegs, Banks, Modes
<1> QED BY <1>1

LEMMA RegisterIsValue ==
    ASSUME cpsr.mode \in Modes, NEW b, NEW n, Owned(b, n)
    PROVE  GbaRegs[<<b, n>>] = Value(File, Bank(cpsr.mode), b, n)
<1>1. GbaRegs[<<b, n>>] = Register(<<b, n>>)
  BY NamesOfRegisters DEF GbaRegs
<1> QED BY <1>1, NamesOfRegisters DEF Register, Value, File

LEMMA NextRegisterIsValue ==
    ASSUME cpsr'.mode \in Modes, NEW file, SetFile(file), NEW b, NEW n, Owned(b, n)
    PROVE  GbaRegs'[<<b, n>>] = Value(file, Bank(cpsr'.mode), b, n)
<1>1. GbaRegs'[<<b, n>>] = Register(<<b, n>>)'
  BY NamesOfRegisters DEF GbaRegs
<1>2. live' = file.live /\ words' = file.words
  BY DEF SetFile
<1> QED BY <1>1, <1>2, NamesOfRegisters DEF Register, Value

\* The register file as a whole follows from its registers.
LEMMA RegistersTogether ==
    ASSUME NEW f \in [Registers -> Values],
           \A b, n : Owned(b, n) => GbaRegs'[<<b, n>>] = f[<<b, n>>]
    PROVE  GbaRegs' = f
<1>1. \A reg \in Registers : GbaRegs'[reg] = f[reg]
  BY RegistersAreOwned
<1>2. GbaRegs' = [reg \in Registers |-> GbaRegs'[reg]]
  BY DEF GbaRegs
<1> QED BY <1>1, <1>2

LEMMA ValueIsValue ==
    ASSUME NEW file \in Files, NEW bank, NEW b, NEW n, Owned(b, n)
    PROVE  Value(file, bank, b, n) \in Values
BY WordInWords DEF Files, Value, Owned

LEMMA GbaRegsTyped == ASSUME TypeOK PROVE GbaRegs \in [Registers -> Values] /\ cpsr.mode \in Modes
<1>1. cpsr.mode \in Modes
  BY DEF TypeOK, Psrs
<1>2. \A reg \in Registers : GbaRegs[reg] \in Values
  BY <1>1, RegistersAreOwned, RegisterIsValue, ValueIsValue, FileTyped
<1> QED BY <1>1, <1>2 DEF GbaRegs

LEMMA SameRegisters == ASSUME UNCHANGED fileVars, cpsr' = cpsr PROVE GbaRegs' = GbaRegs
BY DEF fileVars, GbaRegs, Register

-----------------------------------------------------------------------------
(* Every step is one of the GBA.                                             *)

GbaStep == [Gba!CpuNext]_<<Gba!cpuVars, Gba!irqVars>>

\* What the guest reads of REG_IF does not depend on the geometry engine.
LEMMA SameRequests ==
    ASSUME TypeOK, emuIF' = emuIF, forced' = forced,
           hwIF \subseteq hwIF', hwIF' \subseteq hwIF \union {GxFifo}
    PROVE  GuestIF' = GuestIF
BY IrqsTyped DEF GuestIF

\* A step of the processor, and one of the interrupt controller.
LEMMA ProcessorStep ==
    ASSUME Gba!Processor, GuestIF' = GuestIF, UNCHANGED <<ie, ime, hwMask>>
    PROVE  GbaStep
BY DEF GbaStep, Gba!CpuNext, Gba!irqVars, Sources

LEMMA ControllerStep ==
    ASSUME Gba!Controller, UNCHANGED <<fileVars, psrVars>>
    PROVE  GbaStep
<1>1. GbaRegs' = GbaRegs /\ cpsr' = cpsr /\ spsr' = spsr
  BY SameRegisters DEF psrVars
<1> QED BY <1>1 DEF GbaStep, Gba!CpuNext, Gba!cpuVars

LEMMA HiddenStep ==
    ASSUME UNCHANGED <<fileVars, psrVars, ie, ime, hwMask>>, GuestIF' = GuestIF
    PROVE  GbaStep
<1>1. GbaRegs' = GbaRegs /\ cpsr' = cpsr /\ spsr' = spsr
  BY SameRegisters DEF psrVars
<1> QED BY <1>1 DEF GbaStep, Gba!cpuVars, Gba!irqVars, Sources

\* Requests come from sources that are on; those of others may vanish.
LEMMA HardwareStep ==
    ASSUME TypeOK, UNCHANGED <<fileVars, psrVars, ie, ime, hwMask>>,
           NEW raised \in SUBSET Sources, NEW dropped \in SUBSET (Irqs \ Sources),
           GuestIF' = (GuestIF \ dropped) \union raised
    PROVE  GbaStep
<1>1. Gba!Hardware
  BY DEF Gba!Hardware, Sources
<1> QED BY <1>1, ControllerStep DEF Gba!Controller

LEMMA WriteRefines == ASSUME TypeOK, NEW r \in WrittenRegs, Write(r) PROVE GbaStep
<1>1. r \in GuestRegs /\ r \in 8 .. 14
  BY VmConstants DEF GuestRegs
<1>2. /\ live' = [live EXCEPT ![r] = Moved[@]] /\ words' = words
      /\ cpsr' = cpsr /\ spsr' = spsr
      /\ GuestIF' = GuestIF /\ UNCHANGED <<ie, ime, hwMask>>
  BY DEF Write, psrVars, ctlVars, dsVars, GuestIF
<1>3. cpsr.mode \in Modes /\ GbaRegs \in [Registers -> Values]
  BY GbaRegsTyped
<1> DEFINE named == Named(cpsr.mode, r)
           f == [GbaRegs EXCEPT ![named] = Moved[@]]
<1>4. /\ named \in Registers /\ Named(cpsr.mode, named[2]) = named /\ named[2] = r
  BY <1>1, <1>3 DEF Named, Registers, GuestRegs, Bank, Banks, Modes
<1>5. ASSUME NEW reg \in Registers PROVE Register(reg)' = f[reg]
  <2>1. live' \in [GuestRegs -> Values] /\ live \in [GuestRegs -> Values]
    BY <1>1, <1>2, ConstantsTyped DEF TypeOK
  <2>2. CASE reg = named
    <3>1. Register(reg) = live[r] /\ Register(reg)' = live'[r]
      BY <1>2, <1>4, <2>2 DEF Register
    <3>2. GbaRegs[named] = Register(named)
      BY <1>4 DEF GbaRegs
    <3> QED BY <1>1, <1>2, <1>3, <1>4, <2>1, <2>2, <3>1, <3>2
  <2>3. CASE reg # named
    <3>1. Register(reg)' = Register(reg)
      BY <1>1, <1>2, <2>1, <2>3 DEF Register
    <3> QED BY <1>3, <2>3, <3>1 DEF GbaRegs
  <2> QED BY <2>2, <2>3
<1>6. GbaRegs' = f
  <2>1. GbaRegs' = [reg \in Registers |-> Register(reg)']
    BY DEF GbaRegs
  <2> QED BY <1>3, <1>5, <2>1
<1>7. Gba!Write(r)
  BY <1>2, <1>6 DEF Gba!Write, Gba!Named, Gba!Bank, Named, Bank
<1> QED BY <1>1, <1>2, <1>7, ProcessorStep DEF Gba!Processor

\* A switch of banks that is loaded together with the mode it is for.
LEMMA SwitchRefines ==
    ASSUME TypeOK, NEW p \in Psrs, cpsr' = p,
           SetFile(ModeSwitch(File, Bank(cpsr.mode), Bank(p.mode)))
    PROVE  GbaRegs' = GbaRegs
<1>1. /\ GbaRegs \in [Registers -> Values] /\ cpsr.mode \in Modes /\ cpsr'.mode \in Modes
      /\ File \in Files /\ Bank(cpsr.mode) \in Banks /\ Bank(p.mode) \in Banks
  BY GbaRegsTyped, FileTyped, BankIsBank DEF Psrs, TypeOK
<1>2. ASSUME NEW b, NEW n, Owned(b, n)
      PROVE  GbaRegs'[<<b, n>>] = GbaRegs[<<b, n>>]
  BY <1>1, <1>2, NextRegisterIsValue, RegisterIsValue, ModeSwitchKeeps
<1> QED BY <1>1, <1>2, RegistersTogether

LEMMA MsrCpsrRefines == ASSUME TypeOK, NEW p \in GuestPsrs, MsrCpsr(p) PROVE GbaStep
<1>1. p \in Psrs /\ GbaRegs' = GbaRegs
  BY SwitchRefines, ConstantsTyped DEF MsrCpsr
<1>2. GuestIF' = GuestIF /\ UNCHANGED <<ie, ime, hwMask>>
  <2>1. UNCHANGED <<emuIF, ie, ime, hwMask, forced>>
        /\ hwIF \subseteq hwIF' /\ hwIF' \subseteq hwIF \union {GxFifo}
    BY DEF MsrCpsr, ctlVars, UpdateIrqs
  <2> QED BY <2>1, SameRequests
<1>3. Gba!MsrCpsr
  BY <1>1 DEF MsrCpsr, Gba!MsrCpsr, Gba!Psrs, Gba!Modes, Psrs, Modes
<1> QED BY <1>2, <1>3, ProcessorStep DEF Gba!Processor

LEMMA MsrSpsrRefines == ASSUME TypeOK, NEW p \in SavedPsrs, MsrSpsr(p) PROVE GbaStep
<1>1. GbaRegs' = GbaRegs /\ p \in Psrs /\ cpsr' = cpsr
  BY SameRegisters, ConstantsTyped DEF MsrSpsr
<1>2. GuestIF' = GuestIF /\ UNCHANGED <<ie, ime, hwMask>>
  BY DEF MsrSpsr, ctlVars, dsVars, GuestIF
<1>3. Gba!MsrSpsr
  BY <1>1 DEF MsrSpsr, Gba!MsrSpsr, Gba!Psrs, Gba!Modes, Psrs, Modes
<1> QED BY <1>2, <1>3, ProcessorStep DEF Gba!Processor

LEMMA ExceptionReturnRefines == ASSUME TypeOK, ExceptionReturn PROVE GbaStep
<1>1. spsr[cpsr.mode] \in Psrs
  BY DEF ExceptionReturn, TypeOK
<1>2. GbaRegs' = GbaRegs
  BY <1>1, SwitchRefines DEF ExceptionReturn
<1>3. GuestIF' = GuestIF /\ UNCHANGED <<ie, ime, hwMask>>
  <2>1. UNCHANGED <<emuIF, ie, ime, hwMask, forced>>
        /\ hwIF \subseteq hwIF' /\ hwIF' \subseteq hwIF \union {GxFifo}
    BY DEF ExceptionReturn, ctlVars, UpdateIrqs
  <2> QED BY <2>1, SameRequests
<1>4. Gba!ExceptionReturn
  BY <1>2 DEF ExceptionReturn, Gba!ExceptionReturn
<1> QED BY <1>3, <1>4, ProcessorStep DEF Gba!Processor

\* vm_swi puts the return address into the bank of svc and enters that bank.
LEMMA SwiRefines == ASSUME TypeOK, Swi PROVE GbaStep
<1> DEFINE entered == [File EXCEPT !.words[vm_regs["svc"] + 1] = SwiReturn]
           old == Bank(cpsr.mode)
           f == [GbaRegs EXCEPT ![<<"svc", 14>>] = SwiReturn]
<1>1. /\ GbaRegs \in [Registers -> Values] /\ cpsr.mode \in Modes
      /\ File \in Files /\ old \in Banks
  BY GbaRegsTyped, FileTyped, BankIsBank DEF TypeOK
<1>2. /\ entered.live = File.live
      /\ \A a \in Words : entered.words[a] = IF a = 17 THEN SwiReturn ELSE File.words[a]
      /\ entered \in Files
  BY <1>1, Layout, ConstantsTyped DEF Files, Words
<1>3. /\ cpsr' = [mode |-> "svc", i |-> TRUE] /\ spsr' = [spsr EXCEPT !["svc"] = cpsr]
      /\ SetFile(ToSvc(entered, old)) /\ GuestIF' = GuestIF /\ UNCHANGED <<ie, ime, hwMask>>
  BY DEF Swi, ctlVars, dsVars, GuestIF
<1>4. cpsr'.mode \in Modes /\ Bank(cpsr'.mode) = "svc"
  BY <1>3 DEF Modes, Bank
<1> HIDE DEF entered
<1>5. ASSUME NEW b, NEW n, Owned(b, n)
      PROVE  GbaRegs'[<<b, n>>] = IF <<b, n>> = <<"svc", 14>> THEN SwiReturn
                                                              ELSE GbaRegs[<<b, n>>]
  <2>1. GbaRegs'[<<b, n>>] = Value(ToSvc(entered, old), "svc", b, n)
    BY <1>3, <1>4, <1>5, NextRegisterIsValue
  <2>2. GbaRegs[<<b, n>>] = Value(File, old, b, n)
    BY <1>1, <1>5, RegisterIsValue
  <2>3. Word(b, n) \in Words /\ n \in GuestRegs /\ n \in 8 .. 14
    BY <1>5, WordInWords DEF Owned
  <2>4. Word(b, n) = 17 <=> (b = "svc" /\ n = 14)
    BY <1>5, <2>3, Layout DEF Word, Owned, Banks, Modes
  <2>5. CASE old # "svc"
    <3>1. Value(ToSvc(entered, old), "svc", b, n) = Value(entered, old, b, n)
      BY <1>1, <1>2, <1>5, <2>5, ToSvcKeeps
    <3>2. b = "svc" /\ n = 14 => ~InUse(old, b, n)
      BY <2>5 DEF InUse
    <3> QED BY <1>2, <2>1, <2>2, <2>3, <2>4, <3>1, <3>2 DEF Value
  <2>6. CASE old = "svc"
    <3>1. ToSvc(entered, old) = Ldm(entered, 17, 14, 14)
      BY <2>6, Layout DEF ToSvc
    <3>2. /\ Ldm(entered, 17, 14, 14).words = entered.words
          /\ \A r \in GuestRegs : Ldm(entered, 17, 14, 14).live[r] =
                 IF 14 <= r /\ r <= 14 THEN entered.words[17 + (r - 14)] ELSE entered.live[r]
      <4>1. 17 \in Int /\ 14 \in GuestRegs
        BY DEF GuestRegs
      <4> QED BY <1>2, <4>1, LdmAt
    <3>3. n = 14 => (InUse("svc", b, n) <=> b = "svc")
      BY DEF InUse
    <3>4. 17 \in Words
      BY DEF Words
    <3>5. CASE InUse("svc", b, n)
      BY <1>2, <2>1, <2>2, <2>3, <2>6, <3>1, <3>2, <3>3, <3>4, <3>5 DEF Value
    <3>6. CASE ~InUse("svc", b, n)
      BY <1>2, <2>1, <2>2, <2>3, <2>4, <2>6, <3>1, <3>2, <3>3, <3>6 DEF Value
    <3> QED BY <3>5, <3>6
  <2> QED BY <2>5, <2>6
<1>6. GbaRegs' = f
  <2>1. /\ <<"svc", 14>> \in Registers /\ f \in [Registers -> Values]
        /\ \A reg \in Registers : f[reg] = IF reg = <<"svc", 14>> THEN SwiReturn ELSE GbaRegs[reg]
    BY <1>1, ConstantsTyped DEF Registers, Banks, Modes
  <2>2. \A b, n : Owned(b, n) => <<b, n>> \in Registers
    BY <1>1, NamesOfRegisters
  <2> HIDE DEF f
  <2> QED BY <1>5, <2>1, <2>2, RegistersTogether
<1>7. Gba!Swi
  BY <1>3, <1>6 DEF Gba!Swi
<1> QED BY <1>3, <1>7, ProcessorStep DEF Gba!Processor

\* vm_irq pushes a frame on the stack of irq and enters that bank.
LEMMA EnterRefines == ASSUME IndInv, MaskedInIrq, Enter PROVE GbaStep
<1> DEFINE sp == Moved[words[vm_regs["irq"]]]
           entered == [File EXCEPT !.words[vm_regs["irq"]] = sp,
                                   !.words[vm_regs["irq"] + 1] = BiosReturn]
           old == Bank(cpsr.mode)
           f == [GbaRegs EXCEPT ![<<"irq", 13>>] = Moved[@], ![<<"irq", 14>>] = BiosReturn]
<1>1. /\ GbaRegs \in [Registers -> Values] /\ cpsr.mode \in Modes
      /\ File \in Files /\ old \in Banks
  BY GbaRegsTyped, FileTyped, BankIsBank DEF TypeOK, IndInv
<1>2. Gba!Deliverable
  BY DEF Enter, Wanted, Gba!Deliverable, GuestIF
<1>3. old # "irq"
  BY <1>2 DEF Gba!Deliverable, MaskedInIrq, Bank
<1>4. sp \in Values /\ sp = Moved[File.words[14]]
  <2>1. words[14] \in Values
    BY DEF IndInv, TypeOK, Words
  <2> QED BY <2>1, Layout, ConstantsTyped DEF File
<1>5. /\ SetFile(ToIrq(entered, old))
      /\ cpsr' = [mode |-> "irq", i |-> TRUE] /\ spsr' = [spsr EXCEPT !["irq"] = cpsr]
      /\ GuestIF' = GuestIF /\ UNCHANGED <<ie, ime, hwMask>>
  BY DEF Enter, ctlVars, GuestIF
<1> HIDE DEF sp
<1>6. /\ entered.live = File.live
      /\ \A a \in Words : entered.words[a] = IF a = 14 THEN sp ELSE
                                             IF a = 15 THEN BiosReturn ELSE File.words[a]
      /\ entered \in Files
  <2>1. live \in [GuestRegs -> Values] /\ words \in [Words -> Values]
    BY DEF IndInv, TypeOK
  <2>2. vm_regs["irq"] = 14 /\ vm_regs["irq"] + 1 = 15
    BY Layout
  <2>3. 14 \in Words /\ 15 \in Words /\ 14 # 15
    BY DEF Words
  <2>4. entered \in Files
    BY <1>1, <1>4, ConstantsTyped DEF Files
  <2>5. entered.live = File.live
    BY DEF File
  <2>6. \A a \in Words : entered.words[a] = IF a = 14 THEN sp ELSE
                                           IF a = 15 THEN BiosReturn ELSE File.words[a]
    BY <2>1, <2>2, <2>3 DEF File
  <2> QED BY <2>4, <2>5, <2>6
<1> HIDE DEF entered
<1>7. cpsr'.mode \in Modes /\ Bank(cpsr'.mode) = "irq"
  BY <1>5 DEF Modes, Bank
<1>8. ASSUME NEW b, NEW n, Owned(b, n)
      PROVE  GbaRegs'[<<b, n>>] = IF <<b, n>> = <<"irq", 13>> THEN Moved[GbaRegs[<<b, n>>]] ELSE
                                  IF <<b, n>> = <<"irq", 14>> THEN BiosReturn
                                                              ELSE GbaRegs[<<b, n>>]
  <2>1. GbaRegs'[<<b, n>>] = Value(ToIrq(entered, old), "irq", b, n)
    BY <1>5, <1>7, <1>8, NextRegisterIsValue
  <2>2. GbaRegs[<<b, n>>] = Value(File, old, b, n)
    BY <1>1, <1>8, RegisterIsValue
  <2>3. Word(b, n) \in Words /\ n \in GuestRegs /\ n \in 8 .. 14
    BY <1>8, WordInWords DEF Owned
  <2>4. /\ Word(b, n) = 14 <=> (b = "irq" /\ n = 13)
        /\ Word(b, n) = 15 <=> (b = "irq" /\ n = 14)
    BY <1>8, <2>3, Layout DEF Word, Owned, Banks, Modes
  <2>5. Value(ToIrq(entered, old), "irq", b, n) = Value(entered, old, b, n)
    BY <1>1, <1>3, <1>6, <1>8, ToIrqKeeps
  <2>6. CASE b = "irq" /\ n \in {13, 14}
    <3>1. ~InUse(old, b, n)
      BY <1>3, <2>6 DEF InUse
    <3>2. GbaRegs[<<b, n>>] = File.words[Word(b, n)]
      BY <2>2, <3>1 DEF Value
    <3>3. GbaRegs'[<<b, n>>] = entered.words[Word(b, n)]
      BY <2>1, <2>5, <3>1 DEF Value
    <3> QED BY <1>4, <1>6, <2>3, <2>4, <2>6, <3>2, <3>3
  <2>7. CASE ~(b = "irq" /\ n \in {13, 14})
    <3>1. entered.words[Word(b, n)] = File.words[Word(b, n)]
      BY <1>6, <2>3, <2>4, <2>7
    <3> QED BY <1>6, <2>1, <2>2, <2>5, <2>7, <3>1 DEF Value
  <2> QED BY <2>6, <2>7
<1>9. GbaRegs' = f
  <2>1. /\ f \in [Registers -> Values]
        /\ \A reg \in Registers : f[reg] = IF reg = <<"irq", 13>> THEN Moved[GbaRegs[reg]] ELSE
                                           IF reg = <<"irq", 14>> THEN BiosReturn
                                                                  ELSE GbaRegs[reg]
    <3>1. <<"irq", 13>> \in Registers /\ <<"irq", 14>> \in Registers
          /\ <<"irq", 13>> # <<"irq", 14>>
      BY DEF Registers, Banks, Modes
    <3> QED BY <1>1, <3>1, ConstantsTyped
  <2>2. \A b, n : Owned(b, n) => <<b, n>> \in Registers
    BY <1>1, NamesOfRegisters
  <2> HIDE DEF f
  <2> QED BY <1>8, <2>1, <2>2, RegistersTogether
<1>10. Gba!Interrupt
  BY <1>2, <1>5, <1>9 DEF Gba!Interrupt
<1> QED BY <1>5, <1>10, ProcessorStep DEF Gba!Processor

\* What the guest stores to the registers of the interrupt controller.
LEMMA StoresRefine ==
    ASSUME TypeOK,
           \/ \E enabled, acked \in Masks : StoreIeIf(enabled, acked)
           \/ \E acked \in Masks : StoreIf(acked)
           \/ \E enabled \in BOOLEAN : StoreIme(enabled)
           \/ \E irq \in HwIrqs, enabled \in BOOLEAN : StoreEnable(irq, enabled)
    PROVE  GbaStep
<1>1. /\ \A m \in Masks : m \in SUBSET Irqs
      /\ GxFifo \notin HwIrqs /\ HwIrqs \subseteq Irqs /\ EmuIrqs \subseteq Irqs
      /\ emuIF \subseteq Irqs /\ hwMask \subseteq HwIrqs /\ ie \in SUBSET Irqs
  BY IrqsTyped, ConstantsTyped, VmConstants DEF TypeOK
<1>2. ASSUME NEW acked \in Masks, emuIF' = emuIF \ acked, forced' = forced,
             hwIF \ Passed(acked) \subseteq hwIF', hwIF' \subseteq (hwIF \ Passed(acked)) \union {GxFifo}
      PROVE  GuestIF' = GuestIF \ acked
  <2>1. hwIF' \intersect HwIrqs = (hwIF \intersect HwIrqs) \ Passed(acked)
    BY <1>1, <1>2
  <2>2. GuestIF' = (emuIF \ acked) \union (((hwIF \intersect HwIrqs) \ Passed(acked)) \ forced)
    BY <1>2, <2>1 DEF GuestIF
  <2> QED BY <2>2 DEF GuestIF, Passed
<1>3. ASSUME NEW enabled \in Masks, NEW acked \in Masks, StoreIeIf(enabled, acked)
      PROVE  GbaStep
  <2>1. /\ GuestIF' = GuestIF \ acked /\ UNCHANGED <<ime, hwMask, fileVars, psrVars>>
        /\ ie' = enabled
    BY <1>2, <1>3 DEF StoreIeIf, UpdateIrqs
  <2>2. Gba!StoreIeIf
    BY <1>1, <2>1 DEF Gba!StoreIeIf, Irqs, Sources
  <2> QED BY <2>1, <2>2, ControllerStep DEF Gba!Controller
<1>4. ASSUME NEW acked \in Masks, StoreIf(acked)
      PROVE  GbaStep
  <2>1. /\ GuestIF' = GuestIF \ acked /\ UNCHANGED <<ie, ime, hwMask, fileVars, psrVars>>
    BY <1>2, <1>4 DEF StoreIf
  <2>2. Gba!StoreIeIf
    BY <1>1, <2>1 DEF Gba!StoreIeIf, Irqs, Sources
  <2> QED BY <2>1, <2>2, ControllerStep DEF Gba!Controller
<1>5. ASSUME NEW enabled \in BOOLEAN, StoreIme(enabled)
      PROVE  GbaStep
  <2>1. /\ UNCHANGED <<emuIF, forced, ie, hwMask, fileVars, psrVars>> /\ ime' = enabled
        /\ hwIF \subseteq hwIF' /\ hwIF' \subseteq hwIF \union {GxFifo}
    BY <1>5 DEF StoreIme, UpdateIrqs
  <2>2. Gba!StoreIme
    BY <2>1, SameRequests DEF Gba!StoreIme, Sources
  <2> QED BY <2>1, <2>2, ControllerStep DEF Gba!Controller
<1>6. ASSUME NEW irq \in HwIrqs, NEW enabled \in BOOLEAN, StoreEnable(irq, enabled)
      PROVE  GbaStep
  <2>1. /\ GuestIF' = GuestIF /\ UNCHANGED <<ie, ime, fileVars, psrVars>>
        /\ hwMask' \subseteq HwIrqs
    BY <1>1, <1>6 DEF StoreEnable, dsVars, GuestIF
  <2>2. Gba!StoreEnable
    BY <1>1, <2>1 DEF Gba!StoreEnable, Irqs, Sources
  <2> QED BY <2>1, <2>2, ControllerStep DEF Gba!Controller
<1> QED BY <1>3, <1>4, <1>5, <1>6

\* What the emulator and the devices do to the requests.
LEMMA DevicesRefine ==
    ASSUME IndInv,
           \/ \E enabled \in BOOLEAN : StoreSoundDma(enabled)
           \/ \E irq \in EmuIrqs : StoreRaises(irq)
           \/ \E raised \in SUBSET EmuIrqs : EndAccess(raised)
           \/ \E irq \in HwIrqs \union Sound : Device(irq)
           \/ Gather
    PROVE  GbaStep
<1>0. /\ GxFifo \notin HwIrqs /\ Sound \intersect HwIrqs = {}
      /\ HwIrqs \subseteq Irqs /\ Required \subseteq forced
      /\ hwMask \subseteq HwIrqs /\ HwIrqs \intersect EmuIrqs = {} /\ TypeOK
  BY IrqsTyped, VmConstants DEF IndInv, TypeOK, EnabledInDs
<1>1. ASSUME NEW raised \in SUBSET EmuIrqs, UNCHANGED <<fileVars, psrVars, ie, ime, hwMask>>,
             emuIF' = emuIF \union raised, forced' \ Sound = forced \ Sound,
             hwIF \subseteq hwIF', hwIF' \subseteq hwIF \union {GxFifo}
      PROVE  GbaStep
  <2>1. GuestIF' = (GuestIF \ {}) \union raised
    BY <1>0, <1>1 DEF GuestIF
  <2>2. raised \in SUBSET Sources /\ {} \in SUBSET (Irqs \ Sources)
    BY DEF Sources
  <2> QED BY <1>0, <1>1, <2>1, <2>2, HardwareStep
<1>2. ASSUME NEW enabled \in BOOLEAN, StoreSoundDma(enabled) PROVE GbaStep
  <2>1. /\ UNCHANGED <<fileVars, psrVars, ie, ime, hwMask>> /\ emuIF' = emuIF \union {}
        /\ hwIF \subseteq hwIF' /\ hwIF' \subseteq hwIF \union {GxFifo}
    BY <1>2 DEF StoreSoundDma, UpdateIrqs
  <2>2. forced' \ Sound = forced \ Sound
    BY <1>2 DEF StoreSoundDma
  <2>3. {} \in SUBSET EmuIrqs
    OBVIOUS
  <2> QED BY <1>1, <2>1, <2>2, <2>3
<1>3. ASSUME NEW irq \in EmuIrqs, StoreRaises(irq) PROVE GbaStep
  <2>1. /\ UNCHANGED <<fileVars, psrVars, ie, ime, hwMask, forced>>
        /\ emuIF' = emuIF \union {irq} /\ {irq} \in SUBSET EmuIrqs
        /\ hwIF \subseteq hwIF' /\ hwIF' \subseteq hwIF \union {GxFifo}
    BY <1>3 DEF StoreRaises, UpdateIrqs
  <2> QED BY <1>1, <2>1
<1>4. ASSUME NEW raised \in SUBSET EmuIrqs, EndAccess(raised) PROVE GbaStep
  <2>1. /\ UNCHANGED <<fileVars, psrVars, ie, ime, hwMask, forced>>
        /\ emuIF' = emuIF \union raised
        /\ hwIF \subseteq hwIF' /\ hwIF' \subseteq hwIF \union {GxFifo}
    BY <1>4 DEF EndAccess, UpdateIrqs
  <2> QED BY <1>1, <2>1
<1>5. ASSUME NEW irq \in HwIrqs \union Sound, Device(irq) PROVE GbaStep
  <2> DEFINE raised == {irq} \intersect (HwIrqs \ forced)
  <2>1. /\ UNCHANGED <<fileVars, psrVars, ie, ime, hwMask, forced, emuIF>>
        /\ hwIF' = hwIF \union {irq} /\ irq \in Required \union hwMask \union Sound
    BY <1>5 DEF Device, ctlVars
  <2>2. GuestIF' = (GuestIF \ {}) \union raised
    BY <2>1 DEF GuestIF
  <2>3. raised \in SUBSET Sources /\ {} \in SUBSET (Irqs \ Sources)
    BY <1>0, <2>1 DEF Sources
  <2> QED BY <1>0, <2>1, <2>2, <2>3, HardwareStep
<1>6. ASSUME Gather PROVE GbaStep
  <2>1. UNCHANGED <<fileVars, psrVars, ie, ime, hwMask>> /\ hwIF' = {}
    BY <1>6 DEF Gather
  <2>2. PICK r \in SUBSET EmuIrqs : emuIF' = emuIF \union r \union (hwIF \intersect hwMask)
    BY <1>6 DEF Gather, Emulation
  <2> DEFINE raised == r \union (hwIF \intersect hwMask)
             dropped == ((hwIF \intersect HwIrqs) \ forced) \ (hwMask \union emuIF)
  <2>3. GuestIF' = emuIF \union raised
    BY <2>1, <2>2 DEF GuestIF
  <2>4. GuestIF' = (GuestIF \ dropped) \union raised
    BY <1>0, <2>3 DEF GuestIF
  <2>5. raised \in SUBSET Sources /\ dropped \in SUBSET (Irqs \ Sources)
    BY <1>0 DEF Sources
  <2> QED BY <1>0, <2>1, <2>4, <2>5, HardwareStep
<1> QED BY <1>2, <1>3, <1>4, <1>5, <1>6

\* Every step of the virtual processor is one of the GBA, or nothing.
LEMMA StepsRefine == IndInv /\ MaskedInIrq /\ [Next]_vars => GbaStep
<1> SUFFICES ASSUME IndInv, MaskedInIrq, [Next]_vars PROVE GbaStep
  OBVIOUS
<1>0. TypeOK
  BY DEF IndInv
<1>1. CASE \E r \in WrittenRegs : Write(r)
  BY <1>0, <1>1, WriteRefines
<1>2. CASE \E p \in GuestPsrs : MsrCpsr(p)
  BY <1>0, <1>2, MsrCpsrRefines
<1>3. CASE \E p \in SavedPsrs : MsrSpsr(p)
  BY <1>0, <1>3, MsrSpsrRefines
<1>4. CASE ExceptionReturn
  BY <1>0, <1>4, ExceptionReturnRefines
<1>5. CASE Swi
  BY <1>0, <1>5, SwiRefines
<1>6. CASE Enter
  BY <1>6, EnterRefines
<1>7. CASE \/ \E enabled, acked \in Masks : StoreIeIf(enabled, acked)
           \/ \E acked \in Masks : StoreIf(acked)
           \/ \E enabled \in BOOLEAN : StoreIme(enabled)
           \/ \E irq \in HwIrqs, enabled \in BOOLEAN : StoreEnable(irq, enabled)
  BY <1>0, <1>7, StoresRefine
<1>8. CASE \/ \E enabled \in BOOLEAN : StoreSoundDma(enabled)
           \/ \E irq \in EmuIrqs : StoreRaises(irq)
           \/ \E raised \in SUBSET EmuIrqs : EndAccess(raised)
           \/ \E irq \in HwIrqs \union Sound : Device(irq)
           \/ Gather
  BY <1>8, DevicesRefine
<1>9. CASE BeginAccess \/ Nest \/ Unnest \/ Resume \/ UNCHANGED vars
  <2>1. UNCHANGED <<fileVars, psrVars, ie, ime, hwMask, forced, emuIF, hwIF>>
    BY <1>9 DEF BeginAccess, Nest, Unnest, Resume, ctlVars, dsVars, vars
  <2>2. GuestIF' = GuestIF
    BY <2>1 DEF GuestIF
  <2> QED BY <2>1, <2>2, HiddenStep
<1> QED BY <1>1, <1>2, <1>3, <1>4, <1>5, <1>6, <1>7, <1>8, <1>9 DEF Next

-----------------------------------------------------------------------------
(* And it starts as the GBA does.                                            *)

\* No two registers share a word.
LEMMA WordsAreDistinct ==
    ASSUME NEW b1, NEW n1, NEW b2, NEW n2, Owned(b1, n1), Owned(b2, n2),
           Word(b1, n1) = Word(b2, n2)
    PROVE  b1 = b2 /\ n1 = n2
<1>1. n1 \in 8 .. 14 /\ n2 \in 8 .. 14
  BY WordInWords
<1>2. ASSUME NEW b, NEW n, Owned(b, n), n \in 8 .. 14
      PROVE  \/ (b = "fiq" /\ Word(b, n) = n - 8)
             \/ (b = "sys" /\ Word(b, n) = n - 1)
             \/ (b = "irq" /\ n >= 13 /\ Word(b, n) = n + 1)
             \/ (b = "svc" /\ n >= 13 /\ Word(b, n) = n + 3)
             \/ (b = "abt" /\ n >= 13 /\ Word(b, n) = n + 5)
             \/ (b = "und" /\ n >= 13 /\ Word(b, n) = n + 7)
  BY <1>2, Layout DEF Word, Owned, Banks, Modes
<1> QED BY <1>1, <1>2

LEMMA InitRegisters == Init => GbaRegs = InitialValue
<1> SUFFICES ASSUME Init PROVE GbaRegs = InitialValue
  OBVIOUS
<1> DEFINE owned == {Named(BootPsr.mode, r) : r \in GuestRegs}
           home(a) == CHOOSE reg \in Registers : Slot(reg) = a
<1>1. /\ live = [r \in GuestRegs |-> InitialValue[Named(BootPsr.mode, r)]]
      /\ words = [a \in Words |-> IF home(a) \in owned THEN ZeroValue ELSE InitialValue[home(a)]]
      /\ cpsr = BootPsr /\ BootPsr.mode \in Modes
  BY ConstantsTyped DEF Init, Psrs
<1>2. ASSUME NEW reg \in Registers PROVE Register(reg) = InitialValue[reg]
  <2>1. PICK b, n : Owned(b, n) /\ reg = <<b, n>>
    BY RegistersAreOwned
  <2>2. n \in GuestRegs /\ reg[2] = n /\ Slot(reg) \in Words
    BY <1>1, <2>1, NamesOfRegisters, WordInWords DEF Owned
  <2>3. CASE Named(BootPsr.mode, n) = reg
    BY <1>1, <2>2, <2>3 DEF Register
  <2>4. CASE Named(BootPsr.mode, n) # reg
    <3>1. home(Slot(reg)) = reg
      <4>1. ASSUME NEW other \in Registers, Slot(other) = Slot(reg)
            PROVE  other = reg
        <5>1. PICK b2, n2 : Owned(b2, n2) /\ other = <<b2, n2>>
          BY RegistersAreOwned
        <5>2. Word(b2, n2) = Word(b, n)
          BY <1>1, <2>1, <4>1, <5>1, NamesOfRegisters
        <5> QED BY <2>1, <5>1, <5>2, WordsAreDistinct
      <4> QED BY <4>1
    <3>2. reg \notin owned
      <4>1. \A r \in GuestRegs : Named(BootPsr.mode, r) = reg => r = n
        BY <2>2 DEF Named
      <4> QED BY <2>4, <4>1
    <3> HIDE DEF home, owned
    <3>3. words[Slot(reg)] = InitialValue[reg]
      BY <1>1, <2>2, <3>1, <3>2
    <3> QED BY <1>1, <2>2, <2>4, <3>3 DEF Register
  <2> QED BY <2>3, <2>4
<1>3. InitialValue = [reg \in Registers |-> InitialValue[reg]]
  BY ConstantsTyped
<1> QED BY <1>2, <1>3 DEF GbaRegs

\* The guest cannot tell the virtual processor from a GBA's: banked registers,
\* status words and the interrupt controller behave as there, for every layout of
\* calls, handlers and DS interrupts (VirtualMachine/*.s, EmuIrqs.s).
THEOREM Refinement == Spec => ImplementsGbaCpu
<1>1. Init => Gba!CpuInit
  <2> SUFFICES ASSUME Init PROVE Gba!CpuInit
    OBVIOUS
  <2>1. /\ cpsr = BootPsr /\ spsr = [b \in Banks \ {"sys"} |-> ZeroPsr]
        /\ emuIF = {} /\ ie = {} /\ ime = FALSE /\ hwMask = {} /\ hwIF = {}
    BY DEF Init
  <2>2. GuestIF = {} /\ Sources \subseteq Irqs
    BY <2>1, IrqsTyped DEF GuestIF, Sources
  <2>3. GbaRegs = InitialValue
    BY InitRegisters
  <2> QED BY <2>1, <2>2, <2>3 DEF Gba!CpuInit, Gba!Banks, Gba!Modes, Banks, Modes
<1> QED BY <1>1, IndInvHolds, MaskedInIrqHolds, StepsRefine, PTL
        DEF Spec, ImplementsGbaCpu, Gba!CpuSpec, GbaStep

=============================================================================
