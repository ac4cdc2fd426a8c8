# A verification of GBARunner3

GBARunner3 runs Game Boy Advance programs on a Nintendo DS: the ARM9 executes
the guest's own code in user mode and emulates what that cannot do by itself,
and the ARM7 gives it sound, storage, the clock and the power button. This
directory holds TLA+ models of the parts of it that two processors, or a
program and its interrupt handlers, or a program and a power cut, have to get
right together; the configurations that check them with TLC; and the proofs,
for every size of them, that TLAPS checks.

Paths below are relative to `src/code/core/` (`arm9/`, `arm7/` stand for
`arm9/source/`, `arm7/source/`). `PROJECT.json` maps every definition to its
lines of the source, and lists the hazards with the properties that cover them.

Contents: 1 the system; 2 the modules; 3 the runs; 4 the proofs; 5 what the
checks found; 6 what is not modelled; 7 plan.

## 1. The system

### Actors

| Actor | Where | Runs |
|---|---|---|
| the guest | user mode of the ARM9 | GBA code, some instructions replaced by traps |
| the exception handlers | `arm9/VirtualMachine`, `arm9/MemoryEmulator`, `arm9/JitPatcher` | with DS interrupts masked, except where they open a window with `vm_enableNestedIrqs` |
| the interrupt handler `vm_irq` | `arm9/VirtualMachine/VMIrq.s`, `arm9/Emulator` | masked, to completion; nests in a window of an exception handler but not in itself |
| "user mode" work of the ARM9 | `arm9/Save/SaveSwi.s`, `arm9/Peripherals/RomGpio/RtcWorkStack.s` | file accesses, interrupts on |
| the ARM7's main loop | `arm7/main.cpp` | once a frame: exit requests, ageing of the save state |
| ARM7 threads | `arm7/IpcServices`, `arm7/Sound` | FS thread, sound thread, interrupt callbacks of the IPC FIFO |
| the power | – | may go at any moment |

They share: the command block, the completion and the message FIFO of the
storage service; the ROM cache and its tables (main code and handlers); one
byte `saveState` and the save RAM; the sound FIFOs; the DS's interrupt
registers; the files on the card.

### Components

| Component | State it keeps | Operations | Interacts with | Hard part | Correct when |
|---|---|---|---|---|---|
| Storage transactions `arm9/Fat/FsIpc.cpp`, `arm7/IpcServices/{FsIpcService,ThreadIpcService}` | command block, sequence numbers, current wait token, bounce buffers, one-place mailbox | begin, issue, wait, poll, cancel; ARM7: receive, move sectors, complete | everything that touches the card | a handler finds main's transaction in flight; a 4-bit notification that repeats | memory belongs to the ARM7 only inside the call; SUCCESS means moved; each sector moved once; calls return |
| ROM cache `arm9/SdCache` | two tables, one outstanding fetch, tabu marks, DMA guard range | look up, load, fill, patch at boot | storage; DMA; high-code mapping | nested loads, random victims, pointers held with interrupts on | tables inverse; mapped is loaded; guarded pointers stay good; patches stay |
| Save scheduling `arm9/Save`, `arm9/Emulator/VBlankIrq.s`, `arm9/MemoryEmulator/MemoryStore8.s`, `arm7/IpcServices/GbaSaveIpcService.cpp`, `arm7/main.cpp` | `saveState`, the patched skip instruction, exit state, fault screens | guest store, V-blank check, write, ageing, exit request | storage, clock | one byte written by two processors without a lock | CLEAN means saved; a failure is kept; a clean exit has saved everything; exits are answered |
| Clock journal `arm9/Peripherals/RomGpio/{RomGpioRtc.cpp,RtcPersistence.h}` | three record files, a selected record, dirty flag | load and select, write to another slot, read back | FatFs, start-up gate | torn and lost writes, wrapping numbers, an older program's files | every start finds the record last relied on or its successor |
| Virtual processor `arm9/VirtualMachine`, `arm9/Emulator/EmuIrqs.s`, `arm9/Peripherals/Interrupts` | banked registers, virtual CPSR and SPSRs, IE/IF/IME, masks | MSR, exception return, SWI, register stores, DS interrupt entry | every emulated device | interrupts delivered by two mechanisms; banks moved at fixed offsets | no interrupt lost, none taken inside a handler; behaves like a GBA processor |
| Direct sound `arm9/Peripherals/Sound`, `arm7/Sound/{GbaSound7,GbaTimer}.c` | two 8-word FIFOs, `dmaRequest`, two timers | DMA refill, FIFO write, reset; ARM7: consume, request | DMA, IPC FIFO | both processors change the offsets and the flag | the writer never passes the reader; a starved FIFO is refilled |
| GB sound `arm7/Sound/{GbSound,GbEnvelope,GbSweep}.c` | channel registers | register writes, frame sequencer | IPC FIFO | sequencer arithmetic | counters stop at their ends |
| DMA channels `arm9/Peripherals/DmaTransfer.c` | armed channels as patched instructions, current addresses | start, transfer, stop | ROM cache, sound, interrupts | stopping one of several; nested interrupts | slots, flags and masks agree |
| Timers `arm9/Peripherals/Timers.s` | last values read | load, store | IPC FIFO | top bit rebuilt | the value read never goes back within a period |
| Memory emulator, JIT `arm9/MemoryEmulator`, `arm9/JitPatcher` | dispatch tables, JIT bits per cache block | decode and emulate, patch a block | ROM cache | bits of replaced blocks | the bits are those of the code that is in the block |
| High-code mapping `arm9/MemoryEmulator/HiCodeCacheMapping*` | locked instruction-cache lines, block mask | map, add, unmap | ROM cache, JIT | lines are copies of memory that the ARM7, a fill and the JIT write | mapped lines come from the present block |
| RTC chip `RomGpioRtc.cpp:498-779` | bit-serial command machine, calendar | pin writes | journal | commands cut short | reads return the clock, writes change it |
| Save types `arm9/Save/{SaveTagScanner,SaveSignatureSearch,SaveEeprom,SaveFlash,SaveSram}` | – | search for a tag, patch functions | ROM at boot | tags across a buffer's end; one of two patches fails | the first tag in the file is found |
| ARM7 drivers, services `arm7/mmc`, `arm7/IpcServices` | card state, threads | – | storage | – | – |
| Start-up, settings, display, GUI, heap, logging, patches, tools | – | run once before the game, or pure layout | – | – | – |

The repository's `docs/` describe the clock's file format and its write safety
(`rtc-legacy-compatibility.md`, `rtc-persistence-design.md`) and the hardware
technique (`Technical Reference Manual`); its host tests under `tools/tests/`
run single sequences of the save, clock and storage code. None of them
interleaves two processors or cuts the power between two steps, and that is what
these models are for.

## 2. The modules

| Module | Models | Extends / instantiates | Abstract specification |
|---|---|---|---|
| `FsIpc` | storage transactions between both processors | – | `SectorStore`, by refinement |
| `SectorStore` | what the storage layer promises a caller | – | – |
| `SdCache` | the ROM block cache over FsIpc's promise | – | `RomReader`, by refinement |
| `RomReader` | what the cache promises its readers and the guest's code | – | – |
| `SaveScheduler` | save state, ageing, exit, fault screens | – | `SavedGame`, by refinement |
| `SavedGame` | what a player is promised of a save | – | – |
| `RtcJournal` | the clock's three record files | – | `DurableCell`, by refinement |
| `DurableCell` | one value that survives restarts | – | – |
| `VmCpu` | the virtual processor and interrupt delivery | – | `GbaCpu`, by refinement |
| `GbaCpu` | an ARM7TDMI's banks and a GBA's interrupt controller | – | – |
| `DmaChannels` | the DMA channels as patched instructions, flags and masks | – | `GbaDma`, by refinement |
| `GbaDma` | DMA channels as a game sees them | – | – |
| `DirectSound` | a ring of direct sound between both processors | – | – |
| `GbSound` | a GB sound channel of any kind and the frame sequencer | – | – |
| `MC*` | constants for TLC | the module they are named after | – |
| `*Proofs` | theorems of the module they are named after | it, and TLAPS | – |

A definition whose comment begins with "Mutant:" is a wrong version of the
definition after it; `PROJECT.json` names the property that it breaks.

### FsIpc

Two ARM9 contexts, `main` and `irq`, each with a program counter, a request and
an `FsWaitToken`; the shared command block, completion record, IPCSYNC nibble
(`sync7`), FIFO and mailbox; the FS thread of the ARM7 with its own counter.
`Begin`, `Issue`, `IssueInvalid`, `Poll`, `Await`, `Cancel`, `Finish`,
`Return` are the stages of `transferSectors` and its callees; `Receive7`,
`Wake7`, `Take7`, `Move7` (a sector), `Result7`, `Identify7` and `Notify7` the
thread's. A handler may begin wherever main has interrupts enabled (`MayRun`),
runs to its end before main goes on, and therefore may retire main's
transaction (`Retirable`). `Result7`, `Identify7` and `Notify7` are three
writes with an interruption possible between them. Left out: cache maintenance
(memory is coherent) and the DLDI set-up command, sent once before any other.

### SdCache

The tables, the tabu stack, `sCurrentFetch`, the guard range of a DMA, and per
context the stage of `loadRomBlock`. The random victim is any the generator can
name (`Victims`); transactions are tokens that end in SUCCESS or IO_ERROR, as
FsIpc promises. `PatchMiss`/`FinishBoot` are the permanent blocks, `StartDma`,
`DmaLookup`, `DmaNext`, `DmaDone` the DMA that copies with interrupts enabled,
`ApplyPatch` the write to a patched block.

The guest's code runs from the same blocks: `CodeHit` and `CodeLoaded` are
`jit_ensureBlockJitted` and `hic_mapRomBlock`, either of which may have loaded
the block, `HandleUndefined` the trap of a patched instruction, `UnmapHicode`
every other place that drops the locked lines. `jitBits` has one bit for all of
a block's (some instruction is patched), `alias` the block that lines are mapped
from. Two histories say what the bits and lines should be: `rewritten`, the
blocks the JIT has written into since they were filled, and `stale`, that the
lines are older than memory. `HandleUndefined` takes the trapped instruction to
be of the mapped block; the code finds it by the ROM address, which is the same
while the tables agree. Left out: the byte-wise "safe" DMA path, transfers that
wrap the ROM's mirror, yielding, which the Makefile compiles out
(`GBAR3_IRQ_YIELDING`), code in work memory and in the static ROM, games with
the JIT switched off, and which lines of a block are mapped.

`RomReader` has no cache: a reader asks for a block, is given it, and may use it
until it lets go; the lines mapped for execution show one block; a patch of the
static ROM stays. The mapping reads these out of the code's state: a context has
been given a block while it holds a pointer that the guard range or the tabu
stack protects (a pointer that nothing guards is promised nothing), the mapped
block is the ROM block in the cache block `alias`, and the patches are what the
patched cache blocks hold.

### SaveScheduler

`saveState` with every read and write of either processor as a step of its own;
the ARM9's view of it through its write-through cache (`view`:
`MemoryProtectionConfiguration.cpp:13-19` caches main memory, only
`VBlankIrq.s:44` invalidates the line); the patched instruction as
`skipCheck`; the save RAM and the file byte by byte; the ARM7's loop with the
MCU's flag and mask; the fault screens, after which the ARM9 only waits. In DSi
mode no write happens in play, the exit writes. `rtcWorkStackBusy` is not a
variable: its handler runs masked, so it is never set on entry. Left out: sound
muting, the path of the Nitro emulator, opening and padding the file at boot.

`SavedGame` is a game in memory and the saved one: a write copies all of it at
once, or fails; the player is told of a failure; the console switches itself off
with nothing unsaved, or after the player, told of the failure, asked again. Under
the mapping a store is unsaved from the guest's mark of it, a write begins when
the handler enters it without a fault, and a failure is known to the player when
the ARM9 has seen it.

### RtcJournal

Each slot has a status (absent, valid, damaged, ...) and a record; `LoadState`
selects, `GuestChanges` makes the clock dirty, `FlushStateIfDirty` to
`Readback` write the next record to another slot and read it back, with a
failure action beside each, `PowerOff` may fall between any two, and a torn
write leaves the old record, a damaged one or the new one. `Downgrade` is the
older program changing its own file, only while this one is off. Sequence
numbers wrap at `2 * Half`. A record stands for its 200 bytes; the checksum and
header checks are what gives the status.

### VmCpu

The guest's registers live in the DS's user bank and in words at the offsets of
`VMDtcmDefs.inc`; each mode switch is the `ldm`/`stm` sequence of its handler
(`StmFile`, `LdmFile`, `ModeSwitch`), so that a wrong offset moves a wrong word.
The interrupt side has the DS's IE/IF and the three masks
(`forced`, `hwMask`, emulated), `UpdateIrqs` (EmuIrqs.s), devices, nested
windows of the handlers, and `vm_irq` in three steps (`Gather`, `Resume`,
`Enter`). The guest is assumed to use SPSR only in modes that have one, to write
the control bits only in privileged modes (the code does not check), and not to
unmask in IRQ mode, because `vm_irq` takes the stack pointer of that mode from
the saved copy; section 5 names the lines. Left out: condition flags, T and F
bits, MRS, undefined instructions that are not MSR or returns, the BIOS epilogue
and the forced H-blank interrupts with their line filter.

### DmaChannels

A handler of the emulator does not look at the channels: starting a channel
patches a call into a slot of the handler, stopping it puts the nop back. The
slots (`hSlots`, `vSlots`, `sSlots`), the instructions that skip all of them
(`hSkip`, `vJump`), the flags of `dma_state`, the bits of `vm_forcedIrqMask` and
the H-blank enable of the DS are variables of their own, changed by the guest's
stores to the control registers and to DISPSTAT and by the handlers of H-blank,
V-blank and the ARM7. An immediate transfer is two steps (`busy`), since it
alone lets interrupts in. `GbaDma` is the table of channels the game believes
in. Addresses, counts and the data moved are left out (SdCache has the pointer
into the cache). As in the code a channel of sound belongs to a fixed FIFO, and
a mode changed while a channel is enabled keeps the occasion it was started with.

### DirectSound

One ring of eight words (`Half` is a refill), the offset of each processor,
`dmaRequest`, and the interrupt between them, with every access to shared memory
a step: the ARM9's guest stores, resets (`ResetRead`, `ResetWrite`), starts and
stops of the channel (`Arm`, `Forget`, `Disarm`) and `dma_dmaSound` word by word;
the ARM7's `updateDirectChannel` as `ReadReadOffset`, `ReadWriteOffset`,
`Request`, `Trigger`, `Play`, `Advance`. A word is new or old: whether it is
still to be played. Both processors' stores are seen in program order. Two
history variables say what a request was based on, `order` and `echoes` what
was played that should not be. Left out: volume, the samples within a word
(`NextSample` may end an iteration at any of them), master enable, stores of 8
and 16 bits, the second channel, whose request reaches the same handler
(`Arm7Irq` may come without `irq`), and the timer's settings. A refill whose
destination is not this ring, or whose source cannot be read, is `NoData`.

### GbSound

A channel of any of the four kinds: length, envelope or wave volume, frequency,
sweep, the wave's bank and enable, the mixer's bits, and what the DS hardware has
been told (`on`, `heard`, `timer`). `Write` has a register write of each kind as
in `gbs_writeReg`, `Clock` a tick of the frame sequencer with its three parts in
order. The messages of the sound FIFO and the sequencer's timer are handled on
the ARM7 by interrupts that do not nest, so each is one step. A message of two
registers is two writes here, which allows a tick between them and so more than
the code does within one message, and exactly what it does between two. Widths
are constants. Left out: duty, the noise's width and the samples of the wave.

## 3. The runs

| Run | Question | Distinct states | Notes on the bounds |
|---|---|---|---|
| `fsipc` | memory ownership, mailbox, earned success, refinement, calls return | 147,104 | transfers of one and two sectors, aligned and bounced, two values to tell contents apart; sequence numbers modulo 3 and a nibble modulo 2, so that both wrap and a stale nibble matches |
| `sdc_game` | the tables, pointers, patches and code; loads end | 339,952 | three ROM blocks of which one is code, four cache blocks of which one is patched, one block past the file, DMA of two |
| `sdc_late_hit` | (finding) | 2,813 | |
| `save_game` | no store, failure or exit is lost; liveness | 260,588 | two bytes, three stores, three button events, a wait of two frames, all faults, both consoles and save types |
| `save_consent`, `save_fatfs` | (findings) | 35,117, 184 | the smallest that show them |
| `rtc_journal` | recovery from any card | 243,340 | numbers modulo 6, any three of the eight records of `MCFiles` or unreadable files, two writes, two power cuts |
| `vm_irq` | interrupt delivery and the controller the guest sees | 206,112 | two devices, one required by the emulator, one emulated source, the sound interrupt; two modes |
| `vm_banks` | every bank through every switch; delivery in the end | 117,958 | all seven modes, one written register per behaviour, one emulated source |
| `dma_channels` | slots, flags and masks agree; the channels a game sees | 97,746 | three channels, two of them of sound; every mode, with and without repetition and interrupt |
| `direct_sound` | the ring's order and its requests; a request is answered | 799,696 | a ring of four words, refills of two |
| `gb_sound` | counters, converters, hardware registers; a note ends | 261,248 | all four kinds, three volumes, lengths of one or two, two frequencies below the limit 4 |

Deadlock is checked in `fsipc`, `vm_irq`, `vm_banks`, `dma_channels`,
`direct_sound` and `gb_sound`. The others may stop: the console is off, a fault
screen stands, or a bound is used up.

### Why these bounds show the interesting cases

* FsIpc: two contexts are all there are (handlers do not nest). Three sequence
  numbers leave, with 0 skipped, two: every second transaction repeats one, and
  with a nibble of two values every stale completion can match it.
* SdCache: a random victim must be able to be the tabu block, the block behind a
  patch, the block mapped for execution and a DMA source; four cache blocks hold
  them with one to spare. One ROM block of code is patched, mapped, evicted for
  another and loaded again, into the same or another cache block. `LoadsEnd`
  needs fewer DMA blocks than usable cache blocks, as the code does
  (`SdCache.c:193`).
* SaveScheduler: two bytes show a file that mixes two stores; three stores put
  one before, one during and one after a write. An exit can be delayed for ever
  by a guest that stores in every frame; the bound on stores excludes that, and
  `ExitIsAnswered` is to be read with it.
* RtcJournal: six numbers are the least for which "newer" is not transitive
  over three slots. Two cuts put one in the write that follows a recovery.
* VmCpu: a required and a free device, one emulated source and one acknowledged
  by the DS are the four classes that `EmuIrqs.s` and `RegIeIf.s` tell apart.
  In vm_banks each register starts with a value of its own, so any misplaced
  word shows in the refinement.
* DmaChannels: two channels of the same occasion show a mask that goes with the
  first of them; a third, which is not of sound, one that outlives them.
* DirectSound: a full ring looks empty, and half of it is the threshold; with
  two words in a half, empty, below half, half, above half and full differ.
* GbSound: a counter needs the values 0, 1 and one more; the sweep a frequency
  that stays below the limit when it is raised and one that does not.

### Fairness

* FsIpc: the ARM7 is a processor of its own and its thread is woken by a
  sticky event (weak). A handler, once entered, runs to its end (weak). Main
  gets strong fairness for the steps it takes with interrupts on: handlers
  leave it some instructions between two interrupts.
* SdCache: a transaction ends (what `CallsReturn` shows below); the handler
  runs on (weak); main's steps are strongly fair for the same reason.
* SaveScheduler: the V-blank of the display, the ARM7's loop, a marked store's
  next instruction and a handler that was entered.
* VmCpu: between two guest instructions the DS takes a pending interrupt
  (strong, since a handler may disable it in between); `vm_irq` and the
  windows of handlers run on; a handler's window ends.
* RtcJournal, DmaChannels: only safety, no fairness.
* DirectSound: a processor that has begun a handler goes on (weak), and the ARM9
  takes an interrupt that waits between two stores of the guest (strong, since
  the guest may mask it for a while). No timer has to overflow.
* GbSound: the sequencer's timer ticks (weak). `FallsSilent` supposes a guest
  that leaves the registers alone from some time on; it is free not to.

No property assumes fairness of the guest, of the power button or of failures.

### What the runs show

* fsipc: in every order of two contexts and the ARM7, the ARM7 holds a buffer
  only while its owner is inside the call (`BufferLifetime`), the one-place
  mailbox is never overwritten (`MailboxNeverOverwritten`), SUCCESS is reported
  only for sectors that moved (`SuccessIsEarned`), nobody else touches memory
  given away (`OwnedMemoryUntouched`), and callers see `SectorStore`: the
  sectors of a request move once, in order, whatever the other caller does.
* sdc_game: tables inverse (`TablesAgree`), no block mapped before it is loaded
  (`MappedIsLoaded`), the outstanding fetch belongs to a live frame
  (`FetchIsOwned`), a guarded pointer stays good (`PointersHold`), the bits and
  the mapped lines are those of the code that is in the block (`CodeIsCurrent`:
  neither outlives it, and no bit of patched code is lost), patches stay
  (`PatchesStay`), loads end (`LoadsEnd`), and readers and the guest see a
  `RomReader` (`ImplementsRomReader`): the block asked for, until they let go.
* save_game: CLEAN means that file and RAM are equal (`CleanMeansSaved`); the
  player sees a `SavedGame` (`ImplementsSavedGame`: the bytes and the four steps
  of the state word are one write to him, no exit passes for clean after a failure
  or over unsaved data); stores reach the card; exits are answered.
* rtc_journal: `SelectsTheNewest` compares the loops of `SelectModern` with the
  arc they are meant to find; `RestartRecovers`: every later start finds the
  record last relied on or its successor, in a journal that is not blocked;
  the selected record survives each write, a clean flush is on the card,
  damaged slots and consents are left as found; a `DurableCell` is implemented.
* vm_irq, vm_banks: `PendingIsLatched` (a wanted request always has a DS
  interrupt pending that leads to `vm_irq`), `HandlersKeepTheGuest`,
  `RequestsAreDelivered` (no request stays wanted and pending for ever), and
  all of it behaves like `GbaCpu`. Of the bits that move between the two REG_IFs this
  shows that none is lost; one that moved twice would look like a new request,
  which `GbaCpu` allows whenever the source is on.
* dma_channels: `SlotsFollowFlags` (every slot, skip instruction and flag says
  the same, in whatever order channels are started and stopped), and
  `ImplementsGbaDma`: an occasion moves exactly the channels that wait for it,
  with their interrupts, and the DS's H-blank interrupt is on while the guest or
  a channel wants it.
* direct_sound: no request goes unannounced (`RequestIsAnnounced`: the ARM7 would
  not repeat it, and the channel would be silent for good), and each is answered
  (`RequestIsAnswered`); a refill asked for on a current level fits
  (`RefillFits`); words are played once and in order unless the ARM7 was at work
  during a reset or was overrun, and then fewer than two rings of old words are
  heard (`EchoesEnd`).
* gb_sound: no counter of a playing channel is stuck at 0 (`NothingStalls`),
  nothing plays with its converter off (`DacIsOn`), the DS's volume and timer
  registers are what the guest's say (`RegistersAreSet`), a note of limited length
  ends (`FallsSilent`).

The inductive invariants of the proofs, and the properties that only follow from
them (`WriteIsNotRevoked`, `DiscardIsSecondRequest`, `RequestsStay`,
`OneOccasion`, `IrqsFollowNeeds`, `CleanExitIsSaved`, `NoCleanExitAfterFailure`),
were checked by TLC on the same instances before they were proved; `Echoes` of
DirectSoundProofs for halves of one, two and three words, `VictimIsLeft` for 4
and 5 blocks, and the theorems on progress (`WaitsAreAnswered`, `CallsAreFinite`,
`SavesAge`, `NotesKeepTime`) and `HeardUnlessReselected` on their component's instance. They are not in the
configurations any more: the theorems say more.

## 4. The proofs

The eight `*Proofs` modules hold for every value of the constants that satisfies
the named assumption of the component (`ConstantsAssumption`, `SdConstants`,
`SaveConstants`, `JournalConstants`, `VmConstants`,
`DmaConstants`, `RingAssumption`, `GbConstants`); TLC evaluates the
assumptions in the runs. Each has the same plan: an invariant `IndInv` (`Inv` in
FsIpc) that TLC checked first, one lemma for every action, the invariance theorem
and its corollaries; then the action properties from it.

| Module | Inductive invariant, and why the properties are not inductive alone | Theorems |
|---|---|---|
| `FsIpcProofs` | adds the stages of a call, what the outstanding transaction looks like from both sides, that who lost its token finds it completed, and the ARM7's progress: a stale notification is harmless only because the completion's sequence differs from the present one while a message is on its way. For the refinement, `BounceInv` adds that the bounce buffer is its owner's and a retired token has the driver's answer. For progress, `AnswerInv` adds who each wait is for, and `Variant` counts the steps a call has left | `InvHolds`, `TypeCorrect`, `BuffersOutliveTransfers`, `MailboxSafe`, `SuccessEarned`, `OwnedMemorySafe`, `SomebodyGoesOn`, `EveryCallIsFinite`, `BounceInvHolds`, `Refinement` (`Spec => ImplementsSectorStore`) |
| `SdCacheProofs` | adds what a frame and a tabu mark mean in each stage (`FetchInv`, `TabuInv`): a handler that finishes main's fetch must leave main's frame consistent. For code, `CodeInv` adds that nothing is written into a block with a bit or a mapped line, and that the pointer code is patched through is to a mapped block; for patches, `PatchInv` that a patched block is beyond the victims' range and no load in progress is for what it holds. For the refinement, `ReaderInv` joins these: what a context has been given is in the block it points to, so that a load changes no block that another context may use. That a victim is left is a count: all but one of the blocks without patches can be drawn, and a suspended DMA forbids no more than it reads (`FewForbidden`) | `IndInvHolds`, `TablesStayInverse`, `NothingFalsePublished`, `NoDanglingToken`, `GuardedPointersHold`, `CodeStaysCurrent`, `PatchesStayMapped`, `AVictimIsLeft`, `Refinement` (`SafeSpec => ImplementsRomReader`) |
| `SaveSchedulerProofs` | adds which old values either processor may still act on (`HandlerInv`, `LatchInv`, `RequestInv`): the state read before a store of the other processor. `AgeLeft` counts the frames a store waits, across a state the ARM7 has decided on and not yet written | `IndInvHolds`, `Typed`, `NoStoreIsLost`, `FailureAndWriteAreKept`, `ExitIsSafe`, `FailedNeverClean`, `StoresAge`, `Refinement` (`Spec => ImplementsSavedGame`) |
| `RtcJournalProofs` | adds that the known record or its successor is selected by every start (`KnownInv`), and what memory knows of the card in each step of a write (`MemoryInv`, `WriteInv`); the number circle enters through two lemmas, `NextIsNewer` and `NewerIsStrict`. For the refinement, `KeptInv` adds that while a slot may be opened no slot is ahead of the record the write follows. That the selection is right needs the types alone, and two lemmas on distances along an arc | `IndInvHolds`, `EveryRestartRecovers`, `SelectedRecordSurvives`, `CleanMeansKept`, `DamageStays`, `PendingStays`, `SelectionIsRight`, `KeptInvHolds`, `Refinement` (`Spec => ImplementsDurableCell`) |
| `VmCpuProofs` | adds `Announced`: a wanted request that the emulator already holds is announced by the geometry engine, an interrupt the guest cannot acknowledge; without it the guest's acknowledgement of a device's interrupt would seem to lose it. For the refinement, `MaskedInIrq` adds that an interrupt never finds the guest in IRQ mode, and `ModeSwitchKeeps`, `ToIrqKeeps` and `ToSvcKeeps` show of all 36 switches and both tables that each of the 22 registers keeps its value | `IndInvHolds`, `TypeCorrect`, `DsIsEnabled`, `NoInterruptIsLost`, `HandlersAreNotInterrupted`, `RequestsAreKept`, `MaskedInIrqHolds`, `Refinement` (`Spec => ImplementsGbaCpu`) |
| `DmaChannelsProofs` | adds that a channel waits for one occasion at most (`OneOccasion`), that the masks follow the flags (`IrqsFollowNeeds`) and that the channel of an immediate transfer waits for none (`BusyIsIdle`): a handler may otherwise find a slot that its channel's stop did not clear | `IndInvHolds`, `OneOccasionHolds`, `SlotsAgree`, `IrqsAgree`, `Refinement` (`Spec => ImplementsGbaDma`, step by step) |
| `DirectSoundProofs` | adds what the ARM7's copies of the offsets are worth (`InOrder`, `Room`): a level read is still a lower bound while only the ARM9 adds words, and a request on a current level leaves room for its refill. For the bound on what is played again, `Echoes` says how many old words lie between the two copies of an offset, after a reset that the ARM7 stored over as well | `IndInvHolds`, `RequestsAnnounced`, `RefillsFit`, `WordsInOrder`, `EchoesAreBounded` |
| `GbSoundProofs` | adds that the envelope's dead state is the one its registers give (`EnvelopeAgrees`), that the hardware plays when the channel does (`HardwareAgrees`) and the timer is the frequency's (`TimerAgrees`). `TicksLeft` counts the sequencer's ticks to the end of a limited note; `FirstPairPlays` adds that every note has the first pair | `IndInvHolds`, `Counting`, `Converting`, `RegistersFollow`, `BanksAreHeard`, `NotesLast` |

`SafeSpec` is the specification without its fairness; `Spec` implies it.

The six refinements are proved for every behaviour of the detailed
specification: `Init` implies the abstract initial predicate under the mapping,
and each action is matched by an abstract action or leaves the mapped state as it
is (`StepsRefine`, from one lemma per action or group of actions).

Every invariant and action property that a passing run checks is a theorem.
Model-checked only is all liveness (`CallsReturn`, `LoadsEnd`,
`StoresReachTheCard`, `ExitIsAnswered`, `RequestsAreDelivered`,
`RequestIsAnswered`, `FallsSilent`), which with ENABLED and induction over data is
out of the prover's reach. No module uses a RECURSIVE operator. Of five of them the
part that does not depend on fairness is proved, for every value of the constants:

* `CallsReturn`: a context in a call never waits for nothing (`SomebodyGoesOn`), and
  every step but the beginning of a call lowers `Variant` (`EveryCallIsFinite`), so
  that a call can only fail to return if a processor stops taking steps or
  handlers never stop beginning calls of their own.
* `LoadsEnd`: the search for a victim does not run round for ever
  (`AVictimIsLeft`). The theorem assumes `MaxDma < LastCache - MaxPatched`: the code
  has 256 blocks and a DMA transfer reads at most 65, so that 189 blocks with patches
  are allowed. The settings are not limited (`JsonAppSettingsSerializer.cpp:182`);
  those in `configs/` list 32 addresses at most. The run's cache is smaller than
  the theorem asks, and there TLC checks the liveness itself.
* `StoresReachTheCard`: what the file lacks is ageing, requested or the subject of a
  failure, and on a DS its age, at most `WaitFrames + 1` passes of the ARM7, goes
  down by one in each, unless the game stores again (`StoresAge`). A game that stores
  every frame postpones its save for ever: the run ends that with `MaxStores`.
* `RequestsAreDelivered`: a request is kept until it is acknowledged or its source
  disabled (`RequestsAreKept`), with a DS interrupt pending for it.
* `FallsSilent`: a limited note has `2 * length` ticks or one less, each tick takes
  one, and only the length register changes the count (`NotesLast`).

## 5. What the checks found

Three runs show the code doing other than what the repository says. Each checks
one property and ends in a counterexample; `PROJECT.json` quotes the lines.

1. `sdc_late_hit`: `loadRomBlock` returns a block it finds mapped without making
   it tabu (`SdCache.c:175-180`), and a handler that runs before
   `vm_disableNestedIrqs` may replace it. `SdCache.h:24` promises a pointer to
   the block. The caller must have been preempted by two loads of handlers.
2. `save_consent`: a button event raised while an exit was still saving is taken,
   one frame after the save failed, for consent to discard
   (`arm7/main.cpp:145-146` against `:189`).
3. `save_fatfs`: the V-blank handler writes the clock file within a FatFs call of
   a file-backed save; `FF_FS_REENTRANT` is 0.

Seen while modelling, without a run that compares them with a claim of the
repository:

* On the clock's fault screen ("HOLD POWER TO TURN OFF", `RtcFault.cpp:53`) an
  unwritten store keeps the power button from working: `rtc_persistenceFault`
  stops the ARM9 without touching `saveState`, so the ARM7 waits for a write
  that nobody will do. In SaveScheduler this is a state in which the power
  button's exit stays pending; `ExitIsAnswered` leaves it out.
* A reset of a FIFO while the ARM7 is in `updateDirectChannel` lets the ARM7
  store its own increment over the 0, and up to two rings of old words are
  played (`EchoesEnd` has the bound).
* A refill that ends between the ARM7's look at the offsets and its look at
  `dmaRequest` brings a second one; the words of it may overtake the ARM7.
* `gbs_updateSweep` writes the new frequency of a downward sweep with shift 0 as
  well, which makes it 0, though `GbSound.c:611` says "only if shift is
  non-zero"; and the sweep runs on in a channel that has stopped.
* Channel 3 started in the 64-sample mode and then switched to 32 samples of
  bank 1 plays and is silent: its volume goes to a pair that was not started
  (`GbSound.c:310-319`, `:391-413`), though `GbSound.c:544` says that a channel which
  is not disabled puts out its waveform. `RegistersAreSet` speaks of the volume and
  timer registers and is true of that state; `BanksAreHeard` is the theorem that
  nothing else silences a note in this way, and that the next trigger ends it.
* `hic_mapRomBlock` maps a block that it had to load, and whose bits are cleared
  with that, without patching it (`HiCodeCacheMappingC.c:102`): the JIT sees the
  block at the next branch into it. So `CodeIsCurrent` says what the bits mean,
  not that the guest executes patched code only.
* NR44 sets no timer, so noise triggered before the first NR43 plays with an
  unset one.

Documented restrictions the models reproduce and the properties respect: two
damaged slots beside the selected one block every write, and a torn write
beside a pending record blocks the next start
(`docs/rtc-legacy-compatibility.md`).

Lines that narrow the virtual processor: `vm_irq` uses the
saved stack pointer of IRQ mode (`VMIrq.s:57`), an SPSR written in system mode
lands in a word of another bank (`VMUndefinedMsr.s:107`), and a request whose
source is switched off may vanish, which `GbaCpu` allows.

## 6. What is not modelled

* Vendored code: FatFs, the SD/eMMC driver, tlsf, ArduinoJson, libtwl. Their
  effects are external actions (a transfer, write or read that succeeds or fails).
* Instruction decoding (`MemoryEmulator/Arm`, `Thumb`, the JIT's decoders, the
  ALU forms of `VMUndefined*`): pure functions of one instruction, without
  state between two.
* Display: register layout, palettes, capture, borders, the GUI, splash screen.
* Settings and game configurations: data.
* Start-up order, memory protection regions: straight-line initialisation.
* Time: cycles, scan lines, sample rates.

`PROJECT.json` gives the status of each component and the reason.

Within the modelled components, section 2 says what each module leaves out.

Every hazard in `PROJECT.json` has a property. These have none, and are not
listed there:

* for modules of the plan: a timer message is sent without waiting for room
  (`Timers.s:83`) and bit 15 of a timer is rebuilt from the last read
  (`Timers.s:33`); a tag across the scanner's refill (`SaveTagScanner.cpp:63`);
  two signatures of which one is found (`SaveEeprom.cpp:43`); a clock command
  abandoned within a byte (`RomGpioRtc.cpp:562`);
* a 32-bit sound register goes in two messages (`GbaSound9.c:133`): GbSound
  allows the tick between them, but no property is about the pair;
* with a file-backed save the ARM7 switches the console off at once
  (`GbaSaveIpcService.cpp:66`), perhaps between two of the calls with which one
  EEPROM word reaches the file (`SaveEeprom.cpp:34`): the code makes no promise
  about it that could be checked;
* guests the models exclude: one that unmasks interrupts in IRQ mode
  (`VMIrq.s:57`), one that writes SPSR where there is none
  (`VMUndefinedMsr.s:107`);
* the clock's fault screen with an unwritten store (`RtcFault.cpp:92`, section 5);
* `eraseFlashChip` erases `sizeof(gSaveData)` bytes, less than a chip
  (`SaveFlash.cpp:76`): which part of a save this loses depends on data that the
  model of the save does not have.

## 7. Plan

The twelve runs and forty-three properties are what can be checked on every change, so
a step that adds one says which makes room for it.

1. The sub-blocks and tags of the high-code mapping, and the JIT's state for code
   in work memory, beside the bits and lines that `SdCache` has.
2. Theorems: `DirectSound` as the implementation of a bounded queue while its
   order is kept.
3. `RtcChip` (bit-serial commands, calendar as a recursive function checked over
   bounded dates) composed with `RtcJournal` through the dirty flag.
4. `TagScanner`, `SignatureSearch`, `TimerRead`: pure algorithms as functions
   against a reference definition, in one run.
5. H-blank's forced interrupts and the line filter in `VmCpu`, composed with
   `DmaChannels` through `vm_forcedIrqMask`.
6. The second channel and the timers in `DirectSound`, with the messages that
   restart a timer while it plays.
