---------------------------- MODULE SaveScheduler ----------------------------
(***************************************************************************)
(* How a change of the save RAM reaches the card, and how the console is    *)
(* switched off, in GBARunner3 (Save/Save.cpp, Emulator/VBlankIrq.s,        *)
(* MemoryEmulator/MemoryStore8.s; ARM7: GbaSaveIpcService.cpp, main.cpp).   *)
(*                                                                         *)
(* The two processors share one byte, saveState.  The ARM9 marks it DIRTY   *)
(* on a guest store and CLEAN after writing the file, the latter in its     *)
(* V-blank handler, which looks at it only after an instruction that skips  *)
(* the check has been patched out.  The ARM7 ages DIRTY to WAIT and WRITE,  *)
(* once a frame, and asks for WRITE at once when a button requests an exit. *)
(* Neither takes a lock: a read and the write that follows it are separate  *)
(* steps here.  The ARM9 reads through a write-through cache that only      *)
(* VBlankIrq.s:44 invalidates, so its other reads may return an old value.  *)
(*                                                                         *)
(* Main memory, the file and the fault screens survive in no way beyond     *)
(* the power-off; the sound volume the ARM7 mutes is left out.              *)
(***************************************************************************)
EXTENDS Integers

CONSTANTS
    Bytes,       \* addresses of the save RAM
    SaveTypes,   \* the kinds of save: "sram" in main memory, "file" by SWIs
    Consoles,    \* "DS" or "DSi": the latter has the button, no write in play
    WaitFrames,  \* SAVE_WAIT_FRAMES
    Faults,      \* which file operations may fail
    MaxStores,   \* bound: guest stores that change the save RAM
    MaxPresses   \* bound: events of the power button

ASSUME SaveConstants ==
    /\ SaveTypes \subseteq {"sram", "file"}
    /\ Consoles \subseteq {"DS", "DSi"}
    /\ WaitFrames \in Nat \ {0}
    /\ Faults \subseteq {"save", "rtc", "card"}
    /\ MaxStores \in Nat
    /\ MaxPresses \in Nat

VARIABLES
    saveType,    \* what sav_initializeSave has found
    console,     \* what isDSiMode tells
    saveState,   \* gGbaSaveShared.saveState
    skipCheck,   \* emu_vblankIrqSkipSaveCheckInstruction is the branch
    ram,         \* gSaveData
    file,        \* the .sav file
    rtcDirty,    \* gRomGpioRtcStateDirty
    vblank9,     \* the V-blank interrupt is pending on the ARM9
    guest,       \* where the interrupted ARM9 code is
    handler,     \* where the V-blank handler is
    view,        \* what the ARM9 last read of saveState, as its cache holds it
    fault,       \* the screen, or the loop, the ARM9 has stopped in
    event7,      \* sVBlankEvent
    pc7,         \* where updateArm7 is
    latch7,      \* the state the ARM7 has decided to write
    waitCounter, \* _saveWaitCounter
    state7,      \* sState
    exitMode,    \* sExitMode
    faultSeen,   \* sSaveFaultSeen
    mcuFlag,     \* sMcuIrqFlag
    mcuMask,     \* the events the MCU reports, with what the user knew
    power,       \* "on", or why performExit was called
    request,     \* history: the event checkMcuIrq last took for a request
    stores,      \* how many stores were made
    presses      \* how many button events there were

arm9Vars == <<vblank9, guest, handler, view, fault, skipCheck, rtcDirty, stores>>
dataVars == <<ram, file>>
arm7Vars == <<event7, pc7, latch7, waitCounter, state7, exitMode, faultSeen, request>>
mcuVars == <<mcuFlag, mcuMask, presses>>
setupVars == <<saveType, console>>
vars == <<setupVars, saveState, dataVars, arm9Vars, arm7Vars, mcuVars, power>>

\* EEPROM and FLASH saves: saveDataSize is 0, and the ARM7 sees no buffer.
FileBacked == saveType = "file"
DsiMode == console = "DSi"

Values == 0 .. 1
States == {"CLEAN", "DIRTY", "WAIT", "WRITE", "ERROR"}
Buttons == {"Reset", "PowerOff"}
Knowledge == {"none", "early", "informed"}

Arm9Runs == power = "on" /\ fault = "none"
GuestRuns(where) == Arm9Runs /\ handler = "off" /\ guest = where
HandlerAt(where) == Arm9Runs /\ handler = where
Arm7At(where) == power = "on" /\ pc7 = where

-----------------------------------------------------------------------------
(* The ARM9 outside its V-blank handler.  Guest stores are emulated in an   *)
(* abort handler, with interrupts masked.                                   *)

\* A store is marked whatever the state was, unless a write has failed.
Marked == IF view # "ERROR" THEN "DIRTY" ELSE saveState

\* memu_store8Sram up to its load of the state; the state may come from the
\* cache.  A byte that does not change returns without a trace.
GuestStore(b, v) ==
    /\ GuestRuns("run") /\ ~FileBacked
    /\ stores < MaxStores
    /\ ram[b] # v
    /\ ram' = [ram EXCEPT ![b] = v]
    /\ view' \in {view, saveState}
    /\ guest' = "mark"
    /\ stores' = stores + 1
    /\ UNCHANGED <<setupVars, saveState, file, vblank9, handler, fault, skipCheck,
                   rtcDirty, arm7Vars, mcuVars, power>>

\* The rest of memu_store8Sram.
MarkDirty ==
    /\ GuestRuns("mark")
    /\ saveState' = Marked
    /\ view' = Marked
    /\ skipCheck' = FALSE
    /\ guest' = "run"
    /\ UNCHANGED <<setupVars, dataVars, vblank9, handler, fault, rtcDirty, stores,
                   arm7Vars, mcuVars, power>>

\* RomGpioRtc::MarkStateDirty, from a guest store to the cartridge's pins.
GuestSetsRtc ==
    /\ GuestRuns("run")
    /\ rtcDirty' = TRUE
    /\ skipCheck' = FALSE
    /\ UNCHANGED <<setupVars, saveState, dataVars, vblank9, guest, handler, view, fault,
                   stores, arm7Vars, mcuVars, power>>

\* A SWI of a file-backed save enters FatFs with nested interrupts enabled.
EnterFileSwi ==
    /\ GuestRuns("run") /\ FileBacked
    /\ guest' = "file"
    /\ UNCHANGED <<setupVars, saveState, dataVars, vblank9, handler, view, fault,
                   skipCheck, rtcDirty, stores, arm7Vars, mcuVars, power>>

LeaveFileSwi ==
    /\ GuestRuns("file")
    /\ guest' = "run"
    /\ UNCHANGED <<setupVars, saveState, dataVars, vblank9, handler, view, fault,
                   skipCheck, rtcDirty, stores, arm7Vars, mcuVars, power>>

\* saveIoFailed, of which sav_persistenceFault never returns.
SaveIoFailed ==
    /\ "save" \in Faults
    /\ saveState' = "ERROR"
    /\ fault' = "save"
    /\ UNCHANGED <<setupVars, ram, vblank9, guest, handler, view, skipCheck, rtcDirty,
                   stores, arm7Vars, mcuVars, power>>

FileSwiFails == GuestRuns("file") /\ SaveIoFailed /\ UNCHANGED file

\* A ROM block cannot be read: sdc_storageFault stops the ARM9 on the spot.
RomReadFails ==
    /\ GuestRuns("run") /\ "card" \in Faults
    /\ fault' = "card"
    /\ UNCHANGED <<setupVars, saveState, dataVars, vblank9, guest, handler, view,
                   skipCheck, rtcDirty, stores, arm7Vars, mcuVars, power>>

-----------------------------------------------------------------------------
(* The V-blank handler of the ARM9: it runs to completion.                  *)

\* The state in which the handler writes the file.
Writable == {"WRITE"}

\* checkSaveWrite; the state is read past the cache.
EnterVBlank ==
    /\ Arm9Runs /\ handler = "off" /\ guest \in {"run", "file"}
    /\ vblank9 /\ vblank9' = FALSE
    /\ IF skipCheck
       THEN UNCHANGED <<handler, view>>
       ELSE /\ view' = saveState
            /\ handler' = IF saveState \in Writable \/ rtcDirty THEN "pending" ELSE "off"
    /\ UNCHANGED <<setupVars, saveState, dataVars, guest, fault, skipCheck, rtcDirty,
                   stores, arm7Vars, mcuVars, power>>

\* sav_writePendingFiles up to the write of the save.
WritePendingFiles ==
    /\ HandlerAt("pending")
    /\ \E v \in {view, saveState} :
        IF v = "ERROR"
        THEN SaveIoFailed /\ UNCHANGED file
        ELSE /\ handler' = IF v \in Writable THEN "save" ELSE "rtc"
             /\ view' = v
             /\ UNCHANGED <<setupVars, saveState, dataVars, vblank9, guest, fault,
                            skipCheck, rtcDirty, stores, arm7Vars, mcuVars, power>>

\* What an incomplete write leaves in the file.
PartlyWritten ==
    {f \in [Bytes -> Values] : \A b \in Bytes : f[b] \in {file[b], ram[b]}}

\* Mutant: the count of written bytes is not compared with the size.
AcceptedShort == PartlyWritten

\* What sav_writeSaveToFile accepts as a success.
Accepted == {ram}

\* sav_writeSaveToFile succeeds.
SaveWritten ==
    /\ HandlerAt("save")
    /\ file' \in Accepted
    /\ saveState' = "CLEAN"
    /\ view' = "CLEAN"
    /\ skipCheck' = TRUE
    /\ handler' = "rtc"
    /\ UNCHANGED <<setupVars, ram, vblank9, guest, fault, rtcDirty, stores, arm7Vars,
                   mcuVars, power>>

\* It fails, and some of the bytes have been written.
SaveWriteFails ==
    /\ HandlerAt("save")
    /\ file' \in PartlyWritten
    /\ SaveIoFailed

\* FlushRtcStateIfDirty: nothing to do, or a file is written.
FlushRtc ==
    /\ HandlerAt("rtc")
    /\ handler' = IF rtcDirty THEN "rtcFile" ELSE "resched"
    /\ UNCHANGED <<setupVars, saveState, dataVars, vblank9, guest, view, fault,
                   skipCheck, rtcDirty, stores, arm7Vars, mcuVars, power>>

RtcWritten ==
    /\ HandlerAt("rtcFile")
    /\ rtcDirty' = FALSE
    /\ handler' = "resched"
    /\ UNCHANGED <<setupVars, saveState, dataVars, vblank9, guest, view, fault,
                   skipCheck, stores, arm7Vars, mcuVars, power>>

\* rtc_persistenceFault: saveState is not touched.
RtcWriteFails ==
    /\ HandlerAt("rtcFile") /\ "rtc" \in Faults
    /\ fault' = "rtc"
    /\ UNCHANGED <<setupVars, saveState, dataVars, vblank9, guest, handler, view,
                   skipCheck, rtcDirty, stores, arm7Vars, mcuVars, power>>

\* Mutant: a save that was only postponed is forgotten after a clock write.
SkipsAfterRtc(v) == v # "WRITE"

\* The check is skipped again when there is nothing to write.
SkipsAgain(v) == v = "CLEAN"

\* The end of sav_writePendingFiles.
Reschedule ==
    /\ HandlerAt("resched")
    /\ \E v \in {view, saveState} : view' = v /\ skipCheck' = SkipsAgain(v)
    /\ handler' = "off"
    /\ UNCHANGED <<setupVars, saveState, dataVars, vblank9, guest, fault, rtcDirty,
                   stores, arm7Vars, mcuVars, power>>

-----------------------------------------------------------------------------
(* The ARM7: one pass of updateArm7 per V-blank.                            *)

VBlank ==
    /\ power = "on"
    /\ vblank9' = TRUE
    /\ event7' = TRUE
    /\ UNCHANGED <<setupVars, saveState, dataVars, guest, handler, view, fault,
                   skipCheck, rtcDirty, stores, pc7, latch7, waitCounter, state7,
                   exitMode, faultSeen, request, mcuVars, power>>

WakeUp ==
    /\ Arm7At("wait") /\ event7
    /\ event7' = FALSE
    /\ pc7' = IF state7 = "Idle" THEN "mcu" ELSE "exit"
    /\ UNCHANGED <<setupVars, saveState, dataVars, arm9Vars, latch7, waitCounter,
                   state7, exitMode, faultSeen, request, mcuVars, power>>

\* checkMcuIrq up to its swap of the flag.
CheckMcuIrq ==
    /\ Arm7At("mcu")
    /\ mcuFlag' = FALSE
    /\ pc7' = IF mcuFlag THEN "mask" ELSE "update"
    /\ UNCHANGED <<setupVars, saveState, dataVars, arm9Vars, event7, latch7,
                   waitCounter, state7, exitMode, faultSeen, request, mcuMask, presses,
                   power>>

NoEvents == [b \in Buttons |-> "none"]

\* The rest of checkMcuIrq: mcu_getIrqMask returns and clears what is pending.
ReadMcuMask ==
    /\ Arm7At("mask")
    /\ mcuMask' = NoEvents
    /\ \/ \E b \in Buttons :
            /\ mcuMask[b] # "none"
            /\ b = "PowerOff" => mcuMask["Reset"] = "none"
            /\ exitMode' = b
            /\ state7' = "ExitRequested"
            /\ request' = [knew |-> mcuMask[b], seen |-> faultSeen]
       \/ mcuMask = NoEvents /\ UNCHANGED <<exitMode, state7, request>>
    /\ pc7' = "update"
    /\ UNCHANGED <<setupVars, saveState, dataVars, arm9Vars, event7, latch7,
                   waitCounter, faultSeen, mcuFlag, presses, power>>

\* The states Update sends to WAIT.
Ages(s) == s = "DIRTY"

\* --_saveWaitCounter has reached 0.
Expired == waitCounter = 1

\* GbaSaveIpcService::Update reads the state, and decides.
Update ==
    /\ Arm7At("update")
    /\ \/ /\ ~FileBacked /\ ~DsiMode /\ Ages(saveState)
          /\ latch7' = "WAIT"
          /\ waitCounter' = WaitFrames
          /\ pc7' = "store"
       \/ /\ ~FileBacked /\ ~DsiMode /\ saveState = "WAIT"
          /\ waitCounter' = waitCounter - 1
          /\ latch7' = IF Expired THEN "WRITE" ELSE latch7
          /\ pc7' = IF Expired THEN "store" ELSE "error"
       \/ /\ FileBacked \/ DsiMode \/ ~(Ages(saveState) \/ saveState = "WAIT")
          /\ pc7' = "error"
          /\ UNCHANGED <<latch7, waitCounter>>
    /\ UNCHANGED <<setupVars, saveState, dataVars, arm9Vars, event7, state7, exitMode,
                   faultSeen, request, mcuVars, power>>

\* Update, or FlushSaveIfDirty, writes what it decided.
StoreState ==
    /\ power = "on" /\ pc7 \in {"store", "flushStore"}
    /\ saveState' = latch7
    /\ latch7' = "none"
    /\ pc7' = IF pc7 = "store" THEN "error" ELSE "wait"
    /\ UNCHANGED <<setupVars, dataVars, arm9Vars, event7, waitCounter, state7, exitMode,
                   faultSeen, request, mcuVars, power>>

\* The first sight of a failure drops a request that is already pending.
StateOnFirstError == "Idle"

\* The rest of updateArm7IdleState.
SeeSaveError ==
    /\ Arm7At("error")
    /\ IF saveState = "ERROR" /\ ~faultSeen
       THEN faultSeen' = TRUE /\ state7' = StateOnFirstError
       ELSE UNCHANGED <<faultSeen, state7>>
    /\ pc7' = "wait"
    /\ UNCHANGED <<setupVars, saveState, dataVars, arm9Vars, event7, latch7,
                   waitCounter, exitMode, request, mcuVars, power>>

\* updateArm7ExitRequestedState after an error: only a power-off may discard.
Discards == faultSeen /\ exitMode = "PowerOff"

\* Mutant: a save without a shared buffer is clean before its error is read.
FailedShared == saveState = "ERROR" /\ ~FileBacked

\* FlushSaveIfDirty looks at the error first: a file-backed save can fail too.
Failed == saveState = "ERROR"

\* updateArm7ExitRequestedState and FlushSaveIfDirty, up to its two returns
\* before the switch; performExit never returns.
Exit ==
    /\ Arm7At("exit")
    /\ \/ /\ Failed
          /\ IF Discards
             THEN power' = "discarded" /\ UNCHANGED <<pc7, state7, faultSeen>>
             ELSE /\ faultSeen' = TRUE
                  /\ state7' = "Idle"
                  /\ pc7' = "wait"
                  /\ UNCHANGED power
       \/ /\ ~Failed /\ FileBacked
          /\ power' = "clean"
          /\ UNCHANGED <<pc7, state7, faultSeen>>
       \/ /\ ~Failed /\ ~FileBacked
          /\ pc7' = "flush"
          /\ UNCHANGED <<power, state7, faultSeen>>
    /\ UNCHANGED <<setupVars, saveState, dataVars, arm9Vars, event7, latch7,
                   waitCounter, exitMode, request, mcuVars>>

\* The states FlushSaveIfDirty calls clean.
Written == {"CLEAN"}

\* The states FlushSaveIfDirty turns into WRITE.
Flushed == {"DIRTY", "WAIT"}

\* The switch of FlushSaveIfDirty.
Flush ==
    /\ Arm7At("flush")
    /\ \/ saveState \in Written /\ power' = "clean" /\ UNCHANGED <<pc7, latch7>>
       \/ /\ saveState \in Flushed
          /\ latch7' = "WRITE"
          /\ pc7' = "flushStore"
          /\ UNCHANGED power
       \/ /\ saveState \notin Written \union Flushed
          /\ pc7' = "wait"
          /\ UNCHANGED <<power, latch7>>
    /\ UNCHANGED <<setupVars, saveState, dataVars, arm9Vars, event7, waitCounter,
                   state7, exitMode, faultSeen, request, mcuVars>>

\* The MCU reports an event of the button; mcuIrq only sets the flag.
Press(b) ==
    /\ power = "on" /\ DsiMode
    /\ presses < MaxPresses
    /\ mcuFlag' = TRUE
    /\ mcuMask' = [mcuMask EXCEPT ![b] = IF saveState = "ERROR" THEN "informed" ELSE "early"]
    /\ presses' = presses + 1
    /\ UNCHANGED <<setupVars, saveState, dataVars, arm9Vars, arm7Vars, power>>

-----------------------------------------------------------------------------
Init ==
    /\ saveType \in SaveTypes
    /\ console \in Consoles
    /\ saveState = "CLEAN"
    /\ skipCheck = TRUE
    /\ ram = [b \in Bytes |-> 0]
    /\ file = ram
    /\ rtcDirty = FALSE
    /\ vblank9 = FALSE
    /\ guest = "run"
    /\ handler = "off"
    /\ view = "CLEAN"
    /\ fault = "none"
    /\ event7 = FALSE
    /\ pc7 = "wait"
    /\ latch7 = "none"
    /\ waitCounter = 0
    /\ state7 = "Idle"
    /\ exitMode = "Reset"
    /\ faultSeen = FALSE
    /\ mcuFlag = FALSE
    /\ mcuMask = NoEvents
    /\ power = "on"
    /\ request = [knew |-> "none", seen |-> FALSE]
    /\ stores = 0
    /\ presses = 0

Handler ==
    \/ EnterVBlank
    \/ WritePendingFiles
    \/ SaveWritten
    \/ SaveWriteFails
    \/ FlushRtc
    \/ RtcWritten
    \/ RtcWriteFails
    \/ Reschedule

Arm7 ==
    \/ WakeUp
    \/ CheckMcuIrq
    \/ ReadMcuMask
    \/ Update
    \/ StoreState
    \/ SeeSaveError
    \/ Exit
    \/ Flush

Next ==
    \/ \E b \in Bytes, v \in Values : GuestStore(b, v)
    \/ MarkDirty
    \/ GuestSetsRtc
    \/ EnterFileSwi
    \/ LeaveFileSwi
    \/ FileSwiFails
    \/ RomReadFails
    \/ Handler
    \/ VBlank
    \/ Arm7
    \/ \E b \in Buttons : Press(b)

SafeSpec == Init /\ [][Next]_vars

\* Frames go on; the ARM7 thread runs; the ARM9 finishes an emulated store
\* and takes its interrupts, which no guest can mask.
Fairness ==
    /\ WF_vars(VBlank)
    /\ WF_vars(Arm7)
    /\ WF_vars(MarkDirty)
    /\ WF_vars(Handler)

Spec == SafeSpec /\ Fairness

-----------------------------------------------------------------------------
(* Properties.                                                              *)

\* Every variable keeps to the values its C type and use allow.
TypeOK ==
    /\ saveType \in SaveTypes
    /\ console \in Consoles
    /\ saveState \in States
    /\ skipCheck \in BOOLEAN
    /\ ram \in [Bytes -> Values]
    /\ file \in [Bytes -> Values]
    /\ rtcDirty \in BOOLEAN
    /\ vblank9 \in BOOLEAN
    /\ guest \in {"run", "mark", "file"}
    /\ handler \in {"off", "pending", "save", "rtc", "rtcFile", "resched"}
    /\ view \in States
    /\ fault \in {"none", "save", "rtc", "card"}
    /\ event7 \in BOOLEAN
    /\ pc7 \in {"wait", "mcu", "mask", "update", "store", "error", "exit", "flush",
                "flushStore"}
    /\ latch7 \in {"none", "WAIT", "WRITE"}
    /\ waitCounter \in 0 .. WaitFrames
    /\ state7 \in {"Idle", "ExitRequested"}
    /\ exitMode \in Buttons
    /\ faultSeen \in BOOLEAN
    /\ mcuFlag \in BOOLEAN
    /\ mcuMask \in [Buttons -> Knowledge]
    /\ power \in {"on", "clean", "discarded"}
    /\ request \in [knew: Knowledge, seen: BOOLEAN]
    /\ stores \in 0 .. MaxStores
    /\ presses \in 0 .. MaxPresses

\* Between two handlers, whatever is still to be written has the V-blank check
\* switched on: a store that lands before, between or after the file writes of
\* a handler is never left to a check that is skipped.
CheckIsArmed ==
    Arm9Runs /\ handler = "off" /\ guest # "mark" /\ (saveState # "CLEAN" \/ rtcDirty) =>
        ~skipCheck

\* The state says CLEAN only when the file holds the save RAM: no order of the
\* ARM7's ageing and the guest's stores loses one.
CleanMeansSaved == saveState = "CLEAN" /\ guest # "mark" => file = ram

\* A failed write is never forgotten: a write the ARM7 decided on earlier does
\* not replace ERROR (MemoryStore8.s:123, GbaSaveIpcService.cpp:51).
FailureIsKept == fault = "save" => saveState = "ERROR"

\* When the console goes off as though all were well, every completed store is
\* in the file and the ARM9 is not in the middle of writing it.
CleanExitIsSaved ==
    power = "clean" => handler # "save" /\ (file = ram \/ guest = "mark")

\* Once a save has failed, on either kind of save, no exit passes for clean.
NoCleanExitAfterFailure ==
    [][power = "on" /\ saveState = "ERROR" => power' # "clean"]_vars

\* The ARM9 reads WRITE, then writes the file: in between nobody takes the
\* request back, neither the guest nor the ARM7.
WriteIsNotRevoked == handler = "save" /\ fault = "none" => saveState = "WRITE"

\* Unsaved data is given up only for a power-off that the ARM7 took after it
\* had seen the failure (main.cpp:186-190).
DiscardIsSecondRequest ==
    power = "discarded" => exitMode = "PowerOff" /\ request.seen

\* Why the ARM9 may trust what it reads from its cache: in a handler an old
\* value differs from the present one only among those it does not act on.
HandlerInv ==
    /\ guest = "mark" => handler = "off" /\ ~FileBacked
    /\ guest = "file" => FileBacked
    /\ view # "ERROR"
    /\ saveState = "ERROR" => fault = "save"
    /\ handler = "save" => fault \in {"none", "save"}
    /\ handler = "pending" /\ view = "WRITE" => saveState \in {"WRITE", "ERROR"}
    /\ handler # "off" /\ view = "CLEAN" => saveState \in {"CLEAN", "ERROR"}
    /\ handler = "resched" => ~rtcDirty
    /\ FileBacked => saveState \in {"CLEAN", "ERROR"} /\ file = ram

\* Why the ARM7 may write a state it read earlier: it does so only from DIRTY
\* and WAIT, out of which the ARM9 moves nothing but to DIRTY.
LatchInv ==
    /\ latch7 # "none" <=> pc7 \in {"store", "flushStore"}
    /\ pc7 \in {"store", "flushStore"} => ~FileBacked /\ saveState \in {"DIRTY", "WAIT"}
    /\ pc7 = "flush" => ~FileBacked
    /\ saveState = "WAIT" /\ latch7 # "WRITE" => waitCounter > 0
    /\ latch7 = "WAIT" => waitCounter > 0

\* Why a request that is served with a failure in sight is a later one.
RequestInv ==
    /\ state7 = "ExitRequested" /\ faultSeen => request.seen
    /\ pc7 \in {"exit", "flush", "flushStore"} => state7 = "ExitRequested"

\* The inductive invariant.
IndInv ==
    TypeOK /\ CheckIsArmed /\ CleanMeansSaved /\ FailureIsKept /\ CleanExitIsSaved
    /\ WriteIsNotRevoked /\ DiscardIsSecondRequest /\ HandlerInv /\ LatchInv /\ RequestInv

\* What main.cpp:145 says: a request already pending when saving failed is no
\* consent to discard.
DiscardIsInformed == power = "discarded" => request.knew = "informed"

\* "The assembly entry owns switching and reentrancy" (RomGpio.cpp:37), and
\* FatFs is built without any of its own: two calls do not overlap.
FatFsIsNotReentered == ~(guest = "file" /\ handler \in {"save", "rtcFile"})

\* On a DS a change of the save RAM reaches the card while the game goes on; on
\* a DSi it waits for the exit (GbaSaveIpcService.cpp:27-28).
StoresReachTheCard == ~DsiMode /\ ram # file ~> (ram = file \/ fault # "none")

\* A request for an exit is answered: the console goes off, or the failure of
\* the save is on the screen and the request is dropped.
ExitIsAnswered ==
    state7 = "ExitRequested" ~> (power # "on" \/ state7 = "Idle" \/ fault \in {"rtc", "card"})

\* Refinement: what the player sees of all this.
Game == INSTANCE SavedGame WITH
    storing <- guest = "mark", writing <- handler = "save" /\ fault = "none",
    failed <- saveState = "ERROR", told <- faultSeen,
    consents <- exitMode = "PowerOff" /\ request.seen

\* Two processors that share a byte without a lock, a cached copy of it and a check
\* that is mostly patched out keep the promise of SavedGame: the file is whole until
\* a write fails, a failure stays, and neither exit gives up more than it may
\* (MemoryStore8.s:123, GbaSaveIpcService.cpp:25-78, main.cpp:157-195).
ImplementsSavedGame == Game!SavedSpec
=============================================================================
