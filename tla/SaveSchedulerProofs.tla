------------------------- MODULE SaveSchedulerProofs -------------------------
(***************************************************************************)
(* Proofs about the save scheduler, for any save RAM, any number of frames  *)
(* to wait, stores and button events, on either kind of console and save:   *)
(* no store is forgotten, no failure is overwritten, and the console is     *)
(* switched off neither over an unwritten store nor within a write.         *)
(***************************************************************************)
EXTENDS SaveScheduler, TLAPS

-----------------------------------------------------------------------------
(* Each action keeps the inductive invariant.                               *)

LEMMA GuestStoreInv ==
    ASSUME IndInv, NEW b \in Bytes, NEW v \in Values, GuestStore(b, v)
    PROVE  IndInv'
<1> USE DEF setupVars, FileBacked, DsiMode, dataVars, arm9Vars, arm7Vars, mcuVars, Arm9Runs, GuestStore, GuestRuns
<1>1. TypeOK'
  BY SaveConstants DEF IndInv, TypeOK, LatchInv, States, Values, Buttons, Knowledge
<1>2. CheckIsArmed' /\ CleanMeansSaved' /\ FailureIsKept'
  BY DEF IndInv, TypeOK, CheckIsArmed, CleanMeansSaved, FailureIsKept, WriteIsNotRevoked,
         HandlerInv, LatchInv
<1>3. CleanExitIsSaved' /\ WriteIsNotRevoked' /\ DiscardIsSecondRequest'
  BY DEF IndInv, TypeOK, CleanMeansSaved, CleanExitIsSaved, WriteIsNotRevoked,
         DiscardIsSecondRequest, FailureIsKept, HandlerInv, LatchInv, RequestInv
<1>4. HandlerInv'
  BY DEF IndInv, TypeOK, States, HandlerInv, LatchInv, WriteIsNotRevoked, FailureIsKept
<1>5. LatchInv'
  BY SaveConstants DEF IndInv, TypeOK, WriteIsNotRevoked, HandlerInv, LatchInv
<1>6. RequestInv'
  BY DEF IndInv, TypeOK, RequestInv
<1> QED
  BY <1>1, <1>2, <1>3, <1>4, <1>5, <1>6 DEF IndInv

LEMMA MarkDirtyInv ==
    ASSUME IndInv, MarkDirty
    PROVE  IndInv'
<1> USE DEF setupVars, FileBacked, DsiMode, dataVars, arm9Vars, arm7Vars, mcuVars, Arm9Runs, MarkDirty, GuestRuns, Marked
<1>1. TypeOK'
  <2>1. skipCheck' \in BOOLEAN
    BY DEF IndInv, TypeOK
  <2> QED
    BY <2>1, SaveConstants DEF IndInv, TypeOK, LatchInv, States, Values, Buttons, Knowledge
<1>2. CheckIsArmed' /\ CleanMeansSaved' /\ FailureIsKept'
  BY DEF IndInv, TypeOK, CheckIsArmed, CleanMeansSaved, FailureIsKept, WriteIsNotRevoked,
         HandlerInv, LatchInv
<1>3. CleanExitIsSaved' /\ WriteIsNotRevoked' /\ DiscardIsSecondRequest'
  BY DEF IndInv, TypeOK, CleanMeansSaved, CleanExitIsSaved, WriteIsNotRevoked,
         DiscardIsSecondRequest, FailureIsKept, HandlerInv, LatchInv, RequestInv
<1>4. HandlerInv'
  BY DEF IndInv, TypeOK, States, HandlerInv, LatchInv, WriteIsNotRevoked, FailureIsKept
<1>5. LatchInv'
  BY SaveConstants DEF IndInv, TypeOK, WriteIsNotRevoked, HandlerInv, LatchInv
<1>6. RequestInv'
  BY DEF IndInv, TypeOK, RequestInv
<1> QED
  BY <1>1, <1>2, <1>3, <1>4, <1>5, <1>6 DEF IndInv

LEMMA GuestSetsRtcInv ==
    ASSUME IndInv, GuestSetsRtc
    PROVE  IndInv'
<1> USE DEF setupVars, FileBacked, DsiMode, dataVars, arm9Vars, arm7Vars, mcuVars, Arm9Runs, GuestSetsRtc, GuestRuns
<1>1. TypeOK'
  <2>1. skipCheck' \in BOOLEAN /\ rtcDirty' \in BOOLEAN
    BY DEF IndInv, TypeOK
  <2> QED
    BY <2>1, SaveConstants DEF IndInv, TypeOK, LatchInv, States, Values, Buttons, Knowledge
<1>2. CheckIsArmed' /\ CleanMeansSaved' /\ FailureIsKept'
  BY DEF IndInv, TypeOK, CheckIsArmed, CleanMeansSaved, FailureIsKept, WriteIsNotRevoked,
         HandlerInv, LatchInv
<1>3. CleanExitIsSaved' /\ WriteIsNotRevoked' /\ DiscardIsSecondRequest'
  BY DEF IndInv, TypeOK, CleanMeansSaved, CleanExitIsSaved, WriteIsNotRevoked,
         DiscardIsSecondRequest, FailureIsKept, HandlerInv, LatchInv, RequestInv
<1>4. HandlerInv'
  BY DEF IndInv, TypeOK, States, HandlerInv, LatchInv, WriteIsNotRevoked, FailureIsKept
<1>5. LatchInv'
  BY SaveConstants DEF IndInv, TypeOK, WriteIsNotRevoked, HandlerInv, LatchInv
<1>6. RequestInv'
  BY DEF IndInv, TypeOK, RequestInv
<1> QED
  BY <1>1, <1>2, <1>3, <1>4, <1>5, <1>6 DEF IndInv

LEMMA EnterFileSwiInv ==
    ASSUME IndInv, EnterFileSwi
    PROVE  IndInv'
<1> USE DEF setupVars, FileBacked, DsiMode, dataVars, arm9Vars, arm7Vars, mcuVars, Arm9Runs, EnterFileSwi, GuestRuns
<1>1. TypeOK'
  BY SaveConstants DEF IndInv, TypeOK, LatchInv, States, Values, Buttons, Knowledge
<1>2. CheckIsArmed' /\ CleanMeansSaved' /\ FailureIsKept'
  BY DEF IndInv, TypeOK, CheckIsArmed, CleanMeansSaved, FailureIsKept, WriteIsNotRevoked,
         HandlerInv, LatchInv
<1>3. CleanExitIsSaved' /\ WriteIsNotRevoked' /\ DiscardIsSecondRequest'
  BY DEF IndInv, TypeOK, CleanMeansSaved, CleanExitIsSaved, WriteIsNotRevoked,
         DiscardIsSecondRequest, FailureIsKept, HandlerInv, LatchInv, RequestInv
<1>4. HandlerInv'
  BY DEF IndInv, TypeOK, States, HandlerInv, LatchInv, WriteIsNotRevoked, FailureIsKept
<1>5. LatchInv'
  BY SaveConstants DEF IndInv, TypeOK, WriteIsNotRevoked, HandlerInv, LatchInv
<1>6. RequestInv'
  BY DEF IndInv, TypeOK, RequestInv
<1> QED
  BY <1>1, <1>2, <1>3, <1>4, <1>5, <1>6 DEF IndInv

LEMMA LeaveFileSwiInv ==
    ASSUME IndInv, LeaveFileSwi
    PROVE  IndInv'
<1> USE DEF setupVars, FileBacked, DsiMode, dataVars, arm9Vars, arm7Vars, mcuVars, Arm9Runs, LeaveFileSwi, GuestRuns
<1>1. TypeOK'
  BY SaveConstants DEF IndInv, TypeOK, LatchInv, States, Values, Buttons, Knowledge
<1>2. CheckIsArmed' /\ CleanMeansSaved' /\ FailureIsKept'
  BY DEF IndInv, TypeOK, CheckIsArmed, CleanMeansSaved, FailureIsKept, WriteIsNotRevoked,
         HandlerInv, LatchInv
<1>3. CleanExitIsSaved' /\ WriteIsNotRevoked' /\ DiscardIsSecondRequest'
  BY DEF IndInv, TypeOK, CleanMeansSaved, CleanExitIsSaved, WriteIsNotRevoked,
         DiscardIsSecondRequest, FailureIsKept, HandlerInv, LatchInv, RequestInv
<1>4. HandlerInv'
  BY DEF IndInv, TypeOK, States, HandlerInv, LatchInv, WriteIsNotRevoked, FailureIsKept
<1>5. LatchInv'
  BY SaveConstants DEF IndInv, TypeOK, WriteIsNotRevoked, HandlerInv, LatchInv
<1>6. RequestInv'
  BY DEF IndInv, TypeOK, RequestInv
<1> QED
  BY <1>1, <1>2, <1>3, <1>4, <1>5, <1>6 DEF IndInv

LEMMA FileSwiFailsInv ==
    ASSUME IndInv, FileSwiFails
    PROVE  IndInv'
<1> USE DEF setupVars, FileBacked, DsiMode, dataVars, arm9Vars, arm7Vars, mcuVars, Arm9Runs, FileSwiFails, GuestRuns, SaveIoFailed
<1>1. TypeOK'
  BY SaveConstants DEF IndInv, TypeOK, LatchInv, States, Values, Buttons, Knowledge
<1>2. CheckIsArmed' /\ CleanMeansSaved' /\ FailureIsKept'
  BY DEF IndInv, TypeOK, CheckIsArmed, CleanMeansSaved, FailureIsKept, WriteIsNotRevoked,
         HandlerInv, LatchInv
<1>3. CleanExitIsSaved' /\ WriteIsNotRevoked' /\ DiscardIsSecondRequest'
  BY DEF IndInv, TypeOK, CleanMeansSaved, CleanExitIsSaved, WriteIsNotRevoked,
         DiscardIsSecondRequest, FailureIsKept, HandlerInv, LatchInv, RequestInv
<1>4. HandlerInv'
  BY DEF IndInv, TypeOK, States, HandlerInv, LatchInv, WriteIsNotRevoked, FailureIsKept
<1>5. LatchInv'
  BY SaveConstants DEF IndInv, TypeOK, WriteIsNotRevoked, HandlerInv, LatchInv
<1>6. RequestInv'
  BY DEF IndInv, TypeOK, RequestInv
<1> QED
  BY <1>1, <1>2, <1>3, <1>4, <1>5, <1>6 DEF IndInv

LEMMA RomReadFailsInv ==
    ASSUME IndInv, RomReadFails
    PROVE  IndInv'
<1> USE DEF setupVars, FileBacked, DsiMode, dataVars, arm9Vars, arm7Vars, mcuVars, Arm9Runs, RomReadFails, GuestRuns
<1>1. TypeOK'
  BY SaveConstants DEF IndInv, TypeOK, LatchInv, States, Values, Buttons, Knowledge
<1>2. CheckIsArmed' /\ CleanMeansSaved' /\ FailureIsKept'
  BY DEF IndInv, TypeOK, CheckIsArmed, CleanMeansSaved, FailureIsKept, WriteIsNotRevoked,
         HandlerInv, LatchInv
<1>3. CleanExitIsSaved' /\ WriteIsNotRevoked' /\ DiscardIsSecondRequest'
  BY DEF IndInv, TypeOK, CleanMeansSaved, CleanExitIsSaved, WriteIsNotRevoked,
         DiscardIsSecondRequest, FailureIsKept, HandlerInv, LatchInv, RequestInv
<1>4. HandlerInv'
  BY DEF IndInv, TypeOK, States, HandlerInv, LatchInv, WriteIsNotRevoked, FailureIsKept
<1>5. LatchInv'
  BY SaveConstants DEF IndInv, TypeOK, WriteIsNotRevoked, HandlerInv, LatchInv
<1>6. RequestInv'
  BY DEF IndInv, TypeOK, RequestInv
<1> QED
  BY <1>1, <1>2, <1>3, <1>4, <1>5, <1>6 DEF IndInv

LEMMA EnterVBlankInv ==
    ASSUME IndInv, EnterVBlank
    PROVE  IndInv'
<1> USE DEF setupVars, FileBacked, DsiMode, dataVars, arm9Vars, arm7Vars, mcuVars, Arm9Runs, EnterVBlank, Writable
<1>1. TypeOK'
  <2>1. vblank9' \in BOOLEAN
    BY DEF IndInv, TypeOK
  <2> QED
    BY <2>1, SaveConstants DEF IndInv, TypeOK, LatchInv, States, Values, Buttons, Knowledge
<1>2. CheckIsArmed' /\ CleanMeansSaved' /\ FailureIsKept'
  BY DEF IndInv, TypeOK, CheckIsArmed, CleanMeansSaved, FailureIsKept, WriteIsNotRevoked,
         HandlerInv, LatchInv
<1>3. CleanExitIsSaved' /\ WriteIsNotRevoked' /\ DiscardIsSecondRequest'
  BY DEF IndInv, TypeOK, CleanMeansSaved, CleanExitIsSaved, WriteIsNotRevoked,
         DiscardIsSecondRequest, FailureIsKept, HandlerInv, LatchInv, RequestInv
<1>4. HandlerInv'
  BY DEF IndInv, TypeOK, States, HandlerInv, LatchInv, WriteIsNotRevoked, FailureIsKept
<1>5. LatchInv'
  BY SaveConstants DEF IndInv, TypeOK, WriteIsNotRevoked, HandlerInv, LatchInv
<1>6. RequestInv'
  BY DEF IndInv, TypeOK, RequestInv
<1> QED
  BY <1>1, <1>2, <1>3, <1>4, <1>5, <1>6 DEF IndInv

LEMMA WritePendingFilesInv ==
    ASSUME IndInv, WritePendingFiles
    PROVE  IndInv'
<1> USE DEF setupVars, FileBacked, DsiMode, dataVars, arm9Vars, arm7Vars, mcuVars, Arm9Runs, WritePendingFiles, HandlerAt, SaveIoFailed, Writable
<1>1. TypeOK'
  BY SaveConstants DEF IndInv, TypeOK, LatchInv, States, Values, Buttons, Knowledge
<1>2. CheckIsArmed' /\ CleanMeansSaved' /\ FailureIsKept'
  BY DEF IndInv, TypeOK, CheckIsArmed, CleanMeansSaved, FailureIsKept, WriteIsNotRevoked,
         HandlerInv, LatchInv
<1>3. CleanExitIsSaved' /\ WriteIsNotRevoked' /\ DiscardIsSecondRequest'
  BY DEF IndInv, TypeOK, CleanMeansSaved, CleanExitIsSaved, WriteIsNotRevoked,
         DiscardIsSecondRequest, FailureIsKept, HandlerInv, LatchInv, RequestInv
<1>4. HandlerInv'
  BY DEF IndInv, TypeOK, States, HandlerInv, LatchInv, WriteIsNotRevoked, FailureIsKept
<1>5. LatchInv'
  BY SaveConstants DEF IndInv, TypeOK, WriteIsNotRevoked, HandlerInv, LatchInv
<1>6. RequestInv'
  BY DEF IndInv, TypeOK, RequestInv
<1> QED
  BY <1>1, <1>2, <1>3, <1>4, <1>5, <1>6 DEF IndInv

LEMMA SaveWrittenInv ==
    ASSUME IndInv, SaveWritten
    PROVE  IndInv'
<1> USE DEF setupVars, FileBacked, DsiMode, dataVars, arm9Vars, arm7Vars, mcuVars, Arm9Runs, SaveWritten, HandlerAt, Accepted
<1>1. TypeOK'
  BY SaveConstants DEF IndInv, TypeOK, LatchInv, States, Values, Buttons, Knowledge
<1>2. CheckIsArmed' /\ CleanMeansSaved' /\ FailureIsKept'
  BY DEF IndInv, TypeOK, CheckIsArmed, CleanMeansSaved, FailureIsKept, WriteIsNotRevoked,
         HandlerInv, LatchInv
<1>3. CleanExitIsSaved' /\ WriteIsNotRevoked' /\ DiscardIsSecondRequest'
  BY DEF IndInv, TypeOK, CleanMeansSaved, CleanExitIsSaved, WriteIsNotRevoked,
         DiscardIsSecondRequest, FailureIsKept, HandlerInv, LatchInv, RequestInv
<1>4. HandlerInv'
  BY DEF IndInv, TypeOK, States, HandlerInv, LatchInv, WriteIsNotRevoked, FailureIsKept
<1>5. LatchInv'
  BY SaveConstants DEF IndInv, TypeOK, WriteIsNotRevoked, HandlerInv, LatchInv
<1>6. RequestInv'
  BY DEF IndInv, TypeOK, RequestInv
<1> QED
  BY <1>1, <1>2, <1>3, <1>4, <1>5, <1>6 DEF IndInv

LEMMA SaveWriteFailsInv ==
    ASSUME IndInv, SaveWriteFails
    PROVE  IndInv'
<1> USE DEF setupVars, FileBacked, DsiMode, dataVars, arm9Vars, arm7Vars, mcuVars, Arm9Runs, SaveWriteFails, HandlerAt, SaveIoFailed, PartlyWritten
<1>1. TypeOK'
  BY SaveConstants DEF IndInv, TypeOK, LatchInv, States, Values, Buttons, Knowledge
<1>2. CheckIsArmed' /\ CleanMeansSaved' /\ FailureIsKept'
  BY DEF IndInv, TypeOK, CheckIsArmed, CleanMeansSaved, FailureIsKept, WriteIsNotRevoked,
         HandlerInv, LatchInv
<1>3. CleanExitIsSaved' /\ WriteIsNotRevoked' /\ DiscardIsSecondRequest'
  BY DEF IndInv, TypeOK, CleanMeansSaved, CleanExitIsSaved, WriteIsNotRevoked,
         DiscardIsSecondRequest, FailureIsKept, HandlerInv, LatchInv, RequestInv
<1>4. HandlerInv'
  BY DEF IndInv, TypeOK, States, HandlerInv, LatchInv, WriteIsNotRevoked, FailureIsKept
<1>5. LatchInv'
  BY SaveConstants DEF IndInv, TypeOK, WriteIsNotRevoked, HandlerInv, LatchInv
<1>6. RequestInv'
  BY DEF IndInv, TypeOK, RequestInv
<1> QED
  BY <1>1, <1>2, <1>3, <1>4, <1>5, <1>6 DEF IndInv

LEMMA FlushRtcInv ==
    ASSUME IndInv, FlushRtc
    PROVE  IndInv'
<1> USE DEF setupVars, FileBacked, DsiMode, dataVars, arm9Vars, arm7Vars, mcuVars, Arm9Runs, FlushRtc, HandlerAt
<1>1. TypeOK'
  BY SaveConstants DEF IndInv, TypeOK, LatchInv, States, Values, Buttons, Knowledge
<1>2. CheckIsArmed' /\ CleanMeansSaved' /\ FailureIsKept'
  BY DEF IndInv, TypeOK, CheckIsArmed, CleanMeansSaved, FailureIsKept, WriteIsNotRevoked,
         HandlerInv, LatchInv
<1>3. CleanExitIsSaved' /\ WriteIsNotRevoked' /\ DiscardIsSecondRequest'
  BY DEF IndInv, TypeOK, CleanMeansSaved, CleanExitIsSaved, WriteIsNotRevoked,
         DiscardIsSecondRequest, FailureIsKept, HandlerInv, LatchInv, RequestInv
<1>4. HandlerInv'
  BY DEF IndInv, TypeOK, States, HandlerInv, LatchInv, WriteIsNotRevoked, FailureIsKept
<1>5. LatchInv'
  BY SaveConstants DEF IndInv, TypeOK, WriteIsNotRevoked, HandlerInv, LatchInv
<1>6. RequestInv'
  BY DEF IndInv, TypeOK, RequestInv
<1> QED
  BY <1>1, <1>2, <1>3, <1>4, <1>5, <1>6 DEF IndInv

LEMMA RtcWrittenInv ==
    ASSUME IndInv, RtcWritten
    PROVE  IndInv'
<1> USE DEF setupVars, FileBacked, DsiMode, dataVars, arm9Vars, arm7Vars, mcuVars, Arm9Runs, RtcWritten, HandlerAt
<1>1. TypeOK'
  <2>1. rtcDirty' \in BOOLEAN
    BY DEF IndInv, TypeOK
  <2> QED
    BY <2>1, SaveConstants DEF IndInv, TypeOK, LatchInv, States, Values, Buttons, Knowledge
<1>2. CheckIsArmed' /\ CleanMeansSaved' /\ FailureIsKept'
  BY DEF IndInv, TypeOK, CheckIsArmed, CleanMeansSaved, FailureIsKept, WriteIsNotRevoked,
         HandlerInv, LatchInv
<1>3. CleanExitIsSaved' /\ WriteIsNotRevoked' /\ DiscardIsSecondRequest'
  BY DEF IndInv, TypeOK, CleanMeansSaved, CleanExitIsSaved, WriteIsNotRevoked,
         DiscardIsSecondRequest, FailureIsKept, HandlerInv, LatchInv, RequestInv
<1>4. HandlerInv'
  BY DEF IndInv, TypeOK, States, HandlerInv, LatchInv, WriteIsNotRevoked, FailureIsKept
<1>5. LatchInv'
  BY SaveConstants DEF IndInv, TypeOK, WriteIsNotRevoked, HandlerInv, LatchInv
<1>6. RequestInv'
  BY DEF IndInv, TypeOK, RequestInv
<1> QED
  BY <1>1, <1>2, <1>3, <1>4, <1>5, <1>6 DEF IndInv

LEMMA RtcWriteFailsInv ==
    ASSUME IndInv, RtcWriteFails
    PROVE  IndInv'
<1> USE DEF setupVars, FileBacked, DsiMode, dataVars, arm9Vars, arm7Vars, mcuVars, Arm9Runs, RtcWriteFails, HandlerAt
<1>1. TypeOK'
  BY SaveConstants DEF IndInv, TypeOK, LatchInv, States, Values, Buttons, Knowledge
<1>2. CheckIsArmed' /\ CleanMeansSaved' /\ FailureIsKept'
  BY DEF IndInv, TypeOK, CheckIsArmed, CleanMeansSaved, FailureIsKept, WriteIsNotRevoked,
         HandlerInv, LatchInv
<1>3. CleanExitIsSaved' /\ WriteIsNotRevoked' /\ DiscardIsSecondRequest'
  BY DEF IndInv, TypeOK, CleanMeansSaved, CleanExitIsSaved, WriteIsNotRevoked,
         DiscardIsSecondRequest, FailureIsKept, HandlerInv, LatchInv, RequestInv
<1>4. HandlerInv'
  BY DEF IndInv, TypeOK, States, HandlerInv, LatchInv, WriteIsNotRevoked, FailureIsKept
<1>5. LatchInv'
  BY SaveConstants DEF IndInv, TypeOK, WriteIsNotRevoked, HandlerInv, LatchInv
<1>6. RequestInv'
  BY DEF IndInv, TypeOK, RequestInv
<1> QED
  BY <1>1, <1>2, <1>3, <1>4, <1>5, <1>6 DEF IndInv

LEMMA RescheduleInv ==
    ASSUME IndInv, Reschedule
    PROVE  IndInv'
<1> USE DEF setupVars, FileBacked, DsiMode, dataVars, arm9Vars, arm7Vars, mcuVars, Arm9Runs, Reschedule, HandlerAt, SkipsAgain
<1>1. TypeOK'
  BY SaveConstants DEF IndInv, TypeOK, LatchInv, States, Values, Buttons, Knowledge
<1>2. CheckIsArmed' /\ CleanMeansSaved' /\ FailureIsKept'
  BY DEF IndInv, TypeOK, CheckIsArmed, CleanMeansSaved, FailureIsKept, WriteIsNotRevoked,
         HandlerInv, LatchInv
<1>3. CleanExitIsSaved' /\ WriteIsNotRevoked' /\ DiscardIsSecondRequest'
  BY DEF IndInv, TypeOK, CleanMeansSaved, CleanExitIsSaved, WriteIsNotRevoked,
         DiscardIsSecondRequest, FailureIsKept, HandlerInv, LatchInv, RequestInv
<1>4. HandlerInv'
  BY DEF IndInv, TypeOK, States, HandlerInv, LatchInv, WriteIsNotRevoked, FailureIsKept
<1>5. LatchInv'
  BY SaveConstants DEF IndInv, TypeOK, WriteIsNotRevoked, HandlerInv, LatchInv
<1>6. RequestInv'
  BY DEF IndInv, TypeOK, RequestInv
<1> QED
  BY <1>1, <1>2, <1>3, <1>4, <1>5, <1>6 DEF IndInv

LEMMA VBlankInv ==
    ASSUME IndInv, VBlank
    PROVE  IndInv'
<1> USE DEF setupVars, FileBacked, DsiMode, dataVars, arm9Vars, arm7Vars, mcuVars, Arm9Runs, VBlank
<1>1. TypeOK'
  BY SaveConstants DEF IndInv, TypeOK, LatchInv, States, Values, Buttons, Knowledge
<1>2. CheckIsArmed' /\ CleanMeansSaved' /\ FailureIsKept'
  BY DEF IndInv, TypeOK, CheckIsArmed, CleanMeansSaved, FailureIsKept, WriteIsNotRevoked,
         HandlerInv, LatchInv
<1>3. CleanExitIsSaved' /\ WriteIsNotRevoked' /\ DiscardIsSecondRequest'
  BY DEF IndInv, TypeOK, CleanMeansSaved, CleanExitIsSaved, WriteIsNotRevoked,
         DiscardIsSecondRequest, FailureIsKept, HandlerInv, LatchInv, RequestInv
<1>4. HandlerInv'
  BY DEF IndInv, TypeOK, States, HandlerInv, LatchInv, WriteIsNotRevoked, FailureIsKept
<1>5. LatchInv'
  BY SaveConstants DEF IndInv, TypeOK, WriteIsNotRevoked, HandlerInv, LatchInv
<1>6. RequestInv'
  BY DEF IndInv, TypeOK, RequestInv
<1> QED
  BY <1>1, <1>2, <1>3, <1>4, <1>5, <1>6 DEF IndInv

LEMMA WakeUpInv ==
    ASSUME IndInv, WakeUp
    PROVE  IndInv'
<1> USE DEF setupVars, FileBacked, DsiMode, dataVars, arm9Vars, arm7Vars, mcuVars, Arm9Runs, WakeUp, Arm7At
<1>1. TypeOK'
  <2>1. event7' \in BOOLEAN
    BY DEF IndInv, TypeOK
  <2> QED
    BY <2>1, SaveConstants DEF IndInv, TypeOK, LatchInv, States, Values, Buttons, Knowledge
<1>2. CheckIsArmed' /\ CleanMeansSaved' /\ FailureIsKept'
  BY DEF IndInv, TypeOK, CheckIsArmed, CleanMeansSaved, FailureIsKept, WriteIsNotRevoked,
         HandlerInv, LatchInv
<1>3. CleanExitIsSaved' /\ WriteIsNotRevoked' /\ DiscardIsSecondRequest'
  BY DEF IndInv, TypeOK, CleanMeansSaved, CleanExitIsSaved, WriteIsNotRevoked,
         DiscardIsSecondRequest, FailureIsKept, HandlerInv, LatchInv, RequestInv
<1>4. HandlerInv'
  BY DEF IndInv, TypeOK, States, HandlerInv, LatchInv, WriteIsNotRevoked, FailureIsKept
<1>5. LatchInv'
  BY SaveConstants DEF IndInv, TypeOK, WriteIsNotRevoked, HandlerInv, LatchInv
<1>6. RequestInv'
  BY DEF IndInv, TypeOK, RequestInv
<1> QED
  BY <1>1, <1>2, <1>3, <1>4, <1>5, <1>6 DEF IndInv

LEMMA CheckMcuIrqInv ==
    ASSUME IndInv, CheckMcuIrq
    PROVE  IndInv'
<1> USE DEF setupVars, FileBacked, DsiMode, dataVars, arm9Vars, arm7Vars, mcuVars, Arm9Runs, CheckMcuIrq, Arm7At
<1>1. TypeOK'
  <2>1. mcuFlag' \in BOOLEAN
    BY DEF IndInv, TypeOK
  <2> QED
    BY <2>1, SaveConstants DEF IndInv, TypeOK, LatchInv, States, Values, Buttons, Knowledge
<1>2. CheckIsArmed' /\ CleanMeansSaved' /\ FailureIsKept'
  BY DEF IndInv, TypeOK, CheckIsArmed, CleanMeansSaved, FailureIsKept, WriteIsNotRevoked,
         HandlerInv, LatchInv
<1>3. CleanExitIsSaved' /\ WriteIsNotRevoked' /\ DiscardIsSecondRequest'
  BY DEF IndInv, TypeOK, CleanMeansSaved, CleanExitIsSaved, WriteIsNotRevoked,
         DiscardIsSecondRequest, FailureIsKept, HandlerInv, LatchInv, RequestInv
<1>4. HandlerInv'
  BY DEF IndInv, TypeOK, States, HandlerInv, LatchInv, WriteIsNotRevoked, FailureIsKept
<1>5. LatchInv'
  BY SaveConstants DEF IndInv, TypeOK, WriteIsNotRevoked, HandlerInv, LatchInv
<1>6. RequestInv'
  BY DEF IndInv, TypeOK, RequestInv
<1> QED
  BY <1>1, <1>2, <1>3, <1>4, <1>5, <1>6 DEF IndInv

LEMMA ReadMcuMaskInv ==
    ASSUME IndInv, ReadMcuMask
    PROVE  IndInv'
<1> USE DEF setupVars, FileBacked, DsiMode, dataVars, arm9Vars, arm7Vars, mcuVars, Arm9Runs, ReadMcuMask, Arm7At, NoEvents
<1>1. TypeOK'
  BY SaveConstants DEF IndInv, TypeOK, LatchInv, States, Values, Buttons, Knowledge
<1>2. CheckIsArmed' /\ CleanMeansSaved' /\ FailureIsKept'
  BY DEF IndInv, TypeOK, CheckIsArmed, CleanMeansSaved, FailureIsKept, WriteIsNotRevoked,
         HandlerInv, LatchInv
<1>3. CleanExitIsSaved' /\ WriteIsNotRevoked' /\ DiscardIsSecondRequest'
  BY DEF IndInv, TypeOK, CleanMeansSaved, CleanExitIsSaved, WriteIsNotRevoked,
         DiscardIsSecondRequest, FailureIsKept, HandlerInv, LatchInv, RequestInv
<1>4. HandlerInv'
  BY DEF IndInv, TypeOK, States, HandlerInv, LatchInv, WriteIsNotRevoked, FailureIsKept
<1>5. LatchInv'
  BY SaveConstants DEF IndInv, TypeOK, WriteIsNotRevoked, HandlerInv, LatchInv
<1>6. RequestInv'
  BY DEF IndInv, TypeOK, RequestInv
<1> QED
  BY <1>1, <1>2, <1>3, <1>4, <1>5, <1>6 DEF IndInv

LEMMA UpdateInv ==
    ASSUME IndInv, Update
    PROVE  IndInv'
<1> USE DEF setupVars, FileBacked, DsiMode, dataVars, arm9Vars, arm7Vars, mcuVars, Arm9Runs, Update, Arm7At, Ages, Expired
<1>1. TypeOK'
  BY SaveConstants DEF IndInv, TypeOK, LatchInv, States, Values, Buttons, Knowledge
<1>2. CheckIsArmed' /\ CleanMeansSaved' /\ FailureIsKept'
  BY DEF IndInv, TypeOK, CheckIsArmed, CleanMeansSaved, FailureIsKept, WriteIsNotRevoked,
         HandlerInv, LatchInv
<1>3. CleanExitIsSaved' /\ WriteIsNotRevoked' /\ DiscardIsSecondRequest'
  BY DEF IndInv, TypeOK, CleanMeansSaved, CleanExitIsSaved, WriteIsNotRevoked,
         DiscardIsSecondRequest, FailureIsKept, HandlerInv, LatchInv, RequestInv
<1>4. HandlerInv'
  BY DEF IndInv, TypeOK, States, HandlerInv, LatchInv, WriteIsNotRevoked, FailureIsKept
<1>5. LatchInv'
  BY SaveConstants DEF IndInv, TypeOK, WriteIsNotRevoked, HandlerInv, LatchInv
<1>6. RequestInv'
  BY DEF IndInv, TypeOK, RequestInv
<1> QED
  BY <1>1, <1>2, <1>3, <1>4, <1>5, <1>6 DEF IndInv

LEMMA StoreStateInv ==
    ASSUME IndInv, StoreState
    PROVE  IndInv'
<1> USE DEF setupVars, FileBacked, DsiMode, dataVars, arm9Vars, arm7Vars, mcuVars, Arm9Runs, StoreState
<1>1. TypeOK'
  BY SaveConstants DEF IndInv, TypeOK, LatchInv, States, Values, Buttons, Knowledge
<1>2. CheckIsArmed' /\ CleanMeansSaved' /\ FailureIsKept'
  BY DEF IndInv, TypeOK, CheckIsArmed, CleanMeansSaved, FailureIsKept, WriteIsNotRevoked,
         HandlerInv, LatchInv
<1>3. CleanExitIsSaved' /\ WriteIsNotRevoked' /\ DiscardIsSecondRequest'
  BY DEF IndInv, TypeOK, CleanMeansSaved, CleanExitIsSaved, WriteIsNotRevoked,
         DiscardIsSecondRequest, FailureIsKept, HandlerInv, LatchInv, RequestInv
<1>4. HandlerInv'
  BY DEF IndInv, TypeOK, States, HandlerInv, LatchInv, WriteIsNotRevoked, FailureIsKept
<1>5. LatchInv'
  BY SaveConstants DEF IndInv, TypeOK, WriteIsNotRevoked, HandlerInv, LatchInv
<1>6. RequestInv'
  BY DEF IndInv, TypeOK, RequestInv
<1> QED
  BY <1>1, <1>2, <1>3, <1>4, <1>5, <1>6 DEF IndInv

LEMMA SeeSaveErrorInv ==
    ASSUME IndInv, SeeSaveError
    PROVE  IndInv'
<1> USE DEF setupVars, FileBacked, DsiMode, dataVars, arm9Vars, arm7Vars, mcuVars, Arm9Runs, SeeSaveError, Arm7At, StateOnFirstError
<1>1. TypeOK'
  <2>1. faultSeen' \in BOOLEAN
    BY DEF IndInv, TypeOK
  <2> QED
    BY <2>1, SaveConstants DEF IndInv, TypeOK, LatchInv, States, Values, Buttons, Knowledge
<1>2. CheckIsArmed' /\ CleanMeansSaved' /\ FailureIsKept'
  BY DEF IndInv, TypeOK, CheckIsArmed, CleanMeansSaved, FailureIsKept, WriteIsNotRevoked,
         HandlerInv, LatchInv
<1>3. CleanExitIsSaved' /\ WriteIsNotRevoked' /\ DiscardIsSecondRequest'
  BY DEF IndInv, TypeOK, CleanMeansSaved, CleanExitIsSaved, WriteIsNotRevoked,
         DiscardIsSecondRequest, FailureIsKept, HandlerInv, LatchInv, RequestInv
<1>4. HandlerInv'
  BY DEF IndInv, TypeOK, States, HandlerInv, LatchInv, WriteIsNotRevoked, FailureIsKept
<1>5. LatchInv'
  BY SaveConstants DEF IndInv, TypeOK, WriteIsNotRevoked, HandlerInv, LatchInv
<1>6. RequestInv'
  BY DEF IndInv, TypeOK, RequestInv
<1> QED
  BY <1>1, <1>2, <1>3, <1>4, <1>5, <1>6 DEF IndInv

LEMMA ExitInv ==
    ASSUME IndInv, Exit
    PROVE  IndInv'
<1> USE DEF setupVars, FileBacked, DsiMode, dataVars, arm9Vars, arm7Vars, mcuVars, Arm9Runs, Exit, Arm7At, Failed, Discards
<1>1. TypeOK'
  <2>1. faultSeen' \in BOOLEAN
    BY DEF IndInv, TypeOK
  <2> QED
    BY <2>1, SaveConstants DEF IndInv, TypeOK, LatchInv, States, Values, Buttons, Knowledge
<1>2. CheckIsArmed' /\ CleanMeansSaved' /\ FailureIsKept'
  BY DEF IndInv, TypeOK, CheckIsArmed, CleanMeansSaved, FailureIsKept, WriteIsNotRevoked,
         HandlerInv, LatchInv
<1>3. CleanExitIsSaved' /\ WriteIsNotRevoked' /\ DiscardIsSecondRequest'
  BY DEF IndInv, TypeOK, CleanMeansSaved, CleanExitIsSaved, WriteIsNotRevoked,
         DiscardIsSecondRequest, FailureIsKept, HandlerInv, LatchInv, RequestInv
<1>4. HandlerInv'
  BY DEF IndInv, TypeOK, States, HandlerInv, LatchInv, WriteIsNotRevoked, FailureIsKept
<1>5. LatchInv'
  BY SaveConstants DEF IndInv, TypeOK, WriteIsNotRevoked, HandlerInv, LatchInv
<1>6. RequestInv'
  BY DEF IndInv, TypeOK, RequestInv
<1> QED
  BY <1>1, <1>2, <1>3, <1>4, <1>5, <1>6 DEF IndInv

LEMMA FlushInv ==
    ASSUME IndInv, Flush
    PROVE  IndInv'
<1> USE DEF setupVars, FileBacked, DsiMode, dataVars, arm9Vars, arm7Vars, mcuVars, Arm9Runs, Flush, Arm7At, Written, Flushed
<1>1. TypeOK'
  BY SaveConstants DEF IndInv, TypeOK, LatchInv, States, Values, Buttons, Knowledge
<1>2. CheckIsArmed' /\ CleanMeansSaved' /\ FailureIsKept'
  BY DEF IndInv, TypeOK, CheckIsArmed, CleanMeansSaved, FailureIsKept, WriteIsNotRevoked,
         HandlerInv, LatchInv
<1>3. CleanExitIsSaved' /\ WriteIsNotRevoked' /\ DiscardIsSecondRequest'
  BY DEF IndInv, TypeOK, CleanMeansSaved, CleanExitIsSaved, WriteIsNotRevoked,
         DiscardIsSecondRequest, FailureIsKept, HandlerInv, LatchInv, RequestInv
<1>4. HandlerInv'
  BY DEF IndInv, TypeOK, States, HandlerInv, LatchInv, WriteIsNotRevoked, FailureIsKept
<1>5. LatchInv'
  BY SaveConstants DEF IndInv, TypeOK, WriteIsNotRevoked, HandlerInv, LatchInv
<1>6. RequestInv'
  BY DEF IndInv, TypeOK, RequestInv
<1> QED
  BY <1>1, <1>2, <1>3, <1>4, <1>5, <1>6 DEF IndInv

LEMMA PressInv ==
    ASSUME IndInv, NEW b \in Buttons, Press(b)
    PROVE  IndInv'
<1> USE DEF setupVars, FileBacked, DsiMode, dataVars, arm9Vars, arm7Vars, mcuVars, Arm9Runs, Press
<1>1. TypeOK'
  BY SaveConstants DEF IndInv, TypeOK, LatchInv, States, Values, Buttons, Knowledge
<1>2. CheckIsArmed' /\ CleanMeansSaved' /\ FailureIsKept'
  BY DEF IndInv, TypeOK, CheckIsArmed, CleanMeansSaved, FailureIsKept, WriteIsNotRevoked,
         HandlerInv, LatchInv
<1>3. CleanExitIsSaved' /\ WriteIsNotRevoked' /\ DiscardIsSecondRequest'
  BY DEF IndInv, TypeOK, CleanMeansSaved, CleanExitIsSaved, WriteIsNotRevoked,
         DiscardIsSecondRequest, FailureIsKept, HandlerInv, LatchInv, RequestInv
<1>4. HandlerInv'
  BY DEF IndInv, TypeOK, States, HandlerInv, LatchInv, WriteIsNotRevoked, FailureIsKept
<1>5. LatchInv'
  BY SaveConstants DEF IndInv, TypeOK, WriteIsNotRevoked, HandlerInv, LatchInv
<1>6. RequestInv'
  BY DEF IndInv, TypeOK, RequestInv
<1> QED
  BY <1>1, <1>2, <1>3, <1>4, <1>5, <1>6 DEF IndInv

-----------------------------------------------------------------------------
LEMMA InitInv == Init => IndInv
<1> SUFFICES ASSUME Init PROVE IndInv
  OBVIOUS
<1>1. TypeOK
  <2>1. /\ skipCheck \in BOOLEAN /\ rtcDirty \in BOOLEAN /\ vblank9 \in BOOLEAN
        /\ event7 \in BOOLEAN /\ faultSeen \in BOOLEAN /\ mcuFlag \in BOOLEAN
    BY DEF Init
  <2>2. request \in [knew: Knowledge, seen: BOOLEAN]
    BY DEF Init, Knowledge
  <2>3. mcuMask \in [Buttons -> Knowledge]
    BY DEF Init, NoEvents, Knowledge
  <2> QED
    BY <2>1, <2>2, <2>3, SaveConstants DEF Init, TypeOK, States, Values, Buttons
<1>2. HandlerInv /\ LatchInv /\ RequestInv
  BY DEF Init, FileBacked, HandlerInv, LatchInv, RequestInv
<1> QED
  BY <1>1, <1>2 DEF Init, IndInv, CheckIsArmed, CleanMeansSaved, FailureIsKept,
         CleanExitIsSaved, WriteIsNotRevoked, DiscardIsSecondRequest

LEMMA NextInv == IndInv /\ [Next]_vars => IndInv'
<1> SUFFICES ASSUME IndInv, [Next]_vars PROVE IndInv'
  OBVIOUS
<1>1. CASE UNCHANGED vars
  BY <1>1 DEF vars, setupVars, FileBacked, DsiMode, dataVars, arm9Vars, arm7Vars, mcuVars, Arm9Runs, IndInv, TypeOK,
         CheckIsArmed, CleanMeansSaved, FailureIsKept, CleanExitIsSaved,
         WriteIsNotRevoked, DiscardIsSecondRequest, HandlerInv, LatchInv, RequestInv
<1>2. ASSUME NEW b \in Bytes, NEW v \in Values, GuestStore(b, v) PROVE IndInv'
  BY <1>2, GuestStoreInv
<1>3. ASSUME NEW b \in Buttons, Press(b) PROVE IndInv'
  BY <1>3, PressInv
<1>4. CASE Handler
  BY <1>4, EnterVBlankInv, WritePendingFilesInv, SaveWrittenInv, SaveWriteFailsInv,
     FlushRtcInv, RtcWrittenInv, RtcWriteFailsInv, RescheduleInv DEF Handler
<1>5. CASE Arm7
  BY <1>5, WakeUpInv, CheckMcuIrqInv, ReadMcuMaskInv, UpdateInv, StoreStateInv,
     SeeSaveErrorInv, ExitInv, FlushInv DEF Arm7
<1> QED
  BY <1>1, <1>2, <1>3, <1>4, <1>5, MarkDirtyInv, GuestSetsRtcInv, EnterFileSwiInv,
     LeaveFileSwiInv, FileSwiFailsInv, RomReadFailsInv, VBlankInv DEF Next

\* The inductive invariant holds throughout.
THEOREM IndInvHolds == SafeSpec => []IndInv
BY InitInv, NextInv, PTL DEF SafeSpec

\* Every variable keeps its type.
THEOREM Typed == SafeSpec => []TypeOK
<1>1. IndInv => TypeOK
  BY DEF IndInv
<1> QED
  BY <1>1, IndInvHolds, PTL

\* No store is lost: CLEAN means the file holds the save RAM, and anything
\* else keeps the V-blank check switched on.
THEOREM NoStoreIsLost == SafeSpec => [](CleanMeansSaved /\ CheckIsArmed)
<1>1. IndInv => CleanMeansSaved /\ CheckIsArmed
  BY DEF IndInv
<1> QED
  BY <1>1, IndInvHolds, PTL

\* No interleaving of the two processors overwrites a failure, or takes back
\* the request for the write that is under way.
THEOREM FailureAndWriteAreKept == SafeSpec => [](FailureIsKept /\ WriteIsNotRevoked)
<1>1. IndInv => FailureIsKept /\ WriteIsNotRevoked
  BY DEF IndInv
<1> QED
  BY <1>1, IndInvHolds, PTL

\* The console is switched off over saved data, or on a second request.
THEOREM ExitIsSafe == SafeSpec => [](CleanExitIsSaved /\ DiscardIsSecondRequest)
<1>1. IndInv => CleanExitIsSaved /\ DiscardIsSecondRequest
  BY DEF IndInv
<1> QED
  BY <1>1, IndInvHolds, PTL

\* A failed save is never followed by an exit that passes for clean.
THEOREM FailedNeverClean == SafeSpec => NoCleanExitAfterFailure
<1>1. IndInv /\ [Next]_vars => [power = "on" /\ saveState = "ERROR" => power' # "clean"]_vars
  <2> SUFFICES ASSUME IndInv, Next, power = "on", saveState = "ERROR"
               PROVE  power' # "clean"
    OBVIOUS
  <2>1. CASE Arm7
    BY <2>1 DEF Arm7, WakeUp, CheckMcuIrq, ReadMcuMask, Update, StoreState, SeeSaveError,
           Exit, Flush, Failed, Written
  <2>2. CASE Handler
    BY <2>2 DEF Handler, EnterVBlank, WritePendingFiles, SaveWritten, SaveWriteFails,
           FlushRtc, RtcWritten, RtcWriteFails, Reschedule, SaveIoFailed
  <2>3. CASE VBlank \/ \E b \in Buttons : Press(b)
    BY <2>3 DEF VBlank, Press
  <2> QED
    BY <2>1, <2>2, <2>3 DEF Next, GuestStore, MarkDirty, GuestSetsRtc, EnterFileSwi,
           LeaveFileSwi, FileSwiFails, RomReadFails, SaveIoFailed
<1> QED
  BY <1>1, IndInvHolds, PTL DEF SafeSpec, NoCleanExitAfterFailure

-----------------------------------------------------------------------------
(* The refinement of SavedGame.                                             *)

\* Steps that the player does not see.
LEMMA QuietStep ==
    ASSUME UNCHANGED <<ram, file, guest, handler, fault, saveState, faultSeen, exitMode,
                       request, power>>
    PROVE  UNCHANGED Game!savedVars
BY DEF Game!savedVars

\* The same, when the guest or the handler goes on.
LEMMA InnerStep ==
    ASSUME UNCHANGED <<ram, file, faultSeen, exitMode, request, power>>,
           guest' = "mark" <=> guest = "mark",
           handler' = "save" /\ fault' = "none" <=> handler = "save" /\ fault = "none",
           saveState' = "ERROR" <=> saveState = "ERROR"
    PROVE  UNCHANGED Game!savedVars
BY DEF Game!savedVars

LEMMA GuestRefines ==
    ASSUME IndInv
    PROVE  /\ \A b \in Bytes, v \in Values : GuestStore(b, v) => Game!Store
           /\ MarkDirty => Game!Stored
           /\ GuestSetsRtc \/ EnterFileSwi \/ LeaveFileSwi \/ RomReadFails =>
                 UNCHANGED Game!savedVars
           /\ FileSwiFails => Game!SaveFails
<1> USE DEF IndInv
<1>1. ASSUME NEW b \in Bytes, NEW v \in Values, GuestStore(b, v)
      PROVE  Game!Store
  <2>1. /\ power = "on" /\ saveState # "ERROR" /\ guest # "mark" /\ handler = "off"
        /\ guest' = "mark" /\ ram' = [ram EXCEPT ![b] = v]
        /\ UNCHANGED <<file, handler, fault, saveState, faultSeen, exitMode, request, power>>
    BY <1>1 DEF GuestStore, GuestRuns, Arm9Runs, HandlerInv, arm7Vars
  <2> QED
    BY <2>1 DEF Game!Store
<1>2. ASSUME MarkDirty
      PROVE  Game!Stored
  <2>1. /\ power = "on" /\ saveState # "ERROR" /\ guest = "mark"
        /\ guest' = "run" /\ saveState' # "ERROR"
        /\ UNCHANGED <<ram, file, handler, fault, faultSeen, exitMode, request, power>>
    BY <1>2 DEF MarkDirty, GuestRuns, Arm9Runs, HandlerInv, Marked, arm7Vars, dataVars
  <2> QED
    BY <2>1 DEF Game!Stored
<1>3. ASSUME GuestSetsRtc \/ EnterFileSwi \/ LeaveFileSwi \/ RomReadFails
      PROVE  UNCHANGED Game!savedVars
  <2>1. /\ UNCHANGED <<ram, file, faultSeen, exitMode, request, power, saveState, handler>>
        /\ guest' # "mark" /\ guest # "mark" /\ handler = "off"
    BY <1>3 DEF GuestSetsRtc, EnterFileSwi, LeaveFileSwi, RomReadFails, GuestRuns, arm7Vars,
            dataVars
  <2> QED
    BY <2>1, InnerStep
<1>4. ASSUME FileSwiFails
      PROVE  Game!SaveFails
  <2>1. /\ power = "on" /\ saveState # "ERROR" /\ handler = "off"
        /\ saveState' = "ERROR"
        /\ UNCHANGED <<ram, file, guest, handler, faultSeen, exitMode, request, power>>
    BY <1>4 DEF FileSwiFails, SaveIoFailed, GuestRuns, Arm9Runs, HandlerInv, arm7Vars
  <2>2. file' \in [Bytes -> Values] /\ \A b \in Bytes : file'[b] = file[b]
    BY <2>1 DEF TypeOK
  <2> QED
    BY <2>1, <2>2 DEF Game!SaveFails
<1> QED
  BY <1>1, <1>2, <1>3, <1>4

LEMMA HandlerRefines ==
    ASSUME IndInv
    PROVE  /\ EnterVBlank \/ FlushRtc \/ RtcWritten \/ RtcWriteFails \/ Reschedule =>
                 UNCHANGED Game!savedVars
           /\ WritePendingFiles => Game!Begin \/ UNCHANGED Game!savedVars
           /\ SaveWritten => Game!Save
           /\ SaveWriteFails => Game!SaveFails
<1> USE DEF IndInv
<1>1. ASSUME EnterVBlank \/ FlushRtc \/ RtcWritten \/ RtcWriteFails \/ Reschedule
      PROVE  UNCHANGED Game!savedVars
  <2>1. /\ UNCHANGED <<ram, file, guest, faultSeen, exitMode, request, power, saveState>>
        /\ handler # "save" /\ handler' # "save"
    BY <1>1 DEF EnterVBlank, FlushRtc, RtcWritten, RtcWriteFails, Reschedule, HandlerAt,
            arm7Vars, dataVars
  <2> QED
    BY <2>1, InnerStep
<1>2. ASSUME WritePendingFiles
      PROVE  Game!Begin \/ UNCHANGED Game!savedVars
  <2>1. power = "on" /\ fault = "none" /\ saveState # "ERROR" /\ handler = "pending"
        /\ guest # "mark"
    BY <1>2 DEF WritePendingFiles, HandlerAt, Arm9Runs, HandlerInv
  <2>2. PICK v \in {view, saveState} :
           IF v = "ERROR" THEN SaveIoFailed /\ UNCHANGED file
           ELSE /\ handler' = IF v \in Writable THEN "save" ELSE "rtc"
                /\ UNCHANGED <<setupVars, saveState, dataVars, vblank9, guest, fault, skipCheck,
                               rtcDirty, stores, arm7Vars, mcuVars, power>>
    BY <1>2 DEF WritePendingFiles
  <2>3. v # "ERROR"
    BY <2>1, <2>2 DEF HandlerInv
  <2>4. /\ handler' \in {"save", "rtc"}
        /\ UNCHANGED <<ram, file, guest, fault, faultSeen, exitMode, request, power, saveState>>
    BY <2>2, <2>3 DEF arm7Vars, dataVars
  <2>5. CASE handler' = "save"
    BY <2>1, <2>4, <2>5 DEF Game!Begin
  <2>6. CASE handler' = "rtc"
    BY <2>1, <2>4, <2>6, InnerStep
  <2> QED
    BY <2>4, <2>5, <2>6
<1>3. ASSUME SaveWritten
      PROVE  Game!Save
  <2>1. /\ power = "on" /\ fault = "none" /\ handler = "save" /\ saveState = "WRITE"
        /\ handler' = "rtc" /\ saveState' = "CLEAN" /\ file' = ram
        /\ UNCHANGED <<ram, guest, fault, faultSeen, exitMode, request, power>>
    BY <1>3 DEF SaveWritten, HandlerAt, Arm9Runs, WriteIsNotRevoked, Accepted, arm7Vars
  <2> QED
    BY <2>1 DEF Game!Save
<1>4. ASSUME SaveWriteFails
      PROVE  Game!SaveFails
  <2>1. /\ power = "on" /\ fault = "none" /\ handler = "save" /\ saveState # "ERROR"
        /\ fault' = "save" /\ saveState' = "ERROR"
        /\ UNCHANGED <<ram, guest, handler, faultSeen, exitMode, request, power>>
    BY <1>4 DEF SaveWriteFails, SaveIoFailed, HandlerAt, Arm9Runs, HandlerInv, arm7Vars
  <2>2. /\ file' \in [Bytes -> Values]
        /\ \A b \in Bytes : file'[b] = file[b] \/ file'[b] = ram[b]
    BY <1>4 DEF SaveWriteFails, PartlyWritten
  <2> QED
    BY <2>1, <2>2 DEF Game!SaveFails
<1> QED
  BY <1>1, <1>2, <1>3, <1>4

LEMMA Arm7Refines ==
    ASSUME IndInv
    PROVE  /\ WakeUp \/ CheckMcuIrq \/ Update \/ StoreState => UNCHANGED Game!savedVars
           /\ ReadMcuMask => Game!Ask \/ UNCHANGED Game!savedVars
           /\ SeeSaveError => Game!Tell \/ UNCHANGED Game!savedVars
           /\ Exit => Game!GiveUp \/ Game!Tell \/ Game!TurnOff \/ UNCHANGED Game!savedVars
           /\ Flush => Game!TurnOff \/ UNCHANGED Game!savedVars
<1> USE DEF IndInv
<1>1. ASSUME WakeUp \/ CheckMcuIrq \/ Update
      PROVE  UNCHANGED Game!savedVars
  BY <1>1, QuietStep DEF WakeUp, CheckMcuIrq, Update, arm9Vars, dataVars
<1>2. ASSUME StoreState
      PROVE  UNCHANGED Game!savedVars
  <2>1. saveState # "ERROR" /\ saveState' # "ERROR"
    BY <1>2 DEF StoreState, LatchInv, TypeOK
  <2> QED
    BY <1>2, <2>1, InnerStep DEF StoreState, arm9Vars, dataVars
<1>3. ASSUME ReadMcuMask
      PROVE  Game!Ask \/ UNCHANGED Game!savedVars
  <2>1. /\ power = "on"
        /\ UNCHANGED <<ram, file, guest, handler, fault, saveState, faultSeen, power>>
    BY <1>3 DEF ReadMcuMask, Arm7At, arm9Vars, dataVars
  <2>2. CASE UNCHANGED <<exitMode, request>>
    BY <2>1, <2>2, QuietStep
  <2>3. CASE \E b \in Buttons : exitMode' = b /\ request' = [knew |-> mcuMask[b], seen |-> faultSeen]
    <3>1. request'.seen = faultSeen /\ faultSeen \in BOOLEAN
      BY <2>3 DEF TypeOK
    <3>2. (exitMode' = "PowerOff") \in BOOLEAN
      OBVIOUS
    <3>3. (exitMode = "PowerOff" /\ request.seen)' = ((exitMode' = "PowerOff") /\ faultSeen)
      BY <3>1
    <3> QED
      BY <2>1, <3>2, <3>3 DEF Game!Ask
  <2> QED
    BY <1>3, <2>2, <2>3 DEF ReadMcuMask
<1>4. ASSUME SeeSaveError
      PROVE  Game!Tell \/ UNCHANGED Game!savedVars
  <2>1. /\ power = "on"
        /\ UNCHANGED <<ram, file, guest, handler, fault, saveState, exitMode, request, power>>
    BY <1>4 DEF SeeSaveError, Arm7At, arm9Vars, dataVars
  <2>2. CASE UNCHANGED faultSeen
    BY <2>1, <2>2, QuietStep
  <2>3. CASE saveState = "ERROR" /\ faultSeen' = TRUE
    BY <2>1, <2>3 DEF Game!Tell
  <2> QED
    BY <1>4, <2>2, <2>3 DEF SeeSaveError
<1>5. ASSUME Exit
      PROVE  Game!GiveUp \/ Game!Tell \/ Game!TurnOff \/ UNCHANGED Game!savedVars
  <2>1. /\ power = "on"
        /\ UNCHANGED <<ram, file, guest, handler, fault, saveState, exitMode, request>>
    BY <1>5 DEF Exit, Arm7At, arm9Vars, dataVars
  <2>2. CASE Failed /\ Discards /\ power' = "discarded" /\ UNCHANGED faultSeen
    <3>1. exitMode = "PowerOff" /\ request.seen
      BY <1>5, <2>2 DEF Exit, Arm7At, Discards, RequestInv
    <3> QED
      BY <2>1, <2>2, <3>1 DEF Failed, Game!GiveUp
  <2>3. CASE Failed /\ faultSeen' = TRUE /\ UNCHANGED power
    BY <2>1, <2>3 DEF Failed, Game!Tell
  <2>4. CASE ~Failed /\ FileBacked /\ power' = "clean" /\ UNCHANGED faultSeen
    <3>1. file = ram /\ ~(handler = "save" /\ fault = "none")
      BY <2>4 DEF HandlerInv, WriteIsNotRevoked, Failed
    <3> QED
      BY <2>1, <2>4, <3>1 DEF Failed, Game!TurnOff
  <2>5. CASE UNCHANGED <<power, faultSeen>>
    BY <2>1, <2>5, QuietStep
  <2> QED
    BY <1>5, <2>2, <2>3, <2>4, <2>5 DEF Exit
<1>6. ASSUME Flush
      PROVE  Game!TurnOff \/ UNCHANGED Game!savedVars
  <2>1. /\ power = "on"
        /\ UNCHANGED <<ram, file, guest, handler, fault, saveState, exitMode, request, faultSeen>>
    BY <1>6 DEF Flush, Arm7At, arm9Vars, dataVars
  <2>2. CASE saveState = "CLEAN" /\ power' = "clean"
    <3>1. (file = ram \/ guest = "mark") /\ ~(handler = "save" /\ fault = "none")
      BY <2>2 DEF CleanMeansSaved, WriteIsNotRevoked
    <3> QED
      BY <2>1, <2>2, <3>1 DEF Game!TurnOff
  <2>3. CASE UNCHANGED power
    BY <2>1, <2>3, QuietStep
  <2> QED
    BY <1>6, <2>2, <2>3 DEF Flush, Written
<1> QED
  BY <1>1, <1>2, <1>3, <1>4, <1>5, <1>6

LEMMA StepsRefine ==
    ASSUME IndInv, [Next]_vars
    PROVE  [Game!SavedNext]_(Game!savedVars)
<1>1. CASE \E b \in Bytes, v \in Values : GuestStore(b, v)
  BY <1>1, GuestRefines DEF Game!SavedNext
<1>2. CASE MarkDirty \/ GuestSetsRtc \/ EnterFileSwi \/ LeaveFileSwi \/ FileSwiFails \/ RomReadFails
  BY <1>2, GuestRefines DEF Game!SavedNext
<1>3. CASE Handler
  BY <1>3, HandlerRefines DEF Handler, Game!SavedNext
<1>4. CASE Arm7
  BY <1>4, Arm7Refines DEF Arm7, Game!SavedNext
<1>5. CASE VBlank \/ (\E b \in Buttons : Press(b)) \/ UNCHANGED vars
  BY <1>5, QuietStep
     DEF VBlank, Press, vars, arm9Vars, arm7Vars, dataVars
<1> QED
  BY <1>1, <1>2, <1>3, <1>4, <1>5 DEF Next

\* What the two processors do to the save is what SavedGame promises, in every
\* interleaving, for any save RAM and any failures of the card.
THEOREM Refinement == Spec => ImplementsSavedGame
<1>1. Init => Game!SavedInit
  <2> SUFFICES ASSUME Init PROVE Game!SavedInit
    OBVIOUS
  <2>1. ram \in [Bytes -> Values] /\ file = ram
    BY DEF Init, Values
  <2> QED
    BY <2>1 DEF Init, Game!SavedInit
<1> QED
  BY <1>1, IndInvHolds, StepsRefine, PTL DEF Spec, SafeSpec, ImplementsSavedGame, Game!SavedSpec

-----------------------------------------------------------------------------
(* How long a store waits.                                                  *)

\* The passes of the ARM7 until it requests the write of what is unsaved, counting a
\* state that it has decided on and not yet written.
AgeLeft ==
    CASE latch7 = "WRITE" -> 0
      [] latch7 = "WAIT" -> waitCounter
      [] latch7 = "none" /\ saveState = "WAIT" -> waitCounter
      [] latch7 = "none" /\ saveState = "DIRTY" -> WaitFrames + 1
      [] OTHER -> 0

\* On a DS each pass takes exactly one away until the write is requested; nothing but
\* a store starts the count again, and nothing but an exit cuts it short: a state that
\* the ARM7 writes over the guest's neither loses the store's time nor counts a frame
\* twice (GbaSaveIpcService.cpp:36-46).
AgeStep ==
    /\ ~DsiMode /\ Update /\ AgeLeft # 0 => AgeLeft' = AgeLeft - 1
    /\ AgeLeft' > AgeLeft => MarkDirty
    /\ AgeLeft' < AgeLeft => Update \/ Flush

SavesAge == [][AgeStep]_vars

\* What the file lacks is waiting for its time, requested, or the subject of a failure.
UnsavedAges ==
    /\ AgeLeft \in 0 .. WaitFrames + 1
    /\ ram # file /\ guest # "mark" =>
          AgeLeft > 0 \/ latch7 = "WRITE" \/ saveState \in {"WRITE", "ERROR"}

LEMMA AgeTyped == ASSUME IndInv PROVE UnsavedAges
<1>1. /\ waitCounter \in 0 .. WaitFrames /\ WaitFrames \in Nat \ {0}
      /\ latch7 \in {"none", "WAIT", "WRITE"} /\ saveState \in States
  BY SaveConstants DEF IndInv, TypeOK
<1>2. AgeLeft \in 0 .. WaitFrames + 1
  BY <1>1 DEF AgeLeft
<1>3. ASSUME ram # file, guest # "mark", latch7 # "WRITE", saveState \notin {"WRITE", "ERROR"}
      PROVE  AgeLeft > 0
  <2>1. saveState \in {"DIRTY", "WAIT"}
    BY <1>1, <1>3 DEF IndInv, CleanMeansSaved, States
  <2>2. latch7 = "WAIT" \/ saveState = "WAIT" => waitCounter > 0
    BY <1>3 DEF IndInv, LatchInv
  <2> QED
    BY <2>1, <2>2, <1>1, <1>3 DEF AgeLeft
<1> QED
  BY <1>2, <1>3 DEF UnsavedAges

\* A step that writes neither of the three keeps the age.
LEMMA AgeKept ==
    ASSUME IndInv, AgeLeft' = AgeLeft, ~Update
    PROVE  AgeStep
<1>1. AgeLeft \in Int
  BY AgeTyped, SaveConstants DEF UnsavedAges
<1> QED
  BY <1>1 DEF AgeStep

LEMMA UpdateAges ==
    ASSUME IndInv, Update
    PROVE  AgeStep
<1>1. /\ waitCounter \in 0 .. WaitFrames /\ WaitFrames \in Nat \ {0}
      /\ latch7 = "none" /\ saveState' = saveState
  BY SaveConstants DEF IndInv, TypeOK, LatchInv, Update, Arm7At
<1>2. CASE /\ ~FileBacked /\ ~DsiMode /\ Ages(saveState)
           /\ latch7' = "WAIT" /\ waitCounter' = WaitFrames
  BY <1>1, <1>2 DEF AgeStep, AgeLeft, Ages
<1>3. CASE /\ ~FileBacked /\ ~DsiMode /\ saveState = "WAIT"
           /\ waitCounter' = waitCounter - 1
           /\ latch7' = IF Expired THEN "WRITE" ELSE latch7
  <2>1. AgeLeft = waitCounter
    BY <1>1, <1>3 DEF AgeLeft
  <2>2. AgeLeft' = waitCounter - 1
    BY <1>1, <1>3 DEF AgeLeft, Expired
  <2> QED
    BY <1>1, <2>1, <2>2 DEF AgeStep
<1>4. CASE /\ FileBacked \/ DsiMode \/ ~(Ages(saveState) \/ saveState = "WAIT")
           /\ UNCHANGED <<latch7, waitCounter>>
  <2>1. AgeLeft' = AgeLeft
    BY <1>1, <1>4 DEF AgeLeft
  <2>2. AgeLeft \in Int
    BY AgeTyped, SaveConstants DEF UnsavedAges
  <2>3. FileBacked => AgeLeft = 0
    BY <1>1 DEF IndInv, HandlerInv, AgeLeft
  <2>4. ~(Ages(saveState) \/ saveState = "WAIT") => AgeLeft = 0
    BY <1>1 DEF AgeLeft, Ages
  <2> QED
    BY <1>4, <2>1, <2>2, <2>3, <2>4 DEF AgeStep
<1> QED
  BY <1>2, <1>3, <1>4 DEF Update

\* The handler writes the save only when its time is over.
LEMMA HandlerKeepsAge ==
    ASSUME IndInv, Handler
    PROVE  AgeLeft' = AgeLeft
<1>1. waitCounter' = waitCounter /\ latch7' = latch7
  BY DEF Handler, EnterVBlank, WritePendingFiles, SaveWritten, SaveWriteFails, FlushRtc,
         RtcWritten, RtcWriteFails, Reschedule, SaveIoFailed, arm7Vars
<1>2. CASE saveState' = saveState
  BY <1>1, <1>2 DEF AgeLeft
<1>3. CASE saveState' # saveState
  <2>1. saveState = "WRITE" /\ saveState' \in {"CLEAN", "ERROR"}
    <3>1. CASE WritePendingFiles
      BY <3>1, <1>3 DEF WritePendingFiles, HandlerAt, Arm9Runs, SaveIoFailed, IndInv, HandlerInv
    <3>2. CASE SaveWritten \/ SaveWriteFails
      BY <3>2 DEF SaveWritten, SaveWriteFails, SaveIoFailed, HandlerAt, Arm9Runs,
                  IndInv, WriteIsNotRevoked
    <3> QED
      BY <3>1, <3>2, <1>3
         DEF Handler, EnterVBlank, FlushRtc, RtcWritten, RtcWriteFails, Reschedule
  <2>2. latch7 = "none"
    BY <2>1 DEF IndInv, LatchInv, TypeOK
  <2> QED
    BY <1>1, <2>1, <2>2 DEF AgeLeft
<1> QED
  BY <1>2, <1>3

LEMMA StepsAge ==
    ASSUME IndInv, Next
    PROVE  AgeStep
<1>1. /\ AgeLeft \in 0 .. WaitFrames + 1
      /\ waitCounter \in 0 .. WaitFrames /\ WaitFrames \in Nat \ {0}
      /\ latch7 \in {"none", "WAIT", "WRITE"}
  BY AgeTyped, SaveConstants DEF UnsavedAges, IndInv, TypeOK
<1>2. CASE Update
  BY <1>2, UpdateAges
<1> SUFFICES ASSUME ~Update PROVE AgeStep
  BY <1>2
<1>3. ASSUME UNCHANGED <<saveState, latch7, waitCounter>> PROVE AgeStep
  BY <1>3, AgeKept DEF AgeLeft
<1>4. CASE Handler
  BY <1>4, HandlerKeepsAge, AgeKept
<1>5. CASE MarkDirty
  <2>1. latch7' = latch7 /\ waitCounter' = waitCounter /\ saveState' = "DIRTY"
    BY <1>5 DEF MarkDirty, Marked, arm7Vars, IndInv, HandlerInv
  <2>2. AgeLeft' = IF latch7 = "none" THEN WaitFrames + 1 ELSE AgeLeft
    BY <2>1, <1>1 DEF AgeLeft
  <2> QED
    BY <2>2, <1>1, <1>5 DEF AgeStep
<1>6. CASE StoreState
  <2>1. /\ latch7 \in {"WAIT", "WRITE"} /\ latch7' = "none"
        /\ saveState' = latch7 /\ waitCounter' = waitCounter
    BY <1>6, <1>1 DEF StoreState, IndInv, LatchInv
  <2> QED
    BY <2>1, AgeKept DEF AgeLeft
<1>7. CASE Flush
  <2>1. saveState' = saveState /\ waitCounter' = waitCounter /\ latch7' \in {latch7, "WRITE"}
    BY <1>7 DEF Flush
  <2>2. AgeLeft' \in {AgeLeft, 0}
    BY <2>1 DEF AgeLeft
  <2> QED
    BY <2>2, <1>1, <1>7 DEF AgeStep
<1>8. CASE FileSwiFails
  <2>1. saveState \in {"CLEAN", "ERROR"} /\ saveState' = "ERROR" /\ latch7 = "none"
    BY <1>8 DEF FileSwiFails, SaveIoFailed, GuestRuns, IndInv, HandlerInv, LatchInv
  <2>2. latch7' = latch7
    BY <1>8 DEF FileSwiFails, SaveIoFailed, arm7Vars
  <2> QED
    BY <2>1, <2>2, AgeKept DEF AgeLeft
<1>9. CASE (\E b \in Bytes, v \in Values : GuestStore(b, v)) \/ GuestSetsRtc \/ EnterFileSwi
           \/ LeaveFileSwi \/ RomReadFails \/ VBlank \/ (\E b \in Buttons : Press(b))
  BY <1>3, <1>9 DEF GuestStore, GuestSetsRtc, EnterFileSwi, LeaveFileSwi, RomReadFails,
                    VBlank, Press, arm7Vars
<1>10. CASE WakeUp \/ CheckMcuIrq \/ ReadMcuMask \/ SeeSaveError \/ Exit
  BY <1>3, <1>10 DEF WakeUp, CheckMcuIrq, ReadMcuMask, SeeSaveError, Exit
<1> QED
  BY <1>4, <1>5, <1>6, <1>7, <1>8, <1>9, <1>10 DEF Next, Arm7

\* A store reaches the card, or the failure the screen, in a bounded number of frames:
\* what remains of StoresReachTheCard is that the frames come and the handler ends.
THEOREM StoresAge == SafeSpec => []UnsavedAges /\ SavesAge
<1>1. IndInv => UnsavedAges
  BY AgeTyped
<1>2. IndInv /\ [Next]_vars => [AgeStep]_vars
  BY StepsAge
<1> QED
  BY <1>1, <1>2, IndInvHolds, PTL DEF SafeSpec, SavesAge
=============================================================================
