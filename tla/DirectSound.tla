------------------------------ MODULE DirectSound ------------------------------
(***************************************************************************)
(* One channel of direct sound: a ring of words that the ARM9 fills          *)
(* (GbaSound9.c, GbaSoundAsm.s, dma_dmaSound) and the ARM7 plays             *)
(* (GbaSound7.c).  The processors share it without a lock: each has an offset *)
(* of its own, the ARM7 asks for data with dmaRequest and an interrupt, and   *)
(* the ARM9 answers by clearing dmaRequest.  Every access to shared memory is *)
(* a step of its own.  The ARM9 does one thing at a time: interrupts are      *)
(* masked while a store of the guest is emulated and in the handler.         *)
(***************************************************************************)
EXTENDS Naturals

CONSTANT Half   \* the words of a refill, half of the ring: 4 in the code

ASSUME RingAssumption == Half \in Nat \ {0}

Size == Half + Half
Slots == 0 .. Size - 1

VARIABLES
    fifo,           \* fifo: whether the word in a slot is still to be played
    readOffset,     \* the ARM7's, but for a reset
    writeOffset,    \* the ARM9's
    dmaRequest,     \* set by the ARM7, cleared by the ARM9
    irq,            \* the ARM7's interrupt waits in REG_IF of the ARM9
    armed,          \* the channel's instruction in emu_arm7Irq is a call
    pc9,            \* what the ARM9 is doing
    left,           \* the words of a refill that are not in the ring
    pc7,            \* what the ARM7 is doing
    read7,          \* its copy of readOffset
    level7,         \* its fifoCount
    current,        \* history: what the ARM7 bases a request on has not changed
    asked,          \* ... the request was made on a current level and nothing
                    \* else has written to the ring since
    order,          \* ... what has happened to the ring while the ARM7 was at work:
                    \* "reset", "overrun" or nothing since the last reset
    echoes          \* ... the words it has played since that were not new

ring == <<fifo, readOffset, writeOffset>>
arm9 == <<pc9, left>>
arm7 == <<pc7, read7, level7>>
vars == <<ring, dmaRequest, irq, armed, arm9, arm7, current, asked, order, echoes>>

TypeOK ==
    /\ fifo \in [Slots -> {"new", "old"}]
    /\ readOffset \in Slots /\ writeOffset \in Slots
    /\ dmaRequest \in BOOLEAN /\ irq \in BOOLEAN /\ armed \in BOOLEAN
    /\ pc9 \in {"guest", "stored", "reset", "arming", "request", "copy", "copied", "done"}
    /\ left \in 0 .. Half
    /\ pc7 \in {"idle", "level", "test", "trigger", "sample", "advance"}
    /\ read7 \in Slots /\ level7 \in Slots
    /\ current \in BOOLEAN /\ asked \in BOOLEAN /\ order \in {"kept", "reset", "overrun"}
    /\ echoes \in Nat

\* gbas_init of both processors.
Init ==
    /\ fifo = [s \in Slots |-> "old"]
    /\ readOffset = 0 /\ writeOffset = 0
    /\ dmaRequest = FALSE /\ irq = FALSE /\ armed = FALSE
    /\ pc9 = "guest" /\ left = 0
    /\ pc7 = "idle" /\ read7 = 0 /\ level7 = 0
    /\ current = FALSE /\ asked = FALSE /\ order = "kept" /\ echoes = 0

\* (offset + 1) & 7.
Following(offset) == IF offset = Size - 1 THEN 0 ELSE offset + 1

\* (write - read) & 7: a full ring looks empty.
Level(write, read) == IF write >= read THEN write - read ELSE write + Size - read

-----------------------------------------------------------------------------
(* The ARM9: stores of the guest.                                           *)

\* The word, then the offset: gbas_writeFifoA32, writeFifo32.
StoreWord == fifo' = [fifo EXCEPT ![writeOffset] = "new"] /\ UNCHANGED <<readOffset, writeOffset>>
StoreOffset ==
    /\ writeOffset' = Following(writeOffset)
    /\ order' = IF writeOffset' = readOffset /\ pc7 # "idle" THEN "overrun" ELSE order
    /\ UNCHANGED <<fifo, readOffset>>

GuestWord ==
    /\ pc9 = "guest" /\ pc9' = "stored"
    /\ StoreWord
    /\ UNCHANGED <<dmaRequest, irq, armed, left, arm7, current, asked, order, echoes>>

GuestOffset ==
    /\ pc9 = "stored" /\ pc9' = "guest"
    /\ StoreOffset
    /\ current' = FALSE /\ asked' = FALSE
    /\ UNCHANGED <<dmaRequest, irq, armed, left, arm7, echoes>>

\* Mutant: the words are dropped by moving the write offset alone.
ResetNothing ==
    /\ pc9 = "guest" /\ pc9' = "reset"
    /\ fifo' = [s \in Slots |-> "old"]
    /\ order' = IF pc7 = "idle" THEN "kept" ELSE "reset"
    /\ echoes' = 0
    /\ current' = FALSE /\ asked' = FALSE
    /\ UNCHANGED <<readOffset, writeOffset, dmaRequest, irq, armed, left, arm7>>

\* resetFifo: the guest drops the words of the ring.
ResetRead ==
    /\ pc9 = "guest" /\ pc9' = "reset"
    /\ readOffset' = 0
    /\ fifo' = [s \in Slots |-> "old"]
    /\ order' = IF pc7 = "idle" THEN "kept" ELSE "reset"
    /\ echoes' = 0
    /\ current' = FALSE /\ asked' = FALSE
    /\ UNCHANGED <<writeOffset, dmaRequest, irq, armed, left, arm7>>

ResetWrite ==
    /\ pc9 = "reset" /\ pc9' = "guest"
    /\ writeOffset' = 0
    /\ current' = FALSE /\ asked' = FALSE
    /\ UNCHANGED <<fifo, readOffset, dmaRequest, irq, armed, left, arm7, order, echoes>>

\* Mutant: a request of the time before is left as it was.
ArmOnly ==
    /\ pc9 = "guest" /\ ~armed /\ armed' = TRUE
    /\ UNCHANGED <<ring, dmaRequest, irq, arm9, arm7, current, asked, order, echoes>>

\* dmaStartSound: the call is patched in first,
Arm ==
    /\ pc9 = "guest" /\ pc9' = "arming"
    /\ ~armed /\ armed' = TRUE
    /\ UNCHANGED <<ring, dmaRequest, irq, left, arm7, current, asked, order, echoes>>

\* ... and the request of a time when nobody served it goes last.
Forget ==
    /\ pc9 = "arming" /\ pc9' = "guest"
    /\ dmaRequest' = FALSE
    /\ current' = FALSE /\ asked' = FALSE
    /\ UNCHANGED <<ring, irq, armed, left, arm7, order, echoes>>

\* dmaStop.
Disarm ==
    /\ pc9 = "guest" /\ armed /\ armed' = FALSE
    /\ UNCHANGED <<ring, dmaRequest, irq, arm9, arm7, current, asked, order, echoes>>

-----------------------------------------------------------------------------
(* The ARM9: interrupts.                                                    *)

\* vm_irq acknowledges what it has found, then emu_arm7Irq calls dma_dmaSound.
\* The request of the other channel calls it too.
Arm7Irq ==
    /\ pc9 = "guest" /\ armed
    /\ pc9' = "request" /\ irq' = FALSE
    /\ UNCHANGED <<ring, dmaRequest, armed, left, arm7, current, asked, order, echoes>>

\* With the call patched out, or the interrupt masked until another is taken,
\* it is acknowledged and lost.
LoseIrq ==
    /\ pc9 = "guest" /\ ~armed
    /\ irq /\ irq' = FALSE
    /\ UNCHANGED <<ring, dmaRequest, armed, arm9, arm7, current, asked, order, echoes>>

\* dma_dmaSound: nothing was asked for.
NoRequest ==
    /\ pc9 = "request" /\ ~dmaRequest
    /\ pc9' = "guest"
    /\ UNCHANGED <<ring, dmaRequest, irq, armed, left, arm7, current, asked, order, echoes>>

\* A source that cannot be read, or a destination that is not this ring.
NoData ==
    /\ pc9 = "request" /\ dmaRequest
    /\ pc9' = "done"
    /\ UNCHANGED <<ring, dmaRequest, irq, armed, left, arm7, current, asked, order, echoes>>

Refill ==
    /\ pc9 = "request" /\ dmaRequest
    /\ pc9' = "copy" /\ left' = Half
    /\ UNCHANGED <<ring, dmaRequest, irq, armed, arm7, current, asked, order, echoes>>

RefillWord ==
    /\ pc9 = "copy" /\ pc9' = "copied"
    /\ StoreWord
    /\ UNCHANGED <<dmaRequest, irq, armed, left, arm7, current, asked, order, echoes>>

RefillOffset ==
    /\ pc9 = "copied"
    /\ StoreOffset
    /\ left' = left - 1
    /\ pc9' = IF left = 1 THEN "done" ELSE "copy"
    /\ UNCHANGED <<dmaRequest, irq, armed, arm7, current, asked, echoes>>

\* The answer; a channel that does not repeat stops.
Answer(repeat) ==
    /\ pc9 = "done" /\ pc9' = "guest"
    /\ dmaRequest' = FALSE
    /\ armed' = (armed /\ repeat)
    /\ current' = FALSE /\ asked' = FALSE
    /\ UNCHANGED <<ring, irq, left, arm7, order, echoes>>

-----------------------------------------------------------------------------
(* The ARM7: an overflow of the channel's timer (updateDirectChannel).       *)

\* The locals of an iteration end with it.
EndOfStep == pc7' = "idle" /\ read7' = 0 /\ level7' = 0

ReadReadOffset ==
    /\ pc7 = "idle" /\ pc7' = "level"
    /\ read7' = readOffset
    /\ current' = TRUE
    /\ order' = IF pc9 = "reset" THEN "reset" ELSE order
    /\ UNCHANGED <<ring, dmaRequest, irq, armed, arm9, level7, asked, echoes>>

ReadWriteOffset ==
    /\ pc7 = "level" /\ pc7' = "test"
    /\ level7' = Level(writeOffset, read7)
    /\ UNCHANGED <<ring, dmaRequest, irq, armed, arm9, read7, current, asked, order, echoes>>

\* Mutant: half is taken for less than half.
RequestAtHalf ==
    /\ pc7 = "test"
    /\ level7 <= Half /\ ~dmaRequest
    /\ dmaRequest' = TRUE /\ asked' = current /\ current' = FALSE
    /\ pc7' = "trigger"
    /\ UNCHANGED <<ring, irq, armed, arm9, read7, level7, order, echoes>>

\* Mutant: the interrupt is left out.
RequestSilently ==
    /\ pc7 = "test"
    /\ level7 < Half /\ ~dmaRequest
    /\ dmaRequest' = TRUE /\ asked' = current /\ current' = FALSE
    /\ pc7' = "sample"
    /\ UNCHANGED <<ring, irq, armed, arm9, read7, level7, order, echoes>>

\* Less than half is left, and nobody has been told.
Request ==
    /\ pc7 = "test"
    /\ level7 < Half /\ ~dmaRequest
    /\ dmaRequest' = TRUE /\ asked' = current /\ current' = FALSE
    /\ pc7' = "trigger"
    /\ UNCHANGED <<ring, irq, armed, arm9, read7, level7, order, echoes>>

NeedNothing ==
    /\ pc7 = "test" /\ pc7' = "sample"
    /\ level7 >= Half \/ dmaRequest
    /\ current' = FALSE
    /\ UNCHANGED <<ring, dmaRequest, irq, armed, arm9, read7, level7,
                   asked, order, echoes>>

Trigger ==
    /\ pc7 = "trigger" /\ pc7' = "sample"
    /\ irq' = TRUE
    /\ UNCHANGED <<ring, dmaRequest, armed, arm9, read7, level7,
                   current, asked, order, echoes>>

\* Another sample of the word that is playing (curPlaySampleCount is left out), or
\* none where the ring is empty.
NextSample ==
    /\ pc7 = "sample" /\ EndOfStep
    /\ UNCHANGED <<ring, dmaRequest, irq, armed, arm9, current, asked, order, echoes>>

\* The word is over, and the ring has another.
Play ==
    /\ pc7 = "sample" /\ pc7' = "advance"
    /\ level7 # 0
    /\ fifo' = [fifo EXCEPT ![read7] = "old"]
    /\ echoes' = IF fifo[read7] = "old" /\ order # "overrun" THEN echoes + 1 ELSE echoes
    /\ UNCHANGED <<readOffset, writeOffset, dmaRequest, irq, armed, arm9, read7, level7,
                   current, asked, order>>

Advance ==
    /\ pc7 = "advance" /\ EndOfStep
    /\ readOffset' = Following(read7)
    /\ UNCHANGED <<fifo, writeOffset, dmaRequest, irq, armed, arm9,
                   current, asked, order, echoes>>

-----------------------------------------------------------------------------
Emulate == GuestOffset \/ ResetWrite \/ Forget
Serve ==
    \/ NoRequest \/ NoData \/ Refill \/ RefillWord \/ RefillOffset
    \/ \E repeat \in BOOLEAN : Answer(repeat)
Guest == GuestWord \/ ResetRead \/ Arm \/ Disarm
Mix == ReadWriteOffset \/ Request \/ NeedNothing \/ Trigger \/ NextSample \/ Play \/ Advance

Next == Guest \/ Emulate \/ Arm7Irq \/ LoseIrq \/ Serve \/ ReadReadOffset \/ Mix

\* A processor that has begun goes on; an interrupt that waits is taken between two
\* stores of the guest, whatever it does.  No timer has to overflow.
Spec ==
    /\ Init /\ [][Next]_vars
    /\ WF_vars(Emulate \/ Serve) /\ WF_vars(Mix)
    /\ SF_vars(Arm7Irq /\ irq)

-----------------------------------------------------------------------------
(* Correctness.                                                             *)

\* What the ARM9 has to do before an unanswered request is answered.
Handling == pc9 \in {"request", "copy", "copied", "done", "arming"}

\* A channel that is served never has a request that nobody will be told of: such
\* a request would be the last one, because the ARM7 does not repeat it
\* (GbaSound7.c:28-32, DmaTransfer.c:407-422, 458).
RequestIsAnnounced ==
    armed /\ dmaRequest => irq \/ pc7 = "trigger" \/ Handling

\* A refill that was asked for on a current level never overtakes the ARM7: only
\* a refill that ends between the ARM7's look at the offsets and its look at
\* dmaRequest can bring a second one that the ring has no room for
\* (GbaSound7.c:26-28, DmaTransfer.c:421).
RefillFits ==
    asked /\ pc9 \in {"copy", "copied"} => Level(writeOffset, readOffset) + left < Size

\* The ARM7 plays no word twice and none that a reset has dropped, unless it was
\* at work while the offsets were reset; and then the old words it plays make up
\* less than two rings, before it is in order again (GbaSound9.c:28-32,
\* GbaSound7.c:40-42).
EchoesEnd == echoes <= IF order = "kept" THEN 0 ELSE Size + Size - 1

\* The slots that the offsets say are full.
Full(slot) == Level(slot, readOffset) < Level(writeOffset, readOffset)

\* Why the words are played in order: the ARM7's copies describe the ring until it
\* is reset or overrun, and what it is about to play is new.
InOrder ==
    order = "kept" =>
      /\ echoes = 0
      /\ pc9 = "reset" => readOffset = 0
      /\ pc7 # "idle" => pc9 # "reset" /\ read7 = readOffset
      /\ pc7 \in {"test", "trigger", "sample", "advance"} =>
            level7 <= Level(writeOffset, readOffset)
      /\ pc7 = "advance" => level7 # 0
      /\ pc9 # "reset" => \A slot \in Slots :
            Full(slot) /\ (pc7 = "advance" => slot # read7) => fifo[slot] = "new"
      /\ pc9 \in {"stored", "copied"} => fifo[writeOffset] = "new"

\* Why a refill fits: a request on a current level is made with less than half
\* in the ring, and from then on only the refill itself adds to it.
Room ==
    /\ pc7 \in {"level", "test"} /\ current => read7 = readOffset
    /\ pc7 = "test" /\ current /\ ~dmaRequest => level7 = Level(writeOffset, readOffset)
    /\ pc7 = "advance" => level7 # 0
    /\ asked =>
         /\ dmaRequest
         /\ pc7 # "idle" => read7 = readOffset
         /\ pc7 \in {"test", "trigger", "sample", "advance"} =>
               level7 <= Level(writeOffset, readOffset)
         /\ pc9 \notin {"copy", "copied", "done"} => Level(writeOffset, readOffset) < Half
         /\ pc9 \in {"copy", "copied"} => Level(writeOffset, readOffset) + left < Size

Serving ==
    /\ pc9 \in {"copy", "copied", "done"} => dmaRequest
    /\ pc9 \in {"copy", "copied"} => left # 0
    /\ pc9 \in {"request", "copy", "copied", "done", "arming"} => armed

\* Why the echoes end.  The word being played has been counted, the read offset has
\* not passed it.
Playing == IF pc7 = "advance" THEN 1 ELSE 0

\* The ARM7's copies are of a ring whose read offset has since been reset.
Stale == pc7 # "idle" /\ readOffset = 0

\* Its copies are good: what it counts is in the ring.
Copied ==
    /\ pc7 # "idle" => read7 = readOffset
    /\ pc7 \in {"test", "trigger", "sample", "advance"} =>
          level7 <= Level(writeOffset, readOffset)

\* Between the two stores of a reset it plays to the old write offset at most.
EchoesOfReset ==
    \/ Stale /\ echoes <= Playing
    \/ Copied /\ echoes + Level(writeOffset, readOffset) <= Size + Playing

\* After the second, it moves the old read offset on by a word,
EchoesOfCopy ==
    /\ Stale /\ echoes < Size + Playing
    /\ \A slot \in Slots :
          slot < writeOffset /\ (pc7 = "advance" => slot # read7) => fifo[slot] = "new"
    /\ pc9 \in {"stored", "copied"} =>
          \/ fifo[writeOffset] = "new"
          \/ pc7 = "advance" /\ read7 = writeOffset /\ echoes < Size

\* A word that was played before it was counted will be played again; no slot is Size.
Again(replay) == IF replay = Size THEN 0 ELSE 1

\* ... plays from there to the end of the ring, the new words being at its start,
EchoesToTheEnd(replay) ==
    /\ pc7 # "idle" => read7 = readOffset
    /\ writeOffset < readOffset
    /\ echoes + Again(replay) < Size + readOffset + Playing
    /\ \A slot \in Slots : slot < writeOffset /\ slot # replay => fifo[slot] = "new"
    /\ pc9 \in {"stored", "copied"} /\ writeOffset # replay => fifo[writeOffset] = "new"

\* ... and from then on plays new words only.
InOrderAgain(replay) ==
    /\ Copied
    /\ echoes + Again(replay) < Size + Size
    /\ \A slot \in Slots :
          Full(slot) /\ (pc7 = "advance" => slot # read7) /\ slot # replay => fifo[slot] = "new"
    /\ pc9 \in {"stored", "copied"} /\ writeOffset # replay => fifo[writeOffset] = "new"

Echoes ==
    /\ EchoesEnd
    /\ order = "overrun" => pc9 # "reset"
    /\ order = "reset" =>
          IF pc9 = "reset" THEN EchoesOfReset
          ELSE \/ EchoesOfCopy
               \/ \E replay \in 0 .. Size : EchoesToTheEnd(replay) \/ InOrderAgain(replay)

IndInv == TypeOK /\ RequestIsAnnounced /\ InOrder /\ Room /\ Serving

\* What the ARM7 asks for is answered, as long as the guest lets the channel be
\* served (Arm7Irq.s, DmaTransfer.c:390-439).
RequestIsAnswered == dmaRequest /\ armed ~> ~dmaRequest \/ ~armed
=============================================================================
