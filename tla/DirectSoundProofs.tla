--------------------------- MODULE DirectSoundProofs ---------------------------
(***************************************************************************)
(* The proofs about DirectSound: no request is left unannounced, a refill    *)
(* fits the ring, and words are played in order, for rings of every size.    *)
(***************************************************************************)
EXTENDS DirectSound, TLAPS

-----------------------------------------------------------------------------
(* The offsets.                                                             *)

\* An offset and a level are less than the size.
LEMMA OffsetsTyped ==
    ASSUME NEW write \in Slots, NEW read \in Slots
    PROVE  /\ Following(write) \in Slots
           /\ Level(write, read) \in Slots
           /\ Level(write, read) \in Nat /\ Level(write, read) < Size
           /\ Level(write, read) = 0 <=> write = read
BY RingAssumption DEF Slots, Size, Following, Level

\* A word more: the ring has one more, or is full and looks empty.
LEMMA WriteOne ==
    ASSUME NEW write \in Slots, NEW read \in Slots
    PROVE  /\ Following(write) # read => Level(Following(write), read) = Level(write, read) + 1
           /\ Following(write) = read => Level(Following(write), read) = 0
           /\ Following(write) = read => Level(write, read) + 1 = Size
BY RingAssumption DEF Slots, Size, Following, Level

\* A word less.
LEMMA ReadOne ==
    ASSUME NEW write \in Slots, NEW read \in Slots, write # read
    PROVE  Level(write, Following(read)) = Level(write, read) - 1
BY RingAssumption DEF Slots, Size, Following, Level

\* A slot is as far from the read offset as the write offset only when it is that.
LEMMA LevelInjective ==
    ASSUME NEW write \in Slots, NEW slot \in Slots, NEW read \in Slots,
           Level(slot, read) = Level(write, read)
    PROVE  slot = write
BY RingAssumption DEF Slots, Size, Level

\* The slot just read is the last that will be full again.
LEMMA ReadLast ==
    ASSUME NEW read \in Slots
    PROVE  Level(read, Following(read)) = Size - 1
BY RingAssumption DEF Slots, Size, Following, Level

LEMMA Sizes ==
    /\ Size \in Nat /\ Half \in Nat /\ Half # 0 /\ Size = Half + Half
    /\ 0 \in Slots /\ \A slot \in Slots : slot \in Nat /\ slot < Size
BY RingAssumption DEF Size, Slots

LEMMA InitInv == Init => IndInv
<1> SUFFICES ASSUME Init PROVE IndInv
  OBVIOUS
<1>1. TypeOK
  <2>1. fifo \in [Slots -> {"new", "old"}]
    BY DEF Init
  <2>2. left \in 0 .. Half
    BY Sizes DEF Init
  <2> QED
    BY <2>1, <2>2, Sizes DEF Init, TypeOK
<1>2. InOrder
  <2>1. \A slot \in Slots : ~Full(slot)
    BY Sizes, OffsetsTyped DEF Init, Full, Slots
  <2> QED
    BY <2>1 DEF Init, InOrder
<1>3. RequestIsAnnounced /\ Serving
  BY DEF Init, RequestIsAnnounced, Serving
<1>4. Room
  BY DEF Init, Room
<1> QED
  BY <1>1, <1>2, <1>3, <1>4 DEF IndInv

LEMMA StuttersInv == IndInv /\ UNCHANGED vars => IndInv'
BY DEF IndInv, TypeOK, RequestIsAnnounced, InOrder, Full, Room, Serving, Handling, Level,
       vars, ring, arm9, arm7

-----------------------------------------------------------------------------
(* The stores of the guest.                                                 *)

\* A word that is stored and then counted keeps the order of a ring that is not
\* overrun.
LEMMA OffsetInOrder ==
    ASSUME TypeOK, InOrder, Room, StoreOffset, order' = "kept", pc9 \in {"stored", "copied"},
           UNCHANGED <<arm7, echoes>>
    PROVE  /\ order = "kept"
           /\ pc7 \in {"test", "trigger", "sample", "advance"} =>
                 level7 <= Level(writeOffset, readOffset)'
           /\ \A slot \in Slots :
                 Full(slot)' /\ (pc7 = "advance" => slot # read7) => fifo'[slot] = "new"
<1>1. order = "kept" /\ (Following(writeOffset) = readOffset => pc7 = "idle")
  BY DEF StoreOffset
<1>2. CASE Following(writeOffset) = readOffset
  <2>1. Level(writeOffset, readOffset)' = 0
    BY <1>2, WriteOne DEF StoreOffset, TypeOK
  <2>2. \A slot \in Slots : ~Full(slot)'
    BY <2>1, OffsetsTyped, Sizes DEF Full, StoreOffset, TypeOK
  <2> QED
    BY <1>1, <1>2, <2>2
<1>3. CASE Following(writeOffset) # readOffset
  <2>1. Level(writeOffset, readOffset)' = Level(writeOffset, readOffset) + 1
    BY <1>3, WriteOne DEF StoreOffset, TypeOK
  <2>2. ASSUME NEW slot \in Slots, Full(slot)', pc7 = "advance" => slot # read7
        PROVE  fifo[slot] = "new"
    <3>1. CASE Full(slot)
      BY <1>1, <2>2, <3>1 DEF InOrder
    <3>2. CASE ~Full(slot)
      <4>1. Level(slot, readOffset) = Level(writeOffset, readOffset)
        BY <2>1, <2>2, <3>2, OffsetsTyped, Sizes DEF Full, StoreOffset, TypeOK
      <4> QED
        BY <1>1, <4>1, LevelInjective DEF InOrder, TypeOK
    <3> QED
      BY <3>1, <3>2
  <2>3. pc7 \in {"test", "trigger", "sample", "advance"} =>
           level7 <= Level(writeOffset, readOffset)'
    BY <1>1, <2>1, OffsetsTyped, Sizes DEF InOrder, TypeOK
  <2> QED
    BY <1>1, <2>2, <2>3 DEF StoreOffset
<1> QED
  BY <1>2, <1>3

LEMMA GuestWordInv ==
    ASSUME IndInv, GuestWord
    PROVE  IndInv'
<1>1. TypeOK'
  BY OffsetsTyped, Sizes DEF IndInv, TypeOK, Serving, GuestWord, StoreWord, arm7
<1>2. RequestIsAnnounced' /\ Serving'
  BY DEF IndInv, TypeOK, RequestIsAnnounced, Handling, Serving, GuestWord, StoreWord, arm7
<1>3. InOrder'
  BY OffsetsTyped, Sizes DEF IndInv, TypeOK, InOrder, Full, GuestWord, StoreWord, arm7
<1>4. Room'
  BY OffsetsTyped, Sizes DEF IndInv, TypeOK, Room, Serving, GuestWord, StoreWord, arm7
<1> QED
  BY <1>1, <1>2, <1>3, <1>4 DEF IndInv

LEMMA GuestOffsetInv ==
    ASSUME IndInv, GuestOffset
    PROVE  IndInv'
<1>1. TypeOK'
  BY OffsetsTyped, Sizes DEF IndInv, TypeOK, Serving, GuestOffset, StoreOffset, arm7
<1>2. RequestIsAnnounced' /\ Serving'
  BY DEF IndInv, TypeOK, RequestIsAnnounced, Handling, Serving, GuestOffset, StoreOffset, arm7
<1>3. InOrder'
  <2>1. order' = "kept" =>
           /\ order = "kept"
           /\ pc7 \in {"test", "trigger", "sample", "advance"} =>
                 level7 <= Level(writeOffset, readOffset)'
           /\ \A slot \in Slots :
                 Full(slot)' /\ (pc7 = "advance" => slot # read7) => fifo'[slot] = "new"
    BY OffsetInOrder DEF IndInv, GuestOffset
  <2> QED
    BY <2>1 DEF IndInv, InOrder, GuestOffset, StoreOffset, arm7
<1>4. Room'
  BY OffsetsTyped, Sizes DEF IndInv, TypeOK, Room, Serving, GuestOffset, StoreOffset, arm7
<1> QED
  BY <1>1, <1>2, <1>3, <1>4 DEF IndInv

LEMMA ResetReadInv ==
    ASSUME IndInv, ResetRead
    PROVE  IndInv'
<1>1. TypeOK'
  BY OffsetsTyped, Sizes DEF IndInv, TypeOK, Serving, ResetRead, arm7
<1>2. RequestIsAnnounced' /\ Serving'
  BY DEF IndInv, TypeOK, RequestIsAnnounced, Handling, Serving, ResetRead, arm7
<1>3. InOrder'
  BY OffsetsTyped, Sizes DEF IndInv, TypeOK, InOrder, Full, ResetRead, arm7
<1>4. Room'
  BY OffsetsTyped, Sizes DEF IndInv, TypeOK, Room, Serving, ResetRead, arm7
<1> QED
  BY <1>1, <1>2, <1>3, <1>4 DEF IndInv

LEMMA ResetWriteInv ==
    ASSUME IndInv, ResetWrite
    PROVE  IndInv'
<1>1. TypeOK'
  BY OffsetsTyped, Sizes DEF IndInv, TypeOK, Serving, ResetWrite, arm7
<1>2. RequestIsAnnounced' /\ Serving'
  BY DEF IndInv, TypeOK, RequestIsAnnounced, Handling, Serving, ResetWrite, arm7
<1>3. InOrder'
  <2>1. readOffset = 0 /\ order = "kept" => \A slot \in Slots : ~Full(slot)'
    BY OffsetsTyped, Sizes DEF IndInv, TypeOK, Full, ResetWrite
  <2> QED
    BY <2>1 DEF IndInv, InOrder, ResetWrite, arm7
<1>4. Room'
  BY OffsetsTyped, Sizes DEF IndInv, TypeOK, Room, Serving, ResetWrite, arm7
<1> QED
  BY <1>1, <1>2, <1>3, <1>4 DEF IndInv

LEMMA ArmInv ==
    ASSUME IndInv, Arm
    PROVE  IndInv'
<1>1. TypeOK'
  BY OffsetsTyped, Sizes DEF IndInv, TypeOK, Serving, Arm, ring, arm7
<1>2. RequestIsAnnounced' /\ Serving'
  BY DEF IndInv, TypeOK, RequestIsAnnounced, Handling, Serving, Arm, ring, arm7
<1>3. InOrder'
  BY OffsetsTyped, Sizes DEF IndInv, TypeOK, InOrder, Full, Arm, ring, arm7
<1>4. Room'
  BY OffsetsTyped, Sizes DEF IndInv, TypeOK, Room, Serving, Arm, ring, arm7
<1> QED
  BY <1>1, <1>2, <1>3, <1>4 DEF IndInv

LEMMA ForgetInv ==
    ASSUME IndInv, Forget
    PROVE  IndInv'
<1>1. TypeOK'
  BY OffsetsTyped, Sizes DEF IndInv, TypeOK, Serving, Forget, ring, arm7
<1>2. RequestIsAnnounced' /\ Serving'
  BY DEF IndInv, TypeOK, RequestIsAnnounced, Handling, Serving, Forget, ring, arm7
<1>3. InOrder'
  BY OffsetsTyped, Sizes DEF IndInv, TypeOK, InOrder, Full, Forget, ring, arm7
<1>4. Room'
  BY OffsetsTyped, Sizes DEF IndInv, TypeOK, Room, Serving, Forget, ring, arm7
<1> QED
  BY <1>1, <1>2, <1>3, <1>4 DEF IndInv

LEMMA DisarmInv ==
    ASSUME IndInv, Disarm
    PROVE  IndInv'
<1>1. TypeOK'
  BY OffsetsTyped, Sizes DEF IndInv, TypeOK, Serving, Disarm, ring, arm9, arm7
<1>2. RequestIsAnnounced' /\ Serving'
  BY DEF IndInv, TypeOK, RequestIsAnnounced, Handling, Serving, Disarm, ring, arm9, arm7
<1>3. InOrder'
  BY OffsetsTyped, Sizes DEF IndInv, TypeOK, InOrder, Full, Disarm, ring, arm9, arm7
<1>4. Room'
  BY OffsetsTyped, Sizes DEF IndInv, TypeOK, Room, Serving, Disarm, ring, arm9, arm7
<1> QED
  BY <1>1, <1>2, <1>3, <1>4 DEF IndInv

-----------------------------------------------------------------------------
(* The interrupt.                                                           *)

LEMMA Arm7IrqInv ==
    ASSUME IndInv, Arm7Irq
    PROVE  IndInv'
<1>1. TypeOK'
  BY OffsetsTyped, Sizes DEF IndInv, TypeOK, Serving, Arm7Irq, ring, arm7
<1>2. RequestIsAnnounced' /\ Serving'
  BY DEF IndInv, TypeOK, RequestIsAnnounced, Handling, Serving, Arm7Irq, ring, arm7
<1>3. InOrder'
  BY OffsetsTyped, Sizes DEF IndInv, TypeOK, InOrder, Full, Arm7Irq, ring, arm7
<1>4. Room'
  BY OffsetsTyped, Sizes DEF IndInv, TypeOK, Room, Serving, Arm7Irq, ring, arm7
<1> QED
  BY <1>1, <1>2, <1>3, <1>4 DEF IndInv

LEMMA LoseIrqInv ==
    ASSUME IndInv, LoseIrq
    PROVE  IndInv'
<1>1. TypeOK'
  BY OffsetsTyped, Sizes DEF IndInv, TypeOK, Serving, LoseIrq, ring, arm9, arm7
<1>2. RequestIsAnnounced' /\ Serving'
  BY DEF IndInv, TypeOK, RequestIsAnnounced, Handling, Serving, LoseIrq, ring, arm9, arm7
<1>3. InOrder'
  BY OffsetsTyped, Sizes DEF IndInv, TypeOK, InOrder, Full, LoseIrq, ring, arm9, arm7
<1>4. Room'
  BY OffsetsTyped, Sizes DEF IndInv, TypeOK, Room, Serving, LoseIrq, ring, arm9, arm7
<1> QED
  BY <1>1, <1>2, <1>3, <1>4 DEF IndInv

LEMMA NoRequestInv ==
    ASSUME IndInv, NoRequest
    PROVE  IndInv'
<1>1. TypeOK'
  BY OffsetsTyped, Sizes DEF IndInv, TypeOK, Serving, NoRequest, ring, arm7
<1>2. RequestIsAnnounced' /\ Serving'
  BY DEF IndInv, TypeOK, RequestIsAnnounced, Handling, Serving, NoRequest, ring, arm7
<1>3. InOrder'
  BY OffsetsTyped, Sizes DEF IndInv, TypeOK, InOrder, Full, NoRequest, ring, arm7
<1>4. Room'
  BY OffsetsTyped, Sizes DEF IndInv, TypeOK, Room, Serving, NoRequest, ring, arm7
<1> QED
  BY <1>1, <1>2, <1>3, <1>4 DEF IndInv

LEMMA NoDataInv ==
    ASSUME IndInv, NoData
    PROVE  IndInv'
<1>1. TypeOK'
  BY OffsetsTyped, Sizes DEF IndInv, TypeOK, Serving, NoData, ring, arm7
<1>2. RequestIsAnnounced' /\ Serving'
  BY DEF IndInv, TypeOK, RequestIsAnnounced, Handling, Serving, NoData, ring, arm7
<1>3. InOrder'
  BY OffsetsTyped, Sizes DEF IndInv, TypeOK, InOrder, Full, NoData, ring, arm7
<1>4. Room'
  BY OffsetsTyped, Sizes DEF IndInv, TypeOK, Room, Serving, NoData, ring, arm7
<1> QED
  BY <1>1, <1>2, <1>3, <1>4 DEF IndInv

-----------------------------------------------------------------------------
(* Refills.                                                                 *)

LEMMA RefillInv ==
    ASSUME IndInv, Refill
    PROVE  IndInv'
<1>1. TypeOK'
  BY OffsetsTyped, Sizes DEF IndInv, TypeOK, Serving, Refill, ring, arm7
<1>2. RequestIsAnnounced' /\ Serving'
  BY Sizes DEF IndInv, TypeOK, RequestIsAnnounced, Handling, Serving, Refill, ring, arm7
<1>3. InOrder'
  BY OffsetsTyped, Sizes DEF IndInv, TypeOK, InOrder, Full, Refill, ring, arm7
<1>4. Room'
  BY OffsetsTyped, Sizes DEF IndInv, TypeOK, Room, Serving, Refill, ring, arm7
<1> QED
  BY <1>1, <1>2, <1>3, <1>4 DEF IndInv

LEMMA RefillWordInv ==
    ASSUME IndInv, RefillWord
    PROVE  IndInv'
<1>1. TypeOK'
  BY OffsetsTyped, Sizes DEF IndInv, TypeOK, Serving, RefillWord, StoreWord, arm7
<1>2. RequestIsAnnounced' /\ Serving'
  BY DEF IndInv, TypeOK, RequestIsAnnounced, Handling, Serving, RefillWord, StoreWord, arm7
<1>3. InOrder'
  BY OffsetsTyped, Sizes DEF IndInv, TypeOK, InOrder, Full, RefillWord, StoreWord, arm7
<1>4. Room'
  BY OffsetsTyped, Sizes DEF IndInv, TypeOK, Room, Serving, RefillWord, StoreWord, arm7
<1> QED
  BY <1>1, <1>2, <1>3, <1>4 DEF IndInv

LEMMA RefillOffsetInv ==
    ASSUME IndInv, RefillOffset
    PROVE  IndInv'
<1>0. left \in 0 .. Half /\ left # 0
  BY DEF IndInv, TypeOK, Serving, RefillOffset
<1>1. TypeOK'
  <2>1. left - 1 \in 0 .. Half
    BY <1>0, Sizes
  <2> QED
    BY <2>1, OffsetsTyped DEF IndInv, TypeOK, RefillOffset, StoreOffset, arm7
<1>2. RequestIsAnnounced' /\ Serving'
  BY DEF IndInv, TypeOK, RequestIsAnnounced, Handling, Serving, RefillOffset, StoreOffset, arm7
<1>3. InOrder'
  <2>1. order' = "kept" =>
           /\ order = "kept"
           /\ pc7 \in {"test", "trigger", "sample", "advance"} =>
                 level7 <= Level(writeOffset, readOffset)'
           /\ \A slot \in Slots :
                 Full(slot)' /\ (pc7 = "advance" => slot # read7) => fifo'[slot] = "new"
    BY OffsetInOrder DEF IndInv, RefillOffset
  <2> QED
    BY <2>1 DEF IndInv, InOrder, RefillOffset, StoreOffset, arm7
<1>4. Room'
  <2>1. asked => Following(writeOffset) # readOffset
    BY <1>0, WriteOne, OffsetsTyped, Sizes DEF IndInv, TypeOK, Room, RefillOffset
  <2>2. asked => Level(writeOffset, readOffset)' = Level(writeOffset, readOffset) + 1
    BY <2>1, WriteOne DEF IndInv, TypeOK, RefillOffset, StoreOffset
  <2>3. asked /\ pc9' = "copy" => Level(writeOffset, readOffset)' + left' < Size
    BY <1>0, <2>2, OffsetsTyped, Sizes DEF IndInv, TypeOK, Room, RefillOffset
  <2>4. asked /\ pc7 \in {"test", "trigger", "sample", "advance"} =>
           level7 <= Level(writeOffset, readOffset)'
    BY <2>2, OffsetsTyped, Sizes DEF IndInv, TypeOK, Room
  <2> QED
    BY <2>3, <2>4 DEF IndInv, Room, Serving, RefillOffset, StoreOffset, arm7
<1> QED
  BY <1>1, <1>2, <1>3, <1>4 DEF IndInv

LEMMA AnswerInv ==
    ASSUME IndInv, NEW repeat \in BOOLEAN, Answer(repeat)
    PROVE  IndInv'
<1>1. TypeOK'
  BY OffsetsTyped, Sizes DEF IndInv, TypeOK, Serving, Answer, ring, arm7
<1>2. RequestIsAnnounced' /\ Serving'
  BY DEF IndInv, TypeOK, RequestIsAnnounced, Handling, Serving, Answer, ring, arm7
<1>3. InOrder'
  BY OffsetsTyped, Sizes DEF IndInv, TypeOK, InOrder, Full, Answer, ring, arm7
<1>4. Room'
  BY OffsetsTyped, Sizes DEF IndInv, TypeOK, Room, Serving, Answer, ring, arm7
<1> QED
  BY <1>1, <1>2, <1>3, <1>4 DEF IndInv

-----------------------------------------------------------------------------
(* The ARM7.                                                                *)

LEMMA ReadReadOffsetInv ==
    ASSUME IndInv, ReadReadOffset
    PROVE  IndInv'
<1>1. TypeOK'
  BY OffsetsTyped, Sizes DEF IndInv, TypeOK, Serving, ReadReadOffset, ring, arm9
<1>2. RequestIsAnnounced' /\ Serving'
  BY DEF IndInv, TypeOK, RequestIsAnnounced, Handling, Serving, ReadReadOffset, ring, arm9
<1>3. InOrder'
  BY OffsetsTyped, Sizes DEF IndInv, TypeOK, InOrder, Full, ReadReadOffset, ring, arm9
<1>4. Room'
  BY OffsetsTyped, Sizes DEF IndInv, TypeOK, Room, Serving, ReadReadOffset, ring, arm9
<1> QED
  BY <1>1, <1>2, <1>3, <1>4 DEF IndInv

LEMMA ReadWriteOffsetInv ==
    ASSUME IndInv, ReadWriteOffset
    PROVE  IndInv'
<1>1. TypeOK'
  BY OffsetsTyped, Sizes DEF IndInv, TypeOK, Serving, ReadWriteOffset, ring, arm9
<1>2. RequestIsAnnounced' /\ Serving'
  BY DEF IndInv, TypeOK, RequestIsAnnounced, Handling, Serving, ReadWriteOffset, ring, arm9
<1>3. InOrder'
  BY OffsetsTyped, Sizes DEF IndInv, TypeOK, InOrder, Full, ReadWriteOffset, ring, arm9
<1>4. Room'
  BY OffsetsTyped, Sizes DEF IndInv, TypeOK, Room, Serving, ReadWriteOffset, ring, arm9
<1> QED
  BY <1>1, <1>2, <1>3, <1>4 DEF IndInv

LEMMA RequestInv ==
    ASSUME IndInv, Request
    PROVE  IndInv'
<1>1. TypeOK'
  BY OffsetsTyped, Sizes DEF IndInv, TypeOK, Serving, Request, ring, arm9
<1>2. RequestIsAnnounced' /\ Serving'
  BY DEF IndInv, TypeOK, RequestIsAnnounced, Handling, Serving, Request, ring, arm9
<1>3. InOrder'
  BY OffsetsTyped, Sizes DEF IndInv, TypeOK, InOrder, Full, Request, ring, arm9
<1>4. Room'
  BY OffsetsTyped, Sizes DEF IndInv, TypeOK, Room, Serving, Request, ring, arm9
<1> QED
  BY <1>1, <1>2, <1>3, <1>4 DEF IndInv

LEMMA NeedNothingInv ==
    ASSUME IndInv, NeedNothing
    PROVE  IndInv'
<1>1. TypeOK'
  BY OffsetsTyped, Sizes DEF IndInv, TypeOK, Serving, NeedNothing, ring, arm9
<1>2. RequestIsAnnounced' /\ Serving'
  BY DEF IndInv, TypeOK, RequestIsAnnounced, Handling, Serving, NeedNothing, ring, arm9
<1>3. InOrder'
  BY OffsetsTyped, Sizes DEF IndInv, TypeOK, InOrder, Full, NeedNothing, ring, arm9
<1>4. Room'
  BY OffsetsTyped, Sizes DEF IndInv, TypeOK, Room, Serving, NeedNothing, ring, arm9
<1> QED
  BY <1>1, <1>2, <1>3, <1>4 DEF IndInv

LEMMA TriggerInv ==
    ASSUME IndInv, Trigger
    PROVE  IndInv'
<1>1. TypeOK'
  BY OffsetsTyped, Sizes DEF IndInv, TypeOK, Serving, Trigger, ring, arm9
<1>2. RequestIsAnnounced' /\ Serving'
  BY DEF IndInv, TypeOK, RequestIsAnnounced, Handling, Serving, Trigger, ring, arm9
<1>3. InOrder'
  BY OffsetsTyped, Sizes DEF IndInv, TypeOK, InOrder, Full, Trigger, ring, arm9
<1>4. Room'
  BY OffsetsTyped, Sizes DEF IndInv, TypeOK, Room, Serving, Trigger, ring, arm9
<1> QED
  BY <1>1, <1>2, <1>3, <1>4 DEF IndInv

LEMMA NextSampleInv ==
    ASSUME IndInv, NextSample
    PROVE  IndInv'
<1>1. TypeOK'
  BY OffsetsTyped, Sizes DEF IndInv, TypeOK, Serving, NextSample, ring, arm9, EndOfStep
<1>2. RequestIsAnnounced' /\ Serving'
  BY DEF IndInv, TypeOK, RequestIsAnnounced, Handling, Serving, NextSample, ring, arm9, EndOfStep
<1>3. InOrder'
  BY OffsetsTyped, Sizes DEF IndInv, TypeOK, InOrder, Full, NextSample, ring, arm9, EndOfStep
<1>4. Room'
  BY OffsetsTyped, Sizes DEF IndInv, TypeOK, Room, Serving, NextSample, ring, arm9, EndOfStep
<1> QED
  BY <1>1, <1>2, <1>3, <1>4 DEF IndInv

LEMMA PlayInv ==
    ASSUME IndInv, Play
    PROVE  IndInv'
<1>1. TypeOK'
  BY OffsetsTyped, Sizes DEF IndInv, TypeOK, Serving, Play, arm9
<1>2. RequestIsAnnounced' /\ Serving'
  BY DEF IndInv, TypeOK, RequestIsAnnounced, Handling, Serving, Play, arm9
<1>3. InOrder'
  <2> SUFFICES ASSUME order = "kept"
               PROVE  InOrder'
    BY DEF InOrder, Play
  <2>1. read7 = readOffset /\ pc9 # "reset" /\ level7 <= Level(writeOffset, readOffset)
    BY DEF IndInv, InOrder, Play
  <2>2. Level(writeOffset, readOffset) # 0 /\ writeOffset # read7
    BY <2>1, OffsetsTyped, Sizes DEF IndInv, TypeOK, Play
  <2>3. Full(read7)
    BY <2>1, <2>2, OffsetsTyped, Sizes DEF IndInv, TypeOK, Full
  <2>4. echoes' = 0
    BY <2>1, <2>3 DEF IndInv, TypeOK, InOrder, Play
  <2>5. \A slot \in Slots : Full(slot)' /\ slot # read7 => fifo'[slot] = "new"
    BY <2>1 DEF IndInv, TypeOK, InOrder, Full, Play
  <2>6. pc9 \in {"stored", "copied"} => fifo'[writeOffset] = "new"
    BY <2>2 DEF IndInv, TypeOK, InOrder, Play
  <2> QED
    BY <2>1, <2>4, <2>5, <2>6 DEF InOrder, Play, arm9
<1>4. Room'
  BY OffsetsTyped, Sizes DEF IndInv, TypeOK, Room, Serving, Play, arm9
<1> QED
  BY <1>1, <1>2, <1>3, <1>4 DEF IndInv

LEMMA AdvanceInv ==
    ASSUME IndInv, Advance
    PROVE  IndInv'
<1>1. TypeOK'
  BY OffsetsTyped, Sizes DEF IndInv, TypeOK, Serving, Advance, arm9, EndOfStep
<1>2. RequestIsAnnounced' /\ Serving'
  BY DEF IndInv, TypeOK, RequestIsAnnounced, Handling, Serving, Advance, arm9, EndOfStep
<1>3. InOrder'
  <2> SUFFICES ASSUME order = "kept"
               PROVE  InOrder'
    BY DEF InOrder, Advance
  <2>1. /\ read7 = readOffset /\ pc9 # "reset"
        /\ level7 # 0 /\ level7 <= Level(writeOffset, readOffset)
    BY DEF IndInv, InOrder, Advance
  <2>2. writeOffset # readOffset
    BY <2>1, OffsetsTyped, Sizes DEF IndInv, TypeOK
  <2>3. Level(writeOffset, readOffset)' = Level(writeOffset, readOffset) - 1
    BY <2>1, <2>2, ReadOne DEF IndInv, TypeOK, Advance
  <2>4. ASSUME NEW slot \in Slots, Full(slot)'
        PROVE  Full(slot) /\ slot # read7
    <3>1. slot # read7
      BY <2>1, <2>3, <2>4, ReadLast, OffsetsTyped, Sizes DEF IndInv, TypeOK, Full, Advance
    <3>2. Level(slot, readOffset)' = Level(slot, readOffset) - 1
      BY <2>1, <3>1, ReadOne DEF IndInv, TypeOK, Advance
    <3> QED
      <4>1. Level(slot, readOffset) \in Nat /\ Level(writeOffset, readOffset) \in Nat
        BY OffsetsTyped DEF IndInv, TypeOK
      <4> QED
        BY <2>3, <2>4, <3>1, <3>2, <4>1 DEF Full
  <2> QED
    BY <2>1, <2>4 DEF IndInv, InOrder, Advance, arm9, EndOfStep
<1>4. Room'
  <2>1. ASSUME asked
        PROVE  Level(writeOffset, readOffset)' = Level(writeOffset, readOffset) - 1
    <3>1. read7 = readOffset /\ level7 # 0 /\ level7 <= Level(writeOffset, readOffset)
      BY <2>1 DEF IndInv, Room, Advance
    <3>2. writeOffset # readOffset
      BY <3>1, OffsetsTyped, Sizes DEF IndInv, TypeOK
    <3> QED
      BY <3>1, <3>2, ReadOne DEF IndInv, TypeOK, Advance
  <2>2. Level(writeOffset, readOffset) \in Nat /\ left \in Nat
    BY OffsetsTyped, Sizes DEF IndInv, TypeOK
  <2>3. asked => /\ Level(writeOffset, readOffset) < Half => Level(writeOffset, readOffset)' < Half
                 /\ Level(writeOffset, readOffset) + left < Size =>
                       Level(writeOffset, readOffset)' + left < Size
    BY <2>1, <2>2, Sizes
  <2> QED
    BY <2>3 DEF IndInv, Room, Advance, arm9, EndOfStep
<1> QED
  BY <1>1, <1>2, <1>3, <1>4 DEF IndInv

-----------------------------------------------------------------------------
(* The echoes: what the ARM7 plays after a reset while it was at work.      *)

\* Steps that touch neither the ring nor the ARM7's part.
LEMMA EchoesKept ==
    ASSUME Echoes, UNCHANGED <<ring, arm7, order, echoes>>,
           pc9' = "reset" <=> pc9 = "reset",
           pc9' \in {"stored", "copied"} => pc9 \in {"stored", "copied"}
    PROVE  Echoes'
<1>1. EchoesOfReset => EchoesOfReset'
  BY DEF EchoesOfReset, Stale, Copied, Playing, ring, arm7
<1>2. EchoesOfCopy => EchoesOfCopy'
  BY DEF EchoesOfCopy, Stale, Playing, ring, arm7
<1>3. \A replay \in 0 .. Size : EchoesToTheEnd(replay) => EchoesToTheEnd(replay)'
  BY DEF EchoesToTheEnd, Again, Playing, ring, arm7
<1>4. \A replay \in 0 .. Size : InOrderAgain(replay) => InOrderAgain(replay)'
  BY DEF InOrderAgain, Again, Copied, Full, ring, arm7
<1> QED
  BY <1>1, <1>2, <1>3, <1>4 DEF Echoes, EchoesEnd

\* A word that is stored where none is counted.
LEMMA StoreWordEchoes ==
    ASSUME TypeOK, Echoes, StoreWord, UNCHANGED <<arm7, order, echoes>>,
           pc9 # "reset", pc9' # "reset"
    PROVE  Echoes'
<1>1. EchoesOfCopy => EchoesOfCopy'
  BY DEF EchoesOfCopy, Stale, Playing, StoreWord, TypeOK, arm7
<1>2. \A replay \in 0 .. Size : EchoesToTheEnd(replay) => EchoesToTheEnd(replay)'
  BY DEF EchoesToTheEnd, Again, Playing, StoreWord, TypeOK, arm7
<1>3. \A replay \in 0 .. Size : InOrderAgain(replay) => InOrderAgain(replay)'
  BY DEF InOrderAgain, Again, Copied, Full, StoreWord, TypeOK, arm7
<1> QED
  BY <1>1, <1>2, <1>3 DEF Echoes, EchoesEnd

\* A word that is counted: the ring has a new word more, unless that overruns the
\* ARM7, or the ring looks empty.
LEMMA StoreOffsetEchoes ==
    ASSUME TypeOK, Echoes, StoreOffset, UNCHANGED <<arm7, echoes>>,
           pc9 \in {"stored", "copied"}, pc9' \notin {"reset", "stored", "copied"}
    PROVE  Echoes'
<1>1. EchoesEnd' /\ pc9' # "reset"
  BY Sizes DEF Echoes, EchoesEnd, StoreOffset, TypeOK
<1>2. SUFFICES ASSUME order' = "reset"
               PROVE  \/ EchoesOfCopy'
                      \/ \E replay \in 0 .. Size : EchoesToTheEnd(replay)' \/ InOrderAgain(replay)'
  BY <1>1 DEF Echoes
<1>3. /\ order = "reset"
      /\ writeOffset' = Following(writeOffset)
      /\ Following(writeOffset) = readOffset => pc7 = "idle"
  BY <1>2 DEF StoreOffset
<1>4. CASE EchoesOfCopy
  <2>1. Following(writeOffset) = writeOffset + 1
    BY <1>3, <1>4 DEF EchoesOfCopy, Stale, Following
  <2>2. Stale' /\ echoes' < Size + Playing'
    BY <1>4 DEF EchoesOfCopy, Stale, Playing, StoreOffset, arm7
  <2>3. ASSUME NEW slot \in Slots, slot < writeOffset', pc7 = "advance" => slot # read7
        PROVE  fifo[slot] = "new"
    <3>1. slot < writeOffset \/ slot = writeOffset
      BY <1>3, <2>1, <2>3, Sizes DEF TypeOK
    <3> QED
      BY <1>4, <2>3, <3>1 DEF EchoesOfCopy
  <2> QED
    BY <2>2, <2>3 DEF EchoesOfCopy, StoreOffset, arm7
<1>5. CASE \E replay \in 0 .. Size : EchoesToTheEnd(replay)
  <2>1. PICK replay \in 0 .. Size : EchoesToTheEnd(replay)
    BY <1>5
  <2>2. Following(writeOffset) = writeOffset + 1 /\ writeOffset + 1 <= readOffset
    BY <2>1, Sizes DEF EchoesToTheEnd, TypeOK, Following
  <2>3. CASE writeOffset + 1 = readOffset
    <3>1. pc7 = "idle" /\ Playing = 0
      BY <1>3, <2>2, <2>3 DEF Playing
    <3>2. \A slot \in Slots : ~Full(slot)'
      <4>1. Following(writeOffset) = readOffset
        BY <2>2, <2>3
      <4> QED
        BY <1>3, <4>1, OffsetsTyped, Sizes DEF Full, StoreOffset, TypeOK
    <3>3. Copied'
      BY <3>1 DEF Copied, arm7
    <3>4. (echoes + Again(replay) < Size + Size)'
      BY <2>1, <3>1, Sizes DEF EchoesToTheEnd, Again, TypeOK
    <3> QED
      BY <3>2, <3>3, <3>4 DEF InOrderAgain
  <2>4. CASE writeOffset + 1 < readOffset
    <3>1. ASSUME NEW slot \in Slots, slot < writeOffset', slot # replay
          PROVE  fifo[slot] = "new"
      <4>1. slot < writeOffset \/ slot = writeOffset
        BY <1>3, <2>2, <3>1, Sizes DEF TypeOK
      <4> QED
        BY <2>1, <3>1, <4>1 DEF EchoesToTheEnd
    <3>2. writeOffset' < readOffset'
      BY <1>3, <2>2, <2>4 DEF StoreOffset
    <3>3. (echoes + Again(replay) < Size + readOffset + Playing)'
      BY <2>1 DEF EchoesToTheEnd, Again, Playing, StoreOffset, arm7
    <3> QED
      BY <2>1, <3>1, <3>2, <3>3 DEF EchoesToTheEnd, StoreOffset, arm7
  <2> QED
    BY <2>2, <2>3, <2>4, Sizes DEF TypeOK
<1>6. CASE \E replay \in 0 .. Size : InOrderAgain(replay)
  <2>1. PICK replay \in 0 .. Size : InOrderAgain(replay)
    BY <1>6
  <2>2. (echoes + Again(replay) < Size + Size)'
    BY <2>1 DEF InOrderAgain, Again
  <2>3. CASE Following(writeOffset) = readOffset
    <3>1. \A slot \in Slots : ~Full(slot)'
      BY <1>3, <2>3, OffsetsTyped, Sizes DEF Full, StoreOffset, TypeOK
    <3>2. Copied'
      BY <1>3, <2>3 DEF Copied, arm7
    <3> QED
      BY <2>2, <3>1, <3>2 DEF InOrderAgain
  <2>4. CASE Following(writeOffset) # readOffset
    <3>1. Level(writeOffset, readOffset)' = Level(writeOffset, readOffset) + 1
      BY <2>4, WriteOne DEF StoreOffset, TypeOK
    <3>2. ASSUME NEW slot \in Slots, Full(slot)', pc7 = "advance" => slot # read7, slot # replay
          PROVE  fifo[slot] = "new"
      <4>1. CASE Full(slot)
        BY <2>1, <3>2, <4>1 DEF InOrderAgain
      <4>2. CASE ~Full(slot)
        <5>1. Level(slot, readOffset) = Level(writeOffset, readOffset)
          BY <3>1, <3>2, <4>2, OffsetsTyped, Sizes DEF Full, StoreOffset, TypeOK
        <5> QED
          BY <2>1, <3>2, <5>1, LevelInjective DEF InOrderAgain, TypeOK
      <4> QED
        BY <4>1, <4>2
    <3>3. Copied'
      BY <2>1, <3>1, OffsetsTyped, Sizes DEF InOrderAgain, Copied, StoreOffset, TypeOK, arm7
    <3> QED
      BY <2>2, <3>2, <3>3 DEF InOrderAgain, StoreOffset, arm7
  <2> QED
    BY <2>3, <2>4
<1> QED
  BY <1>3, <1>4, <1>5, <1>6 DEF Echoes

\* A reset begins: the ARM7's copies, if it has any, are stale.
LEMMA ResetReadEchoes ==
    ASSUME TypeOK, ResetRead
    PROVE  Echoes'
<1>1. EchoesEnd' /\ order' # "overrun"
  BY Sizes DEF EchoesEnd, ResetRead
<1>2. pc7 # "idle" => EchoesOfReset'
  BY DEF EchoesOfReset, Stale, Playing, ResetRead, arm7
<1> QED
  BY <1>1, <1>2 DEF Echoes, ResetRead

\* A reset ends: the read offset is ahead of the write offset, or both are 0.
LEMMA ResetWriteEchoes ==
    ASSUME IndInv, Echoes, ResetWrite
    PROVE  Echoes'
<1> USE DEF IndInv
<1>1. EchoesEnd' /\ order' # "overrun" /\ pc9' = "guest"
  BY DEF Echoes, EchoesEnd, ResetWrite
<1>2. SUFFICES ASSUME order = "reset"
               PROVE  \/ EchoesOfCopy'
                      \/ \E replay \in 0 .. Size : EchoesToTheEnd(replay)' \/ InOrderAgain(replay)'
  BY <1>1 DEF Echoes, ResetWrite
<1>3. \A slot \in Slots : ~(slot < writeOffset')
  BY Sizes DEF ResetWrite
<1>4. Size \in 0 .. Size /\ Again(Size)' = 0
  BY Sizes DEF Again
<1>5. echoes \in Nat /\ Playing \in {0, 1} /\ Playing' = Playing
  BY DEF TypeOK, Playing, ResetWrite, arm7
<1>6. CASE Stale /\ echoes < Size + Playing
  BY <1>1, <1>3, <1>5, <1>6 DEF EchoesOfCopy, Stale, ResetWrite, arm7
<1>7. CASE Stale /\ echoes <= Playing
  BY <1>5, <1>6, <1>7, Sizes
<1>8. CASE Copied /\ echoes + Level(writeOffset, readOffset) <= Size + Playing
  <2>1. Level(writeOffset, readOffset) \in Nat /\ Level(writeOffset, readOffset) < Size
    BY OffsetsTyped DEF TypeOK
  <2>2. CASE readOffset # 0
    <3>1. echoes + 0 < Size + readOffset + Playing
      BY <1>5, <1>8, <2>1, <2>2, Sizes DEF TypeOK
    <3>2. (writeOffset < readOffset)'
      BY <2>2, Sizes DEF TypeOK, ResetWrite
    <3>3. EchoesToTheEnd(Size)'
      BY <1>1, <1>3, <1>4, <1>5, <1>8, <3>1, <3>2 DEF EchoesToTheEnd, Copied, ResetWrite, arm7
    <3> QED
      BY <1>4, <3>3
  <2>3. CASE readOffset = 0 /\ (pc7 \in {"test", "trigger", "sample", "advance"} => level7 = 0)
    <3>1. Level(writeOffset, readOffset)' = 0
      BY <2>3, Sizes, OffsetsTyped DEF ResetWrite
    <3>2. \A slot \in Slots : ~Full(slot)'
      <4>1. \A slot \in Slots : Level(slot, readOffset)' \in Nat
        BY OffsetsTyped DEF TypeOK, ResetWrite
      <4> QED
        BY <3>1, <4>1 DEF Full
    <3>3. pc7 # "advance"
      BY <2>3 DEF Room
    <3>4. echoes + 0 < Size + Size
      BY <1>5, <1>8, <2>1, <3>3, Sizes DEF Playing
    <3>5. Copied'
      BY <1>8, <2>3, <3>1 DEF Copied, ResetWrite, arm7
    <3>6. InOrderAgain(Size)'
      BY <1>1, <1>4, <3>2, <3>4, <3>5 DEF InOrderAgain, ResetWrite
    <3> QED
      BY <1>4, <3>6
  <2>4. CASE readOffset = 0 /\ pc7 \in {"test", "trigger", "sample", "advance"} /\ level7 # 0
    <3>1. echoes < Size + Playing
      BY <1>5, <1>8, <2>1, <2>4, Sizes DEF Copied, TypeOK
    <3> QED
      BY <1>6, <2>4, <3>1 DEF Stale
  <2> QED
    BY <2>2, <2>3, <2>4
<1> QED
  BY <1>2, <1>7, <1>8 DEF Echoes, EchoesOfReset, ResetWrite

\* The ARM7 looks at the read offset: its copies are good again.
LEMMA ReadReadOffsetEchoes ==
    ASSUME IndInv, Echoes, ReadReadOffset
    PROVE  Echoes'
<1> USE DEF IndInv
<1>1. EchoesEnd' /\ (order' = "overrun" => pc9' # "reset")
  BY Sizes DEF Echoes, EchoesEnd, TypeOK, ReadReadOffset, arm9
<1>2. ASSUME pc9 = "reset"
      PROVE  EchoesOfReset'
  <2>1. echoes + Level(writeOffset, readOffset) <= Size
    <3>1. CASE order = "kept"
      BY <3>1, OffsetsTyped, Sizes DEF InOrder, TypeOK
    <3>2. CASE order = "reset"
      BY <1>2, <3>2, OffsetsTyped, Sizes
         DEF Echoes, EchoesOfReset, Stale, Copied, Playing, TypeOK, ReadReadOffset
    <3> QED
      BY <1>2, <3>1, <3>2 DEF Echoes, TypeOK
  <2>2. Copied'
    BY DEF Copied, ReadReadOffset, ring
  <2>3. Playing' = 0
    BY DEF Playing, ReadReadOffset
  <2>4. (echoes + Level(writeOffset, readOffset))' <= (Size + Playing)'
    BY <2>1, <2>3, Sizes DEF ReadReadOffset, ring
  <2> QED
    BY <2>2, <2>4 DEF EchoesOfReset
<1>3. ASSUME pc9 # "reset", order = "reset"
      PROVE  \E replay \in 0 .. Size : EchoesToTheEnd(replay)' \/ InOrderAgain(replay)'
  <2>1. PICK replay \in 0 .. Size : EchoesToTheEnd(replay) \/ InOrderAgain(replay)
    BY <1>3 DEF Echoes, EchoesOfCopy, Stale, ReadReadOffset
  <2>2. EchoesToTheEnd(replay) => EchoesToTheEnd(replay)'
    BY DEF EchoesToTheEnd, Again, Playing, ReadReadOffset, ring, arm9
  <2>3. InOrderAgain(replay) => InOrderAgain(replay)'
    BY DEF InOrderAgain, Copied, Full, Again, ReadReadOffset, ring, arm9
  <2> QED
    BY <2>1, <2>2, <2>3
<1> QED
  BY <1>1, <1>2, <1>3 DEF Echoes, ReadReadOffset, arm9

\* ... and at the write offset.
LEMMA ReadWriteOffsetEchoes ==
    ASSUME TypeOK, Echoes, ReadWriteOffset
    PROVE  Echoes'
<1>1. EchoesEnd'
  BY DEF Echoes, EchoesEnd, ReadWriteOffset
<1>2. EchoesOfReset => EchoesOfReset'
  BY DEF EchoesOfReset, Stale, Copied, Playing, ReadWriteOffset, ring, Level, TypeOK, Slots
<1>3. EchoesOfCopy => EchoesOfCopy'
  BY DEF EchoesOfCopy, Stale, Playing, ReadWriteOffset, ring, arm9
<1>4. \A replay \in 0 .. Size : EchoesToTheEnd(replay) => EchoesToTheEnd(replay)'
  BY DEF EchoesToTheEnd, Again, Playing, ReadWriteOffset, ring, arm9
<1>5. \A replay \in 0 .. Size : InOrderAgain(replay) => InOrderAgain(replay)'
  BY DEF InOrderAgain, Copied, Full, Again, ReadWriteOffset, ring, arm9, Level, TypeOK, Slots
<1> QED
  BY <1>1, <1>2, <1>3, <1>4, <1>5 DEF Echoes, ReadWriteOffset, arm9

\* Between its look at the offsets and the end of the word the ARM7 only asks for data.
LEMMA AskingEchoes ==
    ASSUME Echoes, UNCHANGED <<ring, arm9, read7, level7, order, echoes>>,
           pc7 \in {"test", "trigger"}, pc7' \in {"trigger", "sample"}
    PROVE  Echoes'
<1>1. EchoesEnd'
  BY DEF Echoes, EchoesEnd
<1>2. EchoesOfReset => EchoesOfReset'
  BY DEF EchoesOfReset, Stale, Copied, Playing, ring
<1>3. EchoesOfCopy => EchoesOfCopy'
  BY DEF EchoesOfCopy, Stale, Playing, ring, arm9
<1>4. \A replay \in 0 .. Size : EchoesToTheEnd(replay) => EchoesToTheEnd(replay)'
  BY DEF EchoesToTheEnd, Again, Playing, ring, arm9
<1>5. \A replay \in 0 .. Size : InOrderAgain(replay) => InOrderAgain(replay)'
  BY DEF InOrderAgain, Copied, Full, Again, ring, arm9
<1> QED
  BY <1>1, <1>2, <1>3, <1>4, <1>5 DEF Echoes, arm9

\* How far the slots are from the start of the ring, and which are full.
LEMMA FromTheStart ==
    ASSUME NEW slot \in Slots
    PROVE  Level(slot, 0) = slot
BY Sizes DEF Level

LEMMA FromBehind ==
    ASSUME NEW slot \in Slots, NEW write \in Slots, NEW read \in Slots, read <= write,
           Level(slot, read) < Level(write, read)
    PROVE  read <= slot /\ slot < write
BY RingAssumption DEF Slots, Size, Level

\* The word goes on: nothing is played.
LEMMA NextSampleEchoes ==
    ASSUME TypeOK, Echoes, NextSample
    PROVE  Echoes'
<1>1. EchoesEnd' /\ pc7' = "idle" /\ Playing = 0 /\ Playing' = 0
  BY DEF Echoes, EchoesEnd, Playing, NextSample, EndOfStep
<1>2. Copied'
  BY <1>1 DEF Copied
<1>3. EchoesOfReset => EchoesOfReset'
  <2>1. ASSUME echoes <= Playing
        PROVE  echoes + Level(writeOffset, readOffset) <= Size
    BY <1>1, <2>1, OffsetsTyped, Sizes DEF TypeOK
  <2>2. EchoesOfReset => echoes + Level(writeOffset, readOffset) <= Size
    BY <1>1, <2>1, Sizes DEF EchoesOfReset
  <2>3. echoes + Level(writeOffset, readOffset) <= Size =>
           (echoes + Level(writeOffset, readOffset) <= Size + Playing)'
    BY <1>1, Sizes DEF NextSample, ring
  <2> QED
    BY <1>2, <2>2, <2>3 DEF EchoesOfReset
<1>4. EchoesOfCopy => InOrderAgain(Size)'
  <2> SUFFICES ASSUME EchoesOfCopy PROVE InOrderAgain(Size)'
    OBVIOUS
  <2>1. readOffset = 0 /\ echoes + 0 < Size + Size /\ Again(Size)' = 0
    BY <1>1, Sizes DEF EchoesOfCopy, Stale, Again, TypeOK
  <2>2. \A slot \in Slots : Full(slot)' => slot < writeOffset
    BY <2>1, FromTheStart DEF Full, NextSample, ring, TypeOK
  <2>3. \A slot \in Slots : Full(slot)' => fifo'[slot] = "new"
    BY <2>2 DEF EchoesOfCopy, NextSample, ring
  <2> QED
    BY <1>2, <2>1, <2>3 DEF InOrderAgain, EchoesOfCopy, NextSample, ring, arm9
<1>5. \A replay \in 0 .. Size : EchoesToTheEnd(replay) => EchoesToTheEnd(replay)'
  BY <1>1 DEF EchoesToTheEnd, Again, NextSample, ring, arm9
<1>6. \A replay \in 0 .. Size : InOrderAgain(replay) => InOrderAgain(replay)'
  BY <1>1, <1>2 DEF InOrderAgain, Full, Again, NextSample, ring, arm9
<1> QED
  BY <1>1, <1>3, <1>4, <1>5, <1>6, Sizes DEF Echoes, NextSample, arm9

\* A word is played: one echo more at most, and none where it is new.
LEMMA PlayEchoes ==
    ASSUME IndInv, Echoes, Play
    PROVE  Echoes'
<1> USE DEF IndInv
<1>1. /\ pc7 = "sample" /\ pc7' = "advance" /\ level7 # 0 /\ Playing = 0 /\ Playing' = 1
      /\ echoes' \in {echoes, echoes + 1}
      /\ fifo[read7] = "new" => echoes' = echoes
      /\ order = "overrun" => echoes' = echoes
      /\ UNCHANGED <<readOffset, writeOffset, read7, level7, pc9, order>>
      /\ fifo' = [fifo EXCEPT ![read7] = "old"]
  <2>1. UNCHANGED <<readOffset, writeOffset, read7, level7, pc9, order>>
    BY DEF Play, arm9
  <2>2. fifo[read7] = "new" => echoes' = echoes
    BY DEF Play
  <2>3. echoes' \in {echoes, echoes + 1}
    BY DEF Play
  <2> QED
    BY <2>1, <2>2, <2>3 DEF Playing, Play
<1>2. \A slot \in Slots : slot # read7 => fifo'[slot] = fifo[slot]
  BY <1>1 DEF TypeOK
<1>3. echoes \in Nat /\ echoes' \in Nat /\ level7 \in Nat /\ read7 \in Nat /\ readOffset \in Nat
      /\ Level(writeOffset, readOffset) \in Nat
      /\ Level(writeOffset, readOffset)' = Level(writeOffset, readOffset)
  BY <1>1, OffsetsTyped, Sizes DEF TypeOK
<1>4. Copied => Copied' /\ read7 = readOffset /\ Level(writeOffset, readOffset) # 0
                /\ writeOffset # readOffset /\ Full(readOffset)
  <2> SUFFICES ASSUME Copied
               PROVE  /\ Copied' /\ read7 = readOffset /\ Level(writeOffset, readOffset) # 0
                      /\ writeOffset # readOffset /\ Full(readOffset)
    OBVIOUS
  <2>1. read7 = readOffset /\ level7 <= Level(writeOffset, readOffset)
    BY <1>1 DEF Copied
  <2>2. Level(writeOffset, readOffset) # 0
    BY <1>1, <1>3, <2>1
  <2>3. Level(readOffset, readOffset) = 0
    BY OffsetsTyped DEF TypeOK
  <2> QED
    BY <1>1, <1>3, <2>1, <2>2, <2>3, OffsetsTyped DEF Copied, Full, TypeOK
<1>5. CASE order = "kept"
  <2>1. InOrder'
    BY PlayInv
  <2> QED
    BY <1>1, <1>5, <2>1 DEF InOrder, Echoes, EchoesEnd
<1>6. CASE order = "overrun"
  BY <1>1, <1>6 DEF Echoes, EchoesEnd
<1>7. CASE order = "reset" /\ pc9 = "reset"
  <2>1. EchoesOfReset
    BY <1>7 DEF Echoes
  <2>2. CASE Stale /\ echoes <= Playing
    BY <1>1, <1>3, <1>7, <2>2, Sizes DEF Echoes, EchoesEnd, EchoesOfReset, Stale
  <2>3. CASE Copied /\ echoes + Level(writeOffset, readOffset) <= Size + Playing
    <3>1. echoes' + Level(writeOffset, readOffset)' <= Size + 1
      BY <1>1, <1>3, <2>3, Sizes
    <3>2. EchoesEnd'
      BY <1>1, <1>3, <1>4, <1>7, <2>3, Sizes DEF EchoesEnd
    <3> QED
      BY <1>1, <1>4, <1>7, <2>3, <3>1, <3>2 DEF Echoes, EchoesOfReset
  <2> QED
    BY <2>1, <2>2, <2>3 DEF EchoesOfReset
<1>8. CASE order = "reset" /\ pc9 # "reset"
  <2> SUFFICES EchoesEnd' /\ (EchoesOfCopy' \/ \E replay \in 0 .. Size :
                                 EchoesToTheEnd(replay)' \/ InOrderAgain(replay)')
    BY <1>1, <1>8 DEF Echoes
  <2>1. CASE EchoesOfCopy
    <3>1. Stale' /\ echoes < Size /\ echoes' < Size + 1
      BY <1>1, <1>3, <2>1, Sizes DEF EchoesOfCopy, Stale
    <3>2. EchoesEnd'
      BY <1>1, <1>3, <1>8, <3>1, Sizes DEF EchoesEnd
    <3>3. \A slot \in Slots : slot < writeOffset /\ slot # read7 => fifo'[slot] = "new"
      BY <1>1, <1>2, <2>1 DEF EchoesOfCopy
    <3>4. pc9 \in {"stored", "copied"} =>
             fifo'[writeOffset] = "new" \/ (read7 = writeOffset /\ echoes' < Size)
      BY <1>1, <1>2, <2>1, <3>1 DEF EchoesOfCopy, TypeOK
    <3> QED
      BY <1>1, <3>1, <3>2, <3>3, <3>4 DEF EchoesOfCopy
  <2>2. CASE \E replay \in 0 .. Size : EchoesToTheEnd(replay)
    <3>1. PICK replay \in 0 .. Size : EchoesToTheEnd(replay)
      BY <2>2
    <3>2. read7 = readOffset /\ writeOffset < readOffset
      BY <1>1, <3>1 DEF EchoesToTheEnd
    <3>3. Again(replay) \in Nat /\ Again(replay)' = Again(replay)
      BY DEF Again
    <3>4. echoes + Again(replay) < Size + readOffset
      BY <1>1, <1>3, <3>1, Sizes DEF EchoesToTheEnd
    <3>5. echoes' + Again(replay) < Size + readOffset + 1
      BY <1>1, <1>3, <3>3, <3>4, Sizes
    <3>6. EchoesEnd'
      BY <1>1, <1>3, <1>8, <3>3, <3>5, Sizes DEF EchoesEnd, TypeOK
    <3>7. \A slot \in Slots : slot <= writeOffset => fifo'[slot] = fifo[slot]
      BY <1>2, <3>2, Sizes DEF TypeOK
    <3>8. EchoesToTheEnd(replay)'
      BY <1>1, <3>1, <3>2, <3>3, <3>5, <3>7, Sizes DEF EchoesToTheEnd, TypeOK
    <3> QED
      BY <3>6, <3>8
  <2>3. CASE \E replay \in 0 .. Size : InOrderAgain(replay)
    <3>1. PICK replay \in 0 .. Size : InOrderAgain(replay)
      BY <2>3
    <3>2. Copied' /\ read7 = readOffset /\ writeOffset # readOffset /\ Full(readOffset)
      BY <1>4, <3>1 DEF InOrderAgain
    <3>3. Again(replay) \in Nat /\ \A other : Again(other)' = Again(other)
      BY DEF Again
    <3>4. \A slot \in Slots : Full(slot)' = Full(slot)
      BY <1>1 DEF Full
    <3>5. CASE replay = readOffset
      <4>0. Again(Size) = 0 /\ Again(replay) = 1
        BY <3>5, Sizes DEF Again, TypeOK
      <4>1. echoes' < Size + Size
        <5>1. echoes + 1 < Size + Size
          BY <3>1, <4>0 DEF InOrderAgain
        <5>2. echoes' = echoes \/ echoes' = echoes + 1
          BY <1>1
        <5>3. echoes \in Nat /\ echoes' \in Nat
          BY <1>3
        <5> QED
          BY <5>1, <5>2, <5>3, Sizes
      <4>2. EchoesEnd'
        <5>1. echoes' <= Size + Size - 1
          <6>1. echoes' \in Nat
            BY <1>3
          <6> QED
            BY <4>1, <6>1, Sizes
        <5> QED
          BY <1>1, <1>8, <5>1 DEF EchoesEnd
      <4>3. InOrderAgain(Size)'
        BY <1>1, <1>2, <3>1, <3>2, <3>3, <3>4, <3>5, <4>0, <4>1 DEF InOrderAgain, TypeOK
      <4> QED
        BY <4>2, <4>3, Sizes
    <3>6. CASE replay # readOffset
      <4>1. echoes' = echoes
        BY <1>1, <3>1, <3>2, <3>6 DEF InOrderAgain, TypeOK
      <4>2. EchoesEnd'
        BY <1>1, <4>1 DEF Echoes, EchoesEnd
      <4>3. InOrderAgain(replay)'
        BY <1>1, <1>2, <3>1, <3>2, <3>3, <3>4, <4>1 DEF InOrderAgain, TypeOK
      <4> QED
        BY <4>2, <4>3
    <3> QED
      BY <3>5, <3>6
  <2> QED
    BY <1>8, <2>1, <2>2, <2>3 DEF Echoes
<1> QED
  BY <1>5, <1>6, <1>7, <1>8 DEF TypeOK

\* The read offset is moved on from the ARM7's copy of it.
LEMMA AdvanceEchoes ==
    ASSUME IndInv, Echoes, Advance
    PROVE  Echoes'
<1> USE DEF IndInv
<1>1. /\ pc7 = "advance" /\ pc7' = "idle" /\ level7 # 0 /\ Playing = 1 /\ Playing' = 0
      /\ readOffset' = Following(read7)
      /\ UNCHANGED <<fifo, writeOffset, pc9, order, echoes>>
  BY DEF Playing, Advance, EndOfStep, Room, arm9
<1>2. EchoesEnd' /\ Copied'
  BY <1>1 DEF Echoes, EchoesEnd, Copied
<1>3. /\ echoes \in Nat /\ level7 \in Nat
      /\ readOffset \in Slots /\ readOffset' \in Slots /\ writeOffset \in Slots /\ read7 \in Slots
      /\ Level(writeOffset, readOffset) \in Nat
      /\ Level(writeOffset, readOffset)' \in Nat /\ Level(writeOffset, readOffset)' < Size
  BY <1>1, OffsetsTyped, Sizes DEF TypeOK
<1>4. Copied => /\ read7 = readOffset /\ writeOffset # readOffset
                /\ Level(writeOffset, readOffset)' = Level(writeOffset, readOffset) - 1
  <2> SUFFICES ASSUME Copied
               PROVE  /\ read7 = readOffset /\ writeOffset # readOffset
                      /\ Level(writeOffset, readOffset)' = Level(writeOffset, readOffset) - 1
    OBVIOUS
  <2>1. read7 = readOffset /\ level7 <= Level(writeOffset, readOffset)
    BY <1>1 DEF Copied
  <2>2. writeOffset # readOffset
    BY <1>1, <1>3, <2>1, OffsetsTyped
  <2> QED
    BY <1>1, <1>3, <2>1, <2>2, ReadOne
<1>5. ASSUME EchoesOfReset
      PROVE  EchoesOfReset'
  <2>1. CASE Stale /\ echoes <= Playing
    BY <1>1, <1>2, <1>3, <2>1, Sizes DEF EchoesOfReset
  <2>2. CASE Copied /\ echoes + Level(writeOffset, readOffset) <= Size + Playing
    BY <1>1, <1>2, <1>3, <1>4, <2>2, Sizes DEF EchoesOfReset
  <2> QED
    BY <1>5, <2>1, <2>2 DEF EchoesOfReset
<1>6. ASSUME EchoesOfCopy
      PROVE  \E replay \in 0 .. Size : EchoesToTheEnd(replay)' \/ InOrderAgain(replay)'
  <2> DEFINE spent == pc9 \in {"stored", "copied"} /\ fifo[writeOffset] # "new"
  <2>0. (IF spent THEN writeOffset ELSE Size) \in 0 .. Size
    BY <1>3, Sizes DEF Slots
  <2>1. PICK replay \in 0 .. Size : replay = IF spent THEN writeOffset ELSE Size
    BY <2>0
  <2>2. echoes + Again(replay) < Size + 1
    <3>1. CASE spent
      <4>1. echoes < Size /\ Again(replay) = 1
        BY <1>3, <1>6, <2>1, <3>1, Sizes DEF EchoesOfCopy, Again
      <4> QED
        BY <1>3, <4>1, Sizes
    <3>2. CASE ~spent
      BY <1>1, <1>3, <1>6, <2>1, <3>2, Sizes DEF EchoesOfCopy, Again
    <3> QED
      BY <3>1, <3>2
  <2>3. spent => read7 = writeOffset
    BY <1>6 DEF EchoesOfCopy
  <2>4. (pc9 \in {"stored", "copied"} /\ writeOffset # replay => fifo[writeOffset] = "new")'
        <=> (pc9 \in {"stored", "copied"} /\ writeOffset # replay => fifo[writeOffset] = "new")
    BY <1>1
  <2>5. pc9 \in {"stored", "copied"} /\ writeOffset # replay => fifo[writeOffset] = "new"
    BY <2>1
  <2>6. Again(replay) \in Nat /\ Again(replay)' = Again(replay)
    BY DEF Again
  <2>7. \A slot \in Slots : slot < writeOffset /\ slot # read7 => fifo[slot] = "new"
    BY <1>1, <1>6 DEF EchoesOfCopy
  <2> HIDE DEF spent
  <2>8. CASE readOffset' <= writeOffset
    <3>1. \A slot \in Slots : Full(slot)' => slot < writeOffset /\ readOffset' <= slot
      BY <1>1, <1>3, <2>8, FromBehind DEF Full
    <3>2. \A slot \in Slots : Full(slot)' => slot # read7
      <4>1. readOffset' = read7 + 1 \/ read7 = Size - 1
        BY <1>1 DEF Following
      <4>2. writeOffset <= Size - 1
        BY <1>3, Sizes
      <4> QED
        BY <1>3, <3>1, <4>1, <4>2, Sizes
    <3>3. \A slot \in Slots : Full(slot)' => fifo'[slot] = "new"
      BY <1>1, <2>7, <3>1, <3>2
    <3>4. echoes + Again(replay) < Size + Size
      BY <1>3, <2>2, <2>6, Sizes
    <3>5. InOrderAgain(replay)'
      BY <1>1, <1>2, <2>4, <2>5, <2>6, <3>3, <3>4 DEF InOrderAgain
    <3> QED
      BY <3>5
  <2>9. CASE writeOffset < readOffset'
    <3>1. readOffset' = read7 + 1
      BY <1>1, <1>3, <2>9, Sizes DEF Following
    <3>2. \A slot \in Slots : slot < writeOffset => fifo'[slot] = "new"
      BY <1>1, <1>3, <2>7, <2>9, <3>1, Sizes
    <3>3. echoes + Again(replay) < Size + readOffset' + 0
      BY <1>3, <2>2, <2>6, <2>9, <3>1, Sizes
    <3>4. EchoesToTheEnd(replay)'
      BY <1>1, <2>4, <2>5, <2>6, <2>9, <3>2, <3>3 DEF EchoesToTheEnd
    <3> QED
      BY <3>4
  <2> QED
    BY <1>3, <2>8, <2>9, Sizes
<1>7. ASSUME NEW replay \in 0 .. Size, EchoesToTheEnd(replay)
      PROVE  EchoesToTheEnd(replay)' \/ InOrderAgain(replay)'
  <2>1. /\ read7 = readOffset /\ writeOffset < readOffset
        /\ echoes + Again(replay) < Size + readOffset + 1
        /\ Again(replay) \in Nat /\ Again(replay)' = Again(replay)
    BY <1>1, <1>7 DEF EchoesToTheEnd, Again
  <2>2. CASE readOffset = Size - 1
    <3>1. readOffset' = 0
      BY <1>1, <2>1, <2>2 DEF Following
    <3>2. \A slot \in Slots : Full(slot)' => slot < writeOffset
      BY <1>1, <1>3, <3>1, FromTheStart DEF Full
    <3>3. echoes + Again(replay) < Size + Size
      BY <1>3, <2>1, <2>2, Sizes
    <3>4. \A slot \in Slots : Full(slot)' /\ slot # replay => fifo'[slot] = "new"
      BY <1>1, <1>7, <3>2 DEF EchoesToTheEnd
    <3> QED
      BY <1>1, <1>2, <1>7, <2>1, <3>3, <3>4 DEF EchoesToTheEnd, InOrderAgain
  <2>3. CASE readOffset # Size - 1
    <3>1. readOffset' = readOffset + 1
      BY <1>1, <2>1, <2>3 DEF Following
    <3>2. writeOffset < readOffset'
      BY <1>3, <2>1, <3>1, Sizes
    <3>3. echoes + Again(replay) < Size + readOffset' + 0
      BY <1>3, <2>1, <3>1, Sizes
    <3> QED
      BY <1>1, <1>7, <2>1, <3>2, <3>3 DEF EchoesToTheEnd
  <2> QED
    BY <2>2, <2>3
<1>8. ASSUME NEW replay \in 0 .. Size, InOrderAgain(replay)
      PROVE  InOrderAgain(replay)'
  <2>1. /\ read7 = readOffset
        /\ Level(writeOffset, readOffset)' = Level(writeOffset, readOffset) - 1
    BY <1>4, <1>8 DEF InOrderAgain
  <2>2. ASSUME NEW slot \in Slots, Full(slot)'
        PROVE  Full(slot) /\ slot # read7
    <3>1. slot # read7
      BY <1>1, <1>3, <2>1, <2>2, ReadLast, OffsetsTyped, Sizes DEF Full
    <3>2. Level(slot, readOffset)' = Level(slot, readOffset) - 1
      BY <1>1, <1>3, <2>1, <3>1, ReadOne
    <3>3. Level(slot, readOffset) \in Nat
      BY <1>3, OffsetsTyped
    <3> QED
      BY <1>3, <2>1, <2>2, <3>1, <3>2, <3>3 DEF Full
  <2>3. Again(replay)' = Again(replay)
    BY DEF Again
  <2> QED
    BY <1>1, <1>2, <1>8, <2>2, <2>3 DEF InOrderAgain
<1> QED
  BY <1>1, <1>2, <1>5, <1>6, <1>7, <1>8 DEF Echoes

LEMMA NextEchoes == IndInv /\ Echoes /\ [Next]_vars => Echoes'
<1> SUFFICES ASSUME IndInv, Echoes, [Next]_vars PROVE Echoes'
  OBVIOUS
<1>1. TypeOK
  BY DEF IndInv
<1>2. CASE GuestWord \/ RefillWord
  BY <1>1, <1>2, StoreWordEchoes DEF GuestWord, RefillWord
<1>3. CASE GuestOffset \/ RefillOffset
  BY <1>1, <1>3, StoreOffsetEchoes DEF GuestOffset, RefillOffset
<1>4. CASE ResetRead \/ ResetWrite
  BY <1>1, <1>4, ResetReadEchoes, ResetWriteEchoes
<1>5. CASE Arm \/ Forget \/ Disarm \/ Arm7Irq \/ LoseIrq \/ NoRequest \/ NoData \/ Refill
           \/ (\E repeat \in BOOLEAN : Answer(repeat)) \/ UNCHANGED vars
  BY <1>5, EchoesKept
     DEF Arm, Forget, Disarm, Arm7Irq, LoseIrq, NoRequest, NoData, Refill, Answer, vars, arm9
<1>6. CASE Request \/ NeedNothing \/ Trigger
  BY <1>6, AskingEchoes DEF Request, NeedNothing, Trigger
<1>7. CASE ReadReadOffset \/ ReadWriteOffset \/ NextSample \/ Play \/ Advance
  BY <1>1, <1>7, ReadReadOffsetEchoes, ReadWriteOffsetEchoes, NextSampleEchoes, PlayEchoes,
     AdvanceEchoes
<1> QED
  BY <1>2, <1>3, <1>4, <1>5, <1>6, <1>7 DEF Next, Guest, Emulate, Serve, Mix

-----------------------------------------------------------------------------
(* The theorems.                                                            *)

LEMMA NextInv == IndInv /\ [Next]_vars => IndInv'
<1> SUFFICES ASSUME IndInv, [Next]_vars PROVE IndInv'
  OBVIOUS
<1>1. CASE Guest
  BY <1>1, GuestWordInv, ResetReadInv, ArmInv, DisarmInv DEF Guest
<1>2. CASE Emulate
  BY <1>2, GuestOffsetInv, ResetWriteInv, ForgetInv DEF Emulate
<1>3. CASE Arm7Irq \/ LoseIrq
  BY <1>3, Arm7IrqInv, LoseIrqInv
<1>4. CASE Serve
  BY <1>4, NoRequestInv, NoDataInv, RefillInv, RefillWordInv, RefillOffsetInv, AnswerInv DEF Serve
<1>5. CASE ReadReadOffset \/ Mix
  BY <1>5, ReadReadOffsetInv, ReadWriteOffsetInv, RequestInv, NeedNothingInv, TriggerInv,
     NextSampleInv, PlayInv, AdvanceInv DEF Mix
<1>6. CASE UNCHANGED vars
  BY <1>6, StuttersInv
<1> QED
  BY <1>1, <1>2, <1>3, <1>4, <1>5, <1>6 DEF Next

\* The inductive invariant holds in every reachable state, for rings of every size.
THEOREM IndInvHolds == Spec => []IndInv
BY InitInv, NextInv, PTL DEF Spec

\* No request that can be served is left without an interrupt to come or a handler
\* at work (GbaSound7.c:28-32, DmaTransfer.c:407-422, 458).
THEOREM RequestsAnnounced == Spec => []RequestIsAnnounced
<1>1. IndInv => RequestIsAnnounced
  BY DEF IndInv
<1> QED
  BY <1>1, IndInvHolds, PTL

\* A refill asked for on a current level fits the ring (GbaSound7.c:26-28).
THEOREM RefillsFit == Spec => []RefillFits
<1>1. IndInv => RefillFits
  BY DEF IndInv, Room, RefillFits
<1> QED
  BY <1>1, IndInvHolds, PTL

\* Unless the ARM7 is at work during a reset or an overrun, every word it plays is
\* new: none twice, and none from before the reset (GbaSound7.c:38-43).
THEOREM WordsInOrder == Spec => [](order = "kept" => echoes = 0)
<1>1. IndInv => (order = "kept" => echoes = 0)
  BY DEF IndInv, InOrder
<1> QED
  BY <1>1, IndInvHolds, PTL

\* Where the old words end and what is new, after a reset while the ARM7 was at work.
LEMMA EchoesHold == Spec => []Echoes
<1>1. Init => Echoes
  BY DEF Init, Echoes, EchoesEnd
<1> QED
  BY <1>1, NextEchoes, IndInvHolds, PTL DEF Spec

\* A reset under the ARM7's hands makes it play less than two rings of old words, and
\* then it is in order again; without one it plays none (GbaSound9.c:28-32,
\* GbaSound7.c:40-42).
THEOREM EchoesAreBounded == Spec => []EchoesEnd
<1>1. Echoes => EchoesEnd
  BY DEF Echoes
<1> QED
  BY <1>1, EchoesHold, PTL
=============================================================================
