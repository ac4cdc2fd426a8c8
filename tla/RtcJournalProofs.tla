-------------------------- MODULE RtcJournalProofs --------------------------
(***************************************************************************)
(* Proofs about the clock journal, for any range of sequence numbers, any   *)
(* records on the card and any number of writes and starts.                 *)
(***************************************************************************)
EXTENDS RtcJournal, TLAPS

-----------------------------------------------------------------------------
(* Sequence numbers and choices among the slots.                            *)

LEMMA NextIsNewer ==
    ASSUME NEW a \in Sequences
    PROVE  /\ NextSequence(a) \in Sequences
           /\ IsSequenceNewer(NextSequence(a), a)
BY JournalConstants DEF Sequences, NextSequence, IsSequenceNewer, Behind

LEMMA NewerIsStrict ==
    ASSUME NEW a \in Sequences, NEW b \in Sequences, IsSequenceNewer(a, b)
    PROVE  /\ a # b
           /\ ~IsSequenceNewer(b, a)
           /\ Behind(a, b) # Half /\ Behind(b, a) # Half
           /\ b # NextSequence(a)
BY JournalConstants DEF Sequences, NextSequence, IsSequenceNewer, Behind

LEMMA LeastIsIn ==
    ASSUME NEW S \in SUBSET Slots, S # {}
    PROVE  Least(S) \in S
<1>1. \A j \in S : j \in {0, 1, 2}
  BY DEF Slots
<1>2. CASE 0 \in S
  BY <1>1, <1>2 DEF Least
<1>3. CASE 0 \notin S /\ 1 \in S
  BY <1>1, <1>3 DEF Least
<1>4. CASE S = {2}
  BY <1>4 DEF Least
<1> QED
  BY <1>1, <1>2, <1>3, <1>4

LEMMA SelectedIsIn ==
    ASSUME ~Blocked, Candidates # {}
    PROVE  Selected \in Candidates /\ Dominates(Selected)
<1> DEFINE S == {i \in Candidates : Dominates(i)}
<1>1. S # {}
  BY DEF Blocked
<1>2. S \subseteq Slots
  BY DEF Candidates, Valids, Readies
<1>3. Least(S) \in S
  BY <1>1, <1>2, LeastIsIn
<1> QED
  BY <1>3 DEF Selected

LEMMA TargetIsIn ==
    ASSUME Targets # {}
    PROVE  Least(Targets) \in Targets /\ Least(Targets) \in Slots
<1>1. Targets \subseteq Slots
  BY DEF Targets, Others, Missing, Pendings, Oldest, Valids
<1> QED
  BY <1>1, LeastIsIn

\* What a slot that may be written can be: missing, or a record other than
\* the selected one; and no ready record that stays is as new as the new one.
LEMMA TargetIsSpare ==
    ASSUME NEW t \in Targets
    PROVE  /\ t \in Slots
           /\ \/ status[t] = "Missing"
              \/ status[t] = "Valid" /\ (hasCurrent => t # Selected)
           /\ \A i \in Readies \ {t} : IsSequenceNewer(new.seq, rec[i].seq)
<1> USE DEF Targets, Others, Missing, Pendings, Oldest, Valids, Readies
<1>1. CASE Colliding # {}
  BY <1>1 DEF Colliding
<1>2. CASE Colliding = {}
  BY <1>2 DEF Colliding
<1> QED
  BY <1>1, <1>2

-----------------------------------------------------------------------------
(* What a write may do to its slot, finished or not.                        *)

\* The slots besides the target stay, and the target is as it was, corrupt,
\* or holds the new record.
LEMMA TouchedSlot ==
    ASSUME TypeOK, PutTarget(Touched)
    PROVE  /\ status' \in [Slots -> Statuses]
           /\ rec' \in [Slots -> Records]
           /\ legacy' = legacy
           /\ \A i \in Slots \ {target} : status'[i] = status[i] /\ rec'[i] = rec[i]
           /\ \/ status' = status /\ rec' = rec
              \/ status'[target] = "Corrupt" /\ rec' = rec
              \/ status'[target] = "Valid" /\ rec'[target] = new
<1>1. PICK c \in Touched : /\ status' = [status EXCEPT ![target] = c[1]]
                           /\ rec' = [rec EXCEPT ![target] = c[2]]
  BY DEF PutTarget
<1>2. CASE c = <<status[target], rec[target]>>
  BY <1>1, <1>2 DEF PutTarget, TypeOK
<1>3. CASE c = <<"Corrupt", rec[target]>>
  BY <1>1, <1>3 DEF PutTarget, TypeOK, Statuses
<1>4. CASE c = <<"Valid", new>>
  BY <1>1, <1>4 DEF PutTarget, TypeOK, Statuses
<1> QED
  BY <1>1, <1>2, <1>3, <1>4 DEF Touched, Opened

\* Whatever is left in the target, the known record is still in the journal
\* and only its successor can stand before it.
LEMMA TouchedKeepsKnown ==
    ASSUME IndInv, pc \in {"open", "write"}, PutTarget(Touched),
           known' = known, target' = target
    PROVE  KnownInv'
<1> SUFFICES ASSUME known # NoValue
             PROVE  KnownInv'
  BY DEF KnownInv
<1>0. TypeOK /\ target \in Slots /\ new \in Records /\ known \in Records
  BY DEF IndInv, TypeOK
<1>1. /\ hasCurrent /\ current = known /\ known.phase = "ready"
      /\ new.phase = "ready" /\ new.seq = NextSequence(known.seq)
  BY DEF IndInv, MemoryInv, KnownInv, WriteInv, Writing
<1>2. PICK k \in Valids \ {target} : rec[k] = known
  BY <1>1 DEF IndInv, WriteInv
<1>3. /\ \A i \in Slots \ {target} : status'[i] = status[i] /\ rec'[i] = rec[i]
      /\ \/ status' = status /\ rec' = rec
         \/ status'[target] = "Corrupt" /\ rec' = rec
         \/ status'[target] = "Valid" /\ rec'[target] = new
  BY <1>0, TouchedSlot
<1>4. CASE status' = status /\ rec' = rec
  BY <1>4 DEF IndInv, KnownInv, Valids, Readies, Disagree, Dominates, Candidates
<1>5. \A i \in Slots : rec[i].seq \in Sequences
  BY <1>0 DEF TypeOK, Records
<1>6. /\ new.lineage = known.lineage
      /\ \A i \in Slots : status[i] # "Foreign"
      /\ \A i \in Valids \ {target} : rec[i].lineage = known.lineage
  BY <1>2 DEF IndInv, WriteInv
<1>7. \A i \in Readies \ {target} :
        /\ IsSequenceNewer(new.seq, rec[i].seq)
        /\ rec[i] = known \/ IsSequenceNewer(known.seq, rec[i].seq)
  <2> SUFFICES ASSUME NEW i \in Readies \ {target}
               PROVE  /\ IsSequenceNewer(new.seq, rec[i].seq)
                      /\ rec[i] = known \/ IsSequenceNewer(known.seq, rec[i].seq)
    OBVIOUS
  <2>1. IsSequenceNewer(new.seq, rec[i].seq)
    BY DEF IndInv, WriteInv
  <2>2. rec[i].seq # NextSequence(known.seq)
    BY <2>1, <1>0, <1>1, <1>5, NewerIsStrict DEF Records, Readies, Valids
  <2> QED
    BY <2>1, <2>2 DEF IndInv, KnownInv
<1>8. \A i, j \in Readies \ {target} : ~Disagree(i, j)
  BY DEF IndInv, WriteInv
<1>9. CASE status'[target] = "Corrupt" /\ rec' = rec
  <2>1. Readies' = Readies \ {target} /\ Valids' = Valids \ {target}
    BY <1>3, <1>9, <1>0 DEF Readies, Valids
  <2>2. \A i \in Slots : status'[i] # "Foreign"
    BY <1>3, <1>6, <1>9
  <2>3. k \in Readies'
    BY <2>1, <1>1, <1>2 DEF Readies
  <2>4. \A i, j \in Readies' : ~Disagree(i, j)'
    BY <2>1, <1>8, <1>9 DEF Disagree
  <2> QED
    BY <2>1, <2>2, <2>3, <2>4, <1>1, <1>2, <1>6, <1>7, <1>9 DEF KnownInv
<1>10. CASE status'[target] = "Valid" /\ rec'[target] = new
  <2>1. /\ Readies' = (Readies \ {target}) \union {target}
        /\ Valids' = (Valids \ {target}) \union {target}
    BY <1>0, <1>1, <1>3, <1>10 DEF Readies, Valids
  <2>2. \A i \in Readies \ {target} : i \in Slots /\ rec'[i] = rec[i]
    BY <1>3 DEF Readies, Valids
  <2>3. \A i \in Slots : status'[i] # "Foreign"
    BY <1>3, <1>6, <1>10
  <2>4. k \in Readies' /\ rec'[k] = known
    BY <2>1, <2>2, <1>1, <1>2 DEF Readies
  <2>5. \A i \in Readies \ {target} :
          /\ rec[i].seq # new.seq
          /\ Behind(new.seq, rec[i].seq) # Half /\ Behind(rec[i].seq, new.seq) # Half
    <3> SUFFICES ASSUME NEW i \in Readies \ {target}
                 PROVE  /\ rec[i].seq # new.seq
                        /\ Behind(new.seq, rec[i].seq) # Half
                        /\ Behind(rec[i].seq, new.seq) # Half
      OBVIOUS
    <3>1. rec[i].seq \in Sequences /\ new.seq \in Sequences
      BY <2>2, <1>0, <1>5 DEF Records
    <3>2. IsSequenceNewer(new.seq, rec[i].seq)
      BY <1>7
    <3> QED
      BY <3>1, <3>2, NewerIsStrict
  <2>6. Behind(new.seq, new.seq) # Half
    BY <1>0, JournalConstants DEF Records, Sequences, Behind
  <2>7. \A i, j \in Readies' : ~Disagree(i, j)'
    <3> SUFFICES ASSUME NEW i \in Readies', NEW j \in Readies'
                 PROVE  ~Disagree(i, j)'
      OBVIOUS
    <3>1. CASE i # target /\ j # target
      BY <3>1, <2>1, <2>2, <1>8 DEF Disagree
    <3>2. CASE i = target /\ j # target
      BY <3>2, <2>1, <2>2, <2>5, <1>10 DEF Disagree
    <3>3. CASE i # target /\ j = target
      BY <3>3, <2>1, <2>2, <2>5, <1>10 DEF Disagree
    <3>4. CASE i = target /\ j = target
      BY <3>4, <2>6, <1>10 DEF Disagree
    <3> QED
      BY <3>1, <3>2, <3>3, <3>4
  <2>8. Dominates(target)'
    <3>1. Candidates' = Readies'
      BY <2>4 DEF Candidates
    <3>2. \A j \in Readies' : \/ rec'[target].seq = rec'[j].seq
                              \/ IsSequenceNewer(rec'[target].seq, rec'[j].seq)
      BY <2>1, <2>2, <1>7, <1>10
    <3> QED
      BY <3>1, <3>2 DEF Dominates
  <2>9. \A i \in Valids' : rec'[i].lineage = known.lineage
    BY <2>1, <1>3, <1>6, <1>10 DEF Valids
  <2>10. \A i \in Readies' : \/ rec'[i] = known
                             \/ IsSequenceNewer(known.seq, rec'[i].seq)
                             \/ rec'[i].seq = NextSequence(known.seq) /\ Dominates(i)'
    <3> SUFFICES ASSUME NEW i \in Readies'
                 PROVE  \/ rec'[i] = known
                        \/ IsSequenceNewer(known.seq, rec'[i].seq)
                        \/ rec'[i].seq = NextSequence(known.seq) /\ Dominates(i)'
      OBVIOUS
    <3>1. CASE i = target
      BY <3>1, <2>8, <1>1, <1>10
    <3>2. CASE i # target
      BY <3>2, <2>1, <2>2, <1>7
    <3> QED
      BY <3>1, <3>2
  <2> QED
    BY <2>3, <2>4, <2>7, <2>9, <2>10, <1>1 DEF KnownInv
<1> QED
  BY <1>3, <1>4, <1>9, <1>10

-----------------------------------------------------------------------------
(* Each action keeps the inductive invariant.                               *)

\* What is known depends on the card alone.
LEMMA SameCardKeepsKnown ==
    ASSUME KnownInv, UNCHANGED <<status, rec, known>>
    PROVE  KnownInv'
BY DEF KnownInv, Valids, Readies, Disagree, Dominates, Candidates

LEMMA AnchoredIsRecord ==
    ASSUME NEW r \in Records, NEW u, u = Anchored(r)
    PROVE  /\ u \in Records
           /\ u.phase = "ready" /\ u.data = r.data /\ u.lineage = r.lineage
<1>1. 1 \in Sequences
  BY JournalConstants DEF Sequences
<1>2. u = [r EXCEPT !.seq = 1, !.phase = "ready"]
  BY DEF Anchored
<1> QED
  BY <1>1, <1>2 DEF Records, Phases

LEMMA NextRecordFollows ==
    ASSUME IndInv, pc = "run"
    PROVE  /\ NextRecord \in Records
           /\ NextRecord.phase = "ready" /\ NextRecord.data = clock
           /\ hasCurrent => /\ NextRecord.seq = NextSequence(current.seq)
                            /\ NextRecord.lineage = current.lineage
<1>1. TypeOK
  BY DEF IndInv
<1>2. CASE hasCurrent
  <2>1. current \in Records /\ clock \in Data /\ current.phase = "ready"
    BY <1>1, <1>2 DEF TypeOK, IndInv, MemoryInv
  <2>2. NextSequence(current.seq) \in Sequences
    BY <2>1, NextIsNewer DEF Records
  <2> QED
    BY <1>2, <2>1, <2>2 DEF NextRecord, Records, Phases
<1>3. CASE ~hasCurrent
  BY <1>1, <1>3, JournalConstants DEF TypeOK, NextRecord, FreshRecord, Records, Phases, Sequences
<1> QED
  BY <1>1, <1>2, <1>3 DEF TypeOK

LEMMA GuestChangesKeeps ==
    ASSUME IndInv, NEW d \in Data, GuestChanges(d)
    PROVE  IndInv'
<1> USE DEF GuestChanges, writeVars, diskVars
<1>1. TypeOK'
  BY DEF IndInv, TypeOK
<1>2. KnownInv'
  BY SameCardKeepsKnown DEF IndInv
<1>3. MemoryInv'
  BY DEF IndInv, MemoryInv, Writing, Valids
<1>4. WriteInv'
  BY DEF IndInv, WriteInv, Writing
<1>5. SelectedSurvives' /\ CleanIsKept'
  BY DEF SelectedSurvives, CleanIsKept, Writing
<1>6. DamageIsPreserved'
  BY DEF IndInv, DamageIsPreserved
<1> QED
  BY <1>1, <1>2, <1>3, <1>4, <1>5, <1>6 DEF IndInv

LEMMA FlushKeeps ==
    ASSUME IndInv, FlushStateIfDirty
    PROVE  IndInv'
<1> USE DEF FlushStateIfDirty, diskVars, memoryVars
<1>0. /\ NextRecord \in Records
      /\ NextRecord.phase = "ready" /\ NextRecord.data = clock
      /\ hasCurrent => /\ NextRecord.seq = NextSequence(current.seq)
                       /\ NextRecord.lineage = current.lineage
  BY NextRecordFollows
<1>1. TypeOK'
  BY <1>0, JournalConstants DEF IndInv, TypeOK, Writing
<1>2. KnownInv'
  BY SameCardKeepsKnown DEF IndInv
<1>3. MemoryInv'
  BY DEF IndInv, MemoryInv, Writing, Valids
<1>4. WriteInv'
  BY <1>0 DEF IndInv, WriteInv, Writing
<1>5. SelectedSurvives' /\ CleanIsKept'
  BY DEF IndInv, MemoryInv, Valids, SelectedSurvives, CleanIsKept
<1>6. DamageIsPreserved'
  BY DEF IndInv, DamageIsPreserved
<1> QED
  BY <1>1, <1>2, <1>3, <1>4, <1>5, <1>6 DEF IndInv

\* A step of a write that fails leaves the disk's facts to be shown.
LEMMA FailKeeps ==
    ASSUME IndInv, pc \in Writing, Fail, legacy' = legacy,
           status' \in [Slots -> Statuses], rec' \in [Slots -> Records], KnownInv',
           \A i \in Slots : found[i] \in {"Corrupt", "Foreign"} => status'[i] = found[i],
           \A i \in Slots : status'[i] = "Valid" /\ rec'[i].phase = "pending" => rec'[i].seq = 0
    PROVE  IndInv'
<1> USE DEF Fail, memoryVars, writeVars
<1>1. TypeOK'
  BY DEF IndInv, TypeOK
<1>2. MemoryInv'
  BY DEF MemoryInv, Writing, Valids
<1>3. WriteInv' /\ SelectedSurvives' /\ CleanIsKept'
  BY DEF WriteInv, SelectedSurvives, CleanIsKept, Writing
<1>4. DamageIsPreserved'
  BY DEF DamageIsPreserved
<1> QED
  BY <1>1, <1>2, <1>3, <1>4 DEF IndInv

\* A failure that does not touch the card.
LEMMA FailBesideKeeps ==
    ASSUME IndInv, pc \in Writing, Fail, UNCHANGED diskVars
    PROVE  IndInv'
<1> USE DEF Fail, diskVars
<1>1. KnownInv'
  BY SameCardKeepsKnown DEF IndInv
<1>2. status' \in [Slots -> Statuses] /\ rec' \in [Slots -> Records]
  BY DEF IndInv, TypeOK
<1>3. \A i \in Slots : found[i] \in {"Corrupt", "Foreign"} => status'[i] = found[i]
  BY DEF IndInv, DamageIsPreserved, Writing
<1>4. \A i \in Slots : status'[i] = "Valid" /\ rec'[i].phase = "pending" => rec'[i].seq = 0
  BY DEF IndInv, MemoryInv, Valids
<1> QED
  BY <1>1, <1>2, <1>3, <1>4, FailKeeps

\* What may happen to the target while it is open.
LEMMA TouchedDisk ==
    ASSUME IndInv, pc \in {"open", "write"}, PutTarget(Touched),
           known' = known, target' = target
    PROVE  /\ status' \in [Slots -> Statuses] /\ rec' \in [Slots -> Records]
           /\ legacy' = legacy
           /\ KnownInv'
           /\ \A i \in Slots : found[i] \in {"Corrupt", "Foreign"} => status'[i] = found[i]
           /\ \A i \in Slots : status'[i] = "Valid" /\ rec'[i].phase = "pending" => rec'[i].seq = 0
<1>1. /\ status' \in [Slots -> Statuses] /\ rec' \in [Slots -> Records]
      /\ legacy' = legacy
      /\ \A i \in Slots \ {target} : status'[i] = status[i] /\ rec'[i] = rec[i]
      /\ \/ status' = status /\ rec' = rec
         \/ status'[target] = "Corrupt" /\ rec' = rec
         \/ status'[target] = "Valid" /\ rec'[target] = new
  BY TouchedSlot DEF IndInv
<1>2. KnownInv'
  BY TouchedKeepsKnown
<1>3. found[target] \notin {"Corrupt", "Foreign"} /\ new.phase = "ready"
  BY DEF IndInv, WriteInv, Writing
<1>4. \A i \in Slots : found[i] \in {"Corrupt", "Foreign"} => status[i] = found[i]
  BY DEF IndInv, DamageIsPreserved
<1>5. \A i \in Slots : status[i] = "Valid" /\ rec[i].phase = "pending" => rec[i].seq = 0
  BY DEF IndInv, MemoryInv, Valids
<1>6. \A i \in Slots : found[i] \in {"Corrupt", "Foreign"} => status'[i] = found[i]
  BY <1>1, <1>3, <1>4
<1>7. \A i \in Slots : status'[i] = "Valid" /\ rec'[i].phase = "pending" => rec'[i].seq = 0
  BY <1>1, <1>3, <1>5
<1> QED
  BY <1>1, <1>2, <1>6, <1>7

\* A step of a write that succeeds.
LEMMA AdvanceKeeps ==
    ASSUME IndInv, pc \in {"open", "write"}, PutTarget(Touched),
           pc' \in {"write", "readback"},
           UNCHANGED <<memoryVars, writeVars, known, found, writes, cuts>>
    PROVE  IndInv'
<1> USE DEF memoryVars, writeVars
<1>0. TypeOK /\ target \in Slots /\ new \in Records
  BY DEF IndInv, TypeOK
<1>1. /\ status' \in [Slots -> Statuses] /\ rec' \in [Slots -> Records]
      /\ legacy' = legacy
      /\ KnownInv'
      /\ \A i \in Slots : found[i] \in {"Corrupt", "Foreign"} => status'[i] = found[i]
      /\ \A i \in Slots : status'[i] = "Valid" /\ rec'[i].phase = "pending" => rec'[i].seq = 0
  BY TouchedDisk
<1>2. /\ \A i \in Slots \ {target} : status'[i] = status[i] /\ rec'[i] = rec[i]
      /\ \/ status' = status /\ rec' = rec
         \/ status'[target] = "Corrupt" /\ rec' = rec
         \/ status'[target] = "Valid" /\ rec'[target] = new
  BY <1>0, TouchedSlot
<1>3. TypeOK'
  BY <1>0, <1>1 DEF TypeOK, Writing
<1>4. MemoryInv'
  BY <1>1 DEF IndInv, MemoryInv, Writing, Valids
<1>5. WriteInv'
  <2>1. /\ found[target] \notin {"Corrupt", "Foreign"}
        /\ new.phase = "ready" /\ new.data = clock
        /\ hasCurrent /\ current.phase = "ready" => new.seq = NextSequence(current.seq)
        /\ hasCurrent => new.lineage = current.lineage
        /\ new.lineage = legacy
    BY DEF IndInv, WriteInv, Writing
  <2>2. \A i \in Slots : status'[i] # "Foreign"
    <3>1. \A i \in Slots : status[i] # "Foreign"
      BY DEF IndInv, WriteInv
    <3> QED
      BY <3>1, <1>0, <1>2
  <2>3. /\ Valids' \ {target} = Valids \ {target}
        /\ Readies' \ {target} = Readies \ {target}
        /\ \A i \in Valids \ {target} : i \in Slots /\ rec'[i] = rec[i]
    BY <1>2 DEF Valids, Readies
  <2>4. /\ \A i \in Valids \ {target} : rec[i].lineage = new.lineage
        /\ \A i \in Readies \ {target} : i \in Valids \ {target} /\ IsSequenceNewer(new.seq, rec[i].seq)
        /\ \A i, j \in Readies \ {target} : ~Disagree(i, j)
        /\ hasCurrent => \E i \in Valids \ {target} : rec[i] = current
    BY DEF IndInv, WriteInv, Readies
  <2>5. \A i, j \in Readies \ {target} : ~Disagree(i, j)'
    BY <2>3, <2>4 DEF Disagree
  <2>6. target \in Valids' /\ rec'[target].phase = "pending" =>
            hasCurrent /\ (current.phase = "pending" => rec'[target] = current)
    <3>1. target \in Valids /\ rec[target].phase = "pending" =>
            hasCurrent /\ (current.phase = "pending" => rec[target] = current)
      BY DEF IndInv, WriteInv
    <3> QED
      BY <3>1, <2>1, <1>2 DEF Valids
  <2> QED
    BY <2>1, <2>2, <2>3, <2>4, <2>5, <2>6, <1>1 DEF WriteInv
<1>6. SelectedSurvives' /\ CleanIsKept'
  BY <1>5 DEF SelectedSurvives, CleanIsKept, WriteInv, Writing, Valids
<1>7. DamageIsPreserved'
  BY <1>1 DEF DamageIsPreserved
<1> QED
  BY <1>1, <1>3, <1>4, <1>5, <1>6, <1>7 DEF IndInv

LEMMA OpenIsTouch ==
    ASSUME PutTarget(Opened)
    PROVE  PutTarget(Touched)
BY DEF PutTarget, Touched

LEMMA OpenKeeps ==
    ASSUME IndInv, Open
    PROVE  IndInv'
BY OpenIsTouch, AdvanceKeeps DEF Open

LEMMA WriteKeeps ==
    ASSUME IndInv, Write
    PROVE  IndInv'
<1>1. PutTarget(Touched)
  BY DEF Write, PutTarget, Touched
<1> QED
  BY <1>1, AdvanceKeeps DEF Write

\* OpenFails and WriteFails.
LEMMA FailedTouchKeeps ==
    ASSUME IndInv, pc \in {"open", "write"}, PutTarget(Touched), Fail
    PROVE  IndInv'
<1>1. known' = known /\ target' = target
  BY DEF Fail, writeVars
<1> QED
  BY <1>1, TouchedDisk, FailKeeps DEF Writing

LEMMA PowerOffKeeps ==
    ASSUME IndInv, PowerOff
    PROVE  IndInv'
<1> USE DEF PowerOff, writeVars
<1>1. /\ status' \in [Slots -> Statuses] /\ rec' \in [Slots -> Records]
      /\ legacy' = legacy /\ KnownInv'
      /\ \A i \in Slots : status'[i] = "Valid" /\ rec'[i].phase = "pending" => rec'[i].seq = 0
  <2>1. CASE pc \in {"open", "write"}
    <3>1. PutTarget(Touched)
      BY <2>1, OpenIsTouch
    <3> QED
      BY <2>1, <3>1, TouchedDisk
  <2>2. CASE pc \notin {"open", "write"}
    <3>1. UNCHANGED diskVars
      BY <2>2
    <3>2. KnownInv'
      BY <3>1, SameCardKeepsKnown DEF IndInv, diskVars
    <3> QED
      BY <3>1, <3>2 DEF IndInv, TypeOK, MemoryInv, Valids, diskVars
  <2> QED
    BY <2>1, <2>2
<1>2. TypeOK'
  BY <1>1 DEF IndInv, TypeOK
<1>3. MemoryInv' /\ WriteInv' /\ SelectedSurvives' /\ CleanIsKept' /\ DamageIsPreserved'
  BY <1>1 DEF MemoryInv, WriteInv, SelectedSurvives, CleanIsKept, DamageIsPreserved, Writing, Valids
<1> QED
  BY <1>1, <1>2, <1>3 DEF IndInv

LEMMA DowngradeKeeps ==
    ASSUME IndInv, Downgrade
    PROVE  IndInv'
<1> USE DEF Downgrade, memoryVars, writeVars
<1>1. TypeOK'
  BY DEF IndInv, TypeOK
<1>2. KnownInv'
  BY SameCardKeepsKnown DEF IndInv
<1>3. MemoryInv' /\ WriteInv' /\ SelectedSurvives' /\ CleanIsKept' /\ DamageIsPreserved'
  BY DEF IndInv, MemoryInv, WriteInv, SelectedSurvives, CleanIsKept, DamageIsPreserved, Writing, Valids
<1> QED
  BY <1>1, <1>2, <1>3 DEF IndInv

\* In a journal that is not blocked and holds records, the selected record.
LEMMA SelectedFacts ==
    ASSUME ~Blocked, Candidates # {}
    PROVE  /\ Selected \in Valids
           /\ \A i \in Slots : status[i] # "Foreign"
           /\ \A i \in Valids : rec[i].lineage = rec[Selected].lineage
           /\ \A i, j \in Readies : ~Disagree(i, j)
           /\ rec[Selected].phase # "ready" => Readies = {}
           /\ rec[Selected].phase = "ready" => Selected \in Readies
           /\ \A j \in Readies : \/ rec[j] = rec[Selected]
                                 \/ IsSequenceNewer(rec[Selected].seq, rec[j].seq)
<1>1. Selected \in Candidates /\ Dominates(Selected)
  BY SelectedIsIn
<1>2. Readies # {} => Candidates = Readies
  BY DEF Candidates
<1>3. Readies = {} => Candidates = Valids
  BY DEF Candidates
<1>4. Readies \subseteq Valids
  BY DEF Readies
<1>5. Selected \in Valids
  BY <1>1, <1>2, <1>3, <1>4
<1>6. /\ \A i \in Slots : status[i] # "Foreign"
      /\ \A i \in Valids : rec[i].lineage = rec[Selected].lineage
  BY <1>5 DEF Blocked
<1>7. \A i, j \in Readies : ~Disagree(i, j)
  BY <1>2 DEF Blocked
<1>8. /\ rec[Selected].phase # "ready" => Readies = {}
      /\ rec[Selected].phase = "ready" => Selected \in Readies
  BY <1>1, <1>2, <1>5 DEF Readies
<1>9. \A j \in Readies : \/ rec[j] = rec[Selected]
                         \/ IsSequenceNewer(rec[Selected].seq, rec[j].seq)
  BY <1>1, <1>2, <1>7 DEF Dominates, Disagree
<1> QED
  BY <1>5, <1>6, <1>7, <1>8, <1>9

\* Two pending records that may both be chosen are equal.
LEMMA PendingsAgree ==
    ASSUME ~Blocked, Readies = {}, MemoryInv,
           \A i \in Valids : rec[i].phase \in Phases,
           NEW i \in Valids, NEW j \in Valids
    PROVE  rec[i] = rec[j]
<1>1. Candidates = Valids
  BY DEF Candidates
<1>2. \A k \in Valids : rec[k].phase = "pending"
  BY DEF Readies, Phases
<1>3. rec[i].seq = 0 /\ rec[j].seq = 0
  BY <1>2 DEF MemoryInv
<1>4. ~Disagree(i, j)
  BY <1>1 DEF Blocked
<1> QED
  BY <1>3, <1>4 DEF Disagree

LEMMA PreflightKeeps ==
    ASSUME IndInv, Preflight
    PROVE  IndInv'
<1> USE DEF Preflight, diskVars, memoryVars
<1>0. TypeOK /\ MemoryInv /\ (\A i \in Slots : rec[i] \in Records)
  BY DEF IndInv, TypeOK
<1> DEFINE t == Least(Targets)
<1>1. t \in Targets /\ t \in Slots
  BY TargetIsIn DEF Preflighted
<1>2. /\ \/ status[t] = "Missing"
         \/ status[t] = "Valid" /\ (hasCurrent => t # Selected)
      /\ \A i \in Readies \ {t} : IsSequenceNewer(new.seq, rec[i].seq)
  BY <1>1, TargetIsSpare
<1>3. TypeOK'
  BY <1>0, <1>1 DEF TypeOK, Writing
<1>4. KnownInv'
  BY SameCardKeepsKnown DEF IndInv
<1>5. MemoryInv'
  BY DEF IndInv, MemoryInv, Writing, Valids
<1>6. found[t] \notin {"Corrupt", "Foreign"}
  BY <1>1, <1>2 DEF IndInv, DamageIsPreserved
<1>7. ASSUME ~hasCurrent
      PROVE  WriteInv' /\ SelectedSurvives'
  <2>1. Valids = {} /\ Readies = {}
    BY <1>7 DEF Preflighted, Candidates, Readies
  <2>2. \A i \in Slots : status[i] # "Foreign"
    BY DEF Preflighted, Blocked
  <2>3. WriteInv'
    BY <1>0, <1>2, <1>6, <1>7, <2>1, <2>2 DEF IndInv, WriteInv, Writing, Preflighted, Valids, Readies
  <2>4. hasCurrent' = hasCurrent
    OBVIOUS
  <2> QED
    BY <1>7, <2>3, <2>4 DEF SelectedSurvives
<1>8. ASSUME hasCurrent
      PROVE  WriteInv' /\ SelectedSurvives'
  <2>0. ~Blocked /\ Candidates # {} /\ current = rec[Selected]
    BY <1>8 DEF Preflighted
  <2>1. /\ Selected \in Valids
        /\ \A i \in Slots : status[i] # "Foreign"
        /\ \A i \in Valids : rec[i].lineage = current.lineage
        /\ \A i, j \in Readies : ~Disagree(i, j)
        /\ current.phase # "ready" => Readies = {}
    BY <2>0, SelectedFacts
  <2>2. Selected \in Valids \ {t} /\ rec[Selected] = current
    BY <1>2, <1>8, <2>0, <2>1 DEF Valids
  <2>3. new.lineage = current.lineage
    BY <1>8 DEF IndInv, WriteInv, Writing
  <2>4. t \in Valids /\ current.phase = "pending" => rec[t] = current
    <3>1. \A i \in Valids : rec[i].phase \in Phases
      BY <1>0 DEF Valids, Records
    <3> QED
      BY <1>0, <2>0, <2>1, <3>1, PendingsAgree
  <2>5. WriteInv'
    <3>1. target' = t /\ pc' = "open"
      OBVIOUS
    <3>2. /\ new.phase = "ready" /\ new.data = clock
          /\ hasCurrent /\ current.phase = "ready" => new.seq = NextSequence(current.seq)
          /\ new.lineage = legacy
      BY DEF IndInv, WriteInv, Writing, Preflighted
    <3>3. Valids' = Valids /\ Readies' = Readies /\ status' = status /\ rec' = rec
      BY DEF Valids, Readies
    <3>4. \A i, j \in Readies : ~Disagree(i, j)'
      BY <2>1 DEF Disagree
    <3> HIDE DEF t
    <3> QED
      BY <1>2, <1>6, <1>8, <2>1, <2>2, <2>3, <2>4, <3>1, <3>2, <3>3, <3>4 DEF WriteInv
  <2>6. SelectedSurvives'
    <3>1. target' = t /\ current' = current /\ status' = status /\ rec' = rec
      OBVIOUS
    <3> HIDE DEF t
    <3> QED
      BY <2>2, <3>1 DEF SelectedSurvives, Valids
  <2> QED
    BY <2>5, <2>6
<1>9. CleanIsKept' /\ DamageIsPreserved'
  BY DEF IndInv, CleanIsKept, DamageIsPreserved
<1> QED
  BY <1>3, <1>4, <1>5, <1>7, <1>8, <1>9 DEF IndInv

LEMMA ReadbackKeeps ==
    ASSUME IndInv, Readback
    PROVE  IndInv'
<1> USE DEF Readback, Verified, diskVars, writeVars
<1>0. /\ TypeOK /\ target \in Slots /\ new \in Records
      /\ \A i \in Slots : rec[i].seq \in Sequences /\ rec[i] \in Records
  BY DEF IndInv, TypeOK, Records
<1>1. /\ new.phase = "ready" /\ new.data = clock /\ new.lineage = legacy
      /\ \A i \in Slots : status[i] # "Foreign"
      /\ \A i \in Valids \ {target} : rec[i].lineage = new.lineage
      /\ \A i \in Readies \ {target} : IsSequenceNewer(new.seq, rec[i].seq)
      /\ \A i, j \in Readies \ {target} : ~Disagree(i, j)
  BY DEF IndInv, WriteInv, Writing
<1>2. TypeOK'
  BY <1>0 DEF TypeOK
<1>3. target \in Readies /\ rec[target] = new
  BY <1>0, <1>1 DEF Readies, Valids
<1>4. \A i \in Valids : rec[i].lineage = new.lineage
  BY <1>1, <1>3
<1>5. \A i \in Readies \ {target} :
        /\ rec[i].seq # new.seq
        /\ Behind(new.seq, rec[i].seq) # Half /\ Behind(rec[i].seq, new.seq) # Half
  <2> SUFFICES ASSUME NEW i \in Readies \ {target}
               PROVE  /\ rec[i].seq # new.seq
                      /\ Behind(new.seq, rec[i].seq) # Half
                      /\ Behind(rec[i].seq, new.seq) # Half
    OBVIOUS
  <2>1. rec[i].seq \in Sequences /\ new.seq \in Sequences
    BY <1>0 DEF Records, Readies, Valids
  <2>2. IsSequenceNewer(new.seq, rec[i].seq)
    BY <1>1
  <2> QED
    BY <2>1, <2>2, NewerIsStrict
<1>6. Behind(new.seq, new.seq) # Half
  BY <1>0, JournalConstants DEF Records, Sequences, Behind
<1>7. \A i, j \in Readies : ~Disagree(i, j)
  <2> SUFFICES ASSUME NEW i \in Readies, NEW j \in Readies
               PROVE  ~Disagree(i, j)
    OBVIOUS
  <2>1. CASE i # target /\ j # target
    BY <2>1, <1>1
  <2>2. CASE i = target \/ j = target
    BY <2>2, <1>3, <1>5, <1>6 DEF Disagree
  <2> QED
    BY <2>1, <2>2
<1>8. KnownInv'
  <2>1. Valids' = Valids /\ Readies' = Readies
    BY DEF Valids, Readies
  <2>2. \A i, j \in Readies : ~Disagree(i, j)'
    BY <1>7 DEF Disagree
  <2>3. \A i \in Readies : rec'[i] = new \/ IsSequenceNewer(new.seq, rec'[i].seq)
    BY <1>1, <1>3
  <2> QED
    BY <1>1, <1>3, <1>4, <2>1, <2>2, <2>3 DEF KnownInv
<1>9. MemoryInv'
  BY <1>1, <1>3 DEF IndInv, MemoryInv, Writing, Valids, Readies
<1>10. WriteInv' /\ SelectedSurvives'
  BY DEF WriteInv, SelectedSurvives, Writing
<1>11. CleanIsKept' /\ DamageIsPreserved'
  BY <1>0, <1>1 DEF IndInv, CleanIsKept, DamageIsPreserved
<1> QED
  BY <1>2, <1>8, <1>9, <1>10, <1>11 DEF IndInv

LEMMA LoadStateKeeps ==
    ASSUME IndInv, LoadState
    PROVE  IndInv'
<1> USE DEF LoadState, diskVars, memoryVars
<1>0. /\ TypeOK /\ pc = "off" /\ ~hasCurrent /\ ~dirty
      /\ cuts' = cuts + 1 /\ cuts < MaxCuts /\ found' = status
      /\ UNCHANGED <<status, rec, legacy, target>>
      /\ \A i \in Valids : rec[i].phase = "pending" => rec[i].seq = 0
  BY DEF IndInv, MemoryInv
<1>1. cuts' \in 0 .. MaxCuts /\ found' \in [Slots -> Statuses]
  BY <1>0, JournalConstants DEF TypeOK
<1>2. DamageIsPreserved'
  BY <1>0 DEF DamageIsPreserved
<1>3. CASE LoadRefused
  <2> USE <1>3 DEF LoadRefused
  <2>1. TypeOK'
    BY <1>0, <1>1 DEF TypeOK
  <2>2. KnownInv'
    BY <1>0, SameCardKeepsKnown DEF IndInv
  <2>3. MemoryInv' /\ WriteInv' /\ SelectedSurvives' /\ CleanIsKept'
    BY <1>0 DEF MemoryInv, WriteInv, SelectedSurvives, CleanIsKept, Writing, Valids
  <2> QED
    BY <1>2, <2>1, <2>2, <2>3 DEF IndInv
<1>4. CASE LoadNothing
  <2> USE <1>4 DEF LoadNothing
  <2>1. TypeOK'
    BY <1>0, <1>1 DEF TypeOK
  <2>2. KnownInv'
    BY <1>0, SameCardKeepsKnown DEF IndInv
  <2>3. known = NoValue
    BY DEF IndInv, KnownInv, Candidates
  <2>4. pc' = "run" => legacy' # "broken"
    BY <1>0
  <2>5. MemoryInv'
    BY <1>0, <2>3, <2>4 DEF MemoryInv, Writing, Valids
  <2>6. WriteInv' /\ SelectedSurvives' /\ CleanIsKept'
    BY <1>0 DEF WriteInv, SelectedSurvives, CleanIsKept, Writing
  <2> QED
    BY <1>2, <2>1, <2>2, <2>5, <2>6 DEF IndInv
<1>5. CASE LoadSelected
  <2> USE <1>5 DEF LoadSelected
  <2>1. /\ Selected \in Valids
        /\ \A i \in Slots : status[i] # "Foreign"
        /\ \A i \in Valids : rec[i].lineage = rec[Selected].lineage
        /\ \A i, j \in Readies : ~Disagree(i, j)
        /\ rec[Selected].phase # "ready" => Readies = {}
        /\ rec[Selected].phase = "ready" => Selected \in Readies
        /\ \A j \in Readies : \/ rec[j] = rec[Selected]
                              \/ IsSequenceNewer(rec[Selected].seq, rec[j].seq)
    BY SelectedFacts
  <2>2. Selected \in Slots /\ rec[Selected] \in Records /\ rec[Selected].data \in Data
    BY <1>0, <2>1 DEF TypeOK, Valids, Records
  <2>3. pc' = "preflight" => /\ new' \in Records
                             /\ new'.phase = "ready" /\ new'.data = rec[Selected].data
                             /\ new'.lineage = rec[Selected].lineage
    BY <2>2, AnchoredIsRecord
  <2>4. new' \in Records /\ writes' \in 0 .. MaxWrites /\ dirty' \in BOOLEAN
    BY <1>0, <2>3, JournalConstants DEF TypeOK
  <2>5. TypeOK'
    BY <1>0, <1>1, <2>2, <2>4 DEF TypeOK, Writing
  <2>6. Valids' = Valids /\ Readies' = Readies
    BY <1>0 DEF Valids, Readies
  <2>7. KnownInv'
    <3>1. CASE rec[Selected].phase = "ready"
      <4> DEFINE s == Selected
      <4>1. known' = rec[s] /\ rec' = rec /\ status' = status
        BY <1>0, <3>1
      <4>2. \A i, j \in Readies : ~Disagree(i, j)'
        BY <1>0, <2>1 DEF Disagree
      <4> HIDE DEF s
      <4>3. /\ s \in Readies /\ rec[s].phase = "ready"
            /\ \A i \in Slots : status[i] # "Foreign"
            /\ \A i \in Valids : rec[i].lineage = rec[s].lineage
            /\ \A j \in Readies : rec[j] = rec[s] \/ IsSequenceNewer(rec[s].seq, rec[j].seq)
        BY <2>1, <3>1 DEF s
      <4> QED
        BY <2>6, <4>1, <4>2, <4>3 DEF KnownInv
    <3>2. CASE rec[Selected].phase # "ready"
      BY <1>0, <3>2, SameCardKeepsKnown DEF IndInv
    <3> QED
      BY <3>1, <3>2
  <2>8. rec[Selected].phase # "ready" => known = NoValue
    BY <2>1 DEF IndInv, KnownInv
  <2>9. MemoryInv'
    <3>1. \E i \in Valids' : rec'[i] = current'
      BY <1>0, <2>1, <2>6
    <3>2. \A i \in Valids' : rec'[i].phase = "pending" => rec'[i].seq = 0
      BY <1>0, <2>6
    <3>3. pc' \in {"run", "preflight", "blocked"} /\ (pc' = "run" => current'.phase = "ready")
      OBVIOUS
    <3>4. /\ known' # NoValue => current' = known'
          /\ current'.phase = "ready" => known' = current'
          /\ legacy' # "broken"
      BY <1>0, <2>8
    <3> QED
      BY <3>1, <3>2, <3>3, <3>4 DEF MemoryInv, Writing
  <2>10. WriteInv'
    BY <2>3 DEF WriteInv, Writing
  <2>11. SelectedSurvives' /\ CleanIsKept'
    <3>1. \E i \in Slots : status'[i] = "Valid" /\ rec'[i] = current'
      BY <1>0, <2>1 DEF Valids
    <3> QED
      BY <3>1 DEF SelectedSurvives, CleanIsKept, Writing
  <2> QED
    BY <1>2, <2>5, <2>7, <2>9, <2>10, <2>11 DEF IndInv
<1> QED
  BY <1>3, <1>4, <1>5

-----------------------------------------------------------------------------
(* The inductive invariant.                                                 *)

LEMMA InitInv ==
    ASSUME Init
    PROVE  IndInv
<1>1. AnyRecord \in Records /\ AnyRecord.data \in Data
  BY JournalConstants DEF AnyRecord, FreshRecord, Records, Phases, Sequences
<1>2. PICK disk \in [Slots -> {<<s, AnyRecord>> : s \in Statuses \ {"Valid"}}
                              \union {<<"Valid", r>> : r \in Files}] :
        /\ status = [i \in Slots |-> disk[i][1]]
        /\ rec = [i \in Slots |-> disk[i][2]]
  BY DEF Init
<1>3. \A i \in Slots : /\ status[i] \in Statuses
                       /\ rec[i] \in Records
                       /\ status[i] = "Valid" => rec[i] \in Files
  <2> SUFFICES ASSUME NEW i \in Slots
               PROVE  /\ status[i] \in Statuses
                      /\ rec[i] \in Records
                      /\ status[i] = "Valid" => rec[i] \in Files
    OBVIOUS
  <2>1. CASE disk[i] \in {<<s, AnyRecord>> : s \in Statuses \ {"Valid"}}
    BY <1>1, <1>2, <2>1
  <2>2. CASE disk[i] \in {<<"Valid", r>> : r \in Files}
    BY <1>2, <2>2, JournalConstants DEF Statuses
  <2> QED
    BY <1>2, <2>1, <2>2
<1>4. TypeOK
  <2>1. status \in [Slots -> Statuses] /\ rec \in [Slots -> Records]
    BY <1>2, <1>3
  <2>2. /\ legacy \in Legacy /\ pc = "off" /\ ~hasCurrent /\ ~dirty
        /\ current = AnyRecord /\ clock = AnyRecord.data /\ new = AnyRecord
        /\ target = 0 /\ known = NoValue /\ found = status /\ writes = 0 /\ cuts = 0
        /\ hasCurrent \in BOOLEAN /\ dirty \in BOOLEAN
    BY DEF Init
  <2>3. target \in Slots /\ writes \in 0 .. MaxWrites /\ cuts \in 0 .. MaxCuts
    BY <2>2, JournalConstants DEF Slots
  <2> QED
    BY <1>1, <2>1, <2>2, <2>3 DEF TypeOK
<1>5. KnownInv
  BY DEF Init, KnownInv
<1>6. MemoryInv
  BY <1>3, JournalConstants DEF Init, MemoryInv, Writing, Valids
<1>7. WriteInv /\ SelectedSurvives /\ CleanIsKept /\ DamageIsPreserved
  BY DEF Init, WriteInv, SelectedSurvives, CleanIsKept, DamageIsPreserved, Writing
<1> QED
  BY <1>4, <1>5, <1>6, <1>7 DEF IndInv

LEMMA StutterKeeps ==
    ASSUME IndInv, UNCHANGED vars
    PROVE  IndInv'
<1> USE DEF vars, diskVars, memoryVars, writeVars
<1>1. KnownInv'
  BY SameCardKeepsKnown DEF IndInv
<1>2. TypeOK' /\ MemoryInv' /\ WriteInv'
  BY DEF IndInv, TypeOK, MemoryInv, WriteInv, Valids, Readies, Disagree
<1>3. SelectedSurvives' /\ CleanIsKept' /\ DamageIsPreserved'
  BY DEF IndInv, SelectedSurvives, CleanIsKept, DamageIsPreserved
<1> QED
  BY <1>1, <1>2, <1>3 DEF IndInv

LEMMA NextInv ==
    ASSUME IndInv, [Next]_vars
    PROVE  IndInv'
<1>1. CASE LoadState
  BY <1>1, LoadStateKeeps
<1>2. CASE \E d \in Data : GuestChanges(d)
  BY <1>2, GuestChangesKeeps
<1>3. CASE FlushStateIfDirty
  BY <1>3, FlushKeeps
<1>4. CASE Preflight
  BY <1>4, PreflightKeeps
<1>5. CASE PreflightFails
  BY <1>5, FailBesideKeeps DEF PreflightFails, Writing
<1>6. CASE Open
  BY <1>6, OpenKeeps
<1>7. CASE OpenFails
  BY <1>7, OpenIsTouch, FailedTouchKeeps DEF OpenFails
<1>8. CASE Write
  BY <1>8, WriteKeeps
<1>9. CASE WriteFails
  BY <1>9, FailedTouchKeeps DEF WriteFails
<1>10. CASE Readback
  BY <1>10, ReadbackKeeps
<1>11. CASE ReadbackFails
  BY <1>11, FailBesideKeeps DEF ReadbackFails, Writing
<1>12. CASE PowerOff
  BY <1>12, PowerOffKeeps
<1>13. CASE Downgrade
  BY <1>13, DowngradeKeeps
<1>14. CASE UNCHANGED vars
  BY <1>14, StutterKeeps
<1> QED
  BY <1>1, <1>2, <1>3, <1>4, <1>5, <1>6, <1>7, <1>8, <1>9, <1>10, <1>11, <1>12, <1>13, <1>14 DEF Next

\* The inductive invariant holds in every reachable state, whatever three
\* files the card held and whatever fails or is cut short (RomGpioRtc.cpp).
THEOREM IndInvHolds == Spec => []IndInv
<1>1. Init => IndInv
  BY InitInv
<1>2. IndInv /\ [Next]_vars => IndInv'
  BY NextInv
<1> QED
  BY <1>1, <1>2, PTL DEF Spec

-----------------------------------------------------------------------------
(* What the journal promises.                                               *)

\* No write touches the record it follows before the new one is verified
\* (WriteStateFile's choice of a target).
THEOREM SelectedRecordSurvives == Spec => []SelectedSurvives
<1>1. IndInv => SelectedSurvives
  BY DEF IndInv
<1> QED
  BY <1>1, IndInvHolds, PTL

\* A flush that reports success has the clock on the card.
THEOREM CleanMeansKept == Spec => []CleanIsKept
<1>1. IndInv => CleanIsKept
  BY DEF IndInv
<1> QED
  BY <1>1, IndInvHolds, PTL

\* Damaged slots stay as the start found them.
THEOREM DamageStays == Spec => []DamageIsPreserved
<1>1. IndInv => DamageIsPreserved
  BY DEF IndInv
<1> QED
  BY <1>1, IndInvHolds, PTL

\* What is known suffices for the next start.
LEMMA KnownRecovers ==
    ASSUME TypeOK, KnownInv
    PROVE  RestartRecovers
<1> SUFFICES ASSUME known # NoValue
             PROVE  /\ ~Blocked
                    /\ Readies # {}
                    /\ \/ rec[Selected] = known
                       \/ rec[Selected].seq = NextSequence(known.seq)
  BY DEF RestartRecovers
<1>1. PICK k \in Readies : rec[k] = known
  BY DEF KnownInv
<1>2. Candidates = Readies
  BY <1>1 DEF Candidates
<1>3. \A i \in Readies : \/ rec[i] = known
                         \/ IsSequenceNewer(known.seq, rec[i].seq)
                         \/ rec[i].seq = NextSequence(known.seq) /\ Dominates(i)
  BY DEF KnownInv
<1>4. \E i \in Readies : Dominates(i)
  <2>1. CASE \E i \in Readies : rec[i].seq = NextSequence(known.seq) /\ Dominates(i)
    BY <2>1
  <2>2. CASE ~\E i \in Readies : rec[i].seq = NextSequence(known.seq) /\ Dominates(i)
    <3>1. \A i \in Readies : rec[i] = known \/ IsSequenceNewer(known.seq, rec[i].seq)
      BY <1>3, <2>2
    <3>2. Dominates(k)
      BY <1>1, <1>2, <3>1 DEF Dominates
    <3> QED
      BY <3>2
  <2> QED
    BY <2>1, <2>2
<1>5. ~Blocked
  BY <1>1, <1>2, <1>4 DEF Blocked, KnownInv
<1>6. Selected \in Readies /\ Dominates(Selected)
  BY <1>1, <1>2, <1>5, SelectedIsIn
<1>7. ~IsSequenceNewer(known.seq, rec[Selected].seq)
  <2> SUFFICES ASSUME IsSequenceNewer(known.seq, rec[Selected].seq)
               PROVE  FALSE
    OBVIOUS
  <2>1. known.seq \in Sequences /\ rec[Selected].seq \in Sequences
    BY <1>1, <1>6 DEF TypeOK, Readies, Valids, Records
  <2>2. rec[Selected].seq = known.seq \/ IsSequenceNewer(rec[Selected].seq, known.seq)
    BY <1>1, <1>2, <1>6 DEF Dominates
  <2> QED
    BY <2>1, <2>2, NewerIsStrict
<1> QED
  BY <1>1, <1>3, <1>5, <1>6, <1>7

\* After any cut or failure a start finds the record last relied on, or its
\* successor, in a journal it does not refuse (SelectModern, LoadState).
THEOREM EveryRestartRecovers == Spec => []RestartRecovers
<1>1. IndInv => RestartRecovers
  BY KnownRecovers DEF IndInv
<1> QED
  BY <1>1, IndInvHolds, PTL

\* A pending record leaves its slot only beside a ready one that continues it.
LEMMA StepKeepsPending ==
    ASSUME IndInv, [Next]_vars
    PROVE  \A i \in Slots :
             /\ status[i] = "Valid" /\ rec[i].phase = "pending"
             /\ status'[i] # "Valid" \/ rec'[i] # rec[i]
             => \E j \in Slots \ {i} : /\ status[j] = "Valid"
                                       /\ \/ rec[j] = rec[i]
                                          \/ rec[j].phase = "ready" /\ rec[j].lineage = rec[i].lineage
<1> SUFFICES ASSUME NEW i \in Slots,
                    status[i] = "Valid", rec[i].phase = "pending",
                    status'[i] # "Valid" \/ rec'[i] # rec[i]
             PROVE  \E j \in Slots \ {i} :
                        /\ status[j] = "Valid"
                        /\ \/ rec[j] = rec[i]
                           \/ rec[j].phase = "ready" /\ rec[j].lineage = rec[i].lineage
  OBVIOUS
<1>0. TypeOK
  BY DEF IndInv
<1>1. pc \in {"open", "write"} /\ PutTarget(Touched)
  <2>1. ~UNCHANGED diskVars
    BY DEF diskVars
  <2>2. UNCHANGED vars => UNCHANGED diskVars
    BY DEF vars
  <2>3. UNCHANGED <<status, rec>> => FALSE
    OBVIOUS
  <2>4. ~LoadState /\ ~(\E d \in Data : GuestChanges(d)) /\ ~FlushStateIfDirty
    BY <2>1 DEF LoadState, GuestChanges, FlushStateIfDirty
  <2>5. ~Preflight /\ ~PreflightFails /\ ~Readback /\ ~ReadbackFails
    BY <2>1 DEF Preflight, PreflightFails, Readback, ReadbackFails
  <2>6. ~Downgrade
    BY <2>3 DEF Downgrade
  <2>7. Open \/ OpenFails \/ Write \/ WriteFails \/ PowerOff
    BY <2>1, <2>2, <2>4, <2>5, <2>6 DEF Next
  <2>8. Open \/ OpenFails => pc \in {"open", "write"} /\ PutTarget(Touched)
    BY OpenIsTouch DEF Open, OpenFails
  <2>9. Write \/ WriteFails => pc \in {"open", "write"} /\ PutTarget(Touched)
    BY DEF Write, WriteFails, PutTarget, Touched
  <2>10. PowerOff => pc \in {"open", "write"} /\ PutTarget(Touched)
    BY <2>1, OpenIsTouch DEF PowerOff
  <2> QED
    BY <2>7, <2>8, <2>9, <2>10
<1>2. i = target
  BY <1>0, <1>1, TouchedSlot
<1>3. /\ hasCurrent /\ (current.phase = "pending" => rec[i] = current)
      /\ \E j \in Valids \ {target} : rec[j] = current
      /\ new.lineage = current.lineage
  BY <1>1, <1>2 DEF IndInv, WriteInv, Writing, Valids
<1>4. PICK j \in Valids \ {target} : rec[j] = current
  BY <1>3
<1>5. current.phase \in {"pending", "ready"}
  BY <1>0 DEF TypeOK, Records, Phases
<1>6. current.phase = "ready" => current.lineage = rec[i].lineage
  <2> SUFFICES ASSUME current.phase = "ready"
               PROVE  current.lineage = rec[i].lineage
    OBVIOUS
  <2>1. known # NoValue /\ known = current
    BY <1>0, <1>1, <1>3, JournalConstants DEF IndInv, MemoryInv, Writing, TypeOK
  <2> QED
    BY <2>1, <1>2 DEF IndInv, KnownInv, Valids
<1> QED
  BY <1>2, <1>3, <1>4, <1>5, <1>6 DEF Valids

\* The consent of a pending record is never lost before it is continued.
THEOREM PendingStays == Spec => PendingIsKept
<1>1. IndInv /\ [Next]_vars =>
        [\A i \in Slots :
            /\ status[i] = "Valid" /\ rec[i].phase = "pending"
            /\ status'[i] # "Valid" \/ rec'[i] # rec[i]
            => \E j \in Slots \ {i} : /\ status[j] = "Valid"
                                      /\ \/ rec[j] = rec[i]
                                         \/ rec[j].phase = "ready" /\ rec[j].lineage = rec[i].lineage]_vars
  BY StepKeepsPending
<1> QED
  BY <1>1, IndInvHolds, PTL DEF Spec, PendingIsKept


-----------------------------------------------------------------------------
(* The journal implements the durable cell.                                 *)

\* Slot k holds a ready record, nothing refuses the journal, and every other
\* ready record is a copy of it or older.
Foremost(k) ==
    /\ \A i \in Slots : rec[i].seq \in Sequences /\ status[i] # "Foreign"
    /\ k \in Readies
    /\ \A i \in Valids : rec[i].lineage = rec[k].lineage
    /\ \A i, j \in Readies : ~Disagree(i, j)
    /\ \A i \in Readies : rec[i] = rec[k] \/ IsSequenceNewer(rec[k].seq, rec[i].seq)

LEMMA ForemostIsKept == \A k \in Slots : Foremost(k) => Kept = rec[k]
<1> SUFFICES ASSUME NEW k \in Slots, Foremost(k)
             PROVE  Kept = rec[k]
  OBVIOUS
<1>1. Candidates = Readies /\ k \in Readies
  BY DEF Foremost, Candidates
<1>2. Dominates(k)
  BY <1>1 DEF Foremost, Dominates
<1>3. ~Blocked
  BY <1>1, <1>2 DEF Foremost, Blocked
<1>4. Selected \in Readies /\ Dominates(Selected)
  BY <1>1, <1>3, SelectedIsIn
<1>5. rec[Selected].seq = rec[k].seq \/ IsSequenceNewer(rec[Selected].seq, rec[k].seq)
  BY <1>1, <1>4 DEF Dominates
<1>6. rec[k].seq \in Sequences /\ rec[Selected].seq \in Sequences
  BY <1>1, <1>4 DEF Foremost, Readies, Valids
<1>7. rec[Selected] = rec[k]
  <2>1. rec[Selected] = rec[k] \/ IsSequenceNewer(rec[k].seq, rec[Selected].seq)
    BY <1>4 DEF Foremost
  <2>2. IsSequenceNewer(rec[k].seq, rec[Selected].seq) => FALSE
    BY <1>5, <1>6, NewerIsStrict
  <2> QED
    BY <2>1, <2>2
<1> QED
  BY <1>1, <1>3, <1>7 DEF Kept

LEMMA ForemostIsKeptNext == (\A k \in Slots : Foremost(k) => Kept = rec[k])'
BY ForemostIsKept, PTL

LEMMA SameCardKept ==
    ASSUME status' = status, rec' = rec
    PROVE  Kept' = Kept
<1>1. Valids' = Valids /\ Readies' = Readies /\ Candidates' = Candidates
  BY DEF Valids, Readies, Candidates
<1>2. \A i \in Slots : Dominates(i)' <=> Dominates(i)
  BY <1>1 DEF Dominates
<1>3. \A i, j \in Slots : Disagree(i, j)' <=> Disagree(i, j)
  BY DEF Disagree
<1>4. Valids \subseteq Slots /\ Candidates \subseteq Slots
  BY DEF Valids, Readies, Candidates
<1>5. Blocked' <=> Blocked
  BY <1>1, <1>2, <1>3, <1>4 DEF Blocked
<1>6. {i \in Candidates' : Dominates(i)'} = {i \in Candidates : Dominates(i)}
  BY <1>1, <1>2, <1>4
<1>7. Selected' = Selected
  BY <1>6 DEF Selected, Least
<1> QED
  BY <1>1, <1>5, <1>7 DEF Kept

\* A slot that is cut to nothing is not the one a start would select.
LEMMA CutKept ==
    ASSUME IndInv, KeptInv, pc \in {"open", "write"}, rec' = rec, known' = known,
           status' = [status EXCEPT ![target] = "Corrupt"]
    PROVE  Kept' = Kept
<1>0. TypeOK /\ target \in Slots /\ known \in Records \union {NoValue}
  BY DEF IndInv, TypeOK
<1>1. Readies' = Readies \ {target} /\ Valids' = Valids \ {target}
  BY <1>0 DEF Readies, Valids, TypeOK, Slots
<1>2. CASE known = NoValue
  <2>1. Readies = {} /\ Readies' = {}
    BY <1>1, <1>2 DEF KeptInv
  <2> QED
    BY <2>1 DEF Kept
<1>3. CASE known # NoValue
  <2>1. hasCurrent /\ current = known /\ known.phase = "ready"
    BY <1>3 DEF IndInv, MemoryInv, KnownInv, Writing
  <2>2. PICK k \in Valids \ {target} : rec[k] = known
    BY <2>1 DEF IndInv, WriteInv
  <2>3. k \in Slots /\ k \in Readies \ {target}
    BY <2>1, <2>2 DEF Readies, Valids
  <2>4. \A i \in Slots : rec[i].seq \in Sequences /\ status[i] # "Foreign"
    BY <1>0, <1>3 DEF IndInv, TypeOK, Records, KnownInv
  <2>5. /\ \A i \in Valids : rec[i].lineage = rec[k].lineage
        /\ \A i, j \in Readies : ~Disagree(i, j)
    BY <1>3, <2>2 DEF IndInv, KnownInv
  <2>6. \A i \in Readies : rec[i] = rec[k] \/ IsSequenceNewer(rec[k].seq, rec[i].seq)
    BY <2>2 DEF KeptInv
  <2>7. Kept = rec[k]
    BY <2>3, <2>4, <2>5, <2>6, ForemostIsKept DEF Foremost
  <2>8. \A i \in Slots : status'[i] # "Foreign"
    BY <1>0, <2>4 DEF TypeOK
  <2>9. \A i, j \in Readies : ~Disagree(i, j)'
    BY <2>5 DEF Disagree
  <2>10. Foremost(k)'
    BY <1>1, <2>3, <2>4, <2>5, <2>6, <2>8, <2>9 DEF Foremost
  <2> QED
    BY <2>3, <2>7, <2>10, ForemostIsKeptNext
<1> QED
  BY <1>2, <1>3

\* What makes a record that landed the one to select.
LEMMA NewStandsAlone ==
    ASSUME IndInv, pc \in {"open", "write", "readback"}
    PROVE  /\ target \in Slots /\ new.phase = "ready" /\ new.seq \in Sequences
           /\ \A i \in Slots : rec[i].seq \in Sequences /\ status[i] # "Foreign"
           /\ \A i \in Valids \ {target} : rec[i].lineage = new.lineage
           /\ \A i, j \in Readies \ {target} : ~Disagree(i, j)
           /\ \A i \in Readies \ {target} :
                /\ IsSequenceNewer(new.seq, rec[i].seq)
                /\ rec[i].seq # new.seq
                /\ Behind(new.seq, rec[i].seq) # Half /\ Behind(rec[i].seq, new.seq) # Half
<1>1. /\ target \in Slots /\ new.phase = "ready" /\ new.seq \in Sequences
      /\ \A i \in Slots : rec[i].seq \in Sequences /\ status[i] # "Foreign"
      /\ \A i \in Valids \ {target} : rec[i].lineage = new.lineage
      /\ \A i, j \in Readies \ {target} : ~Disagree(i, j)
      /\ \A i \in Readies \ {target} : IsSequenceNewer(new.seq, rec[i].seq)
  BY DEF IndInv, TypeOK, Records, WriteInv, Writing
<1>2. ASSUME NEW i \in Readies \ {target}
      PROVE  /\ rec[i].seq # new.seq
             /\ Behind(new.seq, rec[i].seq) # Half /\ Behind(rec[i].seq, new.seq) # Half
  <2>1. i \in Slots
    BY DEF Readies, Valids
  <2> QED
    BY <1>1, <2>1, NewerIsStrict
<1> QED
  BY <1>1, <1>2

LEMMA SameAgrees ==
    ASSUME NEW i \in Slots, rec[i].seq \in Sequences
    PROVE  ~Disagree(i, i)
BY JournalConstants DEF Disagree, Behind, Sequences

\* The record that has landed is selected by the next start.
LEMMA LandedKept ==
    ASSUME IndInv, pc \in {"open", "write"}, status'[target] = "Valid", rec'[target] = new,
           \A i \in Slots \ {target} : status'[i] = status[i] /\ rec'[i] = rec[i]
    PROVE  Kept' = new
<1>1. target \in Slots /\ new.phase = "ready" /\ new.seq \in Sequences
  BY NewStandsAlone
<1>2. /\ Readies' = (Readies \ {target}) \union {target}
      /\ Valids' = (Valids \ {target}) \union {target}
  BY <1>1 DEF Readies, Valids
<1>3. \A i \in Slots : rec'[i].seq \in Sequences /\ status'[i] # "Foreign"
  BY <1>1, NewStandsAlone
<1>4. \A i \in Valids' : rec'[i].lineage = new.lineage
  BY <1>2, NewStandsAlone DEF Valids
<1>5. ASSUME NEW i \in Readies', NEW j \in Readies'
      PROVE  ~Disagree(i, j)'
  <2> USE DEF Disagree
  <2>0. i \in Slots /\ j \in Slots
    BY DEF Readies, Valids
  <2>1. CASE i \in Readies \ {target} /\ j \in Readies \ {target}
    BY <2>0, <2>1, NewStandsAlone
  <2>2. CASE i = target /\ j = target
    BY <1>1, <2>2, JournalConstants DEF Behind, Sequences
  <2>3. CASE i = target /\ j \in Readies \ {target}
    BY <2>0, <2>3, NewStandsAlone
  <2>4. CASE i \in Readies \ {target} /\ j = target
    BY <2>0, <2>4, NewStandsAlone
  <2> QED
    BY <1>2, <2>1, <2>2, <2>3, <2>4
<1>6. \A i \in Readies' : rec'[i] = new \/ IsSequenceNewer(new.seq, rec'[i].seq)
  BY <1>2, NewStandsAlone DEF Readies, Valids
<1>7. PICK k \in Slots : k = target
  BY <1>1
<1>8. Foremost(k)'
  BY <1>2, <1>3, <1>4, <1>5, <1>6, <1>7 DEF Foremost
<1> QED
  BY <1>7, <1>8, ForemostIsKeptNext

\* The same of a record that the read-back finds.
LEMMA VerifiedKept ==
    ASSUME IndInv, pc = "readback", Verified
    PROVE  Kept = new
<1>1. target \in Readies /\ target \in Slots /\ rec[target] = new
  BY NewStandsAlone DEF Verified, Readies, Valids
<1>2. \A i \in Valids : rec[i].lineage = new.lineage
  BY <1>1, NewStandsAlone
<1>3. ASSUME NEW i \in Readies, NEW j \in Readies
      PROVE  ~Disagree(i, j)
  <2>0. i \in Slots /\ j \in Slots
    BY DEF Readies, Valids
  <2>1. CASE i # target /\ j # target
    BY <2>1, NewStandsAlone
  <2>2. CASE i = target /\ j = target
    BY <1>1, <2>2, NewStandsAlone, SameAgrees
  <2>3. CASE i = target /\ j # target
    BY <1>1, <2>3, NewStandsAlone DEF Disagree
  <2>4. CASE i # target /\ j = target
    BY <1>1, <2>4, NewStandsAlone DEF Disagree
  <2> QED
    BY <2>1, <2>2, <2>3, <2>4
<1>4. \A i \in Readies : rec[i] = new \/ IsSequenceNewer(new.seq, rec[i].seq)
  BY <1>1, NewStandsAlone
<1>5. Foremost(target)
  BY <1>1, <1>2, <1>3, <1>4, NewStandsAlone DEF Foremost
<1> QED
  BY <1>1, <1>5, ForemostIsKept

\* Whatever a write leaves in its slot, a start selects what it would have
\* selected before, or the new record; opening the slot alone changes nothing.
LEMMA TouchedKept ==
    ASSUME IndInv, KeptInv, pc \in {"open", "write"}, known' = known
    PROVE  /\ PutTarget(Opened) => Kept' = Kept
           /\ PutTarget(Touched) => Kept' = Kept \/ Kept' = new
<1>0. TypeOK /\ target \in Slots
  BY DEF IndInv, TypeOK
<1>1. ASSUME PutTarget(Opened)
      PROVE  Kept' = Kept
  <2>1. PICK c \in Opened : /\ status' = [status EXCEPT ![target] = c[1]]
                            /\ rec' = [rec EXCEPT ![target] = c[2]]
    BY <1>1 DEF PutTarget
  <2>2. CASE c = <<status[target], rec[target]>>
    BY <1>0, <2>1, <2>2, SameCardKept DEF TypeOK
  <2>3. CASE c = <<"Corrupt", rec[target]>>
    BY <1>0, <2>1, <2>3, CutKept DEF TypeOK
  <2> QED
    BY <2>1, <2>2, <2>3 DEF Opened
<1>2. ASSUME PutTarget(Touched)
      PROVE  Kept' = Kept \/ Kept' = new
  <2>1. PutTarget(Opened) \/ PutTarget({<<"Valid", new>>})
    BY <1>2 DEF PutTarget, Touched
  <2>2. CASE PutTarget({<<"Valid", new>>})
    <3>1. /\ status' = [status EXCEPT ![target] = "Valid"]
          /\ rec' = [rec EXCEPT ![target] = new]
      <4>1. PICK c \in {<<"Valid", new>>} : /\ status' = [status EXCEPT ![target] = c[1]]
                                            /\ rec' = [rec EXCEPT ![target] = c[2]]
        BY <2>2 DEF PutTarget
      <4>2. c = <<"Valid", new>>
        BY <4>1
      <4>3. c[1] = "Valid" /\ c[2] = new
        BY <4>2
      <4> QED
        BY <4>1, <4>3
    <3> QED
      BY <1>0, <3>1, LandedKept DEF TypeOK
  <2> QED
    BY <1>1, <2>1, <2>2
<1> QED
  BY <1>1, <1>2

LEMMA InitKept ==
    ASSUME Init
    PROVE  KeptInv
BY DEF Init, KeptInv

LEMMA NextKept ==
    ASSUME IndInv, KeptInv, [Next]_vars
    PROVE  KeptInv'
<1>1. CASE Preflight
  <2>1. SUFFICES ASSUME NEW i \in Readies
                 PROVE  /\ known # NoValue
                        /\ rec[i] = known \/ IsSequenceNewer(known.seq, rec[i].seq)
    BY <1>1 DEF Preflight, diskVars, KeptInv, Readies, Valids
  <2>2. ~Blocked /\ Candidates # {} /\ hasCurrent /\ current = rec[Selected]
    BY <1>1 DEF Preflight, Preflighted, Candidates
  <2>3. current.phase = "ready"
    BY <2>2, SelectedFacts
  <2>4. known = current /\ known # NoValue
    BY <1>1, <2>2, <2>3, JournalConstants DEF Preflight, IndInv, MemoryInv, TypeOK, Writing
  <2> QED
    BY <2>2, <2>4, SelectedFacts
<1>2. CASE Open
  <2>1. TypeOK /\ target \in Slots /\ pc = "open"
    BY <1>2 DEF IndInv, TypeOK, Open
  <2>2. /\ \A i \in Slots : status'[i] \in {status[i], "Corrupt"} /\ rec'[i] = rec[i]
        /\ known' = known
    <3>1. PICK c \in Opened : /\ status' = [status EXCEPT ![target] = c[1]]
                              /\ rec' = [rec EXCEPT ![target] = c[2]]
      BY <1>2 DEF Open, PutTarget
    <3> QED
      BY <1>2, <2>1, <3>1 DEF Open, Opened, TypeOK
  <2> QED
    BY <2>1, <2>2 DEF KeptInv, Readies, Valids
<1>3. CASE UNCHANGED vars
  BY <1>3 DEF vars, diskVars, KeptInv, Readies, Valids
<1>4. CASE pc' \notin {"open", "write"}
  BY <1>4 DEF KeptInv
<1>5. ASSUME LoadState
      PROVE  pc' \notin {"open", "write"}
  BY <1>5 DEF LoadState, LoadRefused, LoadNothing, LoadSelected
<1>6. ASSUME Next, ~Preflight, ~Open
      PROVE  pc' \notin {"open", "write"}
  BY <1>5, <1>6 DEF Next, GuestChanges, FlushStateIfDirty, PreflightFails, OpenFails, Write,
     WriteFails, Readback, ReadbackFails, PowerOff, Downgrade, Fail
<1> QED
  BY <1>1, <1>2, <1>3, <1>4, <1>6

THEOREM KeptInvHolds == Spec => []KeptInv
BY InitKept, NextKept, IndInvHolds, PTL DEF Spec

\* What the cell sees of each step.
LEMMA StartRefines ==
    ASSUME IndInv, LoadState
    PROVE  Cell!CellNext \/ UNCHANGED Cell!cellVars
<1>0. /\ Kept' = Kept /\ pc = "off" /\ ~hasCurrent /\ new \in Records
      /\ Tried = NoValue /\ Memory = NoValue
  BY SameCardKept DEF LoadState, diskVars, IndInv, TypeOK, MemoryInv, Tried, Memory, Writing
<1>1. CASE LoadRefused \/ LoadNothing
  BY <1>0, <1>1 DEF LoadRefused, LoadNothing, memoryVars, Tried, Memory, Writing, Cell!cellVars
<1>2. CASE LoadSelected
  <2>1. rec[Selected] \in Records /\ ~Blocked /\ Candidates # {} /\ Selected \in Valids
    BY <1>2, SelectedFacts DEF LoadSelected, IndInv, TypeOK, Valids
  <2>2. CASE pc' = "blocked"
    BY <1>0, <2>2 DEF Tried, Memory, Writing, Cell!cellVars
  <2>3. CASE pc' = "run" /\ rec[Selected].phase = "ready"
    <3>1. Readies # {} /\ Kept = rec[Selected]
      BY <2>1, <2>3 DEF Readies, Kept
    <3>2. Memory' = Kept /\ Tried' = NoValue
      BY <1>2, <2>3, <3>1 DEF LoadSelected, Memory, Tried, Writing
    <3>3. Cell!Start
      BY <1>0, <3>2 DEF Cell!Start
    <3> QED
      BY <3>3 DEF Cell!CellNext
  <2>4. CASE pc' = "preflight" /\ rec[Selected].phase = "pending"
            /\ new' = Anchored(rec[Selected])
    <3>1. new' \in Records
      BY <2>1, <2>4, AnchoredIsRecord
    <3>2. Memory' = NoValue /\ Tried' = new'
      BY <1>2, <2>4 DEF LoadSelected, Memory, Tried, Writing
    <3>3. Cell!Try(new')
      BY <1>0, <3>2 DEF Cell!Try
    <3> QED
      BY <3>1, <3>3 DEF Cell!CellNext
  <2> QED
    BY <1>2, <2>2, <2>3, <2>4 DEF LoadSelected
<1> QED
  BY <1>0, <1>1, <1>2 DEF LoadState

\* A step that fails or cuts a write, or anything else, ends the attempt.
LEMMA StopRefines ==
    ASSUME Tried' = NoValue, Memory' \in {Memory, NoValue},
           Kept' = Kept \/ (Tried # NoValue /\ Kept' = Tried)
    PROVE  Cell!CellNext
BY DEF Cell!Stop, Cell!CellNext

\* What Fail does to the cell.
LEMMA FailStops ==
    ASSUME Fail, pc \in Writing
    PROVE  Tried' = NoValue /\ Memory' \in {Memory, NoValue}
BY DEF Fail, memoryVars, Tried, Memory, Writing

LEMMA WritesRefine ==
    ASSUME IndInv, KeptInv,
           \/ Preflight \/ PreflightFails \/ Open \/ OpenFails \/ Write \/ WriteFails
           \/ Readback \/ ReadbackFails
    PROVE  Cell!CellNext \/ UNCHANGED Cell!cellVars
<1>0. pc \in Writing /\ Tried = new /\ new \in Records /\ new # NoValue
  BY JournalConstants
  DEF IndInv, TypeOK, Tried, Writing, Preflight, PreflightFails, Open, OpenFails, Write,
      WriteFails, Readback, ReadbackFails
<1>1. CASE Preflight
  BY <1>1, SameCardKept
  DEF Preflight, diskVars, memoryVars, Tried, Memory, Writing, Cell!cellVars
<1>2. CASE PreflightFails \/ ReadbackFails
  <2>1. Kept' = Kept
    BY <1>2, SameCardKept DEF PreflightFails, ReadbackFails, diskVars
  <2> QED
    BY <1>0, <1>2, <2>1, FailStops, StopRefines DEF PreflightFails, ReadbackFails
<1>3. CASE Open
  <2>1. Kept' = Kept
    BY <1>3, TouchedKept DEF Open
  <2> QED
    BY <1>3, <2>1 DEF Open, memoryVars, writeVars, Tried, Memory, Writing, Cell!cellVars
<1>4. CASE OpenFails
  <2>1. Kept' = Kept
    BY <1>4, TouchedKept DEF OpenFails, Fail
  <2> QED
    BY <1>0, <1>4, <2>1, FailStops, StopRefines DEF OpenFails
<1>5. CASE Write
  <2>1. PutTarget(Touched)
    BY <1>5 DEF Write, PutTarget, Touched
  <2>2. Kept' = Kept \/ Kept' = new
    BY <1>5, <2>1, TouchedKept DEF Write
  <2>3. Tried' = Tried /\ Memory' = Memory
    BY <1>5 DEF Write, memoryVars, writeVars, Tried, Memory, Writing
  <2> QED
    BY <1>0, <2>2, <2>3 DEF Cell!Land, Cell!CellNext, Cell!cellVars
<1>6. CASE WriteFails
  <2>1. Kept' = Kept \/ Kept' = new
    BY <1>6, TouchedKept DEF WriteFails, Fail
  <2> QED
    BY <1>0, <1>6, <2>1, FailStops, StopRefines DEF WriteFails
<1>7. CASE Readback
  <2>1. Kept' = Kept /\ Kept = new
    BY <1>7, SameCardKept, VerifiedKept DEF Readback, diskVars
  <2>2. new.phase = "ready"
    BY <1>0 DEF IndInv, WriteInv
  <2>3. Tried' = NoValue /\ Memory' = new
    BY <1>7, <2>2 DEF Readback, Tried, Memory, Writing
  <2> QED
    BY <1>0, <2>1, <2>3 DEF Cell!Succeed, Cell!CellNext
<1> QED
  BY <1>1, <1>2, <1>3, <1>4, <1>5, <1>6, <1>7

LEMMA PowerOffRefines ==
    ASSUME IndInv, KeptInv, PowerOff
    PROVE  Cell!CellNext
<1>1. Tried' = NoValue /\ Memory' = NoValue
  BY DEF PowerOff, Tried, Memory, Writing
<1>2. CASE pc \in {"open", "write"}
  <2>1. PutTarget(Touched)
    BY <1>2, OpenIsTouch DEF PowerOff
  <2>2. Kept' = Kept \/ Kept' = new
    BY <1>2, <2>1, TouchedKept DEF PowerOff
  <2>3. Tried = new /\ new # NoValue
    BY <1>2, JournalConstants DEF Tried, Writing, IndInv, TypeOK
  <2> QED
    BY <1>1, <2>2, <2>3, StopRefines
<1>3. CASE pc \notin {"open", "write"}
  <2>1. Kept' = Kept
    BY <1>3, SameCardKept DEF PowerOff, diskVars
  <2> QED
    BY <1>1, <2>1, StopRefines
<1> QED
  BY <1>2, <1>3

LEMMA StepsRefine ==
    ASSUME IndInv, KeptInv, [Next]_vars
    PROVE  [Cell!CellNext]_(Cell!cellVars)
<1>1. CASE LoadState
  BY <1>1, StartRefines
<1>2. ASSUME NEW d \in Data, GuestChanges(d)
      PROVE  UNCHANGED Cell!cellVars
  BY <1>2, SameCardKept
  DEF GuestChanges, diskVars, writeVars, Tried, Memory, Writing, Cell!cellVars
<1>3. CASE FlushStateIfDirty
  <2>1. new' = NextRecord /\ NextRecord \in Records
    BY <1>3, NextRecordFollows DEF FlushStateIfDirty
  <2>2. /\ Tried = NoValue /\ Tried' = new'
        /\ Kept' = Kept /\ Memory' = Memory
    BY <1>3, SameCardKept DEF FlushStateIfDirty, diskVars, memoryVars, Tried, Memory, Writing
  <2> QED
    BY <2>1, <2>2 DEF Cell!Try, Cell!CellNext
<1>4. CASE \/ Preflight \/ PreflightFails \/ Open \/ OpenFails \/ Write \/ WriteFails
           \/ Readback \/ ReadbackFails
  BY <1>4, WritesRefine
<1>5. CASE PowerOff
  BY <1>5, PowerOffRefines
<1>6. CASE Downgrade
  BY <1>6, SameCardKept
  DEF Downgrade, memoryVars, writeVars, Tried, Memory, Writing, Cell!cellVars
<1>7. CASE UNCHANGED vars
  BY <1>7, SameCardKept
  DEF vars, diskVars, memoryVars, writeVars, Tried, Memory, Writing, Cell!cellVars
<1> QED
  BY <1>1, <1>2, <1>3, <1>4, <1>5, <1>6, <1>7 DEF Next

\* Three files on a card that loses power, fails and lies are one value that
\* survives: a start finds what was last stored, or what was being stored.
THEOREM Refinement == Spec => ImplementsDurableCell
<1>1. Init => Cell!CellInit
  <2> SUFFICES ASSUME Init
               PROVE  Cell!CellInit
    OBVIOUS
  <2>1. Kept \in Records \union {NoValue}
    BY InitInv, SelectedFacts DEF Kept, IndInv, TypeOK, Valids, Candidates
  <2>2. Tried = NoValue /\ Memory = NoValue
    BY DEF Init, Tried, Memory, Writing
  <2> QED
    BY <2>1, <2>2 DEF Cell!CellInit
<1> QED
  BY <1>1, IndInvHolds, KeptInvHolds, StepsRefine, PTL
  DEF Spec, ImplementsDurableCell, Cell!CellSpec

-----------------------------------------------------------------------------
(* The selection is what it is meant to be.                                  *)

\* On one half circle the unsigned difference is the distance along it.
LEMMA ArcDistance ==
    ASSUME NEW a \in Sequences, NEW b \in Sequences, NEW s \in Sequences,
           Behind(a, s) < Half, Behind(b, s) < Half
    PROVE  /\ Behind(a, s) \in 0 .. Half - 1
           /\ Behind(a, b) = IF Behind(a, s) >= Behind(b, s)
                             THEN Behind(a, s) - Behind(b, s)
                             ELSE Behind(a, s) - Behind(b, s) + 2 * Half
           /\ a = b <=> Behind(a, s) = Behind(b, s)
BY JournalConstants DEF Sequences, Behind

\* Every number whose difference from the last one is small lies on the arc that
\* ends with it.
LEMMA ArcBeforeLast ==
    ASSUME NEW last \in Sequences
    PROVE  \E s \in Sequences : \A a \in Sequences :
               Behind(last, a) < Half => Behind(a, s) < Half
<1> DEFINE s == IF last >= Half - 1 THEN last - (Half - 1) ELSE last + Half + 1
<1>1. s \in Sequences
  BY JournalConstants DEF Sequences
<1>2. \A a \in Sequences : Behind(last, a) < Half => Behind(a, s) < Half
  BY JournalConstants DEF Sequences, Behind
<1> QED BY <1>1, <1>2

LEMMA FarthestExists ==
    ASSUME NEW S \in SUBSET Slots, S # {}, NEW d, \A i \in S : d[i] \in Int
    PROVE  \E i \in S : \A j \in S : d[j] <= d[i]
<1>1. \A i \in S : i \in {0, 1, 2}
  BY DEF Slots
<1> QED BY <1>1

\* The loops of SelectModern find the last record of the arc on which they lie,
\* and refuse exactly the journals without one (RomGpioRtc.cpp, SelectModern).
THEOREM SelectionIsRight == Spec => []SelectsTheNewest
<1>1. TypeOK => SelectsTheNewest
  <2> SUFFICES ASSUME TypeOK, Candidates # {}
               PROVE  /\ Ordered <=> \E s \in Sequences : OnArc(s)
                      /\ Ordered => \A s \in Sequences : OnArc(s) => LastOnArc(s, Selected)
    BY DEF SelectsTheNewest
  <2>1. Candidates \in SUBSET Slots /\ \A i \in Candidates : rec[i].seq \in Sequences
    BY DEF TypeOK, Candidates, Readies, Valids, Records
  <2>2. ASSUME Ordered PROVE \E s \in Sequences : OnArc(s)
    <3>1. PICK i \in Candidates : Dominates(i)
      BY <2>2 DEF Ordered
    <3>2. PICK s \in Sequences : \A a \in Sequences :
              Behind(rec[i].seq, a) < Half => Behind(a, s) < Half
      BY <2>1, ArcBeforeLast
    <3>3. ASSUME NEW j \in Candidates PROVE Behind(rec[j].seq, s) < Half
      <4>1. rec[i].seq = rec[j].seq => Behind(rec[i].seq, rec[j].seq) = 0
        BY <2>1 DEF Behind, Sequences
      <4>2. Behind(rec[i].seq, rec[j].seq) < Half
        BY <3>1, <4>1, JournalConstants DEF Dominates, IsSequenceNewer
      <4> QED BY <2>1, <3>2, <4>2
    <3>4. \A k, j \in Candidates : rec[k].seq = rec[j].seq => rec[k] = rec[j]
      BY <2>2 DEF Ordered, Disagree
    <3> QED BY <3>3, <3>4 DEF OnArc
  <2>3. ASSUME NEW s \in Sequences, OnArc(s) PROVE Ordered
    <3>1. ASSUME NEW i \in Candidates, NEW j \in Candidates PROVE ~Disagree(i, j)
      <4>1. Behind(rec[i].seq, s) < Half /\ Behind(rec[j].seq, s) < Half
        BY <2>3 DEF OnArc
      <4>2. Behind(rec[i].seq, rec[j].seq) # Half
        BY <2>1, <4>1, ArcDistance, JournalConstants
      <4> QED BY <2>3, <4>2 DEF Disagree, OnArc
    <3> DEFINE d == [i \in Candidates |-> Behind(rec[i].seq, s)]
    <3>2. \A i \in Candidates : d[i] \in Int
      BY <2>1, JournalConstants DEF Behind, Sequences
    <3>3. PICK i \in Candidates : \A j \in Candidates : d[j] <= d[i]
      <4> HIDE DEF d
      <4> QED BY <2>1, <3>2, FarthestExists
    <3>4. ASSUME NEW j \in Candidates
          PROVE  rec[i].seq = rec[j].seq \/ IsSequenceNewer(rec[i].seq, rec[j].seq)
      <4>1. Behind(rec[i].seq, s) < Half /\ Behind(rec[j].seq, s) < Half
        BY <2>3 DEF OnArc
      <4>2. Behind(rec[j].seq, s) <= Behind(rec[i].seq, s)
        BY <3>3
      <4> QED BY <2>1, <4>1, <4>2, ArcDistance, JournalConstants DEF IsSequenceNewer
    <3> QED BY <3>1, <3>4 DEF Ordered, Dominates
  <2>4. ASSUME Ordered, NEW s \in Sequences, OnArc(s) PROVE LastOnArc(s, Selected)
    <3>1. Selected \in Candidates /\ Dominates(Selected)
      <4>1. {i \in Candidates : Dominates(i)} # {}
        BY <2>4 DEF Ordered
      <4> QED BY <2>1, <4>1, LeastIsIn DEF Selected
    <3>2. ASSUME NEW j \in Candidates
          PROVE  Behind(rec[j].seq, s) <= Behind(rec[Selected].seq, s)
      <4>1. Behind(rec[Selected].seq, s) < Half /\ Behind(rec[j].seq, s) < Half
        BY <2>4, <3>1 DEF OnArc
      <4>2. \/ rec[Selected].seq = rec[j].seq
            \/ Behind(rec[Selected].seq, rec[j].seq) \in 1 .. Half - 1
        BY <3>1 DEF Dominates, IsSequenceNewer
      <4> QED BY <2>1, <3>1, <4>1, <4>2, ArcDistance, JournalConstants
    <3> QED BY <3>2 DEF LastOnArc
  <2> QED BY <2>2, <2>3, <2>4
<1>2. IndInv => TypeOK
  BY DEF IndInv
<1> QED BY <1>1, <1>2, IndInvHolds, PTL
=============================================================================
