----------------------------- MODULE RtcJournal -----------------------------
(***************************************************************************)
(* The journal that keeps the game's clock (Peripherals/RomGpio/            *)
(* RomGpioRtc.cpp, RtcPersistence.h).  Three files, the slots, each hold a  *)
(* record with a sequence number of 32 bits that wraps; a start selects the *)
(* newest one, and a write goes to a slot that is not the selected one and  *)
(* is read back.  Beside them lie the three files of an older program, the  *)
(* legacy state, which this one reads and never writes: each record carries *)
(* the legacy state it continues, and must match it.  A "pending" record    *)
(* comes from an offline tool; the first start turns it into a ready one.   *)
(*                                                                         *)
(* The power may go at any moment, an open, a write or a read may fail, and *)
(* the card may accept a write that it does not keep.  A record stands for  *)
(* all its 200 bytes; checksums and header checks give the slot's status.   *)
(***************************************************************************)
EXTENDS Integers

CONSTANTS
    Half,        \* half the range of a sequence number, 2^31 in the code
    Data,        \* states of the clock
    Legacy,      \* legacy states, "none" among them when there is no file
    Files,       \* the records a card may hold before the first start; ValidateV2
                 \* accepts a pending one only with the number 0
    Faults,      \* which operations may fail: "read", "write", "lost"
    MaxWrites,   \* bound: records the program starts to write
    MaxCuts,     \* bound: starts of the program
    NoValue      \* no record

Sequences == 0 .. 2 * Half - 1
Phases == {"pending", "ready"}
Records == [seq: Sequences, phase: Phases, lineage: Legacy, data: Data]

ASSUME JournalConstants ==
    /\ Half \in Nat /\ Half > 2
    /\ Data # {}
    /\ "none" \in Legacy /\ "broken" \notin Legacy
    /\ Files \subseteq Records
    /\ \A r \in Files : r.phase = "pending" => r.seq = 0
    /\ Faults \subseteq {"read", "write", "lost"}
    /\ MaxWrites \in Nat
    /\ MaxCuts \in Nat
    /\ NoValue \notin Records

VARIABLES
    status,      \* what ReadModernStateFile finds in a slot
    rec,         \* the record in a slot that is Valid
    legacy,      \* the legacy state on the card
    pc,          \* where the program is
    current,     \* _currentRecord
    hasCurrent,  \* _hasCurrent
    dirty,       \* _stateDirty
    clock,       \* the clock's registers, as a flush would record them
    new,         \* the record being written, sRtcWriteBuffer
    target,      \* the slot it goes to
    known,       \* history: the ready record the program last relied on
    found,       \* history: the status of the slots at the last start
    writes,      \* how many writes were started
    cuts         \* how many times the program was started

diskVars == <<status, rec, legacy>>
memoryVars == <<current, hasCurrent, dirty, clock>>
writeVars == <<new, target>>
vars == <<diskVars, pc, memoryVars, writeVars, known, found, writes, cuts>>

Slots == 0 .. 2
Statuses == {"Missing", "Corrupt", "Foreign", "Valid"}
Writing == {"preflight", "open", "write", "readback"}

-----------------------------------------------------------------------------
(* The order of the records, and the one to select.                         *)

\* The unsigned difference a - b of two sequence numbers.
Behind(a, b) == IF a >= b THEN a - b ELSE a - b + 2 * Half

\* Mutant: sequence numbers are compared as unsigned integers.
NewerUnwrapped(candidate, selected) == candidate > selected

\* The difference is positive as a signed integer.
IsSequenceNewer(candidate, selected) == Behind(candidate, selected) \in 1 .. Half - 1

NextSequence(s) == IF s = 2 * Half - 1 THEN 0 ELSE s + 1

Least(S) == CHOOSE i \in S : \A j \in S : i <= j

Valids == {i \in Slots : status[i] = "Valid"}
Readies == {i \in Valids : rec[i].phase = "ready"}

\* A ready record wins over any pending one.
Candidates == IF Readies = {} THEN Valids ELSE Readies

Dominates(i) ==
    \A j \in Candidates :
        rec[i].seq = rec[j].seq \/ IsSequenceNewer(rec[i].seq, rec[j].seq)

\* Two records between which there is no order.
Disagree(i, j) ==
    \/ rec[i].seq = rec[j].seq /\ rec[i] # rec[j]
    \/ Behind(rec[i].seq, rec[j].seq) = Half

\* ScanModern and SelectModern refuse the journal.
Blocked ==
    \/ \E i \in Slots : status[i] = "Foreign"
    \/ \E i, j \in Valids : rec[i].lineage # rec[j].lineage
    \/ Readies = {} /\ \E i \in Slots : status[i] = "Corrupt"
    \/ \E i, j \in Candidates : Disagree(i, j)
    \/ Candidates # {} /\ ~\E i \in Candidates : Dominates(i)

\* SelectModern's choice in a journal that is not Blocked and not empty.
Selected == Least({i \in Candidates : Dominates(i)})

-----------------------------------------------------------------------------
(* Starting.                                                                *)

FreshRecord(d) == [seq |-> 0, phase |-> "ready", lineage |-> "none", data |-> d]

\* A pending record becomes ready, anchored to the present time.
Anchored(r) == [r EXCEPT !.seq = 1, !.phase = "ready"]

\* A slot cannot be read, or the records do not agree.
LoadRefused ==
    /\ "read" \in Faults \/ legacy = "broken" \/ Blocked
    /\ pc' = "blocked"
    /\ UNCHANGED <<memoryVars, new, known, writes>>

\* No record: the clock of the console, unless the older program left a state.
LoadNothing ==
    /\ legacy # "broken" /\ ~Blocked /\ Candidates = {}
    /\ pc' = IF legacy = "none" THEN "run" ELSE "blocked"
    /\ clock' \in Data
    /\ UNCHANGED <<current, hasCurrent, dirty, new, known, writes>>

\* The selected record; a pending one is written back, anchored.
LoadSelected ==
    /\ legacy # "broken" /\ ~Blocked /\ Candidates # {}
    /\ current' = rec[Selected]
    /\ hasCurrent' = TRUE
    /\ clock' = rec[Selected].data
    /\ known' = IF rec[Selected].phase = "ready" THEN rec[Selected] ELSE known
    /\ \/ /\ rec[Selected].lineage # legacy
          /\ pc' = "blocked"
          /\ UNCHANGED <<dirty, new, writes>>
       \/ /\ rec[Selected].lineage = legacy /\ rec[Selected].phase = "ready"
          /\ pc' = "run"
          /\ dirty' \in BOOLEAN
          /\ UNCHANGED <<new, writes>>
       \/ /\ rec[Selected].lineage = legacy /\ rec[Selected].phase = "pending"
          /\ writes < MaxWrites
          /\ writes' = writes + 1
          /\ new' = Anchored(rec[Selected])
          /\ pc' = "preflight"
          /\ UNCHANGED dirty

\* Initialize and LoadState up to the write of an anchored record.
LoadState ==
    /\ pc = "off" /\ cuts < MaxCuts
    /\ cuts' = cuts + 1
    /\ found' = status
    /\ LoadRefused \/ LoadNothing \/ LoadSelected
    /\ UNCHANGED <<diskVars, target>>

-----------------------------------------------------------------------------
(* Running, and writing a record.                                           *)

\* A change by the guest: MarkStateDirty.
GuestChanges(d) ==
    /\ pc = "run"
    /\ clock' = d
    /\ dirty' = TRUE
    /\ UNCHANGED <<diskVars, pc, current, hasCurrent, writeVars, known, found, writes, cuts>>

\* The record FlushStateIfDirty writes next.
NextRecord ==
    IF hasCurrent
    THEN [current EXCEPT !.seq = NextSequence(current.seq), !.data = clock]
    ELSE FreshRecord(clock)

\* FlushStateIfDirty up to its call of WriteStateFile.
FlushStateIfDirty ==
    /\ pc = "run" /\ dirty
    /\ writes < MaxWrites
    /\ writes' = writes + 1
    /\ new' = NextRecord
    /\ pc' = "preflight"
    /\ UNCHANGED <<diskVars, memoryVars, target, known, found, cuts>>

\* A write fails for good: at the start the game does not run, later it stops.
Fail ==
    /\ pc' = IF hasCurrent /\ current.phase = "pending" THEN "blocked" ELSE "fault"
    /\ UNCHANGED <<memoryVars, writeVars, known, found, writes, cuts>>

\* The records that would not be older than the new one.
Colliding == {i \in Readies : ~IsSequenceNewer(new.seq, rec[i].seq)}
Others == IF hasCurrent THEN Valids \ {Selected} ELSE Valids
Pendings == {i \in Others : rec[i].phase = "pending"}
Missing == {i \in Slots : status[i] = "Missing"}

Oldest(S) == {i \in S : \A j \in S : ~IsSequenceNewer(rec[i].seq, rec[j].seq)}

\* Mutant: the selected record is overwritten when nothing else is left.
TargetsAnything ==
    IF Missing # {} THEN Missing ELSE IF Others # {} THEN Oldest(Others) ELSE Valids

\* Mutant: a corrupt slot is as good as a missing one.
TargetsDamaged ==
    IF Missing # {} THEN Missing
    ELSE {i \in Slots : status[i] = "Corrupt"} \union Oldest(Others)

\* Mutant: the records that stay are not compared with the new one.
TargetsUncompared == IF Missing # {} THEN Missing ELSE Oldest(Others)

\* Mutant: a pending record is replaced in place.
TargetsConsent ==
    IF hasCurrent /\ current.phase = "pending" THEN {Selected}
    ELSE IF Missing # {} THEN Missing ELSE Oldest(Others)

\* The slots WriteStateFile may use, of which it takes the first.
Targets ==
    IF Colliding # {} THEN {i \in Others : Colliding = {i}}
    ELSE IF Missing # {} THEN Missing
    ELSE IF Pendings # {} THEN Pendings
    ELSE Oldest(Others)

\* The checks of WriteStateFile before it opens a file.
Preflighted ==
    /\ legacy # "broken" /\ new.lineage = legacy
    /\ ~Blocked
    /\ hasCurrent = (Candidates # {})
    /\ hasCurrent => current = rec[Selected]
    /\ Targets # {}

Preflight ==
    /\ pc = "preflight"
    /\ Preflighted
    /\ target' = Least(Targets)
    /\ pc' = "open"
    /\ UNCHANGED <<diskVars, memoryVars, new, known, found, writes, cuts>>

PreflightFails ==
    /\ pc = "preflight"
    /\ ~Preflighted \/ "read" \in Faults
    /\ Fail
    /\ UNCHANGED diskVars

\* A slot that was opened is as it was, or cut to nothing.
Opened == {<<status[target], rec[target]>>, <<"Corrupt", rec[target]>>}

\* A slot that was being written may have the record too.
Touched == Opened \union {<<"Valid", new>>}

\* The target's slot becomes one of the contents.
PutTarget(contents) ==
    /\ \E c \in contents :
        /\ status' = [status EXCEPT ![target] = c[1]]
        /\ rec' = [rec EXCEPT ![target] = c[2]]
    /\ UNCHANGED legacy

Open ==
    /\ pc = "open"
    /\ PutTarget(Opened)
    /\ pc' = "write"
    /\ UNCHANGED <<memoryVars, writeVars, known, found, writes, cuts>>

OpenFails ==
    /\ pc = "open" /\ "write" \in Faults
    /\ PutTarget(Opened)
    /\ Fail

\* f_write, f_sync and f_close all succeed.
Write ==
    /\ pc = "write"
    /\ PutTarget(IF "lost" \in Faults THEN Touched ELSE {<<"Valid", new>>})
    /\ pc' = "readback"
    /\ UNCHANGED <<memoryVars, writeVars, known, found, writes, cuts>>

WriteFails ==
    /\ pc = "write" /\ "write" \in Faults
    /\ PutTarget(Touched)
    /\ Fail

\* Mutant: the record is not compared with what was to be written.
AnyValid == status[target] = "Valid"

\* The read-back finds the record.
Verified == status[target] = "Valid" /\ rec[target] = new

\* The end of WriteStateFile and of its caller.
Readback ==
    /\ pc = "readback" /\ Verified
    /\ current' = new
    /\ hasCurrent' = TRUE
    /\ dirty' \in IF hasCurrent /\ current.phase = "pending" THEN BOOLEAN ELSE {FALSE}
    /\ known' = new
    /\ pc' = "run"
    /\ UNCHANGED <<diskVars, clock, writeVars, found, writes, cuts>>

ReadbackFails ==
    /\ pc = "readback"
    /\ ~Verified \/ "read" \in Faults
    /\ Fail
    /\ UNCHANGED diskVars

-----------------------------------------------------------------------------
(* The environment.                                                         *)

\* The power goes, perhaps within a write.
PowerOff ==
    /\ pc # "off"
    /\ pc' = "off"
    /\ hasCurrent' = FALSE
    /\ dirty' = FALSE
    /\ CASE pc = "write" -> PutTarget(Touched)
         [] pc = "open" -> PutTarget(Opened)
         [] OTHER -> UNCHANGED diskVars
    /\ UNCHANGED <<current, clock, writeVars, known, found, writes, cuts>>

\* Meanwhile the older program runs, and changes its own files.
Downgrade ==
    /\ pc = "off"
    /\ legacy' \in Legacy \union {"broken"}
    /\ UNCHANGED <<status, rec, pc, memoryVars, writeVars, known, found, writes, cuts>>

AnyRecord == FreshRecord(CHOOSE d \in Data : TRUE)

\* Any three files a user may have left on the card.
Init ==
    /\ \E disk \in [Slots -> {<<s, AnyRecord>> : s \in Statuses \ {"Valid"}}
                             \union {<<"Valid", r>> : r \in Files}] :
        /\ status = [i \in Slots |-> disk[i][1]]
        /\ rec = [i \in Slots |-> disk[i][2]]
    /\ legacy \in Legacy
    /\ pc = "off"
    /\ current = AnyRecord
    /\ hasCurrent = FALSE
    /\ dirty = FALSE
    /\ clock = AnyRecord.data
    /\ new = AnyRecord
    /\ target = 0
    /\ known = NoValue
    /\ found = status
    /\ writes = 0
    /\ cuts = 0

Next ==
    \/ LoadState
    \/ \E d \in Data : GuestChanges(d)
    \/ FlushStateIfDirty
    \/ Preflight
    \/ PreflightFails
    \/ Open
    \/ OpenFails
    \/ Write
    \/ WriteFails
    \/ Readback
    \/ ReadbackFails
    \/ PowerOff
    \/ Downgrade

Spec == Init /\ [][Next]_vars

-----------------------------------------------------------------------------
(* Properties.                                                              *)

\* Every variable keeps to the values its C type and use allow.
TypeOK ==
    /\ status \in [Slots -> Statuses]
    /\ rec \in [Slots -> Records]
    /\ legacy \in Legacy \union {"broken"}
    /\ pc \in {"off", "run", "blocked", "fault"} \union Writing
    /\ current \in Records
    /\ hasCurrent \in BOOLEAN
    /\ dirty \in BOOLEAN
    /\ clock \in Data
    /\ new \in Records
    /\ target \in Slots
    /\ known \in Records \union {NoValue}
    /\ found \in [Slots -> Statuses]
    /\ writes \in 0 .. MaxWrites
    /\ cuts \in 0 .. MaxCuts

\* The candidates lie on the half circle of sequence numbers that begins at s,
\* and equal numbers mean equal records.
OnArc(s) ==
    /\ \A i \in Candidates : Behind(rec[i].seq, s) < Half
    /\ \A i, j \in Candidates : rec[i].seq = rec[j].seq => rec[i] = rec[j]

LastOnArc(s, i) == \A j \in Candidates : Behind(rec[j].seq, s) <= Behind(rec[i].seq, s)

\* What SelectModern tests.
Ordered ==
    /\ ~\E i, j \in Candidates : Disagree(i, j)
    /\ \E i \in Candidates : Dominates(i)

\* The loops of SelectModern compute what they are meant to: there is a choice
\* exactly when the candidates lie within less than half the range of the
\* sequence numbers and equal numbers mean equal records, and the choice is
\* then the last one on that arc.
SelectsTheNewest ==
    Candidates # {} =>
        /\ Ordered <=> \E s \in Sequences : OnArc(s)
        /\ Ordered => \A s \in Sequences : OnArc(s) => LastOnArc(s, Selected)

\* While a record is being written, the record it follows stays intact in
\* another slot ("at least the previous selected valid record survives every
\* attempted write", rtc-legacy-compatibility.md:131).
SelectedSurvives ==
    pc \in Writing /\ hasCurrent =>
        \E i \in Slots : /\ status[i] = "Valid" /\ rec[i] = current
                         /\ pc # "preflight" => i # target

\* Once the program has relied on a ready record, every later start finds a
\* journal that is not blocked, and in it that record or its successor: no
\* power cut, failing write or wrap of the numbers brings an older clock back.
RestartRecovers ==
    known # NoValue =>
        /\ ~Blocked
        /\ Readies # {}
        /\ \/ rec[Selected] = known
           \/ rec[Selected].seq = NextSequence(known.seq)

\* A flush that reports success has the game's clock on the card.
CleanIsKept ==
    pc = "run" /\ hasCurrent /\ ~dirty =>
        clock = current.data /\ \E i \in Slots : status[i] = "Valid" /\ rec[i] = current

\* A slot that the start found damaged, or belonging to something else, stays
\* as it was found ("known corrupt slots are preserved",
\* rtc-legacy-compatibility.md:100).
DamageIsPreserved ==
    \A i \in Slots : pc # "off" /\ found[i] \in {"Corrupt", "Foreign"} => status[i] = found[i]

\* Why a start recovers: the known record is in a slot, nothing but its
\* successor is newer, and the ready records are in order.
KnownInv ==
    known # NoValue =>
        /\ known.phase = "ready"
        /\ \A i \in Slots : status[i] # "Foreign"
        /\ \A i \in Valids : rec[i].lineage = known.lineage
        /\ \E i \in Readies : rec[i] = known
        /\ \A i, j \in Readies : ~Disagree(i, j)
        /\ \A i \in Readies :
            \/ rec[i] = known
            \/ IsSequenceNewer(known.seq, rec[i].seq)
            \/ rec[i].seq = NextSequence(known.seq) /\ Dominates(i)

\* What the memory holds is what the card holds.
MemoryInv ==
    /\ pc = "off" => ~hasCurrent /\ ~dirty
    /\ pc = "run" /\ hasCurrent => current.phase = "ready"
    /\ pc \in {"run"} \union Writing =>
        /\ known # NoValue => hasCurrent /\ current = known
        /\ hasCurrent /\ current.phase = "ready" => known = current
        /\ legacy # "broken"
    /\ pc \in {"run", "preflight"} /\ hasCurrent => \E i \in Valids : rec[i] = current
    /\ \A i \in Valids : rec[i].phase = "pending" => rec[i].seq = 0

\* What is written may join the slots that are not its target.
WriteInv ==
    /\ pc \in Writing =>
        /\ new.phase = "ready" /\ new.data = clock
        /\ hasCurrent /\ current.phase = "ready" => new.seq = NextSequence(current.seq)
        /\ hasCurrent => new.lineage = current.lineage
    /\ pc \in {"open", "write", "readback"} =>
        /\ found[target] \notin {"Corrupt", "Foreign"}
        /\ new.lineage = legacy
        /\ \A i \in Slots : status[i] # "Foreign"
        /\ \A i \in Valids \ {target} : rec[i].lineage = new.lineage
        /\ \A i \in Readies \ {target} : IsSequenceNewer(new.seq, rec[i].seq)
        /\ \A i, j \in Readies \ {target} : ~Disagree(i, j)
        /\ hasCurrent => \E i \in Valids \ {target} : rec[i] = current
        /\ target \in Valids /\ rec[target].phase = "pending" =>
            hasCurrent /\ (current.phase = "pending" => rec[target] = current)

\* Until the new record lands, a start selects the one it follows: no slot that
\* may be opened holds a record newer than that.
KeptInv ==
    pc \in {"open", "write"} =>
        \A i \in Readies :
            known # NoValue /\ (rec[i] = known \/ IsSequenceNewer(known.seq, rec[i].seq))

\* The inductive invariant.
IndInv ==
    /\ TypeOK /\ KnownInv /\ MemoryInv /\ WriteInv
    /\ SelectedSurvives /\ CleanIsKept /\ DamageIsPreserved

\* The consent in a pending record is given up only when a ready record that
\* continues it is in another slot (rtc-legacy-compatibility.md:125).
PendingIsKept ==
    [][\A i \in Slots :
            /\ status[i] = "Valid" /\ rec[i].phase = "pending"
            /\ status'[i] # "Valid" \/ rec'[i] # rec[i]
            => \E j \in Slots \ {i} : /\ status[j] = "Valid"
                                      /\ \/ rec[j] = rec[i]
                                         \/ rec[j].phase = "ready" /\ rec[j].lineage = rec[i].lineage]_vars

\* The journal is a durable cell: the value kept is the ready record that a
\* start would select.
Kept == IF ~Blocked /\ Readies # {} THEN rec[Selected] ELSE NoValue
Tried == IF pc \in Writing THEN new ELSE NoValue
Memory ==
    IF pc \notin {"off", "blocked"} /\ hasCurrent /\ current.phase = "ready"
    THEN current ELSE NoValue

Cell == INSTANCE DurableCell WITH
    CellValues <- Records, NoValue <- NoValue, kept <- Kept, tried <- Tried, memory <- Memory

\* The journal implements the cell.
ImplementsDurableCell == Cell!CellSpec

=============================================================================
