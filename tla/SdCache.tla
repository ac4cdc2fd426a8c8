------------------------------- MODULE SdCache -------------------------------
(***************************************************************************)
(* The cache of ROM blocks of GBARunner3 (SdCache/SdCache.c): a ROM that    *)
(* does not fit in memory is read from the card a block at a time into a    *)
(* small array of cache blocks with random replacement.                     *)
(*                                                                         *)
(* Two contexts read it.  "main" is the code of the hypervisor and its      *)
(* immediate DMA; while it waits for the card, and during a whole DMA of    *)
(* channel 3, it leaves interrupts enabled.  "irq" is a handler that copies *)
(* from the ROM (H-blank, V-blank and sound DMA): it runs with interrupts   *)
(* masked and to completion, so it finds main's fetch outstanding and       *)
(* finishes it for main.                                                    *)
(*                                                                         *)
(* The transactions underneath are those of FsIpc; here an outstanding one  *)
(* is a token that the ARM7 completes, well or badly.  The build has no     *)
(* yielding (GBAR3_IRQ_YIELDING is off), so main is never inside the cache  *)
(* twice.                                                                   *)
(*                                                                         *)
(* Code of the guest runs from the blocks too.  JIT rewrites instructions   *)
(* in the block and sets a bit for each; the CPU fetches them through       *)
(* locked lines of the instruction cache (hicode), which are a copy.  One   *)
(* bit here stands for the bits of a block: some instruction was patched.   *)
(***************************************************************************)
EXTENDS Integers, FiniteSets

CONSTANTS
    LastRom,     \* ROM blocks are 0..LastRom
    LastCache,   \* cache blocks are 0..LastCache
    OutOfFile,   \* the ROM blocks past the end of the file
    MaxPatched,  \* bound: blocks that are loaded permanently at boot
    MaxDma,      \* bound: blocks one DMA reads
    Code,        \* bound: the ROM blocks the guest executes
    None

ASSUME SdConstants ==
    /\ LastRom \in Nat
    /\ LastCache \in Nat
    /\ MaxPatched \in Nat
    /\ MaxDma \in Nat
    /\ LastCache > MaxPatched
    /\ OutOfFile \subseteq 0 .. LastRom
    /\ Code \subseteq 0 .. LastRom
    /\ None \notin Int \union {"main", "irq"}

VARIABLES
    romToCache,  \* sdc_romBlockToCacheBlock
    cacheToRom,  \* sCacheBlockToRomBlock
    content,     \* what is in sdc_cache: a whole ROM block, or None for rubbish
    blockCount,  \* sBlockCount
    tabu,        \* sTabuBlocks
    tabuLevel,   \* sTabuLevel
    fetch,       \* sCurrentFetch; its token is named by the context it is in
    forbidden,   \* gSdCacheIrqForbiddenRomBlockReplacementRange
    alias,       \* the cache block hicode lines are mapped from
    jitBits,     \* dynamicRomJitBits: blocks with an instruction marked as patched
    rewritten,   \* history: blocks JIT has written into since they were filled
    stale,       \* history: the mapped lines are older than the memory they copy
    booting,     \* patches are being applied, no interrupt is enabled yet
    pc,          \* where each context is
    op,          \* what main reads for
    want,        \* the ROM block each context asked for
    slot,        \* the cache block of its fetch, then of the pointer it holds
    token,       \* the result of its transaction
    patched,     \* history: cache blocks the patcher has written into
    lateHit      \* history: main's pointer is one that loadRomBlock found
                 \* mapped and did not load itself

codeVars == <<jitBits, rewritten, stale>>
contextVars == <<pc, op, want, slot, token>>
vars == <<romToCache, cacheToRom, content, blockCount, tabu, tabuLevel, fetch,
          forbidden, alias, codeVars, booting, contextVars, patched, lateHit>>

Ctx == {"main", "irq"}
RomBlocks == 0 .. LastRom
CacheBlocks == 0 .. LastCache
NoFetch == [romBlock |-> None, cacheBlock |-> None, token |-> None]

\* sdc_storageFault masks interrupts and never returns.
Faulted == \E c \in Ctx : pc[c] = "fault"

\* Main holds interrupts masked outside its calls; a handler runs to
\* completion, and none runs during boot.
MayRun(c) ==
    /\ ~Faulted
    /\ c = "main" => pc["irq"] = "idle"
    /\ c = "irq" => ~booting

-----------------------------------------------------------------------------
(* Operators of SdCache.c.                                                  *)

\* Mutant: permanent blocks are not excluded.
VictimsOfWholeCache == CacheBlocks \ {tabu[0]}

\* The blocks getBlockToReplace can draw.  The second tabu block has a role
\* only at a level the build without yielding does not reach.
Victims ==
    LET taken == Cardinality({i \in 0 .. 1 : (i = 0 \/ tabuLevel > 0) /\ tabu[i] # None})
        maxPlusOne == blockCount - taken
        Substitute(b) ==
            IF b = tabu[0] THEN maxPlusOne
            ELSE IF tabuLevel > 0 /\ b = tabu[1] THEN maxPlusOne + 1 ELSE b
    IN {Substitute(b) : b \in 0 .. (maxPlusOne - 1)}

\* Mutant: a handler replaces any block.
ReplaceableByAnyone(c, m, b) == TRUE

\* Mutant: a handler replaces nothing at all while a DMA is suspended.
ReplaceableLater(c, m, b) == c = "irq" => forbidden = {}

\* A handler draws again while the block is one a suspended DMA reads.
Replaceable(c, m, b) == c = "irq" => m.cacheToRom[b] \notin forbidden

\* Mutant: the bits of the ROM block that was there before stay.
KeptBits(bits, b) == bits

\* jit_resetDynamicRomBlock: nothing of what is in b now is patched.
FreshBits(bits, b) == bits \ {b}

\* Mutant: the block that held r before keeps its claim to it.
PublishOver(m, r, b) ==
    [romToCache |-> [m.romToCache EXCEPT ![r] = b],
     cacheToRom |-> [m.cacheToRom EXCEPT ![b] = r],
     alias |-> m.alias,
     jitBits |-> FreshBits(m.jitBits, b)]

\* publishCacheBlock, on maps m of the two tables.
Publish(m, r, b) ==
    LET previous == m.romToCache[r] IN
    [romToCache |-> [m.romToCache EXCEPT ![r] = b],
     cacheToRom |-> [x \in CacheBlocks |->
                        IF x = b THEN r
                        ELSE IF x = previous THEN None ELSE m.cacheToRom[x]],
     alias |-> IF previous # None /\ previous # b THEN None ELSE m.alias,
     jitBits |-> FreshBits(m.jitBits, b)]

Tables == [romToCache |-> romToCache, cacheToRom |-> cacheToRom, alias |-> alias,
           jitBits |-> jitBits]

\* Mutant: any completion publishes.
FinishedAnyhow ==
    IF fetch.token # None
    THEN Publish(Tables, fetch.romBlock, fetch.cacheBlock)
    ELSE Tables

\* finishFetch: only the success of this very token publishes.
Finished ==
    IF fetch.token # None /\ token[fetch.token] = "SUCCESS"
    THEN Publish(Tables, fetch.romBlock, fetch.cacheBlock)
    ELSE Tables

\* Mutant: the lines the guest executes from stay mapped.
EvictUnderLines(m, b) ==
    LET old == m.cacheToRom[b] IN
    [romToCache |-> [x \in RomBlocks |-> IF x = old THEN None ELSE m.romToCache[x]],
     cacheToRom |-> [m.cacheToRom EXCEPT ![b] = None],
     alias |-> m.alias,
     jitBits |-> FreshBits(m.jitBits, b)]

\* loadRomBlock retires the ROM block that is in b before b is overwritten.
Evict(m, b) ==
    LET old == m.cacheToRom[b] IN
    [romToCache |-> [x \in RomBlocks |-> IF x = old THEN None ELSE m.romToCache[x]],
     cacheToRom |-> [m.cacheToRom EXCEPT ![b] = None],
     alias |-> IF old # None THEN None ELSE m.alias,
     jitBits |-> FreshBits(m.jitBits, b)]

\* The lines of `alias', when memory of the blocks in `written' changes.
Written(written) == stale' = (alias' # None /\ (stale \/ alias' \in written))

SetTables(m) ==
    /\ romToCache' = m.romToCache
    /\ cacheToRom' = m.cacheToRom
    /\ alias' = m.alias
    /\ jitBits' = m.jitBits

-----------------------------------------------------------------------------
(* Actions.                                                                 *)

\* A reader's lookup misses and it calls sdc_loadRomBlockDirect.  (A lookup
\* that hits with interrupts masked uses the pointer at once.)
Miss(c, r) ==
    /\ MayRun(c)
    /\ pc[c] = "idle"
    /\ romToCache[r] = None
    /\ pc' = [pc EXCEPT ![c] = "enter"]
    /\ want' = [want EXCEPT ![c] = r]
    /\ op' = IF c = "main" THEN "load" ELSE op
    /\ UNCHANGED <<romToCache, cacheToRom, content, blockCount, tabu, tabuLevel, fetch,
                   forbidden, alias, codeVars, booting, slot, token, patched, lateHit>>

\* sdc_loadRomBlockForPatching of a block that is not permanent yet.
PatchMiss(r) ==
    /\ MayRun("main")
    /\ booting
    /\ pc["main"] = "idle"
    /\ romToCache[r] \notin blockCount .. LastCache
    /\ LastCache + 1 - blockCount < MaxPatched
    /\ blockCount' = blockCount - 1
    /\ pc' = [pc EXCEPT !["main"] = "enter"]
    /\ want' = [want EXCEPT !["main"] = r]
    /\ op' = "patch"
    /\ UNCHANGED <<romToCache, cacheToRom, content, tabu, tabuLevel, fetch, forbidden,
                   alias, codeVars, booting, slot, token, patched, lateHit>>

FinishBoot ==
    /\ MayRun("main")
    /\ booting
    /\ pc["main"] = "idle"
    /\ booting' = FALSE
    /\ UNCHANGED <<romToCache, cacheToRom, content, blockCount, tabu, tabuLevel, fetch,
                   forbidden, alias, codeVars, contextVars, patched, lateHit>>

\* An immediate DMA of channel 3 enables nested interrupts for the whole
\* transfer and names the blocks it reads.  The guest's store that starts it
\* has unmapped the lines.
StartDma(first, last) ==
    /\ MayRun("main")
    /\ ~booting
    /\ pc["main"] = "idle"
    /\ last - first < MaxDma
    /\ forbidden' = first .. last
    /\ pc' = [pc EXCEPT !["main"] = "lookup"]
    /\ want' = [want EXCEPT !["main"] = first]
    /\ op' = "dma"
    /\ alias' = None
    /\ Written({})
    /\ UNCHANGED <<romToCache, cacheToRom, content, blockCount, tabu, tabuLevel, fetch,
                   jitBits, rewritten, booting, slot, token, patched, lateHit>>

\* sdc_getRomBlock of the next block of the transfer, interrupts enabled.
DmaLookup ==
    /\ MayRun("main")
    /\ pc["main"] = "lookup"
    /\ IF romToCache[want["main"]] # None
       THEN /\ pc' = [pc EXCEPT !["main"] = "hold"]
            /\ slot' = [slot EXCEPT !["main"] = romToCache[want["main"]]]
       ELSE /\ pc' = [pc EXCEPT !["main"] = "enter"]
            /\ slot' = slot
    /\ UNCHANGED <<romToCache, cacheToRom, content, blockCount, tabu, tabuLevel, fetch,
                   forbidden, alias, codeVars, booting, op, want, token, patched, lateHit>>

\* The block a load may go to: the one reserved for a patch, or a victim.
Target(c, b) ==
    IF c = "main" /\ op = "patch" THEN b = blockCount
    ELSE b \in Victims /\ Replaceable(c, Finished, b)

\* A load that is sent to a block of its own is satisfied only there.
Found(c, m) ==
    /\ m.romToCache[want[c]] # None
    /\ c = "main" /\ op = "patch" => m.romToCache[want[c]] = blockCount

\* Line 169: every load first waits until no transaction is outstanding.
Drained == \A c \in Ctx : token[c] # "pending"

\* loadRomBlock finds the block mapped once interrupts are masked: another
\* reader loaded it, or main's own fetch was just finished.
LoadHit(c) ==
    /\ MayRun(c)
    /\ pc[c] = "enter"
    /\ Drained
    /\ Found(c, Finished)
    /\ SetTables(Finished)
    /\ fetch' = NoFetch
    /\ pc' = [pc EXCEPT ![c] = "hold"]
    /\ slot' = [slot EXCEPT ![c] = Finished.romToCache[want[c]]]
    /\ lateHit' = (IF c = "main" THEN TRUE ELSE lateHit)
    /\ Written({})
    /\ UNCHANGED <<content, blockCount, tabu, tabuLevel, forbidden, rewritten, booting,
                   op, want, token, patched>>

\* Interrupts are masked from line 169 to line 238; only a reader outside
\* IRQ mode makes its block tabu.
PushTabu(c, b) ==
    IF c = "main" /\ tabuLevel < 2
    THEN /\ tabu' = [tabu EXCEPT ![tabuLevel] = b]
         /\ tabuLevel' = tabuLevel + 1
    ELSE UNCHANGED <<tabu, tabuLevel>>

\* Block b is filled with something else: the ARM7 or a loop writes all of it.
Overwrite(b, r) ==
    /\ content' = [content EXCEPT ![b] = r]
    /\ rewritten' = rewritten \ {b}
    /\ Written({b})

\* loadRomBlock evicts a block and asks the card for the new one.
LoadFetch(c, b) ==
    /\ MayRun(c)
    /\ pc[c] = "enter"
    /\ Drained
    /\ ~Found(c, Finished)
    /\ want[c] \notin OutOfFile
    /\ Target(c, b)
    /\ SetTables(Evict(Finished, b))
    /\ Overwrite(b, None)
    /\ fetch' = [romBlock |-> want[c], cacheBlock |-> b, token |-> c]
    /\ token' = [token EXCEPT ![c] = "pending"]
    /\ PushTabu(c, b)
    /\ pc' = [pc EXCEPT ![c] = "wait"]
    /\ slot' = [slot EXCEPT ![c] = b]
    /\ UNCHANGED <<blockCount, forbidden, booting, op, want, patched, lateHit>>

\* The same for a block past the end of the file, which is not read but
\* filled, with the interrupts of the caller.
LoadSynthesize(c, b) ==
    /\ MayRun(c)
    /\ pc[c] = "enter"
    /\ Drained
    /\ ~Found(c, Finished)
    /\ want[c] \in OutOfFile
    /\ Target(c, b)
    /\ SetTables(Evict(Finished, b))
    /\ Overwrite(b, None)
    /\ fetch' = NoFetch
    /\ PushTabu(c, b)
    /\ pc' = [pc EXCEPT ![c] = "fill"]
    /\ slot' = [slot EXCEPT ![c] = b]
    /\ UNCHANGED <<blockCount, forbidden, booting, op, want, token, patched, lateHit>>

\* decreaseTabuLevel: the level goes down, the block stays tabu.
PopTabu(c) == tabuLevel' = IF c = "main" THEN tabuLevel - 1 ELSE tabuLevel

\* The ARM7 completes a transaction: the block is there, or the card failed
\* somewhere on the way.
Complete(c, result) ==
    /\ token[c] = "pending"
    /\ token' = [token EXCEPT ![c] = result]
    /\ alias' = alias
    /\ Overwrite(slot[c], IF result = "SUCCESS" THEN want[c] ELSE None)
    /\ UNCHANGED <<romToCache, cacheToRom, blockCount, tabu, tabuLevel, fetch, forbidden,
                   jitBits, booting, pc, op, want, slot, patched, lateHit>>

\* Mutant: the comparison is with the wrong half of sCurrentFetch.
StillMineByCacheBlock(c) == fetch.cacheBlock = want[c]

\* Nobody has finished the fetch this reader waits for.
StillMine(c) == fetch.romBlock = want[c]

\* Lines 241-260: the reader's own wait ends.  It finishes its fetch unless
\* somebody did; a failure ends in sdc_storageFault.
Land(c) ==
    /\ MayRun(c)
    /\ pc[c] = "wait"
    /\ token[c] # "pending"
    /\ IF StillMine(c)
       THEN SetTables(Finished) /\ fetch' = NoFetch
       ELSE UNCHANGED <<romToCache, cacheToRom, alias, jitBits, fetch>>
    /\ Written({})
    /\ PopTabu(c)
    /\ pc' = [pc EXCEPT ![c] = IF token[c] = "SUCCESS" THEN "hold" ELSE "fault"]
    /\ blockCount' = IF c = "main" /\ op = "patch" /\ token[c] # "SUCCESS"
                     THEN blockCount + 1 ELSE blockCount
    /\ lateHit' = (IF c = "main" THEN FALSE ELSE lateHit)
    /\ UNCHANGED <<content, tabu, forbidden, rewritten, booting, op, want, slot, token,
                   patched>>

\* fillOutOfBoundsCacheBlock ends: the block is published with interrupts
\* masked, whatever happened while it was filled.
Filled(c) ==
    /\ MayRun(c)
    /\ pc[c] = "fill"
    /\ SetTables(Publish(Tables, want[c], slot[c]))
    /\ Overwrite(slot[c], want[c])
    /\ PopTabu(c)
    /\ pc' = [pc EXCEPT ![c] = "hold"]
    /\ lateHit' = (IF c = "main" THEN FALSE ELSE lateHit)
    /\ UNCHANGED <<blockCount, tabu, fetch, forbidden, booting, op, want, slot, token,
                   patched>>

Idle(c) ==
    /\ pc' = [pc EXCEPT ![c] = "idle"]
    /\ want' = [want EXCEPT ![c] = 0]
    /\ slot' = [slot EXCEPT ![c] = 0]
    /\ token' = [token EXCEPT ![c] = "none"]

\* A reader is done with its pointer: a handler at the end of its copy, main
\* when vm_disableNestedIrqs has masked interrupts and it reads the word.
Use(c) ==
    /\ MayRun(c)
    /\ pc[c] = "hold"
    /\ c = "irq" \/ op = "load"
    /\ Idle(c)
    /\ lateHit' = (IF c = "main" THEN FALSE ELSE lateHit)
    /\ UNCHANGED <<romToCache, cacheToRom, content, blockCount, tabu, tabuLevel, fetch,
                   forbidden, alias, codeVars, booting, op, patched>>

\* The guest jumps into block b: hic_mapRomBlock adds lines to those it has of
\* b, or drops those it has of another block.
Map(b) ==
    /\ alias' = b
    /\ stale' = (alias = b /\ stale)
    /\ UNCHANGED <<jitBits, rewritten>>

\* JIT patches instructions in block b and drops the lines.
Patch(b) ==
    /\ alias' = None
    /\ jitBits' = jitBits \union {b}
    /\ rewritten' = rewritten \union {b}
    /\ Written({b})

\* Control is with the guest, or about to go to one of its handlers.
GuestNext == ~booting /\ MayRun("main") /\ pc["main"] = "idle"

\* The block was mapped already, and is used with interrupts masked.
CodeHit(r) ==
    /\ GuestNext
    /\ romToCache[r] # None
    /\ Map(romToCache[r]) \/ Patch(romToCache[r])
    /\ UNCHANGED <<romToCache, cacheToRom, content, blockCount, tabu, tabuLevel, fetch,
                   forbidden, booting, contextVars, patched, lateHit>>

\* It had to be loaded: hic_mapRomBlock of main, or jit_ensureBlockJitted of
\* either (a handler jumps to the guest's only when main is not in the cache).
CodeLoaded(c) ==
    /\ MayRun(c)
    /\ ~booting
    /\ pc[c] = "hold"
    /\ want[c] \in Code
    /\ IF c = "main" THEN op = "load" ELSE pc["main"] = "idle"
    /\ Patch(slot[c]) \/ (c = "main" /\ Map(slot[c]))
    /\ Idle(c)
    /\ lateHit' = (IF c = "main" THEN FALSE ELSE lateHit)
    /\ UNCHANGED <<romToCache, cacheToRom, content, blockCount, tabu, tabuLevel, fetch,
                   forbidden, booting, op, patched>>

\* The guest runs into a patched instruction of the mapped lines.  One whose
\* targets are patched is written back, and the lines are dropped.
HandleUndefined ==
    /\ GuestNext
    /\ alias \in jitBits
    /\ Patch(alias)
    /\ UNCHANGED <<romToCache, cacheToRom, content, blockCount, tabu, tabuLevel, fetch,
                   forbidden, booting, contextVars, patched, lateHit>>

\* Any other store that starts or stops a DMA, JIT of code that is not in the
\* cache, and a jump to code in work memory.
UnmapHicode ==
    /\ GuestNext
    /\ alias' = None
    /\ Written({})
    /\ UNCHANGED <<romToCache, cacheToRom, content, blockCount, tabu, tabuLevel, fetch,
                   forbidden, jitBits, rewritten, booting, contextVars, patched, lateHit>>

\* The patcher writes into the block and keeps it for good.
ApplyPatch ==
    /\ MayRun("main")
    /\ pc["main"] = "hold"
    /\ op = "patch"
    /\ patched' = patched \union {slot["main"]}
    /\ Idle("main")
    /\ lateHit' = FALSE
    /\ UNCHANGED <<romToCache, cacheToRom, content, blockCount, tabu, tabuLevel, fetch,
                   forbidden, alias, codeVars, booting, op>>

\* A DMA has copied a block and goes on to the next one.
DmaNext ==
    /\ MayRun("main")
    /\ pc["main"] = "hold"
    /\ op = "dma"
    /\ want["main"] + 1 \in forbidden
    /\ pc' = [pc EXCEPT !["main"] = "lookup"]
    /\ want' = [want EXCEPT !["main"] = @ + 1]
    /\ slot' = [slot EXCEPT !["main"] = 0]
    /\ token' = [token EXCEPT !["main"] = "none"]
    /\ lateHit' = FALSE
    /\ UNCHANGED <<romToCache, cacheToRom, content, blockCount, tabu, tabuLevel, fetch,
                   forbidden, alias, codeVars, booting, op, patched>>

\* It has copied the last one: sdc_resetIrqForbiddenReplacementRange.
DmaDone ==
    /\ MayRun("main")
    /\ pc["main"] = "hold"
    /\ op = "dma"
    /\ want["main"] + 1 \notin forbidden
    /\ forbidden' = {}
    /\ Idle("main")
    /\ lateHit' = FALSE
    /\ UNCHANGED <<romToCache, cacheToRom, content, blockCount, tabu, tabuLevel, fetch,
                   alias, codeVars, booting, op, patched>>

-----------------------------------------------------------------------------
Init ==
    /\ romToCache = [r \in RomBlocks |-> None]
    /\ cacheToRom = [b \in CacheBlocks |-> None]
    /\ content = [b \in CacheBlocks |-> None]
    /\ blockCount = LastCache + 1
    /\ tabu = [i \in 0 .. 1 |-> None]
    /\ tabuLevel = 0
    /\ fetch = NoFetch
    /\ forbidden = {}
    /\ alias = None
    /\ jitBits = {}
    /\ rewritten = {}
    /\ stale = FALSE
    /\ booting = TRUE
    /\ pc = [c \in Ctx |-> "idle"]
    /\ op = "load"
    /\ want = [c \in Ctx |-> 0]
    /\ slot = [c \in Ctx |-> 0]
    /\ token = [c \in Ctx |-> "none"]
    /\ patched = {}
    /\ lateHit = FALSE

Load(c) ==
    \/ LoadHit(c)
    \/ \E b \in CacheBlocks : LoadFetch(c, b) \/ LoadSynthesize(c, b)
    \/ Land(c)
    \/ Filled(c)
    \/ Use(c)

Dma == DmaLookup \/ DmaNext \/ DmaDone

Next ==
    \/ \E c \in Ctx, r \in RomBlocks : Miss(c, r)
    \/ \E r \in RomBlocks : PatchMiss(r)
    \/ FinishBoot
    \/ \E first, last \in RomBlocks : first <= last /\ StartDma(first, last)
    \/ \E c \in Ctx : Load(c)
    \/ \E c \in Ctx, result \in {"SUCCESS", "IO_ERROR"} : Complete(c, result)
    \/ \E r \in Code : CodeHit(r)
    \/ \E c \in Ctx : CodeLoaded(c)
    \/ HandleUndefined
    \/ UnmapHicode
    \/ ApplyPatch
    \/ Dma

SafeSpec == Init /\ [][Next]_vars

\* The ARM7 completes what it was asked for; the code of each context goes on;
\* interrupts leave main time to take its steps.
Fairness ==
    /\ \A c \in Ctx : WF_vars(\E result \in {"SUCCESS", "IO_ERROR"} : Complete(c, result))
    /\ WF_vars(Load("irq"))
    /\ SF_vars(Load("main") \/ Dma \/ ApplyPatch)

Spec == SafeSpec /\ Fairness

-----------------------------------------------------------------------------
(* Properties.                                                              *)

\* Every variable keeps to the values its C type and use allow.
TypeOK ==
    /\ romToCache \in [RomBlocks -> CacheBlocks \union {None}]
    /\ cacheToRom \in [CacheBlocks -> RomBlocks \union {None}]
    /\ content \in [CacheBlocks -> RomBlocks \union {None}]
    /\ blockCount \in (LastCache + 1 - MaxPatched) .. (LastCache + 1)
    /\ tabu \in [0 .. 1 -> CacheBlocks \union {None}]
    /\ tabuLevel \in 0 .. 1
    /\ fetch \in [romBlock: RomBlocks, cacheBlock: CacheBlocks, token: Ctx] \union {NoFetch}
    /\ forbidden \subseteq RomBlocks
    /\ alias \in CacheBlocks \union {None}
    /\ jitBits \subseteq CacheBlocks
    /\ rewritten \subseteq CacheBlocks
    /\ stale \in BOOLEAN
    /\ booting \in BOOLEAN
    /\ pc \in [Ctx -> {"idle", "lookup", "enter", "wait", "fill", "hold", "fault"}]
    /\ op \in {"load", "dma", "patch"}
    /\ want \in [Ctx -> RomBlocks]
    /\ slot \in [Ctx -> CacheBlocks]
    /\ token \in [Ctx -> {"none", "pending", "SUCCESS", "IO_ERROR"}]
    /\ patched \subseteq CacheBlocks
    /\ lateHit \in BOOLEAN

\* The two tables are each other's inverse at every point an interrupt can
\* look at them: no ROM block is claimed by two cache blocks after a nested
\* fill of the same block, and none points into a block that is being reused.
TablesAgree ==
    /\ \A r \in RomBlocks : romToCache[r] # None => cacheToRom[romToCache[r]] = r
    /\ \A b \in CacheBlocks : cacheToRom[b] # None => romToCache[cacheToRom[b]] = b

\* A mapped block holds its ROM block, completely: a failed or unfinished
\* fetch is never published (SdCache.h:27).
MappedIsLoaded ==
    \A r \in RomBlocks : romToCache[r] # None => content[romToCache[r]] = r

\* sCurrentFetch points at a token only while that token's frame is alive.
FetchIsOwned ==
    fetch # NoFetch /\ ~Faulted =>
        /\ pc[fetch.token] = "wait"
        /\ want[fetch.token] = fetch.romBlock
        /\ slot[fetch.token] = fetch.cacheBlock

\* A handler never fills the block that a suspended main is filling.
InFlightBlocksDiffer ==
    pc["main"] \in {"wait", "fill"} /\ pc["irq"] \in {"wait", "fill"} =>
        slot["main"] # slot["irq"]

\* Main's pointer is at risk if it neither loaded the block nor named it as
\* a DMA source.
Unguarded(c) == c = "main" /\ lateHit /\ want[c] \notin forbidden

\* Why those properties hold: who may be writing into which block.
FetchInv ==
    /\ \A c \in Ctx : token[c] = "pending" =>
        /\ pc[c] = "wait"
        /\ fetch = [romBlock |-> want[c], cacheBlock |-> slot[c], token |-> c]
    /\ fetch # NoFetch =>
        /\ cacheToRom[fetch.cacheBlock] = None
        /\ romToCache[fetch.romBlock] # None => booting
        /\ token[fetch.token] \in {"pending", "SUCCESS", "IO_ERROR"}
        /\ token[fetch.token] = "SUCCESS" => content[fetch.cacheBlock] = fetch.romBlock
    /\ \A c \in Ctx : pc[c] = "wait" => token[c] \in {"pending", "SUCCESS", "IO_ERROR"}
    /\ \A c \in Ctx : pc[c] = "fill" => cacheToRom[slot[c]] = None
    /\ pc["irq"] = "wait" => fetch.token = "irq"
    /\ pc["irq"] \in {"fill", "hold"} => fetch = NoFetch

\* Why a handler keeps off main's block: it is tabu, or mapped and a source.
TabuInv ==
    /\ tabu[1] = None
    /\ tabuLevel = IF pc["main"] \in {"wait", "fill"} THEN 1 ELSE 0
    /\ pc["main"] \in {"wait", "fill"} => tabu[0] = slot["main"]
    /\ pc["main"] = "wait" /\ token["main"] = "SUCCESS" =>
            content[slot["main"]] = want["main"]
    /\ pc["main"] = "lookup" => op = "dma" /\ want["main"] \in forbidden
    /\ pc["main"] = "hold" /\ ~Unguarded("main") =>
            \/ tabu[0] = slot["main"] /\ content[slot["main"]] = want["main"]
            \/ want["main"] \in forbidden /\ romToCache[want["main"]] = slot["main"]
    /\ pc["irq"] \in {"fill", "wait"} => slot["irq"] # tabu[0]
    /\ pc["irq"] \in {"fill", "wait"} => romToCache[want["irq"]] = None
    /\ pc["irq"] = "hold" => content[slot["irq"]] = want["irq"]
    /\ booting => pc["irq"] = "idle"
    /\ op = "patch" /\ pc["main"] \in {"enter", "wait", "fill"} =>
            booting /\ blockCount <= LastCache

\* The inductive invariant: it holds because every step from the eviction of
\* a block to its tabu mark, and every publication, is one masked section.
IndInv ==
    TypeOK /\ TablesAgree /\ MappedIsLoaded /\ FetchIsOwned /\ InFlightBlocksDiffer
    /\ FetchInv /\ TabuInv

\* The pointer a reader holds, with interrupts enabled, is to the ROM block it
\* asked for until it has used it: because it is tabu, or a DMA source.
PointersHold ==
    \A c \in Ctx : pc[c] = "hold" /\ ~Unguarded(c) => content[slot[c]] = want[c]

\* A block that a patch was written into stays where it is, mapped.
PatchesStay ==
    \A b \in patched : content[b] # None /\ romToCache[content[b]] = b

\* The guest executes what JIT has made of the block that is there now.  The
\* bits say patched exactly of blocks that have been rewritten since they were
\* filled: bits that outlive their block would let a new one run unpatched,
\* and bits that are lost would have JIT patch its own traps again.  And the
\* lines the guest runs from are never older than the memory of their block,
\* which the ARM7, a fill and JIT write (JitCommon.c:214, SdCache.c:210).
CodeIsCurrent ==
    /\ \A b \in CacheBlocks : content[b] # None => (b \in jitBits <=> b \in rewritten)
    /\ alias # None => ~stale /\ cacheToRom[alias] # None

\* Why: a block is written only while nothing is mapped to it and no bit is set
\* for it, and code is rewritten only through a pointer to a mapped block.
CodeInv ==
    /\ ~stale
    /\ \A b \in CacheBlocks : content[b] # None => (b \in jitBits <=> b \in rewritten)
    /\ fetch # NoFetch => fetch.cacheBlock \notin jitBits \union rewritten
    /\ \A c \in Ctx : pc[c] = "fill" => slot[c] \notin jitBits \union rewritten
    /\ alias # None => cacheToRom[alias] # None
    /\ pc["main"] = "wait" /\ token["main"] = "SUCCESS" /\ fetch.token # "main" =>
            cacheToRom[slot["main"]] # None
    /\ pc["main"] = "hold" =>
            \/ cacheToRom[slot["main"]] # None
            \/ pc["irq"] \in {"wait", "fill"} /\ slot["irq"] = slot["main"]
            \/ Faulted

\* Why a patched block stays: it is out of the victims' range, and nothing that
\* is being loaded is mapped to it.
PatchInv ==
    /\ \A b \in patched : b >= blockCount
    /\ op = "patch" /\ pc["main"] \in {"enter", "wait", "fill", "hold"} =>
            booting /\ blockCount \notin patched
    /\ op = "patch" /\ pc["main"] \in {"wait", "fill", "hold"} =>
            slot["main"] = blockCount
    /\ op = "patch" /\ pc["main"] = "wait" => fetch.token = "main"
    /\ \A c \in Ctx : pc[c] \in {"enter", "wait", "fill"} => romToCache[want[c]] \notin patched
    /\ \A c \in Ctx : pc[c] \in {"wait", "fill"} => slot[c] \notin patched
    /\ op = "patch" /\ pc["main"] = "hold" =>
            content[slot["main"]] = want["main"] /\ romToCache[want["main"]] = slot["main"]

\* What the header promises of sdc_loadRomBlockDirect without reserve: "A
\* pointer to the newly loaded block" (SdCache.h:24).
ReturnsRequestedBlock ==
    \A c \in Ctx : pc[c] = "hold" => content[slot[c]] = want[c]

\* A load of main ends with a pointer or with the fault screen, although
\* handlers take the card from it and draw their victims again and again.
LoadsEnd == pc["main"] = "enter" ~> (pc["main"] = "hold" \/ Faulted)

-----------------------------------------------------------------------------
(* The readers of RomReader.                                                *)

Stages ==
    [c \in Ctx |-> CASE pc[c] = "idle" -> "idle"
                     [] pc[c] = "hold" -> "given"
                     [] pc[c] = "fault" -> "stopped"
                     [] OTHER -> "asked"]

Asked == [c \in Ctx |-> IF pc[c] = "idle" THEN None ELSE want[c]]

\* What each pointer shows, if it is one its reader was promised anything of.
Shown == [c \in Ctx |-> IF pc[c] = "hold" /\ ~Unguarded(c) THEN content[slot[c]] ELSE None]

MappedBlock == IF alias = None THEN None ELSE cacheToRom[alias]

PatchedBlocks == {content[b] : b \in patched}

Reader == INSTANCE RomReader WITH
    Blocks <- RomBlocks, stage <- Stages, block <- Asked, data <- Shown,
    mapped <- MappedBlock, patches <- PatchedBlocks

\* Two readers that take the card and the blocks from each other, and the guest
\* that executes from copies of the blocks, see what RomReader says: the block they
\* asked for, whole, until they are done with it (SdCache.c:161-274).
ImplementsRomReader == Reader!ReaderSpec
=============================================================================
