---------------------------- MODULE SdCacheProofs ----------------------------
(***************************************************************************)
(* Proofs about the ROM cache, for any number of ROM blocks, cache blocks,  *)
(* permanent blocks and DMA blocks: the two tables stay inverse, a mapped   *)
(* block holds its ROM block, a guarded pointer stays good, the guest runs  *)
(* from what is there now, and a patched block stays.                       *)
(***************************************************************************)
EXTENDS SdCache, TLAPS, FiniteSetTheorems

TablesType ==
    [romToCache: [RomBlocks -> CacheBlocks \union {None}],
     cacheToRom: [CacheBlocks -> RomBlocks \union {None}],
     alias: CacheBlocks \union {None},
     jitBits: SUBSET CacheBlocks]

\* Tables m that are each other's inverse and agree with contents t.
Good(m, t) ==
    /\ m \in TablesType
    /\ \A r \in RomBlocks : m.romToCache[r] # None =>
            /\ m.cacheToRom[m.romToCache[r]] = r
            /\ t[m.romToCache[r]] = r
    /\ \A b \in CacheBlocks : m.cacheToRom[b] # None => m.romToCache[m.cacheToRom[b]] = b

-----------------------------------------------------------------------------
(* The operators.                                                           *)

LEMMA NoneIsNoBlock ==
    None \notin RomBlocks /\ None \notin CacheBlocks /\ None \notin Ctx
BY SdConstants DEF RomBlocks, CacheBlocks, Ctx

LEMMA ZeroIsBlock == 0 \in RomBlocks /\ 0 \in CacheBlocks
BY SdConstants DEF RomBlocks, CacheBlocks

\* Publishing a loaded block into a slot nothing is mapped to keeps the tables.
LEMMA PublishGood ==
    ASSUME NEW m, NEW t, Good(m, t), NEW r \in RomBlocks, NEW b \in CacheBlocks,
           m.cacheToRom[b] = None, t[b] = r
    PROVE  Good(Publish(m, r, b), t)
<1> DEFINE p == Publish(m, r, b)
<1>1. p.romToCache = [m.romToCache EXCEPT ![r] = b]
  BY DEF Publish
<1>2. p.cacheToRom = [x \in CacheBlocks |->
                        IF x = b THEN r
                        ELSE IF x = m.romToCache[r] THEN None ELSE m.cacheToRom[x]]
  BY DEF Publish
<1>3. p \in TablesType
  <2>1. p.romToCache \in [RomBlocks -> CacheBlocks \union {None}]
    BY <1>1 DEF Good, TablesType
  <2>2. p.cacheToRom \in [CacheBlocks -> RomBlocks \union {None}]
    BY <1>2 DEF Good, TablesType
  <2> QED
    BY <2>1, <2>2 DEF Publish, FreshBits, Good, TablesType
<1>4. ASSUME NEW x \in RomBlocks, p.romToCache[x] # None
      PROVE  p.cacheToRom[p.romToCache[x]] = x /\ t[p.romToCache[x]] = x
  <2>1. CASE x = r
    BY <2>1, <1>1, <1>2 DEF Good, TablesType
  <2>2. CASE x # r
    <3>1. p.romToCache[x] = m.romToCache[x] /\ m.romToCache[x] \in CacheBlocks
      BY <2>2, <1>1, <1>4 DEF Good, TablesType
    <3>2. m.cacheToRom[m.romToCache[x]] = x /\ t[m.romToCache[x]] = x
      BY <3>1, <1>4 DEF Good
    <3>3. m.romToCache[x] # b /\ m.romToCache[x] # m.romToCache[r]
      BY <3>1, <3>2, <2>2, NoneIsNoBlock DEF Good
    <3> QED
      BY <3>1, <3>2, <3>3, <1>2
  <2> QED
    BY <2>1, <2>2
<1>5. ASSUME NEW x \in CacheBlocks, p.cacheToRom[x] # None
      PROVE  p.romToCache[p.cacheToRom[x]] = x
  <2>1. CASE x = b
    BY <2>1, <1>1, <1>2 DEF Good, TablesType
  <2>2. CASE x # b
    <3>1. x # m.romToCache[r] /\ p.cacheToRom[x] = m.cacheToRom[x]
      BY <2>2, <1>2, <1>5
    <3>2. m.cacheToRom[x] \in RomBlocks /\ m.romToCache[m.cacheToRom[x]] = x
      BY <3>1, <1>5 DEF Good, TablesType
    <3> QED
      BY <3>1, <3>2, <1>1 DEF Good, TablesType
  <2> QED
    BY <2>1, <2>2
<1> QED
  BY <1>3, <1>4, <1>5 DEF Good

\* Evicting a block keeps the tables, and its contents no longer matter.
LEMMA EvictGood ==
    ASSUME NEW m, NEW t, Good(m, t), NEW b \in CacheBlocks,
           t \in [CacheBlocks -> RomBlocks \union {None}],
           NEW u, u = [t EXCEPT ![b] = None]
    PROVE  /\ Good(Evict(m, b), u)
           /\ Evict(m, b).cacheToRom = [m.cacheToRom EXCEPT ![b] = None]
<1> DEFINE e == Evict(m, b)
<1>1. e.romToCache = [x \in RomBlocks |->
                        IF x = m.cacheToRom[b] THEN None ELSE m.romToCache[x]]
  BY DEF Evict
<1>2. e.cacheToRom = [m.cacheToRom EXCEPT ![b] = None]
  BY DEF Evict
<1>3. e \in TablesType
  <2>1. e.romToCache \in [RomBlocks -> CacheBlocks \union {None}]
    BY <1>1 DEF Good, TablesType
  <2>2. e.cacheToRom \in [CacheBlocks -> RomBlocks \union {None}]
    BY <1>2 DEF Good, TablesType
  <2> QED
    BY <2>1, <2>2 DEF Evict, FreshBits, Good, TablesType
<1>4. ASSUME NEW x \in RomBlocks, e.romToCache[x] # None
      PROVE  e.cacheToRom[e.romToCache[x]] = x /\ u[e.romToCache[x]] = x
  <2>1. x # m.cacheToRom[b] /\ e.romToCache[x] = m.romToCache[x]
    BY <1>1, <1>4
  <2>2. m.romToCache[x] \in CacheBlocks /\ m.cacheToRom[m.romToCache[x]] = x
        /\ t[m.romToCache[x]] = x
    BY <2>1, <1>4 DEF Good, TablesType
  <2>3. m.romToCache[x] # b
    BY <2>1, <2>2
  <2> QED
    BY <2>1, <2>2, <2>3, <1>2 DEF Good, TablesType
<1>5. ASSUME NEW x \in CacheBlocks, e.cacheToRom[x] # None
      PROVE  e.romToCache[e.cacheToRom[x]] = x
  <2>1. x # b /\ e.cacheToRom[x] = m.cacheToRom[x]
    BY <1>2, <1>5 DEF Good, TablesType
  <2>2. m.cacheToRom[x] \in RomBlocks /\ m.romToCache[m.cacheToRom[x]] = x
    BY <2>1, <1>5 DEF Good, TablesType
  <2>3. m.cacheToRom[x] # m.cacheToRom[b]
    BY <2>1, <2>2, NoneIsNoBlock DEF Good
  <2> QED
    BY <2>1, <2>2, <2>3, <1>1
<1>6. Good(e, u)
  BY <1>3, <1>4, <1>5 DEF Good
<1> QED
  BY <1>1, <1>2, <1>6

\* A victim is never the block that is tabu.
LEMMA VictimsAvoidTabu ==
    ASSUME TypeOK, tabu[1] = None, tabu[0] # None
    PROVE  tabu[0] \notin Victims
<1>1. {i \in 0 .. 1 : (i = 0 \/ tabuLevel > 0) /\ tabu[i] # None} = {0}
  OBVIOUS
<1>2. Cardinality({i \in 0 .. 1 : (i = 0 \/ tabuLevel > 0) /\ tabu[i] # None}) = 1
  BY <1>1, FS_Singleton
<1>3. blockCount \in Int /\ tabu[0] \in Int
  BY SdConstants DEF TypeOK, CacheBlocks
<1>4. blockCount >= 2
  BY SdConstants DEF TypeOK
<1>5. Victims = {IF b = tabu[0] THEN blockCount - 1 ELSE b : b \in 0 .. (blockCount - 2)}
  <2>1. None # 0 /\ \A b \in 0 .. (blockCount - 2) : b # None
    BY SdConstants
  <2>2. Victims = {IF b = tabu[0] THEN blockCount - 1 ELSE
                     IF tabuLevel > 0 /\ b = tabu[1] THEN (blockCount - 1) + 1 ELSE b :
                       b \in 0 .. ((blockCount - 1) - 1)}
    BY <1>2 DEF Victims
  <2>3. (blockCount - 1) - 1 = blockCount - 2
    BY <1>3
  <2> QED
    BY <2>1, <2>2, <2>3
<1> QED
  BY <1>3, <1>4, <1>5

-----------------------------------------------------------------------------
(* The tables in a state that satisfies the invariant.                      *)

LEMMA TablesGood ==
    ASSUME TypeOK, TablesAgree, MappedIsLoaded
    PROVE  Good(Tables, content)
BY DEF TypeOK, TablesAgree, MappedIsLoaded, Good, TablesType, Tables

LEMMA GoodTables ==
    ASSUME NEW m, SetTables(m), Good(m, content')
    PROVE  /\ romToCache' \in [RomBlocks -> CacheBlocks \union {None}]
           /\ cacheToRom' \in [CacheBlocks -> RomBlocks \union {None}]
           /\ alias' \in CacheBlocks \union {None} /\ jitBits' \subseteq CacheBlocks
           /\ TablesAgree'
           /\ MappedIsLoaded'
BY DEF SetTables, Good, TablesType, TablesAgree, MappedIsLoaded

\* Publishing touches the slot, the block and the block's previous slot only.
LEMMA PublishOthers ==
    ASSUME NEW m, Good(m, content), NEW r \in RomBlocks, NEW b \in CacheBlocks
    PROVE  /\ \A x \in RomBlocks : x # r => Publish(m, r, b).romToCache[x] = m.romToCache[x]
           /\ \A x \in CacheBlocks :
                x # b /\ m.cacheToRom[x] = None => Publish(m, r, b).cacheToRom[x] = None
BY DEF Publish, Good, TablesType

\* A finished fetch leaves the tables good.
LEMMA FinishedGood ==
    ASSUME IndInv, ~Faulted, Drained
    PROVE  /\ Good(Finished, content)
           /\ fetch = NoFetch => Finished = Tables
           /\ \A b \in CacheBlocks :
                cacheToRom[b] = None /\ b # fetch.cacheBlock => Finished.cacheToRom[b] = None
           /\ \A r \in RomBlocks :
                r # fetch.romBlock => Finished.romToCache[r] = romToCache[r]
<1>1. Good(Tables, content)
  BY TablesGood DEF IndInv
<1>2. CASE fetch = NoFetch
  <2>1. Finished = Tables
    BY <1>2 DEF Finished, NoFetch
  <2> QED
    BY <1>1, <2>1 DEF Tables
<1>3. CASE fetch # NoFetch
  <2>1. /\ fetch.romBlock \in RomBlocks /\ fetch.cacheBlock \in CacheBlocks
        /\ fetch.token \in Ctx
    BY <1>3 DEF IndInv, TypeOK
  <2>2. CASE token[fetch.token] = "SUCCESS" /\ fetch.token # None
    <3>1. Finished = Publish(Tables, fetch.romBlock, fetch.cacheBlock)
      BY <2>2 DEF Finished
    <3>2. Tables.cacheToRom[fetch.cacheBlock] = None
          /\ content[fetch.cacheBlock] = fetch.romBlock
      BY <1>3, <2>2 DEF IndInv, FetchInv, Tables
    <3>3. Good(Finished, content)
      BY <1>1, <2>1, <3>1, <3>2, PublishGood
    <3> QED
      BY <1>1, <1>3, <2>1, <3>1, <3>3, PublishOthers DEF Tables
  <2>3. CASE ~(token[fetch.token] = "SUCCESS" /\ fetch.token # None)
    <3>1. Finished = Tables
      BY <2>3 DEF Finished
    <3> QED
      BY <1>1, <1>3, <3>1 DEF Tables
  <2> QED
    BY <2>2, <2>3
<1> QED
  BY <1>2, <1>3

\* Who can own the outstanding fetch when a context runs.
LEMMA FetchOwner ==
    ASSUME IndInv, ~Faulted
    PROVE  /\ pc["irq"] = "idle" /\ pc["main"] # "wait" => fetch = NoFetch
           /\ fetch # NoFetch => pc[fetch.token] = "wait" /\ fetch.token \in Ctx
           /\ pc["main"] # "wait" /\ pc["irq"] # "wait" => fetch = NoFetch
BY DEF IndInv, TypeOK, FetchIsOwned, Ctx

-----------------------------------------------------------------------------
(* One lemma for each kind of step.                                         *)

\* Steps that only move a context along.
LEMMA ContextSteps ==
    ASSUME IndInv,
           \/ \E c \in Ctx, r \in RomBlocks : Miss(c, r)
           \/ \E r \in RomBlocks : PatchMiss(r)
           \/ FinishBoot
           \/ \E first, last \in RomBlocks : first <= last /\ StartDma(first, last)
           \/ DmaLookup
    PROVE  IndInv'
<1> USE DEF IndInv, MayRun, Faulted, codeVars, Written
<1>1. ASSUME NEW c \in Ctx, NEW r \in RomBlocks, Miss(c, r)
      PROVE  IndInv'
  <2>1. TypeOK'
    BY <1>1 DEF Miss, TypeOK
  <2>2. TablesAgree' /\ MappedIsLoaded'
    BY <1>1 DEF Miss, TablesAgree, MappedIsLoaded
  <2>3. FetchIsOwned'
    BY <1>1 DEF Miss, FetchIsOwned, TypeOK, Ctx, NoFetch
  <2>4. InFlightBlocksDiffer'
    BY <1>1 DEF Miss, InFlightBlocksDiffer, TypeOK, Ctx
  <2>5. FetchInv'
    BY <1>1, FetchOwner DEF Miss, FetchInv, TypeOK, Ctx, NoFetch
  <2>6. TabuInv'
    BY <1>1 DEF Miss, TabuInv, Unguarded, TypeOK, Ctx
  <2> QED
    BY <2>1, <2>2, <2>3, <2>4, <2>5, <2>6
<1>2. ASSUME NEW r \in RomBlocks, PatchMiss(r)
      PROVE  IndInv'
  <2>1. TypeOK'
    <3>1. blockCount' \in (LastCache + 1 - MaxPatched) .. (LastCache + 1)
      BY <1>2, SdConstants DEF PatchMiss, TypeOK
    <3> QED
      BY <1>2, <3>1 DEF PatchMiss, TypeOK
  <2>2. TablesAgree' /\ MappedIsLoaded'
    BY <1>2 DEF PatchMiss, TablesAgree, MappedIsLoaded
  <2>3. FetchIsOwned'
    BY <1>2 DEF PatchMiss, FetchIsOwned, TypeOK, Ctx, NoFetch
  <2>4. InFlightBlocksDiffer'
    BY <1>2 DEF PatchMiss, InFlightBlocksDiffer, TypeOK, Ctx
  <2>5. FetchInv'
    BY <1>2, FetchOwner DEF PatchMiss, FetchInv, TypeOK, Ctx, NoFetch
  <2>6. TabuInv'
    <3>1. blockCount' <= LastCache
      BY <1>2, SdConstants DEF PatchMiss, TypeOK
    <3> QED
      BY <1>2, <3>1 DEF PatchMiss, TabuInv, Unguarded, TypeOK, Ctx
  <2> QED
    BY <2>1, <2>2, <2>3, <2>4, <2>5, <2>6
<1>3. ASSUME FinishBoot
      PROVE  IndInv'
  <2>1. TypeOK'
    BY <1>3 DEF FinishBoot, TypeOK, contextVars
  <2>2. TablesAgree' /\ MappedIsLoaded'
    BY <1>3 DEF FinishBoot, TablesAgree, MappedIsLoaded
  <2>3. FetchIsOwned' /\ InFlightBlocksDiffer'
    BY <1>3 DEF FinishBoot, FetchIsOwned, InFlightBlocksDiffer, contextVars
  <2>4. fetch = NoFetch
    BY <1>3, FetchOwner DEF FinishBoot, TabuInv
  <2>5. FetchInv'
    BY <1>3, <2>4 DEF FinishBoot, FetchInv, contextVars
  <2>6. TabuInv'
    BY <1>3 DEF FinishBoot, TabuInv, Unguarded, contextVars
  <2> QED
    BY <2>1, <2>2, <2>3, <2>5, <2>6
<1>4. ASSUME NEW first \in RomBlocks, NEW last \in RomBlocks, first <= last,
             StartDma(first, last)
      PROVE  IndInv'
  <2>1. TypeOK'
    <3>1. first .. last \subseteq RomBlocks
      BY SdConstants DEF RomBlocks
    <3> QED
      BY <1>4, <3>1 DEF StartDma, TypeOK
  <2>2. TablesAgree' /\ MappedIsLoaded'
    BY <1>4 DEF StartDma, TablesAgree, MappedIsLoaded
  <2>3. FetchIsOwned'
    BY <1>4 DEF StartDma, FetchIsOwned, TypeOK, Ctx, NoFetch
  <2>4. InFlightBlocksDiffer'
    BY <1>4 DEF StartDma, InFlightBlocksDiffer, TypeOK, Ctx
  <2>5. FetchInv'
    BY <1>4, FetchOwner DEF StartDma, FetchInv, TypeOK, Ctx, NoFetch
  <2>6. TabuInv'
    <3>1. first \in first .. last
      BY <1>4, SdConstants DEF RomBlocks
    <3> QED
      BY <1>4, <3>1 DEF StartDma, TabuInv, Unguarded, TypeOK, Ctx
  <2> QED
    BY <2>1, <2>2, <2>3, <2>4, <2>5, <2>6
<1>5. ASSUME DmaLookup
      PROVE  IndInv'
  <2>1. TypeOK'
    BY <1>5 DEF DmaLookup, TypeOK, Ctx
  <2>2. TablesAgree' /\ MappedIsLoaded'
    BY <1>5 DEF DmaLookup, TablesAgree, MappedIsLoaded
  <2>3. FetchIsOwned'
    BY <1>5 DEF DmaLookup, FetchIsOwned, TypeOK, Ctx, NoFetch
  <2>4. InFlightBlocksDiffer'
    BY <1>5 DEF DmaLookup, InFlightBlocksDiffer, TypeOK, Ctx
  <2>5. FetchInv'
    BY <1>5, FetchOwner DEF DmaLookup, FetchInv, TypeOK, Ctx, NoFetch
  <2>6. TabuInv'
    <3>1. CASE romToCache[want["main"]] # None
      BY <1>5, <3>1 DEF DmaLookup, TabuInv, Unguarded, TypeOK, Ctx
    <3>2. CASE romToCache[want["main"]] = None
      BY <1>5, <3>2 DEF DmaLookup, TabuInv, Unguarded, TypeOK, Ctx
    <3> QED
      BY <3>1, <3>2
  <2> QED
    BY <2>1, <2>2, <2>3, <2>4, <2>5, <2>6
<1> QED
  BY <1>1, <1>2, <1>3, <1>4, <1>5


\* Steps that end the use of a pointer.
LEMMA UseSteps ==
    ASSUME IndInv,
           \/ \E c \in Ctx : Use(c)
           \/ \E c \in Ctx : CodeLoaded(c)
           \/ ApplyPatch \/ DmaNext \/ DmaDone
    PROVE  IndInv'
<1> USE DEF IndInv, MayRun, Faulted, Idle, codeVars
<1>1. ASSUME NEW c \in Ctx, Use(c)
      PROVE  IndInv'
  <2> USE DEF Use
  <2>1. TypeOK'
    BY <1>1, ZeroIsBlock DEF TypeOK, Ctx
  <2>2. TablesAgree' /\ MappedIsLoaded'
    BY <1>1 DEF TablesAgree, MappedIsLoaded
  <2>3. FetchIsOwned'
    BY <1>1 DEF FetchIsOwned, TypeOK, Ctx, NoFetch
  <2>4. InFlightBlocksDiffer'
    BY <1>1 DEF InFlightBlocksDiffer, TypeOK, Ctx
  <2>5. FetchInv'
    BY <1>1, FetchOwner DEF FetchInv, TypeOK, Ctx, NoFetch
  <2>6. TabuInv'
    BY <1>1 DEF TabuInv, Unguarded, TypeOK, Ctx
  <2> QED
    BY <2>1, <2>2, <2>3, <2>4, <2>5, <2>6
<1>2. ASSUME NEW c \in Ctx, CodeLoaded(c)
      PROVE  IndInv'
  <2> USE DEF CodeLoaded, Map, Patch, Written
  <2>1. TypeOK'
    BY <1>2, ZeroIsBlock DEF TypeOK, Ctx
  <2>2. TablesAgree' /\ MappedIsLoaded'
    BY <1>2 DEF TablesAgree, MappedIsLoaded
  <2>3. FetchIsOwned'
    BY <1>2 DEF FetchIsOwned, TypeOK, Ctx, NoFetch
  <2>4. InFlightBlocksDiffer'
    BY <1>2 DEF InFlightBlocksDiffer, TypeOK, Ctx
  <2>5. FetchInv'
    BY <1>2, FetchOwner DEF FetchInv, TypeOK, Ctx, NoFetch
  <2>6. TabuInv'
    BY <1>2 DEF TabuInv, Unguarded, TypeOK, Ctx
  <2> QED
    BY <2>1, <2>2, <2>3, <2>4, <2>5, <2>6
<1>3. ASSUME ApplyPatch
      PROVE  IndInv'
  <2> USE DEF ApplyPatch
  <2>1. TypeOK'
    BY <1>3, ZeroIsBlock DEF TypeOK, Ctx
  <2>2. TablesAgree' /\ MappedIsLoaded'
    BY <1>3 DEF TablesAgree, MappedIsLoaded
  <2>3. FetchIsOwned'
    BY <1>3 DEF FetchIsOwned, TypeOK, Ctx, NoFetch
  <2>4. InFlightBlocksDiffer'
    BY <1>3 DEF InFlightBlocksDiffer, TypeOK, Ctx
  <2>5. FetchInv'
    BY <1>3, FetchOwner DEF FetchInv, TypeOK, Ctx, NoFetch
  <2>6. TabuInv'
    BY <1>3 DEF TabuInv, Unguarded, TypeOK, Ctx
  <2> QED
    BY <2>1, <2>2, <2>3, <2>4, <2>5, <2>6
<1>4. ASSUME DmaNext
      PROVE  IndInv'
  <2> USE DEF DmaNext
  <2>1. TypeOK'
    BY <1>4, ZeroIsBlock DEF TypeOK, Ctx
  <2>2. TablesAgree' /\ MappedIsLoaded'
    BY <1>4 DEF TablesAgree, MappedIsLoaded
  <2>3. FetchIsOwned'
    BY <1>4 DEF FetchIsOwned, TypeOK, Ctx, NoFetch
  <2>4. InFlightBlocksDiffer'
    BY <1>4 DEF InFlightBlocksDiffer, TypeOK, Ctx
  <2>5. FetchInv'
    BY <1>4, FetchOwner DEF FetchInv, TypeOK, Ctx, NoFetch
  <2>6. TabuInv'
    BY <1>4 DEF TabuInv, Unguarded, TypeOK, Ctx
  <2> QED
    BY <2>1, <2>2, <2>3, <2>4, <2>5, <2>6
<1>5. ASSUME DmaDone
      PROVE  IndInv'
  <2> USE DEF DmaDone
  <2>1. TypeOK'
    BY <1>5, ZeroIsBlock DEF TypeOK, Ctx
  <2>2. TablesAgree' /\ MappedIsLoaded'
    BY <1>5 DEF TablesAgree, MappedIsLoaded
  <2>3. FetchIsOwned'
    BY <1>5 DEF FetchIsOwned, TypeOK, Ctx, NoFetch
  <2>4. InFlightBlocksDiffer'
    BY <1>5 DEF InFlightBlocksDiffer, TypeOK, Ctx
  <2>5. FetchInv'
    BY <1>5, FetchOwner DEF FetchInv, TypeOK, Ctx, NoFetch
  <2>6. TabuInv'
    BY <1>5 DEF TabuInv, Unguarded, TypeOK, Ctx
  <2> QED
    BY <2>1, <2>2, <2>3, <2>4, <2>5, <2>6
<1> QED
  BY <1>1, <1>2, <1>3, <1>4, <1>5


\* Steps of the guest that change what it executes from, and nothing else.
LEMMA GuestSteps ==
    ASSUME IndInv,
           (\E r \in Code : CodeHit(r)) \/ HandleUndefined \/ UnmapHicode
    PROVE  IndInv'
<1>1. Code \subseteq RomBlocks
  BY SdConstants DEF RomBlocks
<1>2. /\ UNCHANGED <<romToCache, cacheToRom, content, blockCount, tabu, tabuLevel, fetch,
                     forbidden, booting, contextVars, patched, lateHit>>
      /\ alias' \in CacheBlocks \union {None} /\ jitBits' \subseteq CacheBlocks
      /\ rewritten' \subseteq CacheBlocks /\ stale' \in BOOLEAN
  BY <1>1, NoneIsNoBlock DEF IndInv, TypeOK, CodeHit, HandleUndefined, UnmapHicode, Map,
     Patch, Written
<1> QED
  BY <1>2 DEF contextVars, IndInv, TypeOK, TablesAgree, MappedIsLoaded, FetchIsOwned,
     Faulted, InFlightBlocksDiffer, FetchInv, TabuInv, Unguarded

\* The ARM7 fills a block that nothing is mapped to.
LEMMA CompleteStep ==
    ASSUME IndInv, NEW c \in Ctx, NEW result \in {"SUCCESS", "IO_ERROR"},
           Complete(c, result)
    PROVE  IndInv'
<1> USE DEF IndInv, Overwrite, Written
<1>1. /\ pc[c] = "wait" /\ token[c] = "pending"
      /\ fetch = [romBlock |-> want[c], cacheBlock |-> slot[c], token |-> c]
      /\ want[c] \in RomBlocks /\ slot[c] \in CacheBlocks
  BY DEF Complete, FetchInv, TypeOK
<1>2. fetch # NoFetch /\ cacheToRom[slot[c]] = None
  <2>1. fetch # NoFetch
    BY <1>1, NoneIsNoBlock DEF NoFetch
  <2> QED
    BY <1>1, <2>1 DEF FetchInv
<1>3. TypeOK'
  BY <1>1 DEF Complete, TypeOK
<1>4. TablesAgree'
  BY DEF Complete, TablesAgree
<1>5. MappedIsLoaded'
  <2> SUFFICES ASSUME NEW r \in RomBlocks, romToCache[r] # None
               PROVE  content'[romToCache[r]] = r
    BY DEF MappedIsLoaded, Complete
  <2>1. romToCache[r] \in CacheBlocks /\ romToCache[r] # slot[c]
    BY <1>2, NoneIsNoBlock DEF TablesAgree, TypeOK
  <2> QED
    BY <2>1, <1>1 DEF Complete, TypeOK, MappedIsLoaded
<1>6. FetchIsOwned'
  BY DEF Complete, FetchIsOwned, Faulted
<1>7. InFlightBlocksDiffer'
  BY DEF Complete, InFlightBlocksDiffer
<1>8. FetchInv'
  BY <1>1, <1>2 DEF Complete, FetchInv, TypeOK, Ctx
<1>9. TabuInv'
  <2>1. ASSUME pc["main"] = "hold", ~Unguarded("main"), tabu[0] = slot["main"]
        PROVE  content'[slot["main"]] = content[slot["main"]]
    <3>1. c = "irq" /\ slot["irq"] # slot["main"]
      BY <1>1, <2>1 DEF TabuInv, Ctx
    <3> QED
      BY <3>1 DEF Complete, TypeOK, Ctx
  <2>2. ASSUME pc["irq"] = "hold"
        PROVE  content'[slot["irq"]] = content[slot["irq"]]
    BY <1>1, <2>2, <1>2 DEF FetchInv
  <2>3. ASSUME pc["main"] = "wait", token'["main"] = "SUCCESS"
        PROVE  content'[slot["main"]] = want["main"]
    <3>1. CASE c = "main"
      BY <3>1, <2>3, <1>1 DEF Complete, TypeOK
    <3>2. CASE c = "irq"
      <4>1. slot["irq"] # slot["main"]
        BY <3>2, <1>1, <2>3 DEF InFlightBlocksDiffer
      <4> QED
        BY <3>2, <4>1, <2>3 DEF Complete, TypeOK, TabuInv, Ctx
    <3> QED
      BY <3>1, <3>2 DEF Ctx
  <2> QED
    BY <2>1, <2>2, <2>3 DEF Complete, TabuInv, Unguarded
<1> QED
  BY <1>3, <1>4, <1>5, <1>6, <1>7, <1>8, <1>9

\* A load finds its block mapped.
LEMMA LoadHitStep ==
    ASSUME IndInv, NEW c \in Ctx, LoadHit(c)
    PROVE  IndInv'
<1> USE DEF IndInv, MayRun
<1>1. ~Faulted /\ Drained /\ Good(Finished, content) /\ SetTables(Finished)
  BY FinishedGood DEF LoadHit
<1>2. /\ want[c] \in RomBlocks
      /\ Finished.romToCache[want[c]] \in CacheBlocks
      /\ content[Finished.romToCache[want[c]]] = want[c]
  BY <1>1 DEF LoadHit, Found, Good, TablesType, TypeOK
<1>3. /\ romToCache' \in [RomBlocks -> CacheBlocks \union {None}]
      /\ cacheToRom' \in [CacheBlocks -> RomBlocks \union {None}]
      /\ alias' \in CacheBlocks \union {None} /\ jitBits' \subseteq CacheBlocks
      /\ TablesAgree' /\ MappedIsLoaded'
  <2>1. content' = content
    BY DEF LoadHit
  <2> QED
    BY <1>1, <2>1, GoodTables
<1>4. TypeOK'
  BY <1>2, <1>3 DEF LoadHit, Written, TypeOK
<1>5. FetchIsOwned' /\ InFlightBlocksDiffer'
  BY DEF LoadHit, FetchIsOwned, InFlightBlocksDiffer, TypeOK, Ctx
<1>6. FetchInv'
  <2>1. ASSUME NEW d \in Ctx, pc'[d] = "fill"
        PROVE  cacheToRom'[slot'[d]] = None
    <3>1. d # c /\ pc[d] = "fill" /\ slot'[d] = slot[d] /\ slot[d] \in CacheBlocks
      BY <2>1 DEF LoadHit, TypeOK
    <3>2. fetch = NoFetch
      BY <3>1, <1>1, FetchOwner DEF LoadHit, Ctx
    <3> QED
      BY <3>1, <3>2, <1>1, FinishedGood DEF FetchInv, SetTables, Tables
  <2>2. pc'["irq"] # "wait"
    BY DEF LoadHit, TypeOK, Ctx
  <2> QED
    BY <2>1, <2>2 DEF LoadHit, FetchInv, TypeOK, Ctx, Drained
<1>7. TabuInv'
  <2>1. CASE c = "main"
    <3>1. fetch = NoFetch
      BY <2>1, <1>1, FetchOwner DEF LoadHit
    <3>2. romToCache' = romToCache
      BY <3>1, <1>1, FinishedGood DEF SetTables, Tables
    <3>3. slot'["main"] = romToCache'[want["main"]]
      BY <2>1, <1>1 DEF LoadHit, TypeOK, SetTables
    <3> QED
      BY <2>1, <3>2, <3>3 DEF LoadHit, TabuInv, Unguarded, TypeOK, Ctx
  <2>2. CASE c = "irq"
    <3>1. ASSUME pc["main"] = "hold"
          PROVE  romToCache' = romToCache
      <4>1. fetch = NoFetch
        BY <2>2, <3>1, <1>1, FetchOwner DEF LoadHit
      <4> QED
        BY <4>1, <1>1, FinishedGood DEF SetTables, Tables
    <3>2. content'[slot'["irq"]] = want'["irq"]
      BY <2>2, <1>2 DEF LoadHit, TypeOK
    <3> QED
      BY <2>2, <3>1, <3>2 DEF LoadHit, TabuInv, Unguarded, TypeOK, Ctx
  <2> QED
    BY <2>1, <2>2 DEF Ctx
<1> QED
  BY <1>3, <1>4, <1>5, <1>6, <1>7


\* What holds of the chosen block b, the tables and the tabu mark once a load
\* has evicted b, whether it will be fetched or synthesized.
LEMMA Evicted ==
    ASSUME IndInv, NEW c \in Ctx, NEW b \in CacheBlocks,
           MayRun(c), pc[c] = "enter", Drained, ~Found(c, Finished), Target(c, b),
           SetTables(Evict(Finished, b)), content' = [content EXCEPT ![b] = None],
           PushTabu(c, b)
    PROVE  /\ romToCache' \in [RomBlocks -> CacheBlocks \union {None}]
           /\ cacheToRom' \in [CacheBlocks -> RomBlocks \union {None}]
           /\ alias' \in CacheBlocks \union {None} /\ jitBits' \subseteq CacheBlocks
           /\ content' \in [CacheBlocks -> RomBlocks \union {None}]
           /\ TablesAgree' /\ MappedIsLoaded'
           /\ cacheToRom'[b] = None
           /\ romToCache'[want[c]] = None \/ (c = "main" /\ booting)
           /\ \A x \in CacheBlocks :
                cacheToRom[x] = None /\ x # fetch.cacheBlock => cacheToRom'[x] = None
           /\ c = "main" => /\ tabu' = [tabu EXCEPT ![0] = b] /\ tabuLevel' = 1
                            /\ pc["irq"] = "idle"
           /\ c = "irq" => /\ tabu' = tabu /\ tabuLevel' = tabuLevel
                           /\ b # tabu[0]
                           /\ pc["main"] = "hold" /\ want["main"] \in forbidden
                              /\ romToCache[want["main"]] = slot["main"] =>
                                romToCache'[want["main"]] = slot["main"]
<1> USE DEF IndInv
<1>1. ~Faulted /\ Good(Finished, content) /\ content \in [CacheBlocks -> RomBlocks \union {None}]
  BY FinishedGood DEF MayRun, TypeOK
<1>2. /\ Good(Evict(Finished, b), content')
      /\ Evict(Finished, b).cacheToRom = [Finished.cacheToRom EXCEPT ![b] = None]
      /\ \A r \in RomBlocks : Finished.romToCache[r] = None =>
            Evict(Finished, b).romToCache[r] = None
  <2> DEFINE f == Finished
  <2>1. Good(f, content) /\ content' = [content EXCEPT ![b] = None]
    BY <1>1
  <2> HIDE DEF f
  <2>2. Good(Evict(f, b), content')
    BY <1>1, <2>1, EvictGood
  <2>3. Evict(f, b).cacheToRom = [f.cacheToRom EXCEPT ![b] = None]
    BY <1>1, <2>1, EvictGood
  <2>4. \A r \in RomBlocks : f.romToCache[r] = None => Evict(f, b).romToCache[r] = None
    BY DEF Evict
  <2> QED
    BY <2>2, <2>3, <2>4 DEF f
<1>3. /\ romToCache' \in [RomBlocks -> CacheBlocks \union {None}]
      /\ cacheToRom' \in [CacheBlocks -> RomBlocks \union {None}]
      /\ alias' \in CacheBlocks \union {None} /\ jitBits' \subseteq CacheBlocks
      /\ TablesAgree' /\ MappedIsLoaded'
  BY <1>2, GoodTables
<1>4. content' \in [CacheBlocks -> RomBlocks \union {None}]
  BY <1>1
<1>5. Finished.cacheToRom \in [CacheBlocks -> RomBlocks \union {None}]
  BY <1>1 DEF Good, TablesType
<1>6. cacheToRom' = [Finished.cacheToRom EXCEPT ![b] = None]
  BY <1>2 DEF SetTables
<1>7. \A x \in CacheBlocks :
        cacheToRom[x] = None /\ x # fetch.cacheBlock => cacheToRom'[x] = None
  BY <1>1, <1>5, <1>6, FinishedGood
<1>8. romToCache'[want[c]] = None \/ (c = "main" /\ booting)
  <2>1. CASE Finished.romToCache[want[c]] = None
    BY <2>1, <1>2 DEF SetTables, TypeOK
  <2>2. CASE Finished.romToCache[want[c]] # None
    BY <2>2 DEF Found, TabuInv
  <2> QED
    BY <2>1, <2>2
<1>9. ASSUME c = "main"
      PROVE  /\ tabu' = [tabu EXCEPT ![0] = b] /\ tabuLevel' = 1
             /\ pc["irq"] = "idle"
  <2>1. tabuLevel = 0
    BY <1>9 DEF TabuInv
  <2> QED
    BY <1>9, <2>1 DEF PushTabu, MayRun
<1>10. ASSUME c = "irq"
       PROVE  /\ tabu' = tabu /\ tabuLevel' = tabuLevel
              /\ b # tabu[0]
              /\ pc["main"] = "hold" /\ want["main"] \in forbidden
                 /\ romToCache[want["main"]] = slot["main"] =>
                   romToCache'[want["main"]] = slot["main"]
  <2>1. b \in Victims /\ Finished.cacheToRom[b] \notin forbidden
    BY <1>10 DEF Target, Replaceable
  <2>2. b # tabu[0]
    BY <2>1, VictimsAvoidTabu, NoneIsNoBlock DEF TabuInv
  <2>3. ASSUME pc["main"] = "hold", want["main"] \in forbidden,
               romToCache[want["main"]] = slot["main"]
        PROVE  romToCache'[want["main"]] = slot["main"]
    <3>1. fetch = NoFetch
      BY <1>1, <1>10, <2>3, FetchOwner
    <3>2. Finished = Tables
      BY <1>1, <3>1, FinishedGood
    <3>3. want["main"] \in RomBlocks /\ want["main"] # cacheToRom[b]
      BY <2>1, <2>3, <3>2 DEF Tables, TypeOK, Ctx
    <3>4. romToCache' = [x \in RomBlocks |->
                           IF x = cacheToRom[b] THEN None ELSE romToCache[x]]
      BY <3>2 DEF SetTables, Evict, Tables
    <3> QED
      BY <3>3, <3>4, <2>3
  <2> QED
    BY <1>10, <2>2, <2>3 DEF PushTabu
<1> QED
  BY <1>3, <1>4, <1>5, <1>6, <1>7, <1>8, <1>9, <1>10

\* A load asks the card for its block.
LEMMA LoadFetchStep ==
    ASSUME IndInv, NEW c \in Ctx, NEW b \in CacheBlocks, LoadFetch(c, b)
    PROVE  IndInv'
<1> USE DEF IndInv, LoadFetch, Overwrite, Written
<1>1. /\ romToCache' \in [RomBlocks -> CacheBlocks \union {None}]
      /\ cacheToRom' \in [CacheBlocks -> RomBlocks \union {None}]
      /\ alias' \in CacheBlocks \union {None} /\ jitBits' \subseteq CacheBlocks
      /\ content' \in [CacheBlocks -> RomBlocks \union {None}]
      /\ TablesAgree' /\ MappedIsLoaded'
      /\ cacheToRom'[b] = None
      /\ romToCache'[want[c]] = None \/ (c = "main" /\ booting)
  BY Evicted
<1>2. c = "main" => /\ tabu' = [tabu EXCEPT ![0] = b] /\ tabuLevel' = 1
                    /\ pc["irq"] = "idle"
  BY Evicted
<1>3. c = "irq" => /\ tabu' = tabu /\ tabuLevel' = tabuLevel
                   /\ b # tabu[0]
                   /\ pc["main"] = "hold" /\ want["main"] \in forbidden
                      /\ romToCache[want["main"]] = slot["main"] =>
                        romToCache'[want["main"]] = slot["main"]
  BY Evicted
<1>4. \A x \in CacheBlocks :
        cacheToRom[x] = None /\ x # fetch.cacheBlock => cacheToRom'[x] = None
  BY Evicted
<1>5. TypeOK'
  <2>1. tabu' \in [0 .. 1 -> CacheBlocks \union {None}] /\ tabuLevel' \in 0 .. 1
    BY <1>2, <1>3 DEF TypeOK, Ctx
  <2>2. fetch' \in [romBlock: RomBlocks, cacheBlock: CacheBlocks, token: Ctx]
    BY DEF TypeOK
  <2>3. /\ pc' \in [Ctx -> {"idle", "lookup", "enter", "wait", "fill", "hold", "fault"}]
        /\ slot' \in [Ctx -> CacheBlocks]
        /\ token' \in [Ctx -> {"none", "pending", "SUCCESS", "IO_ERROR"}]
    BY DEF TypeOK
  <2> QED
    BY <1>1, <2>1, <2>2, <2>3 DEF TypeOK
<1>6. FetchIsOwned'
  BY DEF FetchIsOwned, TypeOK
<1>7. InFlightBlocksDiffer'
  BY <1>2, <1>3 DEF InFlightBlocksDiffer, TypeOK, TabuInv, Ctx
<1>8. FetchInv'
  <2>1. ASSUME NEW d \in Ctx, pc'[d] = "fill"
        PROVE  cacheToRom'[slot'[d]] = None
    <3>1. d # c /\ pc[d] = "fill" /\ slot'[d] = slot[d] /\ slot[d] \in CacheBlocks
      BY <2>1 DEF TypeOK
    <3>2. fetch = NoFetch
      BY <3>1, FetchOwner DEF Ctx, MayRun
    <3>3. slot[d] # fetch.cacheBlock
      BY <3>1, <3>2, NoneIsNoBlock DEF NoFetch
    <3> QED
      BY <3>1, <3>3, <1>4 DEF FetchInv
  <2>2. ASSUME NEW d \in Ctx
        PROVE  /\ token'[d] = "pending" => /\ pc'[d] = "wait"
                     /\ fetch' = [romBlock |-> want'[d], cacheBlock |-> slot'[d], token |-> d]
               /\ pc'[d] = "wait" => token'[d] \in {"pending", "SUCCESS", "IO_ERROR"}
    BY DEF Drained, TypeOK, FetchInv
  <2>3. fetch' # NoFetch =>
            /\ cacheToRom'[fetch'.cacheBlock] = None
            /\ romToCache'[fetch'.romBlock] # None => booting'
            /\ token'[fetch'.token] = "pending"
    BY <1>1 DEF TypeOK
  <2>4. /\ pc'["irq"] = "wait" => fetch'.token = "irq"
        /\ pc'["irq"] \in {"fill", "hold"} => fetch' = NoFetch
    BY <1>2 DEF TypeOK, Ctx
  <2> QED
    BY <2>1, <2>2, <2>3, <2>4 DEF FetchInv
<1>9. TabuInv'
  <2>1. CASE c = "main"
    BY <2>1, <1>2 DEF TabuInv, TypeOK, Ctx, Unguarded
  <2>2. CASE c = "irq"
    <3>1. romToCache'[want["irq"]] = None
      BY <1>1, <2>2
    <3>2. ASSUME NEW x \in CacheBlocks, x = tabu[0]
          PROVE  content'[x] = content[x]
      BY <1>3, <2>2, <3>2 DEF TypeOK
    <3> QED
      BY <2>2, <1>3, <3>1, <3>2 DEF TabuInv, TypeOK, Ctx, Unguarded, MayRun
  <2> QED
    BY <2>1, <2>2 DEF Ctx
<1> QED
  BY <1>1, <1>5, <1>6, <1>7, <1>8, <1>9

\* A load of a block past the end of the file starts to fill it.
LEMMA LoadSynthesizeStep ==
    ASSUME IndInv, NEW c \in Ctx, NEW b \in CacheBlocks, LoadSynthesize(c, b)
    PROVE  IndInv'
<1> USE DEF IndInv, LoadSynthesize, Overwrite, Written
<1>1. /\ romToCache' \in [RomBlocks -> CacheBlocks \union {None}]
      /\ cacheToRom' \in [CacheBlocks -> RomBlocks \union {None}]
      /\ alias' \in CacheBlocks \union {None} /\ jitBits' \subseteq CacheBlocks
      /\ content' \in [CacheBlocks -> RomBlocks \union {None}]
      /\ TablesAgree' /\ MappedIsLoaded'
      /\ cacheToRom'[b] = None
      /\ romToCache'[want[c]] = None \/ (c = "main" /\ booting)
  BY Evicted
<1>2. c = "main" => /\ tabu' = [tabu EXCEPT ![0] = b] /\ tabuLevel' = 1
                    /\ pc["irq"] = "idle"
  BY Evicted
<1>3. c = "irq" => /\ tabu' = tabu /\ tabuLevel' = tabuLevel
                   /\ b # tabu[0]
                   /\ pc["main"] = "hold" /\ want["main"] \in forbidden
                      /\ romToCache[want["main"]] = slot["main"] =>
                        romToCache'[want["main"]] = slot["main"]
  BY Evicted
<1>4. \A x \in CacheBlocks :
        cacheToRom[x] = None /\ x # fetch.cacheBlock => cacheToRom'[x] = None
  BY Evicted
<1>5. TypeOK'
  <2>1. tabu' \in [0 .. 1 -> CacheBlocks \union {None}] /\ tabuLevel' \in 0 .. 1
    BY <1>2, <1>3 DEF TypeOK, Ctx
  <2>2. fetch' = NoFetch
    OBVIOUS
  <2>3. /\ pc' \in [Ctx -> {"idle", "lookup", "enter", "wait", "fill", "hold", "fault"}]
        /\ slot' \in [Ctx -> CacheBlocks]
        /\ token' \in [Ctx -> {"none", "pending", "SUCCESS", "IO_ERROR"}]
    BY DEF TypeOK
  <2> QED
    BY <1>1, <2>1, <2>2, <2>3 DEF TypeOK
<1>6. FetchIsOwned'
  BY DEF FetchIsOwned, TypeOK
<1>7. InFlightBlocksDiffer'
  BY <1>2, <1>3 DEF InFlightBlocksDiffer, TypeOK, TabuInv, Ctx
<1>8. FetchInv'
  <2>1. ASSUME NEW d \in Ctx, pc'[d] = "fill"
        PROVE  cacheToRom'[slot'[d]] = None
    <3>1. CASE d = c
      BY <3>1, <1>1 DEF TypeOK
    <3>2. CASE d # c
      <4>1. pc[d] = "fill" /\ slot'[d] = slot[d] /\ slot[d] \in CacheBlocks
        BY <2>1, <3>2 DEF TypeOK
      <4>2. fetch = NoFetch
        BY <3>2, <4>1, FetchOwner DEF Ctx, MayRun
      <4>3. slot[d] # fetch.cacheBlock
        BY <4>1, <4>2, NoneIsNoBlock DEF NoFetch
      <4> QED
        BY <4>1, <4>3, <1>4 DEF FetchInv
    <3> QED
      BY <3>1, <3>2
  <2>2. pc'["irq"] # "wait"
    BY DEF TypeOK, Ctx, MayRun
  <2> QED
    BY <2>1, <2>2 DEF FetchInv, Drained, TypeOK
<1>9. TabuInv'
  <2>1. CASE c = "main"
    BY <2>1, <1>2 DEF TabuInv, TypeOK, Ctx, Unguarded
  <2>2. CASE c = "irq"
    <3>1. romToCache'[want["irq"]] = None
      BY <1>1, <2>2
    <3>2. ASSUME NEW x \in CacheBlocks, x = tabu[0]
          PROVE  content'[x] = content[x]
      BY <1>3, <2>2, <3>2 DEF TypeOK
    <3> QED
      BY <2>2, <1>3, <3>1, <3>2 DEF TabuInv, TypeOK, Ctx, Unguarded, MayRun
  <2> QED
    BY <2>1, <2>2 DEF Ctx
<1> QED
  BY <1>1, <1>5, <1>6, <1>7, <1>8, <1>9


\* A reader's wait ends.
LEMMA LandStep ==
    ASSUME IndInv, NEW c \in Ctx, Land(c)
    PROVE  IndInv'
<1> USE DEF IndInv, Land, MayRun, Written
<1>1. /\ ~Faulted /\ pc[c] = "wait" /\ token[c] \in {"SUCCESS", "IO_ERROR"}
      /\ want[c] \in RomBlocks /\ slot[c] \in CacheBlocks
  BY DEF FetchInv, TypeOK
<1>2. fetch = NoFetch \/ fetch.token = c \/ (c = "irq" /\ fetch.token = "main")
  BY <1>1, FetchOwner DEF Ctx
<1>3. c = "irq" => fetch.token = "irq"
  BY <1>1 DEF FetchInv
<1>4. fetch # NoFetch => /\ fetch.token = c /\ fetch.romBlock = want[c]
                         /\ fetch.cacheBlock = slot[c]
  BY <1>1, <1>2, <1>3 DEF FetchIsOwned
<1>5. StillMine(c) <=> fetch # NoFetch
  BY <1>1, <1>4, NoneIsNoBlock DEF StillMine, NoFetch
<1>6. Drained
  BY <1>1, <1>2, <1>3, <1>4, NoneIsNoBlock DEF Drained, FetchInv, Ctx, NoFetch
<1>7. fetch' = NoFetch /\ SetTables(Finished)
  <2>1. CASE fetch = NoFetch
    BY <2>1, <1>1, <1>5, <1>6, FinishedGood DEF SetTables, Tables
  <2>2. CASE fetch # NoFetch
    BY <2>2, <1>5
  <2> QED
    BY <2>1, <2>2
<1>8. Good(Finished, content')
  BY <1>1, <1>6, FinishedGood
<1>9. /\ romToCache' \in [RomBlocks -> CacheBlocks \union {None}]
      /\ cacheToRom' \in [CacheBlocks -> RomBlocks \union {None}]
      /\ alias' \in CacheBlocks \union {None} /\ jitBits' \subseteq CacheBlocks
      /\ TablesAgree' /\ MappedIsLoaded'
  BY <1>7, <1>8, GoodTables
<1>10. pc' = [pc EXCEPT ![c] = pc'[c]] /\ pc'[c] \in {"hold", "fault"}
       /\ (pc'[c] = "hold" => token[c] = "SUCCESS")
  BY <1>1 DEF TypeOK
<1>11. TypeOK'
  <2>1. blockCount' \in (LastCache + 1 - MaxPatched) .. (LastCache + 1)
    BY <1>1, SdConstants DEF TypeOK, TabuInv
  <2>2. tabuLevel' \in 0 .. 1
    BY <1>1 DEF PopTabu, TypeOK, TabuInv
  <2>3. pc' \in [Ctx -> {"idle", "lookup", "enter", "wait", "fill", "hold", "fault"}]
    BY DEF TypeOK
  <2> QED
    BY <1>7, <1>9, <2>1, <2>2, <2>3 DEF TypeOK
<1>12. FetchIsOwned'
  BY <1>7 DEF FetchIsOwned
<1>13. InFlightBlocksDiffer'
  BY <1>10 DEF InFlightBlocksDiffer, TypeOK, Ctx
<1>14. FetchInv'
  <2>1. ASSUME NEW d \in Ctx, pc'[d] = "fill"
        PROVE  cacheToRom'[slot'[d]] = None
    <3>1. d # c /\ pc[d] = "fill" /\ slot[d] \in CacheBlocks
      BY <2>1, <1>10 DEF TypeOK
    <3>2. slot[d] # fetch.cacheBlock
      BY <3>1, <1>1, <1>4, NoneIsNoBlock DEF InFlightBlocksDiffer, Ctx, NoFetch
    <3>3. Finished.cacheToRom[slot[d]] = None
      BY <3>1, <3>2, <1>1, <1>6, FinishedGood DEF FetchInv
    <3> QED
      BY <3>3, <1>7 DEF SetTables
  <2>2. pc'["irq"] # "wait"
    BY <1>10 DEF TypeOK, Ctx
  <2>3. ASSUME NEW d \in Ctx
        PROVE  /\ token'[d] # "pending"
               /\ pc'[d] = "wait" => token'[d] \in {"pending", "SUCCESS", "IO_ERROR"}
    BY <1>6, <1>10 DEF Drained, FetchInv, TypeOK
  <2> QED
    BY <2>1, <2>2, <2>3, <1>7 DEF FetchInv
<1>15. TabuInv'
  <2>1. CASE c = "main"
    <3>1. pc["irq"] = "idle" /\ tabuLevel' = 0
      BY <2>1, <1>1 DEF PopTabu, TabuInv
    <3> QED
      BY <2>1, <3>1, <1>1, <1>10 DEF TabuInv, TypeOK, Ctx, Unguarded
  <2>2. CASE c = "irq"
    <3>1. fetch # NoFetch
      BY <2>2, <1>3, NoneIsNoBlock DEF NoFetch, Ctx
    <3>2. pc'["irq"] = "hold" => content[slot["irq"]] = want["irq"]
      BY <2>2, <1>4, <1>10, <3>1 DEF FetchInv
    <3>3. ASSUME pc["main"] = "hold", want["main"] \in forbidden,
                 romToCache[want["main"]] = slot["main"]
          PROVE  romToCache'[want["main"]] = slot["main"]
      <4>1. want["main"] # want["irq"] /\ want["main"] \in RomBlocks
        BY <2>2, <1>1, <3>3, NoneIsNoBlock DEF TabuInv, TypeOK, Ctx
      <4> QED
        BY <2>2, <4>1, <3>1, <1>4, <1>1, <1>6, <1>7, <3>3, FinishedGood DEF SetTables
    <3> QED
      BY <2>2, <3>2, <3>3, <1>10 DEF TabuInv, TypeOK, Ctx, Unguarded, PopTabu
  <2> QED
    BY <2>1, <2>2 DEF Ctx
<1> QED
  BY <1>9, <1>11, <1>12, <1>13, <1>14, <1>15

\* A synthesized block is published.
LEMMA FilledStep ==
    ASSUME IndInv, NEW c \in Ctx, Filled(c)
    PROVE  IndInv'
<1> USE DEF IndInv, Filled, MayRun, Overwrite, Written
<1>1. /\ ~Faulted /\ pc[c] = "fill" /\ want[c] \in RomBlocks /\ slot[c] \in CacheBlocks
      /\ cacheToRom[slot[c]] = None
  BY DEF FetchInv, TypeOK
<1>2. fetch = NoFetch
  BY <1>1, FetchOwner DEF FetchInv, Ctx
<1>3. Good(Tables, content')
  <2>1. Good(Tables, content) /\ Tables.cacheToRom[slot[c]] = None
    BY <1>1, TablesGood DEF Tables
  <2>2. ASSUME NEW r \in RomBlocks, Tables.romToCache[r] # None
        PROVE  content'[Tables.romToCache[r]] = r
    <3>1. Tables.romToCache[r] \in CacheBlocks /\ Tables.romToCache[r] # slot[c]
          /\ content[Tables.romToCache[r]] = r
      BY <2>1, <2>2, NoneIsNoBlock DEF Good, TablesType
    <3> QED
      BY <3>1 DEF TypeOK
  <2> QED
    BY <2>1, <2>2 DEF Good
<1>4. content'[slot[c]] = want[c] /\ Tables.cacheToRom[slot[c]] = None
  BY <1>1 DEF TypeOK, Tables
<1>5. Good(Publish(Tables, want[c], slot[c]), content')
  BY <1>1, <1>3, <1>4, PublishGood
<1>6. /\ romToCache' \in [RomBlocks -> CacheBlocks \union {None}]
      /\ cacheToRom' \in [CacheBlocks -> RomBlocks \union {None}]
      /\ alias' \in CacheBlocks \union {None} /\ jitBits' \subseteq CacheBlocks
      /\ TablesAgree' /\ MappedIsLoaded'
  BY <1>5, GoodTables
<1>7. /\ \A x \in RomBlocks : x # want[c] => romToCache'[x] = romToCache[x]
      /\ \A x \in CacheBlocks : x # slot[c] /\ cacheToRom[x] = None => cacheToRom'[x] = None
  <2>1. Good(Tables, content)
    BY TablesGood
  <2> QED
    BY <2>1, <1>1, PublishOthers DEF SetTables, Tables
<1>8. TypeOK'
  <2>1. tabuLevel' \in 0 .. 1
    BY <1>1 DEF PopTabu, TypeOK, TabuInv
  <2>2. content' \in [CacheBlocks -> RomBlocks \union {None}]
        /\ pc' \in [Ctx -> {"idle", "lookup", "enter", "wait", "fill", "hold", "fault"}]
    BY <1>1 DEF TypeOK
  <2> QED
    BY <1>6, <2>1, <2>2 DEF TypeOK
<1>9. FetchIsOwned' /\ InFlightBlocksDiffer'
  BY <1>2 DEF FetchIsOwned, InFlightBlocksDiffer, TypeOK, Ctx
<1>10. FetchInv'
  <2>1. ASSUME NEW d \in Ctx, pc'[d] = "fill"
        PROVE  cacheToRom'[slot'[d]] = None
    <3>1. d # c /\ pc[d] = "fill" /\ slot[d] \in CacheBlocks
      BY <2>1 DEF TypeOK
    <3>2. slot[d] # slot[c]
      BY <3>1, <1>1 DEF InFlightBlocksDiffer, Ctx
    <3> QED
      BY <3>1, <3>2, <1>7 DEF FetchInv
  <2>2. \A d \in Ctx : token[d] # "pending"
    BY <1>2, NoneIsNoBlock DEF FetchInv, NoFetch, TypeOK, Ctx
  <2>3. pc'["irq"] # "wait"
    BY <1>1, <1>2 DEF TypeOK, Ctx, FetchInv
  <2> QED
    BY <2>1, <2>2, <2>3, <1>2 DEF FetchInv, TypeOK
<1>11. TabuInv'
  <2>1. CASE c = "main"
    <3>1. pc["irq"] = "idle" /\ tabuLevel' = 0
      BY <2>1, <1>1 DEF PopTabu, TabuInv
    <3>2. pc'["main"] = "hold" /\ pc'["irq"] = "idle"
          /\ tabu'[0] = slot'["main"] /\ content'[slot'["main"]] = want'["main"]
      BY <2>1, <3>1, <1>1, <1>4 DEF TabuInv, TypeOK, Ctx
    <3> QED
      BY <3>1, <3>2 DEF TabuInv
  <2>2. CASE c = "irq"
    <3>1. ASSUME pc["main"] = "hold", want["main"] \in forbidden,
                 romToCache[want["main"]] = slot["main"]
          PROVE  romToCache'[want["main"]] = slot["main"]
      <4>1. want["main"] # want["irq"] /\ want["main"] \in RomBlocks
        BY <2>2, <1>1, <3>1, NoneIsNoBlock DEF TabuInv, TypeOK, Ctx
      <4> QED
        BY <2>2, <4>1, <1>7, <3>1
    <3>2. ASSUME NEW x \in CacheBlocks, x = tabu[0]
          PROVE  content'[x] = content[x]
      BY <3>2, <2>2, <1>1 DEF TabuInv, TypeOK
    <3>3. pc'["irq"] = "hold" /\ content'[slot["irq"]] = want["irq"]
          /\ pc'["main"] = pc["main"] /\ tabuLevel' = tabuLevel
      BY <2>2, <1>4 DEF PopTabu, TypeOK, Ctx
    <3>4. slot["main"] \in CacheBlocks
      BY DEF TypeOK, Ctx
    <3> QED
      BY <2>2, <3>1, <3>2, <3>3, <3>4 DEF TabuInv, Unguarded
  <2> QED
    BY <2>1, <2>2 DEF Ctx
<1> QED
  BY <1>6, <1>8, <1>9, <1>10, <1>11

-----------------------------------------------------------------------------
(* What the guest executes.                                                 *)

\* The lines of m are mapped from a block that holds something.
AliasMapped(m) == m.alias # None => m.cacheToRom[m.alias] # None

LEMMA TablesKeepAlias ==
    ASSUME NEW m \in TablesType, AliasMapped(m), NEW r \in RomBlocks, NEW b \in CacheBlocks
    PROVE  AliasMapped(Publish(m, r, b)) /\ AliasMapped(Evict(m, b))
<1>1. AliasMapped(Publish(m, r, b))
  BY NoneIsNoBlock DEF AliasMapped, Publish, TablesType
<1>2. AliasMapped(Evict(m, b))
  BY DEF AliasMapped, Evict, TablesType
<1> QED
  BY <1>1, <1>2

\* Finishing a fetch clears the bits of its block, which had none.
LEMMA FinishedCode ==
    ASSUME IndInv, CodeInv, ~Faulted, Drained
    PROVE  /\ Finished \in TablesType
           /\ AliasMapped(Finished)
           /\ Finished.jitBits = jitBits
<1>1. Tables \in TablesType /\ AliasMapped(Tables)
  BY TablesGood DEF IndInv, Good, CodeInv, AliasMapped, Tables
<1>2. Finished \in TablesType
  BY FinishedGood DEF Good
<1>3. CASE fetch.token # None /\ token[fetch.token] = "SUCCESS"
  <2>1. fetch.romBlock \in RomBlocks /\ fetch.cacheBlock \in CacheBlocks /\ fetch # NoFetch
    BY <1>3, NoneIsNoBlock DEF IndInv, TypeOK, NoFetch
  <2>2. Finished = Publish(Tables, fetch.romBlock, fetch.cacheBlock)
    BY <1>3 DEF Finished
  <2>3. fetch.cacheBlock \notin jitBits
    BY <2>1 DEF CodeInv
  <2> QED
    BY <1>1, <1>2, <2>1, <2>2, <2>3, TablesKeepAlias DEF Publish, FreshBits, Tables
<1>4. CASE ~(fetch.token # None /\ token[fetch.token] = "SUCCESS")
  BY <1>1, <1>2, <1>4 DEF Finished, Tables
<1> QED
  BY <1>3, <1>4

\* Steps that leave the tables, the contents and the bits alone.
LEMMA CodeContextSteps ==
    ASSUME IndInv, CodeInv,
           \/ \E c \in Ctx, r \in RomBlocks : Miss(c, r)
           \/ \E r \in RomBlocks : PatchMiss(r)
           \/ FinishBoot
           \/ \E first, last \in RomBlocks : first <= last /\ StartDma(first, last)
           \/ DmaLookup
           \/ \E c \in Ctx : Use(c)
           \/ ApplyPatch \/ DmaNext \/ DmaDone
    PROVE  CodeInv'
<1>1. /\ UNCHANGED <<romToCache, cacheToRom, content, fetch, jitBits, rewritten>>
      /\ alias' = alias \/ alias' = None
      /\ ~stale'
  <2>1. ASSUME NEW first \in RomBlocks, NEW last \in RomBlocks, StartDma(first, last)
        PROVE  /\ UNCHANGED <<romToCache, cacheToRom, content, fetch, jitBits, rewritten>>
               /\ alias' = None /\ ~stale'
    BY <2>1 DEF StartDma, Written
  <2>2. CASE ~(\E first, last \in RomBlocks : StartDma(first, last))
    <3>1. UNCHANGED <<romToCache, cacheToRom, content, fetch, alias, codeVars>>
      BY <2>2 DEF Miss, PatchMiss, FinishBoot, DmaLookup, Use, ApplyPatch, DmaNext, DmaDone
    <3> QED
      BY <3>1 DEF codeVars, CodeInv
  <2> QED
    BY <2>1, <2>2
<1>2. /\ \A c \in Ctx : pc'[c] = "fill" => pc[c] = "fill" /\ slot'[c] = slot[c]
      /\ pc'["main"] = "wait" => pc["main"] = "wait" /\ slot'["main"] = slot["main"]
                                 /\ token'["main"] = token["main"]
  BY DEF IndInv, TypeOK, Miss, PatchMiss, FinishBoot, StartDma, DmaLookup, Use,
     ApplyPatch, DmaNext, DmaDone, Idle, contextVars, Ctx
<1>3. pc'["main"] = "hold" =>
        \/ cacheToRom[slot'["main"]] # None
        \/ pc'["irq"] \in {"wait", "fill"} /\ slot'["irq"] = slot'["main"]
        \/ Faulted'
  <2>1. CASE DmaLookup
    BY <2>1, NoneIsNoBlock DEF DmaLookup, IndInv, TablesAgree, TypeOK, Ctx
  <2>2. CASE ~DmaLookup
    BY <2>2 DEF IndInv, CodeInv, TypeOK, Miss, PatchMiss, FinishBoot, StartDma, Use,
       ApplyPatch, DmaNext, DmaDone, Idle, contextVars, Ctx, Faulted, MayRun
  <2> QED
    BY <2>1, <2>2
<1> QED
  BY <1>1, <1>2, <1>3 DEF CodeInv

\* The guest maps a block that is mapped, and patches only a loaded one.
LEMMA CodeGuestSteps ==
    ASSUME IndInv, CodeInv,
           \/ \E r \in Code : CodeHit(r)
           \/ \E c \in Ctx : CodeLoaded(c)
           \/ HandleUndefined \/ UnmapHicode
    PROVE  CodeInv'
<1>1. Code \subseteq RomBlocks
  BY SdConstants DEF RomBlocks
<1>2. /\ fetch = NoFetch /\ fetch' = fetch
      /\ cacheToRom' = cacheToRom /\ content' = content
      /\ \A c \in Ctx : pc'[c] \notin {"fill", "wait", "hold"}
  <2>1. ~Faulted /\ pc["irq"] # "wait" /\ pc["main"] # "wait"
    BY DEF CodeHit, CodeLoaded, HandleUndefined, UnmapHicode, GuestNext, MayRun, Ctx
  <2>2. fetch = NoFetch
    BY <2>1, FetchOwner
  <2>3. ASSUME NEW c \in Ctx, CodeLoaded(c)
        PROVE  pc'["main"] = "idle" /\ pc'["irq"] = "idle"
    BY <2>3 DEF CodeLoaded, MayRun, Idle, Ctx, IndInv, TypeOK
  <2>4. pc'["main"] = "idle" /\ pc'["irq"] = "idle"
    BY <2>3 DEF CodeHit, HandleUndefined, UnmapHicode, GuestNext, MayRun, contextVars
  <2>5. fetch' = fetch /\ cacheToRom' = cacheToRom /\ content' = content
    BY DEF CodeHit, CodeLoaded, HandleUndefined, UnmapHicode
  <2> QED
    BY <2>2, <2>4, <2>5 DEF Ctx
<1>3. alias' # None => ~stale' /\ cacheToRom[alias'] # None
  <2>1. ASSUME NEW r \in Code, CodeHit(r)
        PROVE  alias' # None => ~stale' /\ cacheToRom[alias'] # None
    BY <1>1, <2>1, NoneIsNoBlock DEF CodeInv, CodeHit, Map, Patch, IndInv, TablesAgree, TypeOK
  <2>2. ASSUME NEW c \in Ctx, CodeLoaded(c)
        PROVE  alias' # None => ~stale' /\ cacheToRom[alias'] # None
    BY <2>2 DEF CodeLoaded, Map, Patch, CodeInv, MayRun
  <2> QED
    BY <2>1, <2>2 DEF HandleUndefined, UnmapHicode, Patch
<1>4. ~stale'
  BY <1>3 DEF CodeInv, CodeHit, CodeLoaded, HandleUndefined, UnmapHicode, Map, Patch, Written
<1>5. \A b \in CacheBlocks : content[b] # None => (b \in jitBits' <=> b \in rewritten')
  BY DEF CodeInv, CodeHit, CodeLoaded, HandleUndefined, UnmapHicode, Map, Patch
<1> QED
  BY <1>2, <1>3, <1>4, <1>5 DEF CodeInv, Ctx

\* The ARM7 writes into a block without bits, which no line is mapped from.
LEMMA CodeCompleteStep ==
    ASSUME IndInv, CodeInv, NEW c \in Ctx, NEW result \in {"SUCCESS", "IO_ERROR"},
           Complete(c, result)
    PROVE  CodeInv'
<1>1. /\ pc[c] = "wait" /\ fetch.cacheBlock = slot[c] /\ fetch.token = c
      /\ fetch # NoFetch /\ slot[c] \in CacheBlocks /\ cacheToRom[slot[c]] = None
  BY NoneIsNoBlock DEF Complete, IndInv, FetchInv, TypeOK, NoFetch
<1>2. slot[c] \notin jitBits \union rewritten
  BY <1>1 DEF CodeInv
<1>3. /\ alias' = alias /\ jitBits' = jitBits /\ rewritten' = rewritten /\ ~stale'
      /\ \A b \in CacheBlocks : b # slot[c] => content'[b] = content[b]
  BY <1>1, <1>2 DEF Complete, Overwrite, Written, CodeInv, IndInv, TypeOK
<1>4. token'["main"] = "SUCCESS" /\ fetch.token # "main" => token["main"] = "SUCCESS"
  BY <1>1 DEF Complete, IndInv, TypeOK, Ctx
<1> QED
  BY <1>2, <1>3, <1>4 DEF Complete, CodeInv, Faulted

\* A load finds its block mapped.
LEMMA CodeLoadHitStep ==
    ASSUME IndInv, CodeInv, NEW c \in Ctx, LoadHit(c)
    PROVE  CodeInv'
<1>1. ~Faulted /\ Drained /\ SetTables(Finished) /\ Good(Finished, content)
  BY FinishedGood DEF LoadHit, MayRun
<1>2. /\ alias' # None => cacheToRom'[alias'] # None
      /\ jitBits' = jitBits /\ rewritten' = rewritten /\ content' = content /\ ~stale'
      /\ fetch' = NoFetch
  BY <1>1, FinishedCode DEF LoadHit, SetTables, AliasMapped, Written, CodeInv
<1>3. \A d \in Ctx : pc'[d] = "fill" => pc[d] = "fill" /\ slot'[d] = slot[d]
  BY DEF LoadHit, IndInv, TypeOK
<1>4. ASSUME pc'["main"] = "wait", token'["main"] = "SUCCESS"
      PROVE  cacheToRom'[slot'["main"]] # None
  <2>1. c = "irq" /\ pc["main"] = "wait" /\ token["main"] = "SUCCESS"
        /\ slot'["main"] = slot["main"] /\ slot["main"] \in CacheBlocks
        /\ want["main"] \in RomBlocks
    BY <1>4 DEF LoadHit, IndInv, TypeOK, Ctx
  <2>2. CASE fetch.token = "main"
    <3>1. fetch # NoFetch /\ fetch.cacheBlock = slot["main"] /\ fetch.romBlock = want["main"]
      BY <2>2, <1>1, NoneIsNoBlock DEF IndInv, FetchIsOwned, NoFetch, Ctx
    <3>2. Finished = Publish(Tables, want["main"], slot["main"])
      BY <2>1, <2>2, <3>1, NoneIsNoBlock DEF Finished, Ctx
    <3> QED
      BY <2>1, <3>2, <1>1, NoneIsNoBlock DEF Publish, SetTables
  <2>3. CASE fetch.token # "main"
    <3>1. fetch = NoFetch
      BY <2>1, <2>3, <1>1, FetchOwner DEF LoadHit, Ctx
    <3> QED
      BY <2>1, <2>3, <3>1, <1>1, FinishedGood DEF CodeInv, SetTables, Tables
  <2> QED
    BY <2>2, <2>3
<1>5. ASSUME pc'["main"] = "hold"
      PROVE  cacheToRom'[slot'["main"]] # None
  <2>1. CASE c = "main"
    <3>1. /\ slot'["main"] = Finished.romToCache[want["main"]]
          /\ want["main"] \in RomBlocks /\ Finished.romToCache[want["main"]] # None
      BY <2>1 DEF LoadHit, Found, IndInv, TypeOK, Ctx
    <3> QED
      BY <3>1, <1>1, NoneIsNoBlock DEF Good, SetTables
  <2>2. CASE c = "irq"
    <3>1. pc["main"] = "hold" /\ pc["irq"] = "enter" /\ slot'["main"] = slot["main"]
      BY <1>5, <2>2 DEF LoadHit, IndInv, TypeOK, Ctx
    <3>2. fetch = NoFetch
      BY <3>1, <1>1, FetchOwner
    <3> QED
      BY <3>1, <3>2, <1>1, FinishedGood DEF CodeInv, SetTables, Tables
  <2> QED
    BY <2>1, <2>2 DEF Ctx
<1> QED
  BY <1>2, <1>3, <1>4, <1>5 DEF CodeInv


\* A load evicts a block, whose bits are cleared, and begins to overwrite it.
LEMMA CodeEvictSteps ==
    ASSUME IndInv, CodeInv, NEW c \in Ctx, NEW b \in CacheBlocks,
           LoadFetch(c, b) \/ LoadSynthesize(c, b)
    PROVE  CodeInv'
<1>1. /\ MayRun(c) /\ pc[c] = "enter" /\ Drained /\ ~Found(c, Finished) /\ Target(c, b)
      /\ SetTables(Evict(Finished, b)) /\ Overwrite(b, None) /\ PushTabu(c, b)
      /\ slot' = [slot EXCEPT ![c] = b]
      /\ pc' = [pc EXCEPT ![c] = pc'[c]] /\ pc'[c] \in {"wait", "fill"}
      /\ fetch' = NoFetch \/ (pc'[c] = "wait" /\ fetch'.cacheBlock = b /\ fetch'.token = c)
      /\ \A d \in Ctx : d # c => token'[d] = token[d]
      /\ pc'[c] = "wait" => token'[c] = "pending"
  BY DEF LoadFetch, LoadSynthesize, IndInv, TypeOK
<1>2. ~Faulted /\ Finished \in TablesType /\ AliasMapped(Finished) /\ Finished.jitBits = jitBits
  BY <1>1, FinishedCode DEF MayRun
<1>3. /\ alias' # None => cacheToRom'[alias'] # None
      /\ jitBits' = jitBits \ {b} /\ rewritten' = rewritten \ {b}
      /\ cacheToRom' = [Finished.cacheToRom EXCEPT ![b] = None]
  <2>1. AliasMapped(Evict(Finished, b))
    BY <1>2, TablesKeepAlias, ZeroIsBlock
  <2> QED
    BY <1>1, <1>2, <2>1 DEF SetTables, AliasMapped, Overwrite, Evict, FreshBits
<1>4. cacheToRom'[b] = None
  BY <1>2, <1>3 DEF TablesType
<1>5. ~stale' /\ \A x \in CacheBlocks : x # b => content'[x] = content[x]
  BY <1>1, <1>3, <1>4 DEF Overwrite, Written, CodeInv, IndInv, TypeOK
<1>6. content'[b] = None
  BY <1>1 DEF Overwrite, IndInv, TypeOK
<1>7. \A x \in CacheBlocks : content'[x] # None => (x \in jitBits' <=> x \in rewritten')
  BY <1>3, <1>5, <1>6 DEF CodeInv
<1>8. ASSUME NEW d \in Ctx, pc'[d] = "fill"
      PROVE  slot'[d] \notin jitBits' \union rewritten'
  BY <1>1, <1>3, <1>8 DEF CodeInv, IndInv, TypeOK
<1>9. fetch' # NoFetch => fetch'.cacheBlock \notin jitBits' \union rewritten'
  BY <1>1, <1>3
<1>10. ASSUME c = "irq", pc["main"] \in {"wait", "hold"}
       PROVE  /\ pc["main"] = "hold" => fetch = NoFetch
              /\ pc["main"] = "wait" => slot["main"] # b
              /\ slot'["main"] = slot["main"] /\ slot["main"] \in CacheBlocks
              /\ want["main"] \in RomBlocks
  <2>1. pc["main"] = "hold" => fetch = NoFetch
    BY <1>1, <1>2, <1>10, FetchOwner
  <2>2. b \in Victims
    BY <1>1, <1>10 DEF Target
  <2>3. pc["main"] = "wait" => slot["main"] # b
    BY <2>2, VictimsAvoidTabu, NoneIsNoBlock DEF IndInv, TabuInv, TypeOK, Ctx
  <2> QED
    BY <1>1, <1>10, <2>1, <2>3 DEF IndInv, TypeOK, Ctx
<1>11. ASSUME pc'["main"] = "wait", token'["main"] = "SUCCESS"
       PROVE  cacheToRom'[slot'["main"]] # None
  <2>1. c = "irq" /\ pc["main"] = "wait" /\ token["main"] = "SUCCESS"
    BY <1>1, <1>11 DEF IndInv, TypeOK, Ctx
  <2>2. CASE fetch.token = "main"
    <3>1. fetch # NoFetch /\ fetch.cacheBlock = slot["main"] /\ fetch.romBlock = want["main"]
      BY <2>2, <1>2, NoneIsNoBlock DEF IndInv, FetchIsOwned, NoFetch, Ctx
    <3>2. Finished = Publish(Tables, want["main"], slot["main"])
      BY <2>1, <2>2, <3>1, NoneIsNoBlock DEF Finished, Ctx
    <3> QED
      BY <2>1, <3>2, <1>2, <1>3, <1>10, NoneIsNoBlock DEF Publish, TablesType
  <2>3. CASE fetch.token # "main"
    <3>1. fetch = NoFetch
      BY <1>1, <1>2, <2>1, <2>3, FetchOwner DEF Ctx
    <3>2. Finished.cacheToRom = cacheToRom
      BY <3>1, <1>1, <1>2, FinishedGood DEF Tables
    <3> QED
      BY <2>1, <2>3, <3>2, <1>2, <1>3, <1>10 DEF CodeInv, TablesType
  <2> QED
    BY <2>2, <2>3
<1>12. ASSUME pc'["main"] = "hold"
       PROVE  \/ cacheToRom'[slot'["main"]] # None
              \/ pc'["irq"] \in {"wait", "fill"} /\ slot'["irq"] = slot'["main"]
  <2>1. c = "irq" /\ pc["main"] = "hold"
    BY <1>1, <1>12 DEF IndInv, TypeOK, Ctx
  <2>2. Finished.cacheToRom = cacheToRom
    BY <2>1, <1>1, <1>2, <1>10, FinishedGood DEF Tables
  <2>3. cacheToRom[slot["main"]] # None
    BY <1>1, <1>2, <2>1 DEF CodeInv
  <2> QED
    BY <1>1, <1>2, <1>3, <1>10, <2>1, <2>2, <2>3 DEF TablesType, IndInv, TypeOK, Ctx
<1> QED
  BY <1>3, <1>5, <1>7, <1>8, <1>9, <1>11, <1>12 DEF CodeInv

\* What a publication by c leaves, whatever was fetched or synthesized.
LEMMA CodePublished ==
    ASSUME IndInv, CodeInv, NEW c \in Ctx, ~Faulted,
           pc[c] \in {"wait", "fill"},
           c = "irq" => romToCache[want["irq"]] = None,
           SetTables(Publish(Tables, want[c], slot[c]))
    PROVE  /\ alias' # None => cacheToRom'[alias'] # None
           /\ jitBits' = jitBits \ {slot[c]}
           /\ cacheToRom'[slot[c]] # None
           /\ c = "irq" => \A x \in CacheBlocks :
                             cacheToRom[x] # None => cacheToRom'[x] # None
<1>1. want[c] \in RomBlocks /\ slot[c] \in CacheBlocks
  BY DEF IndInv, TypeOK
<1>2. Tables \in TablesType /\ AliasMapped(Tables)
  BY TablesGood DEF IndInv, Good, CodeInv, AliasMapped, Tables
<1>3. AliasMapped(Publish(Tables, want[c], slot[c]))
  BY <1>1, <1>2, TablesKeepAlias
<1> QED
  BY <1>1, <1>3, NoneIsNoBlock DEF SetTables, AliasMapped, Publish, FreshBits, Tables

\* A reader's wait ends.
LEMMA CodeLandStep ==
    ASSUME IndInv, CodeInv, NEW c \in Ctx, Land(c)
    PROVE  CodeInv'
<1>1. /\ ~Faulted /\ pc[c] = "wait" /\ token[c] \in {"SUCCESS", "IO_ERROR"}
      /\ slot[c] \in CacheBlocks /\ want[c] \in RomBlocks
      /\ pc' = [pc EXCEPT ![c] = IF token[c] = "SUCCESS" THEN "hold" ELSE "fault"]
      /\ UNCHANGED <<content, rewritten, slot, want, token>>
  BY DEF Land, MayRun, IndInv, FetchInv, TypeOK
<1>2. fetch # NoFetch => fetch.token = c /\ fetch.romBlock = want[c]
                         /\ fetch.cacheBlock = slot[c]
  <2>1. c = "irq" => fetch.token = "irq"
    BY <1>1 DEF IndInv, FetchInv
  <2>2. c = "main" => pc["irq"] = "idle"
    BY DEF Land, MayRun
  <2> QED
    BY <1>1, <2>1, <2>2, FetchOwner DEF IndInv, FetchIsOwned, Ctx
<1>3. c = "irq" => fetch # NoFetch
  BY <1>1, NoneIsNoBlock DEF IndInv, FetchInv, NoFetch, Ctx
<1>4. c = "irq" => romToCache[want["irq"]] = None
  BY <1>1 DEF IndInv, TabuInv
<1>5. CASE fetch # NoFetch /\ token[c] = "SUCCESS"
  <2>1. StillMine(c) /\ Finished = Publish(Tables, want[c], slot[c])
    BY <1>2, <1>5, NoneIsNoBlock DEF StillMine, Finished
  <2>2. SetTables(Publish(Tables, want[c], slot[c])) /\ fetch' = NoFetch
    BY <2>1 DEF Land
  <2>3. /\ alias' # None => cacheToRom'[alias'] # None
        /\ jitBits' = jitBits \ {slot[c]}
        /\ cacheToRom'[slot[c]] # None
        /\ c = "irq" => \A x \in CacheBlocks :
                          cacheToRom[x] # None => cacheToRom'[x] # None
    BY <1>1, <1>4, <2>2, CodePublished
  <2>4. slot[c] \notin jitBits \union rewritten
    BY <1>2, <1>5 DEF CodeInv
  <2>5. ~stale' /\ jitBits' = jitBits
    BY <2>3, <2>4 DEF Land, Written, CodeInv
  <2>6. \A d \in Ctx : pc'[d] = "fill" => pc[d] = "fill"
    BY <1>1 DEF IndInv, TypeOK
  <2>7. ASSUME pc'["main"] = "wait", token["main"] = "SUCCESS"
        PROVE  cacheToRom'[slot["main"]] # None
    <3>1. c = "irq" /\ pc["main"] = "wait" /\ slot["main"] \in CacheBlocks
      BY <1>1, <2>7 DEF IndInv, TypeOK, Ctx
    <3> QED
      BY <1>2, <1>5, <2>3, <2>7, <3>1 DEF CodeInv
  <2>8. ASSUME pc'["main"] = "hold"
        PROVE  cacheToRom'[slot["main"]] # None
    <3>1. CASE c = "main"
      BY <3>1, <2>3
    <3>2. CASE c = "irq"
      BY <1>1, <2>3, <2>8, <3>2 DEF CodeInv, IndInv, TypeOK, Ctx
    <3> QED
      BY <3>1, <3>2 DEF Ctx
  <2> QED
    BY <1>1, <2>2, <2>3, <2>5, <2>6, <2>7, <2>8 DEF CodeInv
<1>6. CASE ~(fetch # NoFetch /\ token[c] = "SUCCESS")
  <2>1. /\ UNCHANGED <<romToCache, cacheToRom, alias, jitBits>>
        /\ fetch' = NoFetch
    <3>1. CASE fetch = NoFetch
      BY <1>1, <3>1, NoneIsNoBlock DEF Land, StillMine, NoFetch
    <3>2. CASE fetch # NoFetch
      <4>1. StillMine(c) /\ Finished = Tables
        BY <1>2, <1>6, <3>2 DEF StillMine, Finished
      <4> QED
        BY <4>1 DEF Land, SetTables, Tables
    <3> QED
      BY <3>1, <3>2
  <2>2. ~stale'
    BY DEF Land, Written, CodeInv
  <2>3. \A d \in Ctx : pc'[d] = "fill" => pc[d] = "fill"
    BY <1>1 DEF IndInv, TypeOK
  <2>4. CASE token[c] = "SUCCESS"
    <3>1. fetch = NoFetch /\ c = "main"
      BY <2>4, <1>6, <1>3 DEF Ctx
    <3>2. cacheToRom[slot["main"]] # None
      BY <1>1, <2>4, <3>1, NoneIsNoBlock DEF CodeInv, NoFetch, Ctx
    <3>3. pc'["main"] # "wait"
      BY <1>1, <3>1 DEF IndInv, TypeOK, Ctx
    <3> QED
      BY <1>1, <2>1, <2>2, <2>3, <3>1, <3>2, <3>3 DEF CodeInv
  <2>5. CASE token[c] # "SUCCESS"
    <3>1. Faulted'
      BY <1>1, <2>5 DEF Faulted, IndInv, TypeOK
    <3>2. pc'["main"] = "wait" => c = "irq" /\ pc["main"] = "wait"
      BY <1>1 DEF IndInv, TypeOK, Ctx
    <3>3. c = "irq" => fetch.token # "main"
      BY <1>2, <1>3
    <3> QED
      BY <1>1, <2>1, <2>2, <2>3, <3>1, <3>2, <3>3 DEF CodeInv
  <2> QED
    BY <2>4, <2>5
<1> QED
  BY <1>5, <1>6

\* A synthesized block is published.
LEMMA CodeFilledStep ==
    ASSUME IndInv, CodeInv, NEW c \in Ctx, Filled(c)
    PROVE  CodeInv'
<1>1. /\ ~Faulted /\ pc[c] = "fill" /\ slot[c] \in CacheBlocks /\ want[c] \in RomBlocks
      /\ pc' = [pc EXCEPT ![c] = "hold"]
      /\ UNCHANGED <<fetch, slot, want, token>>
      /\ slot[c] \notin jitBits \union rewritten
      /\ SetTables(Publish(Tables, want[c], slot[c])) /\ Overwrite(slot[c], want[c])
  BY DEF Filled, MayRun, IndInv, TypeOK, CodeInv
<1>2. c = "irq" => romToCache[want["irq"]] = None
  BY <1>1 DEF IndInv, TabuInv
<1>3. /\ alias' # None => cacheToRom'[alias'] # None
      /\ jitBits' = jitBits /\ rewritten' = rewritten
      /\ cacheToRom'[slot[c]] # None
      /\ c = "irq" => \A x \in CacheBlocks :
                        cacheToRom[x] # None => cacheToRom'[x] # None
  <2>1. pc[c] \in {"wait", "fill"}
    BY <1>1
  <2>2. /\ alias' # None => cacheToRom'[alias'] # None
        /\ jitBits' = jitBits \ {slot[c]}
        /\ cacheToRom'[slot[c]] # None
        /\ c = "irq" => \A x \in CacheBlocks :
                          cacheToRom[x] # None => cacheToRom'[x] # None
    BY <1>1, <1>2, <2>1, CodePublished
  <2> QED
    BY <1>1, <2>2 DEF Overwrite
<1>4. cacheToRom[slot[c]] = None
  BY <1>1 DEF IndInv, FetchInv
<1>5. alias' # slot[c] /\ ~stale'
  BY <1>1, <1>4, NoneIsNoBlock DEF SetTables, Publish, Tables, Overwrite, Written, CodeInv
<1>6. \A x \in CacheBlocks : content'[x] # None => (x \in jitBits' <=> x \in rewritten')
  BY <1>1, <1>3 DEF Overwrite, CodeInv, IndInv, TypeOK
<1>7. \A d \in Ctx : pc'[d] = "fill" => pc[d] = "fill"
  BY <1>1 DEF IndInv, TypeOK
<1>8. ASSUME pc'["main"] = "wait", token["main"] = "SUCCESS", fetch.token # "main"
      PROVE  cacheToRom'[slot["main"]] # None
  <2>1. c = "irq" /\ pc["main"] = "wait" /\ slot["main"] \in CacheBlocks
    BY <1>1, <1>8 DEF IndInv, TypeOK, Ctx
  <2> QED
    BY <1>3, <1>8, <2>1 DEF CodeInv
<1>9. ASSUME pc'["main"] = "hold"
      PROVE  cacheToRom'[slot["main"]] # None
  <2>1. CASE c = "main"
    BY <2>1, <1>3
  <2>2. CASE c = "irq"
    BY <1>1, <1>3, <1>9, <2>2 DEF CodeInv, IndInv, TypeOK, Ctx
  <2> QED
    BY <2>1, <2>2 DEF Ctx
<1> QED
  BY <1>1, <1>3, <1>5, <1>6, <1>7, <1>8, <1>9 DEF CodeInv

LEMMA CodeInit == Init => CodeInv
BY DEF Init, CodeInv, Ctx

LEMMA CodeNext == IndInv /\ CodeInv /\ [Next]_vars => CodeInv'
<1> SUFFICES ASSUME IndInv, CodeInv, [Next]_vars PROVE CodeInv'
  OBVIOUS
<1>1. CASE UNCHANGED vars
  BY <1>1 DEF vars, codeVars, contextVars, CodeInv, Faulted
<1>2. CASE Next
  BY <1>2, CodeContextSteps, CodeGuestSteps, CodeCompleteStep, CodeLoadHitStep,
     CodeEvictSteps, CodeLandStep, CodeFilledStep DEF Next, Load, Dma
<1> QED
  BY <1>1, <1>2

-----------------------------------------------------------------------------
(* What is patched.                                                         *)

PatchesMapped(m) == \A x \in patched : content[x] # None /\ m.romToCache[content[x]] = x

LEMMA VictimsInRange ==
    ASSUME TypeOK, tabu[1] = None, NEW b \in Victims
    PROVE  b < blockCount
<1>1. blockCount \in Int /\ blockCount >= 2
  BY SdConstants DEF TypeOK
<1>2. CASE tabu[0] = None
  <2>1. {i \in 0 .. 1 : (i = 0 \/ tabuLevel > 0) /\ tabu[i] # None} = {}
    BY <1>2
  <2>2. Cardinality({i \in 0 .. 1 : (i = 0 \/ tabuLevel > 0) /\ tabu[i] # None}) = 0
    BY <2>1, FS_EmptySet
  <2>3. \A x \in 0 .. (blockCount - 1) : x # None
    BY SdConstants
  <2> QED
    BY <1>1, <1>2, <2>2, <2>3 DEF Victims
<1>3. CASE tabu[0] # None
  <2>1. {i \in 0 .. 1 : (i = 0 \/ tabuLevel > 0) /\ tabu[i] # None} = {0}
    BY <1>3
  <2>2. Cardinality({i \in 0 .. 1 : (i = 0 \/ tabuLevel > 0) /\ tabu[i] # None}) = 1
    BY <2>1, FS_Singleton
  <2>3. \A x \in 0 .. (blockCount - 2) : x # None
    BY SdConstants
  <2> QED
    BY <1>1, <2>2, <2>3 DEF Victims
<1> QED
  BY <1>2, <1>3

\* The block a load overwrites has no patch in it.
LEMMA TargetIsUnpatched ==
    ASSUME IndInv, PatchInv, NEW c \in Ctx, pc[c] = "enter", NEW b \in CacheBlocks,
           Target(c, b)
    PROVE  b \notin patched
<1>1. CASE c = "main" /\ op = "patch"
  BY <1>1 DEF Target, PatchInv
<1>2. CASE ~(c = "main" /\ op = "patch")
  <2>1. b < blockCount
    BY <1>2, VictimsInRange DEF Target, IndInv, TabuInv
  <2> QED
    BY <2>1, SdConstants DEF PatchInv, IndInv, TypeOK, CacheBlocks
<1> QED
  BY <1>1, <1>2

\* Neither operator moves a patched block, or anything onto one.
LEMMA TablesKeepPatches ==
    ASSUME IndInv, NEW m, Good(m, content), PatchesMapped(m),
           NEW r \in RomBlocks, m.romToCache[r] \notin patched,
           NEW b \in CacheBlocks, b \notin patched
    PROVE  /\ PatchesMapped(Publish(m, r, b)) /\ PatchesMapped(Evict(m, b))
           /\ \A x \in RomBlocks : Publish(m, r, b).romToCache[x] \in patched =>
                                        m.romToCache[x] \in patched
           /\ \A x \in RomBlocks : Evict(m, b).romToCache[x] \in patched =>
                                        m.romToCache[x] \in patched
<1>1. patched \subseteq CacheBlocks /\ None \notin patched
      /\ content \in [CacheBlocks -> RomBlocks \union {None}]
      /\ m \in TablesType
  BY NoneIsNoBlock DEF IndInv, TypeOK, Good
<1>2. Publish(m, r, b).romToCache = [m.romToCache EXCEPT ![r] = b]
  BY DEF Publish
<1>3. Evict(m, b).romToCache =
        [x \in RomBlocks |-> IF x = m.cacheToRom[b] THEN None ELSE m.romToCache[x]]
  BY DEF Evict
<1>4. ASSUME NEW x \in patched
      PROVE  /\ content[x] \in RomBlocks /\ content[x] # r /\ content[x] # m.cacheToRom[b]
             /\ m.romToCache[content[x]] = x /\ content[x] # None
  <2>1. content[x] \in RomBlocks /\ m.romToCache[content[x]] = x /\ content[x] # None
    BY <1>1 DEF PatchesMapped
  <2>2. content[x] # m.cacheToRom[b]
    BY <1>1, <2>1, NoneIsNoBlock DEF Good
  <2> QED
    BY <2>1, <2>2
<1>5. PatchesMapped(Publish(m, r, b)) /\ PatchesMapped(Evict(m, b))
  BY <1>1, <1>2, <1>3, <1>4 DEF PatchesMapped, TablesType
<1> QED
  BY <1>1, <1>2, <1>3, <1>5 DEF TablesType

\* Whose fetch is finished, it is not of a patched block.
LEMMA FinishedPatches ==
    ASSUME IndInv, PatchInv, PatchesStay, ~Faulted, Drained
    PROVE  /\ PatchesMapped(Finished)
           /\ \A x \in RomBlocks : Finished.romToCache[x] \in patched =>
                                        romToCache[x] \in patched
<1>1. Good(Tables, content) /\ PatchesMapped(Tables)
  BY TablesGood DEF IndInv, PatchesStay, PatchesMapped, Tables
<1>2. CASE fetch.token # None /\ token[fetch.token] = "SUCCESS"
  <2>1. /\ fetch # NoFetch /\ fetch.romBlock \in RomBlocks /\ fetch.cacheBlock \in CacheBlocks
        /\ fetch.token \in Ctx
    BY <1>2, NoneIsNoBlock DEF IndInv, TypeOK, NoFetch
  <2>2. romToCache[fetch.romBlock] \notin patched /\ fetch.cacheBlock \notin patched
    BY <2>1 DEF IndInv, FetchIsOwned, PatchInv
  <2>3. Finished = Publish(Tables, fetch.romBlock, fetch.cacheBlock)
    BY <1>2 DEF Finished
  <2> QED
    BY <1>1, <2>1, <2>2, <2>3, TablesKeepPatches DEF Tables
<1>3. CASE ~(fetch.token # None /\ token[fetch.token] = "SUCCESS")
  BY <1>1, <1>3 DEF Finished, Tables
<1> QED
  BY <1>2, <1>3

\* While a patch is being made no handler runs.
LEMMA PatchingAlone ==
    ASSUME IndInv, PatchInv, op = "patch", pc["main"] \in {"enter", "wait", "fill", "hold"}
    PROVE  booting /\ pc["irq"] = "idle"
BY DEF IndInv, TabuInv, PatchInv

\* Steps that leave tables, contents and patches alone.
LEMMA PatchContextSteps ==
    ASSUME IndInv, PatchInv, PatchesStay,
           \/ \E c \in Ctx, r \in RomBlocks : Miss(c, r)
           \/ \E r \in RomBlocks : PatchMiss(r)
           \/ FinishBoot
           \/ \E first, last \in RomBlocks : first <= last /\ StartDma(first, last)
           \/ DmaLookup \/ DmaNext \/ DmaDone
           \/ \E c \in Ctx : Use(c) \/ CodeLoaded(c)
           \/ (\E r \in Code : CodeHit(r)) \/ HandleUndefined \/ UnmapHicode
    PROVE  PatchInv' /\ PatchesStay'
<1> USE NoneIsNoBlock
<1>1. UNCHANGED <<romToCache, content, patched, fetch>>
  BY DEF Miss, PatchMiss, FinishBoot, StartDma, DmaLookup, DmaNext, DmaDone, Use,
     CodeLoaded, CodeHit, HandleUndefined, UnmapHicode
<1>2. PatchesStay'
  BY <1>1 DEF PatchesStay
<1>3. None \notin patched
  BY DEF IndInv, TypeOK
<1>4. ASSUME NEW r \in RomBlocks, PatchMiss(r)
      PROVE  PatchInv'
  <2>1. blockCount' = blockCount - 1 /\ blockCount \in Int
        /\ patched \subseteq CacheBlocks /\ CacheBlocks \subseteq Int
    BY <1>4, SdConstants DEF PatchMiss, IndInv, TypeOK, CacheBlocks
  <2>2. ASSUME NEW b \in patched
        PROVE  b > blockCount' /\ b \in blockCount .. LastCache
    <3>1. b \in CacheBlocks /\ b \in Int
      BY <2>1
    <3>2. b >= blockCount
      BY DEF PatchInv
    <3> QED
      BY <2>1, <3>1, <3>2, SdConstants DEF CacheBlocks
  <2>3. romToCache[r] \notin patched
    BY <1>4, <2>2 DEF PatchMiss
  <2>4. /\ pc' = [pc EXCEPT !["main"] = "enter"] /\ want' = [want EXCEPT !["main"] = r]
        /\ pc["irq"] = "idle" /\ booting'
    BY <1>4 DEF PatchMiss, MayRun
  <2> QED
    BY <1>1, <1>4, <2>1, <2>2, <2>3, <2>4 DEF PatchMiss, PatchInv, IndInv, TypeOK, Ctx
<1>5. ASSUME ~(\E r \in RomBlocks : PatchMiss(r))
      PROVE  PatchInv'
  <2>1. blockCount' = blockCount
    BY <1>5 DEF Miss, FinishBoot, StartDma, DmaLookup, DmaNext, DmaDone, Use,
       CodeLoaded, CodeHit, HandleUndefined, UnmapHicode
  <2>2. ASSUME NEW c \in Ctx, NEW r \in RomBlocks, Miss(c, r)
        PROVE  PatchInv'
    BY <1>1, <1>3, <2>1, <2>2 DEF Miss, MayRun, PatchInv, IndInv, TypeOK, TabuInv, Ctx
  <2>3. CASE FinishBoot
    BY <1>1, <2>1, <2>3 DEF FinishBoot, PatchInv, contextVars
  <2>4. ASSUME NEW first \in RomBlocks, NEW last \in RomBlocks, StartDma(first, last)
        PROVE  PatchInv'
    BY <1>1, <2>1, <2>4 DEF StartDma, MayRun, PatchInv, IndInv, TypeOK, Ctx
  <2>5. CASE DmaLookup
    BY <1>1, <1>3, <2>1, <2>5 DEF DmaLookup, MayRun, PatchInv, IndInv, TypeOK, TabuInv, Ctx
  <2>6. CASE DmaNext \/ DmaDone
    BY <1>1, <2>1, <2>6 DEF DmaNext, DmaDone, Idle, MayRun, PatchInv, IndInv, TypeOK, Ctx
  <2>7. ASSUME NEW c \in Ctx, Use(c) \/ CodeLoaded(c)
        PROVE  PatchInv'
    BY <1>1, <2>1, <2>7 DEF Use, CodeLoaded, Idle, MayRun, PatchInv, IndInv, TypeOK, Ctx
  <2>8. CASE (\E r \in Code : CodeHit(r)) \/ HandleUndefined \/ UnmapHicode
    BY <1>1, <2>1, <2>8 DEF CodeHit, HandleUndefined, UnmapHicode, PatchInv, contextVars
  <2> QED
    BY <1>5, <2>2, <2>3, <2>4, <2>5, <2>6, <2>7, <2>8
<1> QED
  BY <1>2, <1>4, <1>5

\* The patcher writes into the reserved block, which is loaded and mapped.
LEMMA ApplyPatchStep ==
    ASSUME IndInv, PatchInv, PatchesStay, ApplyPatch
    PROVE  PatchInv' /\ PatchesStay'
<1>1. /\ op = "patch" /\ pc["main"] = "hold" /\ pc["irq"] = "idle"
      /\ slot["main"] = blockCount /\ content[slot["main"]] = want["main"]
      /\ romToCache[want["main"]] = slot["main"] /\ want["main"] \in RomBlocks
      /\ blockCount \in Int
  BY SdConstants DEF ApplyPatch, MayRun, PatchInv, IndInv, TypeOK, Ctx
<1>2. /\ patched' = patched \union {blockCount}
      /\ UNCHANGED <<romToCache, content, blockCount, op, fetch, booting>>
      /\ pc'["main"] = "idle" /\ pc'["irq"] = "idle"
  BY <1>1 DEF ApplyPatch, Idle, IndInv, TypeOK, Ctx
<1>3. PatchesStay'
  BY <1>1, <1>2, NoneIsNoBlock DEF PatchesStay
<1>4. PatchInv'
  BY <1>1, <1>2 DEF PatchInv, Ctx
<1> QED
  BY <1>3, <1>4

\* The ARM7 writes into a block without a patch.
LEMMA PatchCompleteStep ==
    ASSUME IndInv, PatchInv, PatchesStay, NEW c \in Ctx,
           NEW result \in {"SUCCESS", "IO_ERROR"}, Complete(c, result)
    PROVE  PatchInv' /\ PatchesStay'
<1>1. pc[c] = "wait" /\ slot[c] \notin patched /\ slot[c] \in CacheBlocks
  BY DEF Complete, IndInv, FetchInv, PatchInv, TypeOK
<1>2. \A x \in CacheBlocks : x # slot[c] => content'[x] = content[x]
  BY DEF Complete, Overwrite, IndInv, TypeOK
<1>3. PatchesStay'
  BY <1>1, <1>2 DEF Complete, PatchesStay, IndInv, TypeOK
<1>4. op = "patch" /\ pc["main"] = "hold" => c = "irq" /\ pc["irq"] = "idle"
  BY <1>1, PatchingAlone DEF Ctx
<1>5. PatchInv'
  BY <1>1, <1>4 DEF Complete, PatchInv
<1> QED
  BY <1>3, <1>5


\* A load finds its block mapped.
LEMMA PatchLoadHitStep ==
    ASSUME IndInv, PatchInv, PatchesStay, NEW c \in Ctx, LoadHit(c)
    PROVE  PatchInv' /\ PatchesStay'
<1>1. /\ ~Faulted /\ Drained /\ SetTables(Finished) /\ Good(Finished, content)
      /\ want[c] \in RomBlocks /\ pc[c] = "enter"
      /\ UNCHANGED <<content, blockCount, booting, op, want, patched>>
      /\ pc' = [pc EXCEPT ![c] = "hold"]
      /\ slot' = [slot EXCEPT ![c] = Finished.romToCache[want[c]]]
      /\ Found(c, Finished)
  BY FinishedGood DEF LoadHit, MayRun, IndInv, TypeOK
<1>2. PatchesStay'
  BY <1>1, FinishedPatches DEF PatchesStay, PatchesMapped, SetTables
<1>3. \A x \in RomBlocks : romToCache'[x] \in patched => romToCache[x] \in patched
  BY <1>1, FinishedPatches DEF SetTables
<1>4. PatchInv'
  <2>1. \A d \in Ctx : /\ pc'[d] \in {"enter", "wait", "fill"} =>
                            d # c /\ pc'[d] = pc[d] /\ want[d] \in RomBlocks
                       /\ pc'[d] \in {"wait", "fill"} => slot'[d] = slot[d]
    BY <1>1 DEF IndInv, TypeOK
  <2>2. CASE c = "irq"
    <3>1. ~(op = "patch" /\ pc["main"] \in {"enter", "wait", "fill", "hold"})
      BY <1>1, <2>2, PatchingAlone
    <3> QED
      BY <1>1, <1>3, <2>1, <2>2, <3>1 DEF PatchInv, IndInv, TypeOK, Ctx
  <2>3. CASE c = "main"
    <3>1. pc'["main"] = "hold" /\ slot'["main"] = Finished.romToCache[want["main"]]
      BY <1>1, <2>3 DEF IndInv, TypeOK, Ctx
    <3>2. op = "patch" => slot'["main"] = blockCount
      BY <1>1, <2>3, <3>1 DEF Found
    <3>3. content[slot'["main"]] = want["main"] /\ romToCache'[want["main"]] = slot'["main"]
      BY <1>1, <2>3, <3>1 DEF Found, Good, SetTables
    <3>4. op = "patch" => booting /\ blockCount \notin patched
      BY <1>1, <2>3 DEF PatchInv
    <3> QED
      BY <1>1, <1>3, <2>1, <3>1, <3>2, <3>3, <3>4 DEF PatchInv
  <2> QED
    BY <2>2, <2>3 DEF Ctx
<1> QED
  BY <1>2, <1>4

\* A load evicts a block in which there is no patch.
LEMMA PatchEvictSteps ==
    ASSUME IndInv, PatchInv, PatchesStay, NEW c \in Ctx, NEW b \in CacheBlocks,
           LoadFetch(c, b) \/ LoadSynthesize(c, b)
    PROVE  PatchInv' /\ PatchesStay'
<1>1. /\ MayRun(c) /\ pc[c] = "enter" /\ Drained /\ ~Found(c, Finished) /\ Target(c, b)
      /\ SetTables(Evict(Finished, b))
      /\ content' = [content EXCEPT ![b] = None]
      /\ slot' = [slot EXCEPT ![c] = b]
      /\ pc' = [pc EXCEPT ![c] = pc'[c]] /\ pc'[c] \in {"wait", "fill"}
      /\ UNCHANGED <<blockCount, booting, op, want, patched>>
      /\ pc'[c] = "wait" => fetch'.token = c
  BY DEF LoadFetch, LoadSynthesize, Overwrite, IndInv, TypeOK
<1>2. ~Faulted /\ want[c] \in RomBlocks /\ b \notin patched
  BY <1>1, TargetIsUnpatched DEF MayRun, IndInv, TypeOK
<1>3. /\ PatchesMapped(Finished) /\ Good(Finished, content)
      /\ Finished.romToCache[want[c]] \notin patched
      /\ \A x \in RomBlocks : Finished.romToCache[x] \in patched => romToCache[x] \in patched
  BY <1>1, <1>2, FinishedPatches, FinishedGood DEF PatchInv
<1>4. /\ PatchesMapped(Evict(Finished, b))
      /\ \A x \in RomBlocks : romToCache'[x] \in patched => romToCache[x] \in patched
  <2> DEFINE f == Finished
  <2>1. /\ PatchesMapped(f) /\ Good(f, content) /\ f.romToCache[want[c]] \notin patched
        /\ \A x \in RomBlocks : f.romToCache[x] \in patched => romToCache[x] \in patched
        /\ romToCache' = Evict(f, b).romToCache
    BY <1>1, <1>3 DEF SetTables
  <2> HIDE DEF f
  <2>2. /\ PatchesMapped(Evict(f, b))
        /\ \A x \in RomBlocks : Evict(f, b).romToCache[x] \in patched =>
                                     f.romToCache[x] \in patched
    BY <1>2, <2>1, TablesKeepPatches
  <2> QED
    BY <2>1, <2>2 DEF f
<1>5. PatchesStay'
  BY <1>1, <1>2, <1>4 DEF PatchesStay, PatchesMapped, SetTables, IndInv, TypeOK
<1>6. PatchInv'
  <2>1. \A d \in Ctx : pc'[d] \in {"enter", "wait", "fill"} =>
            romToCache'[want'[d]] \notin patched'
    BY <1>1, <1>4 DEF PatchInv, IndInv, TypeOK
  <2>2. \A d \in Ctx : pc'[d] \in {"wait", "fill"} => slot'[d] \notin patched'
    BY <1>1, <1>2 DEF PatchInv, IndInv, TypeOK
  <2>3. CASE c = "irq"
    <3>1. ~(op = "patch" /\ pc["main"] \in {"enter", "wait", "fill", "hold"})
      BY <1>1, <2>3, PatchingAlone
    <3> QED
      BY <1>1, <2>1, <2>2, <2>3, <3>1 DEF PatchInv, IndInv, TypeOK, Ctx
  <2>4. CASE c = "main"
    <3>1. op = "patch" => b = blockCount /\ booting /\ blockCount \notin patched
      BY <1>1, <2>4 DEF Target, PatchInv
    <3>2. slot'["main"] = b
      BY <1>1, <2>4 DEF IndInv, TypeOK
    <3> QED
      BY <1>1, <2>1, <2>2, <2>4, <3>1, <3>2 DEF PatchInv
  <2> QED
    BY <2>3, <2>4 DEF Ctx
<1> QED
  BY <1>5, <1>6

\* A reader's wait ends.
LEMMA PatchLandStep ==
    ASSUME IndInv, PatchInv, PatchesStay, NEW c \in Ctx, Land(c)
    PROVE  PatchInv' /\ PatchesStay'
<1>1. /\ ~Faulted /\ pc[c] = "wait" /\ token[c] # "pending"
      /\ UNCHANGED <<content, booting, op, want, slot, patched>>
      /\ pc' = [pc EXCEPT ![c] = IF token[c] = "SUCCESS" THEN "hold" ELSE "fault"]
      /\ SetTables(Finished) \/ romToCache' = romToCache
      /\ want[c] \in RomBlocks
  BY DEF Land, MayRun, IndInv, TypeOK
<1>2. Drained
  <2>1. c = "irq" => fetch.token = "irq"
    BY <1>1 DEF IndInv, FetchInv
  <2>2. c = "main" => pc["irq"] = "idle"
    BY DEF Land, MayRun
  <2> QED
    BY <1>1, <2>1, <2>2, NoneIsNoBlock DEF Drained, IndInv, FetchInv, Ctx, NoFetch
<1>3. /\ PatchesMapped(Finished)
      /\ \A x \in RomBlocks : Finished.romToCache[x] \in patched => romToCache[x] \in patched
  BY <1>1, <1>2, FinishedPatches
<1>4. PatchesStay' /\ \A x \in RomBlocks : romToCache'[x] \in patched => romToCache[x] \in patched
  BY <1>1, <1>3 DEF PatchesStay, PatchesMapped, SetTables
<1>5. \A d \in Ctx : /\ pc'[d] \in {"enter", "wait", "fill"} =>
                            romToCache'[want'[d]] \notin patched'
                     /\ pc'[d] \in {"wait", "fill"} => slot'[d] \notin patched'
  BY <1>1, <1>4 DEF PatchInv, IndInv, TypeOK
<1>6. CASE c = "irq"
  <2>1. ~(op = "patch" /\ pc["main"] \in {"enter", "wait", "fill", "hold"})
    BY <1>1, <1>6, PatchingAlone
  <2>2. blockCount' = blockCount /\ pc'["main"] = pc["main"]
    BY <1>1, <1>6 DEF Land, IndInv, TypeOK, Ctx
  <2>3. PatchInv'
    BY <1>1, <1>5, <2>1, <2>2 DEF PatchInv
  <2> QED
    BY <1>4, <2>3
<1>7. CASE c = "main" /\ op = "patch" /\ token[c] = "SUCCESS"
  <2>1. fetch.token = "main" /\ fetch # NoFetch
    BY <1>1, <1>7, NoneIsNoBlock DEF PatchInv, NoFetch, Ctx
  <2>2. fetch.romBlock = want["main"] /\ fetch.cacheBlock = slot["main"]
    BY <1>1, <2>1 DEF IndInv, FetchIsOwned
  <2>3. Finished = Publish(Tables, want["main"], slot["main"])
    BY <1>7, <2>1, <2>2, NoneIsNoBlock DEF Finished, Ctx
  <2>4. SetTables(Finished) /\ blockCount' = blockCount
    BY <1>7, <2>2 DEF Land, StillMine
  <2>5. romToCache'[want["main"]] = slot["main"]
    BY <1>1, <1>7, <2>3, <2>4 DEF SetTables, Publish, Tables, IndInv, TypeOK
  <2>6. content[slot["main"]] = want["main"]
    BY <1>1, <1>7 DEF IndInv, TabuInv
  <2>7. pc'["main"] = "hold"
    BY <1>1, <1>7 DEF IndInv, TypeOK
  <2>8. slot["main"] = blockCount /\ booting /\ blockCount \notin patched
    BY <1>1, <1>7 DEF PatchInv
  <2>9. PatchInv'
    BY <1>1, <1>5, <2>4, <2>5, <2>6, <2>7, <2>8 DEF PatchInv
  <2> QED
    BY <1>4, <2>9
<1>8. CASE c = "main" /\ op = "patch" /\ token[c] # "SUCCESS"
  <2>1. pc'["main"] = "fault" /\ blockCount' = blockCount + 1
    BY <1>1, <1>8 DEF Land, IndInv, TypeOK
  <2>2. ASSUME NEW b \in patched
        PROVE  b >= blockCount'
    <3>1. b # blockCount /\ b >= blockCount
      BY <1>1, <1>8 DEF PatchInv
    <3>2. blockCount \in Int /\ b \in Int
      BY SdConstants DEF IndInv, TypeOK, CacheBlocks
    <3> QED
      BY <2>1, <3>1, <3>2
  <2>3. PatchInv'
    BY <1>1, <1>5, <2>1, <2>2 DEF PatchInv
  <2> QED
    BY <1>4, <2>3
<1>9. CASE c = "main" /\ op # "patch"
  <2>1. blockCount' = blockCount
    BY <1>9 DEF Land
  <2>2. PatchInv'
    BY <1>1, <1>5, <1>9, <2>1 DEF PatchInv
  <2> QED
    BY <1>4, <2>2
<1> QED
  BY <1>6, <1>7, <1>8, <1>9 DEF Ctx

\* A synthesized block is published.
LEMMA PatchFilledStep ==
    ASSUME IndInv, PatchInv, PatchesStay, NEW c \in Ctx, Filled(c)
    PROVE  PatchInv' /\ PatchesStay'
<1>1. /\ ~Faulted /\ pc[c] = "fill" /\ slot[c] \in CacheBlocks /\ want[c] \in RomBlocks
      /\ pc' = [pc EXCEPT ![c] = "hold"]
      /\ content' = [content EXCEPT ![slot[c]] = want[c]]
      /\ UNCHANGED <<blockCount, fetch, booting, op, want, slot, patched>>
      /\ SetTables(Publish(Tables, want[c], slot[c]))
      /\ slot[c] \notin patched /\ romToCache[want[c]] \notin patched
  BY DEF Filled, Overwrite, MayRun, IndInv, TypeOK, PatchInv
<1>2. Good(Tables, content) /\ PatchesMapped(Tables)
  BY TablesGood DEF IndInv, PatchesStay, PatchesMapped, Tables
<1>3. /\ PatchesMapped(Publish(Tables, want[c], slot[c]))
      /\ \A x \in RomBlocks : romToCache'[x] \in patched => romToCache[x] \in patched
  BY <1>1, <1>2, TablesKeepPatches DEF SetTables, Tables
<1>4. PatchesStay'
  BY <1>1, <1>3 DEF PatchesStay, PatchesMapped, SetTables, IndInv, TypeOK
<1>5. \A d \in Ctx : /\ pc'[d] \in {"enter", "wait", "fill"} =>
                            romToCache'[want'[d]] \notin patched'
                     /\ pc'[d] \in {"wait", "fill"} => slot'[d] \notin patched'
  BY <1>1, <1>3 DEF PatchInv, IndInv, TypeOK
<1>6. PatchInv'
  <2>1. CASE c = "irq"
    <3>1. ~(op = "patch" /\ pc["main"] \in {"enter", "wait", "fill", "hold"})
      BY <1>1, <2>1, PatchingAlone
    <3> QED
      BY <1>1, <1>5, <2>1, <3>1 DEF PatchInv, IndInv, TypeOK, Ctx
  <2>2. CASE c = "main"
    <3>1. pc'["main"] = "hold" /\ content'[slot["main"]] = want["main"]
          /\ romToCache'[want["main"]] = slot["main"]
      BY <1>1, <2>2 DEF SetTables, Publish, Tables, IndInv, TypeOK
    <3>2. op = "patch" => booting /\ blockCount \notin patched /\ slot["main"] = blockCount
      BY <1>1, <2>2 DEF PatchInv
    <3> QED
      BY <1>1, <1>5, <3>1, <3>2 DEF PatchInv
  <2> QED
    BY <2>1, <2>2 DEF Ctx
<1> QED
  BY <1>4, <1>6

LEMMA PatchInit == Init => PatchInv /\ PatchesStay
BY DEF Init, PatchInv, PatchesStay, Ctx

LEMMA PatchNext == IndInv /\ PatchInv /\ PatchesStay /\ [Next]_vars => PatchInv' /\ PatchesStay'
<1> SUFFICES ASSUME IndInv, PatchInv, PatchesStay, [Next]_vars
             PROVE  PatchInv' /\ PatchesStay'
  OBVIOUS
<1>1. CASE UNCHANGED vars
  BY <1>1 DEF vars, contextVars, PatchInv, PatchesStay
<1>2. CASE Next
  BY <1>2, PatchContextSteps, ApplyPatchStep, PatchCompleteStep, PatchLoadHitStep,
     PatchEvictSteps, PatchLandStep, PatchFilledStep DEF Next, Load, Dma
<1> QED
  BY <1>1, <1>2

-----------------------------------------------------------------------------
(* The theorems.                                                            *)

LEMMA InitInv == Init => IndInv
<1> SUFFICES ASSUME Init PROVE IndInv
  OBVIOUS
<1>1. TypeOK
  <2>1. blockCount \in (LastCache + 1 - MaxPatched) .. (LastCache + 1)
    BY SdConstants DEF Init
  <2>2. tabu \in [0 .. 1 -> CacheBlocks \union {None}] /\ tabuLevel \in 0 .. 1
    BY DEF Init
  <2> QED
    BY <2>1, <2>2, ZeroIsBlock DEF Init, TypeOK, Ctx
<1>2. TablesAgree /\ MappedIsLoaded /\ FetchIsOwned /\ InFlightBlocksDiffer
  BY DEF Init, TablesAgree, MappedIsLoaded, FetchIsOwned, InFlightBlocksDiffer, Ctx
<1>3. FetchInv /\ TabuInv
  BY DEF Init, FetchInv, TabuInv, Ctx
<1> QED
  BY <1>1, <1>2, <1>3 DEF IndInv

LEMMA NextInv == IndInv /\ [Next]_vars => IndInv'
<1> SUFFICES ASSUME IndInv, [Next]_vars PROVE IndInv'
  OBVIOUS
<1>1. CASE UNCHANGED vars
  BY <1>1 DEF vars, codeVars, contextVars, IndInv, TypeOK, TablesAgree, MappedIsLoaded,
     FetchIsOwned, Faulted, InFlightBlocksDiffer, FetchInv, TabuInv, Unguarded
<1>2. CASE Next
  BY <1>2, ContextSteps, UseSteps, GuestSteps, CompleteStep, LoadHitStep, LoadFetchStep,
     LoadSynthesizeStep, LandStep, FilledStep DEF Next, Load, Dma
<1> QED
  BY <1>1, <1>2

\* The invariant of the cache holds in every reachable state.
THEOREM IndInvHolds == SafeSpec => []IndInv
BY InitInv, NextInv, PTL DEF SafeSpec

\* The two tables of SdCache.c stay each other's inverse.
THEOREM TablesStayInverse == SafeSpec => []TablesAgree
BY IndInvHolds, PTL DEF IndInv

\* finishFetch and publishCacheBlock never map a block that was not loaded.
THEOREM NothingFalsePublished == SafeSpec => []MappedIsLoaded
BY IndInvHolds, PTL DEF IndInv

\* sCurrentFetch never outlives the frame its token is in.
THEOREM NoDanglingToken == SafeSpec => []FetchIsOwned
BY IndInvHolds, PTL DEF IndInv

\* Why a pointer that is not left unguarded is good.
LEMMA PointersAreGood == IndInv => PointersHold
<1> SUFFICES ASSUME IndInv, NEW c \in Ctx, pc[c] = "hold", ~Unguarded(c)
             PROVE  content[slot[c]] = want[c]
  BY DEF PointersHold
<1>1. CASE c = "irq"
  BY <1>1 DEF IndInv, TabuInv
<1>2. CASE c = "main"
  <2>1. CASE want["main"] \in forbidden /\ romToCache[want["main"]] = slot["main"]
    BY <1>2, <2>1, NoneIsNoBlock DEF IndInv, TypeOK, MappedIsLoaded
  <2> QED
    BY <1>2, <2>1 DEF IndInv, TabuInv
<1> QED
  BY <1>1, <1>2 DEF Ctx

\* A pointer that is tabu, or a DMA source, stays good until it is used.
THEOREM GuardedPointersHold == SafeSpec => []PointersHold
BY PointersAreGood, IndInvHolds, PTL

\* The bits of JIT agree with what it has made of each block, and the lines the
\* guest executes from are those of a block nobody has written into since.
THEOREM CodeStaysCurrent == SafeSpec => []CodeIsCurrent
<1>1. CodeInv => CodeIsCurrent
  BY DEF CodeInv, CodeIsCurrent
<1>2. SafeSpec => []CodeInv
  <2>1. Init => IndInv /\ CodeInv
    BY InitInv, CodeInit
  <2>2. IndInv /\ CodeInv /\ [Next]_vars => IndInv' /\ CodeInv'
    BY NextInv, CodeNext
  <2> QED
    BY <2>1, <2>2, PTL DEF SafeSpec
<1> QED
  BY <1>1, <1>2, PTL

\* A block that a patch was written into is never evicted, moved or reloaded.
THEOREM PatchesStayMapped == SafeSpec => []PatchesStay
<1>1. Init => IndInv /\ PatchInv /\ PatchesStay
  BY InitInv, PatchInit
<1>2. IndInv /\ PatchInv /\ PatchesStay /\ [Next]_vars =>
        IndInv' /\ PatchInv' /\ PatchesStay'
  BY NextInv, PatchNext
<1> QED
  BY <1>1, <1>2, PTL DEF SafeSpec

-----------------------------------------------------------------------------
(* The cache keeps the promise of RomReader: each step of it is one of the   *)
(* reader's, or none.                                                       *)

\* What a pointer shows, said without the contents of the cache.
Promised == [c \in Ctx |-> IF pc[c] = "hold" /\ ~Unguarded(c) THEN want[c] ELSE None]

\* What is known of a state of the cache.
ReaderInv == IndInv /\ CodeInv /\ PatchInv /\ PatchesStay /\ Shown = Promised

LEMMA ShownIsPromised == IndInv => Shown = Promised
<1> SUFFICES ASSUME IndInv PROVE Shown = Promised
  OBVIOUS
<1>1. PointersHold
  BY PointersAreGood
<1>2. ASSUME NEW c \in Ctx
      PROVE  (IF pc[c] = "hold" /\ ~Unguarded(c) THEN content[slot[c]] ELSE None)
              = (IF pc[c] = "hold" /\ ~Unguarded(c) THEN want[c] ELSE None)
  BY <1>1 DEF PointersHold
<1> QED
  BY <1>2 DEF Shown, Promised

\* A context that may run may do so in RomReader.
LEMMA TurnRefines ==
    ASSUME TypeOK, NEW c \in Ctx, MayRun(c)
    PROVE  Reader!Turn(c)
<1>1. \A d \in Ctx : pc[d] # "fault"
  BY DEF MayRun, Faulted
<1>2. \A d \in Ctx : Stages[d] # "stopped"
  BY <1>1 DEF Stages
<1>3. c = "main" => Stages["irq"] = "idle"
  BY DEF MayRun, Stages, Ctx
<1> QED
  BY <1>2, <1>3 DEF Reader!Turn, Reader!Readers, MayRun, Ctx

\* A step that moves one reader leaves the other where it is.
LEMMA OneMoves ==
    ASSUME ReaderInv, ReaderInv', NEW c \in Ctx,
           \A d \in Ctx : d # c => /\ pc'[d] = pc[d] /\ want'[d] = want[d]
                                   /\ Unguarded(d)' = Unguarded(d)
    PROVE  /\ Stages' = [Stages EXCEPT ![c] = Stages'[c]]
           /\ Asked' = [Asked EXCEPT ![c] = Asked'[c]]
           /\ Shown' = [Shown EXCEPT ![c] = Shown'[c]]
<1>1. Stages' = [Stages EXCEPT ![c] = Stages'[c]]
  BY DEF Stages
<1>2. Asked' = [Asked EXCEPT ![c] = Asked'[c]]
  BY DEF Asked
<1>3. Promised' = [Promised EXCEPT ![c] = Promised'[c]]
  BY DEF Promised
<1>4. Shown = Promised /\ Shown' = Promised'
  BY DEF ReaderInv
<1> QED
  BY <1>1, <1>2, <1>3, <1>4

LEMMA NobodyMoves ==
    ASSUME ReaderInv, ReaderInv',
           \A d \in Ctx : Stages'[d] = Stages[d] /\ want'[d] = want[d]
                          /\ Unguarded(d)' = Unguarded(d)
    PROVE  UNCHANGED <<Stages, Asked, Shown>>
<1>0. \A d \in Ctx : (pc'[d] = "idle") = (pc[d] = "idle") /\ (pc'[d] = "hold") = (pc[d] = "hold")
  BY DEF Stages
<1>1. Stages' = Stages
  BY DEF Stages
<1>2. Asked' = Asked
  BY <1>0 DEF Asked
<1>3. Promised' = Promised
  BY <1>0 DEF Promised
<1>4. Shown = Promised /\ Shown' = Promised'
  BY DEF ReaderInv
<1> QED
  BY <1>1, <1>2, <1>3, <1>4

MappedOf(m) == IF m.alias = None THEN None ELSE m.cacheToRom[m.alias]

\* Neither operator puts another block under the lines.
LEMMA TablesKeepMapped ==
    ASSUME NEW m \in TablesType, AliasMapped(m), NEW r \in RomBlocks, NEW b \in CacheBlocks
    PROVE  /\ MappedOf(Evict(m, b)) \in {MappedOf(m), None}
           /\ m.cacheToRom[b] = None => MappedOf(Publish(m, r, b)) \in {MappedOf(m), None}
<1>1. MappedOf(Evict(m, b)) \in {MappedOf(m), None}
  BY DEF AliasMapped, Evict, TablesType, MappedOf
<1>2. ASSUME m.cacheToRom[b] = None, Publish(m, r, b).alias # None
      PROVE  MappedOf(Publish(m, r, b)) = MappedOf(m)
  <2>1. m.alias = Publish(m, r, b).alias /\ m.alias \in CacheBlocks /\ m.alias # b
        /\ m.alias # None
    BY <1>2 DEF Publish, TablesType, AliasMapped
  <2>2. m.romToCache[r] # m.alias
    BY <1>2, <2>1 DEF Publish
  <2>3. Publish(m, r, b).cacheToRom[m.alias] = m.cacheToRom[m.alias]
    BY <2>1, <2>2 DEF Publish
  <2> QED
    BY <2>1, <2>3 DEF MappedOf
<1> QED
  BY <1>1, <1>2 DEF MappedOf

\* Finishing a fetch does not either.
LEMMA FinishedMapped ==
    ASSUME ReaderInv, ~Faulted, Drained
    PROVE  MappedOf(Finished) \in {MappedBlock, None}
<1>1. Tables \in TablesType /\ AliasMapped(Tables) /\ MappedOf(Tables) = MappedBlock
  BY TablesGood DEF ReaderInv, IndInv, Good, CodeInv, AliasMapped, Tables, MappedOf, MappedBlock
<1>2. CASE fetch.token # None /\ token[fetch.token] = "SUCCESS"
  <2>1. fetch.romBlock \in RomBlocks /\ fetch.cacheBlock \in CacheBlocks /\ fetch # NoFetch
    BY <1>2, NoneIsNoBlock DEF ReaderInv, IndInv, TypeOK, NoFetch
  <2>2. Finished = Publish(Tables, fetch.romBlock, fetch.cacheBlock)
    BY <1>2 DEF Finished
  <2>3. Tables.cacheToRom[fetch.cacheBlock] = None
    BY <2>1 DEF ReaderInv, IndInv, FetchInv, Tables
  <2> QED
    BY <1>1, <2>1, <2>2, <2>3, TablesKeepMapped
<1>3. CASE ~(fetch.token # None /\ token[fetch.token] = "SUCCESS")
  BY <1>1, <1>3 DEF Finished
<1> QED
  BY <1>2, <1>3

\* The blocks a patch was written into show the same as before.
LEMMA PatchesKept ==
    ASSUME \A b \in patched : content'[b] = content[b], patched' = patched
    PROVE  PatchedBlocks' = PatchedBlocks
BY DEF PatchedBlocks

LEMMA AskRefines ==
    ASSUME ReaderInv, ReaderInv',
           \/ \E c \in Ctx, r \in RomBlocks : Miss(c, r)
           \/ \E r \in RomBlocks : PatchMiss(r)
           \/ \E first, last \in RomBlocks : first <= last /\ StartDma(first, last)
    PROVE  \E c \in Ctx, r \in RomBlocks : Reader!Ask(c, r)
<1>1. PICK c \in Ctx, r \in RomBlocks :
            \/ Miss(c, r)
            \/ c = "main" /\ PatchMiss(r)
            \/ c = "main" /\ \E last \in RomBlocks : StartDma(r, last)
  BY DEF Ctx
<1>2. /\ MayRun(c) /\ pc[c] = "idle"
      /\ pc' = [pc EXCEPT ![c] = pc'[c]] /\ pc'[c] \in {"lookup", "enter"}
      /\ want' = [want EXCEPT ![c] = r]
      /\ UNCHANGED <<cacheToRom, content, booting, patched, lateHit>>
      /\ alias' \in {alias, None}
      /\ c = "irq" => forbidden' = forbidden
  BY <1>1, NoneIsNoBlock DEF Miss, PatchMiss, StartDma, ReaderInv, IndInv, TypeOK, Ctx, codeVars
<1>3. TypeOK
  BY DEF ReaderInv, IndInv
<1>4. \A d \in Ctx : d # c => /\ pc'[d] = pc[d] /\ want'[d] = want[d]
                               /\ Unguarded(d)' = Unguarded(d)
  BY <1>2, <1>3 DEF Unguarded, TypeOK, Ctx
<1>5. Stages[c] = "idle" /\ Stages'[c] = "asked" /\ Asked'[c] = r
  BY <1>2, <1>3 DEF Stages, Asked, TypeOK
<1>6. Shown'[c] = Shown[c]
  BY <1>2, <1>3 DEF ReaderInv, Promised, TypeOK
<1>7. Shown' = Shown
  BY <1>4, <1>6, OneMoves DEF Shown
<1>8. MappedBlock' \in {MappedBlock, None} /\ PatchedBlocks' = PatchedBlocks
  BY <1>2 DEF MappedBlock, PatchedBlocks
<1>9. Reader!Turn(c)
  BY <1>2, <1>3, TurnRefines
<1> QED
  BY <1>2, <1>4, <1>5, <1>7, <1>8, <1>9, OneMoves DEF Reader!Ask, Reader!MaybeUnmapped

\* What is left to show of a step that ends a load with a pointer.
LEMMA Given ==
    ASSUME ReaderInv, ReaderInv', NEW c \in Ctx, MayRun(c),
           pc[c] \in {"lookup", "enter", "wait", "fill"}, pc' = [pc EXCEPT ![c] = "hold"],
           UNCHANGED <<want, forbidden, booting, patched>>,
           c = "irq" => lateHit' = lateHit,
           MappedBlock' \in {MappedBlock, None},
           \A b \in patched : content'[b] = content[b]
    PROVE  Reader!Give(c)
<1>1. TypeOK
  BY DEF ReaderInv, IndInv
<1>2. \A d \in Ctx : d # c => /\ pc'[d] = pc[d] /\ want'[d] = want[d]
                               /\ Unguarded(d)' = Unguarded(d)
  BY <1>1 DEF Unguarded, TypeOK, Ctx
<1>3. Stages[c] = "asked" /\ Stages'[c] = "given" /\ Asked'[c] = Asked[c] /\ Asked[c] = want[c]
  BY <1>1 DEF Stages, Asked, TypeOK
<1>4. Asked' = Asked
  BY <1>2, <1>3, OneMoves DEF Asked
<1>5. Promised'[c] \in {want[c]} \union (IF c = "main" THEN {None} ELSE {})
  BY <1>1 DEF Promised, Unguarded, TypeOK, Ctx
<1>6. Shown'[c] \in {Asked[c]} \union (IF c = "main" THEN {None} ELSE {})
  BY <1>3, <1>5 DEF ReaderInv
<1>7. PatchedBlocks' = PatchedBlocks
  BY PatchesKept
<1>8. Reader!Turn(c)
  BY <1>1, TurnRefines
<1>9. \E shown \in {Asked[c]} \union (IF c = "main" THEN {None} ELSE {}) :
            Shown' = [Shown EXCEPT ![c] = shown]
  BY <1>2, <1>6, OneMoves
<1> QED
  BY <1>2, <1>3, <1>4, <1>7, <1>8, <1>9, OneMoves DEF Reader!Give, Reader!MaybeUnmapped

\* The same of one that takes the pointer away again.
LEMMA Released ==
    ASSUME ReaderInv, ReaderInv', NEW c \in Ctx, MayRun(c), pc[c] = "hold", Idle(c),
           c = "irq" => UNCHANGED <<lateHit, forbidden>>,
           UNCHANGED booting
    PROVE  Reader!Release(c)
<1>1. TypeOK
  BY DEF ReaderInv, IndInv
<1>2. pc' = [pc EXCEPT ![c] = "idle"] /\ want' = [want EXCEPT ![c] = 0]
  BY DEF Idle
<1>3. \A d \in Ctx : d # c => /\ pc'[d] = pc[d] /\ want'[d] = want[d]
                               /\ Unguarded(d)' = Unguarded(d)
  BY <1>1, <1>2 DEF Unguarded, TypeOK, Ctx
<1>4. Stages[c] = "given" /\ Stages'[c] = "idle" /\ Asked'[c] = None /\ Shown'[c] = None
  BY <1>1, <1>2 DEF Stages, Asked, Shown, TypeOK
<1>5. Reader!Turn(c)
  BY <1>1, TurnRefines
<1> QED
  BY <1>3, <1>4, <1>5, OneMoves DEF Reader!Release

\* And of one that nobody gets or loses a pointer in.
LEMMA OnlyUnmapped ==
    ASSUME ReaderInv, ReaderInv',
           \A d \in Ctx : Stages'[d] = Stages[d],
           UNCHANGED <<want, lateHit, forbidden, booting, patched>>,
           MappedBlock' \in {MappedBlock, None},
           \A b \in patched : content'[b] = content[b]
    PROVE  Reader!Unmap \/ UNCHANGED Reader!readerVars
<1>1. UNCHANGED <<Stages, Asked, Shown>>
  BY NobodyMoves DEF Unguarded
<1>2. PatchedBlocks' = PatchedBlocks
  BY PatchesKept
<1> QED
  BY <1>1, <1>2 DEF Reader!Unmap, Reader!readerVars

\* The tables a load starts from: those a fetch that is over leaves behind.
LEMMA FinishedIs ==
    ASSUME ReaderInv, ~Faulted, Drained
    PROVE  Finished \in TablesType /\ AliasMapped(Finished)
           /\ MappedOf(Finished) \in {MappedBlock, None}
BY FinishedCode, FinishedMapped DEF ReaderInv

\* After SetTables the lines are mapped as the new tables say.
LEMMA SetTablesMapped ==
    ASSUME NEW m, SetTables(m)
    PROVE  MappedBlock' = MappedOf(m)
BY DEF SetTables, MappedBlock, MappedOf

\* A load that finds its block, in the lookup of a DMA or with interrupts masked.
LEMMA HitRefines ==
    ASSUME ReaderInv, ReaderInv', NEW c \in Ctx,
           LoadHit(c) \/ (c = "main" /\ DmaLookup /\ romToCache[want["main"]] # None)
    PROVE  Reader!Give(c)
<1>1. CASE LoadHit(c)
  <2>1. /\ MayRun(c) /\ pc[c] = "enter" /\ Drained /\ SetTables(Finished) /\ ~Faulted
        /\ pc' = [pc EXCEPT ![c] = "hold"]
        /\ UNCHANGED <<want, forbidden, booting, patched, content>>
        /\ c = "irq" => lateHit' = lateHit
    BY <1>1 DEF LoadHit, MayRun
  <2>2. MappedBlock' \in {MappedBlock, None}
    BY <2>1, FinishedIs, SetTablesMapped
  <2> QED
    BY <2>1, <2>2, Given
<1>2. CASE c = "main" /\ DmaLookup /\ romToCache[want["main"]] # None
  <2>1. /\ MayRun(c) /\ pc[c] = "lookup" /\ pc' = [pc EXCEPT ![c] = "hold"]
        /\ UNCHANGED <<want, forbidden, booting, patched, content, lateHit, alias, cacheToRom>>
    BY <1>2 DEF DmaLookup
  <2>2. MappedBlock' = MappedBlock
    BY <2>1 DEF MappedBlock
  <2> QED
    BY <2>1, <2>2, Given
<1> QED
  BY <1>1, <1>2

\* A load that does not: it starts to read, or to fill, a block without a patch.
LEMMA MissRefines ==
    ASSUME ReaderInv, ReaderInv', NEW c \in Ctx,
           \/ \E b \in CacheBlocks : LoadFetch(c, b) \/ LoadSynthesize(c, b)
           \/ DmaLookup /\ romToCache[want["main"]] = None
    PROVE  Reader!Unmap \/ UNCHANGED Reader!readerVars
<1>1. TypeOK
  BY DEF ReaderInv, IndInv
<1>2. ASSUME NEW b \in CacheBlocks, LoadFetch(c, b) \/ LoadSynthesize(c, b)
      PROVE  Reader!Unmap \/ UNCHANGED Reader!readerVars
  <2>1. /\ MayRun(c) /\ pc[c] = "enter" /\ Drained /\ ~Faulted
        /\ SetTables(Evict(Finished, b)) /\ Target(c, b)
        /\ content' = [content EXCEPT ![b] = None]
        /\ pc' = [pc EXCEPT ![c] = pc'[c]] /\ pc'[c] \in {"wait", "fill"}
        /\ UNCHANGED <<want, forbidden, booting, patched, lateHit>>
    BY <1>1, <1>2 DEF LoadFetch, LoadSynthesize, Overwrite, MayRun, TypeOK
  <2>2. b \notin patched
    BY <2>1, TargetIsUnpatched DEF ReaderInv
  <2>3. \A x \in patched : content'[x] = content[x]
    BY <1>1, <2>1, <2>2 DEF TypeOK
  <2>4. MappedBlock' \in {MappedBlock, None}
    <3>1. MappedBlock' = MappedOf(Evict(Finished, b))
      BY <2>1, SetTablesMapped
    <3>2. MappedOf(Evict(Finished, b)) \in {MappedOf(Finished), None}
      BY <2>1, FinishedIs, TablesKeepMapped, ZeroIsBlock
    <3> QED
      BY <2>1, <3>1, <3>2, FinishedIs
  <2>5. \A d \in Ctx : Stages'[d] = Stages[d]
    BY <1>1, <2>1 DEF Stages, TypeOK
  <2> QED
    BY <2>1, <2>3, <2>4, <2>5, OnlyUnmapped
<1>3. CASE DmaLookup /\ romToCache[want["main"]] = None
  <2>1. /\ pc["main"] = "lookup" /\ pc' = [pc EXCEPT !["main"] = "enter"]
        /\ UNCHANGED <<want, forbidden, booting, patched, content, lateHit, alias, cacheToRom>>
    BY <1>3 DEF DmaLookup
  <2>2. \A d \in Ctx : Stages'[d] = Stages[d]
    BY <1>1, <2>1 DEF Stages, TypeOK
  <2>3. MappedBlock' = MappedBlock
    BY <2>1 DEF MappedBlock
  <2> QED
    BY <2>1, <2>2, <2>3, OnlyUnmapped
<1> QED
  BY <1>2, <1>3

\* The wait of a reader ends, with its block or with the fault screen.
LEMMA LandRefines ==
    ASSUME ReaderInv, ReaderInv', NEW c \in Ctx, Land(c)
    PROVE  Reader!Give(c) \/ Reader!Stop(c)
<1>1. TypeOK
  BY DEF ReaderInv, IndInv
<1>2. /\ MayRun(c) /\ ~Faulted /\ pc[c] = "wait" /\ token[c] # "pending"
      /\ UNCHANGED <<content, forbidden, booting, want, patched>>
      /\ SetTables(Finished) \/ UNCHANGED <<cacheToRom, alias>>
      /\ c = "irq" => lateHit' = lateHit
      /\ pc' = [pc EXCEPT ![c] = IF token[c] = "SUCCESS" THEN "hold" ELSE "fault"]
  BY DEF Land, MayRun
<1>3. Drained
  <2>1. c = "irq" => fetch.token = "irq"
    BY <1>2 DEF ReaderInv, IndInv, FetchInv
  <2>2. c = "main" => pc["irq"] = "idle"
    BY <1>2 DEF MayRun
  <2> QED
    BY <1>2, <2>1, <2>2, NoneIsNoBlock DEF Drained, ReaderInv, IndInv, FetchInv, Ctx, NoFetch
<1>4. MappedBlock' \in {MappedBlock, None}
  <2>1. CASE SetTables(Finished)
    BY <1>2, <1>3, <2>1, FinishedIs, SetTablesMapped
  <2>2. CASE UNCHANGED <<cacheToRom, alias>>
    BY <2>2 DEF MappedBlock
  <2> QED
    BY <1>2, <2>1, <2>2
<1>5. CASE token[c] = "SUCCESS"
  BY <1>2, <1>4, <1>5, Given
<1>6. CASE token[c] # "SUCCESS"
  <2>1. pc' = [pc EXCEPT ![c] = "fault"]
    BY <1>2, <1>6
  <2>2. \A d \in Ctx : d # c => /\ pc'[d] = pc[d] /\ want'[d] = want[d]
                                 /\ Unguarded(d)' = Unguarded(d)
    BY <1>1, <1>2, <2>1 DEF Unguarded, TypeOK, Ctx
  <2>3. /\ Stages[c] = "asked" /\ Stages'[c] = "stopped" /\ Asked'[c] = Asked[c]
        /\ Shown'[c] = Shown[c]
    BY <1>1, <1>2, <2>1 DEF Stages, Asked, Shown, TypeOK
  <2>4. Asked' = Asked /\ Shown' = Shown
    <3>1. [Asked EXCEPT ![c] = Asked[c]] = Asked /\ [Shown EXCEPT ![c] = Shown[c]] = Shown
      BY DEF Asked, Shown
    <3>2. Asked' = [Asked EXCEPT ![c] = Asked'[c]] /\ Shown' = [Shown EXCEPT ![c] = Shown'[c]]
      BY <2>2, OneMoves
    <3> QED
      BY <2>3, <3>1, <3>2
  <2>5. PatchedBlocks' = PatchedBlocks
    BY <1>2, PatchesKept
  <2>6. Reader!Turn(c)
    BY <1>1, <1>2, TurnRefines
  <2>7. booting' = booting
    BY <1>2
  <2> QED
    BY <1>4, <2>2, <2>3, <2>4, <2>5, <2>6, <2>7, OneMoves DEF Reader!Stop, Reader!MaybeUnmapped
<1> QED
  BY <1>5, <1>6

\* A synthesized block is published.
LEMMA FilledRefines ==
    ASSUME ReaderInv, ReaderInv', NEW c \in Ctx, Filled(c)
    PROVE  Reader!Give(c)
<1>1. TypeOK
  BY DEF ReaderInv, IndInv
<1>2. /\ MayRun(c) /\ pc[c] = "fill" /\ pc' = [pc EXCEPT ![c] = "hold"]
      /\ SetTables(Publish(Tables, want[c], slot[c]))
      /\ content' = [content EXCEPT ![slot[c]] = want[c]]
      /\ UNCHANGED <<forbidden, booting, want, patched>>
      /\ c = "irq" => lateHit' = lateHit
  BY DEF Filled, Overwrite
<1>3. slot[c] \notin patched /\ cacheToRom[slot[c]] = None
      /\ slot[c] \in CacheBlocks /\ want[c] \in RomBlocks
  BY <1>1, <1>2 DEF ReaderInv, PatchInv, IndInv, FetchInv, TypeOK
<1>4. Tables \in TablesType /\ AliasMapped(Tables) /\ MappedOf(Tables) = MappedBlock
      /\ Tables.cacheToRom[slot[c]] = None
  BY <1>3, TablesGood DEF ReaderInv, IndInv, Good, CodeInv, AliasMapped, Tables, MappedOf,
     MappedBlock
<1>5. MappedBlock' \in {MappedBlock, None}
  BY <1>2, <1>3, <1>4, TablesKeepMapped, SetTablesMapped
<1>6. \A b \in patched : content'[b] = content[b]
  BY <1>1, <1>2, <1>3 DEF TypeOK
<1> QED
  BY <1>2, <1>5, <1>6, Given

\* The ARM7 writes into a block without a patch, which nobody holds.
LEMMA CompleteRefines ==
    ASSUME ReaderInv, ReaderInv', NEW c \in Ctx, NEW result \in {"SUCCESS", "IO_ERROR"},
           Complete(c, result)
    PROVE  Reader!Unmap \/ UNCHANGED Reader!readerVars
<1>1. pc[c] = "wait" /\ slot[c] \notin patched /\ slot[c] \in CacheBlocks
  BY DEF Complete, ReaderInv, IndInv, FetchInv, PatchInv, TypeOK
<1>2. \A b \in patched : content'[b] = content[b]
  BY <1>1 DEF Complete, Overwrite, ReaderInv, IndInv, TypeOK
<1>3. MappedBlock' = MappedBlock
  BY DEF Complete, MappedBlock
<1>4. Stages' = Stages
  BY DEF Complete, Stages
<1>5. UNCHANGED <<want, lateHit, forbidden, booting, patched>>
  BY DEF Complete
<1> QED
  BY <1>2, <1>3, <1>4, <1>5, OnlyUnmapped

\* A pointer is used and forgotten, or the transfer goes on to the next block.
LEMMA UseRefines ==
    ASSUME ReaderInv, ReaderInv', NEW c \in Ctx,
           Use(c) \/ (c = "main" /\ (DmaDone \/ DmaNext))
    PROVE  Reader!Read(c) \/ Reader!ReadOn
<1>1. TypeOK
  BY DEF ReaderInv, IndInv
<1>2. UNCHANGED <<MappedBlock, PatchedBlocks>>
  <2>1. UNCHANGED <<alias, cacheToRom, content, patched>>
    BY DEF Use, DmaDone, DmaNext
  <2> QED
    BY <2>1, PatchesKept DEF MappedBlock
<1>3. CASE Use(c) \/ (c = "main" /\ DmaDone)
  <2>1. /\ MayRun(c) /\ pc[c] = "hold" /\ Idle(c) /\ UNCHANGED booting
        /\ c = "irq" => UNCHANGED <<lateHit, forbidden>>
    BY <1>3 DEF Use, DmaDone
  <2>2. Reader!Release(c)
    BY <2>1, Released
  <2> QED
    BY <1>2, <2>2 DEF Reader!Read, Reader!MaybeUnmapped
<1>4. CASE c = "main" /\ DmaNext
  <2>1. /\ MayRun("main") /\ pc["main"] = "hold" /\ UNCHANGED booting
        /\ pc' = [pc EXCEPT !["main"] = "lookup"]
        /\ want' = [want EXCEPT !["main"] = want["main"] + 1]
    BY <1>4 DEF DmaNext
  <2>2. \A d \in Ctx : d # "main" => /\ pc'[d] = pc[d] /\ want'[d] = want[d]
                                      /\ Unguarded(d)' = Unguarded(d)
    BY <1>1, <2>1 DEF Unguarded, TypeOK
  <2>3. /\ Stages["main"] = "given" /\ Stages'["main"] = "asked" /\ Shown'["main"] = None
        /\ Asked'["main"] = Asked["main"] + 1
    BY <1>1, <2>1 DEF Stages, Asked, Shown, TypeOK, Ctx
  <2>4. Reader!Turn("main")
    BY <1>1, <2>1, TurnRefines DEF Ctx
  <2>5. "main" \in Ctx
    BY DEF Ctx
  <2> QED
    BY <1>2, <2>1, <2>2, <2>3, <2>4, <2>5, OneMoves DEF Reader!ReadOn
<1> QED
  BY <1>3, <1>4

\* The guest jumps into the block it was given, or JIT patches code in it.
LEMMA CodeLoadedRefines ==
    ASSUME ReaderInv, ReaderInv', NEW c \in Ctx, CodeLoaded(c)
    PROVE  Reader!Read(c) \/ Reader!JumpGiven
<1>1. TypeOK
  BY DEF ReaderInv, IndInv
<1>2. /\ MayRun(c) /\ ~Faulted /\ pc[c] = "hold" /\ Idle(c)
      /\ UNCHANGED <<booting, forbidden, content, patched, cacheToRom>> /\ ~booting
      /\ c = "irq" => lateHit' = lateHit
  BY DEF CodeLoaded, MayRun
<1>3. Reader!Release(c)
  BY <1>2, Released
<1>4. PatchedBlocks' = PatchedBlocks
  BY <1>2, PatchesKept
<1>5. CASE Patch(slot[c])
  <2>1. MappedBlock' = None
    BY <1>5 DEF Patch, MappedBlock
  <2> QED
    BY <1>3, <1>4, <2>1 DEF Reader!Read, Reader!MaybeUnmapped
<1>6. CASE c = "main" /\ Map(slot[c])
  <2>1. alias' = slot["main"] /\ slot["main"] \in CacheBlocks /\ want["main"] \in RomBlocks
    BY <1>1, <1>6 DEF Map, TypeOK
  <2>2. MappedBlock' = cacheToRom[slot["main"]]
    BY <1>2, <2>1, NoneIsNoBlock DEF MappedBlock
  <2>3. cacheToRom[slot["main"]] # None
    BY <1>2, <1>6 DEF ReaderInv, CodeInv, MayRun
  <2>4. cacheToRom[slot["main"]] \in RomBlocks
    BY <1>1, <2>1, <2>3 DEF TypeOK
  <2>5. Asked["main"] = want["main"] /\ Shown["main"] \in {None, content[slot["main"]]}
    BY <1>2, <1>6 DEF Asked, Shown
  <2>6. Shown["main"] # None => MappedBlock' = want["main"]
    <3>1. Shown["main"] # None => content[slot["main"]] = want["main"]
      BY <1>2, <1>6 DEF ReaderInv, Promised, Shown
    <3>2. romToCache[cacheToRom[slot["main"]]] = slot["main"]
      BY <2>1, <2>3 DEF ReaderInv, IndInv, TablesAgree
    <3>3. content[slot["main"]] = cacheToRom[slot["main"]]
      BY <2>1, <2>4, <3>2, NoneIsNoBlock DEF ReaderInv, IndInv, MappedIsLoaded
    <3> QED
      BY <2>2, <3>1, <3>3
  <2>7. MappedBlock' \in IF Shown["main"] = None THEN RomBlocks ELSE {Asked["main"]}
    BY <2>2, <2>4, <2>5, <2>6
  <2> QED
    BY <1>2, <1>3, <1>4, <1>6, <2>7 DEF Reader!JumpGiven
<1> QED
  BY <1>5, <1>6 DEF CodeLoaded

\* The patcher writes into the block it was given, and keeps it.
LEMMA ApplyPatchRefines ==
    ASSUME ReaderInv, ReaderInv', ApplyPatch
    PROVE  Reader!Patch
<1>1. TypeOK /\ "main" \in Ctx
  BY DEF ReaderInv, IndInv, Ctx
<1>2. /\ MayRun("main") /\ pc["main"] = "hold" /\ op = "patch" /\ Idle("main")
      /\ patched' = patched \union {slot["main"]}
      /\ UNCHANGED <<booting, content, alias, cacheToRom>>
  BY DEF ApplyPatch
<1>3. content[slot["main"]] = want["main"] /\ booting
  BY <1>2 DEF ReaderInv, PatchInv
<1>4. Reader!Release("main")
  BY <1>1, <1>2, Released
<1>5. PatchedBlocks' = PatchedBlocks \union {want["main"]}
  BY <1>2, <1>3 DEF PatchedBlocks
<1>6. Asked["main"] = want["main"]
  BY <1>1, <1>2 DEF Asked
<1>7. MappedBlock' = MappedBlock
  BY <1>2 DEF MappedBlock
<1> QED
  BY <1>3, <1>4, <1>5, <1>6, <1>7 DEF Reader!Patch

\* What the guest does, and the end of the boot.
LEMMA GuestRefines ==
    ASSUME ReaderInv, ReaderInv',
           \/ \E r \in Code : CodeHit(r)
           \/ HandleUndefined \/ UnmapHicode \/ FinishBoot
    PROVE  \/ \E r \in RomBlocks : Reader!Jump(r)
           \/ Reader!Booted \/ Reader!Unmap \/ UNCHANGED Reader!readerVars
<1>1. TypeOK /\ "main" \in Ctx
  BY DEF ReaderInv, IndInv, Ctx
<1>2. /\ UNCHANGED <<pc, want, lateHit, forbidden, content, patched, cacheToRom>>
      /\ MayRun("main") /\ pc["main"] = "idle"
  BY DEF CodeHit, HandleUndefined, UnmapHicode, FinishBoot, GuestNext, contextVars
<1>3. UNCHANGED <<Stages, Asked, Shown>>
  <2>1. \A d \in Ctx : Stages'[d] = Stages[d]
    BY <1>2 DEF Stages
  <2>2. \A d \in Ctx : want'[d] = want[d] /\ Unguarded(d)' = Unguarded(d)
    BY <1>2 DEF Unguarded
  <2> QED
    BY <2>1, <2>2, NobodyMoves
<1>4. PatchedBlocks' = PatchedBlocks
  BY <1>2, PatchesKept
<1>5. Reader!Turn("main") /\ Stages["main"] = "idle"
  BY <1>1, <1>2, TurnRefines DEF Stages
<1>6. CASE FinishBoot
  <2>1. booting' = FALSE /\ MappedBlock' = MappedBlock
    BY <1>6 DEF FinishBoot, MappedBlock
  <2> QED
    BY <1>3, <1>4, <1>5, <2>1 DEF Reader!Booted
<1>7. CASE alias' = None /\ booting' = booting
  <2>1. MappedBlock' = None
    BY <1>7 DEF MappedBlock
  <2> QED
    BY <1>3, <1>4, <1>7, <2>1 DEF Reader!Unmap
<1>8. ASSUME NEW r \in Code, CodeHit(r), Map(romToCache[r])
      PROVE  \E x \in RomBlocks : Reader!Jump(x)
  <2>1. r \in RomBlocks
    BY SdConstants DEF RomBlocks
  <2>2. romToCache[r] # None /\ alias' = romToCache[r] /\ ~booting /\ booting' = booting
    BY <1>8 DEF CodeHit, Map, GuestNext
  <2>3. MappedBlock' = r
    BY <1>2, <2>1, <2>2 DEF MappedBlock, ReaderInv, IndInv, TablesAgree
  <2>4. Reader!Jump(r)
    BY <1>3, <1>4, <1>5, <2>2, <2>3 DEF Reader!Jump
  <2> QED
    BY <2>1, <2>4
<1> QED
  BY <1>6, <1>7, <1>8 DEF CodeHit, HandleUndefined, UnmapHicode, Patch

\* Every step of the cache is a step of the readers, or none.
LEMMA ReaderStep ==
    ASSUME ReaderInv, ReaderInv', Next
    PROVE  Reader!ReaderNext \/ UNCHANGED Reader!readerVars
<1>1. Reader!Readers = Ctx
  BY DEF Reader!Readers, Ctx
<1>2. CASE \/ \E c \in Ctx, r \in RomBlocks : Miss(c, r)
           \/ \E r \in RomBlocks : PatchMiss(r)
           \/ \E first, last \in RomBlocks : first <= last /\ StartDma(first, last)
  BY <1>1, <1>2, AskRefines DEF Reader!ReaderNext
<1>3. CASE \/ \E r \in Code : CodeHit(r)
           \/ HandleUndefined \/ UnmapHicode \/ FinishBoot
  BY <1>3, GuestRefines DEF Reader!ReaderNext
<1>4. ASSUME NEW c \in Ctx, Load(c)
      PROVE  Reader!ReaderNext \/ UNCHANGED Reader!readerVars
  <2>1. CASE LoadHit(c)
    BY <1>1, <2>1, HitRefines DEF Reader!ReaderNext
  <2>2. CASE \E b \in CacheBlocks : LoadFetch(c, b) \/ LoadSynthesize(c, b)
    BY <2>2, MissRefines DEF Reader!ReaderNext
  <2>3. CASE Land(c)
    BY <1>1, <2>3, LandRefines DEF Reader!ReaderNext
  <2>4. CASE Filled(c)
    BY <1>1, <2>4, FilledRefines DEF Reader!ReaderNext
  <2>5. CASE Use(c)
    BY <1>1, <2>5, UseRefines DEF Reader!ReaderNext
  <2> QED
    BY <1>4, <2>1, <2>2, <2>3, <2>4, <2>5 DEF Load
<1>5. CASE \E c \in Ctx, result \in {"SUCCESS", "IO_ERROR"} : Complete(c, result)
  BY <1>5, CompleteRefines DEF Reader!ReaderNext
<1>6. CASE \E c \in Ctx : CodeLoaded(c)
  BY <1>1, <1>6, CodeLoadedRefines DEF Reader!ReaderNext
<1>7. CASE ApplyPatch
  BY <1>7, ApplyPatchRefines DEF Reader!ReaderNext
<1>8. CASE Dma
  <2>1. "main" \in Ctx
    BY DEF Ctx
  <2>2. CASE DmaLookup /\ romToCache[want["main"]] # None
    BY <1>1, <2>1, <2>2, HitRefines DEF Reader!ReaderNext
  <2>3. CASE DmaLookup /\ romToCache[want["main"]] = None
    BY <2>1, <2>3, MissRefines DEF Reader!ReaderNext
  <2>4. CASE DmaNext \/ DmaDone
    BY <1>1, <2>1, <2>4, UseRefines DEF Reader!ReaderNext
  <2> QED
    BY <1>8, <2>2, <2>3, <2>4 DEF Dma
<1> QED
  BY <1>2, <1>3, <1>4, <1>5, <1>6, <1>7, <1>8 DEF Next

LEMMA ReaderStart == Init => Reader!ReaderInit
BY DEF Init, Reader!ReaderInit, Reader!Readers, Stages, Asked, Shown, MappedBlock,
   PatchedBlocks, Ctx

LEMMA ReaderInvHolds == SafeSpec => []ReaderInv
<1>1. Init => IndInv /\ CodeInv /\ PatchInv /\ PatchesStay
  BY InitInv, CodeInit, PatchInit
<1>2. IndInv /\ CodeInv /\ PatchInv /\ PatchesStay /\ [Next]_vars =>
        IndInv' /\ CodeInv' /\ PatchInv' /\ PatchesStay'
  BY NextInv, CodeNext, PatchNext
<1> QED
  BY <1>1, <1>2, ShownIsPromised, PTL DEF SafeSpec, ReaderInv

\* A reader finds the block it asked for, whole, until it is done with it, a
\* patched block stays patched, and the guest executes the block it jumped to,
\* whatever two readers take from each other (SdCache.c:161-274).
THEOREM Refinement == SafeSpec => ImplementsRomReader
<1>1. ReaderInv /\ ReaderInv' /\ [Next]_vars => [Reader!ReaderNext]_Reader!readerVars
  <2>1. UNCHANGED vars => UNCHANGED Reader!readerVars
    BY DEF vars, codeVars, contextVars, Reader!readerVars, Stages, Asked, Shown, Unguarded,
       MappedBlock, PatchedBlocks
  <2> QED
    BY <2>1, ReaderStep
<1> QED
  BY <1>1, ReaderStart, ReaderInvHolds, PTL DEF SafeSpec, ImplementsRomReader,
     Reader!ReaderSpec

-----------------------------------------------------------------------------
(* No load draws victims for ever.                                          *)

\* A load that has to replace a block finds one that it may replace: the loop of
\* a handler that draws again while its victim is the source of a suspended DMA
\* (SdCache.c:193) can end, and a patch has its block.
VictimIsLeft ==
    \A c \in Ctx :
        pc[c] = "enter" /\ MayRun(c) /\ Drained /\ ~Found(c, Finished) =>
            \E b \in CacheBlocks : Target(c, b)

\* A suspended DMA keeps no more blocks than one may read.
FewForbidden == IsFiniteSet(forbidden) /\ Cardinality(forbidden) <= MaxDma

LEMMA FewForbiddenStep == IndInv /\ FewForbidden /\ [Next]_vars => FewForbidden'
<1> SUFFICES ASSUME IndInv, FewForbidden, [Next]_vars PROVE FewForbidden'
  OBVIOUS
<1>1. CASE UNCHANGED forbidden
  BY <1>1 DEF FewForbidden
<1>2. CASE \E first, last \in RomBlocks : first <= last /\ StartDma(first, last)
  <2>1. PICK first \in RomBlocks, last \in RomBlocks : first <= last /\ StartDma(first, last)
    BY <1>2
  <2>2. first \in Int /\ last \in Int /\ forbidden' = first .. last /\ last - first < MaxDma
    BY <2>1, SdConstants DEF StartDma, RomBlocks
  <2>3. /\ IsFiniteSet(first .. last)
        /\ Cardinality(first .. last) = IF first > last THEN 0 ELSE last - first + 1
    BY <2>2, FS_Interval
  <2>4. Cardinality(first .. last) <= MaxDma
    BY <2>1, <2>2, <2>3, SdConstants
  <2> QED
    BY <2>2, <2>3, <2>4 DEF FewForbidden
<1>3. CASE DmaDone
  BY <1>3, FS_EmptySet, SdConstants DEF FewForbidden, DmaDone
<1> QED
  BY <1>1, <1>2, <1>3
  DEF Next, Load, Dma, Miss, PatchMiss, FinishBoot, LoadHit, LoadFetch, LoadSynthesize,
      Land, Filled, Use, Complete, CodeHit, CodeLoaded, HandleUndefined, UnmapHicode,
      ApplyPatch, DmaLookup, DmaNext, vars

\* What the generator's b becomes.
Drawn(b) == IF b = tabu[0] THEN blockCount - 1 ELSE b

\* All but one of the blocks that are not permanent can be drawn.
LEMMA AllButOneDrawn ==
    ASSUME TypeOK, tabu[1] = None, NEW b \in 0 .. (blockCount - 2)
    PROVE  Drawn(b) \in Victims
<1>1. blockCount \in Int /\ b \in Int /\ b # None
  BY SdConstants DEF TypeOK
<1>2. CASE tabu[0] = None
  <2>1. {i \in 0 .. 1 : (i = 0 \/ tabuLevel > 0) /\ tabu[i] # None} = {}
    BY <1>2
  <2>2. Cardinality({i \in 0 .. 1 : (i = 0 \/ tabuLevel > 0) /\ tabu[i] # None}) = 0
    BY <2>1, FS_EmptySet
  <2>3. b \in 0 .. (blockCount - 1)
    BY <1>1
  <2>4. Drawn(b) = b
    BY <1>1, <1>2 DEF Drawn
  <2> QED
    BY <1>1, <1>2, <2>2, <2>3, <2>4 DEF Victims
<1>3. CASE tabu[0] # None
  <2>1. {i \in 0 .. 1 : (i = 0 \/ tabuLevel > 0) /\ tabu[i] # None} = {0}
    BY <1>3
  <2>2. Cardinality({i \in 0 .. 1 : (i = 0 \/ tabuLevel > 0) /\ tabu[i] # None}) = 1
    BY <2>1, FS_Singleton
  <2>3. b \in 0 .. (blockCount - 1 - 1)
    BY <1>1
  <2> QED
    BY <1>1, <2>2, <2>3 DEF Victims, Drawn
<1> QED
  BY <1>2, <1>3

LEMMA DrawnApart ==
    ASSUME TypeOK, NEW a \in 0 .. (blockCount - 2), NEW b \in 0 .. (blockCount - 2)
    PROVE  Drawn(a) \in CacheBlocks /\ (Drawn(a) = Drawn(b) => a = b)
<1>1. blockCount \in Int /\ blockCount >= 2 /\ blockCount <= LastCache + 1
  BY SdConstants DEF TypeOK
<1> QED
  BY <1>1, SdConstants DEF Drawn, CacheBlocks

\* The pigeons are the blocks that can be drawn, the holes the DMA's blocks.
LEMMA HandlerHasVictim ==
    ASSUME MaxDma < LastCache - MaxPatched, IndInv, FewForbidden, ~Faulted, Drained
    PROVE  \E b \in CacheBlocks : b \in Victims /\ Finished.cacheToRom[b] \notin forbidden
<1>1. blockCount \in Int /\ blockCount - 1 >= LastCache - MaxPatched
  BY SdConstants DEF IndInv, TypeOK
<1>2. Good(Finished, content)
  BY FinishedGood
<1> DEFINE Held(b) == Finished.cacheToRom[Drawn(b)]
           N == 0 .. (blockCount - 2)
<1>3. ASSUME \A b \in N : Held(b) \in forbidden
      PROVE  FALSE
  <2>1. IsFiniteSet(N) /\ Cardinality(N) = blockCount - 1
    <3>1. 0 \in Int /\ blockCount - 2 \in Int /\ ~(0 > blockCount - 2)
      BY <1>1, SdConstants DEF IndInv, TypeOK
    <3>2. /\ IsFiniteSet(N)
          /\ Cardinality(N) = IF 0 > blockCount - 2 THEN 0 ELSE (blockCount - 2) - 0 + 1
      BY <3>1, FS_Interval
    <3> QED
      BY <1>1, <3>1, <3>2
  <2>2. Cardinality(forbidden) \in Nat /\ Cardinality(forbidden) < Cardinality(N)
    BY <1>1, <2>1, FS_CardinalityType, SdConstants DEF FewForbidden
  <2>3. [b \in N |-> Held(b)] \in [N -> forbidden]
    BY <1>3
  <2>4. PICK x \in N, y \in N : x # y /\ Held(x) = Held(y)
    <3>1. \E x, y \in N : x # y /\ [b \in N |-> Held(b)][x] = [b \in N |-> Held(b)][y]
      <4> DEFINE f == [b \in N |-> Held(b)]
      <4>1. f \in [N -> forbidden] /\ IsFiniteSet(forbidden)
        BY <2>3 DEF FewForbidden
      <4> HIDE DEF f, N
      <4>2. \E x, y \in N : x # y /\ f[x] = f[y]
        BY <2>1, <2>2, <4>1, FS_PigeonHole
      <4> QED
        BY <4>2 DEF f
    <3> QED
      BY <3>1
  <2>5. Held(x) # None /\ Held(y) # None
    BY <1>3, NoneIsNoBlock DEF IndInv, TypeOK
  <2>6. Drawn(x) \in CacheBlocks /\ Drawn(y) \in CacheBlocks
    BY DrawnApart DEF IndInv
  <2>7. Finished.romToCache[Held(x)] = Drawn(x) /\ Finished.romToCache[Held(y)] = Drawn(y)
    BY <1>2, <2>5, <2>6 DEF Good
  <2> QED
    BY <2>4, <2>7, DrawnApart DEF IndInv
<1>4. PICK b \in N : Held(b) \notin forbidden
  BY <1>3
<1>5. Drawn(b) \in CacheBlocks /\ Drawn(b) \in Victims
  BY DrawnApart, AllButOneDrawn DEF IndInv, TabuInv
<1> QED
  BY <1>4, <1>5

\* While one DMA cannot read as many blocks as there are left for replacement (the
\* code has 256 blocks of 4 KB, of which a DMA reads at most 65; the settings bound the
\* patches by nothing, and those of configs/ list 32 addresses at most), every load
\* that has to replace a block can.
THEOREM AVictimIsLeft ==
    ASSUME MaxDma < LastCache - MaxPatched
    PROVE  SafeSpec => []VictimIsLeft
<1>1. Init => FewForbidden
  BY FS_EmptySet, SdConstants DEF Init, FewForbidden
<1>2. IndInv /\ FewForbidden => VictimIsLeft
  <2> SUFFICES ASSUME IndInv, FewForbidden, NEW c \in Ctx,
                      pc[c] = "enter", MayRun(c), Drained
               PROVE  \E b \in CacheBlocks : Target(c, b)
    BY DEF VictimIsLeft
  <2>1. CASE c = "main" /\ op = "patch"
    <3>1. blockCount \in CacheBlocks
      BY <2>1, SdConstants DEF IndInv, TypeOK, TabuInv, CacheBlocks
    <3> QED
      BY <2>1, <3>1 DEF Target
  <2>2. CASE ~(c = "main" /\ op = "patch")
    <3>1. PICK b \in CacheBlocks : b \in Victims /\ Finished.cacheToRom[b] \notin forbidden
      BY HandlerHasVictim DEF MayRun
    <3> QED
      BY <2>2, <3>1 DEF Target, Replaceable
  <2> QED
    BY <2>1, <2>2
<1> QED
  BY <1>1, <1>2, FewForbiddenStep, IndInvHolds, PTL DEF SafeSpec
=============================================================================
