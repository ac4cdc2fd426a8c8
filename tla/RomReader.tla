------------------------------ MODULE RomReader ------------------------------
(***************************************************************************)
(* What the readers of a ROM are promised that is not in memory.  A reader  *)
(* asks for a block, is given a pointer to it, and finds that block there   *)
(* for as long as it keeps the pointer; a handler is done before the code   *)
(* it interrupted goes on.  A block that was patched stays patched.  The    *)
(* guest executes the block it jumped to, whatever the handlers read.  If   *)
(* the card fails nobody is given anything any more.                        *)
(***************************************************************************)
EXTENDS Integers

CONSTANTS Blocks, None

VARIABLES
    stage,    \* of each reader: "idle", "asked", "given" or "stopped"
    block,    \* the block it asked for
    data,     \* what its pointer shows; None if it was promised nothing
    mapped,   \* the block the guest executes from lines mapped to it, or None
    patches,  \* the blocks with a permanent patch
    booting   \* patches are being applied, there are no handlers yet

readerVars == <<stage, block, data, mapped, patches, booting>>

Readers == {"main", "irq"}

ReaderInit ==
    /\ stage = [c \in Readers |-> "idle"]
    /\ block = [c \in Readers |-> None]
    /\ data = [c \in Readers |-> None]
    /\ mapped = None
    /\ patches = {}
    /\ booting = TRUE

\* It is the turn of reader c.
Turn(c) ==
    /\ \A d \in Readers : stage[d] # "stopped"
    /\ c = "main" => stage["irq"] = "idle"
    /\ c = "irq" => ~booting

MaybeUnmapped == mapped' \in {mapped, None}

Ask(c, r) ==
    /\ Turn(c)
    /\ stage[c] = "idle"
    /\ stage' = [stage EXCEPT ![c] = "asked"]
    /\ block' = [block EXCEPT ![c] = r]
    /\ MaybeUnmapped
    /\ UNCHANGED <<data, patches, booting>>

\* A handler is always promised its block, main only one that is kept for it.
Give(c) ==
    /\ Turn(c)
    /\ stage[c] = "asked"
    /\ stage' = [stage EXCEPT ![c] = "given"]
    /\ \E shown \in {block[c]} \union (IF c = "main" THEN {None} ELSE {}) :
          data' = [data EXCEPT ![c] = shown]
    /\ MaybeUnmapped
    /\ UNCHANGED <<block, patches, booting>>

\* The pointer is used and forgotten.
Release(c) ==
    /\ Turn(c)
    /\ stage[c] = "given"
    /\ stage' = [stage EXCEPT ![c] = "idle"]
    /\ block' = [block EXCEPT ![c] = None]
    /\ data' = [data EXCEPT ![c] = None]
    /\ UNCHANGED booting

Read(c) ==
    /\ Release(c)
    /\ MaybeUnmapped
    /\ UNCHANGED patches

\* A transfer goes on to the next block.
ReadOn ==
    /\ Turn("main")
    /\ stage["main"] = "given"
    /\ stage' = [stage EXCEPT !["main"] = "asked"]
    /\ block' = [block EXCEPT !["main"] = @ + 1]
    /\ data' = [data EXCEPT !["main"] = None]
    /\ UNCHANGED <<mapped, patches, booting>>

\* The guest jumps into a block that is in memory, or that it was given.
Jump(r) ==
    /\ Turn("main")
    /\ ~booting
    /\ stage["main"] = "idle"
    /\ mapped' = r
    /\ UNCHANGED <<stage, block, data, patches, booting>>

JumpGiven ==
    /\ Release("main")
    /\ ~booting
    /\ mapped' \in IF data["main"] = None THEN Blocks ELSE {block["main"]}
    /\ UNCHANGED patches

Patch ==
    /\ Release("main")
    /\ booting
    /\ patches' = patches \union {block["main"]}
    /\ UNCHANGED mapped

Booted ==
    /\ Turn("main")
    /\ stage["main"] = "idle"
    /\ booting' = FALSE
    /\ UNCHANGED <<stage, block, data, mapped, patches>>

Unmap ==
    /\ mapped' = None
    /\ UNCHANGED <<stage, block, data, patches, booting>>

\* The card failed.
Stop(c) ==
    /\ Turn(c)
    /\ stage[c] = "asked"
    /\ stage' = [stage EXCEPT ![c] = "stopped"]
    /\ MaybeUnmapped
    /\ UNCHANGED <<block, data, patches, booting>>

ReaderNext ==
    \/ \E c \in Readers : Give(c) \/ Read(c) \/ Stop(c)
    \/ \E c \in Readers, r \in Blocks : Ask(c, r)
    \/ \E r \in Blocks : Jump(r)
    \/ JumpGiven \/ ReadOn \/ Patch \/ Booted \/ Unmap

ReaderSpec == ReaderInit /\ [][ReaderNext]_readerVars
=============================================================================
