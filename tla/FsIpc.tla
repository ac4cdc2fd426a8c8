-------------------------------- MODULE FsIpc --------------------------------
(***************************************************************************)
(* The storage transactions of GBARunner3.  The ARM9 (Fat/FsIpc.cpp) asks   *)
(* the ARM7 (FsIpcService.cpp on top of ThreadIpcService.cpp) to move       *)
(* sectors between the card and main memory through one command block, one  *)
(* message on the hardware FIFO, and one completion record.                 *)
(*                                                                         *)
(* Two contexts of the ARM9 use it: "main", the code an interrupt preempts, *)
(* and "irq", the interrupt handlers, which run with interrupts masked and  *)
(* to completion before "main" goes on.  An interrupt may start wherever    *)
(* main has interrupts enabled, which includes every turn of the wait loop  *)
(* of fs_waitForCompletion, so a handler finds main's transaction in        *)
(* flight, retires it on main's behalf and issues its own.                  *)
(***************************************************************************)
EXTENDS Integers

CONSTANTS
    LastSector,   \* sectors of the card are 0..LastSector
    Values,       \* contents of a sector
    MaxCount,     \* sectors of one transfer
    SeqLimit,     \* sequence numbers are 0..SeqLimit-1 (2^32 in the code)
    SyncMod,      \* values of the IPCSYNC nibble (16 in the code)
    Menu,         \* the requests that are made
    Data,         \* what writers bring in their buffers
    None          \* no wait token

ASSUME ConstantsAssumption ==
    /\ LastSector \in Nat
    /\ MaxCount \in Nat \ {0}
    /\ SeqLimit \in Nat \ {0, 1, 2}
    /\ SyncMod \in Nat \ {0}
    /\ Values # {}
    /\ None \notin {"main", "irq"}

VARIABLES
    pc,          \* where each ARM9 context is in its call
    op,          \* the request of each context
    token,       \* its FsWaitToken
    current,     \* sCurrentWaitToken
    sequence,    \* sSequence; sActiveSequence is the same number from the
                 \* first transaction on
    command,     \* sIpcCommand without its completion
    completion,  \* sIpcCommand.completion, written by the ARM7
    sync7,       \* the nibble ARM7 publishes in IPCSYNC
    fifo,        \* words on their way to the ARM7's FS channel
    mailbox,     \* ThreadIpcService::_messageValid
    event,       \* ThreadIpcService::_event
    pc7,         \* where the ARM7's FS thread is
    cmd7,        \* the command it works on
    moved7,      \* how many sectors of it the driver has moved
    disk,        \* the card
    mem,         \* the callers' buffers and the bounce buffer
    moved        \* history: sectors of each context's request moved by ARM7

arm9Vars == <<pc, op, token, current, sequence, command>>
arm7Vars == <<mailbox, event, pc7, cmd7, moved7, disk>>
vars == <<pc, op, token, current, sequence, command, completion,
          sync7, fifo, mailbox, event, pc7, cmd7, moved7, disk, mem, moved>>

Ctx == {"main", "irq"}
Sectors == 0 .. LastSector
Slots == 0 .. (MaxCount - 1)
Buffers == Ctx \union {"bounce"}
Sequences == 0 .. (SeqLimit - 1)

FsTransactionResult ==
    {"NO_TRANSACTION", "PENDING", "SUCCESS", "IO_ERROR", "CANCELED",
     "TOKEN_MISMATCH", "INVALID_ARGUMENT"}

\* A direct transfer has an aligned buffer in main memory, a bounced one goes
\* through sTempBuffers[0] a sector at a time, and an async one lets its caller
\* run between the issue and the wait.
Requests ==
    [kind: {"direct", "bounce", "async"}, write: BOOLEAN,
     sector: Sectors, count: 1 .. MaxCount, at: Slots, valid: BOOLEAN]

ASSUME MenuAssumption ==
    /\ Menu \subseteq Requests
    /\ Data \subseteq [Slots -> Values]

FsWaitToken ==
    [transactionComplete: BOOLEAN, sequence: Sequences, result: FsTransactionResult]

Commands ==
    [write: BOOLEAN, buffer: Buffers, sector: Sectors, count: 1 .. MaxCount,
     sequence: Sequences, caller: Ctx]

\* Storage whose contents nobody reads: the stack frame of a context outside
\* its call, the command block between transactions, ARM7's locals.
NoOp == [kind |-> "direct", write |-> FALSE, sector |-> 0, count |-> 1,
         at |-> 0, valid |-> TRUE]
NoToken == [transactionComplete |-> TRUE, sequence |-> 0, result |-> "NO_TRANSACTION"]
NoCommand == [write |-> FALSE, buffer |-> "main", sector |-> 0, count |-> 1,
              sequence |-> 0, caller |-> "main"]

-----------------------------------------------------------------------------
(* The ARM9.                                                                *)

\* Mutant: a bounced transfer leaves interrupts on while it waits.
UnmaskedBounce == pc["main"] \in {"next", "cancel"}

\* main holds interrupts masked from the first sector of a bounced transfer
\* until its copy-out, and while it drains a canceled transaction.
MainMasked ==
    \/ pc["main"] \in {"next", "cancel"}
    \/ pc["main"] = "wait" /\ op["main"].kind = "bounce"

\* A handler preempts main and runs to completion.
MayRun(c) ==
    IF c = "irq" THEN pc["irq"] # "idle" \/ ~MainMasked
                 ELSE pc["irq"] = "idle"

\* Mutant: the notification nibble is taken for the identity of a transaction.
RetirableByNibble == current # None /\ sync7 = sequence % SyncMod

\* pollCurrentTransaction finds the outstanding transaction completed.
Retirable ==
    /\ current # None
    /\ sync7 = sequence % SyncMod
    /\ completion.sequence = sequence
    /\ completion.result \in {"SUCCESS", "IO_ERROR"}

\* The tokens after pollCurrentTransaction.
Retired ==
    IF Retirable
    THEN [token EXCEPT ![current].transactionComplete = TRUE,
                       ![current].result = completion.result]
    ELSE token

NextSequence == IF sequence + 1 = SeqLimit THEN 1 ELSE sequence + 1

\* A caller enters fs_readSectors, fs_writeSectors or one of the Async calls; a
\* writer has put its data in its buffer.
Begin(c, r, data) ==
    /\ MayRun(c)
    /\ pc[c] = "idle"
    /\ pc' = [pc EXCEPT ![c] = "drain"]
    /\ op' = [op EXCEPT ![c] = r]
    /\ mem' = IF r.write THEN [mem EXCEPT ![c] = data] ELSE mem
    /\ UNCHANGED <<token, current, sequence, command, completion, sync7, fifo,
                   arm7Vars, moved>>

\* The sectors of one command: a bounced transfer sends them one by one.
Chunk(c) == IF op[c].kind = "bounce" THEN 1 ELSE op[c].count

\* What executeIpcCommandAsync writes into sIpcCommand.
CommandFor(c, number) ==
    [write |-> op[c].write,
     buffer |-> IF op[c].kind = "bounce" THEN "bounce" ELSE c,
     sector |-> op[c].sector + op[c].at,
     count |-> Chunk(c),
     sequence |-> number,
     caller |-> c]

\* Mutant: the old transaction is not retired before the next is sent.
IssueWithoutDrain(c) ==
    /\ MayRun(c)
    /\ pc[c] \in {"drain", "next"}
    /\ op[c].valid
    /\ token' = [token EXCEPT ![c] = [transactionComplete |-> FALSE,
                                      sequence |-> NextSequence,
                                      result |-> "PENDING"]]
    /\ sequence' = NextSequence
    /\ command' = CommandFor(c, NextSequence)
    /\ completion' = [result |-> "PENDING", sequence |-> 0]
    /\ current' = c
    /\ fifo' = 1
    /\ pc' = [pc EXCEPT ![c] = IF op[c].kind = "async" THEN "inflight" ELSE "wait"]
    /\ UNCHANGED <<op, sync7, arm7Vars, mem, moved>>

\* executeIpcCommandAsync: the old transaction is retired before the token,
\* the command block or the buffer is touched; interrupts stay masked from
\* that last poll to the FIFO word.
Issue(c) ==
    /\ MayRun(c)
    /\ pc[c] \in {"drain", "next"}
    /\ op[c].valid
    /\ current = None \/ Retirable
    /\ token' = [Retired EXCEPT ![c] = [transactionComplete |-> FALSE,
                                        sequence |-> NextSequence,
                                        result |-> "PENDING"]]
    /\ sequence' = NextSequence
    /\ command' = CommandFor(c, NextSequence)
    /\ completion' = [result |-> "PENDING", sequence |-> 0]
    /\ current' = c
    /\ fifo' = fifo + 1
    /\ mem' = IF op[c].kind = "bounce" /\ op[c].write
              THEN [mem EXCEPT !["bounce"][0] = mem[c][op[c].at]]
              ELSE mem
    /\ pc' = [pc EXCEPT ![c] = IF op[c].kind = "async" THEN "inflight" ELSE "wait"]
    /\ UNCHANGED <<op, sync7, arm7Vars, moved>>

\* executeIpcCommandAsync on arguments validTransfer rejects.
IssueInvalid(c) ==
    /\ MayRun(c)
    /\ pc[c] = "drain"
    /\ ~op[c].valid
    /\ current = None \/ Retirable
    /\ token' = [Retired EXCEPT ![c] = [transactionComplete |-> TRUE,
                                        sequence |-> 0,
                                        result |-> "INVALID_ARGUMENT"]]
    /\ current' = None
    /\ command' = NoCommand
    /\ pc' = [pc EXCEPT ![c] = "inflight"]
    /\ UNCHANGED <<op, sequence, completion, sync7, fifo, arm7Vars, mem, moved>>

\* fs_pollTransaction by the owner of an async transaction.
Poll(c) ==
    /\ MayRun(c)
    /\ pc[c] = "inflight"
    /\ current = c
    /\ Retirable
    /\ token' = Retired
    /\ current' = None
    /\ command' = NoCommand
    /\ UNCHANGED <<pc, op, sequence, completion, sync7, fifo, arm7Vars, mem, moved>>

\* The owner of an async transaction starts to wait for it.
Await(c) ==
    /\ MayRun(c)
    /\ pc[c] = "inflight"
    /\ pc' = [pc EXCEPT ![c] = "wait"]
    /\ UNCHANGED <<op, token, current, sequence, command, completion,
                   sync7, fifo, arm7Vars, mem, moved>>

\* fs_cancelTransaction of the transaction in flight: mask interrupts, drain.
Cancel(c) ==
    /\ MayRun(c)
    /\ pc[c] = "inflight"
    /\ current = c
    /\ token[c].sequence = sequence
    /\ pc' = [pc EXCEPT ![c] = "cancel"]
    /\ UNCHANGED <<op, token, current, sequence, command, completion,
                   sync7, fifo, arm7Vars, mem, moved>>

\* How fs_waitForCompletion(&token) leaves its loop: the token was completed,
\* by a preempting handler or by this poll, or it is nobody's.
Complete(c) == token[c].transactionComplete
Disowned(c) == current # c \/ token[c].sequence # sequence
Settled(c) ==
    IF Complete(c) THEN token
    ELSE IF Disowned(c)
         THEN [token EXCEPT ![c].transactionComplete = TRUE,
                            ![c].result = "TOKEN_MISMATCH"]
         ELSE Retired

\* The wait of c on its own token ends, with what follows before interrupts
\* come back: the copy-out of a bounced read and the turn of its loop.
Finish(c) ==
    /\ MayRun(c)
    /\ pc[c] \in {"wait", "cancel"}
    /\ Complete(c) \/ Disowned(c) \/ Retirable
    /\ LET result == IF pc[c] = "cancel" THEN "CANCELED" ELSE Settled(c)[c].result
           copied == op[c].kind = "bounce" /\ result = "SUCCESS"
           more == copied /\ op[c].at + 1 < op[c].count
           polled == ~(Complete(c) \/ Disowned(c))
       IN /\ token' = [Settled(c) EXCEPT ![c].result = result]
          /\ mem' = IF copied /\ ~op[c].write
                    THEN [mem EXCEPT ![c][op[c].at] = mem["bounce"][0]]
                    ELSE mem
          /\ op' = IF more THEN [op EXCEPT ![c].at = @ + 1] ELSE op
          /\ pc' = [pc EXCEPT ![c] = IF more THEN "next" ELSE "done"]
          /\ current' = IF polled THEN None ELSE current
          /\ command' = IF polled THEN NoCommand ELSE command
    /\ UNCHANGED <<sequence, completion, sync7, fifo, arm7Vars, moved>>

\* The call hands token.result to its caller; its stack frame is gone.
Return(c) ==
    /\ MayRun(c)
    /\ pc[c] = "done"
    /\ pc' = [pc EXCEPT ![c] = "idle"]
    /\ op' = [op EXCEPT ![c] = NoOp]
    /\ token' = [token EXCEPT ![c] = NoToken]
    /\ moved' = [moved EXCEPT ![c] = 0]
    /\ UNCHANGED <<current, sequence, command, completion, sync7, fifo, arm7Vars, mem>>

-----------------------------------------------------------------------------
(* The ARM7.                                                                *)

\* Mutant: the message arrives without waking the thread.
ReceiveWithoutSignal ==
    /\ fifo > 0
    /\ fifo' = fifo - 1
    /\ mailbox' = TRUE
    /\ UNCHANGED <<arm9Vars, completion, sync7, event, pc7, cmd7, moved7, disk, mem,
                   moved>>

\* ThreadIpcService::OnMessageReceived, from the FIFO interrupt.
Receive7 ==
    /\ fifo > 0
    /\ fifo' = fifo - 1
    /\ mailbox' = TRUE
    /\ event' = TRUE
    /\ UNCHANGED <<arm9Vars, completion, sync7, pc7, cmd7, moved7, disk, mem, moved>>

\* rtos_waitEvent returns and clears the event.
Wake7 ==
    /\ pc7 = "waitEvent"
    /\ event
    /\ event' = FALSE
    /\ pc7' = "check"
    /\ UNCHANGED <<arm9Vars, completion, sync7, fifo, mailbox, cmd7, moved7, disk,
                   mem, moved>>

\* ThreadMain empties the mailbox and HandleMessage reads the command.
Take7 ==
    /\ pc7 = "check"
    /\ mailbox' = FALSE
    /\ pc7' = IF mailbox THEN "transfer" ELSE "waitEvent"
    /\ cmd7' = IF mailbox THEN command ELSE cmd7
    /\ UNCHANGED <<arm9Vars, completion, sync7, fifo, event, moved7, disk, mem, moved>>

\* The driver moves the next sector of the command.
Move7 ==
    /\ pc7 = "transfer"
    /\ moved7 < cmd7.count
    /\ LET s == cmd7.sector + moved7
           b == cmd7.buffer
       IN IF cmd7.write
          THEN /\ disk' = [disk EXCEPT ![s] = mem[b][moved7]]
               /\ mem' = mem
          ELSE /\ mem' = [mem EXCEPT ![b][moved7] = disk[s]]
               /\ disk' = disk
    /\ moved7' = moved7 + 1
    /\ moved' = [moved EXCEPT ![cmd7.caller] = @ + 1]
    /\ UNCHANGED <<arm9Vars, completion, sync7, fifo, mailbox, event, pc7, cmd7>>

\* Mutant: success is published whatever the driver did.
ResultUnearned(success) ==
    /\ pc7 = "transfer"
    /\ completion' = [completion EXCEPT !.result = IF success THEN "SUCCESS"
                                                              ELSE "IO_ERROR"]
    /\ pc7' = "identify"
    /\ UNCHANGED <<arm9Vars, sync7, fifo, mailbox, event, cmd7, moved7, disk, mem, moved>>

\* The driver returns and completeTransfer writes its three words in order:
\* the result, the identity, the notification.  A driver may fail anywhere.
Result7(success) ==
    /\ pc7 = "transfer"
    /\ success => moved7 = cmd7.count
    /\ completion' = [completion EXCEPT !.result = IF success THEN "SUCCESS"
                                                              ELSE "IO_ERROR"]
    /\ pc7' = "identify"
    /\ UNCHANGED <<arm9Vars, sync7, fifo, mailbox, event, cmd7, moved7, disk, mem, moved>>

Identify7 ==
    /\ pc7 = "identify"
    /\ completion' = [completion EXCEPT !.sequence = cmd7.sequence]
    /\ pc7' = "notify"
    /\ UNCHANGED <<arm9Vars, sync7, fifo, mailbox, event, cmd7, moved7, disk, mem, moved>>

Notify7 ==
    /\ pc7 = "notify"
    /\ sync7' = cmd7.sequence % SyncMod
    /\ pc7' = "waitEvent"
    /\ cmd7' = NoCommand
    /\ moved7' = 0
    /\ UNCHANGED <<arm9Vars, completion, fifo, mailbox, event, disk, mem, moved>>

-----------------------------------------------------------------------------
AnyValue == CHOOSE v \in Values : TRUE

\* Requests a caller may make: inside the card, from their first sector, and
\* only the Async calls see arguments that validTransfer rejects.
Callable ==
    {r \in Menu : /\ r.at = 0
                  /\ r.sector + r.count <= LastSector + 1
                  /\ r.valid \/ r.kind = "async"}

Init ==
    /\ pc = [c \in Ctx |-> "idle"]
    /\ op = [c \in Ctx |-> NoOp]
    /\ token = [c \in Ctx |-> NoToken]
    /\ current = None
    /\ sequence = 0
    /\ command = NoCommand
    /\ completion = [result |-> "NO_TRANSACTION", sequence |-> 0]
    /\ sync7 \in {s % SyncMod : s \in Sequences}
    /\ fifo = 0
    /\ mailbox = FALSE
    /\ event = FALSE
    /\ pc7 = "waitEvent"
    /\ cmd7 = NoCommand
    /\ moved7 = 0
    /\ disk = [s \in Sectors |-> AnyValue]
    /\ mem = [b \in Buffers |-> [i \in Slots |-> AnyValue]]
    /\ moved = [c \in Ctx |-> 0]

Arm9(c) ==
    \/ \E r \in Callable, data \in Data : Begin(c, r, data)
    \/ Issue(c)
    \/ IssueInvalid(c)
    \/ Poll(c)
    \/ Await(c)
    \/ Cancel(c)
    \/ Finish(c)
    \/ Return(c)

Arm7 ==
    \/ Receive7
    \/ Wake7
    \/ Take7
    \/ Move7
    \/ \E success \in BOOLEAN : Result7(success)
    \/ Identify7
    \/ Notify7

Next == (\E c \in Ctx : Arm9(c)) \/ Arm7

\* The ARM7 and its driver keep running, and so does a handler.  main runs
\* between interrupts: they are periodic and its code advances in between, so
\* a step it could take again and again it takes.
Fairness ==
    /\ WF_vars(Arm7)
    /\ WF_vars(Issue("irq") \/ IssueInvalid("irq") \/ Await("irq")
                \/ Finish("irq") \/ Return("irq"))
    /\ SF_vars(Issue("main") \/ IssueInvalid("main") \/ Await("main")
                \/ Finish("main") \/ Return("main"))

Spec == Init /\ [][Next]_vars
FairSpec == Spec /\ Fairness
-----------------------------------------------------------------------------
(* What is claimed of it.                                                   *)

TypeOK ==
    /\ pc \in [Ctx -> {"idle", "drain", "inflight", "wait", "cancel", "next",
                     "done"}]
    /\ op \in [Ctx -> Requests]
    /\ token \in [Ctx -> FsWaitToken]
    /\ current \in Ctx \union {None}
    /\ sequence \in Sequences
    /\ command \in Commands
    /\ completion \in [result: FsTransactionResult, sequence: Sequences]
    /\ sync7 \in {s % SyncMod : s \in Sequences}
    /\ fifo \in {0, 1}
    /\ mailbox \in BOOLEAN
    /\ event \in BOOLEAN
    /\ pc7 \in {"waitEvent", "check", "transfer", "identify", "notify"}
    /\ cmd7 \in Commands
    /\ moved7 \in 0 .. MaxCount
    /\ disk \in [Sectors -> Values]
    /\ mem \in [Buffers -> [Slots -> Values]]
    /\ moved \in [Ctx -> 0 .. MaxCount]

\* ARM7 is between reading the command and publishing its completion.
Working7 == pc7 \in {"transfer", "identify"}

\* The message of the transaction is somewhere between the two cores.
Submitted == fifo = 1 \/ mailbox \/ Working7

\* Memory stays with the ARM7 exactly as long as ARM9 thinks so: while a
\* command is submitted its owner is inside its call, with its token, its
\* request and the command block as they were sent, and a command that the
\* ARM7 holds is that one.  Token, command and buffer live on the caller's
\* stack or are shared, so an owner that left early would give ARM7 a dangling
\* buffer (FsIpc.cpp:122, FsIpc.cpp:150, FsIpcCommand.h:5).
BufferLifetime ==
    Submitted =>
        /\ current # None
        /\ pc[current] \in {"inflight", "wait", "cancel"}
        /\ command.caller = current
        /\ ~token[current].transactionComplete
        /\ token[current].sequence = command.sequence
        /\ Working7 => cmd7 = command

\* ThreadIpcService keeps one message.  At most one is ever on its way, in the
\* mailbox or being worked on, so OnMessageReceived overwrites none
\* (ThreadIpcService.cpp:30).
MailboxNeverOverwritten ==
    /\ fifo > 0 => ~mailbox /\ ~Working7
    /\ mailbox => ~Working7

\* A token says SUCCESS only if the ARM7 moved every sector of that very
\* request: not on a completion left by an earlier sequence number, nor on a
\* notification nibble that happens to match (FsIpc.cpp:30-36, SdCache.c:100).
SuccessIsEarned ==
    \A c \in Ctx :
        /\ pc[c] \in {"inflight", "wait", "done"}
        /\ token[c].transactionComplete
        /\ token[c].result = "SUCCESS"
        => moved[c] = op[c].at + Chunk(c)

\* The parts of the inductive invariant behind the three properties above:
\* the stages of a call.
CallStages ==
    /\ MainMasked => pc["irq"] = "idle"
    /\ \A c \in Ctx :
        /\ pc[c] = "cancel" => current = c
        /\ op[c].kind # "async" => op[c].valid
        /\ pc[c] = "next" => op[c].kind = "bounce"
        /\ op[c].kind # "bounce" => op[c].at = 0
        /\ pc[c] # "idle" => op[c].at < op[c].count
        /\ op[c].sector + op[c].count <= LastSector + 1
        /\ pc[c] \in {"drain", "next"} => moved[c] = op[c].at
        /\ pc[c] = "idle" => moved[c] = 0 /\ op[c] = NoOp

\* What the outstanding transaction looks like from both sides.
Outstanding ==
    current # None =>
        /\ pc[current] \in {"inflight", "wait", "cancel"}
        /\ op[current].valid
        /\ ~token[current].transactionComplete
        /\ token[current].sequence = sequence
        /\ sequence # 0
        /\ command = CommandFor(current, sequence)
        /\ Submitted \/ completion.sequence = sequence
        /\ fifo = 1 \/ mailbox => moved[current] = op[current].at
        /\ completion.sequence = sequence /\ completion.result = "SUCCESS"
            => moved[current] = op[current].at + Chunk(current)

\* A context that waits for a token it no longer owns finds it completed.
RetiredByOther ==
    \A c \in Ctx :
        pc[c] \in {"inflight", "wait"} /\ current # c => token[c].transactionComplete

\* The ARM7 between two commands, and on the command it works on.
Arm7Progress ==
    /\ pc7 \in {"waitEvent", "check"} => moved7 = 0
    /\ Submitted => completion.sequence # sequence
    /\ Working7 => /\ moved7 <= cmd7.count
                   /\ moved[cmd7.caller] = op[cmd7.caller].at + moved7
    /\ pc7 = "identify" /\ completion.result = "SUCCESS" => moved7 = cmd7.count

\* The inductive invariant.
Inv ==
    /\ TypeOK
    /\ BufferLifetime
    /\ MailboxNeverOverwritten
    /\ SuccessIsEarned
    /\ CallStages
    /\ Outstanding
    /\ RetiredByOther
    /\ Arm7Progress

\* What the refinement needs besides: the bounce buffer is used by the call that
\* owns the outstanding transaction, and a retired token has the driver's answer.
BounceInv ==
    /\ \A c \in Ctx :
        /\ pc[c] = "inflight" => op[c].kind = "async"
        /\ pc[c] = "wait" /\ op[c].kind = "bounce" => current = c
        /\ pc[c] \in {"inflight", "wait"} /\ token[c].transactionComplete =>
            IF op[c].valid THEN token[c].result \in {"SUCCESS", "IO_ERROR"}
            ELSE token[c].result = "INVALID_ARGUMENT"
    /\ current # None /\ op[current].kind = "bounce" /\ op[current].write =>
            mem["bounce"][0] = mem[current][op[current].at]

\* While ARM7 owns the buffer of a command, only ARM7 changes it, and nobody
\* changes the command block: neither the owner nor a handler that preempts it
\* with a transfer of its own (FsIpc.cpp:187-189).
OwnedMemoryUntouched ==
    [][Submitted /\ ~Move7 => /\ mem'[command.buffer] = mem[command.buffer]
                             /\ command' = command]_vars

\* Refinement: sectors are moved as the promise of SectorStore says.  A sector
\* that sits in the bounce buffer has moved; the copy-out is not a step of it.
NoRequest == [count |-> 0]

Bounced(c, i) ==
    /\ pc[c] \in {"wait", "cancel"}
    /\ op[c].kind = "bounce"
    /\ ~op[c].write
    /\ i = op[c].at
    /\ moved[c] = op[c].at + 1

Asked == [c \in Ctx |->
            IF pc[c] = "idle" THEN NoRequest
            ELSE [write |-> op[c].write, sector |-> op[c].sector,
                  count |-> op[c].count, valid |-> op[c].valid]]
Seen == [c \in Ctx |-> [i \in Slots |->
            IF Bounced(c, i) THEN mem["bounce"][0] ELSE mem[c][i]]]
Replies == [c \in Ctx |-> IF pc[c] = "done" THEN token[c].result ELSE "none"]

Store == INSTANCE SectorStore WITH
    Callers <- Ctx, asked <- Asked, done <- moved, buf <- Seen, reply <- Replies

\* The two-core protocol keeps the promise of SectorStore: each sector of a
\* request moves once, in order, between call and return, SUCCESS means all
\* did, and a reader's bytes survive the other context's transfers.
ImplementsSectorStore == Store!StoreSpec

\* Every call returns: the wait loop of FsIpc.cpp:65-84 has no timeout, so it
\* depends on a completion that is never missed, overwritten or taken for
\* stale.
CallsReturn == \A c \in Ctx : pc[c] # "idle" ~> pc[c] = "idle"
=============================================================================
