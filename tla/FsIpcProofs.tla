----------------------------- MODULE FsIpcProofs -----------------------------
(***************************************************************************)
(* Proofs about the storage transactions of FsIpc, for every card size,     *)
(* transfer size, range of sequence numbers and width of the notification   *)
(* nibble.                                                                  *)
(***************************************************************************)
EXTENDS FsIpc, TLAPS

\* The sequence number after this one is again in range, and never 0.
LEMMA NextSequenceInRange ==
    ASSUME sequence \in Sequences
    PROVE  NextSequence \in Sequences \ {0} /\ NextSequence # sequence
BY ConstantsAssumption DEF Sequences, NextSequence

LEMMA NoCommandTyped == NoCommand \in Commands
BY ConstantsAssumption DEF NoCommand, Commands, Buffers, Ctx, Sectors, Sequences

LEMMA InitInv == Init => Inv
<1> SUFFICES ASSUME Init PROVE Inv
  OBVIOUS
<1>1. AnyValue \in Values
  BY ConstantsAssumption DEF AnyValue
<1>2. TypeOK
  <2>1. 0 \in Sectors /\ 0 \in Slots /\ 0 \in Sequences /\ 1 \in 1 .. MaxCount /\ 0 \in 0 .. MaxCount
    BY ConstantsAssumption DEF Sectors, Slots, Sequences
  <2>2. NoOp \in Requests
    BY <2>1 DEF NoOp, Requests
  <2>3. NoCommand \in Commands
    BY <2>1 DEF NoCommand, Commands, Buffers, Ctx
  <2>4. NoToken \in FsWaitToken
    BY <2>1 DEF NoToken, FsWaitToken, FsTransactionResult
  <2> QED
    BY <1>1, <2>1, <2>2, <2>3, <2>4
    DEF Init, TypeOK, FsTransactionResult
<1>3. BufferLifetime /\ MailboxNeverOverwritten /\ Outstanding /\ Arm7Progress
  BY DEF Init, BufferLifetime, MailboxNeverOverwritten, Outstanding, Arm7Progress,
         Submitted, Working7
<1>4. SuccessIsEarned /\ RetiredByOther
  BY DEF Init, SuccessIsEarned, RetiredByOther
<1>5. CallStages
  BY ConstantsAssumption DEF Init, CallStages, MainMasked, NoOp, Ctx
<1> QED
  BY <1>2, <1>3, <1>4, <1>5 DEF Inv
-----------------------------------------------------------------------------
\* Once the outstanding transaction is retired the ARM7 holds nothing, every
\* token that is waited for is complete, and its SUCCESS is earned.
LEMMA RetireSettles ==
    ASSUME Inv, current = None \/ Retirable
    PROVE  /\ ~Submitted
           /\ fifo = 0 /\ ~mailbox
           /\ Retired \in [Ctx -> FsWaitToken]
           /\ \A d \in Ctx : pc[d] \in {"inflight", "wait"} => Retired[d].transactionComplete
           /\ \A d \in Ctx : /\ pc[d] \in {"inflight", "wait", "done"}
                            /\ Retired[d].transactionComplete
                            /\ Retired[d].result = "SUCCESS"
                            => moved[d] = op[d].at + Chunk(d)
<1>1. ~Submitted
  BY DEF Inv, BufferLifetime, Arm7Progress, Retirable
<1>2. fifo = 0 /\ ~mailbox
  BY <1>1 DEF Inv, TypeOK, Submitted
<1>3. Retired \in [Ctx -> FsWaitToken]
  BY DEF Inv, TypeOK, Retired, Retirable, FsWaitToken
<1>4. ASSUME NEW d \in Ctx, pc[d] \in {"inflight", "wait"}
      PROVE  Retired[d].transactionComplete
  <2>1. CASE Retirable /\ current = d
    BY <1>4, <2>1 DEF Inv, TypeOK, Retired, FsWaitToken
  <2>2. CASE ~(Retirable /\ current = d)
    <3>1. Retired[d] = token[d]
      BY <2>2 DEF Inv, TypeOK, Retired, FsWaitToken
    <3>2. current # d
      BY <2>2, ConstantsAssumption DEF Ctx
    <3> QED
      BY <1>4, <3>1, <3>2 DEF Inv, RetiredByOther
  <2> QED
    BY <2>1, <2>2
<1>5. ASSUME NEW d \in Ctx, pc[d] \in {"inflight", "wait", "done"},
             Retired[d].transactionComplete, Retired[d].result = "SUCCESS"
      PROVE  moved[d] = op[d].at + Chunk(d)
  <2>1. CASE Retirable /\ current = d
    BY <1>5, <2>1 DEF Inv, TypeOK, Retired, Retirable, Outstanding, FsWaitToken
  <2>2. CASE ~(Retirable /\ current = d)
    <3>1. Retired[d] = token[d]
      BY <2>2 DEF Inv, TypeOK, Retired, FsWaitToken
    <3> QED
      BY <1>5, <3>1 DEF Inv, SuccessIsEarned
  <2> QED
    BY <2>1, <2>2
<1> QED
  BY <1>1, <1>2, <1>3, <1>4, <1>5
-----------------------------------------------------------------------------
(* The steps of the ARM9.                                                   *)

LEMMA BeginInv ==
    ASSUME Inv, NEW c \in Ctx, NEW r \in Callable, NEW data \in Data,
           Begin(c, r, data)
    PROVE  Inv'
<1>1. TypeOK'
  BY MenuAssumption DEF Inv, TypeOK, Begin, Callable, arm7Vars, Buffers
<1>2. current # c
  BY ConstantsAssumption DEF Inv, Outstanding, Begin, Ctx
<1>3. BufferLifetime' /\ MailboxNeverOverwritten'
  BY <1>2 DEF Inv, TypeOK, BufferLifetime, MailboxNeverOverwritten, Submitted, Working7,
              Begin, arm7Vars
<1>4. SuccessIsEarned'
  BY DEF Inv, TypeOK, SuccessIsEarned, Chunk, Begin
<1>5. CallStages'
  <2>1. MainMasked' => pc["irq"]' = "idle"
    BY DEF Inv, TypeOK, CallStages, MainMasked, MayRun, Begin, Ctx
  <2>2. r \in Requests /\ r.at = 0 /\ r.sector + r.count <= LastSector + 1 /\ 0 < r.count
        /\ (r.kind # "async" => r.valid)
    BY MenuAssumption DEF Callable, Requests
  <2> QED
    BY <2>1, <2>2 DEF Inv, TypeOK, CallStages, Begin
<1>6. Outstanding'
  BY <1>2 DEF Inv, TypeOK, Outstanding, Chunk, CommandFor, Submitted, Working7, Begin,
              arm7Vars
<1>7. RetiredByOther'
  BY DEF Inv, TypeOK, RetiredByOther, Begin
<1>8. Arm7Progress'
  BY <1>2 DEF Inv, TypeOK, Arm7Progress, BufferLifetime, Submitted, Working7, Begin, arm7Vars
<1> QED
  BY <1>1, <1>3, <1>4, <1>5, <1>6, <1>7, <1>8 DEF Inv

LEMMA IssueInv ==
    ASSUME Inv, NEW c \in Ctx, Issue(c)
    PROVE  Inv'
<1>1. /\ ~Submitted
      /\ fifo = 0 /\ ~mailbox
      /\ Retired \in [Ctx -> FsWaitToken]
  BY RetireSettles DEF Issue
<1>2. \A d \in Ctx : pc[d] \in {"inflight", "wait"} => Retired[d].transactionComplete
  BY RetireSettles DEF Issue
<1>3. \A d \in Ctx : /\ pc[d] \in {"inflight", "wait", "done"}
                   /\ Retired[d].transactionComplete
                   /\ Retired[d].result = "SUCCESS"
                   => moved[d] = op[d].at + Chunk(d)
  BY RetireSettles DEF Issue
<1>4. NextSequence \in Sequences \ {0}
  BY NextSequenceInRange DEF Inv, TypeOK
<1>5. op[c] \in Requests /\ pc[c] \in {"drain", "next"}
      /\ moved[c] = op[c].at /\ op[c].at < op[c].count
      /\ op[c].sector + op[c].count <= LastSector + 1
  BY DEF Inv, TypeOK, CallStages, Issue
<1>6. token' = [Retired EXCEPT ![c] = [transactionComplete |-> FALSE,
                                       sequence |-> NextSequence,
                                       result |-> "PENDING"]]
  BY DEF Issue
<1>7. CommandFor(c, NextSequence) \in Commands
  <2>1. Chunk(c) \in 1 .. MaxCount
    BY <1>5, ConstantsAssumption DEF Chunk, Requests
  <2>2. op[c].sector + op[c].at \in Sectors
    BY <1>5, ConstantsAssumption DEF Requests, Sectors, Slots
  <2> QED
    BY <1>4, <1>5, <2>1, <2>2 DEF CommandFor, Commands, Buffers, Requests
<1>8. TypeOK'
  <2>1. token' \in [Ctx -> FsWaitToken]
    BY <1>1, <1>4, <1>6 DEF FsWaitToken, FsTransactionResult
  <2>2. mem' \in [Buffers -> [Slots -> Values]]
    BY <1>5, ConstantsAssumption DEF Inv, TypeOK, Issue, Buffers, Slots, Requests
  <2>3. completion' \in [result: FsTransactionResult, sequence: Sequences]
    BY ConstantsAssumption DEF Issue, FsTransactionResult, Sequences
  <2>4. fifo' \in {0, 1}
    BY <1>1 DEF Issue
  <2>5. pc' \in [Ctx -> {"idle", "drain", "inflight", "wait", "cancel", "next", "done"}]
    BY DEF Inv, TypeOK, Issue
  <2> QED
    BY <1>4, <1>7, <2>1, <2>2, <2>3, <2>4, <2>5 DEF Inv, TypeOK, Issue, arm7Vars
<1>9. BufferLifetime' /\ MailboxNeverOverwritten'
  <2>1. ~Working7' /\ ~mailbox'
    BY <1>1 DEF Submitted, Working7, Issue, arm7Vars
  <2>2. /\ current' = c /\ current' # None
        /\ command'.caller = c /\ command'.sequence = NextSequence
    BY ConstantsAssumption DEF Issue, CommandFor, Ctx
  <2>3. pc'[c] \in {"inflight", "wait", "cancel"}
    BY DEF Inv, TypeOK, Issue
  <2>4. ~token'[c].transactionComplete /\ token'[c].sequence = NextSequence
    BY <1>1, <1>6
  <2> QED
    BY <2>1, <2>2, <2>3, <2>4 DEF BufferLifetime, MailboxNeverOverwritten
<1>10. SuccessIsEarned'
  <2> SUFFICES ASSUME NEW d \in Ctx, pc'[d] \in {"inflight", "wait", "done"},
                      token'[d].transactionComplete, token'[d].result = "SUCCESS"
               PROVE  moved'[d] = op'[d].at + Chunk(d)'
    BY DEF SuccessIsEarned
  <2>1. d # c
    BY <1>1, <1>6
  <2>2. pc'[d] = pc[d] /\ token'[d] = Retired[d]
    BY <1>1, <1>6, <2>1 DEF Inv, TypeOK, Issue
  <2> QED
    BY <1>3, <2>2 DEF Issue, Chunk
<1>11. CallStages'
  <2>1. MainMasked' => pc["irq"]' = "idle"
    BY DEF Inv, TypeOK, CallStages, MainMasked, MayRun, Issue, Ctx
  <2>2. ASSUME NEW d \in Ctx, pc'[d] = "cancel" PROVE current' = d
    BY <2>2 DEF Inv, TypeOK, CallStages, Issue, MayRun, MainMasked, Ctx
  <2> QED
    BY <2>1, <2>2 DEF Inv, TypeOK, CallStages, Issue
<1>12. Outstanding'
  BY <1>1, <1>4, <1>5, <1>6, ConstantsAssumption
  DEF Inv, TypeOK, Outstanding, Chunk, CommandFor, Submitted, Working7, Issue, arm7Vars
<1>13. RetiredByOther'
  BY <1>1, <1>2, <1>6 DEF Inv, TypeOK, RetiredByOther, Issue
<1>14. Arm7Progress'
  BY <1>1, <1>4 DEF Inv, TypeOK, Arm7Progress, Submitted, Working7, Issue, arm7Vars
<1> QED
  BY <1>8, <1>9, <1>10, <1>11, <1>12, <1>13, <1>14 DEF Inv
LEMMA IssueInvalidInv ==
    ASSUME Inv, NEW c \in Ctx, IssueInvalid(c)
    PROVE  Inv'
<1>1. /\ ~Submitted
      /\ fifo = 0 /\ ~mailbox
      /\ Retired \in [Ctx -> FsWaitToken]
  BY RetireSettles DEF IssueInvalid
<1>2. \A d \in Ctx : pc[d] \in {"inflight", "wait"} => Retired[d].transactionComplete
  BY RetireSettles DEF IssueInvalid
<1>3. \A d \in Ctx : /\ pc[d] \in {"inflight", "wait", "done"}
                   /\ Retired[d].transactionComplete
                   /\ Retired[d].result = "SUCCESS"
                   => moved[d] = op[d].at + Chunk(d)
  BY RetireSettles DEF IssueInvalid
<1>4. token' = [Retired EXCEPT ![c] = [transactionComplete |-> TRUE,
                                       sequence |-> 0,
                                       result |-> "INVALID_ARGUMENT"]]
  BY DEF IssueInvalid
<1>5. TypeOK'
  <2>1. token' \in [Ctx -> FsWaitToken]
    BY <1>1, <1>4, ConstantsAssumption DEF FsWaitToken, FsTransactionResult, Sequences
  <2>2. NoCommand \in Commands
    BY NoCommandTyped
  <2> QED
    BY <2>1, <2>2 DEF Inv, TypeOK, IssueInvalid, arm7Vars
<1>6. BufferLifetime' /\ MailboxNeverOverwritten'
  BY <1>1 DEF BufferLifetime, MailboxNeverOverwritten, Submitted, Working7, IssueInvalid,
              arm7Vars
<1>7. SuccessIsEarned'
  <2> SUFFICES ASSUME NEW d \in Ctx, pc'[d] \in {"inflight", "wait", "done"},
                      token'[d].transactionComplete, token'[d].result = "SUCCESS"
               PROVE  moved'[d] = op'[d].at + Chunk(d)'
    BY DEF SuccessIsEarned
  <2>1. d # c
    BY <1>1, <1>4
  <2>2. pc'[d] = pc[d] /\ token'[d] = Retired[d]
    BY <1>1, <1>4, <2>1 DEF Inv, TypeOK, IssueInvalid
  <2> QED
    BY <1>3, <2>2 DEF IssueInvalid, Chunk
<1>8. CallStages'
  <2>1. MainMasked' => pc["irq"]' = "idle"
    BY DEF Inv, TypeOK, CallStages, MainMasked, MayRun, IssueInvalid, Ctx
  <2>2. ASSUME NEW d \in Ctx, pc'[d] = "cancel" PROVE current' = d
    <3>1. d # c /\ pc[d] = "cancel" /\ current = d
      BY <2>2 DEF Inv, TypeOK, CallStages, IssueInvalid
    <3> QED
      BY <3>1 DEF Inv, TypeOK, CallStages, IssueInvalid, MayRun, MainMasked, Ctx
  <2> QED
    BY <2>1, <2>2 DEF Inv, TypeOK, CallStages, IssueInvalid
<1>9. Outstanding'
  BY DEF Outstanding, IssueInvalid
<1>10. RetiredByOther'
  BY <1>1, <1>2, <1>4 DEF Inv, TypeOK, RetiredByOther, IssueInvalid
<1>11. Arm7Progress'
  BY <1>1 DEF Inv, TypeOK, Arm7Progress, Submitted, Working7, IssueInvalid, arm7Vars
<1> QED
  BY <1>5, <1>6, <1>7, <1>8, <1>9, <1>10, <1>11 DEF Inv

LEMMA PollInv ==
    ASSUME Inv, NEW c \in Ctx, Poll(c)
    PROVE  Inv'
<1>1. /\ ~Submitted
      /\ fifo = 0 /\ ~mailbox
      /\ Retired \in [Ctx -> FsWaitToken]
  BY RetireSettles DEF Poll
<1>2. \A d \in Ctx : pc[d] \in {"inflight", "wait"} => Retired[d].transactionComplete
  BY RetireSettles DEF Poll
<1>3. \A d \in Ctx : /\ pc[d] \in {"inflight", "wait", "done"}
                   /\ Retired[d].transactionComplete
                   /\ Retired[d].result = "SUCCESS"
                   => moved[d] = op[d].at + Chunk(d)
  BY RetireSettles DEF Poll
<1>4. TypeOK'
  BY <1>1, NoCommandTyped DEF Inv, TypeOK, Poll, arm7Vars
<1>5. BufferLifetime' /\ MailboxNeverOverwritten'
  BY <1>1 DEF BufferLifetime, MailboxNeverOverwritten, Submitted, Working7, Poll, arm7Vars
<1>6. SuccessIsEarned' /\ RetiredByOther'
  BY <1>2, <1>3 DEF SuccessIsEarned, RetiredByOther, Poll, Chunk
<1>7. CallStages'
  BY DEF Inv, CallStages, MainMasked, Poll
<1>8. Outstanding'
  BY DEF Outstanding, Poll
<1>9. Arm7Progress'
  BY <1>1 DEF Inv, Arm7Progress, Submitted, Working7, Poll, arm7Vars
<1> QED
  BY <1>4, <1>5, <1>6, <1>7, <1>8, <1>9 DEF Inv

LEMMA AwaitInv ==
    ASSUME Inv, NEW c \in Ctx, Await(c)
    PROVE  Inv'
<1>1. TypeOK'
  BY DEF Inv, TypeOK, Await, arm7Vars
<1>2. BufferLifetime' /\ MailboxNeverOverwritten'
  BY DEF Inv, TypeOK, BufferLifetime, MailboxNeverOverwritten, Submitted, Working7, Await,
         arm7Vars
<1>3. SuccessIsEarned' /\ RetiredByOther'
  BY DEF Inv, TypeOK, SuccessIsEarned, RetiredByOther, Await, Chunk
<1>4. CallStages'
  BY DEF Inv, TypeOK, CallStages, MainMasked, MayRun, Await, Ctx
<1>5. Outstanding'
  BY DEF Inv, TypeOK, Outstanding, Chunk, CommandFor, Submitted, Working7, Await, arm7Vars
<1>6. Arm7Progress'
  BY DEF Inv, Arm7Progress, Submitted, Working7, Await, arm7Vars
<1> QED
  BY <1>1, <1>2, <1>3, <1>4, <1>5, <1>6 DEF Inv

LEMMA CancelInv ==
    ASSUME Inv, NEW c \in Ctx, Cancel(c)
    PROVE  Inv'
<1>1. TypeOK'
  BY DEF Inv, TypeOK, Cancel, arm7Vars
<1>2. BufferLifetime' /\ MailboxNeverOverwritten'
  BY DEF Inv, TypeOK, BufferLifetime, MailboxNeverOverwritten, Submitted, Working7, Cancel,
         arm7Vars
<1>3. SuccessIsEarned' /\ RetiredByOther'
  BY DEF Inv, TypeOK, SuccessIsEarned, RetiredByOther, Cancel, Chunk
<1>4. CallStages'
  <2>1. op[c].valid /\ current' = c
    BY ConstantsAssumption DEF Inv, Outstanding, Cancel, Ctx
  <2> QED
    BY <2>1 DEF Inv, TypeOK, CallStages, MainMasked, MayRun, Cancel, Ctx
<1>5. Outstanding'
  BY DEF Inv, TypeOK, Outstanding, Chunk, CommandFor, Submitted, Working7, Cancel, arm7Vars
<1>6. Arm7Progress'
  BY DEF Inv, Arm7Progress, Submitted, Working7, Cancel, arm7Vars
<1> QED
  BY <1>1, <1>2, <1>3, <1>4, <1>5, <1>6 DEF Inv
\* How a wait settles: the token is complete, nothing is held for c any more,
\* and only its own entry of the tokens changes.
LEMMA FinishSettles ==
    ASSUME Inv, NEW c \in Ctx, Finish(c)
    PROVE  /\ ~Disowned(c) => Complete(c) \/ (Retirable /\ current = c)
           /\ Complete(c) => current # c
           /\ Disowned(c) => Complete(c)
           /\ Settled(c) \in [Ctx -> FsWaitToken]
           /\ Settled(c)[c].transactionComplete
           /\ Settled(c)[c].result = "SUCCESS" => moved[c] = op[c].at + Chunk(c)
           /\ \A d \in Ctx \ {c} : Settled(c)[d] = token[d]
<1>1. pc[c] \in {"wait", "cancel"}
  BY DEF Finish
<1>2. Complete(c) => current # c
  BY ConstantsAssumption DEF Inv, Outstanding, Complete, Ctx
<1>3. Disowned(c) => Complete(c)
  BY <1>1, ConstantsAssumption
  DEF Inv, Outstanding, CallStages, RetiredByOther, Complete, Disowned, Ctx
<1>4. ~Disowned(c) => Complete(c) \/ (Retirable /\ current = c)
  BY DEF Finish, Disowned
<1>5. CASE Complete(c)
  <2>1. Settled(c) = token
    BY <1>5 DEF Settled
  <2>2. pc[c] = "wait"
    BY <1>1, <1>2, <1>5 DEF Inv, CallStages
  <2> QED
    BY <1>2, <1>3, <1>4, <1>5, <2>1, <2>2 DEF Inv, TypeOK, SuccessIsEarned, Complete
<1>6. CASE ~Complete(c)
  <2>1. Settled(c) = Retired /\ Retirable /\ current = c
    BY <1>3, <1>4, <1>6 DEF Settled
  <2>2. Retired \in [Ctx -> FsWaitToken]
    BY <2>1, RetireSettles
  <2>3. /\ Retired[c].transactionComplete
        /\ Retired[c].result = completion.result
        /\ \A d \in Ctx \ {c} : Retired[d] = token[d]
    BY <2>1 DEF Inv, TypeOK, Retired, FsWaitToken
  <2>4. completion.result = "SUCCESS" => moved[c] = op[c].at + Chunk(c)
    BY <2>1 DEF Inv, Outstanding, Retirable
  <2> QED
    BY <1>2, <1>3, <1>4, <2>1, <2>2, <2>3, <2>4
<1> QED
  BY <1>5, <1>6

LEMMA FinishInv ==
    ASSUME Inv, NEW c \in Ctx, Finish(c)
    PROVE  Inv'
<1> DEFINE result == IF pc[c] = "cancel" THEN "CANCELED" ELSE Settled(c)[c].result
           copied == op[c].kind = "bounce" /\ result = "SUCCESS"
           more == copied /\ op[c].at + 1 < op[c].count
           polled == ~(Complete(c) \/ Disowned(c))
<1>1. /\ token' = [Settled(c) EXCEPT ![c].result = result]
      /\ mem' = IF copied /\ ~op[c].write
                THEN [mem EXCEPT ![c][op[c].at] = mem["bounce"][0]]
                ELSE mem
      /\ op' = IF more THEN [op EXCEPT ![c].at = @ + 1] ELSE op
      /\ pc' = [pc EXCEPT ![c] = IF more THEN "next" ELSE "done"]
      /\ current' = IF polled THEN None ELSE current
      /\ command' = IF polled THEN NoCommand ELSE command
      /\ UNCHANGED <<sequence, completion, sync7, fifo, arm7Vars, moved>>
      /\ MayRun(c)
      /\ pc[c] \in {"wait", "cancel"}
  BY DEF Finish
<1>2. /\ polled => Retirable /\ current = c
      /\ ~polled => Complete(c) /\ current # c
      /\ Settled(c) \in [Ctx -> FsWaitToken]
      /\ Settled(c)[c].transactionComplete
      /\ Settled(c)[c].result = "SUCCESS" => moved[c] = op[c].at + Chunk(c)
      /\ \A d \in Ctx \ {c} : Settled(c)[d] = token[d]
  BY FinishSettles
<1>3. op[c] \in Requests /\ op[c].at < op[c].count
      /\ op[c].sector + op[c].count <= LastSector + 1
  BY <1>1 DEF Inv, TypeOK, CallStages
<1>4. current' # c
  BY <1>1, <1>2, ConstantsAssumption DEF Ctx
<1>5. polled => ~Submitted /\ fifo = 0 /\ ~mailbox
  BY <1>2, RetireSettles
<1>6. result = "SUCCESS" => moved[c] = op[c].at + Chunk(c)
  BY <1>2
<1>7. token' \in [Ctx -> FsWaitToken] /\ \A d \in Ctx \ {c} : token'[d] = token[d]
  <2>1. result \in FsTransactionResult
    BY <1>2 DEF FsWaitToken, FsTransactionResult
  <2> HIDE DEF result
  <2> QED
    BY <1>1, <1>2, <2>1 DEF FsWaitToken
<1>8. more => op[c].kind = "bounce" /\ op[c].at + 1 < op[c].count /\ moved[c] = op[c].at + 1
  BY <1>6 DEF Chunk
<1>9. token'[c].result = result
  BY <1>1, <1>2 DEF FsWaitToken
<1>10. op' \in [Ctx -> Requests] /\ \A d \in Ctx \ {c} : op'[d] = op[d]
  <2>1. CASE more
    <3>1. op[c].at + 1 \in Slots
      BY <1>3, <1>8, <2>1, ConstantsAssumption DEF Slots, Requests
    <3> HIDE DEF more
    <3> QED
      BY <1>1, <2>1, <3>1 DEF Inv, TypeOK, Requests
  <2>2. CASE ~more
    BY <1>1, <2>2 DEF Inv, TypeOK
  <2> QED
    BY <2>1, <2>2
<1>11. more => op'[c] = [op[c] EXCEPT !.at = op[c].at + 1]
  BY <1>1 DEF Inv, TypeOK
<1>12. ~more => op'[c] = op[c]
  BY <1>1
<1> HIDE DEF result, copied, more, polled
<1>13. TypeOK'
  <2>1. mem' \in [Buffers -> [Slots -> Values]]
    <3>1. op[c].at \in Slots /\ c \in Buffers /\ mem["bounce"][0] \in Values
      BY <1>3, ConstantsAssumption DEF Inv, TypeOK, Buffers, Slots, Requests
    <3> QED
      BY <1>1, <3>1 DEF Inv, TypeOK
  <2>2. command' \in Commands /\ current' \in Ctx \union {None}
    BY <1>1, NoCommandTyped DEF Inv, TypeOK
  <2>3. pc' \in [Ctx -> {"idle", "drain", "inflight", "wait", "cancel", "next", "done"}]
    BY <1>1 DEF Inv, TypeOK
  <2> QED
    BY <1>1, <1>7, <1>10, <2>1, <2>2, <2>3 DEF Inv, TypeOK, arm7Vars
<1>14. BufferLifetime' /\ MailboxNeverOverwritten'
  <2>1. CASE polled
    BY <1>1, <1>5, <2>1
    DEF BufferLifetime, MailboxNeverOverwritten, Submitted, Working7, arm7Vars
  <2>2. CASE ~polled
    BY <1>1, <1>2, <1>7, <2>2
    DEF Inv, TypeOK, BufferLifetime, MailboxNeverOverwritten, Submitted, Working7, arm7Vars
  <2> QED
    BY <2>1, <2>2
<1>15. SuccessIsEarned'
  <2> SUFFICES ASSUME NEW d \in Ctx, pc'[d] \in {"inflight", "wait", "done"},
                      token'[d].transactionComplete, token'[d].result = "SUCCESS"
               PROVE  moved'[d] = op'[d].at + Chunk(d)'
    BY DEF SuccessIsEarned
  <2>1. CASE d = c
    <3>1. ~more
      BY <1>1, <2>1 DEF Inv, TypeOK
    <3> QED
      BY <1>1, <1>6, <1>9, <1>12, <2>1, <3>1 DEF Chunk
  <2>2. CASE d # c
    <3>1. pc'[d] = pc[d] /\ token'[d] = token[d] /\ op'[d] = op[d]
      BY <1>1, <1>7, <1>10, <2>2 DEF Inv, TypeOK
    <3> QED
      BY <1>1, <3>1 DEF Inv, SuccessIsEarned, Chunk
  <2> QED
    BY <2>1, <2>2
<1>16. CallStages'
  <2>1. MainMasked' => pc'["irq"] = "idle"
    <3>1. CASE c = "irq"
      BY <1>1, <1>10, <3>1 DEF Inv, TypeOK, CallStages, MainMasked, MayRun, Ctx
    <3>2. CASE c = "main"
      BY <1>1, <3>2 DEF Inv, TypeOK, MayRun, Ctx
    <3> QED
      BY <3>1, <3>2 DEF Ctx
  <2>2. ASSUME NEW d \in Ctx \ {c}
        PROVE  /\ pc'[d] = "cancel" => current' = d
               /\ pc'[d] = pc[d] /\ op'[d] = op[d] /\ moved'[d] = moved[d]
    BY <1>1, <1>2, <1>10 DEF Inv, TypeOK, CallStages, MayRun, MainMasked, Ctx
  <2>3. CASE more
    <3>1. pc'[c] = "next" /\ op[c].valid
      BY <1>1, <1>8, <2>3 DEF Inv, TypeOK, CallStages
    <3> QED
      BY <1>1, <1>3, <1>8, <1>11, <2>1, <2>2, <2>3, <3>1 DEF Inv, TypeOK, CallStages, Requests
  <2>4. CASE ~more
    <3>1. pc'[c] = "done"
      BY <1>1, <2>4 DEF Inv, TypeOK
    <3> QED
      BY <1>1, <1>3, <1>12, <2>1, <2>2, <2>4, <3>1 DEF Inv, TypeOK, CallStages
  <2> QED
    BY <2>3, <2>4
<1>17. Outstanding'
  <2>1. CASE polled
    BY <1>1, <2>1 DEF Outstanding
  <2>2. CASE ~polled
    <3> SUFFICES ASSUME current # None PROVE Outstanding'
      BY <1>1, <2>2 DEF Outstanding
    <3>1. current \in Ctx \ {c} /\ current' = current /\ command' = command
      BY <1>1, <1>2, <2>2 DEF Inv, TypeOK
    <3>2. pc'[current] = pc[current] /\ token'[current] = token[current]
          /\ op'[current] = op[current]
      BY <1>1, <1>7, <1>10, <3>1 DEF Inv, TypeOK
    <3> QED
      BY <1>1, <3>1, <3>2
      DEF Inv, Outstanding, Chunk, CommandFor, Submitted, Working7, arm7Vars
  <2> QED
    BY <2>1, <2>2
<1>18. RetiredByOther'
  <2> SUFFICES ASSUME NEW d \in Ctx \ {c}, pc[d] \in {"inflight", "wait"}, current' # d
               PROVE  token'[d].transactionComplete
    BY <1>1 DEF Inv, TypeOK, RetiredByOther
  <2>1. current # d
    BY <1>1, <1>2
  <2> QED
    BY <1>7, <2>1 DEF Inv, RetiredByOther
<1>19. Arm7Progress'
  <2>1. CASE polled
    BY <1>1, <1>5, <2>1 DEF Inv, Arm7Progress, Submitted, Working7, arm7Vars
  <2>2. CASE ~polled
    <3>1. Working7 => cmd7.caller # c /\ cmd7.caller \in Ctx
      BY <1>2, <2>2 DEF Inv, TypeOK, BufferLifetime, Submitted
    <3> QED
      BY <1>1, <1>10, <2>2, <3>1 DEF Inv, Arm7Progress, Submitted, Working7, arm7Vars
  <2> QED
    BY <2>1, <2>2
<1> QED
  BY <1>13, <1>14, <1>15, <1>16, <1>17, <1>18, <1>19 DEF Inv
LEMMA ReturnInv ==
    ASSUME Inv, NEW c \in Ctx, Return(c)
    PROVE  Inv'
<1>1. current # c /\ (Working7 => cmd7.caller # c)
  BY ConstantsAssumption
  DEF Inv, Outstanding, BufferLifetime, Submitted, Return, Ctx
<1>2. NoOp \in Requests /\ NoToken \in FsWaitToken
      /\ NoOp.kind # "bounce" /\ NoOp.at = 0 /\ NoOp.valid
      /\ NoOp.sector + NoOp.count <= LastSector + 1
  BY ConstantsAssumption
  DEF NoOp, NoToken, Requests, FsWaitToken, FsTransactionResult, Sectors, Slots, Sequences
<1>3. TypeOK'
  BY <1>2, ConstantsAssumption DEF Inv, TypeOK, Return, arm7Vars
<1>4. BufferLifetime' /\ MailboxNeverOverwritten'
  BY <1>1 DEF Inv, TypeOK, BufferLifetime, MailboxNeverOverwritten, Submitted, Working7,
              Return, arm7Vars
<1>5. SuccessIsEarned' /\ RetiredByOther'
  BY DEF Inv, TypeOK, SuccessIsEarned, RetiredByOther, Return, Chunk
<1>6. CallStages'
  BY <1>2 DEF Inv, TypeOK, CallStages, MainMasked, MayRun, Return, Ctx
<1>7. Outstanding'
  BY <1>1 DEF Inv, TypeOK, Outstanding, Chunk, CommandFor, Submitted, Working7, Return,
              arm7Vars
<1>8. Arm7Progress'
  BY <1>1 DEF Inv, TypeOK, Arm7Progress, Submitted, Working7, Return, arm7Vars
<1> QED
  BY <1>3, <1>4, <1>5, <1>6, <1>7, <1>8 DEF Inv

-----------------------------------------------------------------------------
(* The steps of the ARM7.                                                   *)

LEMMA Receive7Inv == Inv /\ Receive7 => Inv'
<1> SUFFICES ASSUME Inv, Receive7 PROVE Inv'
  OBVIOUS
<1>1. TypeOK'
  BY DEF Inv, TypeOK, Receive7, arm9Vars
<1>2. Submitted /\ fifo = 1 /\ fifo' = 0 /\ mailbox' /\ (Working7' <=> Working7)
  BY DEF Inv, TypeOK, Submitted, Working7, Receive7
<1>3. BufferLifetime' /\ MailboxNeverOverwritten'
  BY <1>2 DEF Inv, BufferLifetime, MailboxNeverOverwritten, Submitted, Receive7, arm9Vars
<1>4. SuccessIsEarned' /\ RetiredByOther' /\ CallStages'
  BY DEF Inv, SuccessIsEarned, RetiredByOther, CallStages, MainMasked, Receive7, arm9Vars,
         Chunk
<1>5. Outstanding' /\ Arm7Progress'
  BY <1>2 DEF Inv, Outstanding, Arm7Progress, Submitted, Receive7, arm9Vars, Chunk, CommandFor
<1> QED
  BY <1>1, <1>3, <1>4, <1>5 DEF Inv

LEMMA Wake7Inv == Inv /\ Wake7 => Inv'
<1> SUFFICES ASSUME Inv, Wake7 PROVE Inv'
  OBVIOUS
<1>1. TypeOK'
  BY DEF Inv, TypeOK, Wake7, arm9Vars
<1>2. ~Working7 /\ ~Working7' /\ (Submitted' <=> Submitted)
  BY DEF Submitted, Working7, Wake7
<1>3. BufferLifetime' /\ MailboxNeverOverwritten'
  BY <1>2 DEF Inv, BufferLifetime, MailboxNeverOverwritten, Wake7, arm9Vars
<1>4. SuccessIsEarned' /\ RetiredByOther' /\ CallStages'
  BY DEF Inv, SuccessIsEarned, RetiredByOther, CallStages, MainMasked, Wake7, arm9Vars, Chunk
<1>5. Outstanding' /\ Arm7Progress'
  BY <1>2 DEF Inv, Outstanding, Arm7Progress, Wake7, arm9Vars, Chunk, CommandFor
<1> QED
  BY <1>1, <1>3, <1>4, <1>5 DEF Inv

LEMMA Take7Inv == Inv /\ Take7 => Inv'
<1> SUFFICES ASSUME Inv, Take7 PROVE Inv'
  OBVIOUS
<1>1. TypeOK'
  BY DEF Inv, TypeOK, Take7, arm9Vars
<1>2. ~Working7 /\ moved7 = 0 /\ moved7' = 0
  BY DEF Inv, Working7, Arm7Progress, Take7
<1>3. Working7' <=> mailbox
  BY DEF Inv, TypeOK, Working7, Take7
<1>4. Submitted' <=> Submitted
  BY <1>2, <1>3 DEF Submitted, Take7
<1>5. MailboxNeverOverwritten'
  BY <1>2, <1>3 DEF Inv, MailboxNeverOverwritten, Take7
<1>6. BufferLifetime'
  BY <1>3, <1>4 DEF Inv, BufferLifetime, Take7, arm9Vars
<1>7. SuccessIsEarned' /\ RetiredByOther' /\ CallStages'
  BY DEF Inv, SuccessIsEarned, RetiredByOther, CallStages, MainMasked, Take7, arm9Vars, Chunk
<1>8. Outstanding'
  BY <1>4 DEF Inv, Outstanding, Take7, arm9Vars, Chunk, CommandFor
<1>9. Arm7Progress'
  <2>1. ASSUME mailbox PROVE moved[command.caller] = op[command.caller].at + 0
    BY <2>1 DEF Inv, TypeOK, BufferLifetime, Outstanding, Submitted, Requests, Slots
  <2>2. 0 <= command.count
    BY ConstantsAssumption DEF Inv, TypeOK, Commands
  <2> QED
    BY <1>2, <1>3, <1>4, <2>1, <2>2 DEF Inv, TypeOK, Arm7Progress, Take7, arm9Vars
<1> QED
  BY <1>1, <1>5, <1>6, <1>7, <1>8, <1>9 DEF Inv

\* What ARM7 works on is the request of the outstanding call.
LEMMA WorkOfOwner ==
    ASSUME Inv, Working7
    PROVE  /\ current \in Ctx
           /\ cmd7 = command /\ command = CommandFor(current, sequence)
           /\ fifo = 0 /\ ~mailbox
           /\ cmd7.caller = current /\ cmd7.count = Chunk(current)
           /\ cmd7.sector = op[current].sector + op[current].at
           /\ cmd7.sequence = sequence
           /\ moved[current] = op[current].at + moved7
           /\ op[current].at + Chunk(current) <= op[current].count
           /\ op[current].sector + op[current].count <= LastSector + 1
           /\ completion.sequence # sequence
<1>1. Submitted
  BY DEF Submitted
<1>2. current \in Ctx /\ cmd7 = command /\ command = CommandFor(current, sequence)
  BY <1>1, ConstantsAssumption DEF Inv, TypeOK, BufferLifetime, Outstanding
<1>3. pc[current] \in {"inflight", "wait", "cancel"}
  BY <1>1 DEF Inv, BufferLifetime
<1>4. op[current] \in Requests /\ op[current].at < op[current].count
      /\ (op[current].kind # "bounce" => op[current].at = 0)
      /\ op[current].sector + op[current].count <= LastSector + 1
  BY <1>2, <1>3 DEF Inv, TypeOK, CallStages
<1>5. op[current].at + Chunk(current) <= op[current].count
  BY <1>4, ConstantsAssumption DEF Chunk, Requests, Slots
<1> QED
  BY <1>1, <1>2, <1>4, <1>5 DEF Inv, TypeOK, MailboxNeverOverwritten, Arm7Progress, CommandFor

LEMMA Move7Inv == Inv /\ Move7 => Inv'
<1> SUFFICES ASSUME Inv, Move7 PROVE Inv'
  OBVIOUS
<1>1. Working7 /\ Working7' /\ (Submitted' <=> Submitted) /\ Submitted
  BY DEF Working7, Submitted, Move7
<1>2. /\ current \in Ctx
      /\ cmd7 = command /\ command = CommandFor(current, sequence)
      /\ fifo = 0 /\ ~mailbox
      /\ cmd7.caller = current /\ cmd7.count = Chunk(current)
      /\ cmd7.sector = op[current].sector + op[current].at
      /\ moved[current] = op[current].at + moved7
      /\ op[current].at + Chunk(current) <= op[current].count
      /\ op[current].sector + op[current].count <= LastSector + 1
      /\ completion.sequence # sequence
  BY <1>1, WorkOfOwner
<1>3. op[current] \in Requests /\ Chunk(current) \in 1 .. MaxCount /\ moved7 \in Nat
      /\ moved7 < Chunk(current)
  BY <1>2, ConstantsAssumption DEF Inv, TypeOK, Requests, Chunk, Move7
<1>4. /\ moved' = [moved EXCEPT ![current] = moved[current] + 1]
      /\ moved7' = moved7 + 1
  BY <1>2 DEF Move7
<1>5. TypeOK'
  <2>1. moved[current] + 1 \in 0 .. MaxCount /\ moved7 + 1 \in 0 .. MaxCount
    BY <1>2, <1>3, ConstantsAssumption DEF Requests, Slots
  <2>2. cmd7.sector + moved7 \in Sectors /\ moved7 \in Slots
    BY <1>2, <1>3, ConstantsAssumption DEF Requests, Slots, Sectors
  <2>3. cmd7.buffer \in Buffers
    BY DEF Inv, TypeOK, Commands
  <2>4. disk' \in [Sectors -> Values] /\ mem' \in [Buffers -> [Slots -> Values]]
    BY <2>2, <2>3 DEF Inv, TypeOK, Move7
  <2> QED
    <3>1. moved' \in [Ctx -> 0 .. MaxCount] /\ moved7' \in 0 .. MaxCount
      BY <1>4, <2>1 DEF Inv, TypeOK
    <3>2. UNCHANGED <<arm9Vars, completion, sync7, fifo, mailbox, event, pc7, cmd7>>
      BY DEF Move7
    <3> QED
      BY <2>4, <3>1, <3>2 DEF Inv, TypeOK, arm9Vars
<1>6. BufferLifetime' /\ MailboxNeverOverwritten'
  BY <1>1, <1>2 DEF Inv, BufferLifetime, MailboxNeverOverwritten, Move7, arm9Vars
<1>7. SuccessIsEarned'
  <2>1. ~token[current].transactionComplete
    BY <1>1 DEF Inv, BufferLifetime
  <2> QED
    BY <1>2, <1>4, <2>1 DEF Inv, TypeOK, SuccessIsEarned, Move7, arm9Vars, Chunk
<1>8. CallStages'
  <2>1. pc[current] \in {"inflight", "wait", "cancel"}
    BY <1>1 DEF Inv, BufferLifetime
  <2> QED
    BY <1>2, <1>4, <2>1 DEF Inv, TypeOK, CallStages, MainMasked, Move7, arm9Vars
<1>9. RetiredByOther'
  BY DEF Inv, RetiredByOther, Move7, arm9Vars
<1>10. Outstanding'
  BY <1>1, <1>2 DEF Inv, Outstanding, Move7, arm9Vars, Chunk, CommandFor
<1>11. Arm7Progress'
  <2>1. moved'[current] = op[current].at + (moved7 + 1)
    BY <1>2, <1>3, <1>4 DEF Inv, TypeOK, Requests, Slots
  <2>2. moved7 + 1 <= cmd7.count
    BY <1>2, <1>3
  <2> QED
    BY <1>1, <1>2, <1>4, <2>1, <2>2 DEF Inv, Arm7Progress, Move7, arm9Vars
<1> QED
  BY <1>5, <1>6, <1>7, <1>8, <1>9, <1>10, <1>11 DEF Inv

LEMMA Result7Inv ==
    ASSUME Inv, NEW success \in BOOLEAN, Result7(success)
    PROVE  Inv'
<1>1. Working7 /\ Working7' /\ (Submitted' <=> Submitted) /\ Submitted
  BY DEF Working7, Submitted, Result7
<1>2. fifo = 0 /\ ~mailbox /\ completion.sequence # sequence
  BY <1>1, WorkOfOwner
<1>3. TypeOK'
  BY DEF Inv, TypeOK, Result7, arm9Vars, FsTransactionResult
<1>4. completion'.sequence = completion.sequence
      /\ (completion'.result = "SUCCESS" => moved7 = cmd7.count)
  BY DEF Inv, TypeOK, Result7
<1>5. BufferLifetime' /\ MailboxNeverOverwritten'
  BY <1>1, <1>2 DEF Inv, BufferLifetime, MailboxNeverOverwritten, Result7, arm9Vars
<1>6. SuccessIsEarned' /\ RetiredByOther' /\ CallStages'
  BY DEF Inv, SuccessIsEarned, RetiredByOther, CallStages, MainMasked, Result7, arm9Vars, Chunk
<1>7. Outstanding'
  BY <1>1, <1>2, <1>4 DEF Inv, Outstanding, Result7, arm9Vars, Chunk, CommandFor
<1>8. Arm7Progress'
  BY <1>1, <1>2, <1>4 DEF Inv, Arm7Progress, Result7, arm9Vars
<1> QED
  BY <1>3, <1>5, <1>6, <1>7, <1>8 DEF Inv

LEMMA Identify7Inv == Inv /\ Identify7 => Inv'
<1> SUFFICES ASSUME Inv, Identify7 PROVE Inv'
  OBVIOUS
<1>1. Working7 /\ ~Working7'
  BY DEF Working7, Identify7
<1>2. /\ current \in Ctx
      /\ fifo = 0 /\ ~mailbox
      /\ cmd7.count = Chunk(current)
      /\ cmd7.sequence = sequence
      /\ moved[current] = op[current].at + moved7
  BY <1>1, WorkOfOwner
<1>3. ~Submitted'
  BY <1>1, <1>2 DEF Submitted, Identify7
<1>4. TypeOK'
  BY DEF Inv, TypeOK, Identify7, arm9Vars, Commands
<1>5. completion'.sequence = sequence /\ completion'.result = completion.result
  BY <1>2 DEF Inv, TypeOK, Identify7
<1>6. BufferLifetime' /\ MailboxNeverOverwritten'
  BY <1>1, <1>2, <1>3 DEF BufferLifetime, MailboxNeverOverwritten, Identify7
<1>7. SuccessIsEarned' /\ RetiredByOther' /\ CallStages'
  BY DEF Inv, SuccessIsEarned, RetiredByOther, CallStages, MainMasked, Identify7, arm9Vars,
         Chunk
<1>8. Outstanding'
  <2>1. completion.result = "SUCCESS" => moved[current] = op[current].at + Chunk(current)
    BY <1>2 DEF Inv, Arm7Progress, Identify7
  <2> QED
    BY <1>2, <1>5, <2>1 DEF Inv, Outstanding, Identify7, arm9Vars, Chunk, CommandFor
<1>9. Arm7Progress'
  BY <1>1, <1>3 DEF Inv, Arm7Progress, Identify7
<1> QED
  BY <1>4, <1>6, <1>7, <1>8, <1>9 DEF Inv

LEMMA Notify7Inv == Inv /\ Notify7 => Inv'
<1> SUFFICES ASSUME Inv, Notify7 PROVE Inv'
  OBVIOUS
<1>1. ~Working7 /\ ~Working7' /\ (Submitted' <=> Submitted)
  BY DEF Working7, Submitted, Notify7
<1>2. TypeOK'
  BY NoCommandTyped, ConstantsAssumption DEF Inv, TypeOK, Notify7, arm9Vars, Commands
<1>3. BufferLifetime' /\ MailboxNeverOverwritten'
  BY <1>1 DEF Inv, BufferLifetime, MailboxNeverOverwritten, Notify7, arm9Vars
<1>4. SuccessIsEarned' /\ RetiredByOther' /\ CallStages'
  BY DEF Inv, SuccessIsEarned, RetiredByOther, CallStages, MainMasked, Notify7, arm9Vars, Chunk
<1>5. Outstanding' /\ Arm7Progress'
  BY <1>1 DEF Inv, Outstanding, Arm7Progress, Notify7, arm9Vars, Chunk, CommandFor
<1> QED
  BY <1>2, <1>3, <1>4, <1>5 DEF Inv

-----------------------------------------------------------------------------
\* Every step keeps the invariant.
LEMMA NextInv == Inv /\ [Next]_vars => Inv'
<1> SUFFICES ASSUME Inv, [Next]_vars PROVE Inv'
  OBVIOUS
<1>1. ASSUME NEW c \in Ctx, Arm9(c) PROVE Inv'
  BY <1>1, BeginInv, IssueInv, IssueInvalidInv, PollInv, AwaitInv, CancelInv, FinishInv,
     ReturnInv
  DEF Arm9
<1>2. CASE Arm7
  BY <1>2, Receive7Inv, Wake7Inv, Take7Inv, Move7Inv, Result7Inv, Identify7Inv, Notify7Inv
  DEF Arm7
<1>3. CASE UNCHANGED vars
  <2> USE <1>3 DEF vars
  <2>1. TypeOK' /\ MailboxNeverOverwritten' /\ SuccessIsEarned' /\ RetiredByOther'
    BY DEF Inv, TypeOK, MailboxNeverOverwritten, SuccessIsEarned, RetiredByOther, Working7, Chunk
  <2>2. BufferLifetime' /\ CallStages'
    BY DEF Inv, BufferLifetime, CallStages, MainMasked, Submitted, Working7
  <2>3. Outstanding' /\ Arm7Progress'
    BY DEF Inv, Outstanding, Arm7Progress, Submitted, Working7, Chunk, CommandFor
  <2> QED
    BY <2>1, <2>2, <2>3 DEF Inv
<1> QED
  BY <1>1, <1>2, <1>3 DEF Next

\* The storage protocol keeps its inductive invariant, on any card and for any
\* interleaving of the two cores and of a preempting handler.
THEOREM InvHolds == Spec => []Inv
<1>1. Init => Inv
  BY InitInv
<1>2. Inv /\ [Next]_vars => Inv'
  BY NextInv
<1> QED
  BY <1>1, <1>2, PTL DEF Spec

\* Values stay in their types; in particular one FIFO word at most is in flight.
THEOREM TypeCorrect == Spec => []TypeOK
<1>1. Inv => TypeOK
  BY DEF Inv
<1> QED
  BY <1>1, InvHolds, PTL

\* ARM7 holds memory only on behalf of a caller that is still in its call
\* (FsIpc.cpp:122-161).
THEOREM BuffersOutliveTransfers == Spec => []BufferLifetime
<1>1. Inv => BufferLifetime
  BY DEF Inv
<1> QED
  BY <1>1, InvHolds, PTL

\* The one-message mailbox of ThreadIpcService never loses a message.
THEOREM MailboxSafe == Spec => []MailboxNeverOverwritten
<1>1. Inv => MailboxNeverOverwritten
  BY DEF Inv
<1> QED
  BY <1>1, InvHolds, PTL

\* A token reads SUCCESS only after ARM7 moved all of that request.
THEOREM SuccessEarned == Spec => []SuccessIsEarned
<1>1. Inv => SuccessIsEarned
  BY DEF Inv
<1> QED
  BY <1>1, InvHolds, PTL
-----------------------------------------------------------------------------
\* One step outside Move7 leaves the memory of a submitted command alone.
LEMMA StepLeavesOwnedMemory ==
    ASSUME Inv, Next, Submitted, ~Move7
    PROVE  mem'[command.buffer] = mem[command.buffer] /\ command' = command
<1>1. /\ current \in Ctx /\ command.caller = current
      /\ pc[current] \in {"inflight", "wait", "cancel"}
      /\ ~token[current].transactionComplete
      /\ command.buffer \in {current, "bounce"}
      /\ completion.sequence # sequence
  BY ConstantsAssumption
  DEF Inv, TypeOK, BufferLifetime, Outstanding, Arm7Progress, CommandFor
<1>2. ~Retirable
  BY <1>1 DEF Retirable
<1>3. current # None
  BY <1>1, ConstantsAssumption DEF Ctx
<1>4. ASSUME NEW c \in Ctx, NEW r \in Callable, NEW data \in Data,
             Begin(c, r, data)
      PROVE  mem'[command.buffer] = mem[command.buffer] /\ command' = command
  <2>1. c # current
    BY <1>1, <1>4 DEF Begin
  <2>2. command.buffer # c
    BY <1>1, <2>1 DEF Ctx
  <2> QED
    BY <1>4, <2>2 DEF Inv, TypeOK, Begin
<1>5. ASSUME NEW c \in Ctx, Finish(c)
      PROVE  mem'[command.buffer] = mem[command.buffer] /\ command' = command
  <2>1. Complete(c) /\ current # c
    BY <1>2, <1>5, FinishSettles
  <2>2. command.buffer # c
    BY <1>1, <2>1 DEF Ctx
  <2> QED
    BY <1>5, <2>1, <2>2 DEF Inv, TypeOK, Finish
<1>6. ASSUME NEW c \in Ctx, Await(c) \/ Cancel(c) \/ Return(c)
      PROVE  mem'[command.buffer] = mem[command.buffer] /\ command' = command
  BY <1>6 DEF Await, Cancel, Return
<1>7. ASSUME NEW c \in Ctx, Issue(c) \/ IssueInvalid(c) \/ Poll(c)
      PROVE  FALSE
  BY <1>2, <1>3, <1>7 DEF Issue, IssueInvalid, Poll
<1>8. ASSUME Arm7
      PROVE  mem' = mem /\ command' = command
  BY <1>8 DEF Arm7, Receive7, Wake7, Take7, Result7, Identify7, Notify7, arm9Vars
<1> QED
  BY <1>4, <1>5, <1>6, <1>7, <1>8 DEF Next, Arm9

\* While a command is submitted nobody but the driver writes its buffer, and
\* nobody the command (FsIpc.cpp:187-189).
THEOREM OwnedMemorySafe == Spec => OwnedMemoryUntouched
<1>1. Inv /\ [Next]_vars => [Submitted /\ ~Move7 =>
                              /\ mem'[command.buffer] = mem[command.buffer]
                              /\ command' = command]_vars
  BY StepLeavesOwnedMemory
<1> QED
  BY <1>1, InvHolds, PTL DEF Spec, OwnedMemoryUntouched

-----------------------------------------------------------------------------
(* The bounce buffer and the answers.                                       *)

\* Nobody else runs while a bounced transfer waits.
LEMMA BouncesAlone ==
    ASSUME Inv, NEW c \in Ctx, NEW d \in Ctx, MayRun(c),
           pc[d] = "wait", op[d].kind = "bounce"
    PROVE  c = d
BY DEF Inv, CallStages, MainMasked, MayRun, Ctx

\* A token that is retired for another has the driver's answer.
LEMMA RetiredAnswers ==
    ASSUME Inv, BounceInv, NEW d \in Ctx, pc[d] \in {"inflight", "wait"},
           Retired[d].transactionComplete
    PROVE  IF op[d].valid THEN Retired[d].result \in {"SUCCESS", "IO_ERROR"}
           ELSE Retired[d].result = "INVALID_ARGUMENT"
<1>1. CASE Retirable /\ current = d
  <2>1. Retired[d].result = completion.result
    BY <1>1 DEF Inv, TypeOK, Retired, FsWaitToken
  <2>2. op[d].valid
    BY <1>1 DEF Inv, Outstanding, Retirable
  <2> QED
    BY <1>1, <2>1, <2>2 DEF Retirable
<1>2. CASE ~(Retirable /\ current = d)
  <2>1. Retired[d] = token[d]
    BY <1>2 DEF Inv, TypeOK, Retired, FsWaitToken
  <2> QED
    BY <2>1 DEF BounceInv
<1> QED
  BY <1>1, <1>2

LEMMA InitBounce == Init => BounceInv
BY DEF Init, BounceInv

LEMMA BeginBounce ==
    ASSUME Inv, BounceInv, NEW c \in Ctx, NEW r \in Callable, NEW data \in Data,
           Begin(c, r, data)
    PROVE  BounceInv'
<1>1. current # c
  BY ConstantsAssumption DEF Inv, Outstanding, Begin, Ctx
<1>2. c # "bounce"
  BY DEF Ctx
<1> QED
  BY <1>1, <1>2 DEF Inv, TypeOK, BounceInv, Begin

LEMMA IssueBounce ==
    ASSUME Inv, BounceInv, NEW c \in Ctx, Issue(c)
    PROVE  BounceInv'
<1>1. Retired \in [Ctx -> FsWaitToken]
  BY RetireSettles DEF Issue
<1>2. /\ pc' = [pc EXCEPT ![c] = IF op[c].kind = "async" THEN "inflight" ELSE "wait"]
      /\ op' = op /\ current' = c /\ op[c].valid /\ MayRun(c) /\ c # "bounce"
  BY DEF Issue, Ctx
<1>3. /\ \A d \in Ctx \ {c} : token'[d] = Retired[d] /\ pc'[d] = pc[d]
      /\ ~token'[c].transactionComplete
      /\ pc'[c] = IF op[c].kind = "async" THEN "inflight" ELSE "wait"
  BY <1>1, <1>2 DEF Issue, Inv, TypeOK
<1>4. ASSUME NEW d \in Ctx
      PROVE  /\ pc'[d] = "inflight" => op[d].kind = "async"
             /\ pc'[d] = "wait" /\ op[d].kind = "bounce" => c = d
             /\ pc'[d] \in {"inflight", "wait"} /\ token'[d].transactionComplete =>
                 IF op[d].valid THEN token'[d].result \in {"SUCCESS", "IO_ERROR"}
                 ELSE token'[d].result = "INVALID_ARGUMENT"
  <2>1. CASE d = c
    BY <1>3, <2>1
  <2>2. CASE d # c
    BY <1>2, <1>3, <2>2, RetiredAnswers, BouncesAlone DEF BounceInv
  <2> QED
    BY <2>1, <2>2
<1>5. op[c].kind = "bounce" /\ op[c].write =>
        mem'["bounce"][0] = mem'[c][op[c].at]
  BY <1>2, ConstantsAssumption DEF Issue, Inv, TypeOK, Buffers, Slots
<1> QED
  BY <1>2, <1>4, <1>5 DEF BounceInv

LEMMA RefusalBounce ==
    ASSUME Inv, BounceInv, NEW c \in Ctx, IssueInvalid(c)
    PROVE  BounceInv'
<1>1. Retired \in [Ctx -> FsWaitToken]
  BY RetireSettles DEF IssueInvalid
<1>2. /\ pc' = [pc EXCEPT ![c] = "inflight"]
      /\ op' = op /\ current' = None /\ ~op[c].valid /\ MayRun(c)
      /\ op[c].kind = "async"
  BY DEF IssueInvalid, Inv, CallStages
<1>3. /\ \A d \in Ctx \ {c} : token'[d] = Retired[d] /\ pc'[d] = pc[d]
      /\ token'[c].result = "INVALID_ARGUMENT"
      /\ pc'[c] = "inflight"
  BY <1>1, <1>2 DEF IssueInvalid, Inv, TypeOK
<1>4. ASSUME NEW d \in Ctx
      PROVE  /\ pc'[d] = "inflight" => op[d].kind = "async"
             /\ ~(pc'[d] = "wait" /\ op[d].kind = "bounce")
             /\ pc'[d] \in {"inflight", "wait"} /\ token'[d].transactionComplete =>
                 IF op[d].valid THEN token'[d].result \in {"SUCCESS", "IO_ERROR"}
                 ELSE token'[d].result = "INVALID_ARGUMENT"
  <2>1. CASE d = c
    BY <1>2, <1>3, <2>1
  <2>2. CASE d # c
    BY <1>2, <1>3, <2>2, RetiredAnswers, BouncesAlone DEF BounceInv
  <2> QED
    BY <2>1, <2>2
<1> QED
  BY <1>2, <1>4 DEF BounceInv

LEMMA PollBounce ==
    ASSUME Inv, BounceInv, NEW c \in Ctx, Poll(c)
    PROVE  BounceInv'
<1>1. token' = Retired /\ pc' = pc /\ op' = op /\ current' = None /\ pc[c] = "inflight"
  BY DEF Poll
<1>2. current = c
  BY DEF Poll
<1> QED
  BY <1>1, <1>2, RetiredAnswers DEF BounceInv

LEMMA FinishBounce ==
    ASSUME Inv, BounceInv, NEW c \in Ctx, Finish(c)
    PROVE  BounceInv'
<1>1. /\ MayRun(c)
      /\ current' \in {None, current} /\ (current' # None => current # c)
      /\ \A d \in Ctx \ {c} : pc'[d] = pc[d] /\ op'[d] = op[d] /\ mem'[d] = mem[d]
      /\ mem'["bounce"] = mem["bounce"]
      /\ pc'[c] \in {"next", "done"}
  BY FinishSettles, ConstantsAssumption DEF Finish, Inv, TypeOK, Ctx, Buffers
<1>2. \A d \in Ctx \ {c} : token'[d] = token[d]
  BY FinishSettles DEF Finish
<1>3. ASSUME NEW d \in Ctx
      PROVE  /\ pc'[d] = "inflight" => op'[d].kind = "async"
             /\ ~(pc'[d] = "wait" /\ op'[d].kind = "bounce")
             /\ pc'[d] \in {"inflight", "wait"} /\ token'[d].transactionComplete =>
                 IF op'[d].valid THEN token'[d].result \in {"SUCCESS", "IO_ERROR"}
                 ELSE token'[d].result = "INVALID_ARGUMENT"
  <2>1. CASE d = c
    BY <1>1, <2>1
  <2>2. CASE d # c
    BY <1>1, <1>2, <2>2, BouncesAlone DEF BounceInv
  <2> QED
    BY <2>1, <2>2
<1>4. current' # None /\ op'[current'].kind = "bounce" /\ op'[current'].write =>
        mem'["bounce"][0] = mem'[current'][op'[current'].at]
  <2> SUFFICES ASSUME current' # None, op'[current'].kind = "bounce", op'[current'].write
               PROVE  mem'["bounce"][0] = mem'[current'][op'[current'].at]
    OBVIOUS
  <2>1. current' = current /\ current \in Ctx \ {c}
    BY <1>1 DEF Inv, TypeOK
  <2> QED
    BY <1>1, <2>1 DEF BounceInv
<1> QED
  BY <1>3, <1>4 DEF BounceInv

LEMMA ReturnBounce ==
    ASSUME Inv, BounceInv, NEW c \in Ctx, Return(c) \/ Await(c) \/ Cancel(c)
    PROVE  BounceInv'
<1>1. CASE Return(c)
  <2>1. current # c
    BY <1>1, ConstantsAssumption DEF Inv, Outstanding, Return, Ctx
  <2> QED
    BY <1>1, <2>1 DEF Inv, TypeOK, BounceInv, Return
<1>2. CASE Await(c)
  BY <1>2 DEF Inv, TypeOK, BounceInv, Await
<1>3. CASE Cancel(c)
  BY <1>3 DEF Inv, TypeOK, BounceInv, Cancel
<1> QED
  BY <1>1, <1>2, <1>3

LEMMA Arm7Bounce ==
    ASSUME Inv, BounceInv, Arm7
    PROVE  BounceInv'
<1>1. CASE Move7
  <2>1. current \in Ctx /\ cmd7 = CommandFor(current, sequence)
    BY <1>1, WorkOfOwner DEF Working7, Move7
  <2>2. op[current].write => mem' = mem
    BY <1>1, <2>1 DEF Move7, CommandFor
  <2> QED
    BY <1>1, <2>1, <2>2 DEF BounceInv, Move7, arm9Vars
<1>2. CASE ~Move7
  BY <1>2 DEF BounceInv, Arm7, Receive7, Wake7, Take7, Result7, Identify7, Notify7, arm9Vars
<1> QED
  BY <1>1, <1>2

LEMMA NextBounce ==
    ASSUME Inv, BounceInv, [Next]_vars
    PROVE  BounceInv'
<1>1. ASSUME NEW c \in Ctx, Arm9(c)
      PROVE  BounceInv'
  BY <1>1, BeginBounce, IssueBounce, RefusalBounce, PollBounce, FinishBounce, ReturnBounce
  DEF Arm9
<1>2. CASE UNCHANGED vars
  BY <1>2 DEF vars, BounceInv
<1> QED
  BY <1>1, <1>2, Arm7Bounce DEF Next

THEOREM BounceInvHolds == Spec => []BounceInv
BY InitBounce, NextBounce, InvHolds, PTL DEF Spec

-----------------------------------------------------------------------------
(* The protocol keeps the promise of SectorStore.                           *)

\* A caller inside its call has a request, and it is not the empty one.
LEMMA AskedIsRequest ==
    ASSUME Inv, NEW c \in Ctx, pc[c] # "idle"
    PROVE  /\ Asked[c] = [write |-> op[c].write, sector |-> op[c].sector,
                          count |-> op[c].count, valid |-> op[c].valid]
           /\ Asked[c] # NoRequest
<1>1. Asked[c] = [write |-> op[c].write, sector |-> op[c].sector,
                  count |-> op[c].count, valid |-> op[c].valid]
  BY DEF Asked
<1>2. op[c].count # 0
  BY DEF Inv, TypeOK, Requests
<1>3. Asked[c].count # NoRequest.count
  BY <1>1, <1>2 DEF NoRequest
<1> QED
  BY <1>1, <1>3

\* Only the owner of the outstanding transaction has bytes in the bounce buffer.
LEMMA BouncedOwns ==
    ASSUME Inv, BounceInv, NEW c \in Ctx, NEW i, Bounced(c, i)
    PROVE  current = c
BY DEF Inv, CallStages, BounceInv, Bounced

\* What changes neither requests, answers nor sectors is no step of the store.
LEMMA StoreStutters ==
    ASSUME \A c \in Ctx :
               /\ (pc'[c] = "idle") <=> (pc[c] = "idle")
               /\ op'[c].write = op[c].write /\ op'[c].sector = op[c].sector
               /\ op'[c].count = op[c].count /\ op'[c].valid = op[c].valid
               /\ (pc'[c] = "done") <=> (pc[c] = "done")
               /\ pc[c] = "done" => token'[c].result = token[c].result
               /\ \A i \in Slots : Seen'[c][i] = Seen[c][i],
           moved' = moved, disk' = disk
    PROVE  UNCHANGED Store!storeVars
<1>1. Asked' = Asked
  BY DEF Asked
<1>2. Replies' = Replies
  BY DEF Replies
<1>3. Seen' = Seen
  <2>1. \A c \in Ctx : Seen'[c] = [i \in Slots |-> Seen'[c][i]]
    BY DEF Seen
  <2>2. \A c \in Ctx : Seen[c] = [i \in Slots |-> Seen[c][i]]
    BY DEF Seen
  <2>3. \A c \in Ctx : Seen'[c] = Seen[c]
    BY <2>1, <2>2
  <2>4. Seen' = [c \in Ctx |-> Seen'[c]] /\ Seen = [c \in Ctx |-> Seen[c]]
    BY DEF Seen
  <2> QED
    BY <2>3, <2>4
<1> QED
  BY <1>1, <1>2, <1>3 DEF Store!storeVars

LEMMA BeginRefines ==
    ASSUME Inv, BounceInv, NEW c \in Ctx, NEW r \in Callable, NEW data \in Data,
           Begin(c, r, data)
    PROVE  Store!StoreNext
<1>1. r \in Requests /\ data \in [Slots -> Values]
  BY MenuAssumption DEF Callable
<1>2. /\ pc[c] = "idle" /\ pc' = [pc EXCEPT ![c] = "drain"]
      /\ op' = [op EXCEPT ![c] = r]
      /\ mem' = IF r.write THEN [mem EXCEPT ![c] = data] ELSE mem
      /\ UNCHANGED <<token, moved, disk>>
  BY DEF Begin, arm7Vars
<1>3. Asked[c] = NoRequest
  BY <1>2 DEF Asked
<1>4. Asked' = [Asked EXCEPT ![c] = [write |-> r.write, sector |-> r.sector,
                                     count |-> r.count, valid |-> r.valid]]
  BY <1>2 DEF Asked, Inv, TypeOK
<1>5. Replies' = Replies
  BY <1>2 DEF Replies, Inv, TypeOK
<1>6. Seen' = IF r.write THEN [Seen EXCEPT ![c] = data] ELSE Seen
  <2>1. \A d \in Ctx : \A i \in Slots : d # c => (Bounced(d, i)' <=> Bounced(d, i))
    BY <1>2 DEF Bounced, Inv, TypeOK
  <2>2. \A i \in Slots : ~Bounced(c, i) /\ ~Bounced(c, i)'
    BY <1>2 DEF Bounced, Inv, TypeOK
  <2>3. data = [i \in Slots |-> data[i]]
    BY <1>1
  <2>4. mem'["bounce"] = mem["bounce"]
    BY <1>2 DEF Ctx, Inv, TypeOK
  <2>5. CASE r.write
    <3>1. \A d \in Ctx \ {c} : mem'[d] = mem[d]
      BY <1>2, <2>5 DEF Inv, TypeOK
    <3>2. mem'[c] = data
      BY <1>2, <2>5 DEF Inv, TypeOK, Buffers
    <3>3. Seen'[c] = data
      BY <2>2, <2>3, <3>2 DEF Seen
    <3>4. \A d \in Ctx \ {c} : Seen'[d] = Seen[d]
      BY <2>1, <2>4, <3>1 DEF Seen
    <3>5. Seen' = [d \in Ctx |-> Seen'[d]] /\ Seen = [d \in Ctx |-> Seen[d]]
      BY DEF Seen
    <3> QED
      BY <2>5, <3>3, <3>4, <3>5
  <2>6. CASE ~r.write
    BY <1>2, <2>1, <2>2, <2>6 DEF Seen
  <2> QED
    BY <2>5, <2>6
<1>7. r.count \in {i + 1 : i \in Slots}
  <2>1. r.count - 1 \in Slots /\ r.count = (r.count - 1) + 1
    BY <1>1, ConstantsAssumption DEF Requests, Slots
  <2> QED
    BY <2>1
<1>8. r.write \in BOOLEAN /\ r.valid \in BOOLEAN /\ r.sector \in Sectors
  BY <1>1 DEF Requests
<1>9. Store!Ask(c)
  BY <1>1, <1>2, <1>3, <1>4, <1>5, <1>6, <1>7, <1>8 DEF Store!Ask
<1> QED
  BY <1>9 DEF Store!StoreNext

\* The issue of a command, a poll and the start of a wait.
LEMMA IssueRefines ==
    ASSUME Inv, BounceInv, NEW c \in Ctx,
           Issue(c) \/ IssueInvalid(c) \/ Poll(c) \/ Await(c) \/ Cancel(c)
    PROVE  UNCHANGED Store!storeVars
<1> DEFINE stage == {"drain", "inflight", "wait", "cancel", "next"}
<1>1. /\ MayRun(c) /\ op' = op /\ moved' = moved /\ disk' = disk
      /\ pc[c] \in stage /\ pc'[c] \in stage
      /\ \A d \in Ctx \ {c} : pc'[d] = pc[d]
  BY DEF Inv, TypeOK, Issue, IssueInvalid, Poll, Await, Cancel, arm7Vars
<1>2. ASSUME NEW d \in Ctx, pc[d] = "done"
      PROVE  token'[d].result = token[d].result
  <2>1. d # c /\ (current = None \/ current # d)
    BY <1>1, <1>2, ConstantsAssumption DEF Inv, Outstanding
  <2>2. Retirable => current \in Ctx \ {d}
    BY <2>1, ConstantsAssumption DEF Inv, TypeOK, Retirable
  <2>3. Retired[d] = token[d]
    BY <2>2 DEF Inv, TypeOK, Retired, FsWaitToken
  <2>4. token'[d] \in {token[d], Retired[d]}
    <3>1. Issue(c) \/ IssueInvalid(c) => Retired \in [Ctx -> FsWaitToken]
      BY RetireSettles DEF Issue, IssueInvalid
    <3> QED
      BY <2>1, <3>1 DEF Issue, IssueInvalid, Poll, Await, Cancel
  <2> QED
    BY <2>3, <2>4
<1>3. ASSUME NEW d \in Ctx, NEW i \in Slots
      PROVE  Seen'[d][i] = Seen[d][i]
  <2>1. CASE d = c
    <3>1. ~Bounced(c, i) /\ ~Bounced(c, i)'
      <4>1. CASE Issue(c)
        <5>1. pc[c] \in {"drain", "next"} /\ moved[c] = op[c].at /\ op[c].at \in Nat
          BY <4>1 DEF Issue, Inv, TypeOK, CallStages, Requests, Slots
        <5> QED
          BY <1>1, <5>1 DEF Bounced
      <4>2. CASE IssueInvalid(c) \/ Poll(c) \/ Await(c) \/ Cancel(c)
        <5>1. pc[c] \in {"drain", "inflight"} /\ op[c].kind # "bounce"
          BY <4>2 DEF IssueInvalid, Poll, Await, Cancel, Inv, CallStages, BounceInv
        <5> QED
          BY <1>1, <5>1 DEF Bounced
      <4> QED
        BY <4>1, <4>2
    <3>2. mem'[c] = mem[c]
      <4>1. c # "bounce"
        BY DEF Ctx
      <4>2. CASE Issue(c)
        BY <4>1, <4>2 DEF Issue, Inv, TypeOK
      <4>3. CASE ~Issue(c)
        BY <4>3 DEF IssueInvalid, Poll, Await, Cancel
      <4> QED
        BY <4>2, <4>3
    <3> QED
      BY <2>1, <3>1, <3>2 DEF Seen
  <2>2. CASE d # c
    <3>1. Bounced(d, i)' <=> Bounced(d, i)
      BY <1>1, <2>2 DEF Bounced
    <3>2. Bounced(d, i) => mem' = mem
      <4> SUFFICES ASSUME Bounced(d, i)
                   PROVE  mem' = mem
        OBVIOUS
      <4>1. pc[d] = "wait"
        BY <1>1, <2>2 DEF Bounced, Inv, CallStages, MainMasked, MayRun, Ctx
      <4> QED
        BY <1>1, <2>2, <4>1, BouncesAlone DEF Bounced
    <3>3. mem'[d] = mem[d]
      <4>1. d # "bounce"
        BY DEF Ctx
      <4>2. CASE Issue(c)
        BY <4>1, <4>2 DEF Issue, Inv, TypeOK
      <4>3. CASE ~Issue(c)
        BY <4>3 DEF IssueInvalid, Poll, Await, Cancel
      <4> QED
        BY <4>2, <4>3
    <3> QED
      BY <3>1, <3>2, <3>3 DEF Seen
  <2> QED
    BY <2>1, <2>2
<1> QED
  BY <1>1, <1>2, <1>3, StoreStutters

LEMMA ReturnRefines ==
    ASSUME Inv, BounceInv, NEW c \in Ctx, Return(c)
    PROVE  Store!StoreNext
<1>1. /\ pc[c] = "done" /\ pc' = [pc EXCEPT ![c] = "idle"]
      /\ op' = [op EXCEPT ![c] = NoOp] /\ token' = [token EXCEPT ![c] = NoToken]
      /\ moved' = [moved EXCEPT ![c] = 0] /\ mem' = mem /\ disk' = disk
  BY DEF Return, arm7Vars
<1>2. Replies[c] # "none"
  BY <1>1 DEF Replies, Inv, TypeOK, FsWaitToken, FsTransactionResult
<1>3. /\ Asked' = [Asked EXCEPT ![c] = NoRequest]
      /\ Replies' = [Replies EXCEPT ![c] = "none"]
  BY <1>1 DEF Asked, Replies, Inv, TypeOK
<1>4. Seen' = Seen
  <2>1. \A d \in Ctx, i \in Slots : Bounced(d, i)' <=> Bounced(d, i)
    BY <1>1 DEF Bounced, Inv, TypeOK
  <2> QED
    BY <1>1, <2>1 DEF Seen
<1>5. Store!Leave(c)
  BY <1>1, <1>2, <1>3, <1>4 DEF Store!Leave
<1> QED
  BY <1>5 DEF Store!StoreNext

\* How a wait ends for the caller: with the driver's answer, its own
\* cancellation, or the refusal of its arguments.
LEMMA FinishAnswers ==
    ASSUME Inv, BounceInv, NEW c \in Ctx, Finish(c),
           NEW result, result = IF pc[c] = "cancel" THEN "CANCELED" ELSE Settled(c)[c].result
    PROVE  /\ IF op[c].valid THEN result \in {"SUCCESS", "IO_ERROR", "CANCELED"}
              ELSE result = "INVALID_ARGUMENT"
           /\ result = "SUCCESS" => moved[c] = op[c].at + Chunk(c)
           /\ \A d \in Ctx \ {c} : token'[d] = token[d]
           /\ token'[c].result = result
<1>1. /\ pc[c] \in {"wait", "cancel"}
      /\ token' = [Settled(c) EXCEPT ![c].result = result]
  BY DEF Finish
<1>2. /\ Settled(c) \in [Ctx -> FsWaitToken]
      /\ \A d \in Ctx \ {c} : Settled(c)[d] = token[d]
      /\ Settled(c)[c].result = "SUCCESS" => moved[c] = op[c].at + Chunk(c)
  BY FinishSettles
<1>3. /\ \A d \in Ctx \ {c} : token'[d] = token[d]
      /\ token'[c].result = result
  BY <1>1, <1>2 DEF FsWaitToken
<1>4. CASE pc[c] = "cancel"
  <2>1. current = c /\ op[c].valid
    BY <1>4, ConstantsAssumption DEF Inv, CallStages, Outstanding, Ctx
  <2>2. result = "CANCELED"
    BY <1>4
  <2> QED
    BY <1>3, <2>1, <2>2
<1>5. CASE pc[c] # "cancel" /\ Complete(c)
  <2>1. result = token[c].result /\ pc[c] = "wait"
    BY <1>1, <1>5 DEF Settled
  <2>2. IF op[c].valid THEN result \in {"SUCCESS", "IO_ERROR"}
        ELSE result = "INVALID_ARGUMENT"
    BY <1>5, <2>1 DEF BounceInv, Complete
  <2>3. result = "SUCCESS" => moved[c] = op[c].at + Chunk(c)
    BY <1>2, <1>5
  <2> QED
    BY <1>3, <2>2, <2>3
<1>6. CASE pc[c] # "cancel" /\ ~Complete(c)
  <2>1. Retirable /\ current = c /\ Settled(c) = Retired
    BY <1>6, FinishSettles DEF Settled
  <2>2. Retired[c].result = completion.result /\ op[c].valid
    BY <2>1 DEF Inv, TypeOK, Outstanding, Retirable, Retired, FsWaitToken
  <2>3. result = completion.result /\ result \in {"SUCCESS", "IO_ERROR"}
    BY <1>6, <2>1, <2>2 DEF Retirable
  <2>4. result = "SUCCESS" => moved[c] = op[c].at + Chunk(c)
    BY <1>2, <1>6
  <2> QED
    BY <1>3, <2>2, <2>3, <2>4
<1> QED
  BY <1>4, <1>5, <1>6

\* What the callers see of their buffers when a wait ends: a copy-out brings
\* what was in the bounce buffer, and the other caller sees no change.
LEMMA FinishSeen ==
    ASSUME Inv, BounceInv, NEW c \in Ctx, Finish(c), NEW i \in Slots
    PROVE  /\ \A d \in Ctx \ {c} : Seen'[d][i] = Seen[d][i]
           /\ Seen'[c][i] = mem'[c][i]
           /\ \/ op[c].kind # "bounce" \/ op[c].write
              \/ pc[c] # "cancel" /\ Settled(c)[c].result = "SUCCESS"
              => Seen'[c][i] = Seen[c][i]
<1> DEFINE result == IF pc[c] = "cancel" THEN "CANCELED" ELSE Settled(c)[c].result
           copied == op[c].kind = "bounce" /\ result = "SUCCESS"
<1>1. /\ pc[c] \in {"wait", "cancel"} /\ pc'[c] \in {"next", "done"}
      /\ \A d \in Ctx \ {c} : pc'[d] = pc[d] /\ op'[d] = op[d]
      /\ moved' = moved
      /\ mem' = IF copied /\ ~op[c].write
                THEN [mem EXCEPT ![c][op[c].at] = mem["bounce"][0]]
                ELSE mem
  BY DEF Finish, Inv, TypeOK
<1>2. c # "bounce" /\ c \in Buffers /\ "bounce" \in Buffers
  BY DEF Ctx, Buffers
<1>3. ASSUME NEW d \in Ctx \ {c}
      PROVE  Seen'[d][i] = Seen[d][i]
  <2>1. Bounced(d, i)' <=> Bounced(d, i)
    BY <1>1 DEF Bounced
  <2>2. mem'[d] = mem[d] /\ mem'["bounce"] = mem["bounce"]
    BY <1>1, <1>2 DEF Inv, TypeOK
  <2> QED
    BY <2>1, <2>2 DEF Seen
<1>4. Seen'[c][i] = mem'[c][i]
  BY <1>1 DEF Seen, Bounced
<1>5. ASSUME op[c].kind # "bounce" \/ op[c].write
      PROVE  Seen'[c][i] = Seen[c][i]
  <2>1. mem' = mem /\ ~Bounced(c, i)
    BY <1>1, <1>5 DEF Bounced
  <2> QED
    BY <1>4, <2>1 DEF Seen
<1>6. ASSUME op[c].kind = "bounce", ~op[c].write,
             pc[c] # "cancel", Settled(c)[c].result = "SUCCESS"
      PROVE  Seen'[c][i] = Seen[c][i]
  <2>1. moved[c] = op[c].at + 1
    BY <1>6, FinishSettles DEF Chunk
  <2>2. mem' = [mem EXCEPT ![c][op[c].at] = mem["bounce"][0]]
    BY <1>1, <1>6
  <2>3. Bounced(c, i) <=> i = op[c].at
    BY <1>1, <1>6, <2>1 DEF Bounced
  <2>4. mem'[c][i] = IF i = op[c].at THEN mem["bounce"][0] ELSE mem[c][i]
    BY <1>2, <2>2 DEF Inv, TypeOK
  <2> QED
    BY <1>4, <2>3, <2>4 DEF Seen
<1> HIDE DEF result, copied
<1> QED
  BY <1>3, <1>4, <1>5, <1>6

LEMMA FinishRefines ==
    ASSUME Inv, BounceInv, NEW c \in Ctx, Finish(c)
    PROVE  Store!StoreNext \/ UNCHANGED Store!storeVars
<1> DEFINE result == IF pc[c] = "cancel" THEN "CANCELED" ELSE Settled(c)[c].result
           copied == op[c].kind = "bounce" /\ result = "SUCCESS"
           more == copied /\ op[c].at + 1 < op[c].count
<1>1. /\ pc[c] \in {"wait", "cancel"}
      /\ pc' = [pc EXCEPT ![c] = IF more THEN "next" ELSE "done"]
      /\ op' = IF more THEN [op EXCEPT ![c].at = @ + 1] ELSE op
      /\ mem' = IF copied /\ ~op[c].write
                THEN [mem EXCEPT ![c][op[c].at] = mem["bounce"][0]]
                ELSE mem
      /\ moved' = moved /\ disk' = disk
  BY DEF Finish, arm7Vars
<1>2. /\ IF op[c].valid THEN result \in {"SUCCESS", "IO_ERROR", "CANCELED"}
         ELSE result = "INVALID_ARGUMENT"
      /\ result = "SUCCESS" => moved[c] = op[c].at + Chunk(c)
      /\ \A d \in Ctx \ {c} : token'[d] = token[d]
      /\ token'[c].result = result
  BY FinishAnswers
<1>3. \A d \in Ctx : /\ op'[d].write = op[d].write /\ op'[d].sector = op[d].sector
                     /\ op'[d].count = op[d].count /\ op'[d].valid = op[d].valid
  BY <1>1 DEF Inv, TypeOK, Requests
<1>4. /\ \A i \in Slots : \A d \in Ctx \ {c} : Seen'[d][i] = Seen[d][i]
      /\ \A i \in Slots : Seen'[c][i] = mem'[c][i]
      /\ result = "SUCCESS" \/ op[c].kind # "bounce" \/ op[c].write =>
            \A i \in Slots : Seen'[c][i] = Seen[c][i]
  BY FinishSeen
<1>5. /\ Asked' = Asked /\ Asked[c].valid = op[c].valid /\ Asked[c].count = op[c].count
      /\ Asked[c].write = op[c].write /\ Asked[c] # NoRequest /\ Replies[c] = "none"
  <2>1. Asked' = Asked
    BY <1>1, <1>3 DEF Asked, Inv, TypeOK
  <2>2. pc[c] # "idle" /\ pc[c] # "done"
    BY <1>1
  <2>3. Replies[c] = "none"
    BY <2>2 DEF Replies
  <2>4. /\ Asked[c].valid = op[c].valid /\ Asked[c].count = op[c].count
        /\ Asked[c].write = op[c].write /\ Asked[c] # NoRequest
    <3>1. /\ Asked[c] = [write |-> op[c].write, sector |-> op[c].sector,
                         count |-> op[c].count, valid |-> op[c].valid]
          /\ Asked[c] # NoRequest
      BY <2>2, AskedIsRequest
    <3> QED
      BY <3>1
  <2> QED
    BY <2>1, <2>3, <2>4
<1>6. op[c] \in Requests /\ op[c].at < op[c].count /\ (op[c].kind # "bounce" => op[c].at = 0)
  BY <1>1 DEF Inv, TypeOK, CallStages
<1> HIDE DEF result
<1>7. CASE more
  <2>1. /\ \A d \in Ctx : (pc'[d] = "idle" <=> pc[d] = "idle") /\ (pc'[d] = "done" <=> pc[d] = "done")
        /\ pc[c] # "done"
    BY <1>1, <1>7 DEF Inv, TypeOK
  <2>2. \A d \in Ctx : pc[d] = "done" => token'[d].result = token[d].result
    BY <1>2, <2>1
  <2>3. \A d \in Ctx, i \in Slots : Seen'[d][i] = Seen[d][i]
    BY <1>4, <1>7
  <2> HIDE DEF more
  <2> QED
    BY <1>1, <1>3, <2>1, <2>2, <2>3, StoreStutters
<1>8. CASE ~more
  <2>1. Replies' = [Replies EXCEPT ![c] = result]
    <3>1. /\ pc'[c] = "done" /\ \A d \in Ctx \ {c} : pc'[d] = pc[d]
      BY <1>1, <1>8 DEF Inv, TypeOK
    <3> QED
      BY <1>2, <3>1 DEF Replies
  <2>2. result = "SUCCESS" \/ op[c].kind # "bounce" \/ op[c].write => Seen' = Seen
    <3> SUFFICES ASSUME result = "SUCCESS" \/ op[c].kind # "bounce" \/ op[c].write
                 PROVE  Seen' = Seen
      OBVIOUS
    <3>1. \A d \in Ctx, i \in Slots : Seen'[d][i] = Seen[d][i]
      BY <1>4
    <3>2. /\ Seen' = [d \in Ctx |-> [i \in Slots |-> Seen'[d][i]]]
          /\ Seen = [d \in Ctx |-> [i \in Slots |-> Seen[d][i]]]
      BY DEF Seen
    <3> QED
      BY <3>1, <3>2
  <2>3. CASE result = "SUCCESS"
    <3>1. moved[c] = op[c].count
      BY <1>2, <1>6, <1>8, <2>3, ConstantsAssumption DEF Chunk, Requests, Slots
    <3>2. Store!Succeed(c)
      BY <1>1, <1>2, <1>5, <2>1, <2>2, <2>3, <3>1 DEF Store!Succeed, Store!Waiting
    <3> QED
      BY <3>2 DEF Store!StoreNext
  <2>4. CASE result = "INVALID_ARGUMENT"
    <3>1. ~op[c].valid /\ op[c].kind # "bounce"
      BY <1>2, <2>4 DEF Inv, CallStages
    <3>2. Store!Reject(c)
      BY <1>1, <1>5, <2>1, <2>2, <2>4, <3>1 DEF Store!Reject, Store!Waiting
    <3> QED
      BY <3>2 DEF Store!StoreNext
  <2>5. CASE result \in {"IO_ERROR", "CANCELED"}
    <3>1. mem' = mem /\ mem[c] \in [Slots -> Values]
      BY <1>1, <2>5 DEF Inv, TypeOK, Ctx, Buffers
    <3>2. op[c].write => Seen' = Seen
      BY <2>2
    <3>3. ~op[c].write => Seen' = [Seen EXCEPT ![c] = mem[c]]
      <4> SUFFICES ASSUME ~op[c].write
                   PROVE  Seen' = [Seen EXCEPT ![c] = mem[c]]
        OBVIOUS
      <4>1. Seen' = [d \in Ctx |-> [i \in Slots |-> Seen'[d][i]]]
        BY DEF Seen
      <4>2. Seen = [d \in Ctx |-> [i \in Slots |-> Seen[d][i]]]
        BY DEF Seen
      <4>3. mem[c] = [i \in Slots |-> mem[c][i]]
        BY <3>1
      <4>4. \A d \in Ctx : Seen'[d] = IF d = c THEN mem[c] ELSE Seen[d]
        BY <1>4, <3>1, <4>1, <4>2, <4>3
      <4>5. Seen' = [d \in Ctx |-> Seen'[d]]
        BY DEF Seen
      <4> QED
        BY <4>2, <4>4, <4>5
    <3>4. Store!Fail(c)
      BY <1>1, <1>2, <1>5, <2>1, <2>5, <3>1, <3>2, <3>3 DEF Store!Fail, Store!Waiting
    <3> QED
      BY <3>4 DEF Store!StoreNext
  <2> QED
    BY <1>2, <2>3, <2>4, <2>5
<1> QED
  BY <1>7, <1>8

\* The driver moves the sector the caller expects next.
LEMMA MoveRefines ==
    ASSUME Inv, BounceInv, Move7
    PROVE  Store!StoreNext
<1> DEFINE c == current
           s == cmd7.sector + moved7
           b == cmd7.buffer
           k == moved[c]
<1>1. /\ c \in Ctx /\ cmd7 = CommandFor(c, sequence)
      /\ cmd7.caller = c /\ cmd7.count = Chunk(c)
      /\ cmd7.sector = op[c].sector + op[c].at
      /\ moved[c] = op[c].at + moved7
      /\ op[c].at + Chunk(c) <= op[c].count
  BY WorkOfOwner DEF Working7, Move7
<1>2. /\ moved7 < Chunk(c) /\ moved7 \in Nat
      /\ moved' = [moved EXCEPT ![c] = @ + 1]
      /\ pc' = pc /\ op' = op /\ token' = token /\ current' = current
  BY <1>1 DEF Move7, arm9Vars, Inv, TypeOK
<1>3. op[c] \in Requests /\ op[c].valid /\ pc[c] \in {"inflight", "wait", "cancel"}
      /\ c # "bounce" /\ c \in Buffers /\ "bounce" \in Buffers
      /\ op[c].at \in Nat /\ op[c].sector \in Int /\ op[c].count \in Nat
  BY <1>1, ConstantsAssumption DEF Inv, TypeOK, Outstanding, Ctx, Buffers, Requests, Slots, Sectors
<1>4. /\ Asked' = Asked /\ Replies' = Replies
      /\ Asked[c] # NoRequest /\ Replies[c] = "none"
      /\ Asked[c].valid /\ Asked[c].write = op[c].write
      /\ Asked[c].sector = op[c].sector /\ Asked[c].count = op[c].count
  BY <1>1, <1>2, <1>3, AskedIsRequest DEF Asked, Replies
<1>5. /\ k \in Slots /\ k < op[c].count /\ op[c].sector + k = s
      /\ op[c].kind # "bounce" => b = c /\ op[c].at = 0 /\ moved7 = k
      /\ op[c].kind = "bounce" => b = "bounce" /\ moved7 = 0 /\ k = op[c].at
                                  /\ pc[c] \in {"wait", "cancel"}
      /\ cmd7.write = op[c].write
  <2>1. /\ op[c].kind # "bounce" => b = c
        /\ op[c].kind = "bounce" => b = "bounce" /\ Chunk(c) = 1
        /\ cmd7.write = op[c].write
    BY <1>1 DEF CommandFor, Chunk
  <2>2. op[c].kind # "bounce" => op[c].at = 0
    BY <1>1 DEF Inv, CallStages
  <2>3. op[c].kind = "bounce" => pc[c] # "inflight"
    BY <1>1 DEF BounceInv
  <2>4. k \in Nat /\ k < op[c].count /\ op[c].count <= MaxCount
    BY <1>1, <1>2, <1>3 DEF Chunk, Requests
  <2>5. k \in Slots
    <3>1. MaxCount \in Nat /\ op[c].count \in Nat
      BY <1>3, ConstantsAssumption
    <3> HIDE DEF k
    <3> QED
      BY <2>4, <3>1 DEF Slots
  <2> QED
    BY <1>1, <1>2, <1>3, <2>1, <2>2, <2>3, <2>4, <2>5
<1>6. \A i \in Slots : ~Bounced(c, i)
  BY <1>3, <1>5 DEF Bounced
<1>7. \A d \in Ctx \ {c}, i \in Slots : ~Bounced(d, i) /\ ~Bounced(d, i)'
  <2> SUFFICES ASSUME NEW d \in Ctx \ {c}, NEW i \in Slots
               PROVE  ~Bounced(d, i) /\ ~Bounced(d, i)'
    OBVIOUS
  <2>1. ~Bounced(d, i)
    BY BouncedOwns
  <2>2. moved'[d] = moved[d]
    BY <1>2 DEF Inv, TypeOK
  <2> QED
    BY <1>2, <2>1, <2>2 DEF Bounced
<1>8. CASE op[c].write
  <2>1. disk' = [disk EXCEPT ![s] = mem[b][moved7]] /\ mem' = mem
    BY <1>5, <1>8 DEF Move7
  <2>2. mem[b][moved7] = mem[c][k]
    <3>1. op[c].kind = "bounce" => mem["bounce"][0] = mem[c][op[c].at]
      BY <1>1, <1>8, ConstantsAssumption DEF BounceInv, Ctx
    <3> QED
      BY <1>5, <3>1
  <2>3. Seen[c][k] = mem[c][k]
    BY <1>1, <1>5, <1>6 DEF Seen
  <2>4. \A d \in Ctx, i \in Slots : Bounced(d, i)' <=> Bounced(d, i)
    <3>1. \A i \in Slots : ~Bounced(c, i)'
      BY <1>2, <1>8 DEF Bounced
    <3> TAKE d \in Ctx, i \in Slots
    <3>2. CASE d = c
      BY <1>2, <1>6, <3>1, <3>2
    <3>3. CASE d # c
      <4>1. d \in Ctx \ {c}
        BY <3>3
      <4> QED
        BY <1>7, <4>1
    <3> QED
      BY <3>2, <3>3
  <2>5. Seen' = Seen
    BY <2>1, <2>4 DEF Seen
  <2>6. Store!MoveSector(c)
    <3> HIDE DEF c, s, b, k
    <3>1. disk' = [disk EXCEPT ![op[c].sector + moved[c]] = Seen[c][moved[c]]]
      BY <1>5, <2>1, <2>2, <2>3 DEF k
    <3> QED
      BY <1>2, <1>4, <1>5, <1>8, <2>5, <3>1 DEF Store!MoveSector, Store!Waiting, k
  <2> HIDE DEF c
  <2> QED
    BY <1>1, <2>6 DEF Store!StoreNext
<1>9. CASE ~op[c].write
  <2>1. mem' = [mem EXCEPT ![b][moved7] = disk[s]] /\ disk' = disk
    BY <1>5, <1>9 DEF Move7
  <2>2. \A d \in Ctx \ {c} : Seen'[d] = Seen[d]
    <3>1. \A d \in Ctx \ {c} : mem'[d] = mem[d]
      BY <1>5, <2>1 DEF Inv, TypeOK, Ctx
    <3> QED
      BY <1>7, <3>1 DEF Seen
  <2>3. \A i \in Slots : Seen'[c][i] = IF i = k THEN disk[s] ELSE Seen[c][i]
    <3> SUFFICES ASSUME NEW i \in Slots
                 PROVE  Seen'[c][i] = IF i = k THEN disk[s] ELSE Seen[c][i]
      OBVIOUS
    <3>0. Seen[c][i] = mem[c][i]
      BY <1>1, <1>6 DEF Seen
    <3>1. CASE op[c].kind # "bounce"
      <4>1. ~Bounced(c, i)'
        BY <1>2, <3>1 DEF Bounced
      <4>2. mem'[c][i] = IF i = k THEN disk[s] ELSE mem[c][i]
        BY <1>3, <1>5, <2>1, <3>1 DEF Inv, TypeOK
      <4> QED
        BY <1>1, <1>2, <3>0, <4>1, <4>2 DEF Seen
    <3>2. CASE op[c].kind = "bounce"
      <4>1. moved'[c] = op[c].at + 1
        BY <1>1, <1>2, <1>5, <3>2 DEF Inv, TypeOK
      <4>2. Bounced(c, i)' <=> i = k
        BY <1>2, <1>5, <1>9, <3>2, <4>1 DEF Bounced
      <4>3. mem'["bounce"][0] = disk[s] /\ mem'[c] = mem[c]
        BY <1>3, <1>5, <2>1, <3>2, ConstantsAssumption DEF Inv, TypeOK, Slots
      <4> QED
        BY <1>1, <1>2, <3>0, <4>2, <4>3 DEF Seen
    <3> QED
      BY <3>1, <3>2
  <2>4. Seen' = [Seen EXCEPT ![c][k] = disk[s]]
    <3>1. /\ Seen' = [d \in Ctx |-> Seen'[d]] /\ Seen = [d \in Ctx |-> Seen[d]]
          /\ Seen'[c] = [i \in Slots |-> Seen'[c][i]] /\ Seen[c] = [i \in Slots |-> Seen[c][i]]
      BY <1>1, <1>2 DEF Seen
    <3> HIDE DEF s, k
    <3>2. Seen'[c] = [Seen[c] EXCEPT ![k] = disk[s]]
      BY <2>3, <3>1
    <3> QED
      BY <2>2, <3>1, <3>2
  <2>5. Store!MoveSector(c)
    <3> HIDE DEF c, s, b, k
    <3>1. Seen' = [Seen EXCEPT ![c][moved[c]] = disk[op[c].sector + moved[c]]]
      BY <1>5, <2>4 DEF k
    <3> QED
      BY <1>2, <1>4, <1>5, <1>9, <2>1, <3>1 DEF Store!MoveSector, Store!Waiting, k
  <2> HIDE DEF c
  <2> QED
    BY <1>1, <2>5 DEF Store!StoreNext
<1> QED
  BY <1>8, <1>9

LEMMA StepsRefine ==
    ASSUME Inv, BounceInv, [Next]_vars
    PROVE  [Store!StoreNext]_(Store!storeVars)
<1>1. ASSUME NEW c \in Ctx, Arm9(c)
      PROVE  Store!StoreNext \/ UNCHANGED Store!storeVars
  <2>1. CASE \E r \in Callable, data \in Data : Begin(c, r, data)
    BY <2>1, BeginRefines
  <2>2. CASE Issue(c) \/ IssueInvalid(c) \/ Poll(c) \/ Await(c) \/ Cancel(c)
    BY <2>2, IssueRefines
  <2>3. CASE Finish(c)
    BY <2>3, FinishRefines
  <2>4. CASE Return(c)
    BY <2>4, ReturnRefines
  <2> QED
    BY <1>1, <2>1, <2>2, <2>3, <2>4 DEF Arm9
<1>2. CASE Move7
  BY <1>2, MoveRefines
<1>3. CASE UNCHANGED vars \/ (Arm7 /\ ~Move7)
  <2>1. pc' = pc /\ op' = op /\ token' = token /\ moved' = moved
        /\ disk' = disk /\ mem' = mem
    BY <1>3
    DEF Arm7, Receive7, Wake7, Take7, Result7, Identify7, Notify7, arm9Vars, vars
  <2>2. Asked' = Asked
    BY <2>1 DEF Asked
  <2>3. Replies' = Replies
    BY <2>1 DEF Replies
  <2>4. Seen' = Seen
    BY <2>1 DEF Seen, Bounced
  <2> QED
    BY <2>1, <2>2, <2>3, <2>4 DEF Store!storeVars
<1> QED
  BY <1>1, <1>2, <1>3 DEF Next

\* Two cores, a command block, a FIFO and a nibble move sectors as if each
\* caller moved its own, one by one and in order (FsIpc.cpp:119-208,
\* FsIpcService.cpp).
THEOREM Refinement == Spec => ImplementsSectorStore
<1>1. Init => Store!StoreInit
  <2> SUFFICES ASSUME Init
               PROVE  Store!StoreInit
    OBVIOUS
  <2>1. /\ \A c \in Ctx : pc[c] = "idle"
        /\ \A c \in Ctx : moved[c] = 0
        /\ mem \in [Buffers -> [Slots -> Values]] /\ disk \in [Sectors -> Values]
        /\ moved = [c \in Ctx |-> 0]
    BY InitInv DEF Init, Inv, TypeOK
  <2>2. Asked = [c \in Ctx |-> NoRequest] /\ Replies = [c \in Ctx |-> "none"]
    BY <2>1 DEF Asked, Replies
  <2>3. Seen \in [Ctx -> [Slots -> Values]]
    BY <2>1 DEF Seen, Bounced, Buffers
  <2> QED
    BY <2>1, <2>2, <2>3 DEF Store!StoreInit
<1> QED
  BY <1>1, InvHolds, BounceInvHolds, StepsRefine, PTL
  DEF Spec, ImplementsSectorStore, Store!StoreSpec

-----------------------------------------------------------------------------
(* Nobody waits for nothing.                                                *)

\* What one side of a wait may count on: a message in the mailbox wakes the thread,
\* and the outstanding transaction, once the ARM7 has done with it, is completed and
\* announced, or about to be.
AnswerInv ==
    /\ mailbox => event \/ pc7 = "check"
    /\ pc7 = "identify" => completion.result \in {"SUCCESS", "IO_ERROR"}
    /\ current # None /\ ~Submitted =>
        /\ completion.sequence = sequence
        /\ completion.result \in {"SUCCESS", "IO_ERROR"}
        /\ IF pc7 = "notify" THEN cmd7.sequence = sequence
           ELSE sync7 = sequence % SyncMod

\* The ARM9's context c finds what it polls for, or does not poll.
GoesOn(c) ==
    \/ pc[c] \in {"inflight", "done"}
    \/ pc[c] \in {"drain", "next"} /\ (current = None \/ Retirable)
    \/ pc[c] \in {"wait", "cancel"} /\ (Complete(c) \/ Disowned(c) \/ Retirable)

\* The ARM7 has a message to take or a command to work on.
GoesOn7 == fifo > 0 \/ event \/ pc7 # "waitEvent"

\* In a call, whoever holds the ARM9 goes on, or the ARM7 does: the loops of
\* FsIpc.cpp:65-84 and :122 never turn while the ARM7 sleeps, and a handler never
\* turns on a transaction that only main could retire.
WaitsAreAnswered ==
    /\ \A c \in Ctx : pc[c] # "idle" /\ MayRun(c) => GoesOn(c) \/ GoesOn7
    /\ (\E c \in Ctx : pc[c] # "idle") => \E c \in Ctx : pc[c] # "idle" /\ MayRun(c)

LEMMA InitAnswer == Init => AnswerInv
BY DEF Init, AnswerInv, Submitted, Working7

LEMMA Arm9Answer ==
    ASSUME Inv, AnswerInv, NEW c \in Ctx, Arm9(c)
    PROVE  AnswerInv'
<1>1. UNCHANGED <<sync7, arm7Vars>>
  BY DEF Arm9, Begin, Issue, IssueInvalid, Poll, Await, Cancel, Finish, Return
<1>2. CASE Issue(c)
  <2>1. fifo' = 1
    <3>1. fifo = 0
      BY <1>2, RetireSettles DEF Issue
    <3> QED
      BY <1>2, <3>1 DEF Issue
  <2>2. Submitted' /\ pc7' = pc7 /\ mailbox' = mailbox /\ event' = event
    BY <1>1, <2>1 DEF Submitted, arm7Vars
  <2>3. pc7 # "identify"
    BY <1>2, RetireSettles DEF Issue, Submitted, Working7
  <2> QED
    BY <2>2, <2>3 DEF AnswerInv
<1>3. CASE ~Issue(c)
  <2>1. /\ UNCHANGED <<sequence, completion, fifo>>
        /\ current' = current \/ current' = None
    BY <1>3 DEF Arm9, Begin, IssueInvalid, Poll, Await, Cancel, Finish, Return
  <2>2. Submitted' = Submitted
    BY <1>1, <2>1 DEF Submitted, Working7, arm7Vars
  <2> QED
    BY <1>1, <2>1, <2>2 DEF AnswerInv, arm7Vars
<1> QED
  BY <1>2, <1>3

LEMMA Arm7Answer ==
    ASSUME Inv, AnswerInv, Arm7
    PROVE  AnswerInv'
<1>1. UNCHANGED <<current, sequence>>
  BY DEF Arm7, Receive7, Wake7, Take7, Move7, Result7, Identify7, Notify7, arm9Vars
<1>2. CASE Receive7
  BY <1>2 DEF AnswerInv, Receive7, Submitted
<1>3. CASE Wake7
  BY <1>1, <1>3 DEF AnswerInv, Wake7, Submitted, Working7
<1>4. CASE Take7
  <2>1. CASE mailbox
    BY <1>4, <2>1 DEF AnswerInv, Take7, Submitted, Working7
  <2>2. CASE ~mailbox
    BY <1>1, <1>4, <2>2 DEF AnswerInv, Take7, Submitted, Working7
  <2> QED
    BY <2>1, <2>2
<1>5. CASE Move7
  BY <1>5 DEF AnswerInv, Move7, Submitted, Working7
<1>6. CASE \E success \in BOOLEAN : Result7(success)
  BY <1>6 DEF Inv, TypeOK, AnswerInv, Result7, Submitted, Working7
<1>7. CASE Identify7
  <2>1. /\ pc7 = "identify" /\ pc7' = "notify"
        /\ completion' = [completion EXCEPT !.sequence = cmd7.sequence]
        /\ UNCHANGED <<cmd7, mailbox, event>>
    BY <1>7 DEF Identify7
  <2>2. Working7 /\ Submitted
    BY <2>1 DEF Working7, Submitted
  <2>3. cmd7.sequence = sequence
    <3>1. /\ current # None /\ cmd7 = command
          /\ token[current].sequence = command.sequence
      BY <2>2 DEF Inv, BufferLifetime
    <3>2. token[current].sequence = sequence
      BY <3>1 DEF Inv, Outstanding
    <3> QED
      BY <3>1, <3>2
  <2>4. completion' = [result |-> completion.result, sequence |-> sequence]
    BY <2>1, <2>3 DEF Inv, TypeOK
  <2> QED
    BY <1>1, <2>1, <2>3, <2>4 DEF AnswerInv
<1>8. CASE Notify7
  <2>1. /\ pc7 = "notify" /\ pc7' = "waitEvent"
        /\ sync7' = cmd7.sequence % SyncMod
        /\ UNCHANGED <<completion, fifo, mailbox, event>>
    BY <1>8 DEF Notify7
  <2>2. Submitted' = Submitted
    BY <2>1 DEF Submitted, Working7
  <2> QED
    BY <1>1, <2>1, <2>2 DEF AnswerInv
<1> QED
  BY <1>2, <1>3, <1>4, <1>5, <1>6, <1>7, <1>8 DEF Arm7

LEMMA AnswerHolds == Spec => [](Inv /\ AnswerInv)
<1>1. Inv /\ AnswerInv /\ [Next]_vars => AnswerInv'
  <2> SUFFICES ASSUME Inv, AnswerInv, [Next]_vars PROVE AnswerInv'
    OBVIOUS
  <2>1. CASE UNCHANGED vars
    BY <2>1 DEF AnswerInv, Submitted, Working7, vars
  <2> QED
    BY <2>1, Arm9Answer, Arm7Answer DEF Next
<1> QED
  BY <1>1, InitAnswer, InitInv, NextInv, PTL DEF Spec

\* No call, of a handler or of the code it preempted, waits for a completion that was
\* missed, overwritten or is nobody's to give: at every turn of a wait loop somebody
\* has a step to take. What is left of CallsReturn is that they take it.
THEOREM SomebodyGoesOn == Spec => []WaitsAreAnswered
<1>1. Inv /\ AnswerInv => WaitsAreAnswered
  <2> SUFFICES ASSUME Inv, AnswerInv PROVE WaitsAreAnswered
    OBVIOUS
  <2>1. ASSUME NEW c \in Ctx, pc[c] # "idle", ~GoesOn(c)
        PROVE  GoesOn7
    <3>1. current # None /\ ~Retirable
      BY <2>1, ConstantsAssumption DEF Inv, TypeOK, GoesOn, Disowned, Ctx
    <3>2. CASE Submitted
      BY <3>2 DEF AnswerInv, Submitted, Working7, GoesOn7
    <3>3. CASE ~Submitted
      BY <3>1, <3>3 DEF AnswerInv, Retirable, GoesOn7
    <3> QED
      BY <3>2, <3>3
  <2>2. ASSUME NEW c \in Ctx, pc[c] # "idle"
        PROVE  \E d \in Ctx : pc[d] # "idle" /\ MayRun(d)
    BY <2>2 DEF MayRun, Ctx
  <2> QED
    BY <2>1, <2>2 DEF WaitsAreAnswered
<1> QED
  BY <1>1, AnswerHolds, PTL

-----------------------------------------------------------------------------
(* A call is a bounded number of steps.                                     *)

\* The most a command costs the ARM7 once the thread has it.
WorkOfCommand == MaxCount + 3

\* The steps of the thread on what it has begun.
StepsOfThread ==
    CASE pc7 = "waitEvent" -> 0
      [] pc7 = "check" -> 1
      [] pc7 = "transfer" -> 3 + (cmd7.count - moved7)
      [] pc7 = "identify" -> 2
      [] pc7 = "notify" -> 1

\* The steps the ARM7 has before it at most, if nothing new is sent.
StepsLeft7 ==
    (IF fifo = 1 THEN WorkOfCommand + 3 ELSE 0)
    + (IF mailbox THEN WorkOfCommand ELSE 0)
    + (IF event THEN 2 ELSE 0)
    + StepsOfThread

\* What n commands cost both processors, and the commands c has still to send.
StepsOfCommand == WorkOfCommand + 7
StepsOfCommands(n) == StepsOfCommand * n
CommandsLeft(c) == IF op[c].kind = "bounce" THEN op[c].count - op[c].at ELSE 1

\* The steps both have before them for the call of c, but for those of the ARM7 on
\* what was sent already.
StepsLeft(c) ==
    CASE pc[c] = "idle" -> 0
      [] pc[c] = "done" -> 1
      [] pc[c] \in {"wait", "cancel"} -> 2 + StepsOfCommands(CommandsLeft(c) - 1)
      [] pc[c] = "inflight" -> IF current = c THEN 4 ELSE 3
      [] pc[c] \in {"drain", "next"} -> 1 + StepsOfCommands(CommandsLeft(c))

Variant == StepsLeft7 + StepsLeft("main") + StepsLeft("irq")

\* Every step of either processor is one less, but for the beginning of a call: no
\* loop of the protocol turns without getting on. An ARM9 that finds nothing to do
\* takes no step here; SomebodyGoesOn says that then the ARM7 has one.
CallsAreFinite ==
    [][ \/ \E c \in Ctx : pc[c] = "idle" /\ pc'[c] = "drain"
        \/ Variant' < Variant ]_vars

LEMMA CostOfCommands ==
    /\ \A n \in Nat : StepsOfCommands(n) \in Nat
    /\ \A n \in Nat : StepsOfCommands(n + 1) = StepsOfCommands(n) + StepsOfCommand
    /\ WorkOfCommand \in Nat /\ StepsOfCommand \in Nat
<1>1. WorkOfCommand \in Nat /\ StepsOfCommand \in Nat
  BY ConstantsAssumption DEF WorkOfCommand, StepsOfCommand
<1>2. \A k, n \in Nat : k * n \in Nat /\ k * (n + 1) = k * n + k
  OBVIOUS
<1> QED
  BY <1>1, <1>2 DEF StepsOfCommands

LEMMA CommandsInNat ==
    ASSUME Inv, NEW c \in Ctx, pc[c] # "idle"
    PROVE  CommandsLeft(c) \in Nat /\ CommandsLeft(c) - 1 \in Nat
<1>1. op[c] \in Requests /\ op[c].at < op[c].count
  BY DEF Inv, TypeOK, CallStages
<1> QED
  BY <1>1, ConstantsAssumption DEF CommandsLeft, Requests, Slots

VariantTyped == StepsLeft7 \in Nat /\ \A c \in Ctx : StepsLeft(c) \in Nat

LEMMA VariantInNat == Inv => VariantTyped
<1> SUFFICES ASSUME Inv PROVE VariantTyped
  OBVIOUS
<1>1. StepsLeft7 \in Nat
  <2>1. StepsOfThread \in Nat
    <3>1. pc7 = "transfer" => cmd7.count - moved7 \in Nat
      BY ConstantsAssumption DEF Inv, TypeOK, Arm7Progress, Working7, Commands
    <3> QED
      BY <3>1 DEF Inv, TypeOK, StepsOfThread
  <2> QED
    BY <2>1, CostOfCommands DEF StepsLeft7
<1>2. ASSUME NEW c \in Ctx PROVE StepsLeft(c) \in Nat
  <2>1. CASE pc[c] = "idle"
    BY <2>1 DEF StepsLeft
  <2>2. CASE pc[c] # "idle"
    <3>1. /\ StepsOfCommands(CommandsLeft(c)) \in Nat
          /\ StepsOfCommands(CommandsLeft(c) - 1) \in Nat
      BY <2>2, CommandsInNat, CostOfCommands
    <3> QED
      BY <2>2, <3>1 DEF Inv, TypeOK, StepsLeft
  <2> QED
    BY <2>1, <2>2
<1> QED
  BY <1>1, <1>2 DEF VariantTyped

LEMMA Arm7Advances ==
    ASSUME Inv, Arm7
    PROVE  StepsLeft7' < StepsLeft7 /\ \A c \in Ctx : StepsLeft(c)' = StepsLeft(c)
<1>1. UNCHANGED arm9Vars
  BY DEF Arm7, Receive7, Wake7, Take7, Move7, Result7, Identify7, Notify7
<1>2. \A c \in Ctx : StepsLeft(c)' = StepsLeft(c)
  BY <1>1 DEF arm9Vars, StepsLeft, CommandsLeft, StepsOfCommands
<1>3. StepsLeft7' < StepsLeft7
  <2>1. WorkOfCommand \in Nat
    BY CostOfCommands
  <2>2. pc7 = "transfer" => cmd7.count - moved7 \in Nat
    BY ConstantsAssumption DEF Inv, TypeOK, Arm7Progress, Working7, Commands
  <2>3. StepsOfThread \in Nat
    BY <2>2 DEF Inv, TypeOK, StepsOfThread
  <2>4. CASE Receive7
    <3>1. fifo = 1 /\ fifo' = 0 /\ ~mailbox /\ mailbox' /\ event'
      BY <2>4 DEF Inv, TypeOK, MailboxNeverOverwritten, Receive7
    <3>2. StepsOfThread' = StepsOfThread
      BY <2>4 DEF Receive7, StepsOfThread
    <3> QED
      BY <2>1, <2>3, <3>1, <3>2 DEF StepsLeft7
  <2>5. CASE Wake7
    <3>1. /\ event /\ ~event' /\ UNCHANGED <<fifo, mailbox>>
          /\ StepsOfThread = 0 /\ StepsOfThread' = 1
      BY <2>5 DEF Wake7, StepsOfThread
    <3> QED
      BY <2>1, <3>1 DEF StepsLeft7
  <2>6. CASE Take7
    <3>1. ~mailbox' /\ UNCHANGED <<fifo, event>> /\ StepsOfThread = 1
      BY <2>6 DEF Take7, StepsOfThread
    <3>2. CASE mailbox
      <4>1. pc7' = "transfer" /\ cmd7' = command /\ moved7' = 0
        BY <2>6, <3>2 DEF Inv, Arm7Progress, Take7
      <4>2. command.count \in 1 .. MaxCount
        BY DEF Inv, TypeOK, Commands
      <4>3. StepsOfThread' = 3 + command.count
        BY <4>1, <4>2, ConstantsAssumption DEF StepsOfThread
      <4>4. StepsOfThread' \in Nat /\ StepsOfThread' <= WorkOfCommand
        BY <4>2, <4>3, ConstantsAssumption DEF WorkOfCommand
      <4> QED
        <5> DEFINE rest == (IF fifo = 1 THEN WorkOfCommand + 3 ELSE 0) + (IF event THEN 2 ELSE 0)
        <5>1. rest \in Nat
          BY <2>1
        <5>2. StepsLeft7 = rest + WorkOfCommand + 1
          BY <2>1, <3>1, <3>2 DEF StepsLeft7
        <5>3. StepsLeft7' = rest + StepsOfThread'
          BY <2>1, <3>1, <4>4 DEF StepsLeft7
        <5> HIDE DEF rest
        <5>4. rest + StepsOfThread' < rest + WorkOfCommand + 1
          <6>1. \A r, t, w \in Nat : t <= w => r + t < r + w + 1
            OBVIOUS
          <6>2. StepsOfThread' \in Nat /\ StepsOfThread' <= WorkOfCommand
            BY <4>4
          <6> QED
            BY <2>1, <5>1, <6>1, <6>2
        <5> QED
          BY <5>2, <5>3, <5>4
    <3>3. CASE ~mailbox
      <4>1. StepsOfThread' = 0
        BY <2>6, <3>3 DEF Take7, StepsOfThread
      <4> QED
        BY <2>1, <3>1, <3>3, <4>1 DEF StepsLeft7
    <3> QED
      BY <3>2, <3>3
  <2>7. CASE Move7
    <3>1. UNCHANGED <<fifo, mailbox, event, pc7, cmd7>> /\ pc7 = "transfer" /\ moved7' = moved7 + 1
      BY <2>7 DEF Move7
    <3>2. StepsOfThread' = StepsOfThread - 1
      BY <2>2, <3>1 DEF Inv, TypeOK, Commands, StepsOfThread
    <3> QED
      BY <2>1, <2>3, <3>1, <3>2 DEF StepsLeft7
  <2>8. CASE \E success \in BOOLEAN : Result7(success)
    <3>1. UNCHANGED <<fifo, mailbox, event>> /\ StepsOfThread' = 2 /\ StepsOfThread >= 3
      BY <2>2, <2>8 DEF Result7, StepsOfThread
    <3> QED
      BY <2>1, <2>3, <3>1 DEF StepsLeft7
  <2>9. CASE Identify7
    <3>1. UNCHANGED <<fifo, mailbox, event>> /\ StepsOfThread' = 1 /\ StepsOfThread = 2
      BY <2>9 DEF Identify7, StepsOfThread
    <3> QED
      BY <2>1, <3>1 DEF StepsLeft7
  <2>10. CASE Notify7
    <3>1. UNCHANGED <<fifo, mailbox, event>> /\ StepsOfThread' = 0 /\ StepsOfThread = 1
      BY <2>10 DEF Notify7, StepsOfThread
    <3> QED
      BY <2>1, <3>1 DEF StepsLeft7
  <2> QED
    BY <2>4, <2>5, <2>6, <2>7, <2>8, <2>9, <2>10 DEF Arm7
<1> QED
  BY <1>2, <1>3

\* A step of one context does not add to what the other has before it.
LEMMA OtherCallWaits ==
    ASSUME Inv, NEW c \in Ctx, Arm9(c), NEW d \in Ctx, d # c
    PROVE  StepsLeft(d)' <= StepsLeft(d)
<1>1. pc'[d] = pc[d] /\ op'[d] = op[d] /\ (current' = d => current = d)
  BY ConstantsAssumption
  DEF Inv, TypeOK, Ctx, Arm9, Begin, Issue, IssueInvalid, Poll, Await, Cancel, Finish, Return
<1>2. CommandsLeft(d)' = CommandsLeft(d)
  BY <1>1 DEF CommandsLeft
<1>3. StepsLeft(d) \in Nat
  BY VariantInNat DEF VariantTyped
<1>4. CASE pc[d] = "inflight"
  BY <1>1, <1>4 DEF StepsLeft
<1>5. CASE pc[d] # "inflight"
  <2>1. StepsLeft(d)' = StepsLeft(d)
    BY <1>1, <1>2, <1>5 DEF StepsLeft, StepsOfCommands
  <2> QED
    BY <1>3, <2>1
<1> QED
  BY <1>4, <1>5

LEMMA SendingAdvances ==
    ASSUME Inv, NEW c \in Ctx, Issue(c)
    PROVE  /\ StepsLeft7' = StepsLeft7 + WorkOfCommand + 3
           /\ StepsLeft(c)' + WorkOfCommand + 3 < StepsLeft(c)
<1>1. fifo = 0 /\ fifo' = 1 /\ UNCHANGED arm7Vars /\ op' = op
  BY RetireSettles DEF Issue
<1>2. StepsOfThread' = StepsOfThread
  BY <1>1 DEF arm7Vars, StepsOfThread
<1>3. StepsLeft7' = StepsLeft7 + WorkOfCommand + 3
  <2>1. WorkOfCommand \in Nat /\ StepsLeft7 \in Nat
    BY CostOfCommands, VariantInNat DEF VariantTyped
  <2>2. StepsOfThread \in Nat
    <3>1. pc7 = "transfer" => cmd7.count - moved7 \in Nat
      BY ConstantsAssumption DEF Inv, TypeOK, Arm7Progress, Working7, Commands
    <3> QED
      BY <3>1 DEF Inv, TypeOK, StepsOfThread
  <2> QED
    BY <1>1, <1>2, <2>1, <2>2 DEF StepsLeft7, arm7Vars
<1>4. StepsLeft(c) = 1 + StepsOfCommands(CommandsLeft(c))
  BY DEF Issue, StepsLeft
<1>5. CommandsLeft(c) \in Nat /\ CommandsLeft(c) - 1 \in Nat
  BY CommandsInNat DEF Issue
<1>6. /\ StepsOfCommands(CommandsLeft(c)) =
            StepsOfCommands(CommandsLeft(c) - 1) + StepsOfCommand
      /\ StepsOfCommands(CommandsLeft(c) - 1) \in Nat
  <2>1. CommandsLeft(c) = (CommandsLeft(c) - 1) + 1
    BY <1>5
  <2> QED
    BY <1>5, <2>1, CostOfCommands
<1>7. StepsLeft(c)' <= 4 + StepsOfCommands(CommandsLeft(c) - 1)
  <2>1. CommandsLeft(c)' = CommandsLeft(c)
    BY <1>1 DEF CommandsLeft
  <2>2. pc'[c] = IF op[c].kind = "async" THEN "inflight" ELSE "wait"
    BY DEF Inv, TypeOK, Issue
  <2>3. CASE pc'[c] = "inflight"
    <3>1. StepsLeft(c)' = 4
      BY <2>3 DEF StepsLeft, Issue
    <3> QED
      BY <1>6, <3>1
  <2>4. CASE pc'[c] = "wait"
    <3>1. StepsLeft(c)' = 2 + StepsOfCommands(CommandsLeft(c) - 1)
      BY <2>1, <2>4 DEF StepsLeft, StepsOfCommands
    <3> QED
      BY <1>6, <3>1
  <2> QED
    BY <2>2, <2>3, <2>4
<1>8. StepsLeft(c)' \in Nat
  <2>1. Inv'
    BY IssueInv
  <2>2. VariantTyped'
    BY <2>1, VariantInNat, PTL
  <2> QED
    BY <2>2 DEF VariantTyped
<1> QED
  BY <1>3, <1>4, <1>6, <1>7, <1>8, CostOfCommands DEF StepsOfCommand

LEMMA CallAdvances ==
    ASSUME Inv, NEW c \in Ctx,
           pc[c] = "inflight" => op[c].kind = "async",
           IssueInvalid(c) \/ Poll(c) \/ Await(c) \/ Cancel(c) \/ Finish(c) \/ Return(c)
    PROVE  StepsLeft7' = StepsLeft7 /\ StepsLeft(c)' < StepsLeft(c)
<1>1. StepsLeft7' = StepsLeft7
  <2>1. UNCHANGED <<fifo, arm7Vars>>
    BY DEF IssueInvalid, Poll, Await, Cancel, Finish, Return
  <2> QED
    BY <2>1 DEF StepsLeft7, StepsOfThread, arm7Vars
<1>2. pc[c] # "idle" => /\ CommandsLeft(c) \in Nat /\ CommandsLeft(c) - 1 \in Nat
                        /\ StepsOfCommands(CommandsLeft(c)) \in Nat
                        /\ StepsOfCommands(CommandsLeft(c) - 1) \in Nat
  BY CommandsInNat, CostOfCommands
<1>3. CASE IssueInvalid(c)
  <2>1. StepsLeft(c)' = 3
    BY <1>3, ConstantsAssumption DEF Inv, TypeOK, IssueInvalid, StepsLeft, Ctx
  <2>2. op[c].kind = "async"
    BY <1>3 DEF Inv, CallStages, IssueInvalid
  <2>3. CommandsLeft(c) = 1
    BY <2>2 DEF CommandsLeft
  <2>4. StepsLeft(c) = 1 + StepsOfCommand
    <3>1. StepsOfCommands(1) = StepsOfCommand
      BY CostOfCommands DEF StepsOfCommands
    <3> QED
      BY <1>3, <2>3, <3>1 DEF IssueInvalid, StepsLeft
  <2> QED
    BY <1>1, <2>1, <2>4, CostOfCommands DEF StepsOfCommand
<1>4. CASE Poll(c)
  <2>1. StepsLeft(c) = 4 /\ StepsLeft(c)' = 3
    BY <1>4, ConstantsAssumption DEF Inv, TypeOK, Poll, StepsLeft, Ctx
  <2> QED
    BY <1>1, <2>1
<1>5. CASE Await(c) \/ Cancel(c)
  <2>1. /\ pc[c] = "inflight" /\ pc'[c] \in {"wait", "cancel"} /\ UNCHANGED op
    BY <1>5 DEF Inv, TypeOK, Await, Cancel
  <2>2. CommandsLeft(c)' = CommandsLeft(c)
    BY <2>1 DEF CommandsLeft
  <2>3. StepsLeft(c)' = 2 + StepsOfCommands(CommandsLeft(c) - 1)
    BY <2>1, <2>2 DEF StepsLeft, StepsOfCommands
  <2>4. StepsLeft(c) \in {3, 4}
    BY <2>1 DEF StepsLeft
  <2>5. CommandsLeft(c) - 1 = 0
    <3>1. op[c].kind = "async"
      BY <2>1
    <3> QED
      BY <3>1 DEF CommandsLeft
  <2>6. StepsOfCommands(0) = 0
    BY CostOfCommands DEF StepsOfCommands
  <2> QED
    BY <1>1, <2>3, <2>4, <2>5, <2>6
<1>6. CASE Finish(c)
  <2> DEFINE result == IF pc[c] = "cancel" THEN "CANCELED" ELSE Settled(c)[c].result
             copied == op[c].kind = "bounce" /\ result = "SUCCESS"
             more == copied /\ op[c].at + 1 < op[c].count
  <2>1. /\ pc[c] \in {"wait", "cancel"}
        /\ pc'[c] = IF more THEN "next" ELSE "done"
        /\ op' = IF more THEN [op EXCEPT ![c].at = @ + 1] ELSE op
    BY <1>6 DEF Inv, TypeOK, Finish
  <2>2. StepsLeft(c) = 2 + StepsOfCommands(CommandsLeft(c) - 1)
    BY <2>1 DEF StepsLeft
  <2>3. CASE more
    <3>1. op[c] \in Requests /\ op[c].kind = "bounce"
      BY <2>3 DEF Inv, TypeOK
    <3>2. op'[c] = [op[c] EXCEPT !.at = @ + 1]
      BY <2>1, <2>3 DEF Inv, TypeOK
    <3>3. CommandsLeft(c)' = CommandsLeft(c) - 1
      BY <3>1, <3>2, ConstantsAssumption DEF CommandsLeft, Requests, Slots
    <3>4. StepsLeft(c)' = 1 + StepsOfCommands(CommandsLeft(c) - 1)
      BY <2>1, <2>3, <3>3 DEF StepsLeft, StepsOfCommands
    <3> QED
      BY <1>1, <1>2, <2>1, <2>2, <3>4
  <2>4. CASE ~more
    <3>1. StepsLeft(c)' = 1
      BY <2>1, <2>4 DEF StepsLeft
    <3> QED
      BY <1>1, <1>2, <2>1, <2>2, <3>1
  <2> QED
    BY <2>3, <2>4
<1>7. CASE Return(c)
  <2>1. StepsLeft(c) = 1 /\ StepsLeft(c)' = 0
    BY <1>7 DEF Inv, TypeOK, Return, StepsLeft
  <2> QED
    BY <1>1, <2>1
<1> QED
  BY <1>1, <1>3, <1>4, <1>5, <1>6, <1>7

\* Every step but the beginning of a call lowers the same number, which is never
\* negative: after the last call has begun, and however the two processors and the
\* handler are interleaved, the protocol takes that many steps at most.
THEOREM EveryCallIsFinite == Spec => CallsAreFinite /\ [](Variant \in Nat)
<1>1. Inv => Variant \in Nat
  <2> SUFFICES ASSUME Inv PROVE Variant \in Nat
    OBVIOUS
  <2>1. StepsLeft7 \in Nat /\ StepsLeft("main") \in Nat /\ StepsLeft("irq") \in Nat
    BY VariantInNat DEF VariantTyped, Ctx
  <2> QED
    BY <2>1 DEF Variant
<1>2. Inv /\ Inv' /\ BounceInv /\ [Next]_vars =>
        [ \/ \E c \in Ctx : pc[c] = "idle" /\ pc'[c] = "drain"
          \/ Variant' < Variant ]_vars
  <2> SUFFICES ASSUME Inv, Inv', BounceInv, Next,
                      ~ \E c \in Ctx : pc[c] = "idle" /\ pc'[c] = "drain"
               PROVE  Variant' < Variant
    OBVIOUS
  <2>1. /\ StepsLeft7 \in Nat /\ StepsLeft("main") \in Nat /\ StepsLeft("irq") \in Nat
        /\ StepsLeft7' \in Nat /\ StepsLeft("main")' \in Nat /\ StepsLeft("irq")' \in Nat
    <3>1. VariantTyped /\ VariantTyped'
      BY VariantInNat, PTL
    <3> QED
      BY <3>1 DEF VariantTyped, Ctx
  <2>2. CASE Arm7
    <3>1. /\ StepsLeft7' < StepsLeft7
          /\ StepsLeft("main")' = StepsLeft("main") /\ StepsLeft("irq")' = StepsLeft("irq")
      BY <2>2, Arm7Advances DEF Ctx
    <3> QED
      BY <2>1, <3>1 DEF Variant
  <2>3. ASSUME NEW c \in Ctx, Arm9(c) PROVE Variant' < Variant
    <3>1. ASSUME NEW d \in Ctx, d # c PROVE StepsLeft(d)' <= StepsLeft(d)
      BY <2>3, <3>1, OtherCallWaits
    <3>2. StepsLeft7' + StepsLeft(c)' < StepsLeft7 + StepsLeft(c)
      <4>1. ~ \E r \in Callable, data \in Data : Begin(c, r, data)
        BY DEF Begin, Inv, TypeOK
      <4>2. CASE Issue(c)
        <5>1. /\ StepsLeft7' = StepsLeft7 + WorkOfCommand + 3
              /\ StepsLeft(c)' + WorkOfCommand + 3 < StepsLeft(c)
          BY <4>2, SendingAdvances
        <5> QED
          BY <2>1, <5>1, CostOfCommands DEF Ctx
      <4>3. CASE ~Issue(c)
        <5>1. StepsLeft7' = StepsLeft7 /\ StepsLeft(c)' < StepsLeft(c)
          BY <2>3, <4>1, <4>3, CallAdvances DEF Arm9, BounceInv
        <5> QED
          BY <2>1, <5>1 DEF Ctx
      <4> QED
        BY <4>2, <4>3
    <3>3. CASE c = "main"
      BY <2>1, <3>1, <3>2, <3>3 DEF Variant, Ctx
    <3>4. CASE c = "irq"
      BY <2>1, <3>1, <3>2, <3>4 DEF Variant, Ctx
    <3> QED
      BY <3>3, <3>4 DEF Ctx
  <2> QED
    BY <2>2, <2>3 DEF Next
<1>3. Spec => CallsAreFinite
  BY <1>2, InvHolds, BounceInvHolds, PTL DEF Spec, CallsAreFinite
<1> QED
  BY <1>1, <1>3, InvHolds, PTL
=============================================================================
