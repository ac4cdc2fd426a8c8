----------------------------- MODULE SectorStore -----------------------------
(***************************************************************************)
(* What the storage layer promises its callers.  A request is a run of      *)
(* sectors to read into, or to write from, the caller's own buffer.  The    *)
(* sectors move one at a time and in order, each exactly once, and only     *)
(* between the call and its return; a call that answers SUCCESS has moved   *)
(* them all, and the caller's buffer holds what was read whatever the other *)
(* callers did meanwhile.                                                   *)
(***************************************************************************)
EXTENDS Integers

CONSTANTS Callers, Sectors, Slots, Values, NoRequest

VARIABLES
    asked,    \* the request of each caller
    done,     \* sectors of it already moved
    buf,      \* the caller's buffer
    reply,    \* what its call answers, "none" before it does
    disk      \* the card

storeVars == <<asked, done, buf, reply, disk>>

StoreInit ==
    /\ asked = [c \in Callers |-> NoRequest]
    /\ done = [c \in Callers |-> 0]
    /\ buf \in [Callers -> [Slots -> Values]]
    /\ reply = [c \in Callers |-> "none"]
    /\ disk \in [Sectors -> Values]

\* A caller asks; a writer brings its data.
Ask(c) ==
    /\ asked[c] = NoRequest
    /\ \E write, valid \in BOOLEAN, first \in Sectors, n \in {i + 1 : i \in Slots} :
        /\ asked' = [asked EXCEPT ![c] = [write |-> write, sector |-> first,
                                          count |-> n, valid |-> valid]]
        /\ \E data \in [Slots -> Values] :
            buf' = IF write THEN [buf EXCEPT ![c] = data] ELSE buf
    /\ UNCHANGED <<done, reply, disk>>

\* The call has not answered yet.
Waiting(c) == asked[c] # NoRequest /\ reply[c] = "none"

\* The next sector of a valid request moves.
MoveSector(c) ==
    /\ Waiting(c)
    /\ asked[c].valid
    /\ done[c] < asked[c].count
    /\ LET s == asked[c].sector + done[c]
       IN IF asked[c].write
          THEN disk' = [disk EXCEPT ![s] = buf[c][done[c]]] /\ buf' = buf
          ELSE buf' = [buf EXCEPT ![c][done[c]] = disk[s]] /\ disk' = disk
    /\ done' = [done EXCEPT ![c] = @ + 1]
    /\ UNCHANGED <<asked, reply>>

\* Everything moved, and the caller's buffer is as the moves left it.
Succeed(c) ==
    /\ Waiting(c)
    /\ asked[c].valid
    /\ done[c] = asked[c].count
    /\ reply' = [reply EXCEPT ![c] = "SUCCESS"]
    /\ UNCHANGED <<asked, done, buf, disk>>

\* The driver failed or the caller gave up: a reader's buffer is undefined.
Fail(c) ==
    /\ Waiting(c)
    /\ asked[c].valid
    /\ \E result \in {"IO_ERROR", "CANCELED"} : reply' = [reply EXCEPT ![c] = result]
    /\ \E junk \in [Slots -> Values] :
        buf' = IF asked[c].write THEN buf ELSE [buf EXCEPT ![c] = junk]
    /\ UNCHANGED <<asked, done, disk>>

\* Impossible arguments: nothing moves.
Reject(c) ==
    /\ Waiting(c)
    /\ ~asked[c].valid
    /\ reply' = [reply EXCEPT ![c] = "INVALID_ARGUMENT"]
    /\ UNCHANGED <<asked, done, buf, disk>>

\* The caller has its answer.
Leave(c) ==
    /\ reply[c] # "none"
    /\ asked' = [asked EXCEPT ![c] = NoRequest]
    /\ done' = [done EXCEPT ![c] = 0]
    /\ reply' = [reply EXCEPT ![c] = "none"]
    /\ UNCHANGED <<buf, disk>>

StoreNext ==
    \E c \in Callers :
        Ask(c) \/ MoveSector(c) \/ Succeed(c) \/ Fail(c) \/ Reject(c) \/ Leave(c)

StoreSpec == StoreInit /\ [][StoreNext]_storeVars
=============================================================================
