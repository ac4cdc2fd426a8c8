------------------------------ MODULE SavedGame ------------------------------
(***************************************************************************)
(* What a player is promised of a save.  The file holds the save RAM of     *)
(* some moment, whole, until a write fails; nothing is stored while it is   *)
(* written; a failure is never forgotten; the console goes off by itself    *)
(* only outside a write, and only over a file that holds every store the    *)
(* game has completed; it gives up unsaved data only to a player who was    *)
(* told of the failure and then asked for it.                               *)
(***************************************************************************)
EXTENDS Naturals

CONSTANTS Bytes, Values

VARIABLES
    ram,        \* the save RAM the game sees
    file,       \* what the next start will find
    storing,    \* a store of the game has not completed
    writing,    \* the file is being written
    failed,     \* a write of the file failed
    told,       \* the player was told
    consents,   \* the last request of the player gives up what is not saved
    power       \* "on", "clean" or "discarded"

savedVars == <<ram, file, storing, writing, failed, told, consents, power>>

SavedInit ==
    /\ ram \in [Bytes -> Values]
    /\ file = ram
    /\ storing = FALSE /\ writing = FALSE /\ failed = FALSE /\ told = FALSE /\ consents = FALSE
    /\ power = "on"

\* The game stores a byte, and goes on.
Store ==
    /\ power = "on" /\ ~failed /\ ~storing /\ ~writing
    /\ \E b \in Bytes, v \in Values : ram' = [ram EXCEPT ![b] = v]
    /\ storing' = TRUE
    /\ UNCHANGED <<file, writing, failed, told, consents, power>>

Stored ==
    /\ power = "on" /\ storing /\ ~failed
    /\ storing' = FALSE
    /\ UNCHANGED <<ram, file, writing, failed, told, consents, power>>

\* The file is written, between two stores.
Begin ==
    /\ power = "on" /\ ~failed /\ ~storing /\ ~writing
    /\ writing' = TRUE
    /\ UNCHANGED <<ram, file, storing, failed, told, consents, power>>

Save ==
    /\ power = "on" /\ writing
    /\ file' = ram
    /\ writing' = FALSE
    /\ UNCHANGED <<ram, storing, failed, told, consents, power>>

\* Some bytes of it were written, and it will not be tried again.
SaveFails ==
    /\ power = "on" /\ ~failed
    /\ file' \in [Bytes -> Values]
    /\ \A b \in Bytes : file'[b] = file[b] \/ (writing /\ file'[b] = ram[b])
    /\ failed' = TRUE /\ writing' = FALSE
    /\ UNCHANGED <<ram, storing, told, consents, power>>

Tell ==
    /\ power = "on" /\ failed
    /\ told' = TRUE
    /\ UNCHANGED <<ram, file, storing, writing, failed, consents, power>>

\* A request of the player; only one made in knowledge of the failure counts.
Ask ==
    /\ power = "on"
    /\ \E answer \in BOOLEAN : consents' = (answer /\ told)
    /\ UNCHANGED <<ram, file, storing, writing, failed, told, power>>

TurnOff ==
    /\ power = "on" /\ ~failed /\ ~writing
    /\ file = ram \/ storing
    /\ power' = "clean"
    /\ UNCHANGED <<ram, file, storing, writing, failed, told, consents>>

GiveUp ==
    /\ power = "on" /\ failed /\ consents
    /\ power' = "discarded"
    /\ UNCHANGED <<ram, file, storing, writing, failed, told, consents>>

SavedNext ==
    Store \/ Stored \/ Begin \/ Save \/ SaveFails
    \/ Tell \/ Ask \/ TurnOff \/ GiveUp

SavedSpec == SavedInit /\ [][SavedNext]_savedVars
=============================================================================
