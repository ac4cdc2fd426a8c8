----------------------------- MODULE DurableCell -----------------------------
(***************************************************************************)
(* What a journal promises the program that keeps one value in it.  The     *)
(* value a restart will find is the one last stored, or the one that was    *)
(* being stored when the program stopped, and never anything else: a store  *)
(* that fails leaves the old value or puts the new one, and a stored value  *)
(* is there on every later start.                                          *)
(***************************************************************************)
CONSTANTS CellValues, NoValue

VARIABLES
    kept,     \* the value a restart finds
    tried,    \* the value being stored
    memory    \* the value the program builds the next one on

cellVars == <<kept, tried, memory>>

CellInit ==
    /\ kept \in CellValues \union {NoValue}
    /\ tried = NoValue
    /\ memory = NoValue

\* The program starts on what was kept.
Start ==
    /\ tried = NoValue
    /\ memory' = kept
    /\ UNCHANGED <<kept, tried>>

Try(v) ==
    /\ tried = NoValue
    /\ tried' = v
    /\ UNCHANGED <<kept, memory>>

\* The value being stored takes the place of the old one.
Land ==
    /\ tried # NoValue
    /\ kept' = tried
    /\ UNCHANGED <<tried, memory>>

\* The program is told that it was stored.
Succeed ==
    /\ tried # NoValue /\ kept = tried
    /\ memory' = tried
    /\ tried' = NoValue
    /\ UNCHANGED kept

\* The store fails, or the program stops, before or after the value landed.
Stop ==
    /\ tried' = NoValue
    /\ memory' \in {memory, NoValue}
    /\ kept' = kept \/ (tried # NoValue /\ kept' = tried)

CellNext == Start \/ (\E v \in CellValues : Try(v)) \/ Land \/ Succeed \/ Stop

CellSpec == CellInit /\ [][CellNext]_cellVars

=============================================================================
