---------------------------- MODULE MCRtcJournal ----------------------------
(* Cards with any three of: ready records of one lineage, half the range     *)
(* apart or in a circle among them, two different records of one number, a   *)
(* record of a fresh user, a pending one, and slots missing or unreadable.   *)
EXTENDS RtcJournal, TLC

CONSTANTS d1, d2

MCRecord(s, p, l, d) == [seq |-> s, phase |-> p, lineage |-> l, data |-> d]

MCFiles ==
    {MCRecord(s, "ready", "old", d1) : s \in Sequences \ {1}}
    \union {MCRecord(0, "ready", "old", d2), MCRecord(0, "ready", "none", d1),
            MCRecord(0, "pending", "old", d1)}
=============================================================================
