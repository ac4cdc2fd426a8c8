------------------------------- MODULE MCFsIpc -------------------------------
(* Transfers of the two sectors of a small card: bounced ones, whose sectors *)
(* are commands of their own, direct and asynchronous ones, and one the      *)
(* arguments of which are rejected.                                         *)
EXTENDS FsIpc

CONSTANTS d0, d1

Request(kind, write, valid) ==
    [kind |-> kind, write |-> write, sector |-> 0, count |-> 2, at |-> 0, valid |-> valid]

MCMenu ==
    {Request("bounce", TRUE, TRUE), Request("bounce", FALSE, TRUE),
     Request("direct", TRUE, TRUE), Request("async", FALSE, TRUE),
     Request("async", FALSE, FALSE)}

\* What writers bring: sectors that differ.
MCData == {[i \in Slots |-> IF i = 0 THEN d1 ELSE d0]}
=============================================================================
