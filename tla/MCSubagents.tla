---------------------------- MODULE MCSubagents ----------------------------
(***************************************************************************)
(* Two parents in two conversations.  The task call of the first has a     *)
(* child thread that the background call of the second continues.  With    *)
(* two job slots the parents can hold them all.  The child of the task may *)
(* lose its worker; the background child may be cancelled by its parent,   *)
(* whose own stream may break.                                             *)
(***************************************************************************)
EXTENDS Subagents

CONSTANTS p1, p2, c1, c2, t1

TwoParents == {p1, p2}
TwoCalls   == {c1, c2}
CreatorOf  == [c \in TwoCalls |-> IF c = c1 THEN p1 ELSE p2]
ThreadOf   == [c \in TwoCalls |-> t1]
TaskCalls  == {c1}
Cancelled  == {c2}
Retried    == {p2}
Dying      == {c1}
=============================================================================
