----------------------------- MODULE BoundedLog -----------------------------
(***************************************************************************)
(* What a log of the hub promises its readers, whatever it is kept in: the *)
(* newest Capacity entries, newest first, nothing lost before the log is   *)
(* full and nothing out of order after.                                    *)
(***************************************************************************)
EXTENDS Naturals, Sequences

CONSTANTS Entries, Capacity

VARIABLE log

Keep(s) == SubSeq(s, 1, IF Len(s) < Capacity THEN Len(s) ELSE Capacity)

Init == log = << >>

Add(e) == log' = Keep(<<e>> \o log)

Next == \E e \in Entries : Add(e)

Spec == Init /\ [][Next]_log

=============================================================================
