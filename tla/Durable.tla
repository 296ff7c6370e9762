------------------------------- MODULE Durable -------------------------------
(***************************************************************************)
(* What a store owes its users: a change it has confirmed is kept, and     *)
(* what is kept is never replaced by something older.  Changes are         *)
(* numbered in the order they are made.                                    *)
(***************************************************************************)
EXTENDS Naturals

VARIABLES kept, confirmed

Init == kept = 0 /\ confirmed = 0

\* Changes become kept in order, several at a time when some were not kept by
\* themselves, and only a change that is kept is confirmed.
Keep ==
    /\ kept' \in Nat /\ kept' >= kept
    /\ confirmed' \in {confirmed, kept'}

Spec == Init /\ [][Keep]_<<kept, confirmed>>

=============================================================================
