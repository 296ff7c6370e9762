----------------------------- MODULE PowerOrders -----------------------------
(***************************************************************************)
(* What a remote power-off owes the one who orders it: a machine carries   *)
(* out only what was ordered for it, an order once in the life of its      *)
(* client process, and what is told to have been carried out was.  There   *)
(* is no promise that an order arrives, or that its end is ever told.      *)
(***************************************************************************)
EXTENDS Naturals

CONSTANTS Machines, Keys, Ids, KeyOf

VARIABLES
    ordered,    \* <<key, id>>: the order was given; its giver may never hear of it
    runs,       \* runs[p][i]: how often p has carried out i since it started
    done,       \* <<p, i>>: it ended well
    told        \* ids of orders told to have ended well

Init ==
    /\ ordered = {} /\ done = {} /\ told = {}
    /\ runs = [p \in Machines |-> [i \in Ids |-> 0]]

\* Two orders may draw one id; they are then one to the machine.
Order(k, i) ==
    /\ ordered' = ordered \cup {<<k, i>>}
    /\ UNCHANGED <<runs, done, told>>

CarryOut(p, i) ==
    /\ <<KeyOf[p], i>> \in ordered
    /\ runs[p][i] = 0
    /\ runs' = [runs EXCEPT ![p][i] = 1]
    /\ done' \in {done, done \cup {<<p, i>>}}
    /\ UNCHANGED <<ordered, told>>

\* A client process that ends forgets what it carried out.
Forget(p) ==
    /\ runs' = [runs EXCEPT ![p] = [i \in Ids |-> 0]]
    /\ UNCHANGED <<ordered, done, told>>

Tell(p, i) ==
    /\ <<p, i>> \in done
    /\ told' = told \cup {i}
    /\ UNCHANGED <<ordered, runs, done>>

Next ==
    \/ \E k \in Keys, i \in Ids : Order(k, i)
    \/ \E p \in Machines : Forget(p) \/ \E i \in Ids : CarryOut(p, i) \/ Tell(p, i)

vars == <<ordered, runs, done, told>>

Spec == Init /\ [][Next]_vars

=============================================================================
