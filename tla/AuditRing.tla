------------------------------ MODULE AuditRing ------------------------------
(***************************************************************************)
(* The ring of audit entries (internal/audit/log.go).  Every device action *)
(* and every schedule writes to it, the web UI lists it.  Writers hold mu, *)
(* readers its read lock, so an Add and a List are one step each.          *)
(*                                                                         *)
(* An entry is a member of Entries; its time stamp and texts do not        *)
(* matter.  buf is indexed from 0, as in the code.                         *)
(***************************************************************************)
EXTENDS Integers, Sequences

CONSTANTS
    Entries,      \* the entries anybody adds
    Requested,    \* the capacity New is called with
    Blank         \* the zero Entry the buffer is made of

ASSUME RequestedAssumption == Requested \in Int
ASSUME BlankAssumption == Blank \notin Entries

VARIABLES buf, next, size

ringVars == <<buf, next, size>>

MinCap == 4
MaxCap == 2000

\* The capacity New settles for.
Cap == IF Requested < MinCap THEN MinCap
       ELSE IF Requested > MaxCap THEN MaxCap ELSE Requested

Slots == 0 .. (Cap - 1)

RingInit ==
    /\ buf = [i \in Slots |-> Blank]
    /\ next = 0
    /\ size = 0

\* Sensitivity variant of Add: it wraps one slot short.
AddShortWrap(e) ==
    /\ buf' = [buf EXCEPT ![next] = e]
    /\ next' = (next + 1) % (Cap - 1)
    /\ size' = IF size < Cap THEN size + 1 ELSE size

Add(e) ==
    /\ buf' = [buf EXCEPT ![next] = e]
    /\ next' = (next + 1) % Cap
    /\ size' = IF size < Cap THEN size + 1 ELSE size

RingNext == \E e \in Entries : Add(e)

RingSpec == RingInit /\ [][RingNext]_ringVars

-----------------------------------------------------------------------------
\* The slot of the i-th newest entry, i from 0 (the code's idx).
SlotOf(i) == (next - 1 - i + 2 * Cap) % Cap

\* List(limit), newest first.
List(limit) ==
    LET n == IF limit <= 0 \/ limit > size THEN size ELSE limit
    IN  [k \in 1 .. n |-> buf[SlotOf(k - 1)]]

-----------------------------------------------------------------------------
\* The type invariant: the write index never leaves the buffer (log.go:52).
RingTypeOK ==
    /\ buf \in [Slots -> Entries \cup {Blank}]
    /\ next \in Slots
    /\ size \in 0 .. Cap

\* The ring is a bounded log: what List returns without a limit is always the
\* newest Cap entries, newest first, across any number of wraps (log.go:51-55
\* against the index arithmetic of log.go:70).
Log == INSTANCE BoundedLog WITH Capacity <- Cap, log <- List(0)
IsBoundedLog == Log!Spec

=============================================================================
