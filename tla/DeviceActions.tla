---------------------------- MODULE DeviceActions ----------------------------
(***************************************************************************)
(* What is done to devices: wake, shutdown and restart, of one device, of  *)
(* a batch or of a group, asked for by the web API, by the Bemfa cloud or  *)
(* by a schedule (internal/device/service.go), the groups they go by       *)
(* (internal/config/store.go), and the audit log they write (AuditRing).   *)
(*                                                                         *)
(* Each call runs in a goroutine of its own and takes its devices one by   *)
(* one; the store and the ring are locked for single operations only, so   *)
(* calls, edits of devices and edits of groups interleave.                 *)
(*                                                                         *)
(* A list of devices, of a request or a group, is kept as how often it     *)
(* names each; a call takes them in any order, where the code goes down    *)
(* the list.                                                               *)
(*                                                                         *)
(* Whether an action succeeds is a choice: a magic packet may not go out,  *)
(* a device may have no client bound to it, the hub may not reach it       *)
(* (Hub!SendControl).  The notification that follows an entry changes      *)
(* nothing here.                                                           *)
(***************************************************************************)
EXTENDS AuditRing

CONSTANTS
    Devices,      \* device ids
    Groups,       \* group ids
    Bodies,       \* the lists of devices requests name, without their order
    Callers,      \* goroutines that act on devices
    Runner,       \* the one of the schedules
    NoDevice, NoGroup,
    MaxCalls, MaxEdits      \* bounds on calls, and on edits

\* A restart is a shutdown by another name, but for schedules and batches,
\* which have none.
Events == {"wake", "shutdown"}

Lists == [Devices -> Nat]

ASSUME BodiesAssumption == Bodies \subseteq Lists
ASSUME EntriesAssumption ==
    [event : Events \cup {"schedule"}, target : Devices \cup Groups,
     ok : BOOLEAN] \subseteq Entries
ASSUME BoundsAssumption == MaxCalls \in Nat /\ MaxEdits \in Nat
ASSUME RunnerAssumption == Runner \in Callers
ASSUME NoneAssumption == NoDevice \notin Devices /\ NoGroup \notin Groups

VARIABLES
    stored,       \* the ids of the devices there are
    groups,       \* per id: DeviceIDs, or NoGroup
    call,         \* per caller: the call it is in, or the last one
    calls, edits, \* how many calls and edits there have been
    total,        \* how many entries were ever added
    unknown       \* per group: the ids its last save named in vain

storeVars == <<stored, groups, edits, unknown>>
logVars == <<ringVars, total>>
vars == <<logVars, storeVars, call, calls>>

Members(l) == {d \in Devices : l[d] > 0}

Nobody == [d \in Devices |-> 0]

-----------------------------------------------------------------------------
(* Calls                                                                   *)

\* pc: idle, then walk <-> record or refused.  The call was given the list of,
\* has left still to take and acts on the device now; out is Batch's map of
\* results, target what a schedule is for (NoDevice when none asks), told
\* whether its outcome was passed on.
Idle == [pc |-> "idle", event |-> "wake", of |-> Nobody, left |-> Nobody,
         now |-> NoDevice, out |-> [d \in Devices |-> "none"], ok |-> FALSE,
         target |-> NoDevice, told |-> FALSE, began |-> 0]

Started(e, l, t) ==
    [Idle EXCEPT !.pc = "walk", !.event = e, !.of = l, !.left = l,
                 !.target = t, !.began = total]

\* A group that is not there is an error at once (service.go:272, 286).
Refused(e, t) == [Started(e, Nobody, t) EXCEPT !.pc = "refused"]

Walking(a, d) == call[a].pc = "walk" /\ call[a].left[d] > 0
Walked(a) == call[a].pc = "walk" /\ Members(call[a].left) = {}

\* WakeGroup and ShutdownGroup fail when any result does.
Ok(a) == /\ call[a].pc # "refused"
         /\ \A d \in Devices : call[a].out[d] \in {"none", "ok"}

Answered(a) == Walked(a) \/ call[a].pc = "refused"

Done(a) == \/ call[a].pc = "idle"
           \/ Answered(a) /\ (call[a].target = NoDevice \/ call[a].told)

Start(a, c) ==
    /\ Done(a) /\ calls < MaxCalls
    /\ calls' = calls + 1
    /\ call' = [call EXCEPT ![a] = c]
    /\ UNCHANGED <<logVars, storeVars>>

\* What a schedule is for, when it is the runner that asks.
For(a, t) == IF a = Runner THEN t ELSE NoDevice

\* One device, from the API, the cloud or a schedule.
ActOnDevice(a) ==
    \E e \in Events, d \in Devices : Start(a, Started(e, [Nobody EXCEPT ![d] = 1], For(a, d)))

ActOnBatch(a) ==
    \E e \in Events, l \in Bodies :
        /\ a # Runner /\ Members(l) # {}
        /\ Start(a, Started(e, l, NoDevice))

\* The devices of a group as they are when the call begins: GetGroup copies.
ActOnGroup(a) ==
    \E e \in Events, g \in Groups :
        Start(a, IF groups[g] = NoGroup
                 THEN Refused(e, For(a, g))
                 ELSE Started(e, groups[g], For(a, g)))

\* What becomes of a call whose next device is d: there is none, or it was sent
\* to; and after the entry.
Missed(c, d) == [c EXCEPT !.left[d] = c.left[d] - 1, !.out[d] = "gone"]
Sent(c, d, ok) ==
    [c EXCEPT !.left[d] = c.left[d] - 1, !.pc = "record", !.now = d, !.ok = ok]
Recorded(c) ==
    [c EXCEPT !.pc = "walk", !.now = NoDevice, !.ok = FALSE,
              !.out[c.now] = IF c.ok THEN "ok" ELSE "failed"]

\* Wake or clientAction: look the device up and send.  A device that is not
\* there makes no entry.
NotFound(a, d) ==
    /\ Walking(a, d)
    /\ d \notin stored
    /\ call' = [call EXCEPT ![a] = Missed(@, d)]
    /\ UNCHANGED <<logVars, storeVars, calls>>

\* Sensitivity variant of Send: a failure that makes no entry.
SendQuiet(a, d) ==
    /\ Walking(a, d)
    /\ d \in stored
    /\ \/ call' = [call EXCEPT ![a] = Sent(@, d, TRUE)]
       \/ call' = [call EXCEPT ![a] = [Missed(@, d) EXCEPT !.out[d] = "failed"]]
    /\ UNCHANGED <<logVars, storeVars, calls>>

Send(a, d) ==
    /\ Walking(a, d)
    /\ d \in stored
    /\ \E ok \in BOOLEAN :
          call' = [call EXCEPT ![a] = Sent(@, d, ok)]
    /\ UNCHANGED <<logVars, storeVars, calls>>

Entry(e, t, ok) == [event |-> e, target |-> t, ok |-> ok]

Record(a) ==
    /\ call[a].pc = "record"
    /\ Add(Entry(call[a].event, call[a].now, call[a].ok))
    /\ total' = total + 1
    /\ call' = [call EXCEPT ![a] = Recorded(@)]
    /\ UNCHANGED <<storeVars, calls>>

\* The schedule runner tells what came of it; the entry goes by its outcome.
OnSchedule(a) ==
    /\ Answered(a) /\ call[a].target # NoDevice /\ ~call[a].told
    /\ Add(Entry("schedule", call[a].target, Ok(a)))
    /\ total' = total + 1
    /\ call' = [call EXCEPT ![a].told = TRUE]
    /\ UNCHANGED <<storeVars, calls>>

-----------------------------------------------------------------------------
(* The store                                                               *)

Edit(ds, gs, un) ==
    /\ edits < MaxEdits
    /\ edits' = edits + 1
    /\ stored' = ds /\ groups' = gs /\ unknown' = un
    /\ UNCHANGED <<logVars, call, calls>>

\* A device is created, or saved again after it was deleted (an edit of a
\* stored one changes nothing here).
UpsertDevice ==
    \E d \in Devices \ stored : Edit(stored \cup {d}, groups, unknown)

\* Sensitivity variant of DeleteDevice: the groups keep it.
DeleteDeviceOnly ==
    \E d \in stored : Edit(stored \ {d}, groups, unknown)

\* It leaves every group too.
DeleteDevice ==
    \E d \in stored :
        Edit(stored \ {d},
             [g \in Groups |-> IF groups[g] = NoGroup THEN NoGroup
                               ELSE [groups[g] EXCEPT ![d] = 0]],
             unknown)

\* POST, or PUT: of a group that was deleted meanwhile too, and naming devices
\* that were.
UpsertGroup ==
    \E g \in Groups, l \in Bodies :
        Edit(stored, [groups EXCEPT ![g] = l],
             [unknown EXCEPT ![g] = Members(l) \ stored])

DeleteGroup ==
    \E g \in Groups :
        /\ groups[g] # NoGroup
        /\ Edit(stored, [groups EXCEPT ![g] = NoGroup],
                [unknown EXCEPT ![g] = {}])

-----------------------------------------------------------------------------
Init ==
    /\ RingInit
    /\ total = 0
    /\ stored = Devices
    /\ groups \in [Groups -> Bodies \cup {NoGroup}]
    /\ unknown = [g \in Groups |-> {}]
    /\ call = [a \in Callers |-> Idle]
    /\ calls = 0 /\ edits = 0

Next ==
    \/ \E a \in Callers :
          \/ ActOnDevice(a) \/ ActOnBatch(a) \/ ActOnGroup(a)
          \/ \E d \in Devices : NotFound(a, d) \/ Send(a, d)
          \/ Record(a) \/ OnSchedule(a)
    \/ UpsertDevice \/ DeleteDevice \/ UpsertGroup \/ DeleteGroup

Spec == Init /\ [][Next]_vars

-----------------------------------------------------------------------------
Results == {"none", "ok", "failed", "gone"}

Calls == [pc : {"idle", "walk", "record", "refused"}, event : Events,
          of : Lists, left : Lists, now : Devices \cup {NoDevice},
          out : [Devices -> Results], ok : BOOLEAN, target : Devices \cup Groups \cup {NoDevice},
          told : BOOLEAN, began : Nat]

\* The type invariant; a call that has sent has a device in hand.
TypeOK ==
    /\ RingTypeOK
    /\ total \in Nat /\ calls \in 0 .. MaxCalls /\ edits \in 0 .. MaxEdits
    /\ stored \subseteq Devices
    /\ groups \in [Groups -> Lists \cup {NoGroup}]
    /\ unknown \in [Groups -> SUBSET Devices]
    /\ call \in [Callers -> Calls]
    /\ \A a \in Callers : call[a].pc = "record" => call[a].now \in Devices

\* The entries made since a call began, while the ring still has them all.
Since(a) == {List(0)[k] : k \in 1 .. total - call[a].began}
Kept(a) == total - call[a].began <= size

\* What a call answers is what the log tells, whoever else writes to it: every
\* device it answers "ok" or an error for has such an entry, made since the
\* call began, unless the device was not there; and a group or a schedule that
\* is reported done has an entry of success for each device it was to act on,
\* a device listed twice included (service.go:194-297, audit/log.go:42-56).
ReplyMatchesLog ==
    \A a \in Callers : Answered(a) /\ Done(a) /\ Kept(a) =>
        /\ \A d \in Devices :
              /\ call[a].out[d] = "ok" =>
                    Entry(call[a].event, d, TRUE) \in Since(a)
              /\ call[a].out[d] = "failed" =>
                    Entry(call[a].event, d, FALSE) \in Since(a)
        /\ Ok(a) => \A d \in Members(call[a].of) :
              Entry(call[a].event, d, TRUE) \in Since(a)
        /\ call[a].target # NoDevice =>
              Entry("schedule", call[a].target, Ok(a)) \in Since(a)

\* A deleted device leaves every group: a group names a device that is not
\* stored only if its last save did, from a page loaded before the deletion
\* (store.go:485-494).
GroupsForgetDeleted ==
    \A g \in Groups : groups[g] # NoGroup =>
        Members(groups[g]) \ stored \subseteq unknown[g]
=============================================================================
