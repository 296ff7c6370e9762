---------------------------- MODULE DeviceService ----------------------------
(***************************************************************************)
(* The device service (internal/device/service.go) between the store and   *)
(* the MQTT manager: every request of the web API that creates, edits or   *)
(* deletes a device, or saves the settings, and the restart of the server. *)
(*                                                                         *)
(* The store and the manager each have a lock of their own and the service *)
(* has none, so a request is a sequence of steps between which the other   *)
(* requests run.  Admins are the requests under way at one time.           *)
(*                                                                         *)
(* A device is reduced to what the manager reads of it; that a save of the *)
(* store can fail is left to the modules about the store.                  *)
(***************************************************************************)
EXTENDS BemfaManager

CONSTANTS
    Admins,      \* requests that may be under way at once
    Bodies,      \* Ids -> set of Device: what is saved for each device
    Deletable,   \* the devices somebody deletes
    Adoptable,   \* the devices a client that is online is, or may become, bound to
    MaxCalls,    \* bound: requests
    MaxFaults,   \* bound: failing requests to the broker
    MaxRestarts  \* bound: restarts of the server

ASSUME DeviceAssumption ==
    None \notin Device /\ None \notin [Ids -> Device \cup {None}]
ASSUME BodiesAssumption == 
    Bodies \in [Ids -> SUBSET Device] /\ Deletable \subseteq Ids /\ Adoptable \subseteq Ids
ASSUME BoundAssumption ==
    MaxCalls \in Nat /\ MaxFaults \in Nat /\ MaxRestarts \in Nat

VARIABLES
    devices,    \* the store's devices, by id
    uid,        \* BemfaUID in the store's settings
    mgr,        \* the manager
    call,       \* the request each admin has under way
    used,       \* history: ids given out; random ids do not come twice
    failed,     \* history: devices whose last subscription attempt failed
    overlap,    \* history: since the manager was last brought in line, a request
                \* began while another was under way
    apart,      \* history: none did since the request under way began
    calls, restarts   \* what is left of the bounds

vars == <<devices, uid, mgr, call, used, failed, overlap, apart, calls, restarts>>

Idle == [op |-> "none", pc |-> "idle", id |-> None, old |-> None, dev |-> None,
         uid |-> NoUid, snap |-> None]

Call == [op : {"none", "create", "update", "delete", "settings"},
         pc : {"idle", "found", "remove", "upsert", "ensure", "save", "erase",
               "snapshot", "reconfigure"},
         id : Ids \cup {None}, old : Device \cup {None}, dev : Device \cup {None},
         uid : Uids \cup {NoUid}, snap : [Ids -> Device \cup {None}] \cup {None}]

Begin(a, c) ==
    /\ call[a] = Idle
    /\ calls > 0
    /\ calls' = calls - 1
    /\ call' = [call EXCEPT ![a] = c]
    /\ apart' = \A b \in Admins \ {a} : call[b] = Idle
    /\ overlap' = (overlap \/ ~apart')
    /\ UNCHANGED restarts

At(a, pc) == call[a].pc = pc /\ UNCHANGED <<overlap, apart, calls, restarts>>
Continue(a, pc) == call' = [call EXCEPT ![a].pc = pc]
Return(a) == call' = [call EXCEPT ![a] = Idle]

\* validateBemfa; Bodies holds only topics ValidateTopic accepts.
Valid(b) == b.on => uid # NoUid

\* Topics nobody has, for GenerateTopic.
Fresh ==
    {t \in Generated :
        /\ mgr.topics[t] = None /\ mgr.subs[t] = None
        /\ \A d \in Ids : devices[d] = None \/ devices[d].topic # t
        /\ \A a \in Admins : call[a].dev = None \/ call[a].dev.topic # t}

-----------------------------------------------------------------------------
\* Devices.

\* Create up to and with the first UpsertDevice, which gives out the id.
Create(a, d, b) ==
    /\ d \notin used
    /\ Valid(b)
    /\ Begin(a, [Idle EXCEPT !.op = "create", !.pc = "ensure", !.id = d, !.dev = b])
    /\ used' = used \cup {d}
    /\ devices' = [devices EXCEPT ![d] = b]
    /\ UNCHANGED <<uid, mgr, failed>>

\* Sensitivity variants of Update: the old topic stays subscribed; a device that
\* is not there is edited.
UpdateKeepingOld(a, d, b) ==
    /\ devices[d] # None /\ Valid(b)
    /\ Begin(a, [Idle EXCEPT !.op = "update", !.id = d, !.old = devices[d], !.dev = b,
                              !.pc = "upsert"])
    /\ UNCHANGED <<devices, uid, mgr, used, failed>>

UpdateUnchecked(a, d, b) ==
    /\ Valid(b)
    /\ Begin(a, [Idle EXCEPT !.op = "update", !.id = d, !.dev = b, !.pc = "upsert"])
    /\ UNCHANGED <<devices, uid, mgr, used, failed>>

\* Update reads the device it is about to overwrite, and if it had a topic that b
\* has not, or no longer uses, gives that up first.
First(old, b) ==
    IF old.topic # NoTopic /\ (old.topic # b.topic \/ ~b.on) THEN "remove" ELSE "upsert"

Update(a, d, b) ==
    /\ devices[d] # None
    /\ Valid(b)
    /\ Begin(a, [Idle EXCEPT !.op = "update", !.id = d, !.old = devices[d], !.dev = b,
                             !.pc = First(devices[d], b)])
    /\ UNCHANGED <<devices, uid, mgr, used, failed>>

\* FromClient finds the client's device in a list, to save it with another name
\* and MAC.  (When it finds none it creates one, without Bemfa: Create.)
FromClient(a, d) ==
    /\ devices[d] # None
    /\ Begin(a, [Idle EXCEPT !.op = "update", !.id = d, !.dev = devices[d], !.pc = "found"])
    /\ UNCHANGED <<devices, uid, mgr, used, failed>>

\* Its Update, with the device as it was in the list.
Adopt(a) ==
    /\ At(a, "found")
    /\ LET d == call[a].id IN
       IF devices[d] # None /\ Valid(call[a].dev)
       THEN call' = [call EXCEPT ![a].pc = First(devices[d], call[a].dev),
                                 ![a].old = devices[d]]
       ELSE Return(a)
    /\ UNCHANGED <<devices, uid, mgr, used, failed>>

Delete(a, d) ==
    /\ devices[d] # None
    /\ Begin(a, [Idle EXCEPT !.op = "delete", !.pc = "remove", !.id = d,
                             !.old = devices[d]])
    /\ UNCHANGED <<devices, uid, mgr, used, failed>>

\* RemoveDevice(old), in Update and in Delete.
Remove(a) ==
    /\ At(a, "remove")
    /\ mgr' \in RemoveDevice(mgr, call[a].old)
    /\ Continue(a, IF call[a].op = "delete" THEN "erase" ELSE "upsert")
    /\ UNCHANGED <<devices, uid, used, failed>>

\* UpsertDevice: a device deleted meanwhile is appended again.
Upsert(a) ==
    /\ At(a, "upsert")
    /\ devices' = [devices EXCEPT ![call[a].id] = call[a].dev]
    /\ Continue(a, "ensure")
    /\ UNCHANGED <<uid, mgr, used, failed>>

\* EnsureDevice.  When it fails Update returns, Create saves what it has.
Ensure(a) ==
    /\ At(a, "ensure")
    /\ \E r \in EnsureDevice(mgr, call[a].id, call[a].dev, Fresh) :
        /\ mgr' = r.m
        /\ failed' = IF r.ok THEN failed \ {call[a].id} ELSE failed \cup {call[a].id}
        /\ IF r.ok \/ call[a].op = "create"
           THEN call' = [call EXCEPT ![a].pc = "save", ![a].dev = r.dev]
           ELSE Return(a)
    /\ UNCHANGED <<devices, uid, used>>

\* The second UpsertDevice, with the topic EnsureDevice settled on.
SaveAgain(a) ==
    /\ At(a, "save")
    /\ devices' = [devices EXCEPT ![call[a].id] = call[a].dev]
    /\ Return(a)
    /\ UNCHANGED <<uid, mgr, used, failed>>

\* DeleteDevice; deleting what is gone already is an error and no change.
Erase(a) ==
    /\ At(a, "erase")
    /\ devices' = [devices EXCEPT ![call[a].id] = None]
    /\ Return(a)
    /\ UNCHANGED <<uid, mgr, used, failed>>

-----------------------------------------------------------------------------
\* Settings.

\* PUT /api/settings stores the settings ...
PutSettings(a, u) ==
    /\ Begin(a, [Idle EXCEPT !.op = "settings", !.pc = "snapshot"])
    /\ uid' = u
    /\ UNCHANGED <<devices, mgr, used, failed>>

\* ... and OnSettingsChanged takes a snapshot of the configuration ...
Snapshot(a) ==
    /\ At(a, "snapshot")
    /\ call' = [call EXCEPT ![a].pc = "reconfigure", ![a].uid = uid, ![a].snap = devices]
    /\ UNCHANGED <<devices, uid, mgr, used, failed>>

\* Devices a reconfiguration was asked to subscribe and did not.
Unserved(m, devs) ==
    {d \in Ids : /\ devs[d] # None /\ devs[d].on /\ devs[d].topic # NoTopic
                 /\ m.topics[devs[d].topic] = None}
Served(m) == {d \in Ids : \E t \in Topics : m.topics[t] = d}

\* ... which the manager is then brought in line with.  The snapshot is what is
\* stored, and what overlapped before is over, if no other request ran meanwhile.
Reconfigured(a) ==
    /\ call[a].pc = "reconfigure"
    /\ overlap' = (overlap /\ ~apart)
    /\ \E r \in Reconfigure(mgr, call[a].uid, call[a].snap) :
        /\ mgr' = r.m
        /\ failed' = (failed \ Served(r.m)) \cup Unserved(r.m, call[a].snap)
    /\ Return(a)
    /\ UNCHANGED <<devices, uid, used, apart, calls, restarts>>

\* The server stops, in the middle of whatever, and starts again: StartBemfa
\* runs before anything is served.
Restart ==
    /\ restarts > 0
    /\ restarts' = restarts - 1
    /\ \E r \in Reconfigure(NewManager(mgr.faults), uid, devices) :
        /\ mgr' = r.m
        /\ failed' = (failed \ Served(r.m)) \cup Unserved(r.m, devices)
    /\ call' = [a \in Admins |-> Idle]
    /\ overlap' = FALSE /\ apart' = TRUE
    /\ UNCHANGED <<devices, uid, used, calls>>

-----------------------------------------------------------------------------
\* A fresh installation: no account, no devices.
Init ==
    /\ devices = [d \in Ids |-> None]
    /\ uid = NoUid
    /\ mgr = NewManager(MaxFaults)
    /\ call = [a \in Admins |-> Idle]
    /\ used = {}
    /\ failed = {}
    /\ overlap = FALSE /\ apart = TRUE
    /\ calls = MaxCalls
    /\ restarts = MaxRestarts

Next ==
    \/ \E a \in Admins :
        \/ \E d \in Ids : \/ \E b \in Bodies[d] : Create(a, d, b) \/ Update(a, d, b)
                          \/ d \in Deletable /\ Delete(a, d)
                          \/ d \in Adoptable /\ FromClient(a, d)
        \/ Adopt(a) \/ Remove(a) \/ Upsert(a) \/ Ensure(a) \/ SaveAgain(a) \/ Erase(a)
        \/ \E u \in Uids \cup {NoUid} : PutSettings(a, u)
        \/ Snapshot(a) \/ Reconfigured(a)
    \/ Restart

Spec == Init /\ [][Next]_vars

-----------------------------------------------------------------------------
\* Properties.

\* No request is under way, and none ran into another since the server started or
\* since the settings were saved by a request that ran by itself, which repairs
\* what overlapping ones did (manager.go:317-335).
Settled == ~overlap /\ \A a \in Admins : call[a] = Idle

Enabled(d) == devices[d] # None /\ devices[d].on /\ devices[d].topic # NoTopic

TypeOK ==
    /\ devices \in [Ids -> Device \cup {None}]
    /\ uid \in Uids \cup {NoUid}
    /\ mgr \in Manager
    /\ used \subseteq Ids /\ failed \subseteq Ids
    /\ overlap \in BOOLEAN /\ apart \in BOOLEAN
    /\ call \in [Admins -> Call]
    /\ \A a \in Admins :
        /\ call[a].pc \notin {"idle", "snapshot", "reconfigure"} => call[a].id \in used
        /\ call[a].pc \in {"found", "upsert", "ensure", "save"} => call[a].dev # None
        /\ call[a].pc = "remove" => call[a].old # None
        /\ call[a].pc = "remove" /\ call[a].op # "delete" => call[a].dev # None
        /\ call[a].pc = "reconfigure" => call[a].snap # None
    /\ calls \in 0 .. MaxCalls /\ restarts \in 0 .. MaxRestarts

\* Between requests that do not overlap, the device a topic's commands power is
\* there, has Bemfa enabled, and has this topic: a device that was deleted,
\* disabled or moved to another topic is not powered by its old one
\* (service.go:167-168, 182-183), unless the broker refused to unsubscribe it,
\* which no one hears of (manager.go:295, 325).  Topics in their normal form
\* only: one stored as typed in after a failure is subscribed as it is
\* (manager.go:323), and the next edit subscribes the normal form without giving
\* that one up.
NoOrphan ==
    Settled => \A t \in Topics :
        Norm[t] = t /\ mgr.subs[t] # None /\ t \notin mgr.refused =>
            Enabled(mgr.subs[t]) /\ devices[mgr.subs[t]].topic = t

\* Between requests that do not overlap and while MQTT runs, a device with Bemfa enabled gets
\* the commands on its topic, unless its last subscription attempt failed or
\* another device has the same topic: it is subscribed when it is saved
\* (README.md:100) and stays so.
EnabledIsSubscribed ==
    Settled /\ mgr.up => \A d \in Ids \ failed :
        Enabled(d) /\ Wants(devices, devices[d].topic) = {d} =>
            mgr.subs[devices[d].topic] = d

\* A device that was deleted does not come back: unless requests overlap, an edit
\* of it is refused (service.go:155-158).
DeletedStaysDeleted ==
    [][~overlap' => \A d \in used : devices[d] = None => devices'[d] = None]_vars

\* What the manager takes for subscribed is subscribed, and its handler powers
\* the device the manager thinks it does (manager.go:307-315, 340-378).
MapIsBroker ==
    \A t \in Topics : mgr.topics[t] # None => mgr.up /\ mgr.subs[t] = mgr.topics[t]

=============================================================================
