----------------------------- MODULE ProbeRunner -----------------------------
(***************************************************************************)
(* The online probe (internal/probe/probe.go): a runner that goes through  *)
(* the devices on each tick, requests of the web interface that probe one  *)
(* at once, the cache both store their results in, and the notifications   *)
(* of changes (internal/device/service.go, internal/notify/notify.go).     *)
(*                                                                         *)
(* A probe reads the device, asks the host, stores what it heard and       *)
(* reports it if that was a change: four steps, with no lock over them.    *)
(*                                                                         *)
(* Time is kept as ages: of each result since CheckedAt, of each probe     *)
(* under way, and of the tick under way, which has read the clock when it  *)
(* began.  Ages above Cap are not told apart.                              *)
(***************************************************************************)
EXTENDS Integers, FiniteSets

CONSTANTS
    Devices,
    Callers,       \* requests that probe
    Runner,        \* the goroutine that ticks
    Intervals,     \* probe intervals, of 15 seconds and more (normalize)
    Period,        \* between two ticks
    MaxLag,        \* bound: how long a tick lasts
    Cap,           \* bound: ages are told apart up to here
    NoResult,      \* there is no result in the cache
    Gone,          \* the device was deleted
    MaxRequests,   \* bound: probes asked for
    MaxEdits,      \* bound: edits and deletions of devices
    MaxFlips       \* bound: hosts and agents that come and go

ASSUME IntervalAssumption ==
    /\ Intervals \subseteq Nat /\ Period \in Nat \ {0} /\ MaxLag \in Nat /\ Cap \in Nat
    /\ \A i \in Intervals : i + MaxLag <= Cap
ASSUME NameAssumption == Runner \notin Callers /\ IsFiniteSet(Callers)
ASSUME BoundAssumption == MaxRequests \in Nat /\ MaxEdits \in Nat /\ MaxFlips \in Nat

Probers == Callers \cup {Runner}

VARIABLES
    config,    \* the devices in the store
    up,        \* whether the host answers
    linked,    \* whether its agent is connected: its NICs are known
    cache,     \* StatusCache.byID
    probe,     \* the probe each prober has under way
    todo,      \* what the tick has still to go through, as ListDevices returned it
    lag,       \* the time since it read the clock
    phase,     \* the time since the last tick was due
    due,       \* a tick is waiting in the ticker's channel
    sent,      \* history: the last notification of each device
    net,       \* history: online less offline notifications
    crossed,   \* history: the last change was stored while another was
               \* still to be reported
    since,     \* history: the age of the runner's last probe of each device
    outdated,  \* history: the result in the cache is of a request older than that
    requests, edits, flips   \* what is left of the bounds

hostVars == <<up, linked>>
tickVars == <<todo, lag>>
timeVars == <<phase, due>>
news == <<sent, net, crossed>>
pace == <<since, outdated>>
bounds == <<requests, edits, flips>>
vars == <<config, hostVars, cache, probe, tickVars, timeVars, news, pace, bounds>>

\* What the probe reads of a device: whether a method is set, how often, and
\* whether ProbeHost is.
Config == [on : BOOLEAN, every : Intervals, host : BOOLEAN]
Result == [online : BOOLEAN, age : Nat]

ASSUME ValueAssumption == Gone \notin Config /\ NoResult \notin Result /\ NoResult \notin Devices

Older(n) == IF n < Cap THEN n + 1 ELSE n

Free == [pc |-> "free", dev |-> NoResult, target |-> FALSE, online |-> FALSE, age |-> 0]
Probe == [pc : {"free", "asking", "storing", "reporting"}, dev : Devices \cup {NoResult},
          target : BOOLEAN, online : BOOLEAN, age : Nat]

At(p, d, where) == probe[p].pc = where /\ probe[p].dev = d
Pending(d) == {p \in Probers : At(p, d, "reporting")}
ToCome(d, online) == {p \in Pending(d) : probe[p].online = online}

-----------------------------------------------------------------------------
(* A probe.                                                                *)

\* ResolveTarget: ProbeHost, or an address among the NICs of the bound client,
\* which are known while it is connected.  There is none with the method off.
Target(d, c) == c.on /\ (c.host \/ (linked[d] /\ config[d] # Gone))

\* Sensitivity variant of Begin: CheckedAt is when the tick read the clock.
BeginAtTick(p, d, c) ==
    probe' = [probe EXCEPT ![p] = [pc |-> "asking", dev |-> d, target |-> Target(d, c),
                                   online |-> FALSE, age |-> lag]]

Begin(p, d, c) ==
    probe' = [probe EXCEPT ![p] = [pc |-> "asking", dev |-> d, target |-> Target(d, c),
                                   online |-> FALSE, age |-> 0]]

\* The host answers, or there is none to ask.
Answer(p) ==
    /\ probe[p].pc = "asking"
    /\ probe' = [probe EXCEPT ![p].pc = "storing",
                              ![p].online = probe[p].target /\ up[probe[p].dev]]
    /\ UNCHANGED <<config, hostVars, cache, tickVars, timeVars, news, pace, bounds>>

\* Sensitivity variant of Differs: a first result is no news.
DiffersFromKnown(d, online) == cache[d] # NoResult /\ cache[d].online # online

\* A result is news if it is the first or differs from the one it replaces.
Differs(d, online) == cache[d] = NoResult \/ cache[d].online # online

\* Sensitivity variant of Store: every result is reported.
StoreReportingAll(p) ==
    /\ probe[p].pc = "storing"
    /\ LET d == probe[p].dev
       IN  /\ cache' = [cache EXCEPT ![d] = [online |-> probe[p].online, age |-> probe[p].age]]
           /\ probe' = [probe EXCEPT ![p].pc = "reporting"]
           /\ crossed' = [crossed EXCEPT ![d] = Pending(d) # {}]
           /\ outdated' = [outdated EXCEPT ![d] = p # Runner /\ probe[p].age > since[d]]
    /\ UNCHANGED <<config, hostVars, tickVars, timeVars, sent, net, since, bounds>>

\* Set, with what it replaced.
Store(p) ==
    /\ probe[p].pc = "storing"
    /\ LET d == probe[p].dev
           new == Differs(d, probe[p].online)
       IN  /\ cache' = [cache EXCEPT ![d] = [online |-> probe[p].online, age |-> probe[p].age]]
           /\ probe' = [probe EXCEPT ![p] = IF new THEN [@ EXCEPT !.pc = "reporting"] ELSE Free]
           /\ crossed' = [crossed EXCEPT ![d] = IF new THEN Pending(d) # {} ELSE @]
           /\ outdated' = [outdated EXCEPT ![d] = p # Runner /\ probe[p].age > since[d]]
    /\ UNCHANGED <<config, hostVars, tickVars, timeVars, sent, net, since, bounds>>

\* OnProbeChange: the webhook is called, if there is one and it is to hear of
\* probes.
Report(p) ==
    /\ probe[p].pc = "reporting"
    /\ sent' = [sent EXCEPT ![probe[p].dev] = {probe[p].online}]
    /\ net' = [net EXCEPT ![probe[p].dev] = IF probe[p].online THEN @ + 1 ELSE @ - 1]
    /\ probe' = [probe EXCEPT ![p] = Free]
    /\ UNCHANGED <<config, hostVars, cache, tickVars, timeVars, crossed, pace, bounds>>

-----------------------------------------------------------------------------
(* Who probes.                                                             *)

Ahead == {d \in Devices : todo[d] # Gone}
Busy == Ahead # {} \/ probe[Runner].pc # "free"
Done(d) == todo' = [todo EXCEPT ![d] = Gone]

\* tick: the clock and the devices are read.
Tick ==
    /\ due /\ ~Busy
    /\ due' = FALSE
    /\ todo' = config
    /\ lag' = 0
    /\ UNCHANGED <<config, hostVars, cache, probe, phase, news, pace, bounds>>

\* Sensitivity variant of Fresh: whatever was checked is.
FreshForever(d) == cache[d] # NoResult

\* Checked less than an interval before the tick.
Fresh(d) == cache[d] # NoResult /\ cache[d].age - lag < todo[d].every

Skip(d) ==
    /\ d \in Ahead /\ probe[Runner].pc = "free"
    /\ ~todo[d].on \/ Fresh(d)
    /\ Done(d)
    /\ UNCHANGED <<config, hostVars, cache, probe, lag, timeVars, news, pace, bounds>>

ProbeNext(d) ==
    /\ d \in Ahead /\ probe[Runner].pc = "free"
    /\ todo[d].on /\ ~Fresh(d)
    /\ Done(d)
    /\ Begin(Runner, d, todo[d])
    /\ since' = [since EXCEPT ![d] = 0]
    /\ outdated' = [outdated EXCEPT ![d] = FALSE]
    /\ UNCHANGED <<config, hostVars, cache, lag, timeVars, news, bounds>>

\* ProbeDevice, whatever the device's method.
ProbeDevice(p, d) ==
    /\ p \in Callers /\ probe[p].pc = "free"
    /\ config[d] # Gone
    /\ requests > 0
    /\ requests' = requests - 1
    /\ Begin(p, d, config[d])
    /\ UNCHANGED <<config, hostVars, cache, tickVars, timeVars, news, pace, edits, flips>>

-----------------------------------------------------------------------------
(* The environment.                                                        *)

\* Time passes; the ticker drops a tick that finds one waiting.
Pass ==
    /\ Busy => lag < MaxLag
    /\ lag' = IF Busy THEN lag + 1 ELSE 0
    /\ phase' = (phase + 1) % Period
    /\ due' = (due \/ phase' = 0)
    /\ cache' = [d \in Devices |-> IF cache[d] = NoResult THEN NoResult
                                   ELSE [cache[d] EXCEPT !.age = Older(@)]]
    /\ probe' = [p \in Probers |-> IF probe[p].pc = "free" THEN probe[p]
                                   ELSE [probe[p] EXCEPT !.age = Older(@)]]
    /\ since' = [d \in Devices |-> Older(since[d])]
    /\ UNCHANGED <<config, hostVars, todo, news, outdated, bounds>>

\* A device is edited or deleted.
Edit(d) ==
    /\ edits > 0 /\ edits' = edits - 1
    /\ config[d] # Gone
    /\ \E c \in Config \cup {Gone} : config' = [config EXCEPT ![d] = c]
    /\ UNCHANGED <<hostVars, cache, probe, tickVars, timeVars, news, pace, requests, flips>>

\* A host, or the agent on it, comes or goes.
Flip(d) ==
    /\ flips > 0 /\ flips' = flips - 1
    /\ \/ up' = [up EXCEPT ![d] = ~@] /\ UNCHANGED linked
       \/ linked' = [linked EXCEPT ![d] = ~@] /\ UNCHANGED up
    /\ UNCHANGED <<config, cache, probe, tickVars, timeVars, news, pace, requests, edits>>

Init ==
    /\ config \in [Devices -> Config]
    /\ up \in [Devices -> BOOLEAN] /\ linked = [d \in Devices |-> FALSE]
    /\ cache = [d \in Devices |-> NoResult]
    /\ probe = [p \in Probers |-> Free]
    /\ todo = [d \in Devices |-> Gone] /\ lag = 0
    /\ phase = 0 /\ due = TRUE
    /\ sent = [d \in Devices |-> NoResult] /\ net = [d \in Devices |-> 0]
    /\ crossed = [d \in Devices |-> FALSE]
    /\ since = [d \in Devices |-> Cap] /\ outdated = [d \in Devices |-> FALSE]
    /\ requests = MaxRequests /\ edits = MaxEdits /\ flips = MaxFlips

Probing(p) == Answer(p) \/ Store(p) \/ Report(p)
Ticking == Tick \/ \E d \in Devices : Skip(d) \/ ProbeNext(d)

Next ==
    \/ \E p \in Probers : Probing(p)
    \/ Ticking \/ Pass
    \/ \E d \in Devices : Edit(d) \/ Flip(d) \/ \E p \in Callers : ProbeDevice(p, d)

Spec == Init /\ [][Next]_vars

\* Time passes, the runner runs, and a probe ends: each has its timeout.
FairSpec ==
    /\ Spec
    /\ WF_vars(Pass) /\ WF_vars(Ticking) /\ \A p \in Probers : WF_vars(Probing(p))

-----------------------------------------------------------------------------
(* Properties.                                                             *)

TypeOK ==
    /\ config \in [Devices -> Config \cup {Gone}]
    /\ up \in [Devices -> BOOLEAN] /\ linked \in [Devices -> BOOLEAN]
    /\ cache \in [Devices -> Result \cup {NoResult}]
    /\ probe \in [Probers -> Probe]
    /\ todo \in [Devices -> Config \cup {Gone}]
    /\ lag \in 0 .. MaxLag
    /\ phase \in 0 .. Period - 1 /\ due \in BOOLEAN
    /\ sent \in [Devices -> {{TRUE}, {FALSE}, NoResult}] /\ net \in [Devices -> Int]
    /\ crossed \in [Devices -> BOOLEAN]
    /\ since \in [Devices -> Nat] /\ outdated \in [Devices -> BOOLEAN]
    /\ requests \in 0 .. MaxRequests /\ edits \in 0 .. MaxEdits /\ flips \in 0 .. MaxFlips

\* Once everything stored is reported, the last notification of a device says
\* what the cache says, unless the last change was stored while an earlier one
\* was still to be reported: storing and reporting are two steps (probe.go
\* 205-208, 223-226), and those two may arrive in either order.
NewsIsCurrent ==
    \A d \in Devices :
        Pending(d) = {} /\ cache[d] # NoResult /\ ~crossed[d] => sent[d] = {cache[d].online}

\* Even then no change is reported twice and none is left out: the notifications
\* sent and those to come alternate between online and offline, so who counts
\* them has what the cache has (Set returns what it replaced, probe.go 43-49).
ChangesAddUp ==
    \A d \in Devices :
        cache[d] # NoResult =>
            net[d] + Cardinality(ToCome(d, TRUE)) - Cardinality(ToCome(d, FALSE)) \in
                IF cache[d].online THEN {0, 1} ELSE {-1, 0}

\* The runner leaves an interval between two probes of a device (probe.go
\* 199-201), unless a request that began before the first stored its result after
\* it, which makes the device look older than it is.
Paced ==
    [][\A d \in Devices :
          ProbeNext(d) => since[d] >= todo[d].every \/ outdated[d]]_vars

\* Whether a probe would find the host.
Reachable(d) == up[d] /\ (config[d].host \/ linked[d])
Probed(d) == config[d] # Gone /\ config[d].on

\* A device that is probed is in the end shown as it is, whatever requests, edits
\* and outdated results there were (probe.go 168-210).
Follows ==
    \A d \in Devices, b \in BOOLEAN :
        <>[](Probed(d) /\ Reachable(d) = b) =>
            <>[](cache[d] # NoResult /\ cache[d].online = b)

=============================================================================
