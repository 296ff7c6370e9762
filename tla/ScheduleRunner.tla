--------------------------- MODULE ScheduleRunner ---------------------------
(***************************************************************************)
(* The schedules of the hub: the runner (internal/schedule/runner.go), the *)
(* part of the configuration it reads and marks (internal/config/store.go) *)
(* and the API that edits that part while the runner works.                *)
(*                                                                         *)
(* The runner looks at the clock every 20 seconds, takes a copy of the     *)
(* schedules and performs those that are due in this very minute, one      *)
(* after the other; after each it writes the day into the schedule.  There *)
(* is no lock around any of this: schedules are edited, deleted and        *)
(* re-created by the API between any two steps, performing may take        *)
(* minutes (a notification that nobody answers costs 8 s per device), the  *)
(* configuration may fail to be saved, and the server may stop anywhere.   *)
(*                                                                         *)
(* A schedule is what decides when it runs; what it does, and to which     *)
(* devices, is left out: performing is a step that begins and a step that  *)
(* ends.  Its outcome does not matter to the runner, which marks the       *)
(* schedule either way.                                                    *)
(***************************************************************************)
EXTENDS Integers

CONSTANTS
    Schedules,       \* schedule ids
    MinutesPerDay,   \* 1440 on a real clock
    WeekLength,      \* 7
    Bodies,          \* what the API stores: [on, at, days]
    LastDay,         \* bound: the day the clock stops at
    MaxEdits,        \* bound: API calls
    MaxFaults,       \* bound: stops of the server and failed saves
    MaxSetBacks,     \* bound: times the clock is set back
    None             \* no schedule

NoDay == -1          \* the empty lastRunDay
Days == 0 .. LastDay
Minutes == 0 .. (MinutesPerDay - 1)
Weekdays == 0 .. (WeekLength - 1)

Body == [on : BOOLEAN, at : Minutes, days : SUBSET Weekdays]
Stored == [on : BOOLEAN, at : Minutes, days : SUBSET Weekdays,
           last : Days \cup {NoDay}]

ASSUME ClockAssumption ==
    /\ MinutesPerDay \in Nat \ {0}
    /\ WeekLength \in Nat \ {0}
    /\ LastDay \in Nat
ASSUME BoundAssumption ==
    MaxEdits \in Nat /\ MaxFaults \in Nat /\ MaxSetBacks \in Nat
ASSUME BodyAssumption == Bodies \subseteq Body
ASSUME NoneAssumption == None \notin Stored \cup Schedules

VARIABLES
    mem,      \* the store's schedules, by id
    disk,     \* config.json
    up,       \* the server runs
    today, minute,   \* the wall clock, local time
    ticked,   \* the 20 s ticker has fired in this minute
    run,      \* the runner: what is left of its tick
    budget,   \* what is left of the bounds
    ran,      \* history: how often this entry ran on that day, in this life of
              \* the server and since a body gave it another day's mark
    ever,     \* history: the days a schedule of this id ran on, and those a
              \* body brought along as its lastRunDay
    edited    \* history: the schedules stored since the last tick

vars == <<mem, disk, up, today, minute, ticked, run, budget, ran, ever, edited>>

\* left: due schedules not performed yet; firing: the one being performed;
\* day: the day the tick began on.
Idle == [left |-> {}, firing |-> None, day |-> NoDay]
Busy == run # Idle

Never == [d \in Days |-> 0]

-----------------------------------------------------------------------------
\* Every call of the API and every fault is paid for.
Spend(what) ==
    /\ \A b \in what : budget[b] > 0
    /\ budget' = [b \in DOMAIN budget |->
                    IF b \in what THEN budget[b] - 1 ELSE budget[b]]

\* saveLocked: memory has changed already; the file follows, or does not and
\* the error is returned.
Save(cost) ==
    \/ disk' = mem' /\ Spend(cost)
    \/ disk' = disk /\ Spend(cost \cup {"faults"})

-----------------------------------------------------------------------------
\* The runner.

\* The conditions of tick, in its order.
Due(sc, day, at) ==
    /\ sc # None
    /\ sc.on
    /\ sc.last # day
    /\ sc.at = at
    /\ sc.days = {} \/ (day % WeekLength) \in sc.days

\* tick: the clock is read and the schedules are copied; whatever happens to
\* them from here on, those that are due now will be performed.
Walking(left, day) ==
    IF left = {} THEN Idle ELSE [left |-> left, firing |-> None, day |-> day]

\* Sensitivity variants of Tick: schedules marked before they are performed,
\* and only the first one due performed.
TickMarkingFirst ==
    /\ up /\ ~Busy
    /\ ticked' = TRUE /\ edited' = {}
    /\ run' = Walking({s \in Schedules : Due(mem[s], today, minute)}, today)
    /\ mem' = [s \in Schedules |-> IF Due(mem[s], today, minute)
                                   THEN [mem[s] EXCEPT !.last = today] ELSE mem[s]]
    /\ Save({})
    /\ UNCHANGED <<up, today, minute, ran, ever>>

TickFirstOnly ==
    /\ up /\ ~Busy
    /\ ticked' = TRUE /\ edited' = {}
    /\ LET due == {s \in Schedules : Due(mem[s], today, minute)}
       IN  run' = Walking(IF due = {} THEN {} ELSE {CHOOSE s \in due : TRUE}, today)
    /\ UNCHANGED <<mem, disk, up, today, minute, budget, ran, ever>>

Tick ==
    /\ up
    /\ ~Busy
    /\ ticked' = TRUE
    /\ edited' = {}
    /\ run' = Walking({s \in Schedules : Due(mem[s], today, minute)}, today)
    /\ UNCHANGED <<mem, disk, up, today, minute, budget, ran, ever>>

\* fire begins: the command goes out, to the device or the whole group.
Fire(s) ==
    /\ s \in run.left
    /\ run.firing = None
    /\ run' = [run EXCEPT !.left = @ \ {s}, !.firing = s]
    /\ ran' = [ran EXCEPT ![s][run.day] = @ + 1]
    /\ ever' = [ever EXCEPT ![s] = @ \cup {run.day}]
    /\ UNCHANGED <<mem, disk, up, today, minute, ticked, budget, edited>>

\* fire ends: MarkScheduleRun, whose error nobody looks at: the schedule may
\* be gone, the save may fail.
Mark ==
    /\ run.firing # None
    /\ LET s == run.firing
       IN  \/ /\ mem[s] # None
              /\ mem' = [mem EXCEPT ![s].last = run.day]
              /\ Save({})
           \/ mem[s] = None /\ UNCHANGED <<mem, disk, budget>>
    /\ run' = Walking(run.left, run.day)
    /\ UNCHANGED <<up, today, minute, ticked, ran, ever, edited>>

-----------------------------------------------------------------------------
\* The API.

\* How often the entry ran, once a body with lastRunDay l is stored over it: the
\* mark of one day says nothing of the others, which count from here on.
RanSince(s, l) ==
    IF mem[s] = None THEN Never
    ELSE IF l = NoDay THEN ran[s]
    ELSE [d \in Days |-> IF d = l THEN ran[s][d] ELSE 0]

\* What the store and the histories have of a body besides its mark.
Stores(s, b, l, last) ==
    /\ up
    /\ mem' = [mem EXCEPT ![s] =
                 [on |-> b.on, at |-> b.at, days |-> b.days, last |-> last]]
    /\ ran' = [ran EXCEPT ![s] = RanSince(s, l)]
    /\ ever' = [ever EXCEPT ![s] = @ \cup ({l} \ {NoDay})]
    /\ edited' = edited \cup {s}
    /\ Save({"edits"})
    /\ UNCHANGED <<up, today, minute, ticked, run>>

\* Sensitivity variant of Put: the stored lastRunDay is lost.
PutForgetting(s, b, l) == Stores(s, b, l, l)

\* POST and PUT: UpsertSchedule.  The body's lastRunDay l is stored as it is; a
\* body without one, as the dialog sends it, leaves an entry its own.  A client
\* that sends back what it got earlier brings an old mark along.  The id of a
\* PUT is not checked: a deleted schedule comes back as a new one under its old
\* id.
Put(s, b, l) ==
    Stores(s, b, l, IF mem[s] # None /\ l = NoDay THEN mem[s].last ELSE l)

\* DELETE: DeleteSchedule.
Delete(s) ==
    /\ up
    /\ mem[s] # None
    /\ mem' = [mem EXCEPT ![s] = None]
    /\ ran' = [ran EXCEPT ![s] = Never]
    /\ Save({"edits"})
    /\ UNCHANGED <<up, today, minute, ticked, run, ever, edited>>

-----------------------------------------------------------------------------
\* The clock and the process.

\* Time goes on.  The ticker samples every minute unless the runner is still
\* busy with an earlier tick or the server is down.
Advance ==
    /\ up /\ ~Busy => ticked
    /\ \/ minute + 1 < MinutesPerDay /\ minute' = minute + 1 /\ today' = today
       \/ minute + 1 = MinutesPerDay /\ today < LastDay
          /\ minute' = 0 /\ today' = today + 1
    /\ ticked' = FALSE
    /\ UNCHANGED <<mem, disk, up, run, budget, ran, ever, edited>>

\* The clock is set back within the day: the end of summer time, or NTP.
SetBack ==
    /\ Spend({"setbacks"})
    /\ \E m \in Minutes : m < minute /\ minute' = m
    /\ ticked' = FALSE
    /\ UNCHANGED <<mem, disk, up, today, run, ran, ever, edited>>

\* The server stops, anywhere; the next one starts from the file.
Stop ==
    /\ up
    /\ Spend({"faults"})
    /\ up' = FALSE
    /\ mem' = disk
    /\ run' = Idle
    /\ ticked' = FALSE
    /\ ran' = [s \in Schedules |-> Never]
    /\ edited' = {}
    /\ UNCHANGED <<disk, today, minute, ever>>

Start ==
    /\ ~up
    /\ up' = TRUE
    /\ UNCHANGED <<mem, disk, today, minute, ticked, run, budget, ran, ever, edited>>

-----------------------------------------------------------------------------
Init ==
    /\ mem \in [Schedules -> {None} \cup {[on |-> b.on, at |-> b.at, days |-> b.days,
                                           last |-> NoDay] : b \in Bodies}]
    /\ disk = mem
    /\ up = TRUE
    /\ today = 0 /\ minute = 0
    /\ ticked = FALSE
    /\ run = Idle
    /\ budget = [edits |-> MaxEdits, faults |-> MaxFaults, setbacks |-> MaxSetBacks]
    /\ ran = [s \in Schedules |-> Never]
    /\ ever = [s \in Schedules |-> {}]
    /\ edited = {}

Next ==
    \/ Tick
    \/ \E s \in Schedules : Fire(s)
    \/ Mark
    \/ \E s \in Schedules :
          \/ Delete(s)
          \/ \E b \in Bodies, l \in Days \cup {NoDay} : Put(s, b, l)
    \/ Advance
    \/ SetBack
    \/ Stop
    \/ Start

Spec == Init /\ [][Next]_vars

-----------------------------------------------------------------------------
\* Properties.

\* The type invariant of the schedules, the clock and the runner.
TypeOK ==
    /\ mem \in [Schedules -> Stored \cup {None}]
    /\ disk \in [Schedules -> Stored \cup {None}]
    /\ up \in BOOLEAN
    /\ today \in Days /\ minute \in Minutes
    /\ ticked \in BOOLEAN
    /\ run \in [left : SUBSET Schedules, firing : Schedules \cup {None},
                day : Days \cup {NoDay}]
    /\ ran \in [Schedules -> [Days -> Nat]]
    /\ ever \in [Schedules -> SUBSET Days]
    /\ edited \subseteq Schedules

\* As long as the server lives, a schedule runs at most once on a day, however
\* often its minute is looked at, whatever is edited meanwhile, and although
\* the mark is written after the deed and its save may fail; only a body that
\* brings the lastRunDay of another day makes it run once more (runner.go:62,
\* 97 against store.go:631).  Deleted and stored again it counts as another one.
OncePerLife == \A s \in Schedules, d \in Days : ran[s][d] <= 1

\* A day is skipped only if the schedule ran on it or the API said so: a mark,
\* in memory or in the file a restart reads, stands for a deed or was brought
\* along by a body for this very id (runner.go:97, store.go:631).
MarkedRan ==
    \A s \in Schedules :
        /\ mem[s] # None /\ mem[s].last # NoDay => mem[s].last \in ever[s]
        /\ disk[s] # None /\ disk[s].last # NoDay => disk[s].last \in ever[s]

\* When the runner has looked at a minute and is done, nothing that was due in
\* it is left, except what the API stored after it looked (runner.go:58-74).
NothingLeftBehind ==
    up /\ ~Busy /\ ticked =>
        \A s \in Schedules \ edited : ~Due(mem[s], today, minute)

\* A schedule due in a minute the server was up for is on its way when that
\* minute ends: it is run "by local time" (README.md:108).  The code drops it
\* when performing an earlier one takes past its minute (runner.go:65).
PassedMinuteIsServed ==
    [][up /\ Advance =>
         \A s \in Schedules \ edited :
             Due(mem[s], today, minute) => s \in run.left \/ s = run.firing]_vars

=============================================================================
