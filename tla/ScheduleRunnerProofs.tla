------------------------ MODULE ScheduleRunnerProofs ------------------------
(***************************************************************************)
(* Theorems about ScheduleRunner, for any number of schedules, any length  *)
(* of day and week, and any number of edits and faults.                    *)
(*                                                                         *)
(* Each property has an inductive invariant of its own; all of them rest   *)
(* on TypeOK and, where time matters, on Dated: a busy runner works for a  *)
(* day that is not in the future.                                          *)
(***************************************************************************)
EXTENDS ScheduleRunner, TLAPS

\* A busy runner works for today or for an earlier day.
Dated == run # Idle => run.day \in Days /\ run.day <= today

\* What keeps a schedule from running twice: it is marked with the latest day
\* it ran on, unless it is only just running or the mark was replaced since.
OnceFor(s) ==
    /\ \A d \in Days :
          /\ ran[s][d] <= 1
          /\ ran[s][d] > 0 => d <= today
          /\ ran[s][d] > 0 /\ run # Idle => d <= run.day
    /\ s \in run.left => ran[s][run.day] = 0
    /\ ran[s][today] > 0 /\ mem[s] # None =>
          \/ mem[s].last = today
          \/ run.firing = s /\ run.day = today

OnceInv == \A s \in Schedules : OnceFor(s)

\* What makes every mark true: the runner only marks what it performed, and the
\* days a body brings along are remembered for its id.
MarkedInv ==
    /\ MarkedRan
    /\ run.firing # None => run.day \in ever[run.firing]

\* What is due in a minute the runner looked at is still on its list.
OnItsWayInv ==
    /\ ticked /\ run # Idle => run.day = today
    /\ ticked => \A s \in Schedules \ edited :
           Due(mem[s], today, minute) => s \in run.left \/ s = run.firing


-----------------------------------------------------------------------------
USE ClockAssumption DEF Days, Minutes, NoDay

LEMMA WalkingFacts ==
    ASSUME NEW L, NEW d
    PROVE  /\ Walking(L, d).left = L
           /\ Walking(L, d).firing = None
           /\ Walking(L, d) # Idle => Walking(L, d).day = d /\ L # {}
           /\ Walking(L, d) = Idle \/ Walking(L, d) = [left |-> L, firing |-> None, day |-> d]
BY DEF Walking, Idle

\* A new body becomes a stored schedule.
LEMMA PutTyped ==
    ASSUME NEW b \in Bodies, NEW l \in Days \cup {NoDay}
    PROVE  [on |-> b.on, at |-> b.at, days |-> b.days, last |-> l] \in Stored
BY BodyAssumption DEF Body, Stored

LEMMA CountUp ==
    ASSUME NEW S, NEW f \in [S -> Nat], NEW d \in S
    PROVE  [f EXCEPT ![d] = @ + 1] \in [S -> Nat]
OBVIOUS

TypeInv == TypeOK /\ Dated

LEMMA TypeInit == Init => TypeInv
<1> SUFFICES ASSUME Init PROVE TypeInv
  OBVIOUS
<1>1. mem \in [Schedules -> Stored \cup {None}]
  BY PutTyped DEF Init
<1>2. 0 \in Days /\ 0 \in Minutes
  BY ClockAssumption
<1>3. run \in [left : SUBSET Schedules, firing : Schedules \cup {None},
               day : Days \cup {NoDay}]
  BY DEF Init, Idle
<1>. QED BY <1>1, <1>2, <1>3 DEF Init, TypeInv, TypeOK, Dated, Never

LEMMA TypeStep == TypeInv /\ [Next]_vars => TypeInv'
<1> SUFFICES ASSUME TypeInv, [Next]_vars PROVE TypeInv'
  OBVIOUS
<1>. USE DEF TypeInv
<1>1. CASE Tick
  <2>1. run' = Idle \/ run' = [left |-> {s \in Schedules : Due(mem[s], today, minute)},
                               firing |-> None, day |-> today]
    BY <1>1, WalkingFacts DEF Tick
  <2>2. run' \in [left : SUBSET Schedules, firing : Schedules \cup {None},
                  day : Days \cup {NoDay}]
    BY <2>1 DEF Idle, TypeOK
  <2>3. Dated'
    BY <2>1, <1>1 DEF Dated, Tick, TypeOK
  <2>. QED BY <2>2, <2>3, <1>1 DEF Tick, TypeOK
<1>2. ASSUME NEW s \in Schedules, Fire(s) PROVE TypeInv'
  <2>1. run # Idle
    BY <1>2 DEF Fire, Idle
  <2>2. run.day \in Days /\ run.day <= today
    BY <2>1 DEF Dated
  <2>3. run' \in [left : SUBSET Schedules, firing : Schedules \cup {None},
                  day : Days \cup {NoDay}] /\ run'.day = run.day
    BY <1>2 DEF Fire, TypeOK
  <2>4. ran' \in [Schedules -> [Days -> Nat]]
    <3>1. ran[s] \in [Days -> Nat]
      BY DEF TypeOK
    <3>2. ran[s][run.day] + 1 \in Nat
      BY <3>1, <2>2
    <3>3. [ran[s] EXCEPT ![run.day] = @ + 1] \in [Days -> Nat]
      BY <3>1, <2>2, CountUp
    <3>. QED BY <3>3, <1>2 DEF Fire, TypeOK
  <2>5. ever' \in [Schedules -> SUBSET Days]
    BY <1>2, <2>2 DEF Fire, TypeOK
  <2>6. Dated'
    BY <1>2, <2>2, <2>3 DEF Dated, Fire
  <2>. QED BY <2>3, <2>4, <2>5, <2>6, <1>2 DEF Fire, TypeOK
<1>3. CASE Mark
  <2>1. run # Idle
    BY <1>3 DEF Mark, Idle
  <2>2. run.day \in Days /\ run.day <= today
    BY <2>1 DEF Dated
  <2>3. run' = Idle \/ run' = [left |-> run.left, firing |-> None, day |-> run.day]
    BY <1>3, WalkingFacts DEF Mark
  <2>4. run' \in [left : SUBSET Schedules, firing : Schedules \cup {None},
                  day : Days \cup {NoDay}]
    BY <2>3 DEF Idle, TypeOK
  <2>5. Dated'
    BY <2>2, <2>3, <1>3 DEF Dated, Mark
  <2>6. mem' \in [Schedules -> Stored \cup {None}]
    <3>1. CASE mem' = mem
      BY <3>1 DEF TypeOK
    <3>2. CASE /\ mem[run.firing] # None
               /\ mem' = [mem EXCEPT ![run.firing].last = run.day]
      <4>1. run.firing \in Schedules
        BY <1>3 DEF Mark, TypeOK
      <4>2. mem[run.firing] \in Stored
        BY <4>1, <3>2 DEF TypeOK
      <4>3. [mem[run.firing] EXCEPT !.last = run.day] \in Stored
        BY <4>2, <2>2 DEF Stored
      <4>. QED BY <3>2, <4>1, <4>3 DEF TypeOK
    <3>. QED BY <3>1, <3>2, <1>3 DEF Mark
  <2>7. disk' \in [Schedules -> Stored \cup {None}]
    BY <2>6, <1>3 DEF Mark, Save, TypeOK
  <2>. QED BY <2>4, <2>5, <2>6, <2>7, <1>3 DEF Mark, TypeOK
<1>4. ASSUME NEW s \in Schedules, Delete(s) PROVE TypeInv'
  <2>1. mem' \in [Schedules -> Stored \cup {None}]
    BY <1>4 DEF Delete, TypeOK
  <2>2. disk' \in [Schedules -> Stored \cup {None}]
    BY <2>1, <1>4 DEF Delete, Save, TypeOK
  <2>3. ran' \in [Schedules -> [Days -> Nat]]
    BY <1>4 DEF Delete, TypeOK, Never
  <2>. QED BY <2>1, <2>2, <2>3, <1>4 DEF Delete, TypeOK, Dated
<1>5. ASSUME NEW s \in Schedules, NEW b \in Bodies, NEW l \in Days \cup {NoDay}, Put(s, b, l)
      PROVE  TypeInv'
  <2> DEFINE m == IF mem[s] # None /\ l = NoDay THEN mem[s].last ELSE l
  <2>1. m \in Days \cup {NoDay}
    BY DEF TypeOK, Stored
  <2>2. mem' \in [Schedules -> Stored \cup {None}]
    <3>1. [on |-> b.on, at |-> b.at, days |-> b.days, last |-> m] \in Stored
      BY <2>1, PutTyped
    <3>2. mem' = [mem EXCEPT ![s] =
                    [on |-> b.on, at |-> b.at, days |-> b.days, last |-> m]]
      BY <1>5 DEF Put, Stores
    <3>. HIDE DEF m
    <3>. QED BY <3>1, <3>2 DEF TypeOK
  <2>3. disk' \in [Schedules -> Stored \cup {None}]
    BY <2>2, <1>5 DEF Put, Stores, Save, TypeOK
  <2>4. ran' \in [Schedules -> [Days -> Nat]]
    <3>1. RanSince(s, l) \in [Days -> Nat]
      BY DEF RanSince, Never, TypeOK
    <3>. QED BY <3>1, <1>5 DEF Put, Stores, TypeOK
  <2>5. ever' \in [Schedules -> SUBSET Days]
    BY <1>5 DEF Put, Stores, TypeOK
  <2>. QED BY <2>2, <2>3, <2>4, <2>5, <1>5 DEF Put, Stores, TypeOK, Dated
<1>6. CASE Advance
  <2>1. /\ today' \in Days /\ minute' \in Minutes /\ today <= today'
    BY <1>6, ClockAssumption DEF Advance, TypeOK
  <2>2. Dated'
    BY <2>1, <1>6 DEF Advance, Dated, TypeOK
  <2>. QED BY <2>1, <2>2, <1>6 DEF Advance, TypeOK
<1>7. CASE SetBack
  BY <1>7 DEF SetBack, TypeOK, Dated
<1>8. CASE Stop
  <2>1. run' \in [left : SUBSET Schedules, firing : Schedules \cup {None},
                  day : Days \cup {NoDay}]
    BY <1>8 DEF Stop, Idle
  <2>. QED BY <2>1, <1>8 DEF Stop, TypeOK, Dated, Never
<1>9. CASE Start
  BY <1>9 DEF Start, TypeOK, Dated
<1>10. CASE UNCHANGED vars
  BY <1>10 DEF vars, TypeOK, Dated
<1>. QED BY <1>1, <1>2, <1>3, <1>4, <1>5, <1>6, <1>7, <1>8, <1>9, <1>10 DEF Next

\* Types hold in every reachable state.
THEOREM TypeCorrect == Spec => []TypeOK
<1>1. TypeInv => TypeOK
  BY DEF TypeInv
<1>. QED BY <1>1, TypeInit, TypeStep, PTL DEF Spec

LEMMA TypeInvariant == Spec => []TypeInv
BY TypeInit, TypeStep, PTL DEF Spec


-----------------------------------------------------------------------------
\* OncePerLife.

LEMMA OnceInit == Init => OnceInv
<1> SUFFICES ASSUME Init, NEW s \in Schedules PROVE OnceFor(s)
  BY DEF OnceInv
<1>1. /\ \A d \in Days : ran[s][d] = 0
      /\ today = 0 /\ run.left = {}
  BY DEF Init, Never, Idle
<1>. QED BY <1>1 DEF OnceFor

LEMMA OnceStep == TypeInv /\ TypeInv' /\ OnceInv /\ [Next]_vars => OnceInv'
<1> SUFFICES ASSUME TypeInv, TypeInv', OnceInv, [Next]_vars,
                    NEW t \in Schedules
             PROVE  OnceFor(t)'
  BY DEF OnceInv
<1>. USE DEF OnceFor
<1>a. /\ today \in Days /\ today' \in Days
      /\ ran[t] \in [Days -> Nat] /\ ran'[t] \in [Days -> Nat]
      /\ run # Idle => run.day \in Days /\ run.day <= today
      /\ run' # Idle => run'.day \in Days /\ run'.day <= today'
  BY DEF TypeInv, TypeOK, Dated
<1>b. /\ \A d \in Days : /\ ran[t][d] <= 1
                         /\ ran[t][d] > 0 => d <= today
                         /\ ran[t][d] > 0 /\ run # Idle => d <= run.day
      /\ t \in run.left => ran[t][run.day] = 0
      /\ ran[t][today] > 0 /\ mem[t] # None =>
            \/ mem[t].last = today
            \/ run.firing = t /\ run.day = today
  BY DEF OnceInv
<1>1. CASE Tick
  <2>1. /\ ran' = ran /\ mem' = mem /\ today' = today
        /\ run = Idle /\ run.firing = None /\ None # t
    BY <1>1, NoneAssumption DEF Tick, Busy, Idle
  <2>2. /\ t \in run'.left => Due(mem[t], today, minute)
        /\ run' # Idle => run'.day = today
    BY <1>1, WalkingFacts DEF Tick
  <2>3. t \in run'.left => run' # Idle
    BY DEF Idle
  <2>4. t \in run'.left => ran[t][today] = 0
    <3>1. Due(mem[t], today, minute) => mem[t] # None /\ mem[t].last # today
      BY DEF Due
    <3>2. ran[t][today] \in Nat
      BY <1>a
    <3>. QED BY <2>1, <2>2, <3>1, <3>2, <1>b
  <2>5. \A d \in Days : ran[t][d] > 0 /\ run' # Idle => d <= run'.day
    BY <2>2, <1>b
  <2>. QED BY <2>1, <2>2, <2>3, <2>4, <2>5, <1>b
<1>2. ASSUME NEW s \in Schedules, Fire(s)
      PROVE  OnceFor(t)'
  <2>1. /\ mem' = mem /\ today' = today /\ run # Idle /\ s \in run.left
        /\ run.firing = None /\ None # t
    BY <1>2, NoneAssumption DEF Fire, Idle
  <2>2. /\ run'.left = run.left \ {s} /\ run'.firing = s /\ run'.day = run.day
    BY <1>2 DEF Fire, TypeInv, TypeOK
  <2>3. ran' = [ran EXCEPT ![s][run.day] = @ + 1] /\ ran \in [Schedules -> [Days -> Nat]]
    BY <1>2 DEF Fire, TypeInv, TypeOK
  <2>4. run.day \in Days /\ run.day <= today
    BY <2>1, <1>a
  <2>5. CASE s = t
    <3>1. \A d \in Days : ran'[t][d] = IF d = run.day THEN ran[t][d] + 1 ELSE ran[t][d]
      BY <2>3, <2>5
    <3>2. ran[t][run.day] = 0
      BY <2>1, <2>5, <1>b
    <3>3. t \notin run'.left
      BY <2>2, <2>5
    <3>4. \A d \in Days : /\ ran'[t][d] <= 1
                          /\ ran'[t][d] > 0 => d <= today'
                          /\ ran'[t][d] > 0 => d <= run'.day
      <4> SUFFICES ASSUME NEW d \in Days
                   PROVE  /\ ran'[t][d] <= 1
                          /\ ran'[t][d] > 0 => d <= today /\ d <= run.day
        BY <2>1, <2>2
      <4>1. CASE d = run.day
        <5>1. ran'[t][d] = 1
          BY <4>1, <3>1, <3>2
        <5>. QED BY <5>1, <4>1, <2>4
      <4>2. CASE d # run.day
        <5>1. ran'[t][d] = ran[t][d]
          BY <4>2, <3>1
        <5>. QED BY <5>1, <2>1, <1>b
      <4>. QED BY <4>1, <4>2
    <3>5. ran'[t][today'] > 0 /\ mem'[t] # None =>
             \/ mem'[t].last = today'
             \/ run'.firing = t /\ run'.day = today'
      <4>1. CASE run.day = today
        BY <4>1, <2>1, <2>2, <2>5
      <4>2. CASE run.day # today
        BY <4>2, <3>1, <2>1, <1>a, <1>b
      <4>. QED BY <4>1, <4>2
    <3>. QED BY <3>3, <3>4, <3>5
  <2>6. CASE s # t
    <3>1. ran'[t] = ran[t]
      BY <2>3, <2>6
    <3>. QED BY <3>1, <2>1, <2>2, <1>b
  <2>. QED BY <2>5, <2>6
<1>3. CASE Mark
  <2>1. /\ ran' = ran /\ today' = today /\ run # Idle
        /\ run.firing \in Schedules
    BY <1>3 DEF Mark, Idle, TypeInv, TypeOK
  <2>2. /\ run'.left = run.left /\ run'.firing = None
        /\ run' # Idle => run'.day = run.day
    BY <1>3, WalkingFacts DEF Mark
  <2>3. t \in run'.left => run' # Idle
    BY DEF Idle
  <2>4. ran[t][today] > 0 /\ mem'[t] # None => mem'[t].last = today
    <3> SUFFICES ASSUME ran[t][today] > 0, mem'[t] # None PROVE mem'[t].last = today
      OBVIOUS
    <3>1. run.day = today
      BY <2>1, <1>a, <1>b
    <3>2. CASE run.firing = t
      <4>1. mem[t] # None /\ mem' = [mem EXCEPT ![t].last = run.day]
        BY <3>2, <1>3 DEF Mark
      <4>2. mem[t] \in Stored /\ t \in DOMAIN mem
        BY <4>1 DEF TypeInv, TypeOK
      <4>3. [mem[t] EXCEPT !.last = run.day].last = run.day
        BY <4>2 DEF Stored
      <4>. QED BY <3>1, <4>1, <4>2, <4>3
    <3>3. CASE run.firing # t
      <4>1. mem'[t] = mem[t]
        BY <3>3, <1>3 DEF Mark, TypeInv, TypeOK
      <4>. QED BY <3>3, <4>1, <1>b
    <3>. QED BY <3>2, <3>3
  <2>. QED BY <2>1, <2>2, <2>3, <2>4, <1>a, <1>b
<1>4. ASSUME NEW s \in Schedules,
             \/ Delete(s)
             \/ \E b \in Bodies, l \in Days \cup {NoDay} : Put(s, b, l)
      PROVE  OnceFor(t)'
  <2>1. /\ today' = today /\ run' = run
    BY <1>4 DEF Delete, Put, Stores
  <2>. DEFINE Restarted(l) == /\ l \in Days
                              /\ ran'[t] = [d \in Days |-> IF d = l THEN ran[t][d] ELSE 0]
                              /\ mem'[t].last = l
  <2>2. \/ ran'[t] = Never
        \/ ran'[t] = ran[t] /\ (mem'[t] = mem[t] \/ mem'[t] = None)
        \/ ran'[t] = ran[t] /\ mem[t] # None /\ mem'[t].last = mem[t].last
        \/ \E l \in Days : Restarted(l)
    <3>1. CASE Delete(s)
      BY <3>1 DEF Delete, TypeInv, TypeOK
    <3>2. ASSUME NEW b \in Bodies, NEW l \in Days \cup {NoDay}, Put(s, b, l)
          PROVE  \/ ran'[t] = Never
                 \/ ran'[t] = ran[t] /\ mem'[t] = mem[t]
                 \/ ran'[t] = ran[t] /\ mem[t] # None /\ mem'[t].last = mem[t].last
                 \/ Restarted(l)
      <4>. USE DEF Put, Stores, RanSince, TypeInv, TypeOK
      <4>1. CASE s # t
        BY <4>1, <3>2
      <4>2. CASE s = t /\ mem[t] = None
        BY <4>2, <3>2
      <4>3. CASE s = t /\ mem[t] # None /\ l = NoDay
        BY <4>3, <3>2
      <4>4. CASE s = t /\ mem[t] # None /\ l # NoDay
        BY <4>4, <3>2
      <4>. QED BY <4>1, <4>2, <4>3, <4>4
    <3>. QED BY <3>1, <3>2, <1>4
  <2>3. t \in run.left => run.day \in Days
    BY <1>a DEF Idle
  <2>4. CASE ran'[t] = Never
    BY <2>4, <2>1, <2>3, <1>a DEF Never
  <2>5. CASE ran'[t] = ran[t] /\ (mem'[t] = mem[t] \/ mem'[t] = None)
    BY <2>5, <2>1, <1>b
  <2>6. CASE ran'[t] = ran[t] /\ mem[t] # None /\ mem'[t].last = mem[t].last
    BY <2>6, <2>1, <1>b
  <2>7. ASSUME NEW l \in Days, Restarted(l) PROVE OnceFor(t)'
    <3>1. \A d \in Days : ran'[t][d] = 0 \/ ran'[t][d] = ran[t][d]
      BY <2>7
    <3>2. ran'[t][today] > 0 => mem'[t].last = today
      BY <2>7, <1>a
    <3>. HIDE DEF Restarted
    <3>3. \A d \in Days : /\ ran'[t][d] <= 1
                          /\ ran'[t][d] > 0 => d <= today'
                          /\ ran'[t][d] > 0 /\ run' # Idle => d <= run'.day
      <4> SUFFICES ASSUME NEW d \in Days
                   PROVE  /\ ran'[t][d] <= 1
                          /\ ran'[t][d] > 0 => d <= today
                          /\ ran'[t][d] > 0 /\ run # Idle => d <= run.day
        BY <2>1
      <4>. QED BY <3>1, <1>b
    <3>4. t \in run'.left => ran'[t][run'.day] = 0
      BY <3>1, <2>1, <2>3, <1>b
    <3>. QED BY <3>2, <3>3, <3>4, <2>1
  <2>. QED BY <2>2, <2>4, <2>5, <2>6, <2>7
<1>5. CASE Advance
  <2>1. ran' = ran /\ mem' = mem /\ run' = run
    BY <1>5 DEF Advance
  <2>2. today' = today \/ today' = today + 1
    BY <1>5 DEF Advance
  <2>3. CASE today' = today
    BY <2>1, <2>3, <1>b
  <2>4. CASE today' = today + 1
    <3>1. ~(ran[t][today'] > 0)
      BY <2>4, <1>a, <1>b
    <3>2. \A d \in Days : ran[t][d] > 0 => d <= today'
      BY <2>4, <1>a, <1>b
    <3>. QED BY <2>1, <3>1, <3>2, <1>b
  <2>. QED BY <2>2, <2>3, <2>4
<1>6. CASE SetBack
  <2>1. ran' = ran /\ mem' = mem /\ run' = run /\ today' = today
    BY <1>6 DEF SetBack
  <2>. QED BY <2>1, <1>b
<1>7. CASE Stop
  <2>1. ran'[t] = Never /\ run' = Idle /\ today' = today
    BY <1>7 DEF Stop
  <2>2. t \notin run'.left
    BY <2>1 DEF Idle
  <2>. QED BY <2>1, <2>2, <1>a DEF Never
<1>8. CASE Start
  <2>1. ran' = ran /\ mem' = mem /\ run' = run /\ today' = today
    BY <1>8 DEF Start
  <2>. QED BY <2>1, <1>b
<1>9. CASE UNCHANGED vars
  <2>1. ran' = ran /\ mem' = mem /\ run' = run /\ today' = today
    BY <1>9 DEF vars
  <2>. QED BY <2>1, <1>b
<1>. QED BY <1>1, <1>2, <1>3, <1>4, <1>5, <1>6, <1>7, <1>8, <1>9 DEF Next

\* No schedule runs twice on a day while the server lives: neither a minute
\* looked at three times, nor a clock set back, nor a failed save, nor an edit
\* makes the runner repeat it, unless the edit brings along the lastRunDay of
\* another day (runner.go:62, 97; store.go:631).
THEOREM OnceADay == Spec => []OncePerLife
<1>1. TypeInv /\ OnceInv => OncePerLife
  BY DEF OnceInv, OnceFor, OncePerLife
<1>2. Spec => []OnceInv
  BY OnceInit, OnceStep, TypeInvariant, PTL DEF Spec
<1>. QED BY <1>1, <1>2, TypeInvariant, PTL

-----------------------------------------------------------------------------
\* MarkedRan.

TrueMarks(m, e) ==
    \A s \in Schedules : m[s] # None /\ m[s].last # NoDay => m[s].last \in e[s]

LEMMA MarkedInit == Init => MarkedInv
<1> SUFFICES ASSUME Init PROVE MarkedInv
  OBVIOUS
<1>1. \A s \in Schedules : mem[s] # None => mem[s].last = NoDay
  BY DEF Init
<1>2. disk = mem /\ run.firing = None
  BY DEF Init, Idle
<1>. QED BY <1>1, <1>2 DEF MarkedInv, MarkedRan

LEMMA MarkedStep == TypeInv /\ TypeInv' /\ MarkedInv /\ [Next]_vars => MarkedInv'
<1> SUFFICES ASSUME TypeInv, TypeInv', MarkedInv, [Next]_vars PROVE MarkedInv'
  OBVIOUS
<1>a. TrueMarks(mem, ever) /\ TrueMarks(disk, ever)
  BY DEF MarkedInv, MarkedRan, TrueMarks
<1>b. run.firing # None => run.firing \in Schedules /\ run.day \in ever[run.firing]
  BY DEF MarkedInv, TypeInv, TypeOK
<1>c. /\ mem \in [Schedules -> Stored \cup {None}] /\ None \notin Stored
      /\ ever \in [Schedules -> SUBSET Days]
  BY NoneAssumption DEF TypeInv, TypeOK
\* The invariant again, from what it says of memory, of the file and of the runner.
<1>d. ASSUME TrueMarks(mem', ever'), TrueMarks(disk', ever'),
             run'.firing # None => run'.day \in ever'[run'.firing]
      PROVE  MarkedInv'
  BY <1>d DEF MarkedInv, MarkedRan, TrueMarks
<1>1. CASE Tick
  BY <1>1, <1>a, <1>d, WalkingFacts DEF Tick
<1>2. ASSUME NEW s \in Schedules, Fire(s) PROVE MarkedInv'
  <2>1. ever' = [ever EXCEPT ![s] = @ \cup {run.day}] /\ mem' = mem /\ disk' = disk
    BY <1>2 DEF Fire
  <2>2. \A t \in Schedules : ever[t] \subseteq ever'[t]
    BY <2>1, <1>c
  <2>3. TrueMarks(mem', ever') /\ TrueMarks(disk', ever')
    BY <2>1, <2>2, <1>a DEF TrueMarks
  <2>4. run'.firing = s /\ run'.day = run.day
    BY <1>2 DEF Fire, TypeInv, TypeOK
  <2>5. run'.day \in ever'[s]
    BY <2>1, <2>4, <1>c
  <2>. QED BY <2>3, <2>4, <2>5, <1>d
<1>3. CASE Mark
  <2>1. ever' = ever /\ run'.firing = None
    BY <1>3, WalkingFacts DEF Mark
  <2>2. TrueMarks(mem', ever')
    <3>1. CASE mem' = mem
      BY <3>1, <2>1, <1>a
    <3>2. CASE mem[run.firing] # None /\ mem' = [mem EXCEPT ![run.firing].last = run.day]
      <4>1. run.firing \in Schedules /\ run.day \in ever[run.firing]
        BY <1>3, <1>b DEF Mark
      <4>2. mem[run.firing] \in Stored
        BY <3>2, <4>1, <1>c
      <4>3. [mem[run.firing] EXCEPT !.last = run.day].last = run.day
        BY <4>2 DEF Stored
      <4>4. mem'[run.firing].last = run.day
        BY <3>2, <4>1, <4>3, <1>c
      <4>5. \A t \in Schedules : t # run.firing => mem'[t] = mem[t]
        BY <3>2, <1>c
      <4>. QED BY <2>1, <4>1, <4>4, <4>5, <1>a DEF TrueMarks
    <3>. QED BY <3>1, <3>2, <1>3 DEF Mark
  <2>3. TrueMarks(disk', ever')
    <3>1. disk' = disk \/ disk' = mem'
      BY <1>3 DEF Mark, Save
    <3>. QED BY <3>1, <2>1, <2>2, <1>a
  <2>. QED BY <2>1, <2>2, <2>3, <1>d
<1>4. ASSUME NEW s \in Schedules,
             \/ Delete(s)
             \/ \E b \in Bodies, l \in Days \cup {NoDay} : Put(s, b, l)
      PROVE  MarkedInv'
  <2>. USE DEF Put, Stores
  <2>1. /\ run' = run
        /\ disk' = disk \/ disk' = mem'
    BY <1>4 DEF Delete, Save
  <2>2. \A t \in Schedules : t # s => mem'[t] = mem[t]
    BY <1>4, <1>c DEF Delete
  <2>e. \A t \in Schedules : ever[t] \subseteq ever'[t]
    BY <1>4, <1>c DEF Delete
  <2>3. mem'[s] # None => \/ mem'[s].last = NoDay
                          \/ mem'[s].last \in ever'[s]
                          \/ mem[s] # None /\ mem'[s].last = mem[s].last
    <3>1. CASE Delete(s)
      BY <3>1, <1>c DEF Delete
    <3>2. ASSUME NEW b \in Bodies, NEW l \in Days \cup {NoDay}, Put(s, b, l)
          PROVE  \/ mem'[s].last = NoDay
                 \/ mem'[s].last \in ever'[s]
                 \/ mem[s] # None /\ mem'[s].last = mem[s].last
      <4>1. CASE mem[s] # None /\ l = NoDay
        BY <4>1, <3>2, <1>c
      <4>2. CASE ~(mem[s] # None /\ l = NoDay)
        <5>1. mem'[s].last = l
          BY <4>2, <3>2, <1>c
        <5>2. l # NoDay => l \in ever'[s]
          BY <3>2, <1>c
        <5>. QED BY <5>1, <5>2
      <4>. QED BY <4>1, <4>2
    <3>. QED BY <3>1, <3>2, <1>4
  <2>4. TrueMarks(mem', ever')
    BY <2>2, <2>e, <2>3, <1>a DEF TrueMarks
  <2>5. TrueMarks(disk', ever')
    BY <2>1, <2>e, <2>4, <1>a DEF TrueMarks
  <2>. QED BY <2>1, <2>e, <2>4, <2>5, <1>b, <1>d
<1>5. CASE Advance \/ SetBack \/ Start \/ UNCHANGED vars
  <2>1. mem' = mem /\ disk' = disk /\ ever' = ever /\ run' = run
    BY <1>5 DEF Advance, SetBack, Start, vars
  <2>. QED BY <2>1, <1>a, <1>b, <1>d
<1>6. CASE Stop
  <2>1. mem' = disk /\ disk' = disk /\ ever' = ever /\ run'.firing = None
    BY <1>6 DEF Stop, Idle
  <2>. QED BY <2>1, <1>a, <1>d
<1>. QED BY <1>1, <1>2, <1>3, <1>4, <1>5, <1>6 DEF Next

\* No day is lost to a mark that stands for nothing, across stops, failed saves
\* and edits: the runner marks after the deed, and what else there is a body
\* brought along for this id (runner.go:83-97, store.go:631).
THEOREM MarksAreTrue == Spec => []MarkedRan
<1>1. MarkedInv => MarkedRan
  BY DEF MarkedInv
<1>2. Spec => []MarkedInv
  BY MarkedInit, MarkedStep, TypeInvariant, PTL DEF Spec
<1>. QED BY <1>1, <1>2, PTL

-----------------------------------------------------------------------------
\* NothingLeftBehind.

LEMMA OnItsWayInit == Init => OnItsWayInv
BY DEF Init, OnItsWayInv

LEMMA OnItsWayStep ==
    TypeInv /\ TypeInv' /\ OnItsWayInv /\ [Next]_vars => OnItsWayInv'
<1> SUFFICES ASSUME TypeInv, TypeInv', OnItsWayInv, [Next]_vars PROVE OnItsWayInv'
  OBVIOUS
<1>a. /\ mem \in [Schedules -> Stored \cup {None}] /\ None \notin Stored
      /\ today \in Days /\ ran \in [Schedules -> [Days -> Nat]]
      /\ run.left \subseteq Schedules
  BY NoneAssumption DEF TypeInv, TypeOK
<1>1. CASE Tick
  <2>1. run'.left = {s \in Schedules : Due(mem[s], today, minute)}
    BY <1>1, WalkingFacts DEF Tick
  <2>2. run' # Idle => run'.day = today
    BY <1>1, WalkingFacts DEF Tick
  <2>3. mem' = mem /\ today' = today /\ minute' = minute
    BY <1>1 DEF Tick
  <2>. QED BY <2>1, <2>2, <2>3 DEF OnItsWayInv
<1>2. ASSUME NEW s \in Schedules, Fire(s) PROVE OnItsWayInv'
  <2>1. /\ run'.left = run.left \ {s} /\ run'.firing = s /\ run'.day = run.day
        /\ run # Idle /\ run.firing = None
    BY <1>2 DEF Fire, TypeInv, TypeOK, Idle
  <2>2. /\ mem' = mem /\ today' = today /\ minute' = minute
        /\ ticked' = ticked /\ edited' = edited
    BY <1>2 DEF Fire
  <2>3. \A t \in Schedules : t # None
    BY NoneAssumption
  <2>. QED BY <2>1, <2>2, <2>3 DEF OnItsWayInv
<1>3. CASE Mark
  <2>1. /\ run'.left = run.left
        /\ run' # Idle => run'.day = run.day
        /\ run # Idle /\ run.firing \in Schedules
    BY <1>3, WalkingFacts DEF Mark, TypeInv, TypeOK, Idle
  <2>2. /\ today' = today /\ minute' = minute /\ ticked' = ticked /\ edited' = edited
    BY <1>3 DEF Mark
  <2>3. ASSUME ticked, NEW t \in Schedules \ edited, Due(mem'[t], today, minute)
        PROVE  t \in run.left
    <3>1. run.day = today
      BY <2>1, <2>3 DEF OnItsWayInv
    <3>2. CASE t = run.firing
      <4>1. mem[t] = None => mem' = mem
        BY <3>2, <1>3 DEF Mark
      <4>2. CASE mem[t] # None
        <5>1. mem' = [mem EXCEPT ![t].last = today]
          BY <3>1, <3>2, <4>2, <1>3 DEF Mark
        <5>2. mem[t] \in Stored
          BY <4>2, <1>a
        <5>3. mem'[t].last = today
          BY <5>1, <5>2, <1>a DEF Stored
        <5>. QED BY <5>3, <2>3 DEF Due
      <4>. QED BY <4>1, <4>2, <2>3 DEF Due
    <3>3. CASE t # run.firing
      <4>1. mem'[t] = mem[t]
        BY <3>3, <1>3, <1>a DEF Mark
      <4>. QED BY <4>1, <3>3, <2>3 DEF OnItsWayInv
    <3>. QED BY <3>2, <3>3
  <2>4. ticked' /\ run' # Idle => run'.day = today'
    BY <2>1, <2>2 DEF OnItsWayInv
  <2>5. ticked' => \A t \in Schedules \ edited' :
           Due(mem'[t], today', minute') => t \in run'.left \/ t = run'.firing
    BY <2>1, <2>2, <2>3
  <2>. QED BY <2>4, <2>5 DEF OnItsWayInv
<1>4. ASSUME NEW s \in Schedules, Delete(s) PROVE OnItsWayInv'
  <2>1. /\ run' = run /\ today' = today /\ minute' = minute /\ ticked' = ticked
        /\ edited' = edited /\ mem' = [mem EXCEPT ![s] = None]
    BY <1>4 DEF Delete
  <2>2. \A t \in Schedules : Due(mem'[t], today, minute) => mem'[t] = mem[t]
    BY <2>1, <1>a DEF Due
  <2>. QED BY <2>1, <2>2 DEF OnItsWayInv
<1>5. ASSUME NEW s \in Schedules, NEW b \in Bodies, NEW l \in Days \cup {NoDay}, Put(s, b, l)
      PROVE  OnItsWayInv'
  <2>1. /\ run' = run /\ today' = today /\ minute' = minute /\ ticked' = ticked
        /\ edited' = edited \cup {s}
    BY <1>5 DEF Put, Stores
  <2>2. \A t \in Schedules \ edited' : mem'[t] = mem[t] /\ t \in Schedules \ edited
    BY <2>1, <1>5, <1>a DEF Put, Stores
  <2>. QED BY <2>1, <2>2 DEF OnItsWayInv
<1>6. CASE Advance \/ SetBack \/ Stop
  <2>1. ~ticked'
    BY <1>6 DEF Advance, SetBack, Stop
  <2>. QED BY <2>1 DEF OnItsWayInv
<1>7. CASE Start \/ UNCHANGED vars
  <2>1. /\ run' = run /\ today' = today /\ minute' = minute /\ ticked' = ticked
        /\ edited' = edited /\ mem' = mem
    BY <1>7 DEF Start, vars
  <2>. QED BY <2>1 DEF OnItsWayInv
<1>. QED BY <1>1, <1>2, <1>3, <1>4, <1>5, <1>6, <1>7 DEF Next

\* A tick that is done leaves nothing due behind: every schedule of the copy is
\* performed and marked, whatever became of the others (runner.go:58-74).
THEOREM TicksAreComplete == Spec => []NothingLeftBehind
<1>1. OnItsWayInv /\ TypeInv => NothingLeftBehind
  <2> SUFFICES ASSUME OnItsWayInv, run = Idle, ticked,
                      NEW s \in Schedules \ edited
               PROVE  ~Due(mem[s], today, minute)
    BY DEF NothingLeftBehind, Busy
  <2>1. run.left = {} /\ run.firing # s
    BY NoneAssumption DEF Idle
  <2>. QED BY <2>1 DEF OnItsWayInv
<1>2. Spec => []OnItsWayInv
  BY OnItsWayInit, OnItsWayStep, TypeInvariant, PTL DEF Spec
<1>. QED BY <1>1, <1>2, TypeInvariant, PTL

=============================================================================
