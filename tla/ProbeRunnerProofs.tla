-------------------------- MODULE ProbeRunnerProofs --------------------------
(***************************************************************************)
(* Theorems about ProbeRunner for any devices, any number of overlapping   *)
(* requests and any intervals: what the notifications of a device say of   *)
(* its result in the cache, how they add up, and how the runner paces      *)
(* itself.                                                                 *)
(***************************************************************************)
EXTENDS ProbeRunner, FiniteSetTheorems, TLAPS

USE IntervalAssumption, NameAssumption, ValueAssumption, BoundAssumption

-----------------------------------------------------------------------------
(* Types.                                                                  *)

LEMMA OlderIsNat == ASSUME NEW n \in Nat PROVE Older(n) \in Nat /\ Older(n) >= n
BY DEF Older

LEMMA OlderIsMonotone ==
    ASSUME NEW m \in Nat, NEW n \in Nat, m <= n
    PROVE  Older(m) <= Older(n)
BY DEF Older

LEMMA ProbeFields ==
    ASSUME NEW r \in Probe
    PROVE  /\ r.pc \in {"free", "asking", "storing", "reporting"}
           /\ r.dev \in Devices \cup {NoResult} /\ r.target \in BOOLEAN
           /\ r.online \in BOOLEAN /\ r.age \in Nat
BY DEF Probe

LEMMA FreeIsProbe == Free \in Probe
BY DEF Free, Probe

\* Who is at work is at work on a device.
AtWork == \A p \in Probers : probe[p].pc # "free" => probe[p].dev \in Devices

Types == TypeOK /\ AtWork

\* What a probe becomes when it begins.
LEMMA BeginType ==
    ASSUME Types, NEW p \in Probers, NEW d \in Devices, NEW c \in Config, Begin(p, d, c)
    PROVE  probe' \in [Probers -> Probe] /\ AtWork'
<1>. DEFINE r == [pc |-> "asking", dev |-> d, target |-> Target(d, c), online |-> FALSE, age |-> 0]
<1>1. c.on \in BOOLEAN /\ c.host \in BOOLEAN
  BY DEF Config
<1>2. Target(d, c) \in BOOLEAN
  BY <1>1 DEF Target
<1>3. r \in Probe /\ r.dev = d
  BY <1>2 DEF Probe
<1>4. probe' = [probe EXCEPT ![p] = r]
  BY DEF Begin
<1>. HIDE DEF r
<1>. QED BY <1>3, <1>4 DEF Types, TypeOK, AtWork

LEMMA TypesInit == Init => Types
<1>. SUFFICES ASSUME Init PROVE Types
  OBVIOUS
<1>1. probe \in [Probers -> Probe] /\ AtWork
  BY FreeIsProbe DEF Init, AtWork, Free
<1>2. phase \in 0 .. Period - 1 /\ lag \in 0 .. MaxLag
  BY DEF Init
<1>. QED BY <1>1, <1>2 DEF Init, Types, TypeOK

LEMMA AnswerTypes ==
    ASSUME Types, NEW p \in Probers, Answer(p)
    PROVE  Types'
<1>. DEFINE b == probe[p].target /\ up[probe[p].dev]
<1>1. probe[p] \in Probe /\ probe[p].dev \in Devices
  BY DEF Types, TypeOK, AtWork, Answer
<1>2. b \in BOOLEAN
  BY <1>1, ProbeFields DEF Types, TypeOK
<1>3. [probe[p] EXCEPT !.pc = "storing", !.online = b] \in Probe
  BY <1>1, <1>2 DEF Probe
<1>4. probe' = [probe EXCEPT ![p] = [probe[p] EXCEPT !.pc = "storing", !.online = b]]
  BY DEF Answer, Types, TypeOK
<1>5. [probe[p] EXCEPT !.pc = "storing", !.online = b].dev = probe[p].dev
  BY <1>1 DEF Probe
<1>. HIDE DEF b
<1>6. probe' \in [Probers -> Probe] /\ AtWork'
  BY <1>1, <1>3, <1>4, <1>5 DEF Types, TypeOK, AtWork
<1>. QED BY <1>6 DEF Types, TypeOK, Answer, hostVars, tickVars, timeVars, news, pace, bounds

LEMMA StoreTypes ==
    ASSUME Types, NEW p \in Probers, Store(p)
    PROVE  Types'
<1>. DEFINE r == [online |-> probe[p].online, age |-> probe[p].age]
           on == [probe[p] EXCEPT !.pc = "reporting"]
<1>1. probe[p] \in Probe /\ probe[p].dev \in Devices
  BY DEF Types, TypeOK, AtWork, Store
<1>2. r \in Result
  BY <1>1, ProbeFields DEF Result
<1>3. on \in Probe /\ on.dev = probe[p].dev
  BY <1>1 DEF Probe
<1>4. cache' = [cache EXCEPT ![probe[p].dev] = r]
  BY DEF Store
<1>5. probe' = [probe EXCEPT ![p] = on] \/ probe' = [probe EXCEPT ![p] = Free]
  BY DEF Store, Types, TypeOK
<1>6. /\ crossed' \in [Devices -> BOOLEAN] /\ outdated' \in [Devices -> BOOLEAN]
  BY <1>1 DEF Store, Types, TypeOK
<1>. HIDE DEF r, on
<1>7. probe' \in [Probers -> Probe] /\ AtWork'
  <2>1. Free.pc = "free"
    BY DEF Free
  <2>2. CASE probe' = [probe EXCEPT ![p] = on]
    BY <1>1, <1>3, <2>2 DEF Types, TypeOK, AtWork
  <2>3. CASE probe' = [probe EXCEPT ![p] = Free]
    BY <2>1, <2>3, FreeIsProbe DEF Types, TypeOK, AtWork
  <2>. QED BY <1>5, <2>2, <2>3
<1>8. cache' \in [Devices -> Result \cup {NoResult}]
  BY <1>1, <1>2, <1>4 DEF Types, TypeOK
<1>. QED BY <1>6, <1>7, <1>8 DEF Types, TypeOK, Store, hostVars, tickVars, timeVars, bounds

LEMMA ReportTypes ==
    ASSUME Types, NEW p \in Probers, Report(p)
    PROVE  Types'
<1>1. probe[p] \in Probe /\ probe[p].dev \in Devices
  BY DEF Types, TypeOK, AtWork, Report
<1>2. probe[p].online \in BOOLEAN
  BY <1>1, ProbeFields
<1>3. probe' \in [Probers -> Probe] /\ AtWork'
  BY FreeIsProbe DEF Types, TypeOK, AtWork, Report, Free
<1>4. {probe[p].online} \in {{TRUE}, {FALSE}, NoResult}
  BY <1>2
<1>5. sent' \in [Devices -> {{TRUE}, {FALSE}, NoResult}]
  BY <1>1, <1>4 DEF Types, TypeOK, Report
<1>6. net' \in [Devices -> Int]
  BY <1>1 DEF Types, TypeOK, Report
<1>. QED BY <1>3, <1>5, <1>6 DEF Types, TypeOK, Report, hostVars, tickVars, timeVars, pace, bounds

LEMMA TickingTypes ==
    ASSUME Types, Ticking
    PROVE  Types'
<1>1. CASE Tick
  <2>1. AtWork'
    BY <1>1 DEF Types, AtWork, Tick
  <2>2. lag' = 0 /\ due' = FALSE /\ todo' = config
    BY <1>1 DEF Tick
  <2>3. lag' \in 0 .. MaxLag
    BY <2>2
  <2>. QED BY <1>1, <2>1, <2>2, <2>3 DEF Types, TypeOK, Tick, hostVars, news, pace, bounds
<1>2. ASSUME NEW d \in Devices, Skip(d) PROVE Types'
  BY <1>2 DEF Types, TypeOK, AtWork, Skip, Done, hostVars, timeVars, news, pace, bounds
<1>3. ASSUME NEW d \in Devices, ProbeNext(d) PROVE Types'
  <2>1. todo[d] \in Config
    BY <1>3 DEF ProbeNext, Ahead, Types, TypeOK
  <2>2. probe' \in [Probers -> Probe] /\ AtWork'
    BY <1>3, <2>1, BeginType DEF ProbeNext, Probers
  <2>. QED BY <1>3, <2>2 DEF Types, TypeOK, ProbeNext, Done, hostVars, timeVars, news, bounds
<1>. QED BY <1>1, <1>2, <1>3 DEF Ticking

LEMMA PassTypes ==
    ASSUME Types, Pass
    PROVE  Types'
<1>1. ASSUME NEW d \in Devices PROVE cache'[d] \in Result \cup {NoResult}
  <2>1. CASE cache[d] = NoResult
    BY <2>1 DEF Pass
  <2>2. CASE cache[d] # NoResult
    <3>1. cache[d] \in Result
      BY <2>2 DEF Types, TypeOK
    <3>2. [cache[d] EXCEPT !.age = Older(@)] \in Result
      BY <3>1, OlderIsNat DEF Result
    <3>. QED BY <2>2, <3>2 DEF Pass
  <2>. QED BY <2>1, <2>2
<1>2. ASSUME NEW p \in Probers
      PROVE  probe'[p] \in Probe /\ probe'[p].pc = probe[p].pc /\ probe'[p].dev = probe[p].dev
  <2>1. probe[p] \in Probe
    BY DEF Types, TypeOK
  <2>2. [probe[p] EXCEPT !.age = Older(@)] \in Probe
    BY <2>1, OlderIsNat DEF Probe
  <2>3. probe'[p] = probe[p] \/ probe'[p] = [probe[p] EXCEPT !.age = Older(@)]
    BY DEF Pass
  <2>. QED BY <2>1, <2>2, <2>3 DEF Probe
<1>3. cache' \in [Devices -> Result \cup {NoResult}]
  <2>1. cache' = [d \in Devices |-> cache'[d]]
    BY DEF Pass
  <2>. QED BY <1>1, <2>1
<1>4. probe' \in [Probers -> Probe]
  <2>1. probe' = [p \in Probers |-> probe'[p]]
    BY DEF Pass
  <2>. QED BY <1>2, <2>1
<1>5. AtWork'
  BY <1>2 DEF AtWork, Types
<1>6. since' \in [Devices -> Nat]
  BY OlderIsNat DEF Pass, Types, TypeOK
<1>7. lag' \in 0 .. MaxLag
  <2>1. CASE Busy
    BY <2>1 DEF Pass, Types, TypeOK
  <2>2. CASE ~Busy
    BY <2>2 DEF Pass, Types, TypeOK
  <2>. QED BY <2>1, <2>2
<1>8. phase' \in 0 .. Period - 1
  BY DEF Pass, Types, TypeOK
<1>9. due' \in BOOLEAN
  BY DEF Pass, Types, TypeOK
<1>. QED BY <1>3, <1>4, <1>5, <1>6, <1>7, <1>8, <1>9 DEF Types, TypeOK, Pass, hostVars, news, bounds

LEMMA ProbeDeviceTypes ==
    ASSUME Types, NEW p \in Callers, NEW d \in Devices, ProbeDevice(p, d)
    PROVE  Types'
<1>1. config[d] \in Config
  BY DEF ProbeDevice, Types, TypeOK
<1>2. probe' \in [Probers -> Probe] /\ AtWork'
  BY <1>1, BeginType DEF ProbeDevice, Probers
<1>3. requests' \in 0 .. MaxRequests
  BY DEF Types, TypeOK, ProbeDevice
<1>. QED BY <1>2, <1>3 DEF Types, TypeOK, ProbeDevice, hostVars, tickVars, timeVars, news, pace

LEMMA EnvironmentTypes ==
    ASSUME Types, NEW d \in Devices, Edit(d) \/ Flip(d)
    PROVE  Types'
<1>1. CASE Edit(d)
  <2>1. AtWork'
    BY <1>1 DEF Types, AtWork, Edit
  <2>2. edits' \in 0 .. MaxEdits /\ config' \in [Devices -> Config \cup {Gone}]
    BY <1>1 DEF Types, TypeOK, Edit
  <2>. QED BY <1>1, <2>1, <2>2 DEF Types, TypeOK, Edit, hostVars, tickVars, timeVars, news, pace
<1>2. CASE Flip(d)
  <2>1. AtWork'
    BY <1>2 DEF Types, AtWork, Flip
  <2>2. flips' \in 0 .. MaxFlips
    BY <1>2 DEF Types, TypeOK, Flip
  <2>3. up' \in [Devices -> BOOLEAN] /\ linked' \in [Devices -> BOOLEAN]
    BY <1>2, Zenon DEF Types, TypeOK, Flip
  <2>. QED BY <1>2, <2>1, <2>2, <2>3 DEF Types, TypeOK, Flip, tickVars, timeVars, news, pace
<1>. QED BY <1>1, <1>2

LEMMA TypesNext == Types /\ [Next]_vars => Types'
<1>. SUFFICES ASSUME Types, [Next]_vars PROVE Types'
  OBVIOUS
<1>1. CASE UNCHANGED vars
  BY <1>1 DEF Types, TypeOK, AtWork, vars, hostVars, tickVars, timeVars, news, pace, bounds
<1>2. ASSUME NEW p \in Probers, Probing(p) PROVE Types'
  BY <1>2, AnswerTypes, StoreTypes, ReportTypes DEF Probing
<1>. QED BY <1>1, <1>2, TickingTypes, PassTypes, ProbeDeviceTypes, EnvironmentTypes DEF Next

\* The types of the probe runner's state are as declared.
THEOREM TypeCorrect == Spec => []TypeOK
<1>1. Spec => []Types
  BY TypesInit, TypesNext, PTL DEF Spec
<1>2. Types => TypeOK
  BY DEF Types
<1>. QED BY <1>1, <1>2, PTL

-----------------------------------------------------------------------------
(* What a step does to the changes still to be reported: it stores one     *)
(* more, reports one, or leaves them alone.                                *)

Reporting(p, d) == At(p, d, "reporting")

\* The changes to be reported, the notifications sent and what the cache says
\* of each device are as before.
Calm ==
    /\ \A p \in Probers, d \in Devices :
          /\ Reporting(p, d)' <=> Reporting(p, d)
          /\ Reporting(p, d) => probe'[p].online = probe[p].online
    /\ UNCHANGED news
    /\ \A d \in Devices :
          /\ cache'[d] = NoResult <=> cache[d] = NoResult
          /\ cache[d] # NoResult => cache'[d].online = cache[d].online

\* A change of d is stored by p.
StoresChange(p, d) ==
    /\ ~Reporting(p, d)
    /\ \A q \in Probers, e \in Devices :
          Reporting(q, e)' <=> Reporting(q, e) \/ (q = p /\ e = d)
    /\ \A q \in Probers : probe'[q].online = probe[q].online
    /\ \A e \in Devices \ {d} :
          cache'[e] = cache[e] /\ crossed'[e] = crossed[e]
    /\ cache'[d] # NoResult /\ cache'[d].online = probe[p].online
    /\ cache[d] # NoResult => cache[d].online # probe[p].online
    /\ crossed'[d] <=> \E q \in Probers : Reporting(q, d)
    /\ UNCHANGED <<sent, net>>

\* A change of d is reported by p.
ReportsChange(p, d) ==
    /\ Reporting(p, d)
    /\ \A q \in Probers, e \in Devices :
          Reporting(q, e)' <=> Reporting(q, e) /\ q # p
    /\ \A q \in Probers \ {p} : probe'[q].online = probe[q].online
    /\ \A e \in Devices \ {d} : sent'[e] = sent[e] /\ net'[e] = net[e]
    /\ sent'[d] = {probe[p].online}
    /\ net'[d] = IF probe[p].online THEN net[d] + 1 ELSE net[d] - 1
    /\ UNCHANGED <<cache, crossed>>

\* A probe that goes from one stage to another, neither of them reporting.
LEMMA StageCalm ==
    ASSUME Types, NEW p \in Probers, NEW r \in Probe,
           probe' = [probe EXCEPT ![p] = r], r.pc # "reporting", probe[p].pc # "reporting",
           UNCHANGED <<cache, news>>
    PROVE  Calm
<1>1. ASSUME NEW q \in Probers
      PROVE  probe'[q] = probe[q] \/ (q = p /\ probe'[q] = r)
  BY DEF Types, TypeOK
<1>2. ASSUME NEW q \in Probers, NEW d \in Devices
      PROVE  /\ Reporting(q, d)' <=> Reporting(q, d)
             /\ Reporting(q, d) => probe'[q].online = probe[q].online
  BY <1>1 DEF Reporting, At
<1>. QED BY <1>2 DEF Calm

LEMMA BeginCalm ==
    ASSUME Types, NEW p \in Probers, NEW d \in Devices, NEW c \in Config, Begin(p, d, c),
           probe[p].pc = "free", UNCHANGED <<cache, news>>
    PROVE  Calm
<1>. DEFINE r == [pc |-> "asking", dev |-> d, target |-> Target(d, c), online |-> FALSE, age |-> 0]
<1>1. c.on \in BOOLEAN /\ c.host \in BOOLEAN
  BY DEF Config
<1>2. Target(d, c) \in BOOLEAN
  BY <1>1 DEF Target
<1>3. r \in Probe /\ r.pc = "asking"
  BY <1>2 DEF Probe
<1>4. probe' = [probe EXCEPT ![p] = r]
  BY DEF Begin
<1>. HIDE DEF r
<1>. QED BY <1>3, <1>4, StageCalm

LEMMA AnswerCalm ==
    ASSUME Types, NEW p \in Probers, Answer(p)
    PROVE  Calm
<1>. DEFINE b == probe[p].target /\ up[probe[p].dev]
            r == [probe[p] EXCEPT !.pc = "storing", !.online = b]
<1>1. probe[p] \in Probe /\ probe[p].dev \in Devices /\ probe[p].pc = "asking"
  BY DEF Types, TypeOK, AtWork, Answer
<1>2. b \in BOOLEAN
  BY <1>1, ProbeFields DEF Types, TypeOK
<1>3. r \in Probe /\ r.pc = "storing"
  BY <1>1, <1>2 DEF Probe
<1>4. probe' = [probe EXCEPT ![p] = r] /\ UNCHANGED <<cache, news>>
  BY DEF Answer, Types, TypeOK
<1>. HIDE DEF r
<1>. QED BY <1>1, <1>3, <1>4, StageCalm

LEMMA PassCalm ==
    ASSUME Types, Pass
    PROVE  Calm
<1>1. ASSUME NEW p \in Probers, NEW d \in Devices
      PROVE  /\ Reporting(p, d)' <=> Reporting(p, d)
             /\ Reporting(p, d) => probe'[p].online = probe[p].online
  <2>1. probe[p] \in Probe
    BY DEF Types, TypeOK
  <2>2. probe'[p] = probe[p] \/ probe'[p] = [probe[p] EXCEPT !.age = Older(@)]
    BY DEF Pass
  <2>3. probe'[p].pc = probe[p].pc /\ probe'[p].dev = probe[p].dev
        /\ probe'[p].online = probe[p].online
    BY <2>1, <2>2 DEF Probe
  <2>. QED BY <2>3 DEF Reporting, At
<1>2. ASSUME NEW d \in Devices
      PROVE  /\ cache'[d] = NoResult <=> cache[d] = NoResult
             /\ cache[d] # NoResult => cache'[d].online = cache[d].online
  <2>1. CASE cache[d] = NoResult
    BY <2>1 DEF Pass
  <2>2. CASE cache[d] # NoResult
    <3>1. cache[d] \in Result
      BY <2>2 DEF Types, TypeOK
    <3>2. cache'[d] = [cache[d] EXCEPT !.age = Older(@)]
      BY <2>2 DEF Pass
    <3>3. cache'[d] \in Result /\ cache'[d].online = cache[d].online
      BY <3>1, <3>2, OlderIsNat DEF Result
    <3>. QED BY <2>2, <3>3
  <2>. QED BY <2>1, <2>2
<1>. QED BY <1>1, <1>2 DEF Calm, Pass, news

LEMMA StoreEffect ==
    ASSUME Types, NEW p \in Probers, Store(p)
    PROVE  Calm \/ \E d \in Devices : StoresChange(p, d)
<1>. DEFINE d == probe[p].dev
            r == [online |-> probe[p].online, age |-> probe[p].age]
            on == [probe[p] EXCEPT !.pc = "reporting"]
<1>1. probe[p] \in Probe /\ d \in Devices /\ probe[p].pc = "storing"
  BY DEF Types, TypeOK, AtWork, Store
<1>2. r \in Result /\ r.online = probe[p].online /\ r # NoResult
  BY <1>1, ProbeFields DEF Result
<1>3. on \in Probe /\ on.dev = d /\ on.pc = "reporting" /\ on.online = probe[p].online
  BY <1>1 DEF Probe
<1>4. cache' = [cache EXCEPT ![d] = r]
  BY DEF Store
<1>5. /\ cache'[d] = r
      /\ \A e \in Devices \ {d} : cache'[e] = cache[e]
  BY <1>1, <1>4 DEF Types, TypeOK
<1>6. CASE ~Differs(d, probe[p].online)
  <2>1. probe' = [probe EXCEPT ![p] = Free] /\ Free.pc = "free"
    BY <1>6 DEF Store, Free
  <2>2. crossed' = crossed
    BY <1>1, <1>6 DEF Store, Types, TypeOK
  <2>3. cache[d] # NoResult /\ cache[d].online = probe[p].online
    BY <1>6 DEF Differs
  <2>. HIDE DEF d, r
  <2>4. ASSUME NEW q \in Probers, NEW e \in Devices
        PROVE  /\ Reporting(q, e)' <=> Reporting(q, e)
               /\ Reporting(q, e) => probe'[q].online = probe[q].online
    <3>1. probe'[q] = IF q = p THEN Free ELSE probe[q]
      BY <2>1 DEF Types, TypeOK
    <3>. QED BY <1>1, <2>1, <3>1 DEF Reporting, At
  <2>5. UNCHANGED news
    BY <2>2 DEF Store, news
  <2>. QED BY <1>1, <1>2, <1>5, <2>3, <2>4, <2>5 DEF Calm
<1>7. CASE Differs(d, probe[p].online)
  <2>1. probe' = [probe EXCEPT ![p] = on]
    BY <1>7 DEF Store, Types, TypeOK
  <2>2. crossed' = [crossed EXCEPT ![d] = Pending(d) # {}]
    BY <1>7 DEF Store
  <2>3. cache[d] # NoResult => cache[d].online # probe[p].online
    BY <1>7 DEF Differs
  <2>4. UNCHANGED <<sent, net>>
    BY DEF Store
  <2>5. d = probe[p].dev
    OBVIOUS
  <2>. HIDE DEF d, r, on
  <2>6. ASSUME NEW q \in Probers PROVE probe'[q] = IF q = p THEN on ELSE probe[q]
    BY <2>1 DEF Types, TypeOK
  <2>7. ~Reporting(p, d)
    BY <1>1 DEF Reporting, At
  <2>8. ASSUME NEW q \in Probers, NEW e \in Devices
        PROVE  Reporting(q, e)' <=> Reporting(q, e) \/ (q = p /\ e = d)
    BY <1>1, <1>3, <2>6 DEF Reporting, At
  <2>9. \A q \in Probers : probe'[q].online = probe[q].online
    BY <1>3, <2>6
  <2>10. /\ crossed'[d] <=> \E q \in Probers : Reporting(q, d)
         /\ \A e \in Devices \ {d} : crossed'[e] = crossed[e]
    BY <1>1, <2>2 DEF Types, TypeOK, Pending, Reporting
  <2>11. StoresChange(p, d)
    BY <1>2, <1>5, <2>3, <2>4, <2>7, <2>8, <2>9, <2>10 DEF StoresChange
  <2>. QED BY <1>1, <2>11
<1>. QED BY <1>6, <1>7

LEMMA ReportEffect ==
    ASSUME Types, NEW p \in Probers, Report(p)
    PROVE  \E d \in Devices : ReportsChange(p, d)
<1>. DEFINE d == probe[p].dev
<1>1. d \in Devices /\ probe[p].pc = "reporting" /\ Reporting(p, d)
  BY DEF Types, AtWork, Report, Reporting, At
<1>2. Free.pc = "free"
  BY DEF Free
<1>3. ASSUME NEW q \in Probers PROVE probe'[q] = IF q = p THEN Free ELSE probe[q]
  BY DEF Report, Types, TypeOK
<1>4. ASSUME NEW q \in Probers, NEW e \in Devices
      PROVE  Reporting(q, e)' <=> Reporting(q, e) /\ q # p
  BY <1>2, <1>3 DEF Reporting, At
<1>5. \A q \in Probers \ {p} : probe'[q].online = probe[q].online
  BY <1>3
<1>6. /\ sent'[d] = {probe[p].online}
      /\ \A e \in Devices \ {d} : sent'[e] = sent[e]
  BY <1>1 DEF Report, Types, TypeOK
<1>7. /\ net'[d] = IF probe[p].online THEN net[d] + 1 ELSE net[d] - 1
      /\ \A e \in Devices \ {d} : net'[e] = net[e]
  BY <1>1 DEF Report, Types, TypeOK
<1>8. UNCHANGED <<cache, crossed>>
  BY DEF Report
<1>. HIDE DEF d
<1>9. ReportsChange(p, d)
  BY <1>1, <1>4, <1>5, <1>6, <1>7, <1>8 DEF ReportsChange
<1>. QED BY <1>1, <1>9

LEMMA Effects ==
    ASSUME Types, [Next]_vars
    PROVE  \/ Calm
           \/ \E p \in Probers, d \in Devices : StoresChange(p, d) \/ ReportsChange(p, d)
<1>1. ASSUME UNCHANGED <<cache, probe, news>> PROVE Calm
  BY <1>1 DEF Calm, Reporting, At
<1>2. CASE UNCHANGED vars
  BY <1>1, <1>2 DEF vars
<1>3. ASSUME NEW p \in Probers, Probing(p)
      PROVE  Calm \/ \E d \in Devices : StoresChange(p, d) \/ ReportsChange(p, d)
  BY <1>3, AnswerCalm, StoreEffect, ReportEffect DEF Probing
<1>4. ASSUME NEW d \in Devices, ProbeNext(d) PROVE Calm
  <2>1. todo[d] \in Config
    BY <1>4 DEF ProbeNext, Ahead, Types, TypeOK
  <2>. QED BY <1>4, <2>1, BeginCalm DEF ProbeNext, Probers
<1>5. ASSUME Ticking PROVE Calm
  BY <1>1, <1>4, <1>5 DEF Ticking, Tick, Skip
<1>6. ASSUME NEW d \in Devices, Edit(d) \/ Flip(d) PROVE Calm
  BY <1>1, <1>6 DEF Edit, Flip
<1>7. ASSUME NEW d \in Devices, NEW p \in Callers, ProbeDevice(p, d) PROVE Calm
  <2>1. config[d] \in Config
    BY <1>7 DEF ProbeDevice, Types, TypeOK
  <2>. QED BY <1>7, <2>1, BeginCalm DEF ProbeDevice, Probers
<1>. QED BY <1>2, <1>3, <1>5, <1>6, <1>7, PassCalm DEF Next

-----------------------------------------------------------------------------
(* What the last notification says.                                        *)

\* Unless two crossed, at most one change of a device is to be reported, and it
\* is the one to what the cache says; with none, that has been reported.
NewsOf(d) ==
    /\ cache[d] = NoResult => \A p \in Probers : ~Reporting(p, d)
    /\ ~crossed[d] =>
          /\ \A p, q \in Probers : Reporting(p, d) /\ Reporting(q, d) => p = q
          /\ cache[d] # NoResult =>
                /\ \A p \in Probers : Reporting(p, d) => probe[p].online = cache[d].online
                /\ (\A p \in Probers : ~Reporting(p, d)) => sent[d] = {cache[d].online}

News == \A d \in Devices : NewsOf(d)

LEMMA NewsInit == Init => News
BY DEF Init, News, NewsOf, Reporting, At, Free

LEMMA NewsCalm ==
    ASSUME News, Calm
    PROVE  News'
<1>. SUFFICES ASSUME NEW d \in Devices PROVE NewsOf(d)'
  BY DEF News
<1>1. NewsOf(d)
  BY DEF News
<1>2. crossed'[d] = crossed[d] /\ sent'[d] = sent[d]
  BY DEF Calm, news
<1>. QED BY <1>1, <1>2 DEF NewsOf, Calm

LEMMA NewsStored ==
    ASSUME News, NEW p \in Probers, NEW d \in Devices, StoresChange(p, d)
    PROVE  News'
<1>. SUFFICES ASSUME NEW e \in Devices PROVE NewsOf(e)'
  BY DEF News
<1>1. NewsOf(e)
  BY DEF News
<1>2. CASE e # d
  <2>1. cache'[e] = cache[e] /\ crossed'[e] = crossed[e] /\ sent'[e] = sent[e]
    BY <1>2 DEF StoresChange
  <2>2. \A q \in Probers : /\ Reporting(q, e)' <=> Reporting(q, e)
                           /\ probe'[q].online = probe[q].online
    BY <1>2 DEF StoresChange
  <2>. QED BY <1>1, <2>1, <2>2 DEF NewsOf
<1>3. CASE e = d
  <2>1. cache'[d] # NoResult /\ cache'[d].online = probe'[p].online
    BY DEF StoresChange
  <2>2. \A q \in Probers : Reporting(q, d)' <=> Reporting(q, d) \/ q = p
    BY DEF StoresChange
  <2>3. ~crossed'[d] => \A q \in Probers : ~Reporting(q, d)
    BY DEF StoresChange
  <2>. QED BY <1>3, <2>1, <2>2, <2>3 DEF NewsOf
<1>. QED BY <1>2, <1>3

LEMMA NewsReported ==
    ASSUME News, NEW p \in Probers, NEW d \in Devices, ReportsChange(p, d)
    PROVE  News'
<1>. SUFFICES ASSUME NEW e \in Devices PROVE NewsOf(e)'
  BY DEF News
<1>1. NewsOf(e) /\ cache'[e] = cache[e] /\ crossed'[e] = crossed[e]
  BY DEF News, ReportsChange
<1>2. \A q \in Probers : /\ Reporting(q, e)' <=> Reporting(q, e) /\ q # p
                         /\ q # p => probe'[q].online = probe[q].online
  BY DEF ReportsChange
<1>3. CASE e # d
  <2>1. sent'[e] = sent[e] /\ ~Reporting(p, e)
    BY <1>3 DEF ReportsChange, Reporting, At
  <2>. QED BY <1>1, <1>2, <2>1 DEF NewsOf
<1>4. CASE e = d
  <2>1. Reporting(p, d) /\ sent'[d] = {probe[p].online}
    BY DEF ReportsChange
  <2>. QED BY <1>1, <1>2, <1>4, <2>1 DEF NewsOf
<1>. QED BY <1>3, <1>4

LEMMA NewsNext == Types /\ News /\ [Next]_vars => News'
<1>. SUFFICES ASSUME Types, News, [Next]_vars PROVE News'
  OBVIOUS
<1>1. CASE Calm
  BY <1>1, NewsCalm
<1>2. ASSUME NEW p \in Probers, NEW d \in Devices, StoresChange(p, d) \/ ReportsChange(p, d)
      PROVE  News'
  BY <1>2, NewsStored, NewsReported
<1>. QED BY <1>1, <1>2, Effects

\* Once all is reported, the last notification of a device is true to the cache,
\* unless its last change was stored while another was still to be reported
\* (probe.go 205-208, 223-226).
THEOREM LastNewsIsCurrent == Spec => []NewsIsCurrent
<1>1. News => NewsIsCurrent
  <2>. SUFFICES ASSUME News, NEW d \in Devices, Pending(d) = {}, cache[d] # NoResult, ~crossed[d]
                PROVE  sent[d] = {cache[d].online}
    BY DEF NewsIsCurrent
  <2>1. \A p \in Probers : ~Reporting(p, d)
    BY DEF Pending, Reporting
  <2>. QED BY <2>1 DEF News, NewsOf
<1>2. Spec => [](Types /\ News)
  BY TypesInit, TypesNext, NewsInit, NewsNext, PTL DEF Spec
<1>. QED BY <1>1, <1>2, PTL

-----------------------------------------------------------------------------
(* How the notifications add up.                                           *)

\* The online and offline changes of d that are to be reported.
Ups(d) == ToCome(d, TRUE)
Downs(d) == ToCome(d, FALSE)
Due(d) == Cardinality(Ups(d)) - Cardinality(Downs(d))

LEMMA ToComeIsFinite ==
    ASSUME NEW d \in Devices
    PROVE  /\ IsFiniteSet(Ups(d)) /\ Cardinality(Ups(d)) \in Nat
           /\ IsFiniteSet(Downs(d)) /\ Cardinality(Downs(d)) \in Nat
           /\ Due(d) \in Int
<1>1. IsFiniteSet(Probers)
  BY FS_AddElement, FS_Union, FS_Singleton DEF Probers
<1>2. Ups(d) \subseteq Probers /\ Downs(d) \subseteq Probers
  BY DEF Ups, Downs, ToCome, Pending
<1>3. /\ IsFiniteSet(Ups(d)) /\ Cardinality(Ups(d)) \in Nat
      /\ IsFiniteSet(Downs(d)) /\ Cardinality(Downs(d)) \in Nat
  BY <1>1, <1>2, FS_Subset, FS_CardinalityType
<1>. QED BY <1>3 DEF Due

\* The online and the offline changes, as sets of probers.
LEMMA InUps ==
    ASSUME Types, NEW d \in Devices, NEW p \in Probers
    PROVE  /\ p \in Ups(d) <=> Reporting(p, d) /\ probe[p].online
           /\ p \in Downs(d) <=> Reporting(p, d) /\ ~probe[p].online
BY ProbeFields DEF Types, TypeOK, Ups, Downs, ToCome, Pending, Reporting

\* What was reported of d and is to be: nothing before the first result.
SumOf(d) ==
    /\ cache[d] = NoResult => net[d] + Due(d) = 0
    /\ cache[d] # NoResult =>
          net[d] + Due(d) \in IF cache[d].online THEN {0, 1} ELSE {-1, 0}

Sums == \A d \in Devices : SumOf(d)

LEMMA SumsInit == Init => Sums
<1>. SUFFICES ASSUME Init, NEW d \in Devices PROVE SumOf(d)
  BY DEF Sums
<1>1. Ups(d) = {} /\ Downs(d) = {}
  BY DEF Init, Ups, Downs, ToCome, Pending, At, Free
<1>2. Cardinality({}) = 0
  BY FS_EmptySet
<1>3. Due(d) = 0
  BY <1>1, <1>2 DEF Due
<1>. QED BY <1>3 DEF Init, SumOf

LEMMA SumsCalm ==
    ASSUME Sums, Calm
    PROVE  Sums'
<1>. SUFFICES ASSUME NEW d \in Devices PROVE SumOf(d)'
  BY DEF Sums
<1>1. Ups(d)' = Ups(d) /\ Downs(d)' = Downs(d)
  BY DEF Calm, Ups, Downs, ToCome, Pending, Reporting
<1>2. Due(d)' = Due(d)
  BY <1>1 DEF Due
<1>3. net'[d] = net[d]
  BY DEF Calm, news
<1>. QED BY <1>2, <1>3 DEF Sums, SumOf, Calm

LEMMA SumsStored ==
    ASSUME Types, Sums, NEW p \in Probers, NEW d \in Devices, StoresChange(p, d)
    PROVE  Sums'
<1>. SUFFICES ASSUME NEW e \in Devices PROVE SumOf(e)'
  BY DEF Sums
<1>1. SumOf(e) /\ net'[e] = net[e] /\ net[e] \in Int
  BY DEF Sums, StoresChange, Types, TypeOK
<1>2. CASE e # d
  <2>1. Ups(e)' = Ups(e) /\ Downs(e)' = Downs(e)
    BY <1>2 DEF StoresChange, Ups, Downs, ToCome, Pending, Reporting
  <2>2. Due(e)' = Due(e)
    BY <2>1 DEF Due
  <2>3. cache'[e] = cache[e]
    BY <1>2 DEF StoresChange
  <2>. QED BY <1>1, <2>2, <2>3 DEF SumOf
<1>3. CASE e = d
  <2>1. probe[p].online \in BOOLEAN
    BY ProbeFields DEF Types, TypeOK
  <2>2. /\ ~Reporting(p, d)
        /\ \A q \in Probers : Reporting(q, d)' <=> Reporting(q, d) \/ q = p
        /\ \A q \in Probers : probe'[q].online = probe[q].online
    BY DEF StoresChange
  <2>3. p \notin Ups(d) /\ p \notin Downs(d)
    BY <2>2, InUps
  <2>4. CASE probe[p].online
    <3>1. Ups(d)' = Ups(d) \cup {p} /\ Downs(d)' = Downs(d)
      BY <2>2, <2>4 DEF Ups, Downs, ToCome, Pending, Reporting
    <3>2. Cardinality(Ups(d)') = Cardinality(Ups(d)) + 1
      BY <2>3, <3>1, ToComeIsFinite, FS_AddElement
    <3>3. Due(d)' = Due(d) + 1
      BY <3>1, <3>2, ToComeIsFinite DEF Due
    <3>4. SumOf(d)'
      <4>1. cache'[d] # NoResult /\ cache'[d].online
        BY <2>4 DEF StoresChange
      <4>2. cache[d] # NoResult => ~cache[d].online
        BY <2>4, <2>1 DEF StoresChange, Types, TypeOK, Result
      <4>3. net[d] + Due(d) \in {0} \cup {-1, 0}
        BY <1>1, <1>3, <4>2 DEF SumOf
      <4>4. net'[d] + Due(d)' = net[d] + Due(d) + 1
        BY <1>1, <1>3, <3>3, ToComeIsFinite
      <4>. QED BY <4>1, <4>3, <4>4 DEF SumOf
    <3>. QED BY <1>3, <3>4
  <2>5. CASE ~probe[p].online
    <3>1. Downs(d)' = Downs(d) \cup {p} /\ Ups(d)' = Ups(d)
      BY <2>2, <2>5 DEF Ups, Downs, ToCome, Pending, Reporting
    <3>2. Cardinality(Downs(d)') = Cardinality(Downs(d)) + 1
      BY <2>3, <3>1, ToComeIsFinite, FS_AddElement
    <3>3. Due(d)' = Due(d) - 1
      BY <3>1, <3>2, ToComeIsFinite DEF Due
    <3>4. SumOf(d)'
      <4>1. cache'[d] # NoResult /\ ~cache'[d].online
        BY <2>5 DEF StoresChange
      <4>2. cache[d] # NoResult => cache[d].online
        BY <2>5, <2>1 DEF StoresChange, Types, TypeOK, Result
      <4>3. net[d] + Due(d) \in {0} \cup {0, 1}
        BY <1>1, <1>3, <4>2 DEF SumOf
      <4>4. net'[d] + Due(d)' = net[d] + Due(d) - 1
        BY <1>1, <1>3, <3>3, ToComeIsFinite
      <4>5. net'[d] + Due(d)' \in {-1, 0}
        BY <1>1, <1>3, <4>3, <4>4, ToComeIsFinite
      <4>. QED BY <4>1, <4>5 DEF SumOf
    <3>. QED BY <1>3, <3>4
  <2>. QED BY <2>4, <2>5
<1>. QED BY <1>2, <1>3

LEMMA SumsReported ==
    ASSUME Types, Sums, NEW p \in Probers, NEW d \in Devices, ReportsChange(p, d)
    PROVE  Sums'
<1>. SUFFICES ASSUME NEW e \in Devices PROVE SumOf(e)'
  BY DEF Sums
<1>1. SumOf(e) /\ cache'[e] = cache[e] /\ net[e] \in Int
  BY DEF Sums, ReportsChange, Types, TypeOK
<1>2. CASE e # d
  <2>1. ~Reporting(p, e)
    BY <1>2 DEF ReportsChange, Reporting, At
  <2>2. Ups(e)' = Ups(e) /\ Downs(e)' = Downs(e)
    <3>1. \A q \in Probers : /\ Reporting(q, e)' <=> Reporting(q, e)
                             /\ Reporting(q, e) => probe'[q].online = probe[q].online
      BY <2>1 DEF ReportsChange
    <3>. QED BY <3>1 DEF Ups, Downs, ToCome, Pending, Reporting
  <2>3. Due(e)' = Due(e) /\ net'[e] = net[e]
    BY <1>2, <2>2 DEF Due, ReportsChange
  <2>. QED BY <1>1, <2>3 DEF SumOf
<1>3. CASE e = d
  <2>1. /\ Reporting(p, d)
        /\ \A q \in Probers : Reporting(q, d)' <=> Reporting(q, d) /\ q # p
        /\ \A q \in Probers \ {p} : probe'[q].online = probe[q].online
    BY DEF ReportsChange
  <2>2. CASE probe[p].online
    <3>1. /\ Ups(d)' = Ups(d) \ {p} /\ Downs(d)' = Downs(d)
          /\ p \in Ups(d)
      BY <2>1, <2>2 DEF Ups, Downs, ToCome, Pending, Reporting
    <3>2. Cardinality(Ups(d)') = Cardinality(Ups(d)) - 1
      <4>1. IsFiniteSet(Ups(d))
        BY ToComeIsFinite
      <4>2. Cardinality(Ups(d) \ {p}) = Cardinality(Ups(d)) - 1
        BY <3>1, <4>1, FS_RemoveElement
      <4>. QED BY <3>1, <4>2
    <3>3. Due(d)' = Due(d) - 1 /\ net'[d] = net[d] + 1
      BY <2>2, <3>1, <3>2, ToComeIsFinite DEF Due, ReportsChange
    <3>. QED BY <1>1, <1>3, <3>3, ToComeIsFinite DEF SumOf
  <2>3. CASE ~probe[p].online
    <3>1. /\ Downs(d)' = Downs(d) \ {p} /\ Ups(d)' = Ups(d)
          /\ p \in Downs(d)
      <4>1. probe[p].online = FALSE
        BY <2>3, ProbeFields DEF Types, TypeOK
      <4>. QED BY <2>1, <4>1 DEF Ups, Downs, ToCome, Pending, Reporting
    <3>2. Cardinality(Downs(d)') = Cardinality(Downs(d)) - 1
      <4>1. IsFiniteSet(Downs(d))
        BY ToComeIsFinite
      <4>2. Cardinality(Downs(d) \ {p}) = Cardinality(Downs(d)) - 1
        BY <3>1, <4>1, FS_RemoveElement
      <4>. QED BY <3>1, <4>2
    <3>3. Due(d)' = Due(d) + 1 /\ net'[d] = net[d] - 1
      BY <2>3, <3>1, <3>2, ToComeIsFinite DEF Due, ReportsChange
    <3>. QED BY <1>1, <1>3, <3>3, ToComeIsFinite DEF SumOf
  <2>. QED BY <2>2, <2>3
<1>. QED BY <1>2, <1>3

LEMMA SumsNext == Types /\ Sums /\ [Next]_vars => Sums'
<1>. SUFFICES ASSUME Types, Sums, [Next]_vars PROVE Sums'
  OBVIOUS
<1>1. CASE Calm
  BY <1>1, SumsCalm
<1>2. ASSUME NEW p \in Probers, NEW d \in Devices, StoresChange(p, d) \/ ReportsChange(p, d)
      PROVE  Sums'
  BY <1>2, SumsStored, SumsReported
<1>. QED BY <1>1, <1>2, Effects

\* However the probes overlap, every change is reported once: the notifications
\* sent and to come alternate (StatusCache.Set, probe.go 43-49).
THEOREM ChangesReportedOnce == Spec => []ChangesAddUp
<1>1. Types /\ Sums => ChangesAddUp
  <2>. SUFFICES ASSUME Types, Sums, NEW d \in Devices, cache[d] # NoResult
                PROVE  net[d] + Cardinality(ToCome(d, TRUE)) - Cardinality(ToCome(d, FALSE)) \in
                          IF cache[d].online THEN {0, 1} ELSE {-1, 0}
    BY DEF ChangesAddUp
  <2>1. net[d] + Due(d) \in IF cache[d].online THEN {0, 1} ELSE {-1, 0}
    BY DEF Sums, SumOf
  <2>2. net[d] + (Cardinality(Ups(d)) - Cardinality(Downs(d)))
           = net[d] + Cardinality(Ups(d)) - Cardinality(Downs(d))
    BY ToComeIsFinite DEF Types, TypeOK
  <2>3. Due(d) = Cardinality(Ups(d)) - Cardinality(Downs(d))
    BY DEF Due
  <2>4. Ups(d) = ToCome(d, TRUE) /\ Downs(d) = ToCome(d, FALSE)
    BY DEF Ups, Downs
  <2>. QED BY <2>1, <2>2, <2>3, <2>4
<1>2. Spec => [](Types /\ Sums)
  BY TypesInit, TypesNext, SumsInit, SumsNext, PTL DEF Spec
<1>. QED BY <1>1, <1>2, PTL

-----------------------------------------------------------------------------
(* How the runner paces itself.                                            *)

\* The runner has a probe of d that it has not stored yet.
Probes(d) == At(Runner, d, "asking") \/ At(Runner, d, "storing")

\* Its result, stored or not, is as old as its last probe of the device: the
\* result in the cache is no older, but for an outdated one, and there is none
\* only when the runner has not probed yet.
PaceOf(d) ==
    /\ Probes(d) => probe[Runner].age = since[d]
    /\ ~Probes(d) =>
          /\ cache[d] = NoResult => since[d] >= Cap
          /\ cache[d] # NoResult /\ ~outdated[d] => cache[d].age <= since[d]

Pace == \A d \in Devices : PaceOf(d)

LEMMA PaceInit == Init => Pace
BY DEF Init, Pace, PaceOf, Probes, At, Free, Probers

LEMMA RunnerType == Types => probe[Runner] \in Probe
BY DEF Types, TypeOK, Probers

\* A step that leaves the runner, the cache and the ages alone.
LEMMA PaceKept ==
    ASSUME Pace, probe'[Runner] = probe[Runner], UNCHANGED <<cache, since, outdated>>
    PROVE  Pace'
BY DEF Pace, PaceOf, Probes, At

LEMMA PaceBegin ==
    ASSUME Types, Pace, NEW d \in Devices, ProbeNext(d)
    PROVE  Pace'
<1>. SUFFICES ASSUME NEW e \in Devices PROVE PaceOf(e)'
  BY DEF Pace
<1>1. probe[Runner].pc = "free" /\ PaceOf(e)
  BY DEF ProbeNext, Pace
<1>2. /\ probe'[Runner].pc = "asking" /\ probe'[Runner].dev = d
      /\ probe'[Runner].age = 0
  BY DEF ProbeNext, Begin, Types, TypeOK, Probers
<1>3. cache' = cache /\ since'[e] = (IF e = d THEN 0 ELSE since[e])
      /\ outdated'[e] = (IF e = d THEN FALSE ELSE outdated[e])
  BY DEF ProbeNext, Types, TypeOK
<1>4. CASE e = d
  BY <1>2, <1>3, <1>4 DEF PaceOf, Probes, At
<1>5. CASE e # d
  BY <1>1, <1>2, <1>3, <1>5 DEF PaceOf, Probes, At
<1>. QED BY <1>4, <1>5

LEMMA PaceAnswer ==
    ASSUME Types, Pace, NEW p \in Probers, Answer(p)
    PROVE  Pace'
<1>1. CASE p # Runner
  BY <1>1, PaceKept DEF Answer, pace, Types, TypeOK, Probers
<1>2. CASE p = Runner
  <2>. DEFINE b == probe[p].target /\ up[probe[p].dev]
  <2>1. probe[p] \in Probe /\ probe[p].pc = "asking"
    BY DEF Types, TypeOK, Answer
  <2>2. probe'[p] = [probe[p] EXCEPT !.pc = "storing", !.online = b]
    BY DEF Answer, Types, TypeOK
  <2>. HIDE DEF b
  <2>3. /\ probe'[p].pc = "storing" /\ probe'[p].dev = probe[p].dev
        /\ probe'[p].age = probe[p].age
    BY <2>1, <2>2 DEF Probe
  <2>4. UNCHANGED <<cache, since, outdated>>
    BY DEF Answer, pace
  <2>. QED BY <1>2, <2>1, <2>3, <2>4 DEF Pace, PaceOf, Probes, At
<1>. QED BY <1>1, <1>2

LEMMA PaceStore ==
    ASSUME Types, Pace, NEW p \in Probers, Store(p)
    PROVE  Pace'
<1>0. PICK d \in Devices : d = probe[p].dev
  BY DEF Types, AtWork, Store
<1>1. probe[p] \in Probe /\ d = probe[p].dev /\ probe[p].pc = "storing" /\ probe[p].age \in Nat
  BY <1>0, ProbeFields DEF Types, TypeOK, Store
<1>2. since[d] \in Nat
  BY <1>1 DEF Types, TypeOK
<1>3. probe'[p].pc # "asking" /\ probe'[p].pc # "storing"
  <2>1. probe' = [probe EXCEPT ![p] = [probe[p] EXCEPT !.pc = "reporting"]] \/ probe' = [probe EXCEPT ![p] = Free]
    BY DEF Store, Types, TypeOK
  <2>2. probe'[p] = [probe[p] EXCEPT !.pc = "reporting"] \/ probe'[p] = Free
    BY <2>1 DEF Types, TypeOK
  <2>. QED BY <1>1, <2>2 DEF Probe, Free
<1>4. \A q \in Probers \ {p} : probe'[q] = probe[q]
  BY DEF Store, Types, TypeOK
<1>5. /\ cache'[d] = [online |-> probe[p].online, age |-> probe[p].age]
      /\ outdated'[d] <=> (p # Runner /\ probe[p].age > since[d])
      /\ \A e \in Devices \ {d} : cache'[e] = cache[e] /\ outdated'[e] = outdated[e]
      /\ since' = since
  BY <1>1 DEF Store, Types, TypeOK
<1>6. cache'[d] # NoResult /\ cache'[d].age = probe[p].age
  <2>1. cache'[d] \in Result
    BY <1>1, <1>5, ProbeFields DEF Result
  <2>. QED BY <1>5, <2>1
<1>7. p = Runner => probe[p].age = since[d]
  BY <1>1 DEF Pace, PaceOf, Probes, At
<1>9. PaceOf(d)'
  <2>1. Probes(d)' => p # Runner /\ Probes(d)
    BY <1>1, <1>3, <1>4 DEF Probes, At, Probers
  <2>2. Probes(d)' => probe'[Runner].age = since'[d]
    BY <1>1, <1>4, <1>5, <2>1 DEF Pace, PaceOf, Probers
  <2>3. ~outdated'[d] => cache'[d].age <= since'[d]
    BY <1>1, <1>2, <1>5, <1>6, <1>7
  <2>. QED BY <1>6, <2>2, <2>3 DEF PaceOf
<1>10. ASSUME NEW e \in Devices, e # d PROVE PaceOf(e)'
  <2>1. PaceOf(e)
    BY DEF Pace
  <2>2. cache'[e] = cache[e] /\ outdated'[e] = outdated[e] /\ since'[e] = since[e]
    BY <1>5, <1>10
  <2>3. /\ Probes(e)' <=> Probes(e)
        /\ Probes(e)' => probe'[Runner].age = probe[Runner].age
    BY <1>1, <1>3, <1>4, <1>10 DEF Probes, At, Probers
  <2>. QED BY <2>1, <2>2, <2>3 DEF PaceOf
<1>. QED BY <1>9, <1>10 DEF Pace

LEMMA PaceReport ==
    ASSUME Types, Pace, NEW p \in Probers, Report(p)
    PROVE  Pace'
<1>1. CASE p # Runner
  BY <1>1, PaceKept DEF Report, pace, Types, TypeOK, Probers
<1>2. CASE p = Runner
  <2>1. probe'[p] = Free /\ Free.pc = "free" /\ probe[p].pc = "reporting"
    BY DEF Report, Types, TypeOK, Free
  <2>2. UNCHANGED <<cache, since, outdated>>
    BY DEF Report, pace
  <2>. QED BY <1>2, <2>1, <2>2 DEF Pace, PaceOf, Probes, At
<1>. QED BY <1>1, <1>2

LEMMA PacePass ==
    ASSUME Types, Pace, Pass
    PROVE  Pace'
<1>. SUFFICES ASSUME NEW d \in Devices PROVE PaceOf(d)'
  BY DEF Pace
<1>1. PaceOf(d) /\ since[d] \in Nat
  BY DEF Pace, Types, TypeOK
<1>2. since'[d] = Older(since[d]) /\ outdated' = outdated
  BY DEF Pass
<1>3. CASE Probes(d)
  <2>1. probe[Runner] \in Probe /\ probe[Runner].pc # "free"
    BY <1>3, RunnerType DEF Probes, At
  <2>2. probe'[Runner] = [probe[Runner] EXCEPT !.age = Older(@)]
    BY <2>1 DEF Pass, Probers
  <2>3. /\ probe'[Runner].pc = probe[Runner].pc /\ probe'[Runner].dev = probe[Runner].dev
        /\ probe'[Runner].age = Older(probe[Runner].age)
    BY <2>1, <2>2 DEF Probe
  <2>. QED BY <1>1, <1>2, <1>3, <2>3 DEF PaceOf, Probes, At
<1>4. CASE ~Probes(d)
  <2>1. ~Probes(d)'
    <3>1. probe'[Runner] = probe[Runner] \/ probe'[Runner] = [probe[Runner] EXCEPT !.age = Older(@)]
      BY DEF Pass, Probers
    <3>2. probe'[Runner].pc = probe[Runner].pc /\ probe'[Runner].dev = probe[Runner].dev
      BY <3>1, RunnerType DEF Probe
    <3>. QED BY <1>4, <3>2 DEF Probes, At
  <2>2. CASE cache[d] = NoResult
    <3>1. cache'[d] = NoResult
      BY <2>2 DEF Pass
    <3>. QED BY <1>1, <1>2, <1>4, <2>1, <2>2, <3>1, OlderIsNat DEF PaceOf
  <2>3. CASE cache[d] # NoResult
    <3>1. cache[d] \in Result /\ cache[d].age \in Nat
      BY <2>3 DEF Types, TypeOK, Result
    <3>2. cache'[d] = [cache[d] EXCEPT !.age = Older(@)]
      BY <2>3 DEF Pass
    <3>3. cache'[d] \in Result /\ cache'[d].age = Older(cache[d].age)
      BY <3>1, <3>2, OlderIsNat DEF Result
    <3>4. ~outdated[d] => Older(cache[d].age) <= Older(since[d])
      BY <1>1, <1>4, <2>3, <3>1, OlderIsMonotone DEF PaceOf
    <3>. QED BY <1>2, <2>1, <3>3, <3>4 DEF PaceOf
  <2>. QED BY <2>2, <2>3
<1>. QED BY <1>3, <1>4

LEMMA PaceNext == Types /\ Pace /\ [Next]_vars => Pace'
<1>. SUFFICES ASSUME Types, Pace, [Next]_vars PROVE Pace'
  OBVIOUS
<1>1. CASE UNCHANGED vars
  BY <1>1, PaceKept DEF vars, pace
<1>2. ASSUME NEW p \in Probers, Probing(p) PROVE Pace'
  BY <1>2, PaceAnswer, PaceStore, PaceReport DEF Probing
<1>3. CASE Ticking
  BY <1>3, PaceKept, PaceBegin DEF Ticking, Tick, Skip, pace
<1>4. ASSUME NEW d \in Devices, Edit(d) \/ Flip(d) PROVE Pace'
  BY <1>4, PaceKept DEF Edit, Flip, pace
<1>5. ASSUME NEW d \in Devices, NEW p \in Callers, ProbeDevice(p, d) PROVE Pace'
  <2>1. probe'[Runner] = probe[Runner]
    BY <1>5 DEF ProbeDevice, Begin, Types, TypeOK, Probers
  <2>. QED BY <1>5, <2>1, PaceKept DEF ProbeDevice, pace
<1>. QED BY <1>1, <1>2, <1>3, <1>4, <1>5, PacePass DEF Next

\* The runner leaves an interval between two probes of a device, however long a
\* tick takes, unless it is misled by an outdated result (probe.go 191-201).
THEOREM IntervalsAreKept == Spec => Paced
<1>1. ASSUME Types, Pace, NEW d \in Devices, ProbeNext(d)
      PROVE  since[d] >= todo[d].every \/ outdated[d]
  <2>. SUFFICES ASSUME ~outdated[d] PROVE since[d] >= todo[d].every
    OBVIOUS
  <2>1. todo[d] \in Config /\ ~Fresh(d) /\ probe[Runner].pc = "free"
    BY <1>1 DEF ProbeNext, Ahead, Types, TypeOK
  <2>2. todo[d].every \in Intervals /\ todo[d].every \in Nat
    BY <2>1 DEF Config
  <2>3. since[d] \in Nat /\ lag \in Nat
    BY <1>1 DEF Types, TypeOK
  <2>4. ~Probes(d)
    BY <2>1 DEF Probes, At
  <2>5. CASE cache[d] = NoResult
    <3>1. since[d] >= Cap
      BY <1>1, <2>4, <2>5 DEF Pace, PaceOf
    <3>2. todo[d].every + MaxLag <= Cap
      BY <2>2
    <3>. QED BY <2>2, <2>3, <3>1, <3>2
  <2>6. CASE cache[d] # NoResult
    <3>1. cache[d].age \in Nat /\ cache[d].age <= since[d]
      BY <1>1, <2>4, <2>6 DEF Types, TypeOK, Result, Pace, PaceOf
    <3>2. ~(cache[d].age - lag < todo[d].every)
      BY <2>1, <2>6 DEF Fresh
    <3>. QED BY <2>2, <2>3, <3>1, <3>2
  <2>. QED BY <2>5, <2>6
<1>2. Types /\ Pace /\ [Next]_vars
         => [\A d \in Devices : ProbeNext(d) => since[d] >= todo[d].every \/ outdated[d]]_vars
  BY <1>1
<1>3. Spec => [](Types /\ Pace)
  BY TypesInit, TypesNext, PaceInit, PaceNext, PTL DEF Spec
<1>. QED BY <1>2, <1>3, PTL DEF Spec, Paced

=============================================================================
