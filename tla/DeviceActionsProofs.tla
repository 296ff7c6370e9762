------------------------- MODULE DeviceActionsProofs -------------------------
(***************************************************************************)
(* Theorems about DeviceActions for any devices, groups, lists of devices  *)
(* (with repeats), callers and capacity of the ring: what a call answers   *)
(* is what the log tells, and groups forget deleted devices.               *)
(*                                                                         *)
(* The argument goes through what the listing shows of the entries made    *)
(* since a call began: an Add by anybody only adds to it while the ring    *)
(* has them all.                                                           *)
(***************************************************************************)
EXTENDS DeviceActions, AuditRingProofs

USE BodiesAssumption, EntriesAssumption, BoundsAssumption, RunnerAssumption, NoneAssumption

-----------------------------------------------------------------------------
(* The ring.                                                               *)

LEMMA AddKeepsType ==
    ASSUME RingTypeOK, NEW e \in Entries, Add(e)
    PROVE  RingTypeOK'
<1>1. next' \in Slots
  BY CapIsPositive DEF RingTypeOK, Add, Slots
<1>2. size' \in 0 .. Cap
  BY CapIsPositive DEF RingTypeOK, Add
<1>. QED BY <1>1, <1>2 DEF RingTypeOK, Add

LEMMA RingKept ==
    ASSUME UNCHANGED ringVars
    PROVE  List(0)' = List(0) /\ size' = size /\ (RingTypeOK => RingTypeOK')
BY DEF ringVars, List, SlotOf, RingTypeOK

\* What the listing shows of the entries made since there were b.
Shown(b) == {List(0)[k] : k \in 1 .. total - b}

LEMMA ShownGrows ==
    ASSUME RingTypeOK, NEW e \in Entries, Add(e), total \in Nat, total' = total + 1,
           NEW b \in Nat, b <= total, total' - b <= size'
    PROVE  total - b <= size /\ Shown(b)' = Shown(b) \cup {e}
<1>1. RingTypeOK'
  BY AddKeepsType
<1>. DEFINE n == total - b
<1>2. /\ size \in 0 .. Cap /\ size' = (IF size < Cap THEN size + 1 ELSE Cap) /\ size' \in 1 .. Cap
      /\ n \in Nat /\ n + 1 <= size' /\ n <= size /\ total' - b = n + 1
  BY <1>1, AddInList, CapIsPositive DEF RingTypeOK
<1>3. /\ List(0)'[1] = e
      /\ \A k \in 2 .. size' : List(0)'[k] = List(0)[k - 1]
  BY <1>1, AddInList
<1>4. Shown(b)' = {List(0)'[k] : k \in 1 .. n + 1}
  BY <1>2 DEF Shown
<1>5. Shown(b) = {List(0)[k] : k \in 1 .. n}
  BY DEF Shown
<1>. DEFINE old == List(0)
            new == List(0)'
<1>6. /\ new[1] = e
      /\ \A k \in 2 .. size' : new[k] = old[k - 1]
  BY <1>3
<1>. HIDE DEF n, old, new
<1>7. {new[k] : k \in 1 .. n + 1} = {old[k] : k \in 1 .. n} \cup {e}
  <2>0. n \in Nat /\ size' \in Nat /\ n + 1 <= size'
    BY <1>2, CapIsPositive
  <2>1. 1 \in 1 .. n + 1 /\ \A k \in 1 .. n + 1 : k = 1 \/ (k \in 2 .. size' /\ k - 1 \in 1 .. n)
    BY <2>0
  <2>2. \A k \in 1 .. n : k + 1 \in 1 .. n + 1 /\ k + 1 \in 2 .. size' /\ (k + 1) - 1 = k
    BY <2>0
  <2>3. ASSUME NEW k \in 1 .. n + 1 PROVE new[k] \in {old[j] : j \in 1 .. n} \cup {e}
    BY <1>6, <2>1
  <2>4. ASSUME NEW k \in 1 .. n PROVE old[k] \in {new[j] : j \in 1 .. n + 1}
    <3>1. new[k + 1] = old[k]
      BY <1>6, <2>2
    <3>. QED BY <2>2, <3>1
  <2>5. e \in {new[j] : j \in 1 .. n + 1}
    BY <1>6, <2>1
  <2>. QED BY <2>3, <2>4, <2>5
<1>8. total - b <= size
  BY <1>2 DEF n
<1>. QED BY <1>4, <1>5, <1>7, <1>8 DEF old, new

-----------------------------------------------------------------------------
(* Types.                                                                  *)

LEMMA CallFields ==
    ASSUME NEW c \in Calls
    PROVE  /\ c.pc \in {"idle", "walk", "record", "refused"} /\ c.event \in Events
           /\ c.of \in Lists /\ c.left \in Lists /\ c.now \in Devices \cup {NoDevice}
           /\ c.out \in [Devices -> Results] /\ c.ok \in BOOLEAN
           /\ c.target \in Devices \cup Groups \cup {NoDevice}
           /\ c.told \in BOOLEAN /\ c.began \in Nat
BY DEF Calls

LEMMA NobodyType == Nobody \in Lists
BY DEF Nobody, Lists

LEMMA IdleType == Idle \in Calls
<1>1. [d \in Devices |-> "none"] \in [Devices -> Results]
  BY DEF Results
<1>. QED BY <1>1, NobodyType DEF Idle, Calls, Events

\* A call that begins: what it becomes in every field.
LEMMA StartedFields ==
    ASSUME NEW e \in Events, NEW l \in Lists, NEW t \in Devices \cup Groups \cup {NoDevice},
           total \in Nat, NEW c, c = Started(e, l, t) \/ (c = Refused(e, t) /\ l = Nobody)
    PROVE  /\ c \in Calls /\ c.pc \in {"walk", "refused"} /\ c.left = c.of /\ ~c.told
           /\ c.began = total /\ c.out = [d \in Devices |-> "none"]
<1>1. Idle \in Calls /\ Idle.told = FALSE /\ Idle.out = [d \in Devices |-> "none"]
  BY IdleType DEF Idle
<1>2. Started(e, l, t) = [Idle EXCEPT !.pc = "walk", !.event = e, !.of = l, !.left = l,
                                      !.target = t, !.began = total]
  BY DEF Started
<1>3. Started(e, Nobody, t) = [Idle EXCEPT !.pc = "walk", !.event = e, !.of = Nobody,
                                      !.left = Nobody, !.target = t, !.began = total]
  BY DEF Started
<1>. HIDE DEF Lists
<1>4. CASE c = Started(e, l, t)
  <2>1. PICK i \in Calls : i = Idle
    BY <1>1
  <2>2. c = [i EXCEPT !.pc = "walk", !.event = e, !.of = l, !.left = l,
                      !.target = t, !.began = total]
    BY <1>2, <1>4, <2>1
  <2>3. c \in Calls
    BY <2>2 DEF Calls
  <2>4. /\ c.pc = "walk" /\ c.of = l /\ c.left = l
        /\ c.told = i.told /\ c.began = total /\ c.out = i.out
    BY <2>2 DEF Calls
  <2>5. c.told = FALSE /\ c.out = Idle.out
    BY <1>1, <2>1, <2>4
  <2>. QED BY <1>1, <2>3, <2>4, <2>5
<1>5. CASE c = Refused(e, t)
  <2>. DEFINE s == Started(e, Nobody, t)
  <2>1. PICK i \in Calls : i = Idle
    BY <1>1
  <2>2. s = [i EXCEPT !.pc = "walk", !.event = e, !.of = Nobody, !.left = Nobody,
                      !.target = t, !.began = total]
    BY <1>3, <2>1
  <2>3. c = [s EXCEPT !.pc = "refused"]
    BY <1>5 DEF Refused
  <2>. HIDE DEF s
  <2>4. s \in Calls
    BY <2>2, NobodyType DEF Calls
  <2>5. /\ s.of = Nobody /\ s.left = Nobody
        /\ s.told = i.told /\ s.began = total /\ s.out = i.out
    BY <2>2 DEF Calls
  <2>6. c \in Calls /\ c.pc = "refused"
    BY <2>3, <2>4 DEF Calls
  <2>7. c.of = s.of /\ c.left = s.left /\ c.told = s.told /\ c.began = s.began /\ c.out = s.out
    BY <2>3, <2>4 DEF Calls
  <2>. QED BY <1>1, <2>1, <2>5, <2>6, <2>7
<1>. QED BY <1>4, <1>5

\* A call that takes a device from its list and sends.
LEMMA SendFields ==
    ASSUME NEW c \in Calls, NEW d \in Devices, NEW b \in BOOLEAN, c.left[d] > 0, NEW n,
           n = Sent(c, d, b)
    PROVE  /\ n \in Calls /\ n.pc = "record" /\ n.event = c.event /\ n.of = c.of
           /\ n.left = [c.left EXCEPT ![d] = c.left[d] - 1] /\ n.now = d /\ n.out = c.out
           /\ n.ok = b /\ n.target = c.target /\ n.told = c.told /\ n.began = c.began
<1>. DEFINE l == [c.left EXCEPT ![d] = c.left[d] - 1]
<1>1. l \in Lists
  BY CallFields DEF Lists
<1>2. n = [c EXCEPT !.left = l, !.pc = "record", !.now = d, !.ok = b]
  BY DEF Calls, Sent
<1>. HIDE DEF l, Lists
<1>3. n \in Calls
  BY <1>1, <1>2 DEF Calls
<1>4. /\ n.pc = "record" /\ n.event = c.event /\ n.of = c.of
      /\ n.left = l /\ n.now = d /\ n.out = c.out
  BY <1>2 DEF Calls
<1>5. n.ok = b /\ n.target = c.target /\ n.told = c.told /\ n.began = c.began
  BY <1>2 DEF Calls
<1>. QED BY <1>3, <1>4, <1>5 DEF l

LEMMA NotFoundFields ==
    ASSUME NEW c \in Calls, NEW d \in Devices, c.left[d] > 0, NEW n,
           n = Missed(c, d)
    PROVE  /\ n \in Calls /\ n.pc = c.pc /\ n.event = c.event /\ n.of = c.of
           /\ n.left = [c.left EXCEPT ![d] = c.left[d] - 1] /\ n.now = c.now
           /\ n.out = [c.out EXCEPT ![d] = "gone"]
           /\ n.ok = c.ok /\ n.target = c.target /\ n.told = c.told /\ n.began = c.began
<1>. DEFINE l == [c.left EXCEPT ![d] = c.left[d] - 1]
            o == [c.out EXCEPT ![d] = "gone"]
<1>1. l \in Lists /\ o \in [Devices -> Results]
  BY CallFields DEF Lists, Results
<1>2. n = [c EXCEPT !.left = l, !.out = o]
  BY DEF Calls, Missed
<1>. HIDE DEF l, o
<1>. QED BY <1>1, <1>2 DEF Calls, l, o

LEMMA RecordFields ==
    ASSUME NEW c \in Calls, c.now \in Devices, NEW n, n = Recorded(c)
    PROVE  /\ n \in Calls /\ n.pc = "walk" /\ n.event = c.event /\ n.of = c.of
           /\ n.left = c.left /\ n.now = NoDevice
           /\ n.out = [c.out EXCEPT ![c.now] = IF c.ok THEN "ok" ELSE "failed"]
           /\ n.ok = FALSE /\ n.target = c.target /\ n.told = c.told /\ n.began = c.began
<1>. DEFINE o == [c.out EXCEPT ![c.now] = IF c.ok THEN "ok" ELSE "failed"]
<1>1. o \in [Devices -> Results]
  BY CallFields DEF Results
<1>2. n = [c EXCEPT !.pc = "walk", !.now = NoDevice, !.ok = FALSE, !.out = o]
  BY DEF Calls, Recorded
<1>. HIDE DEF o
<1>. QED BY <1>1, <1>2 DEF Calls, o

LEMMA ToldFields ==
    ASSUME NEW c \in Calls, NEW n, n = [c EXCEPT !.told = TRUE]
    PROVE  /\ n \in Calls /\ n.pc = c.pc /\ n.event = c.event /\ n.of = c.of
           /\ n.left = c.left /\ n.now = c.now /\ n.out = c.out
           /\ n.ok = c.ok /\ n.target = c.target /\ n.told = TRUE /\ n.began = c.began
BY DEF Calls

LEMMA EntryType ==
    ASSUME NEW e \in Events \cup {"schedule"}, NEW t \in Devices \cup Groups, NEW b \in BOOLEAN
    PROVE  Entry(e, t, b) \in Entries
BY DEF Entry

-----------------------------------------------------------------------------
(* The invariant.                                                          *)

\* Every result a call has is in the log.
ResultsLogged(a) ==
    \A d \in Devices :
        /\ call[a].out[d] = "ok" => Entry(call[a].event, d, TRUE) \in Since(a)
        /\ call[a].out[d] = "failed" => Entry(call[a].event, d, FALSE) \in Since(a)

\* So is what the runner was told.
OutcomeLogged(a) ==
    call[a].told => Entry("schedule", call[a].target, Ok(a)) \in Since(a)

\* A device of the list that is not left has a result, or is being acted on; and
\* who was told was told of an answer.
Sound(a) ==
    /\ call[a].began <= total
    /\ \A d \in Devices :
          call[a].of[d] > 0 /\ call[a].left[d] = 0 =>
              call[a].out[d] # "none" \/ (call[a].pc = "record" /\ call[a].now = d)
    /\ call[a].told => Answered(a)
    /\ Kept(a) => ResultsLogged(a) /\ OutcomeLogged(a)

Inv == TypeOK /\ \A a \in Callers : Sound(a)

LEMMA SinceSame ==
    ASSUME NEW a \in Callers, UNCHANGED logVars, call'[a].began = call[a].began
    PROVE  (Kept(a)' <=> Kept(a)) /\ Since(a)' = Since(a)
BY RingKept DEF logVars, Kept, Since

LEMMA SinceGrows ==
    ASSUME TypeOK, NEW a \in Callers, NEW e \in Entries, Add(e), total' = total + 1,
           call[a].began <= total, call'[a].began = call[a].began, Kept(a)'
    PROVE  Kept(a) /\ Since(a)' = Since(a) \cup {e}
<1>1. PICK b \in Nat : b = call[a].began
  BY CallFields DEF TypeOK
<1>2. RingTypeOK /\ total \in Nat
  BY DEF TypeOK
<1>3. total' - b <= size'
  BY <1>1 DEF Kept
<1>4. total - b <= size /\ Shown(b)' = Shown(b) \cup {e}
  BY <1>1, <1>2, <1>3, ShownGrows
<1>5. Since(a) = Shown(b)
  BY <1>1 DEF Since, Shown
<1>6. Since(a)' = Shown(b)'
  BY <1>1 DEF Since, Shown
<1>. QED BY <1>1, <1>4, <1>5, <1>6 DEF Kept

\* What others do to the log leaves a call sound.
LEMMA OthersSound ==
    ASSUME Inv, NEW a \in Callers, call'[a] = call[a],
           \/ UNCHANGED logVars
           \/ \E e \in Entries : Add(e) /\ total' = total + 1
    PROVE  Sound(a)'
<1>1. Sound(a) /\ total \in Nat /\ call[a].began \in Nat
  BY CallFields DEF Inv, TypeOK
<1>2. /\ Ok(a)' <=> Ok(a)
      /\ Answered(a)' <=> Answered(a)
  BY DEF Ok, Answered, Walked
<1>3. Ok(a)' = Ok(a)
  BY <1>2, Zenon DEF Ok
<1>4. Entry("schedule", call[a].target, Ok(a))' = Entry("schedule", call[a].target, Ok(a))
  BY <1>3, Zenon DEF Entry
<1>5. CASE UNCHANGED logVars
  <2>1. (Kept(a)' <=> Kept(a)) /\ Since(a)' = Since(a) /\ total' = total
    BY <1>5, SinceSame DEF logVars
  <2>2. (ResultsLogged(a)' <=> ResultsLogged(a)) /\ (OutcomeLogged(a)' <=> OutcomeLogged(a))
    BY <1>4, <2>1 DEF ResultsLogged, OutcomeLogged
  <2>. QED BY <1>1, <1>2, <2>1, <2>2 DEF Sound
<1>6. ASSUME NEW e \in Entries, Add(e), total' = total + 1 PROVE Sound(a)'
  <2>1. Kept(a)' => Kept(a) /\ Since(a) \subseteq Since(a)'
    BY <1>1, <1>6, SinceGrows DEF Inv, Sound
  <2>2. Kept(a)' /\ ResultsLogged(a) => ResultsLogged(a)'
    BY <2>1 DEF ResultsLogged
  <2>3. Kept(a)' /\ OutcomeLogged(a) => OutcomeLogged(a)'
    BY <1>4, <2>1 DEF OutcomeLogged
  <2>4. call'[a].began <= total'
    BY <1>1, <1>6 DEF Sound
  <2>. QED BY <1>1, <1>2, <2>1, <2>2, <2>3, <2>4 DEF Sound
<1>. QED BY <1>5, <1>6

\* The types of the calls after a step of one of them.
LEMMA CallType ==
    ASSUME TypeOK, NEW a \in Callers, NEW c \in Calls, call' = [call EXCEPT ![a] = c],
           c.pc = "record" => c.now \in Devices
    PROVE  /\ call' \in [Callers -> Calls] /\ call'[a] = c
           /\ \A b \in Callers \ {a} : call'[b] = call[b]
           /\ \A b \in Callers : call'[b].pc = "record" => call'[b].now \in Devices
BY DEF TypeOK

LEMMA InvInit == Init => Inv
<1>. SUFFICES ASSUME Init PROVE Inv
  OBVIOUS
<1>1. RingTypeOK
  BY CapIsPositive DEF Init, RingInit, RingTypeOK, Slots
<1>2. call \in [Callers -> Calls] /\ \A a \in Callers : call[a] = Idle
  BY IdleType DEF Init
<1>3. /\ Idle.pc = "idle" /\ Idle.began = 0 /\ Idle.told = FALSE /\ Idle.of = Nobody
      /\ Idle.out = [d \in Devices |-> "none"]
  BY DEF Idle
<1>4. TypeOK
  <2>1. groups \in [Groups -> Lists \cup {NoGroup}] /\ unknown \in [Groups -> SUBSET Devices]
    BY DEF Init
  <2>2. total \in Nat /\ calls \in 0 .. MaxCalls /\ edits \in 0 .. MaxEdits
    BY DEF Init
  <2>. QED BY <1>1, <1>2, <1>3, <2>1, <2>2 DEF Init, TypeOK
<1>5. ASSUME NEW a \in Callers PROVE Sound(a)
  <2>1. call[a].began = 0 /\ total = 0
    BY <1>2, <1>3 DEF Init
  <2>2. \A d \in Devices : ~(call[a].of[d] > 0) /\ call[a].out[d] = "none"
    BY <1>2, <1>3 DEF Nobody
  <2>3. ~call[a].told
    BY <1>2, <1>3
  <2>4. ResultsLogged(a)
    BY <2>2 DEF ResultsLogged
  <2>5. OutcomeLogged(a)
    BY <2>3 DEF OutcomeLogged
  <2>. QED BY <2>1, <2>2, <2>3, <2>4, <2>5 DEF Sound
<1>. QED BY <1>4, <1>5 DEF Inv

LEMMA StartInv ==
    ASSUME Inv, NEW a \in Callers, NEW e \in Events, NEW l \in Lists,
           NEW t \in Devices \cup Groups \cup {NoDevice}, NEW c,
           c = Started(e, l, t) \/ (c = Refused(e, t) /\ l = Nobody), Start(a, c)
    PROVE  Inv'
<1>1. TypeOK /\ total \in Nat
  BY DEF Inv, TypeOK
<1>2. /\ c \in Calls /\ c.pc \in {"walk", "refused"} /\ c.left = c.of /\ ~c.told
      /\ c.began = total /\ c.out = [d \in Devices |-> "none"]
  BY <1>1, StartedFields
<1>3. /\ call' \in [Callers -> Calls] /\ call'[a] = c
      /\ \A b \in Callers \ {a} : call'[b] = call[b]
      /\ \A b \in Callers : call'[b].pc = "record" => call'[b].now \in Devices
  BY <1>1, <1>2, CallType DEF Start
<1>4. TypeOK'
  <2>1. calls' \in 0 .. MaxCalls
    BY <1>1 DEF Start, TypeOK
  <2>2. UNCHANGED <<logVars, storeVars>>
    BY DEF Start
  <2>. QED BY <1>1, <1>3, <2>1, <2>2, RingKept DEF TypeOK, logVars, storeVars
<1>5. Sound(a)'
  <2>1. call'[a].began <= total'
    BY <1>1, <1>2, <1>3 DEF Start, logVars
  <2>2. c.of \in Lists
    BY <1>2, CallFields
  <2>3. \A d \in Devices : ~(call'[a].of[d] > 0 /\ call'[a].left[d] = 0)
    BY <1>2, <1>3, <2>2 DEF Lists
  <2>4. ~call'[a].told /\ \A d \in Devices : call'[a].out[d] = "none"
    BY <1>2, <1>3
  <2>. QED BY <2>1, <2>3, <2>4 DEF Sound, ResultsLogged, OutcomeLogged
<1>6. ASSUME NEW b \in Callers, b # a PROVE Sound(b)'
  BY <1>3, <1>6, OthersSound DEF Start
<1>. QED BY <1>4, <1>5, <1>6 DEF Inv

LEMMA NotFoundInv ==
    ASSUME Inv, NEW a \in Callers, NEW d \in Devices, NotFound(a, d)
    PROVE  Inv'
<1>. DEFINE n == Missed(call[a], d)
<1>1. TypeOK /\ call[a] \in Calls /\ Sound(a) /\ call[a].pc = "walk" /\ call[a].left[d] > 0
  BY DEF Inv, TypeOK, NotFound, Walking
<1>2. /\ n \in Calls /\ n.pc = "walk" /\ n.event = call[a].event /\ n.of = call[a].of
      /\ n.left = [call[a].left EXCEPT ![d] = call[a].left[d] - 1]
      /\ n.out = [call[a].out EXCEPT ![d] = "gone"]
      /\ n.target = call[a].target /\ n.told = call[a].told /\ n.began = call[a].began
  <2>1. PICK c \in Calls : c = call[a]
    BY <1>1
  <2>2. n = Missed(c, d) /\ c.left[d] > 0 /\ c.pc = "walk"
    BY <1>1, <2>1
  <2>. HIDE DEF n
  <2>3. /\ n \in Calls /\ n.pc = c.pc /\ n.event = c.event /\ n.of = c.of
        /\ n.left = [c.left EXCEPT ![d] = c.left[d] - 1]
        /\ n.out = [c.out EXCEPT ![d] = "gone"]
        /\ n.target = c.target /\ n.told = c.told /\ n.began = c.began
    BY <2>2, NotFoundFields
  <2>. QED BY <2>1, <2>2, <2>3
<1>3. call' = [call EXCEPT ![a] = n]
  BY DEF NotFound
<1>. HIDE DEF n
<1>4. /\ call' \in [Callers -> Calls] /\ call'[a] = n
      /\ \A b \in Callers \ {a} : call'[b] = call[b]
      /\ \A b \in Callers : call'[b].pc = "record" => call'[b].now \in Devices
  BY <1>1, <1>2, <1>3, CallType
<1>5. UNCHANGED <<logVars, storeVars, calls>>
  BY DEF NotFound
<1>6. TypeOK'
  BY <1>1, <1>4, <1>5, RingKept DEF TypeOK, logVars, storeVars
<1>7. Sound(a)'
  <2>1. ~call[a].told
    BY <1>1 DEF Sound, Answered, Walked, Members
  <2>2. (Kept(a)' <=> Kept(a)) /\ Since(a)' = Since(a)
    BY <1>2, <1>4, <1>5, SinceSame
  <2>3. call[a].out \in [Devices -> Results] /\ call[a].left \in [Devices -> Nat]
    BY <1>1, CallFields DEF Lists
  <2>4. ResultsLogged(a) => ResultsLogged(a)'
    BY <1>2, <1>4, <2>2, <2>3 DEF ResultsLogged, Entry
  <2>5. ASSUME NEW x \in Devices, call'[a].of[x] > 0, call'[a].left[x] = 0
        PROVE  call'[a].out[x] # "none"
    BY <1>1, <1>2, <1>4, <2>3, <2>5 DEF Sound
  <2>6. call'[a].began <= total'
    BY <1>1, <1>2, <1>4, <1>5 DEF Sound, logVars
  <2>. QED BY <1>1, <1>2, <1>4, <2>1, <2>2, <2>4, <2>5, <2>6 DEF Sound, OutcomeLogged
<1>8. ASSUME NEW b \in Callers, b # a PROVE Sound(b)'
  BY <1>4, <1>5, <1>8, OthersSound
<1>. QED BY <1>6, <1>7, <1>8 DEF Inv

LEMMA SendInv ==
    ASSUME Inv, NEW a \in Callers, NEW d \in Devices, Send(a, d)
    PROVE  Inv'
<1>1. TypeOK /\ call[a] \in Calls /\ Sound(a) /\ call[a].pc = "walk" /\ call[a].left[d] > 0
  BY DEF Inv, TypeOK, Send, Walking
<1>2. PICK ok \in BOOLEAN :
         call' = [call EXCEPT ![a] = Sent(@, d, ok)]
  BY DEF Send
<1>. DEFINE n == Sent(call[a], d, ok)
<1>3. /\ n \in Calls /\ n.pc = "record" /\ n.event = call[a].event /\ n.of = call[a].of
      /\ n.left = [call[a].left EXCEPT ![d] = call[a].left[d] - 1] /\ n.now = d
      /\ n.out = call[a].out
      /\ n.target = call[a].target /\ n.told = call[a].told /\ n.began = call[a].began
  <2>1. PICK c \in Calls : c = call[a]
    BY <1>1
  <2>2. n = Sent(c, d, ok) /\ c.left[d] > 0
    BY <1>1, <2>1
  <2>. HIDE DEF n
  <2>3. /\ n \in Calls /\ n.pc = "record" /\ n.event = c.event /\ n.of = c.of
        /\ n.left = [c.left EXCEPT ![d] = c.left[d] - 1] /\ n.now = d
        /\ n.out = c.out
        /\ n.target = c.target /\ n.told = c.told /\ n.began = c.began
    BY <2>2, SendFields
  <2>. QED BY <2>1, <2>3
<1>4. call' = [call EXCEPT ![a] = n]
  BY <1>2
<1>. HIDE DEF n
<1>5. /\ call' \in [Callers -> Calls] /\ call'[a] = n
      /\ \A b \in Callers \ {a} : call'[b] = call[b]
      /\ \A b \in Callers : call'[b].pc = "record" => call'[b].now \in Devices
  BY <1>1, <1>3, <1>4, CallType
<1>6. UNCHANGED <<logVars, storeVars, calls>>
  BY DEF Send
<1>7. TypeOK'
  BY <1>1, <1>5, <1>6, RingKept DEF TypeOK, logVars, storeVars
<1>8. Sound(a)'
  <2>1. ~call[a].told
    BY <1>1 DEF Sound, Answered, Walked, Members
  <2>2. (Kept(a)' <=> Kept(a)) /\ Since(a)' = Since(a)
    BY <1>3, <1>5, <1>6, SinceSame
  <2>3. call[a].left \in [Devices -> Nat]
    BY <1>1, CallFields DEF Lists
  <2>4. ResultsLogged(a) => ResultsLogged(a)'
    BY <1>3, <1>5, <2>2 DEF ResultsLogged, Entry
  <2>5. ASSUME NEW x \in Devices, call'[a].of[x] > 0, call'[a].left[x] = 0
        PROVE  call'[a].out[x] # "none" \/ (call'[a].pc = "record" /\ call'[a].now = x)
    BY <1>1, <1>3, <1>5, <2>3, <2>5 DEF Sound
  <2>6. call'[a].began <= total'
    BY <1>1, <1>3, <1>5, <1>6 DEF Sound, logVars
  <2>. QED BY <1>1, <1>3, <1>5, <2>1, <2>2, <2>4, <2>5, <2>6 DEF Sound, OutcomeLogged
<1>9. ASSUME NEW b \in Callers, b # a PROVE Sound(b)'
  BY <1>5, <1>6, <1>9, OthersSound
<1>. QED BY <1>7, <1>8, <1>9 DEF Inv

LEMMA RecordInv ==
    ASSUME Inv, NEW a \in Callers, Record(a)
    PROVE  Inv'
<1>. DEFINE r == IF call[a].ok THEN "ok" ELSE "failed"
            n == Recorded(call[a])
            e == Entry(call[a].event, call[a].now, call[a].ok)
<1>1. /\ TypeOK /\ call[a] \in Calls /\ Sound(a) /\ call[a].pc = "record"
      /\ call[a].now \in Devices /\ total \in Nat
  BY DEF Inv, TypeOK, Record
<1>2. /\ n \in Calls /\ n.pc = "walk" /\ n.event = call[a].event /\ n.of = call[a].of
      /\ n.left = call[a].left /\ n.out = [call[a].out EXCEPT ![call[a].now] = r]
      /\ n.target = call[a].target /\ n.told = call[a].told /\ n.began = call[a].began
  <2>1. PICK c \in Calls : c = call[a]
    BY <1>1
  <2>2. n = Recorded(c) /\ c.now \in Devices
    BY <1>1, <2>1
  <2>. HIDE DEF n
  <2>3. /\ n \in Calls /\ n.pc = "walk" /\ n.event = c.event /\ n.of = c.of
        /\ n.left = c.left /\ n.out = [c.out EXCEPT ![c.now] = IF c.ok THEN "ok" ELSE "failed"]
        /\ n.target = c.target /\ n.told = c.told /\ n.began = c.began
    BY <2>2, RecordFields
  <2>. QED BY <2>1, <2>3
<1>3. call' = [call EXCEPT ![a] = n] /\ Add(e) /\ total' = total + 1
  BY DEF Record
<1>4. e \in Entries
  BY <1>1, CallFields, EntryType
<1>. HIDE DEF n
<1>5. /\ call' \in [Callers -> Calls] /\ call'[a] = n
      /\ \A b \in Callers \ {a} : call'[b] = call[b]
      /\ \A b \in Callers : call'[b].pc = "record" => call'[b].now \in Devices
  BY <1>1, <1>2, <1>3, CallType
<1>6. TypeOK'
  <2>1. RingTypeOK'
    BY <1>1, <1>3, <1>4, AddKeepsType DEF TypeOK
  <2>2. UNCHANGED <<storeVars, calls>>
    BY DEF Record
  <2>. QED BY <1>1, <1>3, <1>5, <2>1, <2>2 DEF TypeOK, storeVars
<1>7. Sound(a)'
  <2>1. ~call[a].told
    BY <1>1 DEF Sound, Answered, Walked
  <2>2. ASSUME Kept(a)' PROVE Kept(a) /\ Since(a)' = Since(a) \cup {e}
    <3>. HIDE DEF e
    <3>. QED BY <1>1, <1>2, <1>3, <1>4, <1>5, <2>2, SinceGrows DEF Sound
  <2>3. PICK x \in Devices : x = call[a].now
    BY <1>1
  <2>4. call[a].out \in [Devices -> Results] /\ call[a].ok \in BOOLEAN
    BY <1>1, CallFields
  <2>5. /\ call'[a].out[x] = r
        /\ \A y \in Devices \ {x} : call'[a].out[y] = call[a].out[y]
    BY <1>2, <1>5, <2>3, <2>4
  <2>6. ASSUME Kept(a)' PROVE ResultsLogged(a)'
    <3>1. ResultsLogged(a)
      BY <1>1, <2>2, <2>6 DEF Sound
    <3>2. /\ call'[a].event = call[a].event
          /\ r = "ok" => e = Entry(call[a].event, x, TRUE)
          /\ r = "failed" => e = Entry(call[a].event, x, FALSE)
      BY <1>2, <1>5, <2>3, <2>4
    <3>3. Since(a)' = Since(a) \cup {e}
      BY <2>2, <2>6
    <3>. HIDE DEF r, e
    <3>4. ASSUME NEW y \in Devices
          PROVE  /\ call'[a].out[y] = "ok" => Entry(call[a].event, y, TRUE) \in Since(a)'
                 /\ call'[a].out[y] = "failed" => Entry(call[a].event, y, FALSE) \in Since(a)'
      BY <2>5, <3>1, <3>2, <3>3 DEF ResultsLogged
    <3>. QED BY <3>2, <3>4 DEF ResultsLogged, Entry
  <2>7. ASSUME NEW y \in Devices, call'[a].of[y] > 0, call'[a].left[y] = 0
        PROVE  call'[a].out[y] # "none"
    BY <1>1, <1>2, <1>5, <2>3, <2>5, <2>7 DEF Sound
  <2>8. call'[a].began <= total'
    <3>1. call[a].began \in Nat
      BY <1>1, CallFields
    <3>. QED BY <1>1, <1>2, <1>3, <1>5, <3>1 DEF Sound
  <2>9. ~call'[a].told
    BY <1>2, <1>5, <2>1
  <2>. QED BY <2>6, <2>7, <2>8, <2>9 DEF Sound, OutcomeLogged
<1>8. ASSUME NEW b \in Callers, b # a PROVE Sound(b)'
  BY <1>3, <1>4, <1>5, <1>8, OthersSound
<1>. QED BY <1>6, <1>7, <1>8 DEF Inv

LEMMA OnScheduleInv ==
    ASSUME Inv, NEW a \in Callers, OnSchedule(a)
    PROVE  Inv'
<1>. DEFINE n == [call[a] EXCEPT !.told = TRUE]
            e == Entry("schedule", call[a].target, Ok(a))
<1>1. /\ TypeOK /\ call[a] \in Calls /\ Sound(a) /\ Answered(a)
      /\ call[a].target \in Devices \cup Groups /\ total \in Nat
      /\ call[a].pc # "record"
  BY CallFields DEF Inv, TypeOK, OnSchedule, Answered, Walked
<1>2. /\ n \in Calls /\ n.pc = call[a].pc /\ n.event = call[a].event /\ n.of = call[a].of
      /\ n.left = call[a].left /\ n.out = call[a].out
      /\ n.target = call[a].target /\ n.told = TRUE /\ n.began = call[a].began
  <2>1. PICK c \in Calls : c = call[a]
    BY <1>1
  <2>2. n = [c EXCEPT !.told = TRUE]
    BY <2>1
  <2>. HIDE DEF n
  <2>3. /\ n \in Calls /\ n.pc = c.pc /\ n.event = c.event /\ n.of = c.of
        /\ n.left = c.left /\ n.out = c.out
        /\ n.target = c.target /\ n.told = TRUE /\ n.began = c.began
    BY <2>2, ToldFields
  <2>. QED BY <2>1, <2>3
<1>3. call' = [call EXCEPT ![a] = n] /\ Add(e) /\ total' = total + 1
  BY DEF OnSchedule
<1>4. e \in Entries
  <2>1. Ok(a) \in BOOLEAN
    BY DEF Ok
  <2>. QED BY <1>1, <2>1, EntryType
<1>. HIDE DEF n
<1>5. /\ call' \in [Callers -> Calls] /\ call'[a] = n
      /\ \A b \in Callers \ {a} : call'[b] = call[b]
      /\ \A b \in Callers : call'[b].pc = "record" => call'[b].now \in Devices
  BY <1>1, <1>2, <1>3, CallType
<1>6. TypeOK'
  <2>1. RingTypeOK'
    BY <1>1, <1>3, <1>4, AddKeepsType DEF TypeOK
  <2>2. UNCHANGED <<storeVars, calls>>
    BY DEF OnSchedule
  <2>. QED BY <1>1, <1>3, <1>5, <2>1, <2>2 DEF TypeOK, storeVars
<1>7. Sound(a)'
  <2>1. ASSUME Kept(a)' PROVE Kept(a) /\ Since(a)' = Since(a) \cup {e}
    <3>. HIDE DEF e
    <3>. QED BY <1>1, <1>2, <1>3, <1>4, <1>5, <2>1, SinceGrows DEF Sound
  <2>2. Ok(a)' = Ok(a)
    <3>1. call'[a].pc = call[a].pc /\ call'[a].out = call[a].out
      BY <1>2, <1>5
    <3>. QED BY <3>1, Zenon DEF Ok
  <2>3. Entry("schedule", call[a].target, Ok(a))' = e
    <3>1. call'[a].target = call[a].target
      BY <1>2, <1>5
    <3>. QED BY <2>2, <3>1, Zenon DEF Entry
  <2>. HIDE DEF e
  <2>4. Kept(a)' => OutcomeLogged(a)'
    BY <2>1, <2>3 DEF OutcomeLogged
  <2>5. Kept(a)' => ResultsLogged(a)'
    BY <1>1, <1>2, <1>5, <2>1 DEF Sound, ResultsLogged, Entry
  <2>6. Answered(a)'
    BY <1>1, <1>2, <1>5 DEF Answered, Walked
  <2>7. call'[a].began <= total'
    <3>1. call[a].began \in Nat
      BY <1>1, CallFields
    <3>. QED BY <1>1, <1>2, <1>3, <1>5, <3>1 DEF Sound
  <2>. QED BY <1>1, <1>2, <1>5, <2>4, <2>5, <2>6, <2>7 DEF Sound
<1>8. ASSUME NEW b \in Callers, b # a PROVE Sound(b)'
  <2>. HIDE DEF e
  <2>. QED BY <1>3, <1>4, <1>5, <1>8, OthersSound
<1>. QED BY <1>6, <1>7, <1>8 DEF Inv

\* A step of the store leaves the calls and the log alone.
LEMMA EditInv ==
    ASSUME Inv, UpsertDevice \/ DeleteDevice \/ UpsertGroup \/ DeleteGroup
    PROVE  Inv'
<1>1. TypeOK
  BY DEF Inv
<1>2. UNCHANGED <<logVars, call, calls>>
  BY DEF UpsertDevice, DeleteDevice, UpsertGroup, DeleteGroup, Edit
<1>3. edits' \in 0 .. MaxEdits
  BY <1>1 DEF UpsertDevice, DeleteDevice, UpsertGroup, DeleteGroup, Edit, TypeOK
<1>4. /\ stored' \subseteq Devices /\ groups' \in [Groups -> Lists \cup {NoGroup}]
      /\ unknown' \in [Groups -> SUBSET Devices]
  <2>1. CASE UpsertDevice
    BY <1>1, <2>1 DEF UpsertDevice, Edit, TypeOK
  <2>2. CASE DeleteDevice
    <3>1. PICK d \in stored :
             /\ stored' = stored \ {d} /\ unknown' = unknown
             /\ groups' = [g \in Groups |-> IF groups[g] = NoGroup THEN NoGroup
                                            ELSE [groups[g] EXCEPT ![d] = 0]]
      BY <2>2 DEF DeleteDevice, Edit
    <3>2. ASSUME NEW l \in Lists PROVE [l EXCEPT ![d] = 0] \in Lists
      BY DEF Lists
    <3>3. ASSUME NEW g \in Groups PROVE groups'[g] \in Lists \cup {NoGroup}
      <4>1. CASE groups[g] = NoGroup
        BY <3>1, <4>1
      <4>2. CASE groups[g] # NoGroup
        <5>1. groups[g] \in Lists
          BY <1>1, <4>2 DEF TypeOK
        <5>. QED BY <3>1, <3>2, <4>2, <5>1
      <4>. QED BY <4>1, <4>2
    <3>4. groups' = [g \in Groups |-> groups'[g]]
      BY <3>1
    <3>. QED BY <1>1, <3>1, <3>3, <3>4 DEF TypeOK
  <2>3. CASE UpsertGroup
    <3>1. PICK g \in Groups, l \in Bodies :
             Edit(stored, [groups EXCEPT ![g] = l],
                  [unknown EXCEPT ![g] = Members(l) \ stored])
      BY <2>3 DEF UpsertGroup
    <3>2. Members(l) \ stored \in SUBSET Devices
      BY DEF Members
    <3>. QED BY <1>1, <3>1, <3>2 DEF Edit, TypeOK
  <2>4. CASE DeleteGroup
    BY <1>1, <2>4 DEF DeleteGroup, Edit, TypeOK
  <2>. QED BY <2>1, <2>2, <2>3, <2>4
<1>5. TypeOK'
  BY <1>1, <1>2, <1>3, <1>4, RingKept DEF TypeOK, logVars
<1>6. ASSUME NEW a \in Callers PROVE Sound(a)'
  BY <1>2, OthersSound
<1>. QED BY <1>5, <1>6 DEF Inv

LEMMA InvNext == Inv /\ [Next]_vars => Inv'
<1>. SUFFICES ASSUME Inv, [Next]_vars PROVE Inv'
  OBVIOUS
<1>1. TypeOK
  BY DEF Inv
<1>2. CASE UNCHANGED vars
  <2>1. TypeOK'
    BY <1>1, <1>2, RingKept DEF TypeOK, vars, logVars, storeVars
  <2>2. ASSUME NEW a \in Callers PROVE Sound(a)'
    BY <1>2, OthersSound DEF vars
  <2>. QED BY <2>1, <2>2 DEF Inv
<1>3. ASSUME NEW a \in Callers, ActOnDevice(a) PROVE Inv'
  <2>1. PICK e \in Events, d \in Devices : Start(a, Started(e, [Nobody EXCEPT ![d] = 1], For(a, d)))
    BY <1>3 DEF ActOnDevice
  <2>2. [Nobody EXCEPT ![d] = 1] \in Lists
    BY DEF Nobody, Lists
  <2>3. For(a, d) \in Devices \cup Groups \cup {NoDevice}
    BY DEF For
  <2>. QED BY <2>1, <2>2, <2>3, StartInv
<1>4. ASSUME NEW a \in Callers, ActOnBatch(a) PROVE Inv'
  <2>1. PICK e \in Events, l \in Bodies : Start(a, Started(e, l, NoDevice))
    BY <1>4 DEF ActOnBatch
  <2>. QED BY <2>1, StartInv
<1>5. ASSUME NEW a \in Callers, ActOnGroup(a) PROVE Inv'
  <2>1. PICK e \in Events, g \in Groups :
           Start(a, IF groups[g] = NoGroup THEN Refused(e, For(a, g))
                                           ELSE Started(e, groups[g], For(a, g)))
    BY <1>5 DEF ActOnGroup
  <2>2. For(a, g) \in Devices \cup Groups \cup {NoDevice}
    BY DEF For
  <2>3. CASE groups[g] = NoGroup
    BY <2>1, <2>2, <2>3, StartInv, NobodyType
  <2>4. CASE groups[g] # NoGroup
    <3>1. groups[g] \in Lists
      BY <1>1, <2>4 DEF TypeOK
    <3>. QED BY <2>1, <2>2, <2>4, <3>1, StartInv
  <2>. QED BY <2>3, <2>4
<1>6. ASSUME NEW a \in Callers,
             (\E d \in Devices : NotFound(a, d) \/ Send(a, d)) \/ Record(a) \/ OnSchedule(a)
      PROVE  Inv'
  BY <1>6, NotFoundInv, SendInv, RecordInv, OnScheduleInv
<1>. QED BY <1>2, <1>3, <1>4, <1>5, <1>6, EditInv DEF Next

LEMMA Invariant == Spec => []Inv
BY InvInit, InvNext, PTL DEF Spec

-----------------------------------------------------------------------------
(* Theorems.                                                               *)

\* The store, the calls and the log keep their types.
THEOREM TypeCorrect == Spec => []TypeOK
<1>1. Inv => TypeOK
  BY DEF Inv
<1>. QED BY <1>1, Invariant, PTL

\* What a call answers is what the log tells, whoever else acts, writes to the
\* log and edits meanwhile, while the ring has its entries (service.go:194-297,
\* audit/log.go:42-56).
THEOREM AnswersAreInTheLog == Spec => []ReplyMatchesLog
<1>1. ASSUME Inv, NEW a \in Callers, Answered(a), Done(a), Kept(a)
      PROVE  /\ ResultsLogged(a)
             /\ Ok(a) => \A d \in Members(call[a].of) :
                            Entry(call[a].event, d, TRUE) \in Since(a)
             /\ call[a].target # NoDevice =>
                   Entry("schedule", call[a].target, Ok(a)) \in Since(a)
  <2>1. Sound(a) /\ call[a] \in Calls
    BY <1>1 DEF Inv, TypeOK
  <2>2. ResultsLogged(a) /\ OutcomeLogged(a)
    BY <1>1, <2>1 DEF Sound
  <2>3. call[a].target # NoDevice => call[a].told
    BY <1>1 DEF Done, Answered, Walked
  <2>4. ASSUME Ok(a), NEW d \in Members(call[a].of)
        PROVE  Entry(call[a].event, d, TRUE) \in Since(a)
    <3>1. Walked(a) /\ d \in Devices /\ call[a].of[d] > 0
      BY <1>1, <2>4 DEF Ok, Answered, Members
    <3>2. call[a].left \in [Devices -> Nat]
      BY <2>1, CallFields DEF Lists
    <3>3. call[a].left[d] = 0 /\ call[a].pc = "walk"
      BY <3>1, <3>2 DEF Walked, Members
    <3>4. call[a].out[d] = "ok"
      BY <2>1, <2>4, <3>1, <3>3 DEF Sound, Ok
    <3>. QED BY <2>2, <3>1, <3>4 DEF ResultsLogged
  <2>. QED BY <2>2, <2>3, <2>4 DEF OutcomeLogged
<1>2. Inv => ReplyMatchesLog
  BY <1>1 DEF ReplyMatchesLog, ResultsLogged
<1>. QED BY <1>2, Invariant, PTL

\* A deleted device leaves every group, and comes back to one only by a save of
\* the group that names it (store.go:469-496, 521-555).
THEOREM GroupsForget == Spec => []GroupsForgetDeleted
<1>1. Init => GroupsForgetDeleted
  BY DEF Init, GroupsForgetDeleted, Members
<1>2. TypeOK /\ GroupsForgetDeleted /\ [Next]_vars => GroupsForgetDeleted'
  <2>. SUFFICES ASSUME TypeOK, GroupsForgetDeleted, [Next]_vars,
                       NEW g \in Groups, groups'[g] # NoGroup
                PROVE  Members(groups'[g]) \ stored' \subseteq unknown'[g]
    BY DEF GroupsForgetDeleted, Members
  <2>1. CASE UNCHANGED storeVars
    BY <2>1 DEF storeVars, GroupsForgetDeleted
  <2>2. CASE UpsertDevice
    BY <2>2 DEF UpsertDevice, Edit, GroupsForgetDeleted
  <2>3. CASE DeleteDevice
    <3>1. PICK d \in stored :
             /\ stored' = stored \ {d} /\ unknown' = unknown
             /\ groups' = [x \in Groups |-> IF groups[x] = NoGroup THEN NoGroup
                                            ELSE [groups[x] EXCEPT ![d] = 0]]
      BY <2>3 DEF DeleteDevice, Edit
    <3>2. groups[g] # NoGroup /\ groups'[g] = [groups[g] EXCEPT ![d] = 0]
      BY <3>1
    <3>3. groups[g] \in [Devices -> Nat] /\ d \in Devices
      BY <3>2 DEF TypeOK, Lists
    <3>4. Members(groups'[g]) \subseteq Members(groups[g]) \ {d}
      BY <3>2, <3>3 DEF Members
    <3>. QED BY <3>1, <3>2, <3>4 DEF GroupsForgetDeleted
  <2>4. CASE UpsertGroup
    <3>1. PICK x \in Groups, l \in Bodies :
             /\ stored' = stored /\ groups' = [groups EXCEPT ![x] = l]
             /\ unknown' = [unknown EXCEPT ![x] = Members(l) \ stored]
      BY <2>4 DEF UpsertGroup, Edit
    <3>2. CASE g = x
      BY <3>1, <3>2 DEF TypeOK
    <3>3. CASE g # x
      <4>1. groups'[g] = groups[g] /\ unknown'[g] = unknown[g]
        BY <3>1, <3>3 DEF TypeOK
      <4>. QED BY <3>1, <4>1 DEF GroupsForgetDeleted
    <3>. QED BY <3>2, <3>3
  <2>5. CASE DeleteGroup
    <3>1. PICK x \in Groups :
             /\ stored' = stored /\ groups' = [groups EXCEPT ![x] = NoGroup]
             /\ unknown' = [unknown EXCEPT ![x] = {}]
      BY <2>5 DEF DeleteGroup, Edit
    <3>2. g # x
      BY <3>1 DEF TypeOK
    <3>3. groups'[g] = groups[g] /\ unknown'[g] = unknown[g]
      BY <3>1, <3>2 DEF TypeOK
    <3>. QED BY <3>1, <3>3 DEF GroupsForgetDeleted
  <2>6. \/ UNCHANGED storeVars \/ UpsertDevice \/ DeleteDevice \/ UpsertGroup \/ DeleteGroup
    BY DEF Next, vars, ActOnDevice, ActOnBatch, ActOnGroup, Start, NotFound, Send, Record, OnSchedule
  <2>. QED BY <2>1, <2>2, <2>3, <2>4, <2>5, <2>6
<1>. QED BY <1>1, <1>2, TypeCorrect, PTL DEF Spec

\* Whoever acts, answers and edits, all that happens to the ring is that entries
\* are added: what the audit page shows is a bounded log (service.go:188-241,
\* 312-325, audit/log.go:42-74).
THEOREM LogOfActions == Spec => IsBoundedLog
<1>1. ASSUME Inv, NEW a \in Callers, Record(a) PROVE RingNext
  <2>1. PICK c \in Calls : c = call[a]
    BY <1>1 DEF Inv, TypeOK
  <2>2. Add(Entry(c.event, c.now, c.ok)) /\ c.now \in Devices
    BY <1>1, <2>1 DEF Record, Inv, TypeOK
  <2>3. c.event \in Events /\ c.ok \in BOOLEAN
    BY DEF Calls
  <2>4. PICK e \in Entries : e = Entry(c.event, c.now, c.ok)
    BY <2>2, <2>3, EntryType
  <2>. QED BY <2>2, <2>4 DEF RingNext
<1>2. ASSUME Inv, NEW a \in Callers, OnSchedule(a) PROVE RingNext
  <2>1. PICK c \in Calls : c = call[a]
    BY <1>2 DEF Inv, TypeOK
  <2>2. PICK b \in BOOLEAN : b = Ok(a)
    BY DEF Ok
  <2>3. Add(Entry("schedule", c.target, b)) /\ c.target # NoDevice
    BY <1>2, <2>1, <2>2 DEF OnSchedule
  <2>4. c.target \in Devices \cup Groups
    BY <2>3 DEF Calls
  <2>5. PICK e \in Entries : e = Entry("schedule", c.target, b)
    BY <2>4, EntryType
  <2>. QED BY <2>3, <2>5 DEF RingNext
<1>3. Inv /\ [Next]_vars => [RingNext]_ringVars
  <2>. SUFFICES ASSUME Inv, [Next]_vars PROVE RingNext \/ UNCHANGED ringVars
    OBVIOUS
  <2>1. ASSUME NEW a \in Callers,
               \/ ActOnDevice(a) \/ ActOnBatch(a) \/ ActOnGroup(a)
               \/ \E d \in Devices : NotFound(a, d) \/ Send(a, d)
        PROVE  UNCHANGED ringVars
    BY <2>1 DEF ActOnDevice, ActOnBatch, ActOnGroup, Start, NotFound, Send, logVars
  <2>2. ASSUME UpsertDevice \/ DeleteDevice \/ UpsertGroup \/ DeleteGroup
        PROVE  UNCHANGED ringVars
    BY <2>2 DEF UpsertDevice, DeleteDevice, UpsertGroup, DeleteGroup, Edit, logVars
  <2>3. UNCHANGED vars => UNCHANGED ringVars
    BY DEF vars, logVars
  <2>. QED BY <1>1, <1>2, <2>1, <2>2, <2>3 DEF Next
<1>4. Init => RingInit
  BY DEF Init
<1>. QED BY <1>3, <1>4, Invariant, RingIsBoundedLog, PTL DEF Spec, RingSpec
=============================================================================
