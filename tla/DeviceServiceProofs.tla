------------------------- MODULE DeviceServiceProofs -------------------------
(***************************************************************************)
(* Theorems about DeviceService for any devices, topics and accounts and   *)
(* any number of requests, overlapping ones included.                      *)
(*                                                                         *)
(* Every method of the manager keeps it Fine: typed, sure of a             *)
(* subscription only when the broker has it, and of every one the broker   *)
(* did not refuse to take back.  The steps of the service only change the  *)
(* manager through its methods.                                            *)
(***************************************************************************)
EXTENDS DeviceService, FiniteSetTheorems, TLAPS

Sure(m, t) ==
    /\ m.topics[t] # None => m.up /\ m.subs[t] = m.topics[t]
    /\ m.subs[t] # None => m.topics[t] = m.subs[t] \/ t \in m.refused

Fine(m) == m \in Manager /\ \A t \in Topics : Sure(m, t)

\* What the store hands out as its devices.
Stored == [Ids -> Device \cup {None}]

-----------------------------------------------------------------------------
USE NormAssumption, GeneratedAssumption, NoneAssumption

\* The manager's fields, one at a time.
LEMMA Fields ==
    ASSUME NEW m \in Manager
    PROVE  /\ m.uid \in Uids \cup {NoUid} /\ m.up \in BOOLEAN
           /\ m.topics \in [Topics -> Ids \cup {None}]
           /\ m.subs \in [Topics -> Ids \cup {None}]
           /\ m.refused \in SUBSET Topics
           /\ m.faults \in Nat
BY DEF Manager

\* Charging a fault changes nothing else.
LEMMA ChargedFine ==
    ASSUME NEW m, Fine(m), m.faults > 0
    PROVE  Fine(Charged(m)) /\ Charged(m).up = m.up
BY DEF Fine, Sure, Charged, Manager

LEMMA UnsubscribeFine ==
    ASSUME NEW m, Fine(m), NEW t \in Topics, NEW n \in Unsubscribe(m, t)
    PROVE  Fine(n) /\ n.up = m.up /\ n.topics[t] = None
<1> DEFINE gone == [m EXCEPT !.topics[t] = None]
           off == [gone EXCEPT !.subs[t] = None, !.refused = @ \ {t}]
           kept == [gone EXCEPT !.refused = @ \cup {t}]
<1>1. Fine(kept) /\ kept.up = m.up /\ kept.topics[t] = None /\ kept.faults = m.faults
  BY DEF Fine, Sure, Manager
<1>2. Fine(off) /\ off.up = m.up /\ off.topics[t] = None
  BY DEF Fine, Sure, Manager
<1>4. n = off \/ (m.faults > 0 /\ n = Charged(kept))
  BY DEF Unsubscribe, IfFaulty
<1>3. m.faults > 0 => Fine(Charged(kept)) /\ Charged(kept).up = m.up
                       /\ Charged(kept).topics[t] = None
  <2>. HIDE DEF kept
  <2>1. Charged(kept).topics = kept.topics
    BY <1>1 DEF Charged, Fine, Manager
  <2>. QED BY <1>1, <2>1, ChargedFine
<1>. HIDE DEF off, kept
<1>. QED BY <1>2, <1>3, <1>4

\* One topic more, at the broker and in the map.
LEMMA AddedFine ==
    ASSUME NEW m, Fine(m), m.up, NEW t \in Topics, NEW d \in Ids
    PROVE  Fine(Handled(m, t, d))
BY DEF Handled, Fine, Sure, Manager

\* The manager a new subscription starts from, and what r it ends in.
Freed(m, t) == IF m.topics[t] = None THEN {m} ELSE Unsubscribe(m, t)

Ends(f, t, d, r) ==
    \/ r = Done(Handled(f, t, d))
    \/ f.faults > 0 /\ r = Failed(Charged(f))

\* A subscription to a topic that is not the device's own.
LEMMA SubscribeCases ==
    ASSUME NEW m, NEW t, NEW d, NEW r \in Subscribe(m, t, d), m.up, m.topics[t] # d
    PROVE  \E f \in Freed(m, t) : Ends(f, t, d, r)
<1>. DEFINE end(f) == {Done(Handled(f, t, d))} \cup IfFaulty(f, {Failed(Charged(f))})
<1>1. Subscribe(m, t, d) = UNION {end(f) : f \in Freed(m, t)}
  BY DEF Subscribe, Freed
<1>2. ASSUME NEW f, r \in end(f) PROVE Ends(f, t, d, r)
  BY <1>2 DEF IfFaulty, Ends
<1>. HIDE DEF end
<1>3. PICK f \in Freed(m, t) : r \in end(f)
  BY <1>1
<1>. QED BY <1>2, <1>3

LEMMA SubscribeFine ==
    ASSUME NEW m, Fine(m), NEW t \in Topics, NEW d \in Ids, NEW r \in Subscribe(m, t, d)
    PROVE  Fine(r.m) /\ r.ok \in BOOLEAN
<1>1. CASE ~m.up \/ m.topics[t] = d
  <2>1. r = Failed(m) \/ r = Done(m)
    BY <1>1 DEF Subscribe
  <2>2. CASE r = Failed(m)
    BY <2>2 DEF Failed
  <2>3. CASE r = Done(m)
    BY <2>3 DEF Done
  <2>. QED BY <2>1, <2>2, <2>3
<1>2. CASE m.up /\ m.topics[t] # d
  <2>1. PICK f \in Freed(m, t) : Ends(f, t, d, r)
    BY <1>2, SubscribeCases
  <2>2. Fine(f) /\ f.up
    BY <1>2, <2>1, UnsubscribeFine DEF Freed
  <2>3. CASE r = Done(Handled(f, t, d))
    BY <2>2, <2>3, AddedFine DEF Done
  <2>4. CASE f.faults > 0 /\ r = Failed(Charged(f))
    BY <2>2, <2>4, ChargedFine DEF Failed
  <2>. QED BY <2>1, <2>3, <2>4 DEF Ends
<1>. QED BY <1>1, <1>2 DEF Fine, Manager

\* Bringing a running manager in line with a list of devices.
LEMMA SyncedFine ==
    ASSUME NEW m, Fine(m), m.up, NEW W \in SUBSET Topics, NEW w \in [W -> Ids],
           NEW f \in Mishaps(m, w)
    PROVE  Fine(Synced(m, w, f))
<1> DEFINE s == Synced(m, w, f)
           served == W \ f.lost
           T == [t \in Topics |-> IF t \in served THEN w[t] ELSE None]
           S == [t \in Topics |->
                    IF t \in Asked(m, w) \cap served THEN w[t]
                    ELSE IF t \in Asked(m, w) \ f.kept /\ m.topics[t] # None THEN None
                    ELSE m.subs[t]]
           R == (m.refused \cup f.kept) \ served
           F == m.faults - (Cardinality(f.kept) + Cardinality(f.lost))
<1>0. /\ f.kept \in SUBSET Topics /\ f.lost \in SUBSET Asked(m, w)
      /\ IsFiniteSet(f.kept) /\ IsFiniteSet(f.lost)
      /\ Cardinality(f.kept) + Cardinality(f.lost) <= m.faults
      /\ m \in Manager /\ DOMAIN w = W
  BY DEF Mishaps, Asked, Fine
<1>1. F \in Nat
  <2>1. Cardinality(f.kept) \in Nat /\ Cardinality(f.lost) \in Nat /\ m.faults \in Nat
    BY <1>0, FS_CardinalityType, Fields
  <2>. QED BY <1>0, <2>1
<1>2. /\ T \in [Topics -> Ids \cup {None}] /\ S \in [Topics -> Ids \cup {None}]
      /\ R \in SUBSET Topics
  BY <1>0, Fields
<1>3. s = [m EXCEPT !.topics = T, !.subs = S, !.refused = R, !.faults = F]
  BY <1>0 DEF Synced, Manager
<1>4. s \in Manager /\ s.up = m.up /\ s.topics = T /\ s.subs = S /\ s.refused = R
  <2>. HIDE DEF s, T, S, R, F
  <2>. QED BY <1>0, <1>1, <1>2, <1>3 DEF Manager
<1>. HIDE DEF s
<1>5. ASSUME NEW t \in Topics, t \notin Asked(m, w)
      PROVE  m.topics[t] = IF t \in W THEN w[t] ELSE None
  BY <1>0, <1>5 DEF Asked
<1>6. ASSUME NEW t \in Topics PROVE Sure(m, t) /\ w \in [W -> Ids]
  BY DEF Fine
<1>7. ASSUME NEW t \in Topics, t \in served
      PROVE  s.topics[t] = w[t] /\ s.subs[t] = w[t]
  <2>1. s.topics[t] = w[t]
    BY <1>4, <1>7
  <2>2. CASE t \in Asked(m, w)
    BY <1>4, <1>7, <2>1, <2>2
  <2>3. CASE t \notin Asked(m, w)
    <3>1. m.topics[t] = w[t] /\ w[t] # None
      BY <1>5, <1>7, <2>3
    <3>2. s.subs[t] = m.subs[t]
      BY <1>4, <2>3
    <3>. QED BY <1>6, <2>1, <3>1, <3>2 DEF Sure
  <2>. QED BY <2>2, <2>3
<1>8. ASSUME NEW t \in Topics, t \notin served, s.subs[t] # None
      PROVE  t \in s.refused
  <2>1. s.subs[t] = m.subs[t] /\ (t \notin Asked(m, w) \ f.kept \/ m.topics[t] = None)
    BY <1>4, <1>8
  <2>2. CASE t \in f.kept
    BY <1>4, <1>8, <2>2
  <2>3. CASE m.topics[t] = None
    <3>1. t \in m.refused
      BY <1>6, <1>8, <2>1, <2>3 DEF Sure
    <3>. QED BY <1>4, <1>8, <3>1
  <2>4. CASE t \notin Asked(m, w)
    <3>1. t \notin W
      BY <1>0, <1>8, <2>4
    <3>. QED BY <1>5, <2>3, <2>4, <3>1
  <2>. QED BY <2>1, <2>2, <2>3, <2>4
<1>9. Fine(s)
  <2>1. \A t \in Topics : t \notin served => s.topics[t] = None
    BY <1>4
  <2>. HIDE DEF T, S, R, F, served
  <2>2. ASSUME NEW t \in Topics PROVE Sure(s, t)
    BY <1>4, <1>7, <1>8, <2>1 DEF Sure
  <2>. QED BY <1>4, <2>2 DEF Fine
<1>. QED BY <1>9 DEF s

LEMMA SyncFine ==
    ASSUME NEW m, Fine(m), m.up, NEW devs \in Stored, NEW r \in Sync(m, devs)
    PROVE  Fine(r.m)
<1>1. PICK w \in Choices(devs) : \E f \in Mishaps(m, w) : r = Done(Synced(m, w, f))
  BY DEF Sync
<1>2. PICK W \in SUBSET Topics : w \in [W -> Ids]
  BY <1>1 DEF Choices
<1>. QED BY <1>1, <1>2, SyncedFine DEF Done

LEMMA ClosedFine ==
    ASSUME NEW m, Fine(m), NEW u \in Uids \cup {NoUid}
    PROVE  LET c == [Closed(m) EXCEPT !.uid = u]
           IN  /\ Fine(c) /\ c.faults = m.faults
               /\ Fine([c EXCEPT !.up = TRUE]) /\ [c EXCEPT !.up = TRUE].up
BY DEF Closed, Fine, Sure, Manager, Nothing

LEMMA ReconfigureFine ==
    ASSUME NEW m, Fine(m), NEW u \in Uids \cup {NoUid}, NEW devs \in Stored,
           NEW r \in Reconfigure(m, u, devs)
    PROVE  Fine(r.m)
<1>1. CASE u = m.uid /\ m.up
  BY <1>1, SyncFine DEF Reconfigure
<1>2. CASE ~(u = m.uid /\ m.up)
  <2> DEFINE c == [Closed(m) EXCEPT !.uid = u]
  <2>1. /\ Fine(c) /\ c.faults = m.faults
        /\ Fine([c EXCEPT !.up = TRUE]) /\ [c EXCEPT !.up = TRUE].up
    BY ClosedFine
  <2>2. \/ r = Done(c)
        \/ r \in Sync([c EXCEPT !.up = TRUE], devs)
        \/ c.faults > 0 /\ r = Failed(Charged(c))
    BY <1>2 DEF Reconfigure, IfFaulty
  <2>. HIDE DEF c
  <2>3. CASE r = Done(c)
    BY <2>1, <2>3 DEF Done
  <2>4. CASE r \in Sync([c EXCEPT !.up = TRUE], devs)
    BY <2>1, <2>4, SyncFine
  <2>5. CASE c.faults > 0 /\ r = Failed(Charged(c))
    BY <2>1, <2>5, ChargedFine DEF Failed
  <2>. QED BY <2>2, <2>3, <2>4, <2>5
<1>. QED BY <1>1, <1>2

LEMMA RemoveFine ==
    ASSUME NEW m, Fine(m), NEW dev \in Device, NEW n \in RemoveDevice(m, dev)
    PROVE  Fine(n)
BY UnsubscribeFine DEF RemoveDevice, Device

LEMMA EnsureFine ==
    ASSUME NEW m, Fine(m), NEW d \in Ids, NEW dev \in Device,
           NEW fresh \in SUBSET Topics, NEW r \in EnsureDevice(m, d, dev, fresh)
    PROVE  Fine(r.m) /\ r.ok \in BOOLEAN /\ r.dev \in Device
<1>1. CASE ~dev.on
  <2>1. PICK n \in RemoveDevice(m, dev) : r = [m |-> n, ok |-> TRUE, dev |-> dev]
    BY <1>1 DEF EnsureDevice
  <2>. QED BY <2>1, RemoveFine
<1>2. CASE dev.on /\ (m.uid = NoUid \/ ~m.up)
  <2>1. r = [m |-> m, ok |-> FALSE, dev |-> dev]
    BY <1>2 DEF EnsureDevice
  <2>. QED BY <2>1
<1>3. CASE dev.on /\ ~(m.uid = NoUid \/ ~m.up)
  <2>1. PICK t \in IF dev.topic = NoTopic THEN fresh ELSE {Norm[dev.topic]} :
           \E q \in Subscribe(m, t, d) :
               r = [m |-> q.m, ok |-> q.ok, dev |-> [dev EXCEPT !.topic = t]]
    BY <1>3 DEF EnsureDevice
  <2>2. t \in Topics
    BY DEF Device
  <2>3. [dev EXCEPT !.topic = t] \in Device
    BY <2>2 DEF Device
  <2>. QED BY <2>1, <2>2, <2>3, SubscribeFine
<1>. QED BY <1>1, <1>2, <1>3

LEMMA NewFine ==
    ASSUME NEW n \in Nat
    PROVE  Fine(NewManager(n))
BY DEF NewManager, Fine, Sure, Manager, Nothing

-----------------------------------------------------------------------------
(* The steps of the service.                                               *)

\* A request that is well-formed when the ids in u have been given out.
Proper(c, u) ==
    /\ c \in Call
    /\ c.pc \notin {"idle", "snapshot", "reconfigure"} => c.id \in u
    /\ c.pc \in {"found", "upsert", "ensure", "save"} => c.dev # None
    /\ c.pc = "remove" => c.old # None
    /\ c.pc = "remove" /\ c.op # "delete" => c.dev # None
    /\ c.pc = "reconfigure" => c.snap # None

\* The store, the manager, and the requests, apart.
StoreOK ==
    /\ devices \in Stored
    /\ uid \in Uids \cup {NoUid}
    /\ used \subseteq Ids /\ failed \subseteq Ids
    /\ overlap \in BOOLEAN /\ apart \in BOOLEAN
    /\ calls \in 0 .. MaxCalls /\ restarts \in 0 .. MaxRestarts
    /\ \A d \in Ids : devices[d] # None => d \in used

CallsOK == call \in [Admins -> Call] /\ \A a \in Admins : Proper(call[a], used)

IInv == StoreOK /\ Fine(mgr) /\ CallsOK

USE BodiesAssumption, BoundAssumption, DeviceAssumption

\* One request moves on, and ids may have been given out.
LEMMA CallMoves ==
    ASSUME CallsOK, used \subseteq used', NEW a \in Admins, NEW c, Proper(c, used'),
           call' = [call EXCEPT ![a] = c]
    PROVE  CallsOK'
BY DEF CallsOK, Proper

LEMMA IdleProper == Proper(Idle, used')
BY DEF Proper, Idle, Call

\* What a request under way has in hand.
LEMMA InHand ==
    ASSUME IInv, NEW a \in Admins
    PROVE  /\ Proper(call[a], used)
           /\ call[a].pc \in {"found", "upsert", "ensure", "save"} =>
                 call[a].id \in Ids /\ call[a].dev \in Device
           /\ call[a].pc = "remove" => call[a].old \in Device
           /\ call[a].pc = "reconfigure" =>
                 call[a].snap \in Stored /\ call[a].uid \in Uids \cup {NoUid}
BY DEF IInv, CallsOK, StoreOK, Proper, Call, Stored

\* A request begins or goes on, without touching the rest.
LEMMA BeginFacts ==
    ASSUME IInv, NEW a, NEW c, Begin(a, c)
    PROVE  /\ calls' \in 0 .. MaxCalls /\ restarts' \in 0 .. MaxRestarts
           /\ overlap' \in BOOLEAN /\ apart' \in BOOLEAN
           /\ call' = [call EXCEPT ![a] = c]
BY DEF Begin, IInv, StoreOK

LEMMA AtFacts ==
    ASSUME IInv, NEW a \in Admins, NEW pc, At(a, pc)
    PROVE  /\ call[a].pc = pc /\ Proper(call[a], used)
           /\ calls' \in 0 .. MaxCalls /\ restarts' \in 0 .. MaxRestarts
           /\ overlap' \in BOOLEAN /\ apart' \in BOOLEAN
BY DEF At, IInv, StoreOK, CallsOK

LEMMA CreateInv ==
    ASSUME IInv, NEW a \in Admins, NEW d \in Ids, NEW b \in Bodies[d], Create(a, d, b)
    PROVE  IInv'
<1> DEFINE c == [Idle EXCEPT !.op = "create", !.pc = "ensure", !.id = d, !.dev = b]
<1>1. b \in Device
  OBVIOUS
<1>2. Begin(a, c) /\ used' = used \cup {d} /\ devices' = [devices EXCEPT ![d] = b]
      /\ UNCHANGED <<uid, mgr, failed>>
  BY DEF Create
<1>3. Proper(c, used')
  BY <1>1, <1>2 DEF Proper, Idle, Call
<1>. HIDE DEF c
<1>4. CallsOK'
  BY <1>2, <1>3, BeginFacts, CallMoves DEF IInv
<1>5. StoreOK'
  <2>1. devices' \in Stored /\ used' \subseteq Ids
    BY <1>1, <1>2 DEF IInv, StoreOK, Stored
  <2>2. \A e \in Ids : devices'[e] # None => e \in used'
    BY <1>2 DEF IInv, StoreOK, Stored
  <2>. QED BY <1>2, <2>1, <2>2, BeginFacts DEF IInv, StoreOK
<1>. QED BY <1>2, <1>4, <1>5 DEF IInv

\* Requests that begin without changing anything yet but perhaps the account.
LEMMA BegunInv ==
    ASSUME IInv, NEW a \in Admins, NEW c, Proper(c, used), Begin(a, c),
           UNCHANGED <<devices, mgr, used, failed>>, uid' \in Uids \cup {NoUid}
    PROVE  IInv'
<1>1. CallsOK'
  BY BeginFacts, CallMoves DEF IInv
<1>2. StoreOK'
  BY BeginFacts DEF IInv, StoreOK
<1>. QED BY <1>1, <1>2 DEF IInv

LEMMA UpdateInv ==
    ASSUME IInv, NEW a \in Admins, NEW d \in Ids, NEW b \in Bodies[d], Update(a, d, b)
    PROVE  IInv'
<1>1. PICK pc \in {"remove", "upsert"} :
         Begin(a, [Idle EXCEPT !.op = "update", !.id = d, !.old = devices[d], !.dev = b,
                               !.pc = pc])
  BY DEF Update, First
<1> DEFINE c == [Idle EXCEPT !.op = "update", !.id = d, !.old = devices[d], !.dev = b,
                             !.pc = pc]
<1>2. /\ b \in Device /\ devices[d] \in Device /\ devices[d] # None /\ d \in used
      /\ UNCHANGED <<devices, uid, mgr, used, failed>> /\ uid \in Uids \cup {NoUid}
  BY DEF Update, IInv, StoreOK, Stored
<1>3. Proper(c, used)
  BY <1>2 DEF Proper, Idle, Call
<1>. HIDE DEF c
<1>4. Begin(a, c)
  BY <1>1 DEF c
<1>. QED BY <1>2, <1>3, <1>4, BegunInv

LEMMA DeleteInv ==
    ASSUME IInv, NEW a \in Admins, NEW d \in Ids, Delete(a, d)
    PROVE  IInv'
<1> DEFINE c == [Idle EXCEPT !.op = "delete", !.pc = "remove", !.id = d,
                             !.old = devices[d]]
<1>1. /\ devices[d] \in Device /\ devices[d] # None /\ d \in used
      /\ UNCHANGED <<devices, uid, mgr, used, failed>> /\ uid \in Uids \cup {NoUid}
  BY DEF Delete, IInv, StoreOK, Stored
<1>2. Proper(c, used)
  BY <1>1 DEF Proper, Idle, Call
<1>3. Begin(a, c)
  BY DEF Delete
<1>. HIDE DEF c
<1>. QED BY <1>1, <1>2, <1>3, BegunInv

LEMMA PutSettingsInv ==
    ASSUME IInv, NEW a \in Admins, NEW u \in Uids \cup {NoUid}, PutSettings(a, u)
    PROVE  IInv'
<1> DEFINE c == [Idle EXCEPT !.op = "settings", !.pc = "snapshot"]
<1>1. Proper(c, used)
  BY DEF Proper, Idle, Call
<1>2. Begin(a, c) /\ UNCHANGED <<devices, mgr, used, failed>> /\ uid' \in Uids \cup {NoUid}
  BY DEF PutSettings
<1>. HIDE DEF c
<1>. QED BY <1>1, <1>2, BegunInv

\* Requests that go on.
LEMMA OnInv ==
    ASSUME IInv, NEW a \in Admins, NEW pc, At(a, pc), NEW c, Proper(c, used),
           call' = [call EXCEPT ![a] = c],
           devices' \in Stored, \A d \in Ids : devices'[d] # None => d \in used,
           Fine(mgr'), failed' \subseteq Ids, UNCHANGED <<uid, used>>
    PROVE  IInv'
<1>1. CallsOK'
  BY CallMoves DEF IInv
<1>2. StoreOK'
  BY AtFacts DEF IInv, StoreOK
<1>3. Fine(mgr)'
  BY DEF Fine, Sure
<1>. QED BY <1>1, <1>2, <1>3 DEF IInv

\* What IInv says of the unprimed store, as the steps need it.
LEMMA Facts ==
    IInv => /\ devices \in Stored /\ uid \in Uids \cup {NoUid}
            /\ failed \subseteq Ids /\ used \subseteq Ids
            /\ Fine(mgr)
            /\ \A d \in Ids : devices[d] # None => d \in used
            /\ call \in [Admins -> Call]
            /\ Proper(Idle, used)
BY DEF IInv, StoreOK, CallsOK, Proper, Idle, Call

LEMMA FromClientInv ==
    ASSUME IInv, NEW a \in Admins, NEW d \in Ids, FromClient(a, d)
    PROVE  IInv'
<1> DEFINE c == [Idle EXCEPT !.op = "update", !.id = d, !.dev = devices[d], !.pc = "found"]
<1>1. /\ devices[d] \in Device /\ devices[d] # None /\ d \in used /\ Begin(a, c)
      /\ UNCHANGED <<devices, uid, mgr, used, failed>> /\ uid \in Uids \cup {NoUid}
  BY Facts DEF FromClient, Stored
<1>2. Proper(c, used)
  BY <1>1 DEF Proper, Idle, Call
<1>. HIDE DEF c
<1>. QED BY <1>1, <1>2, BegunInv

\* Adopt lets the request go on as an Update, or ends it.
LEMMA AdoptStep ==
    ASSUME IInv, NEW a \in Admins, Adopt(a)
    PROVE  /\ At(a, "found") /\ UNCHANGED <<devices, uid, mgr, used, failed>>
           /\ call[a] \in Call /\ call[a].pc = "found"
           /\ call[a].id \in Ids /\ call[a].dev \in Device /\ Proper(call[a], used)
           /\ \/ call' = [call EXCEPT ![a] = Idle]
              \/ \E c \in Call :
                    /\ call' = [call EXCEPT ![a] = c]
                    /\ c.pc \in {"remove", "upsert"} /\ c.op = call[a].op
                    /\ c.id = call[a].id /\ c.dev = call[a].dev
                    /\ c.old = devices[c.id] /\ c.old # None
<1>1. At(a, "found") /\ UNCHANGED <<devices, uid, mgr, used, failed>>
  BY DEF Adopt
<1>2. /\ call[a] \in Call /\ call[a].pc = "found" /\ Proper(call[a], used)
      /\ call[a].id \in Ids /\ call[a].dev \in Device
  BY <1>1, AtFacts, InHand DEF Proper
<1>3. CASE call' = [call EXCEPT ![a] = Idle]
  BY <1>1, <1>2, <1>3
<1>4. CASE call' # [call EXCEPT ![a] = Idle]
  <2>1. PICK pc \in {"remove", "upsert"} :
           /\ call' = [call EXCEPT ![a].pc = pc, ![a].old = devices[call[a].id]]
           /\ devices[call[a].id] # None
    BY <1>4 DEF Adopt, Return, First
  <2> DEFINE c == [call[a] EXCEPT !.pc = pc, !.old = devices[call[a].id]]
  <2>2. call' = [call EXCEPT ![a] = c]
    BY <2>1, Facts
  <2>3. devices[call[a].id] \in Device \cup {None}
    BY <1>2, Facts DEF Stored
  <2>4. /\ c \in Call /\ c.pc = pc /\ c.op = call[a].op /\ c.id = call[a].id
        /\ c.dev = call[a].dev /\ c.old = devices[call[a].id]
    BY <1>2, <2>3 DEF Call
  <2>. HIDE DEF c
  <2>5. \E k \in Call : /\ call' = [call EXCEPT ![a] = k]
                        /\ k.pc \in {"remove", "upsert"} /\ k.op = call[a].op
                        /\ k.id = call[a].id /\ k.dev = call[a].dev
                        /\ k.old = devices[k.id] /\ k.old # None
    BY <2>1, <2>2, <2>4
  <2>. QED BY <1>1, <1>2, <2>5
<1>. QED BY <1>3, <1>4

LEMMA AdoptInv ==
    ASSUME IInv, NEW a \in Admins, Adopt(a)
    PROVE  IInv'
<1>0. /\ At(a, "found") /\ UNCHANGED <<uid, used>>
      /\ devices' \in Stored /\ \A d \in Ids : devices'[d] # None => d \in used
      /\ Fine(mgr') /\ failed' \subseteq Ids /\ Proper(Idle, used)
  BY AdoptStep, Facts
<1>1. CASE call' = [call EXCEPT ![a] = Idle]
  BY <1>0, <1>1, OnInv
<1>2. CASE call' # [call EXCEPT ![a] = Idle]
  <2>1. PICK c \in Call :
           /\ call' = [call EXCEPT ![a] = c]
           /\ c.pc \in {"remove", "upsert"}
           /\ c.id = call[a].id /\ c.dev = call[a].dev /\ c.old # None
    BY <1>2, AdoptStep
  <2>2. Proper(c, used)
    BY <2>1, AdoptStep DEF Proper
  <2>. QED BY <1>0, <2>1, <2>2, OnInv
<1>. QED BY <1>1, <1>2

LEMMA RemoveInv ==
    ASSUME IInv, NEW a \in Admins, Remove(a)
    PROVE  IInv'
<1>1. PICK pc \in {"erase", "upsert"} :
         /\ call' = [call EXCEPT ![a].pc = pc]
         /\ pc = "upsert" => call[a].op # "delete"
  BY DEF Remove, Continue
<1> DEFINE c == [call[a] EXCEPT !.pc = pc]
<1>2. At(a, "remove") /\ UNCHANGED <<devices, uid, used, failed>>
  BY DEF Remove
<1>3. Proper(call[a], used) /\ call[a].pc = "remove" /\ call[a].old \in Device
  BY <1>2, AtFacts, InHand
<1>4. Proper(c, used)
  BY <1>1, <1>3 DEF Proper, Call
<1>5. call' = [call EXCEPT ![a] = c]
  BY <1>1, Facts
<1>6. Fine(mgr')
  BY <1>3, Facts, RemoveFine DEF Remove
<1>. HIDE DEF c
<1>. QED BY <1>2, <1>4, <1>5, <1>6, Facts, OnInv

LEMMA UpsertInv ==
    ASSUME IInv, NEW a \in Admins, Upsert(a)
    PROVE  IInv'
<1> DEFINE c == [call[a] EXCEPT !.pc = "ensure"]
<1>1. At(a, "upsert") /\ UNCHANGED <<uid, mgr, used, failed>>
      /\ devices' = [devices EXCEPT ![call[a].id] = call[a].dev]
      /\ call' = [call EXCEPT ![a] = c]
  BY Facts DEF Upsert, Continue
<1>2. /\ Proper(call[a], used) /\ call[a].pc = "upsert"
      /\ call[a].id \in Ids /\ call[a].id \in used /\ call[a].dev \in Device
  BY <1>1, AtFacts, InHand DEF Proper
<1>3. Proper(c, used)
  BY <1>2 DEF Proper, Call
<1>4. devices' \in Stored /\ \A d \in Ids : devices'[d] # None => d \in used
  BY <1>1, <1>2, Facts DEF Stored
<1>. HIDE DEF c
<1>. QED BY <1>1, <1>3, <1>4, Facts, OnInv

LEMMA EnsureInv ==
    ASSUME IInv, NEW a \in Admins, Ensure(a)
    PROVE  IInv'
<1>1. At(a, "ensure") /\ UNCHANGED <<devices, uid, used>>
  BY DEF Ensure
<1>2. /\ Proper(call[a], used) /\ call[a].pc = "ensure"
      /\ call[a].id \in Ids /\ call[a].dev \in Device
  BY <1>1, AtFacts, InHand
<1>3. PICK r \in EnsureDevice(mgr, call[a].id, call[a].dev, Fresh) :
         /\ mgr' = r.m
         /\ failed' \in {failed \ {call[a].id}, failed \cup {call[a].id}}
         /\ \/ call' = [call EXCEPT ![a].pc = "save", ![a].dev = r.dev]
            \/ call' = [call EXCEPT ![a] = Idle]
  BY DEF Ensure, Return
<1>4. Fresh \in SUBSET Topics
  BY DEF Fresh
<1>5. Fine(r.m) /\ r.dev \in Device
  BY <1>2, <1>3, <1>4, Facts, EnsureFine
<1>6. failed' \subseteq Ids
  BY <1>2, <1>3, Facts
<1> DEFINE c == [call[a] EXCEPT !.pc = "save", !.dev = r.dev]
<1>7. Proper(c, used)
  BY <1>2, <1>5 DEF Proper, Call
<1>8. call' = [call EXCEPT ![a] = c] \/ call' = [call EXCEPT ![a] = Idle]
  BY <1>3, Facts
<1>9. Fine(mgr')
  BY <1>3, <1>5
<1>. HIDE DEF c
<1>. QED BY <1>1, <1>6, <1>7, <1>8, <1>9, Facts, OnInv

LEMMA LastSteps ==
    ASSUME IInv, NEW a \in Admins, SaveAgain(a) \/ Erase(a)
    PROVE  IInv'
<1>1. CASE SaveAgain(a)
  <2>1. At(a, "save") /\ UNCHANGED <<uid, mgr, used, failed>>
        /\ devices' = [devices EXCEPT ![call[a].id] = call[a].dev]
        /\ call' = [call EXCEPT ![a] = Idle]
    BY <1>1 DEF SaveAgain, Return
  <2>2. call[a].id \in Ids /\ call[a].id \in used /\ call[a].dev \in Device
    BY <2>1, AtFacts, InHand DEF Proper
  <2>3. devices' \in Stored /\ \A d \in Ids : devices'[d] # None => d \in used
    BY <2>1, <2>2, Facts DEF Stored
  <2>. QED BY <2>1, <2>3, Facts, OnInv
<1>2. CASE Erase(a)
  <2>1. At(a, "erase") /\ UNCHANGED <<uid, mgr, used, failed>>
        /\ devices' = [devices EXCEPT ![call[a].id] = None]
        /\ call' = [call EXCEPT ![a] = Idle]
    BY <1>2 DEF Erase, Return
  <2>2. devices' \in Stored /\ \A d \in Ids : devices'[d] # None => d \in used
    BY <2>1, Facts DEF Stored
  <2>. QED BY <2>1, <2>2, Facts, OnInv
<1>. QED BY <1>1, <1>2

LEMMA SettingsInv ==
    ASSUME IInv, NEW a \in Admins, Snapshot(a) \/ Reconfigured(a)
    PROVE  IInv'
<1>1. CASE Snapshot(a)
  <2> DEFINE c == [call[a] EXCEPT !.pc = "reconfigure", !.uid = uid, !.snap = devices]
  <2>1. At(a, "snapshot") /\ UNCHANGED <<devices, uid, mgr, used, failed>>
        /\ call' = [call EXCEPT ![a] = c]
    BY <1>1, Facts DEF Snapshot
  <2>2. devices # None
    BY Facts, DeviceAssumption DEF Stored
  <2>3. /\ call[a] \in Call /\ c \in Call
        /\ c.pc = "reconfigure" /\ c.snap = devices
    <3>1. call[a] \in Call
      BY <2>1, AtFacts DEF Proper
    <3>2. devices \in [Ids -> Device \cup {None}] /\ uid \in Uids \cup {NoUid}
      BY Facts DEF Stored
    <3>. QED BY <3>1, <3>2 DEF Call
  <2>4. Proper(c, used)
    BY <2>2, <2>3 DEF Proper
  <2>. HIDE DEF c
  <2>. QED BY <2>1, <2>4, Facts, OnInv
<1>2. CASE Reconfigured(a)
  <2>1. /\ call[a].pc = "reconfigure"
        /\ UNCHANGED <<devices, uid, used, apart, calls, restarts>>
        /\ overlap' = (overlap /\ ~apart) /\ call' = [call EXCEPT ![a] = Idle]
    BY <1>2 DEF Reconfigured, Return
  <2>2. call[a].snap \in Stored /\ call[a].uid \in Uids \cup {NoUid}
    BY <2>1, InHand
  <2>3. PICK r \in Reconfigure(mgr, call[a].uid, call[a].snap) :
           /\ mgr' = r.m
           /\ failed' = (failed \ Served(r.m)) \cup Unserved(r.m, call[a].snap)
    BY <1>2 DEF Reconfigured
  <2>4. Fine(mgr')
    BY <2>2, <2>3, Facts, ReconfigureFine
  <2>5. failed' \subseteq Ids
    BY <2>3, Facts DEF Unserved
  <2>6. CallsOK'
    BY <2>1, Facts, CallMoves DEF IInv
  <2>7. StoreOK'
    BY <2>1, <2>5 DEF IInv, StoreOK
  <2>8. Fine(mgr)'
    BY <2>4 DEF Fine, Sure
  <2>. QED BY <2>6, <2>7, <2>8 DEF IInv
<1>. QED BY <1>1, <1>2

LEMMA RestartInv == IInv /\ Restart => IInv'
<1>. SUFFICES ASSUME IInv, Restart PROVE IInv'
  OBVIOUS
<1>1. PICK r \in Reconfigure(NewManager(mgr.faults), uid, devices) :
         /\ mgr' = r.m
         /\ failed' = (failed \ Served(r.m)) \cup Unserved(r.m, devices)
  BY DEF Restart
<1>2. Fine(NewManager(mgr.faults))
  BY Facts, Fields, NewFine DEF Fine
<1>3. Fine(mgr)'
  <2>1. Fine(mgr')
    BY <1>1, <1>2, Facts, ReconfigureFine
  <2>. QED BY <2>1 DEF Fine, Sure
<1>4. failed' \subseteq Ids
  BY <1>1, Facts DEF Unserved
<1>5. CallsOK'
  <2>1. call' = [a \in Admins |-> Idle] /\ used' = used /\ Idle \in Call
    BY Facts DEF Restart, Proper
  <2>2. \A a \in Admins : Proper(call'[a], used')
    BY <2>1, Facts
  <2>. QED BY <2>1, <2>2 DEF CallsOK, Proper
<1>6. StoreOK'
  <2>1. UNCHANGED <<devices, uid, used, calls>> /\ restarts' = restarts - 1 /\ restarts > 0
        /\ overlap' = FALSE /\ apart' = TRUE
    BY DEF Restart
  <2>2. StoreOK
    BY DEF IInv
  <2>3. restarts' \in 0 .. MaxRestarts
    <3>1. restarts \in 0 .. MaxRestarts
      BY <2>2 DEF StoreOK
    <3>. QED BY <2>1, <3>1
  <2>. QED BY <1>4, <2>1, <2>2, <2>3 DEF StoreOK
<1>. QED BY <1>3, <1>5, <1>6 DEF IInv

LEMMA InitInv == Init => IInv
<1>. SUFFICES ASSUME Init PROVE IInv
  OBVIOUS
<1>1. StoreOK
  <2>1. devices \in Stored /\ \A d \in Ids : devices[d] = None
    BY DEF Init, Stored
  <2>2. uid \in Uids \cup {NoUid} /\ used = {} /\ failed = {}
        /\ overlap \in BOOLEAN /\ apart \in BOOLEAN
    BY DEF Init
  <2>3. calls \in 0 .. MaxCalls /\ restarts \in 0 .. MaxRestarts
    BY DEF Init
  <2>. QED BY <2>1, <2>2, <2>3 DEF StoreOK
<1>2. Fine(mgr)
  BY NewFine DEF Init
<1>3. CallsOK
  BY DEF Init, CallsOK, Proper, Idle, Call
<1>. QED BY <1>1, <1>2, <1>3 DEF IInv

LEMMA StepInv == IInv /\ [Next]_vars => IInv'
<1>. SUFFICES ASSUME IInv, [Next]_vars PROVE IInv'
  OBVIOUS
<1>1. CASE UNCHANGED vars
  BY <1>1 DEF vars, IInv, StoreOK, CallsOK, Fine, Sure, Proper, Manager
<1>2. CASE Next
  BY <1>2, CreateInv, UpdateInv, DeleteInv, FromClientInv, AdoptInv, PutSettingsInv, RemoveInv, UpsertInv,
     EnsureInv, LastSteps, SettingsInv, RestartInv DEF Next
<1>. QED BY <1>1, <1>2

\* The inductive invariant: the map of the manager is true of the broker and
\* every request under way has in hand what its next step needs.
THEOREM Invariant == Spec => []IInv
BY InitInv, StepInv, PTL DEF Spec

\* Types of the store, the manager and every request under way.
THEOREM TypeCorrect == Spec => []TypeOK
<1>1. IInv => TypeOK
  BY DEF IInv, StoreOK, CallsOK, Proper, Fine, Stored, TypeOK
<1>. QED BY <1>1, Invariant, PTL

\* However requests overlap, fail or are cut off, the manager's map never claims
\* a subscription the broker does not have (manager.go:307-315, 340-378).
THEOREM MapIsTrue == Spec => []MapIsBroker
<1>1. IInv => MapIsBroker
  BY DEF IInv, Fine, Sure, MapIsBroker
<1>. QED BY <1>1, Invariant, PTL

-----------------------------------------------------------------------------
(* What the methods of the manager do to its map.                          *)

LEMMA UnsubscribeEffect ==
    ASSUME NEW m \in Manager, NEW t \in Topics, NEW n \in Unsubscribe(m, t)
    PROVE  n.topics = [m.topics EXCEPT ![t] = None] /\ n.up = m.up
<1> DEFINE gone == [m EXCEPT !.topics[t] = None]
           off == [gone EXCEPT !.subs[t] = None, !.refused = @ \ {t}]
           kept == [gone EXCEPT !.refused = @ \cup {t}]
<1>1. off.topics = [m.topics EXCEPT ![t] = None] /\ off.up = m.up
  BY DEF Manager
<1>2. /\ kept \in Manager
      /\ kept.topics = [m.topics EXCEPT ![t] = None] /\ kept.up = m.up
  BY DEF Manager
<1>4. n = off \/ n = Charged(kept)
  BY DEF Unsubscribe, IfFaulty
<1>. HIDE DEF off, kept
<1>3. Charged(kept).topics = kept.topics /\ Charged(kept).up = kept.up
  BY <1>2 DEF Charged, Manager
<1>. QED BY <1>1, <1>2, <1>3, <1>4

LEMMA RemoveEffect ==
    ASSUME NEW m \in Manager, NEW dev \in Device, NEW n \in RemoveDevice(m, dev)
    PROVE  /\ n.up = m.up
           /\ \A t \in Topics : n.topics[t] = IF t = dev.topic THEN None ELSE m.topics[t]
<1>1. CASE dev.topic = NoTopic
  BY <1>1 DEF RemoveDevice
<1>2. CASE dev.topic # NoTopic
  <2>1. dev.topic \in Topics /\ n \in Unsubscribe(m, dev.topic)
    BY <1>2 DEF RemoveDevice, Device
  <2>2. n.topics = [m.topics EXCEPT ![dev.topic] = None] /\ n.up = m.up
    BY <2>1, UnsubscribeEffect
  <2>3. m.topics \in [Topics -> Ids \cup {None}]
    BY Fields
  <2>. QED BY <2>2, <2>3
<1>. QED BY <1>1, <1>2

\* A subscription is made, or the topic is nobody's or as it was.
LEMMA SubscribeEffect ==
    ASSUME NEW m, Fine(m), NEW t \in Topics, NEW d \in Ids, NEW r \in Subscribe(m, t, d)
    PROVE  /\ r.m.up = m.up /\ r.ok \in BOOLEAN
           /\ \A s \in Topics \ {t} : r.m.topics[s] = m.topics[s]
           /\ r.ok => r.m.topics[t] = d
           /\ ~r.ok => r.m.topics[t] = None
<1>t. m \in Manager /\ m.topics \in [Topics -> Ids \cup {None}]
  BY Fields DEF Fine
<1>1. CASE ~m.up
  <2>1. r = Failed(m) /\ m.topics[t] = None
    BY <1>1 DEF Subscribe, Fine, Sure
  <2>. QED BY <2>1 DEF Failed
<1>2. CASE m.up /\ m.topics[t] = d
  <2>1. r = Done(m)
    BY <1>2 DEF Subscribe
  <2>. QED BY <1>2, <2>1 DEF Done
<1>3. CASE m.up /\ m.topics[t] # d
  <2>1. PICK f \in Freed(m, t) : Ends(f, t, d, r)
    BY <1>3, SubscribeCases
  <2> DEFINE on == Handled(f, t, d)
  <2>2. Fine(f) /\ f.up = m.up /\ f.topics[t] = None
        /\ \A s \in Topics \ {t} : f.topics[s] = m.topics[s]
    <3>1. CASE m.topics[t] = None
      BY <1>3, <2>1, <3>1 DEF Freed
    <3>2. CASE m.topics[t] # None
      <4>1. f \in Unsubscribe(m, t)
        BY <2>1, <3>2 DEF Freed
      <4>2. Fine(f) /\ f.up = m.up /\ f.topics = [m.topics EXCEPT ![t] = None]
        BY <1>t, <4>1, UnsubscribeFine, UnsubscribeEffect
      <4>. QED BY <1>t, <4>2
    <3>. QED BY <3>1, <3>2
  <2>3. f \in Manager /\ f.topics \in [Topics -> Ids \cup {None}]
    BY <2>2, Fields DEF Fine
  <2>4. on.topics = [f.topics EXCEPT ![t] = d] /\ on.up = f.up
    BY <2>3 DEF Handled, Manager
  <2>5. Charged(f).topics = f.topics /\ Charged(f).up = f.up
    BY <2>3 DEF Charged, Manager
  <2>r. r = Done(on) \/ r = Failed(Charged(f))
    BY <2>1 DEF Ends
  <2>. HIDE DEF on
  <2>6. CASE r = Done(on)
    BY <2>2, <2>3, <2>4, <2>6 DEF Done
  <2>7. CASE r = Failed(Charged(f))
    BY <2>2, <2>5, <2>7 DEF Failed
  <2>. QED BY <2>r, <2>6, <2>7
<1>. QED BY <1>1, <1>2, <1>3

\* EnsureDevice is about one topic at most, the one it settles on.
LEMMA EnsureEffect ==
    ASSUME NEW m, Fine(m), NEW d \in Ids, NEW dev \in Device,
           NEW fresh \in SUBSET Topics, NEW r \in EnsureDevice(m, d, dev, fresh)
    PROVE  /\ r.m.up = m.up /\ r.ok \in BOOLEAN /\ r.dev \in Device /\ r.dev.on = dev.on
           /\ \/ r.dev = dev
              \/ dev.topic = NoTopic /\ r.dev.topic \in fresh
              \/ dev.topic # NoTopic /\ r.dev.topic = Norm[dev.topic]
           /\ \A s \in Topics : r.m.topics[s] = m.topics[s] \/ s = r.dev.topic
           /\ ~dev.on => r.ok /\ \A s \in Topics : r.m.topics[s] \in {m.topics[s], None}
           /\ dev.on /\ r.ok => /\ r.dev.topic \in Topics
                                /\ Norm[r.dev.topic] = r.dev.topic \/ r.dev.topic \in fresh
                                /\ r.m.topics[r.dev.topic] = d
           /\ dev.on /\ ~r.ok =>
                 /\ \A s \in Topics : r.m.topics[s] \in {m.topics[s], None}
                 /\ r.dev = dev \/ (r.dev.topic \in Topics /\ r.m.topics[r.dev.topic] = None)
<1>1. CASE ~dev.on
  <2>1. PICK n \in RemoveDevice(m, dev) : r = [m |-> n, ok |-> TRUE, dev |-> dev]
    BY <1>1 DEF EnsureDevice
  <2>2. /\ n.up = m.up
        /\ \A t \in Topics : n.topics[t] = IF t = dev.topic THEN None ELSE m.topics[t]
    BY RemoveEffect DEF Fine
  <2>. QED BY <1>1, <2>1, <2>2
<1>2. CASE dev.on /\ (m.uid = NoUid \/ ~m.up)
  <2>1. r = [m |-> m, ok |-> FALSE, dev |-> dev]
    BY <1>2 DEF EnsureDevice
  <2>. QED BY <1>2, <2>1
<1>3. CASE dev.on /\ ~(m.uid = NoUid \/ ~m.up)
  <2>1. PICK t \in IF dev.topic = NoTopic THEN fresh ELSE {Norm[dev.topic]} :
           \E q \in Subscribe(m, t, d) :
               r = [m |-> q.m, ok |-> q.ok, dev |-> [dev EXCEPT !.topic = t]]
    BY <1>3 DEF EnsureDevice
  <2>2. PICK q \in Subscribe(m, t, d) :
               r = [m |-> q.m, ok |-> q.ok, dev |-> [dev EXCEPT !.topic = t]]
    BY <2>1
  <2>3. t \in Topics
    BY DEF Device
  <2>4. [dev EXCEPT !.topic = t] \in Device /\ [dev EXCEPT !.topic = t].topic = t
        /\ [dev EXCEPT !.topic = t].on = dev.on
    BY <2>3 DEF Device
  <2>5. r.m = q.m /\ r.ok = q.ok /\ r.dev \in Device /\ r.dev.topic = t /\ r.dev.on = dev.on
    BY <2>2, <2>4
  <2>6. /\ r.m.up = m.up /\ r.ok \in BOOLEAN
        /\ \A s \in Topics \ {t} : r.m.topics[s] = m.topics[s]
        /\ r.ok => r.m.topics[t] = d
        /\ ~r.ok => r.m.topics[t] = None
    BY <2>3, <2>5, SubscribeEffect
  <2>7. dev.topic # NoTopic => dev.topic \in Topics /\ t = Norm[dev.topic]
    BY DEF Device
  <2>8. ~r.ok => \A s \in Topics : r.m.topics[s] \in {m.topics[s], None}
    BY <2>6
  <2>9. \/ dev.topic = NoTopic /\ t \in fresh
        \/ dev.topic # NoTopic /\ t = Norm[dev.topic]
    BY <2>1, <2>7
  <2>10. Norm[t] = t \/ t \in fresh
    BY <2>7, <2>9
  <2>. QED BY <1>3, <2>3, <2>5, <2>6, <2>8, <2>9, <2>10
<1>. QED BY <1>1, <1>2, <1>3

\* A reconfigured manager has nothing but what the configuration asks for.
LEMMA SyncEffect ==
    ASSUME NEW m, Fine(m), NEW devs \in Stored, NEW r \in Sync(m, devs)
    PROVE  \A t \in Topics : r.m.topics[t] = None \/ r.m.topics[t] \in Wants(devs, t)
<1>0. PICK w \in Choices(devs) : \E f \in Mishaps(m, w) : r = Done(Synced(m, w, f))
  BY DEF Sync
<1>1. PICK f \in Mishaps(m, w) : r = Done(Synced(m, w, f))
  BY <1>0
<1> DEFINE W == {t \in Topics : Wants(devs, t) # {}}
<1>2. w \in [W -> Ids] /\ \A t \in W : w[t] \in Wants(devs, t)
  BY DEF Choices
<1>3. r.m = Synced(m, w, f) /\ m \in Manager
  BY <1>1 DEF Done, Fine
<1>4. r.m.topics = [t \in Topics |-> IF t \in DOMAIN w \ f.lost THEN w[t] ELSE None]
  BY <1>3 DEF Synced, Manager
<1>. QED BY <1>2, <1>4

LEMMA ReconfigureEffect ==
    ASSUME NEW m, Fine(m), NEW u \in Uids \cup {NoUid}, NEW devs \in Stored,
           NEW r \in Reconfigure(m, u, devs)
    PROVE  \A t \in Topics : r.m.topics[t] = None \/ r.m.topics[t] \in Wants(devs, t)
<1>1. CASE u = m.uid /\ m.up
  BY <1>1, SyncEffect DEF Reconfigure
<1>2. CASE ~(u = m.uid /\ m.up)
  <2> DEFINE c == [Closed(m) EXCEPT !.uid = u]
             s == [c EXCEPT !.up = TRUE]
  <2>1. Fine(c) /\ c.faults = m.faults /\ Fine(s)
    BY ClosedFine
  <2>2. c.topics = Nothing
    BY DEF Closed, Fine, Manager
  <2>3. \/ r = Done(c)
        \/ r \in Sync(s, devs)
        \/ c.faults > 0 /\ r = Failed(Charged(c))
    BY <1>2 DEF Reconfigure, IfFaulty
  <2>4. Charged(c).topics = c.topics
    <3>1. c \in Manager
      BY <2>1 DEF Fine
    <3>. HIDE DEF c
    <3>. QED BY <3>1 DEF Charged, Manager
  <2>. HIDE DEF c, s
  <2>5. CASE r = Done(c)
    BY <2>2, <2>5 DEF Done, Nothing
  <2>6. CASE r \in Sync(s, devs)
    BY <2>1, <2>6, SyncEffect
  <2>7. CASE c.faults > 0 /\ r = Failed(Charged(c))
    BY <2>2, <2>4, <2>7 DEF Failed, Nothing
  <2>. QED BY <2>3, <2>5, <2>6, <2>7
<1>. QED BY <1>1, <1>2

-----------------------------------------------------------------------------
(* Requests that do not overlap.  While ~overlap at most one request is     *)
(* under way, c; what it read is still so, and every subscription belongs  *)
(* to the device it should belong to at this point of c.                   *)

\* What a request without others beside it still finds.
Present(c, ds) ==
    /\ c.pc \in {"found", "remove", "upsert", "ensure", "save", "erase"} => ds[c.id] # None
    /\ c.pc = "remove" => c.old = ds[c.id]
    /\ c.pc \in {"found", "ensure"} => c.dev = ds[c.id]
    /\ c.pc = "reconfigure" => c.snap = ds
    /\ c.pc \in {"idle", "snapshot", "reconfigure"} => c.id = None

Has(x, t) == x # None /\ x.on /\ x.topic = t

\* Device e has topic t, or will when c, which is about e, has saved it.
Rightful(c, ds, e, t) ==
    IF c.id = e /\ c.pc \in {"upsert", "save"} THEN Has(c.dev, t)
    ELSE ~(c.id = e /\ c.pc = "erase") /\ Has(ds[e], t)

Titled(c, ds, ts) ==
    \A t \in Topics : Norm[t] = t /\ ts[t] # None => Rightful(c, ds, ts[t], t)

LEMMA IdleIsCall == Idle \in Call
BY DEF Idle, Call

\* The one request under way, Idle if there is none.
Hand(c) ==
    \/ c = Idle /\ \A a \in Admins : call[a] = Idle
    \/ \E a \in Admins : call[a] = c /\ \A b \in Admins \ {a} : call[b] = Idle

Alone ==
    ~overlap => \E c \in Call : /\ Hand(c)
                                /\ Present(c, devices)
                                /\ Titled(c, devices, mgr.topics)

\* A save of the settings that began with no other request under way, and beside
\* which none began, has the store's devices in its snapshot.
Solo ==
    /\ ~overlap => apart
    /\ apart => \E c \in Call : Hand(c) /\ (c.pc = "reconfigure" => c.snap = devices)

LEMMA SoloOver ==
    ASSUME IInv, IInv', NEW a \in Admins, NEW c, call' = [call EXCEPT ![a] = c],
           ~overlap' => apart',
           apart' => \A b \in Admins \ {a} : call[b] = Idle,
           c.pc = "reconfigure" => c.snap = devices'
    PROVE  Solo'
<1>1. call \in [Admins -> Call] /\ call' \in [Admins -> Call]
  BY Facts DEF IInv, CallsOK
<1>2. call'[a] = c /\ c \in Call /\ \A b \in Admins \ {a} : call'[b] = call[b]
  BY <1>1
<1>3. apart' => Hand(c)'
  BY <1>2 DEF Hand
<1>. QED BY <1>2, <1>3 DEF Solo

LEMMA BegunSolo ==
    ASSUME IInv, IInv', NEW a \in Admins, NEW c, Begin(a, c), c.pc # "reconfigure", Solo
    PROVE  Solo'
<1>1. (~overlap' => apart') /\ (apart' => \A b \in Admins \ {a} : call[b] = Idle)
  BY DEF Begin
<1>. QED BY <1>1, BeginFacts, SoloOver

LEMMA BeginSolo ==
    ASSUME IInv, IInv', Solo, NEW a \in Admins,
           \/ \E d \in Ids : \/ \E b \in Bodies[d] : Create(a, d, b) \/ Update(a, d, b)
                             \/ Delete(a, d) \/ FromClient(a, d)
           \/ \E u \in Uids \cup {NoUid} : PutSettings(a, u)
    PROVE  Solo'
<1>1. ASSUME NEW d \in Ids, NEW b \in Bodies[d], Create(a, d, b) PROVE Solo'
  <2> DEFINE c == [Idle EXCEPT !.op = "create", !.pc = "ensure", !.id = d, !.dev = b]
  <2>1. Begin(a, c) /\ c.pc # "reconfigure"
    BY <1>1 DEF Create, Idle
  <2>. HIDE DEF c
  <2>. QED BY <2>1, BegunSolo
<1>2. ASSUME NEW d \in Ids, NEW b \in Bodies[d], Update(a, d, b) PROVE Solo'
  <2>1. PICK pc \in {"remove", "upsert"} :
           Begin(a, [Idle EXCEPT !.op = "update", !.id = d, !.old = devices[d], !.dev = b,
                                 !.pc = pc])
    BY <1>2 DEF Update, First
  <2> DEFINE c == [Idle EXCEPT !.op = "update", !.id = d, !.old = devices[d], !.dev = b,
                               !.pc = pc]
  <2>2. Begin(a, c) /\ c.pc # "reconfigure"
    BY <2>1 DEF Idle
  <2>. HIDE DEF c
  <2>. QED BY <2>2, BegunSolo
<1>3. ASSUME NEW d \in Ids, Delete(a, d) PROVE Solo'
  <2> DEFINE c == [Idle EXCEPT !.op = "delete", !.pc = "remove", !.id = d,
                               !.old = devices[d]]
  <2>1. Begin(a, c) /\ c.pc # "reconfigure"
    BY <1>3 DEF Delete, Idle
  <2>. HIDE DEF c
  <2>. QED BY <2>1, BegunSolo
<1>4. ASSUME NEW d \in Ids, FromClient(a, d) PROVE Solo'
  <2> DEFINE c == [Idle EXCEPT !.op = "update", !.id = d, !.dev = devices[d], !.pc = "found"]
  <2>1. Begin(a, c) /\ c.pc # "reconfigure"
    BY <1>4 DEF FromClient, Idle
  <2>. HIDE DEF c
  <2>. QED BY <2>1, BegunSolo
<1>5. ASSUME NEW u \in Uids \cup {NoUid}, PutSettings(a, u) PROVE Solo'
  <2> DEFINE c == [Idle EXCEPT !.op = "settings", !.pc = "snapshot"]
  <2>1. Begin(a, c) /\ c.pc # "reconfigure"
    BY <1>5 DEF PutSettings, Idle
  <2>. HIDE DEF c
  <2>. QED BY <2>1, BegunSolo
<1>. QED BY <1>1, <1>2, <1>3, <1>4, <1>5

\* While a is under way and no request ran beside it, it is the only one.
LEMMA OnlyOne ==
    ASSUME IInv, Solo, NEW a \in Admins, call[a].pc # "idle", apart
    PROVE  /\ \A b \in Admins \ {a} : call[b] = Idle
           /\ call[a].pc = "reconfigure" => call[a].snap = devices
<1>1. PICK c \in Call : Hand(c) /\ (c.pc = "reconfigure" => c.snap = devices)
  BY DEF Solo
<1>2. call[a] # Idle
  BY DEF Idle
<1>. QED BY <1>1, <1>2 DEF Hand

\* A request goes on, or ends, without taking a snapshot.
LEMMA OnSolo ==
    ASSUME IInv, IInv', Solo, NEW a \in Admins, NEW c, call' = [call EXCEPT ![a] = c],
           call[a].pc # "idle", apart' = apart, ~overlap' => ~overlap \/ apart,
           c.pc = "reconfigure" => c.snap = devices'
    PROVE  Solo'
<1>1. ~overlap' => apart'
  BY DEF Solo
<1>2. apart' => \A b \in Admins \ {a} : call[b] = Idle
  BY OnlyOne
<1>. QED BY <1>1, <1>2, SoloOver

LEMMA GoesOnSolo ==
    ASSUME IInv, IInv', Solo, NEW a \in Admins, NEW pc, At(a, pc), pc # "idle",
           NEW c, call' = [call EXCEPT ![a] = c],
           c.pc = "reconfigure" => c.snap = devices'
    PROVE  Solo'
BY OnSolo DEF At

LEMMA StepsSolo ==
    ASSUME IInv, IInv', Solo, NEW a \in Admins,
           \/ Adopt(a) \/ Remove(a) \/ Upsert(a) \/ Ensure(a) \/ SaveAgain(a) \/ Erase(a)
           \/ Snapshot(a) \/ Reconfigured(a)
    PROVE  Solo'
<1>i. Idle.pc = "idle" /\ call[a] \in Call /\ call \in [Admins -> Call]
  BY Facts DEF Idle
<1>1. CASE Adopt(a)
  <2>1. PICK c \in Call : call' = [call EXCEPT ![a] = c] /\ c.pc # "reconfigure"
    BY <1>1, AdoptStep, IdleIsCall DEF Idle
  <2>. QED BY <1>1, <2>1, AdoptStep, GoesOnSolo
<1>2. CASE Remove(a) \/ Upsert(a)
  <2>1. PICK pc \in {"erase", "upsert", "ensure"} :
           /\ call' = [call EXCEPT ![a].pc = pc]
           /\ At(a, "remove") \/ At(a, "upsert")
    BY <1>2 DEF Remove, Upsert, Continue
  <2> DEFINE c == [call[a] EXCEPT !.pc = pc]
  <2>2. call' = [call EXCEPT ![a] = c] /\ c.pc = pc
    BY <1>i, <2>1 DEF Call
  <2>. HIDE DEF c
  <2>. QED BY <2>1, <2>2, GoesOnSolo
<1>3. CASE Ensure(a)
  <2>1. PICK r \in EnsureDevice(mgr, call[a].id, call[a].dev, Fresh) :
           \/ call' = [call EXCEPT ![a].pc = "save", ![a].dev = r.dev]
           \/ call' = [call EXCEPT ![a] = Idle]
    BY <1>3 DEF Ensure, Return
  <2> DEFINE c == [call[a] EXCEPT !.pc = "save", !.dev = r.dev]
  <2>2. /\ At(a, "ensure") /\ c.pc = "save"
        /\ \/ call' = [call EXCEPT ![a] = c]
           \/ call' = [call EXCEPT ![a] = Idle]
    BY <1>3, <1>i, <2>1 DEF Ensure, Call
  <2>. HIDE DEF c
  <2>3. CASE call' = [call EXCEPT ![a] = c]
    BY <2>2, <2>3, GoesOnSolo
  <2>4. CASE call' = [call EXCEPT ![a] = Idle]
    BY <1>i, <2>2, <2>4, GoesOnSolo
  <2>. QED BY <2>2, <2>3, <2>4
<1>4. CASE SaveAgain(a) \/ Erase(a)
  <2>1. call' = [call EXCEPT ![a] = Idle] /\ (At(a, "save") \/ At(a, "erase"))
    BY <1>4 DEF SaveAgain, Erase, Return
  <2>. QED BY <1>i, <2>1, GoesOnSolo
<1>5. CASE Snapshot(a)
  <2> DEFINE c == [call[a] EXCEPT !.pc = "reconfigure", !.uid = uid, !.snap = devices]
  <2>1. At(a, "snapshot") /\ call' = [call EXCEPT ![a] = c] /\ devices' = devices
    BY <1>5, <1>i DEF Snapshot
  <2>2. c.snap = devices
    BY <1>i DEF Call
  <2>. HIDE DEF c
  <2>. QED BY <2>1, <2>2, GoesOnSolo
<1>6. CASE Reconfigured(a)
  <2>1. /\ call' = [call EXCEPT ![a] = Idle] /\ call[a].pc = "reconfigure"
        /\ apart' = apart /\ overlap' = (overlap /\ ~apart)
    BY <1>6 DEF Reconfigured, Return
  <2>2. ~overlap' => ~overlap \/ apart
    BY <2>1
  <2>. QED BY <1>i, <2>1, <2>2, OnSolo
<1>. QED BY <1>1, <1>2, <1>3, <1>4, <1>5, <1>6

LEMMA StepSolo == IInv /\ Solo /\ [Next]_vars => Solo'
<1>. SUFFICES ASSUME IInv, Solo, [Next]_vars PROVE Solo'
  OBVIOUS
<1>0. IInv'
  BY StepInv
<1>1. CASE UNCHANGED vars
  BY <1>1 DEF vars, Solo, Hand
<1>2. CASE Restart
  <2>1. apart' /\ call' = [a \in Admins |-> Idle]
    BY <1>2 DEF Restart
  <2>. QED BY <2>1, IdleIsCall DEF Solo, Hand, Idle
<1>3. CASE Next
  BY <1>0, <1>2, <1>3, BeginSolo, StepsSolo DEF Next
<1>. QED BY <1>1, <1>3

LEMMA SoloAlways == Spec => []Solo
<1>1. Init => Solo
  <2>1. Init => Hand(Idle) /\ apart
    BY DEF Init, Hand
  <2>. QED BY <2>1, IdleIsCall DEF Solo, Idle
<1>. QED BY <1>1, Invariant, StepSolo, PTL DEF Spec

\* The snapshot a save of the settings ends with, when what overlapped is over.
LEMMA LastSolo ==
    ASSUME IInv, Solo, NEW a \in Admins, Reconfigured(a), ~overlap'
    PROVE  call[a].snap = devices /\ Hand(Idle)'
<1>1. /\ call' = [call EXCEPT ![a] = Idle] /\ call[a].pc = "reconfigure"
      /\ overlap' = (overlap /\ ~apart)
  BY DEF Reconfigured, Return
<1>2. apart
  BY <1>1 DEF Solo
<1>3. call[a].snap = devices /\ \A b \in Admins \ {a} : call[b] = Idle
  BY <1>1, <1>2, OnlyOne
<1>. QED BY <1>1, <1>3, Facts DEF Hand

-----------------------------------------------------------------------------
(* The invariants of requests that do not overlap.                         *)

\* Before and after a step of a.
Turn(a) ==
    /\ ~overlap /\ \A b \in Admins \ {a} : call[b] = Idle
    /\ Present(call[a], devices) /\ Titled(call[a], devices, mgr.topics)

LEMMA HandTurn ==
    ASSUME Alone, NEW a \in Admins, ~overlap, \A b \in Admins \ {a} : call[b] = Idle
    PROVE  Turn(a)
<1>1. PICK c \in Call : Hand(c) /\ Present(c, devices) /\ Titled(c, devices, mgr.topics)
  BY DEF Alone
<1>2. call[a] = c
  BY <1>1 DEF Hand
<1>. QED BY <1>1, <1>2 DEF Turn

LEMMA BeginTurn ==
    ASSUME Alone, NEW a \in Admins, NEW c, Begin(a, c), ~overlap'
    PROVE  Turn(a) /\ call[a] = Idle
<1>1. ~overlap /\ call[a] = Idle /\ \A b \in Admins \ {a} : call[b] = Idle
  BY DEF Begin
<1>. QED BY <1>1, HandTurn

LEMMA AtTurn ==
    ASSUME Alone, NEW a \in Admins, NEW pc, At(a, pc), pc # "idle", ~overlap'
    PROVE  Turn(a)
<1>1. ~overlap /\ call[a] # Idle
  BY DEF At, Idle
<1>2. PICK c \in Call : Hand(c)
  BY <1>1 DEF Alone
<1>3. \A b \in Admins \ {a} : call[b] = Idle
  BY <1>1, <1>2 DEF Hand
<1>. QED BY <1>1, <1>3, HandTurn

LEMMA TurnOver ==
    ASSUME IInv, NEW a \in Admins, NEW c \in Call, call' = [call EXCEPT ![a] = c],
           ~overlap' => /\ Turn(a)
                        /\ Present(c, devices') /\ Titled(c, devices', mgr'.topics)
    PROVE  Alone'
<1>1. call \in [Admins -> Call]
  BY Facts
<1>2. ASSUME Turn(a) PROVE Hand(c)'
  BY <1>1, <1>2 DEF Turn, Hand
<1>. QED BY <1>2 DEF Alone

LEMMA IdleIs ==
    /\ Idle \in Call
    /\ \A ds : Present(Idle, ds)
    /\ \A ds, ts : ts \in [Topics -> Ids \cup {None}] =>
          (Titled(Idle, ds, ts) <=>
              \A t \in Topics : Norm[t] = t /\ ts[t] # None => Has(ds[ts[t]], t))
BY DEF Idle, Call, Present, Titled, Rightful

LEMMA Bound ==
    ASSUME IInv
    PROVE  mgr.topics \in [Topics -> Ids \cup {None}]
BY Fields DEF IInv, Fine

LEMMA CreateAlone ==
    ASSUME IInv, Alone, NEW a \in Admins, NEW d \in Ids, NEW b \in Bodies[d], Create(a, d, b)
    PROVE  Alone'
<1> DEFINE c == [Idle EXCEPT !.op = "create", !.pc = "ensure", !.id = d, !.dev = b]
<1>1. /\ b \in Device /\ d \notin used /\ Begin(a, c)
      /\ devices' = [devices EXCEPT ![d] = b] /\ mgr' = mgr
  BY DEF Create
<1>2. c \in Call /\ c.pc = "ensure" /\ c.id = d /\ c.dev = b
  BY <1>1 DEF Idle, Call
<1>. HIDE DEF c
<1>3. call' = [call EXCEPT ![a] = c] /\ devices'[d] = b /\ b # None
      /\ \A e \in Ids \ {d} : devices'[e] = devices[e]
  BY <1>1, Facts, BeginFacts DEF Stored
<1>4. Present(c, devices')
  BY <1>2, <1>3 DEF Present
<1>5. ASSUME ~overlap' PROVE Turn(a) /\ Titled(c, devices', mgr'.topics)
  <2>1. Turn(a) /\ call[a] = Idle
    BY <1>1, <1>5, BeginTurn
  <2>2. \A t \in Topics : Norm[t] = t /\ mgr.topics[t] # None =>
           mgr.topics[t] \in Ids \ {d} /\ Has(devices[mgr.topics[t]], t)
    BY <1>1, <2>1, Facts, Bound, IdleIs DEF Turn, Has
  <2>. QED BY <1>1, <1>2, <1>3, <2>1, <2>2 DEF Titled, Rightful
<1>. QED BY <1>2, <1>3, <1>4, <1>5, TurnOver

\* A request that begins without touching the store's devices or the manager.
LEMMA BegunAlone ==
    ASSUME IInv, Alone, NEW a \in Admins, NEW c \in Call, Begin(a, c),
           UNCHANGED <<devices, mgr>>, Present(c, devices),
           c.pc = "upsert" => \A t \in Topics : Has(devices[c.id], t) => Has(c.dev, t),
           c.pc \notin {"save", "erase"}
    PROVE  Alone'
<1>1. ASSUME ~overlap' PROVE Turn(a) /\ Titled(c, devices', mgr'.topics)
  <2>1. Turn(a) /\ call[a] = Idle
    BY <1>1, BeginTurn
  <2>2. \A t \in Topics : Norm[t] = t /\ mgr.topics[t] # None =>
           Has(devices[mgr.topics[t]], t)
    BY <2>1, Bound, IdleIs DEF Turn
  <2>. QED BY <2>1, <2>2 DEF Titled, Rightful
<1>. QED BY <1>1, BeginFacts, TurnOver

LEMMA UpdateAlone ==
    ASSUME IInv, Alone, NEW a \in Admins, NEW d \in Ids, NEW b \in Bodies[d], Update(a, d, b)
    PROVE  Alone'
<1>1. PICK pc \in {"remove", "upsert"} :
         /\ Begin(a, [Idle EXCEPT !.op = "update", !.id = d, !.old = devices[d], !.dev = b,
                                  !.pc = pc])
         /\ pc = "upsert" => \/ devices[d].topic = NoTopic
                             \/ devices[d].topic = b.topic /\ b.on
  BY DEF Update, First
<1> DEFINE c == [Idle EXCEPT !.op = "update", !.id = d, !.old = devices[d], !.dev = b,
                             !.pc = pc]
<1>2. /\ b \in Device /\ devices[d] \in Device /\ devices[d] # None
      /\ UNCHANGED <<devices, mgr>>
  BY Facts DEF Update, Stored
<1>3. c \in Call /\ c.pc = pc /\ c.id = d /\ c.old = devices[d] /\ c.dev = b
  BY <1>2 DEF Idle, Call
<1>4. Begin(a, c)
  BY <1>1
<1>. HIDE DEF c
<1>5. Present(c, devices)
  BY <1>2, <1>3 DEF Present
<1>6. c.pc = "upsert" => \A t \in Topics : Has(devices[c.id], t) => Has(c.dev, t)
  BY <1>1, <1>2, <1>3 DEF Has
<1>. QED BY <1>2, <1>3, <1>4, <1>5, <1>6, BegunAlone

LEMMA DeleteAlone ==
    ASSUME IInv, Alone, NEW a \in Admins, NEW d \in Ids, Delete(a, d)
    PROVE  Alone'
<1> DEFINE c == [Idle EXCEPT !.op = "delete", !.pc = "remove", !.id = d,
                             !.old = devices[d]]
<1>1. /\ devices[d] \in Device /\ devices[d] # None /\ Begin(a, c)
      /\ UNCHANGED <<devices, mgr>>
  BY Facts DEF Delete, Stored
<1>2. c \in Call /\ c.pc = "remove" /\ c.id = d /\ c.old = devices[d]
  BY <1>1 DEF Idle, Call
<1>. HIDE DEF c
<1>3. Present(c, devices)
  BY <1>1, <1>2 DEF Present
<1>. QED BY <1>1, <1>2, <1>3, BegunAlone

LEMMA FromClientAlone ==
    ASSUME IInv, Alone, NEW a \in Admins, NEW d \in Ids, FromClient(a, d)
    PROVE  Alone'
<1> DEFINE c == [Idle EXCEPT !.op = "update", !.id = d, !.dev = devices[d], !.pc = "found"]
<1>1. /\ devices[d] \in Device /\ devices[d] # None /\ Begin(a, c)
      /\ UNCHANGED <<devices, mgr>>
  BY Facts DEF FromClient, Stored
<1>2. c \in Call /\ c.pc = "found" /\ c.id = d /\ c.dev = devices[d]
  BY <1>1 DEF Idle, Call
<1>. HIDE DEF c
<1>3. Present(c, devices)
  BY <1>1, <1>2 DEF Present
<1>. QED BY <1>1, <1>2, <1>3, BegunAlone

\* Alone, the list FromClient read is still true.
LEMMA AdoptAlone ==
    ASSUME IInv, Alone, NEW a \in Admins, Adopt(a)
    PROVE  Alone'
<1>1. ASSUME ~overlap' PROVE Turn(a)
  BY <1>1, AdoptStep, AtTurn
<1>2. CASE call' = [call EXCEPT ![a] = Idle]
  <2>1. ASSUME ~overlap' PROVE Titled(Idle, devices', mgr'.topics)
    BY <1>1, <2>1, AdoptStep, Bound, IdleIs DEF Turn, Titled, Rightful
  <2>. QED BY <1>1, <1>2, <2>1, IdleIs, TurnOver
<1>3. CASE call' # [call EXCEPT ![a] = Idle]
  <2>1. PICK c \in Call :
           /\ call' = [call EXCEPT ![a] = c]
           /\ c.pc \in {"remove", "upsert"}
           /\ c.id = call[a].id /\ c.dev = call[a].dev
           /\ c.old = devices[c.id] /\ c.old # None
    BY <1>3, AdoptStep
  <2>2. Present(c, devices')
    BY <2>1, AdoptStep DEF Present
  <2>3. ASSUME ~overlap' PROVE Titled(c, devices', mgr'.topics)
    <3>1. /\ devices' = devices /\ mgr' = mgr /\ call[a].pc = "found"
          /\ c.dev = devices[c.id] /\ Titled(call[a], devices, mgr.topics)
      BY <1>1, <2>1, <2>3, AdoptStep DEF Turn, Present
    <3>2. \A t \in Topics : Norm[t] = t /\ mgr.topics[t] # None =>
             Has(devices[mgr.topics[t]], t)
      BY <3>1 DEF Titled, Rightful
    <3>. QED BY <2>1, <3>1, <3>2 DEF Titled, Rightful
  <2>. QED BY <1>1, <2>1, <2>2, <2>3, TurnOver
<1>. QED BY <1>2, <1>3

LEMMA PutSettingsAlone ==
    ASSUME IInv, Alone, NEW a \in Admins, NEW u \in Uids \cup {NoUid}, PutSettings(a, u)
    PROVE  Alone'
<1> DEFINE c == [Idle EXCEPT !.op = "settings", !.pc = "snapshot"]
<1>1. c \in Call /\ c.pc = "snapshot" /\ c.id = None
  BY DEF Idle, Call
<1>2. Begin(a, c) /\ UNCHANGED <<devices, mgr>>
  BY DEF PutSettings
<1>. HIDE DEF c
<1>3. Present(c, devices)
  BY <1>1 DEF Present
<1>. QED BY <1>1, <1>2, <1>3, BegunAlone

\* The device being deleted or moved gives its old topic up.
LEMMA RemoveAlone ==
    ASSUME IInv, Alone, NEW a \in Admins, Remove(a)
    PROVE  Alone'
<1>1. PICK pc \in {"erase", "upsert"} : call' = [call EXCEPT ![a].pc = pc]
  BY DEF Remove, Continue
<1> DEFINE c == [call[a] EXCEPT !.pc = pc]
<1>2. At(a, "remove") /\ devices' = devices /\ mgr' \in RemoveDevice(mgr, call[a].old)
  BY DEF Remove
<1>3. call[a] \in Call /\ call[a].pc = "remove" /\ call[a].old \in Device
  BY <1>2, AtFacts, InHand DEF Proper
<1>4. c \in Call /\ c.pc = pc /\ c.id = call[a].id /\ call' = [call EXCEPT ![a] = c]
  BY <1>1, <1>3, Facts DEF Call
<1>. HIDE DEF c
<1>5. \A t \in Topics :
         mgr'.topics[t] = IF t = call[a].old.topic THEN None ELSE mgr.topics[t]
  BY <1>2, <1>3, Facts, RemoveEffect DEF Fine
<1>6. ASSUME ~overlap' PROVE Turn(a) /\ Present(c, devices') /\ Titled(c, devices', mgr'.topics)
  <2>1. Turn(a)
    BY <1>2, <1>6, AtTurn
  <2>2. devices[call[a].id] # None /\ call[a].old = devices[call[a].id]
    BY <1>3, <2>1 DEF Turn, Present
  <2>3. Present(c, devices')
    BY <1>2, <1>4, <2>2 DEF Present
  <2>4. ASSUME NEW t \in Topics, Norm[t] = t, mgr'.topics[t] # None
        PROVE  mgr'.topics[t] # call[a].id /\ Has(devices[mgr'.topics[t]], t)
    <3>1. t # call[a].old.topic /\ mgr'.topics[t] = mgr.topics[t]
      BY <1>5, <2>4
    <3>2. Has(devices[mgr.topics[t]], t)
      BY <1>3, <2>1, <2>4, <3>1 DEF Turn, Titled, Rightful
    <3>. QED BY <2>2, <3>1, <3>2 DEF Has
  <2>. QED BY <1>2, <1>4, <2>1, <2>3, <2>4 DEF Titled, Rightful
<1>. QED BY <1>4, <1>6, TurnOver

LEMMA UpsertAlone ==
    ASSUME IInv, Alone, NEW a \in Admins, Upsert(a)
    PROVE  Alone'
<1> DEFINE c == [call[a] EXCEPT !.pc = "ensure"]
<1>1. At(a, "upsert") /\ devices' = [devices EXCEPT ![call[a].id] = call[a].dev]
      /\ mgr' = mgr /\ call' = [call EXCEPT ![a] = c]
  BY Facts DEF Upsert, Continue
<1>2. call[a] \in Call /\ call[a].pc = "upsert" /\ call[a].id \in Ids /\ call[a].dev \in Device
  BY <1>1, AtFacts, InHand DEF Proper
<1>3. c \in Call /\ c.pc = "ensure" /\ c.id = call[a].id /\ c.dev = call[a].dev
  BY <1>2 DEF Call
<1>. HIDE DEF c
<1>4. devices'[c.id] = c.dev /\ c.dev # None
      /\ \A e \in Ids \ {c.id} : devices'[e] = devices[e]
  BY <1>1, <1>2, <1>3, Facts DEF Stored
<1>5. Present(c, devices')
  BY <1>3, <1>4 DEF Present
<1>6. ASSUME ~overlap' PROVE Turn(a) /\ Titled(c, devices', mgr'.topics)
  <2>1. Turn(a)
    BY <1>1, <1>6, AtTurn
  <2>2. ASSUME NEW t \in Topics, Norm[t] = t, mgr.topics[t] # None
        PROVE  Has(devices'[mgr.topics[t]], t)
    <3>1. mgr.topics[t] \in Ids /\ Rightful(call[a], devices, mgr.topics[t], t)
      BY <2>1, <2>2, Bound DEF Turn, Titled
    <3>. QED BY <1>2, <1>3, <1>4, <3>1 DEF Rightful
  <2>. QED BY <1>1, <1>3, <2>1, <2>2 DEF Titled, Rightful
<1>. QED BY <1>1, <1>3, <1>5, <1>6, TurnOver

\* Ensuring a device may take its topic from another one, never give the device
\* a topic it will not be saved with.
LEMMA EnsureAlone ==
    ASSUME IInv, Alone, NEW a \in Admins, Ensure(a)
    PROVE  Alone'
<1>1. At(a, "ensure") /\ devices' = devices
  BY DEF Ensure
<1>2. /\ call[a] \in Call /\ call[a].pc = "ensure"
      /\ call[a].id \in Ids /\ call[a].dev \in Device
  BY <1>1, AtFacts, InHand DEF Proper
<1>3. PICK r \in EnsureDevice(mgr, call[a].id, call[a].dev, Fresh) :
         /\ mgr' = r.m
         /\ \/ r.ok /\ call' = [call EXCEPT ![a].pc = "save", ![a].dev = r.dev]
            \/ ~r.ok /\ call' = [call EXCEPT ![a].pc = "save", ![a].dev = r.dev]
            \/ ~r.ok /\ call' = [call EXCEPT ![a] = Idle]
  BY DEF Ensure, Return
<1> DEFINE id == call[a].id
           dev == call[a].dev
           c == [call[a] EXCEPT !.pc = "save", !.dev = r.dev]
<1>4. /\ r.dev \in Device /\ r.dev.on = dev.on
      /\ \/ r.dev = dev
         \/ dev.topic = NoTopic
         \/ dev.topic # NoTopic /\ r.dev.topic = Norm[dev.topic]
      /\ \A s \in Topics : mgr'.topics[s] = mgr.topics[s] \/ s = r.dev.topic
      /\ dev.on /\ r.ok => r.dev.topic \in Topics /\ mgr'.topics[r.dev.topic] = id
      /\ ~dev.on \/ ~r.ok => \A s \in Topics : mgr'.topics[s] \in {mgr.topics[s], None}
  <2>1. Fresh \in SUBSET Topics /\ Fine(mgr)
    BY Facts DEF Fresh
  <2>2. PICK v \in Device : v = dev
    BY <1>2
  <2>3. PICK i \in Ids : i = id
    BY <1>2
  <2>4. r \in EnsureDevice(mgr, i, v, Fresh) /\ Fine(mgr) /\ mgr' = r.m
    BY <1>3, <2>1, <2>2, <2>3
  <2>. HIDE DEF id, dev
  <2>5. /\ r.dev \in Device /\ r.dev.on = v.on /\ r.ok \in BOOLEAN
        /\ r.dev = v \/ v.topic = NoTopic \/ r.dev.topic = Norm[v.topic]
        /\ \A s \in Topics : r.m.topics[s] = mgr.topics[s] \/ s = r.dev.topic
    <3>1. /\ r.dev \in Device /\ r.dev.on = v.on /\ r.ok \in BOOLEAN
          /\ \A s \in Topics : r.m.topics[s] = mgr.topics[s] \/ s = r.dev.topic
      BY <2>1, <2>4, EnsureEffect
    <3>2. r.dev = v \/ v.topic = NoTopic \/ r.dev.topic = Norm[v.topic]
      BY <2>1, <2>4, EnsureEffect
    <3>. QED BY <3>1, <3>2
  <2>6. ASSUME v.on, r.ok
        PROVE  r.dev.topic \in Topics /\ r.m.topics[r.dev.topic] = i
    BY <2>1, <2>4, <2>6, EnsureEffect
  <2>7. ~v.on \/ ~r.ok => \A s \in Topics : r.m.topics[s] \in {mgr.topics[s], None}
    <3>1. v.on \in BOOLEAN /\ r.ok \in BOOLEAN
      BY <2>5 DEF Device
    <3>. QED BY <2>1, <2>4, <3>1, EnsureEffect
  <2>. QED BY <2>2, <2>3, <2>4, <2>5, <2>6, <2>7
<1>5. /\ c \in Call /\ c.pc = "save" /\ c.id = id /\ c.dev = r.dev
      /\ call' = [call EXCEPT ![a] = c] \/ (~r.ok /\ call' = [call EXCEPT ![a] = Idle])
  <2>1. PICK k \in Call : k = call[a]
    BY <1>2
  <2>2. c = [k EXCEPT !.pc = "save", !.dev = r.dev]
    BY <2>1
  <2>3. call' = [call EXCEPT ![a] = c] \/ (~r.ok /\ call' = [call EXCEPT ![a] = Idle])
    <3>1. call \in [Admins -> Call]
      BY Facts
    <3>. QED BY <1>3, <3>1
  <2>. HIDE DEF c
  <2>. QED BY <1>4, <2>1, <2>2, <2>3 DEF Call
<1>. HIDE DEF id, dev, c
<1>6. ASSUME ~overlap'
      PROVE  /\ Turn(a) /\ Present(c, devices') /\ Titled(c, devices', mgr'.topics)
             /\ ~r.ok => Titled(Idle, devices', mgr'.topics)
  <2>1. Turn(a) /\ devices[id] # None /\ dev = devices[id]
    BY <1>1, <1>2, <1>6, AtTurn DEF Turn, Present, id, dev
  <2>2. Present(c, devices')
    BY <1>1, <1>5, <2>1 DEF Present
  <2>3. ASSUME NEW t \in Topics, Norm[t] = t, mgr.topics[t] # None
        PROVE  Has(devices[mgr.topics[t]], t)
    BY <1>2, <2>1, <2>3 DEF Turn, Titled, Rightful
  <2>4. ASSUME NEW t \in Topics, Norm[t] = t, Has(dev, t)
        PROVE  Has(r.dev, t)
    BY <1>4, <2>4, DeviceAssumption DEF Has
  <2>5. ASSUME NEW t \in Topics, Norm[t] = t, mgr'.topics[t] # None
        PROVE  Rightful(c, devices', mgr'.topics[t], t)
    <3>1. CASE mgr'.topics[t] = mgr.topics[t]
      <4>1. Has(devices[mgr.topics[t]], t)
        BY <2>3, <2>5, <3>1
      <4>2. CASE mgr.topics[t] = id
        BY <1>5, <2>1, <2>4, <2>5, <3>1, <4>1, <4>2 DEF Rightful
      <4>3. CASE mgr.topics[t] # id
        BY <1>1, <1>5, <3>1, <4>1, <4>3 DEF Rightful
      <4>. QED BY <4>2, <4>3
    <3>2. CASE mgr'.topics[t] # mgr.topics[t]
      <4>1. t = r.dev.topic /\ dev.on /\ r.ok
        BY <1>4, <2>5, <3>2
      <4>2. mgr'.topics[t] = id /\ Has(r.dev, t)
        BY <1>4, <4>1, DeviceAssumption DEF Has
      <4>. QED BY <1>5, <4>2 DEF Rightful
    <3>. QED BY <3>1, <3>2
  <2>6. ASSUME ~r.ok, NEW t \in Topics, Norm[t] = t, mgr'.topics[t] # None
        PROVE  Rightful(Idle, devices', mgr'.topics[t], t)
    <3>1. Has(devices[mgr'.topics[t]], t)
      BY <1>4, <2>3, <2>6
    <3>. QED BY <1>1, <3>1 DEF Rightful, Idle
  <2>. QED BY <2>1, <2>2, <2>5, <2>6 DEF Titled
<1>. QED BY <1>5, <1>6, IdleIs, TurnOver

LEMMA LastAlone ==
    ASSUME IInv, Alone, NEW a \in Admins, SaveAgain(a) \/ Erase(a)
    PROVE  Alone'
<1>1. PICK x \in Device \cup {None} :
         /\ devices' = [devices EXCEPT ![call[a].id] = x]
         /\ mgr' = mgr /\ call' = [call EXCEPT ![a] = Idle]
         /\ \/ At(a, "save") /\ x = call[a].dev
            \/ At(a, "erase") /\ x = None
  <2>1. CASE SaveAgain(a)
    <3>1. At(a, "save")
      BY <2>1 DEF SaveAgain
    <3>2. call[a].dev \in Device
      BY <3>1, AtFacts, InHand
    <3>. QED BY <2>1, <3>1, <3>2 DEF SaveAgain, Return
  <2>2. CASE Erase(a)
    BY <2>2 DEF Erase, Return
  <2>. QED BY <2>1, <2>2
<1>2. call[a].pc \in {"save", "erase"} /\ call[a].id \in Ids
  <2>1. call[a].pc \in {"save", "erase"} /\ Proper(call[a], used)
    BY <1>1, AtFacts
  <2>. QED BY <2>1, Facts DEF Proper
<1>3. devices'[call[a].id] = x /\ \A e \in Ids \ {call[a].id} : devices'[e] = devices[e]
  BY <1>1, <1>2, Facts DEF Stored
<1>4. ASSUME ~overlap' PROVE Turn(a) /\ Titled(Idle, devices', mgr'.topics)
  <2>1. Turn(a)
    BY <1>1, <1>4, AtTurn
  <2>2. ASSUME NEW t \in Topics, Norm[t] = t, mgr.topics[t] # None
        PROVE  Has(devices'[mgr.topics[t]], t)
    <3>1. mgr.topics[t] \in Ids /\ Rightful(call[a], devices, mgr.topics[t], t)
      BY <2>1, <2>2, Bound DEF Turn, Titled
    <3>2. CASE mgr.topics[t] # call[a].id
      BY <1>3, <3>1, <3>2 DEF Rightful
    <3>3. CASE mgr.topics[t] = call[a].id
      <4>1. At(a, "save") /\ x = call[a].dev
        BY <1>1, <1>2, <3>1, <3>3 DEF Rightful, At
      <4>2. call[a].pc = "save"
        BY <4>1 DEF At
      <4>. QED BY <1>3, <3>1, <3>3, <4>1, <4>2 DEF Rightful
    <3>. QED BY <3>2, <3>3
  <2>3. mgr'.topics = mgr.topics /\ mgr.topics \in [Topics -> Ids \cup {None}]
    BY <1>1, Bound
  <2>4. Titled(Idle, devices', mgr.topics)
    BY <2>2, <2>3, IdleIs
  <2>. QED BY <2>1, <2>3, <2>4
<1>. QED BY <1>1, <1>4, IdleIs, TurnOver

LEMMA SnapshotAlone ==
    ASSUME IInv, Alone, NEW a \in Admins, Snapshot(a)
    PROVE  Alone'
<1> DEFINE c == [call[a] EXCEPT !.pc = "reconfigure", !.uid = uid, !.snap = devices]
<1>1. At(a, "snapshot") /\ UNCHANGED <<devices, mgr>> /\ call' = [call EXCEPT ![a] = c]
  BY Facts DEF Snapshot
<1>2. call[a] \in Call /\ call[a].pc = "snapshot"
  BY <1>1, AtFacts DEF Proper
<1>3. c \in Call /\ c.pc = "reconfigure" /\ c.id = call[a].id /\ c.snap = devices
  <2>1. devices \in [Ids -> Device \cup {None}] /\ uid \in Uids \cup {NoUid}
    BY Facts DEF Stored
  <2>. QED BY <1>2, <2>1 DEF Call
<1>. HIDE DEF c
<1>4. ASSUME ~overlap' PROVE Turn(a) /\ Present(c, devices') /\ Titled(c, devices', mgr'.topics)
  <2>1. Turn(a)
    BY <1>1, <1>4, AtTurn
  <2>. QED BY <1>1, <1>2, <1>3, <2>1 DEF Turn, Present, Titled, Rightful
<1>. QED BY <1>1, <1>3, <1>4, TurnOver

\* The manager was brought in line with the devices there are.
LEMMA InLine ==
    ASSUME IInv, IInv', devices' = devices,
           \A t \in Topics : mgr'.topics[t] = None \/ mgr'.topics[t] \in Wants(devices, t)
    PROVE  Titled(Idle, devices', mgr'.topics)
<1>1. mgr'.topics \in [Topics -> Ids \cup {None}]
  BY Fields DEF IInv, Fine
<1>. QED BY <1>1, IdleIs DEF Wants, Has

LEMMA ReconfiguredAlone ==
    ASSUME IInv, Solo, NEW a \in Admins, Reconfigured(a)
    PROVE  Alone'
<1>1. /\ call[a].pc = "reconfigure" /\ devices' = devices
      /\ call' = [call EXCEPT ![a] = Idle]
  BY DEF Reconfigured, Return
<1>2. call[a].snap \in Stored /\ call[a].uid \in Uids \cup {NoUid}
  BY <1>1, InHand
<1>3. \A t \in Topics : mgr'.topics[t] = None \/ mgr'.topics[t] \in Wants(call[a].snap, t)
  <2>1. PICK r \in Reconfigure(mgr, call[a].uid, call[a].snap) : mgr' = r.m
    BY DEF Reconfigured
  <2>. QED BY <1>2, <2>1, Facts, ReconfigureEffect
<1>4. ASSUME ~overlap' PROVE Hand(Idle)' /\ Titled(Idle, devices', mgr'.topics)
  <2>1. call[a].snap = devices /\ Hand(Idle)'
    BY <1>4, LastSolo
  <2>2. IInv'
    BY SettingsInv
  <2>. QED BY <1>1, <1>3, <2>1, <2>2, InLine
<1>. QED BY <1>4, IdleIs DEF Alone

LEMMA RestartAlone ==
    ASSUME IInv, Restart
    PROVE  Alone'
<1>1. devices' = devices /\ call' = [a \in Admins |-> Idle]
  BY DEF Restart
<1>2. PICK r \in Reconfigure(NewManager(mgr.faults), uid, devices) : mgr' = r.m
  BY DEF Restart
<1>3. Fine(NewManager(mgr.faults))
  BY Facts, Fields, NewFine DEF Fine
<1>4. Titled(Idle, devices', mgr'.topics)
  BY <1>1, <1>2, <1>3, Facts, ReconfigureEffect, RestartInv, InLine
<1>5. Hand(Idle)'
  BY <1>1 DEF Hand
<1>. QED BY <1>4, <1>5, IdleIs DEF Alone

LEMMA InitAlone == Init => Alone
<1>. SUFFICES ASSUME Init PROVE Alone
  OBVIOUS
<1>1. Hand(Idle)
  BY DEF Init, Hand
<1>2. Titled(Idle, devices, mgr.topics)
  BY DEF Init, NewManager, Nothing, Titled
<1>. QED BY <1>1, <1>2, IdleIs DEF Alone

LEMMA StepAlone == IInv /\ Solo /\ Alone /\ [Next]_vars => Alone'
<1>. SUFFICES ASSUME IInv, Solo, Alone, [Next]_vars PROVE Alone'
  OBVIOUS
<1>1. CASE UNCHANGED vars
  BY <1>1 DEF vars, Alone, Hand
<1>2. CASE Next
  BY <1>2, CreateAlone, UpdateAlone, DeleteAlone, FromClientAlone, AdoptAlone,
     PutSettingsAlone, RemoveAlone, UpsertAlone, EnsureAlone, LastAlone, SnapshotAlone, ReconfiguredAlone, RestartAlone
     DEF Next
<1>. QED BY <1>1, <1>2

LEMMA AloneAlways == Spec => []Alone
BY Invariant, SoloAlways, InitAlone, StepAlone, PTL DEF Spec

\* Between requests that do not overlap, what a topic's commands power has Bemfa
\* enabled and this topic, unless the broker refused to unsubscribe it
\* (service.go:167-168, 182-183; manager.go:370-378).
THEOREM NothingOrphaned == Spec => []NoOrphan
<1>1. IInv /\ Alone => NoOrphan
  <2>. SUFFICES ASSUME IInv, Alone, Settled, NEW t \in Topics, Norm[t] = t,
                       mgr.subs[t] # None, t \notin mgr.refused
                PROVE  Enabled(mgr.subs[t]) /\ devices[mgr.subs[t]].topic = t
    BY DEF NoOrphan
  <2>0. mgr.topics[t] = mgr.subs[t] /\ mgr.topics[t] # None
    BY Facts DEF Fine, Sure
  <2>1. PICK c \in Call : Hand(c) /\ Titled(c, devices, mgr.topics)
    BY DEF Alone, Settled
  <2>2. c = Idle
    BY <2>1 DEF Hand, Settled
  <2>3. Has(devices[mgr.topics[t]], t)
    BY <2>0, <2>1, <2>2, Bound, IdleIs
  <2>. QED BY <2>0, <2>3 DEF Enabled, Has
<1>. QED BY <1>1, Invariant, AloneAlways, PTL

\* Without overlapping requests no edit brings a deleted device back
\* (service.go:155-158).
THEOREM DeletedForGood == Spec => DeletedStaysDeleted
<1> DEFINE Stay == ~overlap' => \A d \in used : devices[d] = None => devices'[d] = None
<1>1. IInv /\ Alone /\ Next => Stay
  <2>. SUFFICES ASSUME IInv, Alone, Next, ~overlap', NEW d \in used, devices[d] = None
                PROVE  devices'[d] = None
    OBVIOUS
  <2>1. d \in Ids
    BY Facts
  <2>2. ASSUME NEW a \in Admins, Upsert(a) \/ SaveAgain(a) PROVE devices'[d] = None
    <3>1. PICK pc \in {"upsert", "save"} : At(a, pc)
      BY <2>2 DEF Upsert, SaveAgain
    <3>2. devices' = [devices EXCEPT ![call[a].id] = call[a].dev]
      BY <2>2 DEF Upsert, SaveAgain
    <3>3. devices[call[a].id] # None
      BY <3>1, AtTurn DEF Turn, Present, At
    <3>. QED BY <2>1, <3>2, <3>3, Facts DEF Stored
  <2>3. ASSUME NEW a \in Admins, Erase(a) PROVE devices'[d] = None
    BY <2>1, <2>3, Facts DEF Erase, Stored
  <2>4. ASSUME NEW a \in Admins, NEW e \in Ids, NEW b \in Bodies[e], Create(a, e, b)
        PROVE  devices'[d] = None
    BY <2>1, <2>4, Facts DEF Create, Stored
  <2>5. \/ devices' = devices
        \/ \E a \in Admins : Upsert(a) \/ SaveAgain(a) \/ Erase(a)
                             \/ \E e \in Ids : \E b \in Bodies[e] : Create(a, e, b)
    BY DEF Next, Update, Delete, FromClient, Adopt, Remove, Ensure, PutSettings, Snapshot,
           Reconfigured, Restart
  <2>. QED BY <2>2, <2>3, <2>4, <2>5
<1>2. IInv /\ Alone /\ [Next]_vars => [Stay]_vars
  BY <1>1
<1>. QED BY <1>2, Invariant, AloneAlways, PTL DEF Spec, DeletedStaysDeleted

-----------------------------------------------------------------------------
(* Devices with topics of their own.  An entry is what is or may be saved  *)
(* for a device: in the store, or in the hands of a request.               *)

\* No two devices are ever given the same topic, nor one that is generated.
TopicsApart ==
    \A d \in Ids : \A b \in Bodies[d] : b.topic # NoTopic =>
        /\ Norm[b.topic] \notin Generated
        /\ \A e \in Ids \ {d} : \A x \in Bodies[e] :
              x.topic # NoTopic => Norm[x.topic] # Norm[b.topic]

Entry(d, x) ==
    devices[d] = x \/ \E a \in Admins : call[a].id = d /\ call[a].dev = x

Owned(d, t) ==
    t \in Generated \/ \E b \in Bodies[d] : b.topic # NoTopic /\ Norm[b.topic] = Norm[t]

\* A generated topic was generated for one device.
Entries ==
    /\ TopicsApart
    /\ \A d \in Ids : \A x \in Device : Entry(d, x) /\ x.topic # NoTopic => Owned(d, x.topic)
    /\ \A d, e \in Ids : \A x, y \in Device :
          Entry(d, x) /\ Entry(e, y) /\ x.topic \in Generated /\ y.topic = x.topic => d = e

\* So topics that are the same to the manager are of the same device.
LEMMA EntriesApart ==
    ASSUME Entries, NEW d \in Ids, NEW e \in Ids, NEW x \in Device, NEW y \in Device,
           Entry(d, x), Entry(e, y), x.topic # NoTopic, y.topic # NoTopic,
           Norm[x.topic] = Norm[y.topic]
    PROVE  d = e
<1>1. Owned(d, x.topic) /\ Owned(e, y.topic) /\ x.topic \in Topics /\ y.topic \in Topics
  BY DEF Entries, Device
<1>2. CASE x.topic \in Generated /\ y.topic \in Generated
  BY <1>2 DEF Entries
<1>3. CASE x.topic \in Generated /\ y.topic \notin Generated
  <2>1. PICK b \in Bodies[e] : b.topic # NoTopic /\ Norm[b.topic] = Norm[y.topic]
    BY <1>1, <1>3 DEF Owned
  <2>. QED BY <1>3, <2>1 DEF Entries, TopicsApart
<1>4. CASE x.topic \notin Generated /\ y.topic \in Generated
  <2>1. PICK b \in Bodies[d] : b.topic # NoTopic /\ Norm[b.topic] = Norm[x.topic]
    BY <1>1, <1>4 DEF Owned
  <2>. QED BY <1>4, <2>1 DEF Entries, TopicsApart
<1>5. CASE x.topic \notin Generated /\ y.topic \notin Generated
  <2>1. PICK b \in Bodies[d] : b.topic # NoTopic /\ Norm[b.topic] = Norm[x.topic]
    BY <1>1, <1>5 DEF Owned
  <2>2. PICK z \in Bodies[e] : z.topic # NoTopic /\ Norm[z.topic] = Norm[y.topic]
    BY <1>1, <1>5 DEF Owned
  <2>. QED BY <2>1, <2>2 DEF Entries, TopicsApart
<1>. QED BY <1>2, <1>3, <1>4, <1>5

\* A step that makes at most one new entry, z for d.
LEMMA EntryAdded ==
    ASSUME Entries, NEW d \in Ids, NEW z \in Device,
           \A e \in Ids : \A x \in Device : Entry(e, x)' => Entry(e, x) \/ (e = d /\ x = z),
           z.topic # NoTopic => Owned(d, z.topic),
           z.topic \in Generated =>
               \A e \in Ids : \A x \in Device : Entry(e, x) /\ x.topic = z.topic => e = d
    PROVE  Entries'
<1>1. \A e \in Ids : \A x \in Device : Entry(e, x)' /\ x.topic # NoTopic => Owned(e, x.topic)
  BY DEF Entries
<1>2. ASSUME NEW e \in Ids, NEW f \in Ids, NEW x \in Device, NEW y \in Device,
             Entry(e, x)', Entry(f, y)', x.topic \in Generated, y.topic = x.topic
      PROVE  e = f
  <2>1. CASE Entry(e, x) /\ Entry(f, y)
    BY <1>2, <2>1 DEF Entries
  <2>2. CASE (e = d /\ x = z) \/ (f = d /\ y = z)
    BY <1>2, <2>2
  <2>. QED BY <1>2, <2>1, <2>2
<1>. QED BY <1>1, <1>2 DEF Entries, TopicsApart, Owned

LEMMA EntriesKept ==
    ASSUME Entries, \A e \in Ids : \A x \in Device : Entry(e, x)' => Entry(e, x)
    PROVE  Entries'
<1>1. \A e \in Ids : \A x \in Device : Entry(e, x)' /\ x.topic # NoTopic => Owned(e, x.topic)
  BY DEF Entries
<1>2. \A d, e \in Ids : \A x, y \in Device :
         Entry(d, x)' /\ Entry(e, y)' /\ x.topic \in Generated /\ y.topic = x.topic => d = e
  BY DEF Entries
<1>. QED BY <1>1, <1>2 DEF Entries, TopicsApart, Owned

\* Somebody types a topic in.
LEMMA BodyAdded ==
    ASSUME Entries, NEW d \in Ids, NEW b \in Bodies[d],
           \A e \in Ids : \A x \in Device : Entry(e, x)' => Entry(e, x) \/ (e = d /\ x = b)
    PROVE  Entries'
<1>1. b \in Device
  OBVIOUS
<1>2. b.topic # NoTopic => Owned(d, b.topic) /\ b.topic \notin Generated
  BY DEF Owned, Entries, TopicsApart
<1>3. b.topic \notin Generated
  BY <1>2
<1>. QED BY <1>1, <1>2, <1>3, EntryAdded

LEMMA CreateEntries ==
    ASSUME IInv, Entries, NEW a \in Admins, NEW d \in Ids, NEW b \in Bodies[d],
           Create(a, d, b) \/ Update(a, d, b)
    PROVE  Entries'
<1>1. PICK c : /\ Begin(a, c) /\ c.id = d /\ c.dev = b
               /\ devices' \in {devices, [devices EXCEPT ![d] = b]}
  <2>1. CASE Create(a, d, b)
    <3> DEFINE c == [Idle EXCEPT !.op = "create", !.pc = "ensure", !.id = d, !.dev = b]
    <3>1. Begin(a, c) /\ devices' = [devices EXCEPT ![d] = b]
      BY <2>1 DEF Create
    <3>2. c.id = d /\ c.dev = b
      BY DEF Idle
    <3>. QED BY <3>1, <3>2
  <2>2. CASE Update(a, d, b)
    <3>1. PICK pc :
             /\ Begin(a, [Idle EXCEPT !.op = "update", !.id = d, !.old = devices[d],
                                      !.dev = b, !.pc = pc])
             /\ devices' = devices
      BY <2>2 DEF Update
    <3> DEFINE c == [Idle EXCEPT !.op = "update", !.id = d, !.old = devices[d],
                                 !.dev = b, !.pc = pc]
    <3>2. c.id = d /\ c.dev = b
      BY DEF Idle
    <3>. QED BY <3>1, <3>2
  <2>. QED BY <2>1, <2>2
<1>2. call' = [call EXCEPT ![a] = c]
  BY <1>1, BeginFacts
<1>3. ASSUME NEW e \in Ids, NEW x \in Device, Entry(e, x)'
      PROVE  Entry(e, x) \/ (e = d /\ x = b)
  BY <1>1, <1>2, <1>3, Facts DEF Entry, Stored
<1>. QED BY <1>3, BodyAdded

\* Steps that save at most what a request has in hand already.
LEMMA MovedEntries ==
    ASSUME IInv, Entries, NEW a \in Admins, NEW c, call' = [call EXCEPT ![a] = c],
           c.dev = None \/ (c.id = call[a].id /\ c.dev = call[a].dev),
           devices' \in {devices, [devices EXCEPT ![call[a].id] = call[a].dev],
                         [devices EXCEPT ![call[a].id] = None]}
    PROVE  Entries'
<1>1. ASSUME NEW e \in Ids, NEW x \in Device, Entry(e, x)' PROVE Entry(e, x)
  <2>1. x # None
    BY DeviceAssumption
  <2>2. CASE devices'[e] = x
    BY <2>1, <2>2, Facts DEF Entry, Stored
  <2>3. CASE \E b \in Admins : call'[b].id = e /\ call'[b].dev = x
    BY <2>1, <2>3, Facts DEF Entry
  <2>. QED BY <1>1, <2>2, <2>3 DEF Entry
<1>. QED BY <1>1, EntriesKept

\* EnsureDevice settles on the topic's normal form or on one nobody has.
LEMMA EnsureEntries ==
    ASSUME IInv, Entries, NEW a \in Admins, Ensure(a)
    PROVE  Entries'
<1>1. At(a, "ensure") /\ devices' = devices
  BY DEF Ensure
<1>2. call[a] \in Call /\ call[a].id \in Ids /\ call[a].dev \in Device
  BY <1>1, AtFacts, InHand DEF Proper
<1>3. PICK r \in EnsureDevice(mgr, call[a].id, call[a].dev, Fresh) :
         \/ call' = [call EXCEPT ![a].pc = "save", ![a].dev = r.dev]
         \/ call' = [call EXCEPT ![a] = Idle]
  BY DEF Ensure, Return
<1> DEFINE id == call[a].id
           dev == call[a].dev
           c == [call[a] EXCEPT !.pc = "save", !.dev = r.dev]
<1>4. /\ r.dev \in Device
      /\ \/ r.dev = dev
         \/ r.dev.topic \in Fresh
         \/ dev.topic # NoTopic /\ r.dev.topic = Norm[dev.topic]
  <2>1. Fresh \in SUBSET Topics /\ Fine(mgr)
    BY Facts DEF Fresh
  <2>2. PICK v \in Device : v = dev
    BY <1>2
  <2>3. PICK i \in Ids : i = id
    BY <1>2
  <2>4. r \in EnsureDevice(mgr, i, v, Fresh)
    BY <1>3, <2>2, <2>3
  <2>. HIDE DEF id, dev
  <2>5. /\ r.dev \in Device
        /\ \/ r.dev = v
           \/ r.dev.topic \in Fresh
           \/ v.topic # NoTopic /\ r.dev.topic = Norm[v.topic]
    BY <2>1, <2>4, EnsureEffect
  <2>. QED BY <2>2, <2>5
<1>5. /\ c.id = id /\ c.dev = r.dev
      /\ call' = [call EXCEPT ![a] = c] \/ call' = [call EXCEPT ![a] = Idle]
  BY <1>2, <1>3, Facts DEF Call
<1>6. Entry(id, dev)
  BY DEF Entry
<1>i. id \in Ids /\ dev \in Device
  BY <1>2
<1>. HIDE DEF id, dev, c
<1>7. \A e \in Ids : \A x \in Device : Entry(e, x)' => Entry(e, x) \/ (e = id /\ x = r.dev)
  <2>1. CASE call' = [call EXCEPT ![a] = c]
    BY <1>1, <1>5, <2>1, Facts DEF Entry
  <2>2. CASE call' = [call EXCEPT ![a] = Idle]
    BY <1>1, <2>2, Facts, DeviceAssumption DEF Entry, Idle
  <2>. QED BY <1>5, <2>1, <2>2
<1>8. CASE r.dev = dev
  BY <1>6, <1>7, <1>8, EntriesKept
<1>9. CASE r.dev.topic \in Fresh
  <2>1. r.dev.topic \in Generated
    BY <1>9 DEF Fresh
  <2>2. \A e \in Ids : \A x \in Device : Entry(e, x) => x.topic # r.dev.topic
    BY <1>9, DeviceAssumption DEF Fresh, Entry
  <2>. QED BY <1>4, <1>7, <1>i, <2>1, <2>2, EntryAdded DEF Owned
<1>10. CASE dev.topic # NoTopic /\ r.dev.topic = Norm[dev.topic]
  <2>1. dev.topic \in Topics /\ r.dev.topic \in Topics
        /\ r.dev.topic # NoTopic /\ Norm[r.dev.topic] = Norm[dev.topic]
    BY <1>10, <1>i DEF Device
  <2>2. Owned(id, dev.topic)
    BY <1>6, <1>10, <1>i DEF Entries
  <2>3. Owned(id, r.dev.topic)
    BY <1>10, <2>1, <2>2 DEF Owned
  <2>4. ASSUME NEW e \in Ids, NEW x \in Device, Entry(e, x), x.topic = r.dev.topic
        PROVE  e = id
    BY <1>6, <1>10, <1>i, <2>1, <2>4, EntriesApart
  <2>. QED BY <1>4, <1>7, <1>i, <2>3, <2>4, EntryAdded
<1>. QED BY <1>4, <1>8, <1>9, <1>10

LEMMA InitEntries == Init /\ TopicsApart => Entries
<1>. SUFFICES ASSUME Init, TopicsApart PROVE Entries
  OBVIOUS
<1>1. \A d \in Ids : \A x \in Device : ~Entry(d, x)
  BY DeviceAssumption DEF Init, Entry, Idle
<1>. QED BY <1>1 DEF Entries

LEMMA StepEntries == IInv /\ Entries /\ [Next]_vars => Entries'
<1>. SUFFICES ASSUME IInv, Entries, [Next]_vars PROVE Entries'
  OBVIOUS
<1>1. CASE UNCHANGED vars
  BY <1>1, EntriesKept DEF vars, Entry
<1>2. ASSUME NEW a \in Admins, NEW d \in Ids, Delete(a, d) PROVE Entries'
  <2> DEFINE c == [Idle EXCEPT !.op = "delete", !.pc = "remove", !.id = d,
                               !.old = devices[d]]
  <2>1. Begin(a, c) /\ devices' = devices /\ c.dev = None
    BY <1>2 DEF Delete, Idle
  <2>. HIDE DEF c
  <2>. QED BY <2>1, BeginFacts, MovedEntries
<1>c. ASSUME NEW a \in Admins, NEW d \in Ids, FromClient(a, d) PROVE Entries'
  <2> DEFINE c == [Idle EXCEPT !.op = "update", !.id = d, !.dev = devices[d], !.pc = "found"]
  <2>1. Begin(a, c) /\ devices' = devices
    BY <1>c DEF FromClient
  <2>2. c.id = d /\ c.dev = devices[d]
    BY DEF Idle
  <2>. HIDE DEF c
  <2>3. call' = [call EXCEPT ![a] = c]
    BY <2>1, BeginFacts
  <2>4. \A e \in Ids : \A x \in Device : Entry(e, x)' => Entry(e, x)
    BY <2>1, <2>2, <2>3, Facts DEF Entry
  <2>. QED BY <2>4, EntriesKept
<1>d. ASSUME NEW a \in Admins, Adopt(a) PROVE Entries'
  <2>1. PICK c : /\ call' = [call EXCEPT ![a] = c] /\ devices' = devices
                 /\ c.dev = None \/ (c.id = call[a].id /\ c.dev = call[a].dev)
    BY <1>d, AdoptStep DEF Idle
  <2>. QED BY <2>1, MovedEntries
<1>3. ASSUME NEW a \in Admins, NEW u \in Uids \cup {NoUid}, PutSettings(a, u) PROVE Entries'
  <2> DEFINE c == [Idle EXCEPT !.op = "settings", !.pc = "snapshot"]
  <2>1. Begin(a, c) /\ devices' = devices /\ c.dev = None
    BY <1>3 DEF PutSettings, Idle
  <2>. HIDE DEF c
  <2>. QED BY <2>1, BeginFacts, MovedEntries
<1>4. ASSUME NEW a \in Admins, Remove(a) \/ Upsert(a) PROVE Entries'
  <2>1. PICK pc : /\ call' = [call EXCEPT ![a].pc = pc]
                  /\ devices' \in {devices, [devices EXCEPT ![call[a].id] = call[a].dev]}
    BY <1>4 DEF Remove, Upsert, Continue
  <2> DEFINE c == [call[a] EXCEPT !.pc = pc]
  <2>2. call[a] \in Call
    BY Facts
  <2>3. c.id = call[a].id /\ c.dev = call[a].dev
    BY <2>2 DEF Call
  <2>4. call' = [call EXCEPT ![a] = c]
    BY <2>1, Facts
  <2>. HIDE DEF c
  <2>. QED BY <2>1, <2>3, <2>4, MovedEntries
<1>5. ASSUME NEW a \in Admins, Snapshot(a) PROVE Entries'
  <2> DEFINE c == [call[a] EXCEPT !.pc = "reconfigure", !.uid = uid, !.snap = devices]
  <2>1. call[a] \in Call /\ call' = [call EXCEPT ![a] = c] /\ devices' = devices
    BY <1>5, Facts DEF Snapshot
  <2>2. c.id = call[a].id /\ c.dev = call[a].dev
    BY <2>1 DEF Call
  <2>. HIDE DEF c
  <2>. QED BY <2>1, <2>2, MovedEntries
<1>6. ASSUME NEW a \in Admins, SaveAgain(a) \/ Erase(a) \/ Reconfigured(a) PROVE Entries'
  <2>1. /\ call' = [call EXCEPT ![a] = Idle] /\ Idle.dev = None
        /\ devices' \in {devices, [devices EXCEPT ![call[a].id] = call[a].dev],
                         [devices EXCEPT ![call[a].id] = None]}
    BY <1>6 DEF SaveAgain, Erase, Reconfigured, Return, Idle
  <2>. QED BY <2>1, MovedEntries
<1>7. ASSUME Restart PROVE Entries'
  <2>1. \A e \in Ids : \A x \in Device : Entry(e, x)' => Entry(e, x)
    BY <1>7, DeviceAssumption DEF Restart, Entry, Idle
  <2>. QED BY <2>1, EntriesKept
<1>8. CASE Next
  BY <1>2, <1>c, <1>d, <1>3, <1>4, <1>5, <1>6, <1>7, <1>8, CreateEntries, EnsureEntries
     DEF Next
<1>. QED BY <1>1, <1>8

-----------------------------------------------------------------------------
(* Such devices keep their subscriptions.                                  *)

\* Device e, saved as x, has its topic.
Reached(x, ts, e) == x # None /\ x.on /\ x.topic # NoTopic => ts[x.topic] = e

\* While c changes things nothing is said of the device it is about but that it
\* has the topic it is about to be saved with.
Attend(c, ds, ts, fs) ==
    \A e \in Ids \ fs :
        /\ c.id # e \/ c.pc = "found" => Reached(ds[e], ts, e)
        /\ c.id = e /\ c.pc = "save" => Reached(c.dev, ts, e)

Attended ==
    ~overlap /\ mgr.up => \E c \in Call : Hand(c) /\ Attend(c, devices, mgr.topics, failed)

LEMMA TurnAttend ==
    ASSUME Attended, NEW a \in Admins, Turn(a), mgr.up
    PROVE  Attend(call[a], devices, mgr.topics, failed)
<1>1. PICK c \in Call : Hand(c) /\ Attend(c, devices, mgr.topics, failed)
  BY DEF Attended, Turn
<1>2. call[a] = c
  BY <1>1 DEF Hand, Turn
<1>. QED BY <1>1, <1>2

LEMMA AttendOver ==
    ASSUME IInv, NEW a \in Admins, NEW c \in Call, call' = [call EXCEPT ![a] = c],
           ~overlap' => Turn(a),
           ~overlap' /\ mgr'.up => Attend(c, devices', mgr'.topics, failed')
    PROVE  Attended'
<1>1. call \in [Admins -> Call]
  BY Facts
<1>2. ASSUME Turn(a) PROVE Hand(c)'
  BY <1>1, <1>2 DEF Turn, Hand
<1>. QED BY <1>2 DEF Attended

\* A request begins: it takes its device out of the account.
LEMMA BegunAttended ==
    ASSUME IInv, Alone, Attended, NEW a \in Admins, NEW c \in Call, Begin(a, c),
           mgr' = mgr, failed' = failed, c.pc # "save",
           \A e \in Ids : e # c.id \/ c.pc = "found" => devices'[e] = devices[e]
    PROVE  Attended'
<1>1. ASSUME ~overlap' PROVE Turn(a) /\ call[a] = Idle
  BY <1>1, BeginTurn
<1>2. ASSUME ~overlap', mgr'.up PROVE Attend(c, devices', mgr'.topics, failed')
  <2>1. Attend(Idle, devices, mgr.topics, failed)
    BY <1>1, <1>2, TurnAttend
  <2>2. Idle.id \notin Ids
    BY DEF Idle
  <2>. QED BY <2>1, <2>2 DEF Attend
<1>. QED BY <1>1, <1>2, BeginFacts, AttendOver

LEMMA BeginAttended ==
    ASSUME IInv, Alone, Attended, NEW a \in Admins,
           \/ \E d \in Ids : \/ \E b \in Bodies[d] : Create(a, d, b) \/ Update(a, d, b)
                             \/ Delete(a, d) \/ FromClient(a, d)
           \/ \E u \in Uids \cup {NoUid} : PutSettings(a, u)
    PROVE  Attended'
<1>1. ASSUME NEW d \in Ids, NEW b \in Bodies[d], Create(a, d, b) PROVE Attended'
  <2> DEFINE c == [Idle EXCEPT !.op = "create", !.pc = "ensure", !.id = d, !.dev = b]
  <2>1. Begin(a, c) /\ devices' = [devices EXCEPT ![d] = b] /\ mgr' = mgr /\ failed' = failed
    BY <1>1 DEF Create
  <2>2. c \in Call /\ c.id = d /\ c.pc = "ensure"
    BY DEF Idle, Call
  <2>. HIDE DEF c
  <2>. QED BY <2>1, <2>2, BegunAttended
<1>2. ASSUME NEW d \in Ids, NEW b \in Bodies[d], Update(a, d, b) PROVE Attended'
  <2>1. PICK pc \in {"remove", "upsert"} :
           Begin(a, [Idle EXCEPT !.op = "update", !.id = d, !.old = devices[d], !.dev = b,
                                 !.pc = pc])
    BY <1>2 DEF Update, First
  <2> DEFINE c == [Idle EXCEPT !.op = "update", !.id = d, !.old = devices[d], !.dev = b,
                               !.pc = pc]
  <2>2. UNCHANGED <<devices, mgr, failed>> /\ devices[d] \in Device \cup {None}
    BY <1>2, Facts DEF Update, Stored
  <2>3. c \in Call /\ c.pc = pc
    BY <2>2 DEF Idle, Call
  <2>4. Begin(a, c)
    BY <2>1
  <2>. HIDE DEF c
  <2>. QED BY <2>2, <2>3, <2>4, BegunAttended
<1>3. ASSUME NEW d \in Ids, Delete(a, d) PROVE Attended'
  <2> DEFINE c == [Idle EXCEPT !.op = "delete", !.pc = "remove", !.id = d,
                               !.old = devices[d]]
  <2>1. Begin(a, c) /\ UNCHANGED <<devices, mgr, failed>> /\ devices[d] \in Device \cup {None}
    BY <1>3, Facts DEF Delete, Stored
  <2>2. c \in Call /\ c.pc = "remove"
    BY <2>1 DEF Idle, Call
  <2>. HIDE DEF c
  <2>. QED BY <2>1, <2>2, BegunAttended
<1>4. ASSUME NEW u \in Uids \cup {NoUid}, PutSettings(a, u) PROVE Attended'
  <2> DEFINE c == [Idle EXCEPT !.op = "settings", !.pc = "snapshot"]
  <2>1. Begin(a, c) /\ UNCHANGED <<devices, mgr, failed>>
    BY <1>4 DEF PutSettings
  <2>2. c \in Call /\ c.pc = "snapshot"
    BY DEF Idle, Call
  <2>. HIDE DEF c
  <2>. QED BY <2>1, <2>2, BegunAttended
<1>5. ASSUME NEW d \in Ids, FromClient(a, d) PROVE Attended'
  <2> DEFINE c == [Idle EXCEPT !.op = "update", !.id = d, !.dev = devices[d], !.pc = "found"]
  <2>1. Begin(a, c) /\ UNCHANGED <<devices, mgr, failed>> /\ devices[d] \in Device \cup {None}
    BY <1>5, Facts DEF FromClient, Stored
  <2>2. c \in Call /\ c.pc = "found"
    BY <2>1 DEF Idle, Call
  <2>. HIDE DEF c
  <2>. QED BY <2>1, <2>2, BegunAttended
<1>. QED BY <1>1, <1>2, <1>3, <1>4, <1>5

\* Nothing has happened yet when the request of FromClient is refused.
LEMMA AdoptAttended ==
    ASSUME IInv, Alone, Attended, NEW a \in Admins, Adopt(a)
    PROVE  Attended'
<1>1. PICK c \in Call :
         /\ call' = [call EXCEPT ![a] = c] /\ c.pc \in {"idle", "remove", "upsert"}
  BY AdoptStep, IdleIs DEF Idle
<1>2. ASSUME ~overlap' PROVE Turn(a)
  BY <1>2, AdoptStep, AtTurn
<1>3. ASSUME ~overlap', mgr'.up PROVE Attend(c, devices', mgr'.topics, failed')
  <2>1. Attend(call[a], devices, mgr.topics, failed)
    BY <1>2, <1>3, AdoptStep, TurnAttend
  <2>. QED BY <1>1, <2>1, AdoptStep DEF Attend
<1>. QED BY <1>1, <1>2, <1>3, AttendOver

\* Two devices' entries have different topics.
LEMMA OtherTopic ==
    ASSUME IInv, Entries, NEW d \in Ids, NEW e \in Ids \ {d}, NEW x \in Device, Entry(d, x),
           devices[e] # None, devices[e].topic # NoTopic, x.topic # NoTopic
    PROVE  devices[e].topic # x.topic /\ devices[e].topic # Norm[x.topic]
<1>1. devices[e] \in Device
  BY Facts DEF Stored
<1>2. devices[e].topic \in Topics /\ x.topic \in Topics /\ Entry(e, devices[e])
  BY <1>1 DEF Device, Entry
<1>3. Norm[devices[e].topic] # Norm[x.topic]
  BY <1>1, <1>2, EntriesApart
<1>. QED BY <1>2, <1>3

LEMMA RemoveAttended ==
    ASSUME IInv, Alone, Entries, Attended, NEW a \in Admins, Remove(a)
    PROVE  Attended'
<1>1. PICK pc \in {"erase", "upsert"} : call' = [call EXCEPT ![a].pc = pc]
  BY DEF Remove, Continue
<1> DEFINE c == [call[a] EXCEPT !.pc = pc]
<1>2. /\ At(a, "remove") /\ devices' = devices /\ failed' = failed
      /\ mgr' \in RemoveDevice(mgr, call[a].old)
  BY DEF Remove
<1>3. call[a] \in Call /\ call[a].pc = "remove" /\ call[a].old \in Device /\ call[a].id \in Ids
  BY <1>2, AtFacts, InHand, Facts DEF Proper
<1>4. c \in Call /\ c.pc = pc /\ c.id = call[a].id /\ call' = [call EXCEPT ![a] = c]
  BY <1>1, <1>3, Facts DEF Call
<1>. HIDE DEF c
<1>5. mgr'.up = mgr.up /\ \A t \in Topics :
         mgr'.topics[t] = IF t = call[a].old.topic THEN None ELSE mgr.topics[t]
  BY <1>2, <1>3, Facts, RemoveEffect DEF Fine
<1>6. ASSUME ~overlap' PROVE Turn(a) /\ call[a].old = devices[call[a].id]
  BY <1>2, <1>3, <1>6, AtTurn DEF Turn, Present
<1>7. ASSUME ~overlap', mgr'.up PROVE Attend(c, devices', mgr'.topics, failed')
  <2>1. Attend(call[a], devices, mgr.topics, failed)
    BY <1>5, <1>6, <1>7, TurnAttend
  <2>2. ASSUME NEW e \in Ids \ failed, call[a].id # e,
               devices[e] # None, devices[e].on, devices[e].topic # NoTopic
        PROVE  mgr'.topics[devices[e].topic] = e
    <3>1. mgr.topics[devices[e].topic] = e /\ devices[e].topic \in Topics
      BY <2>1, <2>2, Facts DEF Attend, Reached, Stored, Device
    <3>2. devices[e].topic # call[a].old.topic
      BY <1>3, <1>6, <1>7, <2>2, OtherTopic DEF Entry
    <3>. QED BY <1>5, <3>1, <3>2
  <2>. QED BY <1>2, <1>4, <2>2 DEF Attend, Reached
<1>. QED BY <1>4, <1>6, <1>7, AttendOver

\* Steps of the store: the device of the request is, or is to be, saved.
LEMMA UpsertAttended ==
    ASSUME IInv, Alone, Attended, NEW a \in Admins, Upsert(a)
    PROVE  Attended'
<1> DEFINE c == [call[a] EXCEPT !.pc = "ensure"]
<1>1. /\ At(a, "upsert") /\ devices' = [devices EXCEPT ![call[a].id] = call[a].dev]
      /\ mgr' = mgr /\ failed' = failed /\ call' = [call EXCEPT ![a] = c]
  BY Facts DEF Upsert, Continue
<1>2. call[a] \in Call
  BY Facts
<1>3. c \in Call /\ c.pc = "ensure" /\ c.id = call[a].id
  BY <1>2 DEF Call
<1>. HIDE DEF c
<1>4. ASSUME ~overlap' PROVE Turn(a)
  BY <1>1, <1>4, AtTurn
<1>5. ASSUME ~overlap', mgr'.up PROVE Attend(c, devices', mgr'.topics, failed')
  <2>1. Attend(call[a], devices, mgr.topics, failed)
    BY <1>1, <1>4, <1>5, TurnAttend
  <2>. QED BY <1>1, <1>3, <2>1, Facts DEF Attend, Stored
<1>. QED BY <1>1, <1>3, <1>4, <1>5, AttendOver

LEMMA LastAttended ==
    ASSUME IInv, Alone, Attended, NEW a \in Admins, SaveAgain(a) \/ Erase(a)
    PROVE  Attended'
<1>1. PICK x :
         /\ devices' = [devices EXCEPT ![call[a].id] = x]
         /\ mgr' = mgr /\ failed' = failed /\ call' = [call EXCEPT ![a] = Idle]
         /\ \/ At(a, "save") /\ x = call[a].dev
            \/ At(a, "erase") /\ x = None
  BY DEF SaveAgain, Erase, Return
<1>2. ASSUME ~overlap' PROVE Turn(a)
  BY <1>1, <1>2, AtTurn
<1>3. ASSUME ~overlap', mgr'.up PROVE Attend(Idle, devices', mgr'.topics, failed')
  <2>1. Attend(call[a], devices, mgr.topics, failed)
    BY <1>1, <1>2, <1>3, TurnAttend
  <2>2. ASSUME NEW e \in Ids \ failed PROVE Reached(devices'[e], mgr.topics, e)
    <3>1. CASE call[a].id # e
      <4>1. devices'[e] = devices[e]
        BY <1>1, <3>1, Facts DEF Stored
      <4>. QED BY <2>1, <3>1, <4>1 DEF Attend
    <3>2. CASE call[a].id = e
      <4>1. devices'[e] = x
        BY <1>1, <3>2, Facts DEF Stored
      <4>2. CASE At(a, "save") /\ x = call[a].dev
        BY <2>1, <3>2, <4>1, <4>2 DEF Attend, At
      <4>3. CASE x = None
        BY <4>1, <4>3 DEF Reached
      <4>. QED BY <1>1, <4>2, <4>3
    <3>. QED BY <3>1, <3>2
  <2>. QED BY <1>1, <2>2 DEF Attend, Idle
<1>. QED BY <1>1, <1>2, <1>3, IdleIs, AttendOver

LEMMA EnsureAttended ==
    ASSUME IInv, Alone, Entries, Attended, NEW a \in Admins, Ensure(a)
    PROVE  Attended'
<1>1. At(a, "ensure") /\ devices' = devices
  BY DEF Ensure
<1>2. /\ call[a] \in Call /\ call[a].pc = "ensure"
      /\ call[a].id \in Ids /\ call[a].dev \in Device
  BY <1>1, AtFacts, InHand DEF Proper
<1>3. PICK r \in EnsureDevice(mgr, call[a].id, call[a].dev, Fresh) :
         /\ mgr' = r.m
         /\ failed' = IF r.ok THEN failed \ {call[a].id} ELSE failed \cup {call[a].id}
         /\ \/ call' = [call EXCEPT ![a].pc = "save", ![a].dev = r.dev]
            \/ ~r.ok /\ call' = [call EXCEPT ![a] = Idle]
  BY DEF Ensure, Return
<1> DEFINE id == call[a].id
           dev == call[a].dev
           c == [call[a] EXCEPT !.pc = "save", !.dev = r.dev]
<1>4. /\ r.dev \in Device /\ r.dev.on = dev.on /\ mgr'.up = mgr.up
      /\ \/ r.dev = dev
         \/ r.dev.topic \in Fresh
         \/ dev.topic # NoTopic /\ r.dev.topic = Norm[dev.topic]
      /\ \A s \in Topics : mgr'.topics[s] = mgr.topics[s] \/ s = r.dev.topic
      /\ dev.on /\ r.ok => mgr'.topics[r.dev.topic] = id
  <2>1. Fresh \in SUBSET Topics /\ Fine(mgr)
    BY Facts DEF Fresh
  <2>2. PICK v \in Device : v = dev
    BY <1>2
  <2>3. PICK i \in Ids : i = id
    BY <1>2
  <2>4. r \in EnsureDevice(mgr, i, v, Fresh) /\ mgr' = r.m
    BY <1>3, <2>2, <2>3
  <2>. HIDE DEF id, dev
  <2>5. /\ r.dev \in Device /\ r.dev.on = v.on /\ r.m.up = mgr.up
        /\ \/ r.dev = v
           \/ r.dev.topic \in Fresh
           \/ v.topic # NoTopic /\ r.dev.topic = Norm[v.topic]
        /\ \A s \in Topics : r.m.topics[s] = mgr.topics[s] \/ s = r.dev.topic
    BY <2>1, <2>4, EnsureEffect
  <2>6. v.on /\ r.ok => r.m.topics[r.dev.topic] = i
    BY <2>1, <2>4, EnsureEffect
  <2>. QED BY <2>2, <2>3, <2>4, <2>5, <2>6
<1>5. /\ c \in Call /\ c.pc = "save" /\ c.id = id /\ c.dev = r.dev
      /\ call' = [call EXCEPT ![a] = c] \/ (~r.ok /\ call' = [call EXCEPT ![a] = Idle])
  <2>1. PICK k \in Call : k = call[a]
    BY <1>2
  <2>2. c = [k EXCEPT !.pc = "save", !.dev = r.dev]
    BY <2>1
  <2>3. call' = [call EXCEPT ![a] = c] \/ (~r.ok /\ call' = [call EXCEPT ![a] = Idle])
    <3>1. call \in [Admins -> Call]
      BY Facts
    <3>. QED BY <1>3, <3>1
  <2>. HIDE DEF c
  <2>. QED BY <1>4, <2>1, <2>2, <2>3 DEF Call
<1>6. Entry(id, dev) /\ id \in Ids /\ dev \in Device
  BY <1>2 DEF Entry
<1>7. failed' = IF r.ok THEN failed \ {id} ELSE failed \cup {id}
  BY <1>3
<1>8. ASSUME ~overlap' PROVE Turn(a)
  BY <1>1, <1>8, AtTurn
<1>9. ASSUME ~overlap', mgr'.up PROVE Attend(call[a], devices, mgr.topics, failed)
  BY <1>4, <1>8, <1>9, TurnAttend
<1>i. id = call[a].id
  OBVIOUS
<1>. HIDE DEF id, dev, c
<1>10. ASSUME ~overlap', mgr'.up, NEW e \in Ids \ failed', e # id,
              devices[e] # None, devices[e].on, devices[e].topic # NoTopic
       PROVE  mgr'.topics[devices[e].topic] = e
  <2>1. e \notin failed /\ devices[e].topic \in Topics
    BY <1>7, <1>10, Facts DEF Stored, Device
  <2>2. mgr.topics[devices[e].topic] = e
    BY <1>9, <1>10, <1>i, <2>1 DEF Attend, Reached
  <2>3. devices[e].topic # r.dev.topic
    <3>1. CASE r.dev.topic = NoTopic
      BY <1>10, <3>1
    <3>2. CASE r.dev.topic \in Fresh
      BY <1>10, <3>2 DEF Fresh
    <3>3. CASE r.dev = dev /\ r.dev.topic # NoTopic
      BY <1>6, <1>10, <3>3, OtherTopic
    <3>4. CASE dev.topic # NoTopic /\ r.dev.topic = Norm[dev.topic]
      BY <1>6, <1>10, <3>4, OtherTopic
    <3>. QED BY <1>4, <3>1, <3>2, <3>3, <3>4
  <2>. QED BY <1>4, <2>1, <2>2, <2>3
<1>11. ASSUME ~overlap', mgr'.up, call' = [call EXCEPT ![a] = c]
       PROVE  Attend(c, devices', mgr'.topics, failed')
  <2>1. ASSUME id \notin failed' PROVE Reached(r.dev, mgr'.topics, id)
    BY <1>4, <1>7, <2>1 DEF Reached
  <2>. QED BY <1>1, <1>5, <1>10, <1>11, <2>1 DEF Attend, Reached
<1>12. ASSUME ~overlap', mgr'.up, ~r.ok
       PROVE  Attend(Idle, devices', mgr'.topics, failed')
  <2>1. id \in failed'
    BY <1>7, <1>12
  <2>2. Idle.pc # "save"
    BY DEF Idle
  <2>. QED BY <1>1, <1>10, <1>12, <2>1, <2>2 DEF Attend, Reached
<1>13. CASE call' = [call EXCEPT ![a] = c]
  BY <1>5, <1>8, <1>11, <1>13, AttendOver
<1>14. CASE ~r.ok /\ call' = [call EXCEPT ![a] = Idle]
  BY <1>8, <1>12, <1>14, IdleIs, AttendOver
<1>. QED BY <1>5, <1>13, <1>14

LEMMA SnapshotAttended ==
    ASSUME IInv, Alone, Attended, NEW a \in Admins, Snapshot(a)
    PROVE  Attended'
<1> DEFINE c == [call[a] EXCEPT !.pc = "reconfigure", !.uid = uid, !.snap = devices]
<1>1. /\ At(a, "snapshot") /\ UNCHANGED <<devices, mgr, failed>>
      /\ call' = [call EXCEPT ![a] = c]
  BY Facts DEF Snapshot
<1>2. c \in Call /\ c.pc = "reconfigure" /\ c.id = call[a].id
  <2>1. devices \in [Ids -> Device \cup {None}] /\ uid \in Uids \cup {NoUid} /\ call[a] \in Call
    BY Facts DEF Stored
  <2>. QED BY <2>1 DEF Call
<1>. HIDE DEF c
<1>3. ASSUME ~overlap' PROVE Turn(a)
  BY <1>1, <1>3, AtTurn
<1>4. ASSUME ~overlap', mgr'.up PROVE Attend(c, devices', mgr'.topics, failed')
  <2>1. Attend(call[a], devices, mgr.topics, failed)
    BY <1>1, <1>3, <1>4, TurnAttend
  <2>. QED BY <1>1, <1>2, <2>1 DEF Attend
<1>. QED BY <1>1, <1>2, <1>3, <1>4, AttendOver

\* A topic the manager was asked for it has, or its device is noted as failed.
LEMMA InLineAttend ==
    ASSUME IInv, Entries,
           \A t \in Topics : mgr'.topics[t] = None \/ mgr'.topics[t] \in Wants(devices, t),
           Unserved(mgr', devices) \subseteq failed', devices' = devices
    PROVE  Attend(Idle, devices', mgr'.topics, failed')
<1>1. ASSUME NEW e \in Ids \ failed', devices[e] # None, devices[e].on,
             devices[e].topic # NoTopic
      PROVE  mgr'.topics[devices[e].topic] = e
  <2>1. devices[e].topic \in Topics
    BY <1>1, Facts DEF Stored, Device
  <2>2. mgr'.topics[devices[e].topic] # None
    BY <1>1 DEF Unserved
  <2>3. PICK d \in Wants(devices, devices[e].topic) : mgr'.topics[devices[e].topic] = d
    BY <2>1, <2>2
  <2>4. d \in Ids /\ devices[d] \in Device /\ devices[d].topic = devices[e].topic
    BY <2>3, Facts DEF Wants, Stored
  <2>5. d = e
    BY <1>1, <2>4, OtherTopic DEF Entry
  <2>. QED BY <2>3, <2>5
<1>. QED BY <1>1 DEF Attend, Reached, Idle

LEMMA ReconfiguredAttended ==
    ASSUME IInv, Solo, Entries, NEW a \in Admins, Reconfigured(a)
    PROVE  Attended'
<1>1. /\ call[a].pc = "reconfigure" /\ devices' = devices
      /\ call' = [call EXCEPT ![a] = Idle]
  BY DEF Reconfigured, Return
<1>2. call[a].snap \in Stored /\ call[a].uid \in Uids \cup {NoUid}
  BY <1>1, InHand
<1>3. /\ \A t \in Topics : mgr'.topics[t] = None \/ mgr'.topics[t] \in Wants(call[a].snap, t)
      /\ Unserved(mgr', call[a].snap) \subseteq failed'
  <2>1. PICK r \in Reconfigure(mgr, call[a].uid, call[a].snap) :
           mgr' = r.m /\ failed' = (failed \ Served(r.m)) \cup Unserved(r.m, call[a].snap)
    BY DEF Reconfigured
  <2>2. Unserved(mgr', call[a].snap) = Unserved(r.m, call[a].snap)
    BY <2>1
  <2>. QED BY <1>2, <2>1, <2>2, Facts, ReconfigureEffect
<1>4. ASSUME ~overlap' PROVE Hand(Idle)' /\ Attend(Idle, devices', mgr'.topics, failed')
  <2>1. call[a].snap = devices /\ Hand(Idle)'
    BY <1>4, LastSolo
  <2>. QED BY <1>1, <1>3, <2>1, InLineAttend
<1>. QED BY <1>4, IdleIs DEF Attended

LEMMA RestartAttended ==
    ASSUME IInv, Entries, Restart
    PROVE  Attended'
<1>1. devices' = devices /\ call' = [a \in Admins |-> Idle]
  BY DEF Restart
<1>2. PICK r \in Reconfigure(NewManager(mgr.faults), uid, devices) :
         mgr' = r.m /\ failed' = (failed \ Served(r.m)) \cup Unserved(r.m, devices)
  BY DEF Restart
<1>3. Fine(NewManager(mgr.faults))
  BY Facts, Fields, NewFine DEF Fine
<1>4. Unserved(mgr', devices) = Unserved(r.m, devices)
  BY <1>2
<1>5. Attend(Idle, devices', mgr'.topics, failed')
  BY <1>1, <1>2, <1>3, <1>4, Facts, ReconfigureEffect, InLineAttend
<1>6. Hand(Idle)'
  BY <1>1 DEF Hand
<1>. QED BY <1>5, <1>6, IdleIs DEF Attended

LEMMA StepAttended ==
    IInv /\ Solo /\ Alone /\ Entries /\ Attended /\ [Next]_vars => Attended'
<1>. SUFFICES ASSUME IInv, Solo, Alone, Entries, Attended, [Next]_vars PROVE Attended'
  OBVIOUS
<1>1. CASE UNCHANGED vars
  BY <1>1 DEF vars, Attended, Hand
<1>2. CASE Next
  BY <1>2, BeginAttended, AdoptAttended, RemoveAttended, UpsertAttended, EnsureAttended,
     LastAttended, SnapshotAttended, ReconfiguredAttended, RestartAttended DEF Next
<1>. QED BY <1>1, <1>2

\* When every device has topics of its own, a device with Bemfa enabled is
\* subscribed between requests that do not overlap, unless its last attempt
\* failed (README.md:100).  With a topic in common it need not be: the one
\* gives it up for the other (service.go:167-168).
THEOREM EnabledIsReached == TopicsApart /\ Spec => []EnabledIsSubscribed
<1>1. Init => Attended
  BY DEF Init, NewManager, Attended
<1>2. IInv /\ Attended => EnabledIsSubscribed
  <2>. SUFFICES ASSUME IInv, Attended, Settled, mgr.up, NEW d \in Ids \ failed, Enabled(d)
                PROVE  mgr.subs[devices[d].topic] = d
    BY DEF EnabledIsSubscribed
  <2>1. PICK c \in Call : Hand(c) /\ Attend(c, devices, mgr.topics, failed)
    BY DEF Attended, Settled
  <2>2. c.id # d
    BY <2>1 DEF Hand, Settled, Idle
  <2>3. mgr.topics[devices[d].topic] = d /\ devices[d].topic \in Topics
    BY <2>1, <2>2, Facts DEF Attend, Reached, Enabled, Stored, Device
  <2>. QED BY <2>3, Facts DEF Fine, Sure
<1>. QED BY <1>1, <1>2, Invariant, SoloAlways, AloneAlways, InitEntries, StepEntries,
            StepAttended, PTL DEF Spec
=============================================================================
