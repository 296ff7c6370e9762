---------------------------- MODULE BemfaManager ----------------------------
(***************************************************************************)
(* The MQTT manager (internal/bemfa/manager.go) as a value and what its    *)
(* methods make of it.  All of them hold m.mu from beginning to end, so    *)
(* each is one step of whoever calls it; DeviceService has the steps.      *)
(*                                                                         *)
(* A manager is a record:                                                  *)
(*   uid     the account it was last configured for                        *)
(*   up      whether it has a running MQTT device (dev # nil)              *)
(*   topics  which device it believes each topic is subscribed for         *)
(*   subs    the device each topic's handler in the MQTT library powers    *)
(*   refused history: topics the last unsubscribe of which failed          *)
(*   faults  bound: how many more requests to the broker may fail          *)
(* Reconnecting, the status page and the log ring are left out.  Whether   *)
(* CreateTopic succeeds makes no difference to any of these, since the     *)
(* code subscribes in either case.                                         *)
(*                                                                         *)
(* A method is the set of its possible outcomes, [m, ok] records.          *)
(***************************************************************************)
EXTENDS Naturals, FiniteSets

CONSTANTS
    Ids,         \* device ids
    Topics,      \* topics as they may be typed in
    Norm,        \* Topics -> Topics: normalizeTopic
    Generated,   \* topics GenerateTopic makes up
    Uids,        \* Bemfa accounts
    NoUid,       \* the empty BemfaUID
    NoTopic,     \* the empty BemfaTopic
    None         \* no device

ASSUME NormAssumption ==
    /\ Norm \in [Topics -> Topics]
    /\ \A t \in Topics : Norm[Norm[t]] = Norm[t]
ASSUME GeneratedAssumption ==
    Generated \subseteq Topics /\ \A t \in Generated : Norm[t] = t
ASSUME NoneAssumption ==
    None \notin Ids /\ NoTopic \notin Topics /\ NoUid \notin Uids

\* What the manager reads of a device: BemfaEnable and BemfaTopic.
Device == [on : BOOLEAN, topic : Topics \cup {NoTopic}]

Nothing == [t \in Topics |-> None]

Manager == [uid : Uids \cup {NoUid}, up : BOOLEAN,
            topics : [Topics -> Ids \cup {None}],
            subs : [Topics -> Ids \cup {None}], refused : SUBSET Topics, faults : Nat]

NewManager(faults) ==
    [uid |-> NoUid, up |-> FALSE, topics |-> Nothing, subs |-> Nothing,
     refused |-> {}, faults |-> faults]

Done(m) == [m |-> m, ok |-> TRUE]
Failed(m) == [m |-> m, ok |-> FALSE]
Charged(m) == [m EXCEPT !.faults = @ - 1]
IfFaulty(m, outcomes) == IF m.faults > 0 THEN outcomes ELSE {}

-----------------------------------------------------------------------------
\* unsubscribeLocked.  The map forgets the topic whatever the broker says.
Unsubscribe(m, t) ==
    LET gone == [m EXCEPT !.topics[t] = None]
    IN  {[gone EXCEPT !.subs[t] = None, !.refused = @ \ {t}]}
        \cup (IF m.up THEN IfFaulty(m, {Charged([gone EXCEPT !.refused = @ \cup {t}])})
              ELSE {})

\* A new handler takes the place of the topic's old one.
Handled(m, t, d) == [m EXCEPT !.topics[t] = d, !.subs[t] = d, !.refused = @ \ {t}]

\* Sensitivity variant of Subscribe: the map is filled in before the broker has
\* accepted.
SubscribeEagerly(m, t, d) ==
    IF ~m.up THEN {Failed(m)}
    ELSE IF m.topics[t] = d THEN {Done(m)}
    ELSE LET noted == [m EXCEPT !.topics[t] = d]
         IN  {Done(Handled(m, t, d))} \cup IfFaulty(m, {Failed(Charged(noted))})

\* subscribeLocked.  A topic of another device is taken away from it first.
Subscribe(m, t, d) ==
    IF ~m.up THEN {Failed(m)}
    ELSE IF m.topics[t] = d THEN {Done(m)}
    ELSE LET free == IF m.topics[t] = None THEN {m} ELSE Unsubscribe(m, t)
         IN  UNION { {Done(Handled(f, t, d))} \cup IfFaulty(f, {Failed(Charged(f))})
                     : f \in free }

\* The device a topic is wanted for; of several the last one in the list wins,
\* which may be any of them.
Wants(devs, t) == {d \in Ids : devs[d] # None /\ devs[d].on /\ devs[d].topic = t}
Choices(devs) ==
    LET wanted == {t \in Topics : Wants(devs, t) # {}}
    IN  {w \in [wanted -> Ids] : \A t \in wanted : w[t] \in Wants(devs, t)}

\* syncLocked: unsubscribe what nobody wants, subscribe the rest.  w is what is
\* wanted.  A topic already there for the right device is not asked for again;
\* one there for another device is unsubscribed first.
Asked(m, w) == {t \in Topics : IF t \in DOMAIN w THEN m.topics[t] # w[t]
                                                 ELSE m.topics[t] # None}

\* Requests that fail are logged and passed over: the unsubscribes of the topics
\* in kept, the subscriptions to those in lost.
Mishaps(m, w) ==
    {f \in [kept : SUBSET {t \in Asked(m, w) : m.topics[t] # None},
            lost : SUBSET (Asked(m, w) \cap DOMAIN w)] :
        /\ IsFiniteSet(f.kept) /\ IsFiniteSet(f.lost)
        /\ Cardinality(f.kept) + Cardinality(f.lost) <= m.faults}

\* Sensitivity variants: nothing is unsubscribed, and the map outlives the
\* device it was about.
SyncedAddingOnly(m, w, f) ==
    [m EXCEPT
       !.topics = [t \in Topics |-> IF t \in DOMAIN w \ f.lost THEN w[t] ELSE m.topics[t]],
       !.subs = [t \in Topics |-> IF t \in DOMAIN w \ f.lost THEN w[t] ELSE m.subs[t]]]

ClosedKeepingMap(m) == [m EXCEPT !.up = FALSE, !.subs = Nothing]

Synced(m, w, f) ==
    LET served == DOMAIN w \ f.lost IN
    [m EXCEPT
       !.topics = [t \in Topics |-> IF t \in served THEN w[t] ELSE None],
       !.subs = [t \in Topics |->
            IF t \in Asked(m, w) \cap served THEN w[t]
            ELSE IF t \in Asked(m, w) \ f.kept /\ m.topics[t] # None THEN None
            ELSE m.subs[t]],
       !.refused = (@ \cup f.kept) \ served,
       !.faults = @ - (Cardinality(f.kept) + Cardinality(f.lost))]

Sync(m, devs) ==
    UNION { {Done(Synced(m, w, f)) : f \in Mishaps(m, w)} : w \in Choices(devs) }

\* closeLocked; the account stays as it was set.
Closed(m) == [m EXCEPT !.up = FALSE, !.topics = Nothing, !.subs = Nothing, !.refused = {}]

\* Reconfigure: a running device of the same account is brought in line with
\* devs, any other is closed and, if there is an account, started anew.  Start
\* may fail; the account is then noted but there is no device.
Reconfigure(m, uid, devs) ==
    IF uid = m.uid /\ m.up THEN Sync(m, devs)
    ELSE LET closed == [Closed(m) EXCEPT !.uid = uid]
         IN  IF uid = NoUid THEN {Done(closed)}
             ELSE Sync([closed EXCEPT !.up = TRUE], devs)
                  \cup IfFaulty(closed, {Failed(Charged(closed))})

\* RemoveDevice.
RemoveDevice(m, dev) ==
    IF dev.topic = NoTopic THEN {m} ELSE Unsubscribe(m, dev.topic)

\* EnsureDevice: outcomes also carry the device, whose topic it fills in or
\* normalizes.  fresh are the topics GenerateTopic may come up with.
EnsureDevice(m, d, dev, fresh) ==
    IF ~dev.on THEN {[m |-> n, ok |-> TRUE, dev |-> dev] : n \in RemoveDevice(m, dev)}
    ELSE IF m.uid = NoUid \/ ~m.up THEN {[m |-> m, ok |-> FALSE, dev |-> dev]}
    ELSE UNION { {[m |-> r.m, ok |-> r.ok, dev |-> [dev EXCEPT !.topic = t]]
                     : r \in Subscribe(m, t, d)}
                 : t \in IF dev.topic = NoTopic THEN fresh ELSE {Norm[dev.topic]} }

=============================================================================
