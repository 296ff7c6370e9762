-------------------------- MODULE ConfigStoreProofs --------------------------
(***************************************************************************)
(* Theorems about ConfigStore for any installation, any tokens and any     *)
(* number of administrators, changes, PUTs, failures and stops.            *)
(*                                                                         *)
(* The inductive invariant has four parts: what each stage of the start    *)
(* has migrated; what each PUT under way holds; how old file, memory and   *)
(* confirmed changes are; and where the token in force is, which, while a  *)
(* PUT runs by itself, depends on how far it is.                           *)
(***************************************************************************)
EXTENDS ConfigStore, TLAPS

Running == pc \notin {"stopped", "down"}

\* What memory and file are like at each stage.
Migrated ==
    /\ saving # "no" => Running
    /\ pc = "open" => saving # "no"
    /\ pc = "serving" \/ (pc = "ensure" /\ saving # "no") => mem.token \in Tokens
    /\ pc = "serving" => hub \in Tokens
    /\ mem.hashed /\ mem.current
    /\ file # Torn
    /\ pc \in {"flag", "ensure", "serving"} => file # Absent /\ file.hashed
    /\ pc \in {"flag", "ensure", "serving"} => (file.current \/ mode = "writeback")

\* A PUT holds the lock until it is saved, and what it holds then.
Held(a) ==
    /\ call[a].pc # "idle" => pc = "serving"
    /\ call[a].pc = "save" => saving # "no" /\ op = a
    /\ call[a].pc \in {"mirror", "read", "move"} => mode = "writeback"
    /\ call[a].pc = "read" => uci.hashed
    /\ call[a].pc = "move" => call[a].new \in Content /\ call[a].new.hashed
    /\ call[a].pc = "move" => call[a].new.dev <= mem.dev
    /\ call[a].pc = "move" => (raced \/ call[a].new.dev = OnFile)
    /\ call[a].pc = "set" => call[a].token \in Tokens

\* How old everything is.
Ordered ==
    /\ raced => mode = "writeback"
    /\ raced \/ confirmed <= OnFile
    /\ OnFile <= made
    /\ Running => OnFile <= mem.dev /\ mem.dev <= made

\* Where the token is while no PUT is under way, ...
Settled ==
    /\ hub = mem.token /\ file.token = mem.token
    /\ (mode = "writeback" /\ uci.token # Blank) => uci.token = mem.token

\* ... and while one runs by itself.
Alone(a) ==
    call[a].alone =>
        /\ call[a].pc # "idle" /\ \A b \in Admins \ {a} : call[b].pc = "idle"
        /\ call[a].pc \in {"mirror", "read", "snapshot", "set"} => file.token = mem.token
        /\ (call[a].pc \in {"read", "move", "snapshot", "set"} /\ mode = "writeback") =>
              uci.token = mem.token
        /\ call[a].pc = "move" => call[a].new.token = mem.token
        /\ call[a].pc = "set" => call[a].token = mem.token

InForce ==
    /\ (pc = "serving" /\ saving # "no" /\ op # NoAdmin) => call[op].pc = "save"
    /\ (pc = "flag" \/ (pc = "ensure" /\ saving = "no")) => file.token = mem.token
    /\ (mode = "writeback" /\ ~drift /\ uci.token # Blank) =>
          /\ pc \notin {"stopped", "serving"} => file # Absent /\ file.token = uci.token
          /\ pc \in {"open", "flag", "ensure"} => mem.token = uci.token
    /\ (pc = "serving" /\ Quiet /\ ~drift) => Settled

IInv == TypeOK /\ Migrated /\ (\A a \in Admins : Held(a)) /\ Ordered
SInv == IInv /\ InForce /\ \A a \in Admins : Alone(a)

\* Where the token of the last stop is until the next start is over, if LuCI
\* always has one.
Remembered ==
    /\ mode # "own" => uci.token # Blank
    /\ (mode = "readonly" /\ pc # "stopped") => file # Absent /\ file.token = uci.token
    /\ (mode = "readonly" /\ Running) => mem.token = uci.token
    /\ (last # Blank /\ pc = "stopped" /\ mode # "own") => uci.token = last
    /\ (last # Blank /\ (pc \in {"down", "open"} \/ (pc = "stopped" /\ mode = "own"))) =>
          file # Absent /\ file.token = last
    /\ (last # Blank /\ pc \in {"open", "flag", "ensure"}) => mem.token = last
TInv == IInv /\ Remembered

-----------------------------------------------------------------------------
USE TokenAssumption, SettingsAssumption, BoundAssumption, FileAssumption

\* What the code makes of a configuration is one.
LEMMA DefaultFacts ==
    /\ Default \in Content /\ Default.dev = 0
    /\ Default.hashed /\ Default.current
    /\ Default # Absent /\ Default # Torn
<1>1. Default \in Content
  BY DEF Default, Content
<1>. QED BY <1>1 DEF Default

LEMMA LegacyFacts ==
    ASSUME NEW t \in Tokens \cup {Blank}
    PROVE  Legacy(t) \in Content /\ Legacy(t).dev = 0 /\ Legacy(t) # Torn
<1>1. Legacy(t) \in Content /\ Legacy(t).dev = 0
  BY DEF Legacy, Content
<1>. QED BY <1>1

LEMMA MigrateFacts ==
    ASSUME NEW c \in Content, NEW m, m = [c EXCEPT !.hashed = TRUE, !.current = TRUE]
    PROVE  m \in Content /\ m.hashed /\ m.current /\ m.dev = c.dev /\ m.token = c.token
BY DEF Content

LEMMA ChangeFacts ==
    ASSUME NEW c \in Content, NEW n \in Nat, NEW m, m = [c EXCEPT !.dev = n]
    PROVE  /\ m \in Content /\ m.dev = n /\ m.token = c.token
           /\ m.hashed = c.hashed /\ m.current = c.current
BY DEF Content

LEMMA TokenFacts ==
    ASSUME NEW c \in Content, NEW t \in Tokens, NEW m, m = [c EXCEPT !.token = t]
    PROVE  /\ m \in Content /\ m.token = t /\ m.dev = c.dev
           /\ m.hashed = c.hashed /\ m.current = c.current
BY DEF Content

\* uci-sync keeps the age of what is on file, and writes UCI's token.
LEMMA SyncKeeps ==
    ASSUME NEW f \in Content \cup {Absent}, NEW u \in Uci
    PROVE  /\ Synced(f, u) \in Content
           /\ Synced(f, u).dev = Devices(f)
           /\ Synced(f, u).token = u.token /\ Synced(f, u).hashed = u.hashed
           /\ Devices(f) \in Nat
<1>1. Devices(f) \in Nat
  BY DEF Devices, Content
<1>. HIDE DEF Devices
<1>. QED BY <1>1 DEF Synced, Content, Uci

LEMMA IdleFacts ==
    Idle \in Call /\ Idle.pc = "idle" /\ ~Idle.alone
BY DEF Idle, Call

\* One step of a PUT leaves the others as they are.
LEMMA StepOfCall ==
    ASSUME NEW c \in [Admins -> Call], NEW a \in Admins, NEW k \in Call,
           NEW d, d = [c EXCEPT ![a] = k]
    PROVE  /\ d \in [Admins -> Call] /\ d[a] = k
           /\ \A b \in Admins \ {a} : d[b] = c[b]
OBVIOUS

LEMMA GoesFacts ==
    ASSUME NEW c \in [Admins -> Call], NEW a \in Admins,
           NEW p \in {"mirror", "read", "move", "snapshot", "set"},
           NEW d, d = [c EXCEPT ![a].pc = p]
    PROVE  /\ d \in [Admins -> Call]
           /\ d[a].pc = p /\ d[a].token = c[a].token
           /\ d[a].new = c[a].new /\ d[a].alone = c[a].alone
           /\ \A b \in Admins \ {a} : d[b] = c[b]
<1>1. [c[a] EXCEPT !.pc = p] \in Call
  BY DEF Call
<1>2. d = [c EXCEPT ![a] = [c[a] EXCEPT !.pc = p]]
  OBVIOUS
<1>3. d[a] = [c[a] EXCEPT !.pc = p]
  OBVIOUS
<1>. QED BY <1>1, <1>2, <1>3, StepOfCall DEF Call

LEMMA MovingFacts ==
    ASSUME call \in [Admins -> Call], NEW a \in Admins, NEW n \in Content \cup {Absent},
           call' = [call EXCEPT ![a].pc = "move", ![a].new = n]
    PROVE  /\ call' \in [Admins -> Call]
           /\ call'[a].pc = "move" /\ call'[a].new = n /\ call'[a].alone = call[a].alone
           /\ \A b \in Admins \ {a} : call'[b] = call[b]
<1>1. [call[a] EXCEPT !.pc = "move", !.new = n] \in Call
  BY DEF Call
<1>2. call' = [call EXCEPT ![a] = [call[a] EXCEPT !.pc = "move", !.new = n]]
  OBVIOUS
<1>3. call'[a] = [call[a] EXCEPT !.pc = "move", !.new = n]
  OBVIOUS
<1>. QED BY <1>1, <1>2, <1>3, StepOfCall DEF Call

LEMMA MovedFacts ==
    ASSUME call \in [Admins -> Call], NEW a \in Admins,
           call' = [call EXCEPT ![a].pc = "snapshot", ![a].new = Absent]
    PROVE  /\ call' \in [Admins -> Call]
           /\ call'[a].pc = "snapshot" /\ call'[a].new = Absent /\ call'[a].alone = call[a].alone
           /\ \A b \in Admins \ {a} : call'[b] = call[b]
<1>1. [call[a] EXCEPT !.pc = "snapshot", !.new = Absent] \in Call
  BY DEF Call
<1>2. call' = [call EXCEPT ![a] = [call[a] EXCEPT !.pc = "snapshot", !.new = Absent]]
  OBVIOUS
<1>3. call'[a] = [call[a] EXCEPT !.pc = "snapshot", !.new = Absent]
  OBVIOUS
<1>. QED BY <1>1, <1>2, <1>3, StepOfCall DEF Call

LEMMA SeenFacts ==
    ASSUME NEW c \in [Admins -> Call], NEW a \in Admins, NEW t \in Tokens \cup {Blank},
           NEW d, d = [c EXCEPT ![a].pc = "set", ![a].token = t]
    PROVE  /\ d \in [Admins -> Call]
           /\ d[a].pc = "set" /\ d[a].token = t /\ d[a].alone = c[a].alone
           /\ \A b \in Admins \ {a} : d[b] = c[b]
<1>1. [c[a] EXCEPT !.pc = "set", !.token = t] \in Call
  BY DEF Call
<1>2. d = [c EXCEPT ![a] = [c[a] EXCEPT !.pc = "set", !.token = t]]
  OBVIOUS
<1>3. d[a] = [c[a] EXCEPT !.pc = "set", !.token = t]
  OBVIOUS
<1>. QED BY <1>1, <1>2, <1>3, StepOfCall DEF Call

\* A PUT that begins takes the others their being alone.
LEMMA BegunFacts ==
    ASSUME call \in [Admins -> Call], NEW a \in Admins, NEW p \in {"idle", "save"},
           call' = Begun(a, p)
    PROVE  /\ call' \in [Admins -> Call]
           /\ call'[a].pc = p
           /\ call'[a].alone => (p # "idle" /\ \A b \in Admins \ {a} : call[b].pc = "idle")
           /\ \A b \in Admins \ {a} : /\ call'[b].pc = call[b].pc
                                      /\ call'[b].token = call[b].token
                                      /\ call'[b].new = call[b].new
                                      /\ ~call'[b].alone
<1>1. Others(a) \in BOOLEAN
  BY DEF Others
<1>. DEFINE k == [pc |-> p, token |-> Blank, new |-> Absent,
                  alone |-> p # "idle" /\ ~Others(a)]
<1>2. k \in Call
  BY <1>1 DEF Call
<1>3. ASSUME NEW b \in Admins PROVE [call[b] EXCEPT !.alone = FALSE] \in Call
  <2>1. PICK c \in Call : c = call[b]
    OBVIOUS
  <2>2. [c EXCEPT !.alone = FALSE] \in Call
    BY DEF Call
  <2>. QED BY <2>1, <2>2
<1>4. call'[a] = k /\ \A b \in Admins \ {a} : call'[b] = [call[b] EXCEPT !.alone = FALSE]
  BY DEF Begun
<1>5. call' \in [Admins -> Call]
  BY <1>2, <1>3 DEF Begun
<1>6. k.pc = p /\ (k.alone => p # "idle" /\ ~Others(a))
  OBVIOUS
<1>7. \A b \in Admins \ {a} : /\ call'[b].pc = call[b].pc
                              /\ call'[b].token = call[b].token
                              /\ call'[b].new = call[b].new
                              /\ ~call'[b].alone
  <2>. SUFFICES ASSUME NEW b \in Admins \ {a}
                PROVE  /\ call'[b].pc = call[b].pc /\ call'[b].token = call[b].token
                       /\ call'[b].new = call[b].new /\ ~call'[b].alone
    OBVIOUS
  <2>1. PICK c \in Call : c = call[b]
    OBVIOUS
  <2>2. call'[b] = [c EXCEPT !.alone = FALSE]
    BY <1>4, <2>1
  <2>. QED BY <2>1, <2>2 DEF Call
<1>. HIDE DEF k
<1>. QED BY <1>4, <1>5, <1>6, <1>7 DEF Others

LEMMA InitInv == Init => IInv
<1>. SUFFICES ASSUME Init PROVE IInv
  OBVIOUS
<1>0. file \in Content \cup {Absent} /\ file # Torn /\ (file # Absent => file.dev = 0)
  BY DefaultFacts, LegacyFacts DEF Init
<1>1. uci \in Uci
  <2>1. PICK t \in UciTokens : uci = [token |-> t, hashed |-> FALSE]
    BY DEF Init
  <2>. QED BY <2>1 DEF Uci
<1>2. call \in [Admins -> Call] /\ \A a \in Admins : call[a] = Idle
  BY IdleFacts DEF Init
<1>3. TypeOK
  <2>1. mode \in AllModes
    BY DEF Init
  <2>2. made \in 0 .. MaxChanges /\ confirmed \in 0 .. made
    BY DEF Init
  <2>3. puts \in 0 .. MaxPuts /\ faults \in 0 .. MaxFaults /\ stops \in 0 .. MaxStops
    BY DEF Init
  <2>. QED BY <1>0, <1>1, <1>2, <2>1, <2>2, <2>3, DefaultFacts DEF Init, TypeOK
<1>4. Migrated
  BY <1>0, DefaultFacts DEF Init, Migrated, Running
<1>5. \A a \in Admins : Held(a)
  BY <1>2, IdleFacts DEF Held
<1>6. Ordered
  <2>1. OnFile = 0
    BY <1>0 DEF OnFile, Devices
  <2>. QED BY <2>1 DEF Init, Ordered, Running
<1>. QED BY <1>3, <1>4, <1>5, <1>6 DEF IInv

-----------------------------------------------------------------------------
(* Types, stages, PUTs and ages, one lemma per group of actions.           *)

\* The PUTs after a save: the one that saved goes on or is over.
LEMMA OverCalls ==
    ASSUME TypeOK, NEW ok \in BOOLEAN, Over(ok)
    PROVE  /\ call' \in [Admins -> Call]
           /\ \A a \in Admins : \/ call'[a] = call[a] /\ (pc = "serving" => op # a)
                                \/ /\ pc = "serving" /\ op = a /\ ok
                                   /\ call'[a].pc = IF mode = "writeback" THEN "mirror" ELSE "snapshot"
                                   /\ call'[a].alone = call[a].alone
                                \/ pc = "serving" /\ op = a /\ ~ok /\ call'[a] = Idle
<1>0. call \in [Admins -> Call] /\ op \in Admins \cup {NoAdmin}
  BY DEF TypeOK
<1>1. CASE pc = "serving" /\ op # NoAdmin /\ ok
  <2>1. op \in Admins
    BY <1>0, <1>1
  <2>2. call' = [call EXCEPT ![op].pc = IF mode = "writeback" THEN "mirror" ELSE "snapshot"]
    BY <1>1 DEF Over
  <2>3. CASE mode = "writeback"
    <3>1. call' = [call EXCEPT ![op].pc = "mirror"]
      BY <2>2, <2>3
    <3>. QED BY <1>0, <1>1, <2>1, <2>3, <3>1, GoesFacts
  <2>4. CASE mode # "writeback"
    <3>1. call' = [call EXCEPT ![op].pc = "snapshot"]
      BY <2>2, <2>4
    <3>. QED BY <1>0, <1>1, <2>1, <2>4, <3>1, GoesFacts
  <2>. QED BY <2>3, <2>4
<1>2. CASE pc = "serving" /\ op # NoAdmin /\ ~ok
  <2>1. op \in Admins /\ call' = [call EXCEPT ![op] = Idle]
    BY <1>0, <1>2 DEF Over
  <2>. QED BY <1>0, <1>2, <2>1, IdleFacts, StepOfCall
<1>3. CASE ~(pc = "serving" /\ op # NoAdmin)
  <2>1. call' = call
    BY <1>3 DEF Over
  <2>. QED BY <1>0, <1>3, <2>1
<1>. QED BY <1>1, <1>2, <1>3

\* The end of a save, whichever way it went.
LEMMA OverInv ==
    ASSUME IInv, saving # "no", NEW ok \in BOOLEAN, Over(ok),
           faults' \in 0 .. MaxFaults,
           file' = IF ok THEN mem ELSE file,
           raced' = (raced \/ (ok /\ \E a \in Admins : call[a].pc = "move"))
    PROVE  IInv'
<1>. USE DEF IInv
<1>1. /\ mem' = mem /\ mem \in Content /\ made' = made /\ mode' = mode /\ uci' = uci
      /\ file' # Torn /\ file' \in Content \cup {Absent} /\ mem.dev \in Nat
      /\ op' = op /\ saving' = "no"
  BY DEF Over, TypeOK, Migrated, Content
<1>2. OnFile' = IF ok THEN mem.dev ELSE OnFile
  BY <1>1 DEF OnFile, Devices, Migrated
<1>3. mode = "writeback" \/ ~\E a \in Admins : call[a].pc = "move"
  BY DEF Held
<1>4. raced' \in BOOLEAN /\ (raced => raced')
  BY DEF TypeOK
<1>5. (raced' \/ confirmed' <= OnFile') /\ confirmed' \in 0 .. made /\ OnFile' <= made
  <2>1. OnFile <= mem.dev /\ mem.dev <= made /\ OnFile \in Nat
    BY <1>1 DEF Ordered, Migrated, OnFile, Devices, TypeOK, Content
  <2>2. (confirmed' = mem.dev /\ ok) \/ confirmed' = confirmed
    BY DEF Over
  <2>3. confirmed \in 0 .. made /\ (raced \/ confirmed <= OnFile) /\ made \in Nat
    BY DEF Ordered, TypeOK
  <2>. QED BY <1>1, <1>2, <1>4, <2>1, <2>2, <2>3
<1>6. TypeOK'
  <2>1. hub' \in Tokens \cup {Blank} 
    BY DEF Over, TypeOK, Migrated, Running, Serve, StaysBelow, serverVars, Content
  <2>2. pc' \in {"stopped", "down", "open", "flag", "ensure", "serving"}
    BY DEF Over, TypeOK, Serve, StaysBelow, serverVars
  <2>3. drift' \in BOOLEAN /\ last' = last /\ puts' = puts /\ stops' = stops
    BY DEF Over, TypeOK
  <2>. QED BY <1>1, <1>4, <1>5, <2>1, <2>2, <2>3, OverCalls DEF TypeOK
<1>7. pc' \in {"down", "flag", "ensure", "serving"} /\ (pc = "serving" => pc' = pc)
  BY DEF Over, TypeOK, Migrated, Running, Serve, StaysBelow, serverVars
<1>8. Migrated'
  <2>1. pc' = "serving" => mem'.token \in Tokens /\ hub' \in Tokens
    BY <1>1 DEF Over, Migrated, Running, Serve, StaysBelow, serverVars
  <2>2. pc' \in {"flag", "ensure", "serving"} => (ok \/ pc \in {"flag", "ensure", "serving"})
    BY DEF Over, Migrated, Running, Serve, StaysBelow, serverVars
  <2>. QED BY <1>1, <1>7, <2>1, <2>2 DEF Migrated, Running
<1>9. ASSUME NEW a \in Admins PROVE Held(a)'
  <2>1. Held(a) /\ (call[a].pc = "move" => mode = "writeback")
    BY DEF Held
  <2>2. CASE call'[a] = call[a] /\ (pc = "serving" => op # a)
    BY <1>1, <1>2, <1>4, <1>7, <2>1, <2>2 DEF Held
  <2>3. CASE /\ pc = "serving" /\ op = a /\ ok
             /\ call'[a].pc = IF mode = "writeback" THEN "mirror" ELSE "snapshot"
    BY <1>1, <1>7, <2>3 DEF Held
  <2>4. CASE call'[a] = Idle
    BY <2>4, IdleFacts DEF Held
  <2>. QED BY <2>2, <2>3, <2>4, OverCalls
<1>10. Ordered'
  <2>1. raced' => mode = "writeback"
    BY <1>3 DEF Ordered
  <2>2. Running => mem.dev <= made /\ OnFile <= mem.dev
    BY DEF Ordered
  <2>3. Running
    BY DEF Migrated
  <2>. QED BY <1>1, <1>2, <1>5, <2>1, <2>2, <2>3 DEF Ordered
<1>. QED BY <1>6, <1>8, <1>9, <1>10

\* The PUTs, and what they rely on, when an action leaves them alone.
LEMMA HeldFrame ==
    ASSUME IInv, call' = call, mode' = mode, uci' = uci, raced' = raced,
           pc = "serving" => pc' = "serving",
           saving # "no" => saving' # "no" /\ op' = op,
           OnFile' = OnFile, mem.dev \in Nat, mem'.dev \in Nat,
           pc = "serving" => mem.dev <= mem'.dev
    PROVE  \A a \in Admins : Held(a)'
<1>. SUFFICES ASSUME NEW a \in Admins PROVE Held(a)'
  OBVIOUS
<1>1. Held(a)
  BY DEF IInv
<1>2. (call[a].pc = "move") => call[a].new.dev \in Nat
  BY <1>1 DEF Held, Content
<1>. QED BY <1>1, <1>2 DEF Held

\* Before the server serves there are none.
LEMMA NoneBefore ==
    ASSUME IInv, pc # "serving"
    PROVE  \A a \in Admins : call[a].pc = "idle"
BY DEF IInv, Held

LEMMA NoneHeld ==
    ASSUME \A a \in Admins : call'[a].pc = "idle"
    PROVE  \A a \in Admins : Held(a)'
BY DEF Held

\* Starting the service and opening the file.
LEMMA StartInv ==
    IInv /\ (StartService \/ Open) => IInv'
<1>. USE DEF IInv
<1>1. ASSUME IInv, StartService PROVE IInv'
  <2>1. file \in Content \cup {Absent} /\ uci \in Uci
    BY <1>1 DEF TypeOK, Migrated
  <2>2. file' = file \/ file' = Synced(file, uci)
    BY <1>1 DEF StartService
  <2>3. file' \in Content \cup {Absent} /\ OnFile' = OnFile
    BY <2>1, <2>2, SyncKeeps DEF OnFile, Devices
  <2>4. TypeOK'
    BY <1>1, <2>3 DEF StartService, StaysBelow, TypeOK, bounds
  <2>5. Migrated'
    BY <1>1, <2>3 DEF StartService, StaysBelow, Migrated, Running
  <2>6. Ordered'
    BY <1>1, <2>3 DEF StartService, StaysBelow, Ordered, Running
  <2>7. call' = call /\ pc # "serving"
    BY <1>1 DEF StartService
  <2>. QED BY <1>1, <2>4, <2>5, <2>6, <2>7, NoneBefore, NoneHeld
<1>2. ASSUME IInv, Open PROVE IInv'
  <2>1. mem' \in Content /\ mem'.hashed /\ mem'.current /\ mem'.dev = OnFile
    BY <1>2, DefaultFacts, MigrateFacts DEF Open, Opened, TypeOK, OnFile, Devices
  <2>2. file' = file /\ OnFile' = OnFile /\ made' = made /\ call' = call /\ pc # "serving"
    BY <1>2 DEF Open, OnFile, Devices, history
  <2>3. mem' = file => file \in Content /\ file.hashed /\ file.current
    BY <2>1
  <2>4. TypeOK'
    BY <1>2, <2>1 DEF Open, StaysBelow, TypeOK, history, bounds
  <2>5. Migrated'
    BY <1>2, <2>1, <2>2, <2>3 DEF Open, StaysBelow, Migrated, Running
  <2>6. Ordered'
    BY <1>2, <2>1, <2>2 DEF Open, StaysBelow, Ordered, TypeOK, Content, history
  <2>. QED BY <1>2, <2>2, <2>4, <2>5, <2>6, NoneBefore, NoneHeld
<1>. QED BY <1>1, <1>2

\* Changes of memory that a save is to follow.
LEMMA ChangeInv == IInv /\ (Flag \/ EnsureClientToken \/ Change) => IInv'
<1>. USE DEF IInv
<1>0. ASSUME IInv PROVE mem.dev \in Nat /\ OnFile \in Nat
  BY <1>0 DEF TypeOK, Content, OnFile, Devices
<1>1. ASSUME IInv, Flag PROVE IInv'
  <2>1. TypeOK' /\ Migrated' /\ Ordered'
    BY <1>1 DEF Flag, StaysBelow, serverVars, history, bounds, TypeOK, Migrated, Ordered,
                Running, OnFile, Devices
  <2>. QED BY <1>1, <2>1, NoneBefore, NoneHeld DEF Flag
<1>2. ASSUME IInv, EnsureClientToken PROVE IInv'
  <2>0. call' = call /\ pc # "serving"
    BY <1>2 DEF EnsureClientToken
  <2>1. CASE mem.token # Blank
    <3>1. mem.token \in Tokens /\ mem' = mem
      BY <1>2, <2>1 DEF EnsureClientToken, TypeOK, Content
    <3>3. TypeOK' /\ Migrated' /\ Ordered'
      BY <1>2, <2>1, <3>1 DEF EnsureClientToken, Serve, history, bounds, TypeOK, Migrated,
                        Ordered, Running, OnFile, Devices
    <3>. QED BY <1>2, <2>0, <3>3, NoneBefore, NoneHeld
  <2>2. CASE mem.token = Blank
    <3>1. PICK t \in Tokens : mem' = [mem EXCEPT !.token = t]
      BY <1>2, <2>2 DEF EnsureClientToken
    <3>2. /\ mem' \in Content /\ mem'.token \in Tokens
          /\ mem'.hashed /\ mem'.current /\ mem'.dev = mem.dev
      BY <1>2, <3>1, TokenFacts DEF TypeOK, Migrated
    <3>3. TypeOK' /\ Migrated' /\ Ordered'
      BY <1>2, <2>2, <3>2 DEF EnsureClientToken, serverVars, history, bounds, TypeOK, Migrated,
                        Ordered, Running, OnFile, Devices
    <3>. QED BY <1>2, <2>0, <3>3, NoneBefore, NoneHeld
  <2>. QED BY <2>1, <2>2
<1>3. ASSUME IInv, Change PROVE IInv'
  <2>1. made' \in 0 .. MaxChanges /\ made' = made + 1 /\ made' \in Nat
    BY <1>3 DEF Change, TypeOK
  <2>2. /\ mem' \in Content /\ mem'.dev = made' /\ mem'.token = mem.token
        /\ mem'.hashed /\ mem'.current
    BY <1>3, <2>1, ChangeFacts DEF Change, TypeOK, Migrated
  <2>3. OnFile' = OnFile /\ OnFile \in Nat
    BY <1>3 DEF Change, OnFile, Devices, TypeOK, Content
  <2>4. TypeOK'
    BY <1>3, <2>1, <2>2 DEF Change, serverVars, bounds, TypeOK
  <2>5. Migrated'
    BY <1>3, <2>2 DEF Change, serverVars, Migrated, Running
  <2>6. Ordered'
    BY <1>3, <2>1, <2>2, <2>3 DEF Change, serverVars, Ordered, Running, TypeOK
  <2>7. mem.dev <= mem'.dev /\ mem.dev \in Nat /\ mem'.dev \in Nat
    BY <1>3, <1>0, <2>1, <2>2 DEF Change, Ordered, Running, TypeOK
  <2>8. \A a \in Admins : Held(a)'
    BY <1>3, <2>3, <2>7, HeldFrame DEF Change, serverVars
  <2>. QED BY <2>4, <2>5, <2>6, <2>8
<1>. QED BY <1>1, <1>2, <1>3

\* A PUT begins.
LEMMA PutInv ==
    ASSUME IInv, NEW a \in Admins, NEW p \in {"idle", "save"}, Put(a), call' = Begun(a, p),
           saving' \in {saving, "write"}, p = "save" => saving' = "write" /\ op' = a,
           op' \in {op, a}, drift' \in BOOLEAN, faults' \in 0 .. MaxFaults
    PROVE  IInv'
<1>. USE DEF IInv
<1>1. PICK t \in Tokens : mem' = [mem EXCEPT !.token = t]
  BY DEF Put
<1>2. /\ mem' \in Content /\ mem'.token \in Tokens /\ mem'.dev = mem.dev
      /\ mem'.hashed /\ mem'.current /\ mem.dev \in Nat
  BY <1>1, TokenFacts DEF TypeOK, Migrated, Content
<1>3. /\ file' = file /\ OnFile' = OnFile /\ pc' = pc /\ pc = "serving" /\ mode' = mode
      /\ uci' = uci /\ raced' = raced /\ hub' = hub /\ made' = made
      /\ confirmed' = confirmed /\ last' = last /\ stops' = stops /\ puts' = puts - 1 /\ puts > 0
      /\ saving = "no" /\ call[a].pc = "idle"
  BY DEF Put, serverVars, OnFile, Devices
<1>4. call \in [Admins -> Call]
  BY DEF TypeOK
<1>5. puts' \in 0 .. MaxPuts
  BY <1>3 DEF TypeOK
<1>6. TypeOK'
  BY <1>2, <1>3, <1>4, <1>5, BegunFacts DEF TypeOK
<1>7. Migrated'
  BY <1>2, <1>3 DEF Migrated, Running
<1>8. Ordered'
  BY <1>2, <1>3 DEF Ordered, Running
<1>9. ASSUME NEW b \in Admins PROVE Held(b)'
  <2>1. CASE b = a
    BY <1>3, <1>4, <2>1, BegunFacts DEF Held
  <2>2. CASE b # a
    <3>1. /\ call'[b].pc = call[b].pc /\ call'[b].token = call[b].token
          /\ call'[b].new = call[b].new
      BY <1>4, <2>2, BegunFacts
    <3>2. Held(b)
      OBVIOUS
    <3>. QED BY <1>2, <1>3, <3>1, <3>2 DEF Held
  <2>. QED BY <2>1, <2>2
<1>. QED BY <1>6, <1>7, <1>8, <1>9

LEMMA PutsInv ==
    ASSUME IInv, NEW a \in Admins, PutSettings(a) \/ PutRefused(a)
    PROVE  IInv'
<1>1. CASE PutSettings(a)
  <2>1. Put(a) /\ call' = Begun(a, "save") /\ saving' = "write" /\ op' = a /\ drift' = drift
        /\ faults' = faults
    BY <1>1 DEF PutSettings
  <2>2. drift' \in BOOLEAN /\ faults' \in 0 .. MaxFaults
    BY <2>1 DEF IInv, TypeOK
  <2>. QED BY <2>1, <2>2, PutInv
<1>2. CASE PutRefused(a)
  <2>1. Put(a) /\ call' = Begun(a, "idle") /\ saving' = saving /\ op' = op /\ drift' = TRUE
        /\ faults' = faults - 1 /\ faults > 0
    BY <1>2 DEF PutRefused
  <2>2. drift' \in BOOLEAN /\ faults' \in 0 .. MaxFaults
    BY <2>1 DEF IInv, TypeOK
  <2>. QED BY <2>1, <2>2, PutInv
<1>. QED BY <1>1, <1>2

\* The server stops.
LEMMA StopInv == IInv /\ (Stop \/ LuciSave) => IInv'
<1>. SUFFICES ASSUME IInv, Stop \/ LuciSave PROVE IInv'
  OBVIOUS
<1>. USE DEF IInv
<1>1. PICK p \in {"stopped", "down"} : Ended(p)
  BY DEF Stop, LuciSave
<1>2. /\ pc' \in {"stopped", "down"} /\ saving' = "no" /\ hub' = hub
      /\ call' = [a \in Admins |-> Idle]
  BY <1>1 DEF Ended
<1>3. /\ file' = file /\ mem' = mem /\ op' = op /\ mode' = mode /\ made' = made
      /\ confirmed' = confirmed /\ raced' = raced /\ puts' = puts /\ faults' = faults
      /\ OnFile' = OnFile
  BY DEF Stop, LuciSave, OnFile, Devices
<1>4. last' \in Tokens \cup {Blank}
  BY DEF Stop, LuciSave, TypeOK, Content
<1>5. uci' \in Uci
  <2>1. CASE Stop
    BY <2>1 DEF Stop, TypeOK
  <2>2. CASE LuciSave
    <3>1. PICK t \in UciTokens, h \in {uci.hashed, FALSE} :
             uci' = [uci EXCEPT !.token = t, !.hashed = h]
      BY <2>2 DEF LuciSave
    <3>. QED BY <3>1 DEF TypeOK, Uci
  <2>. QED BY <2>1, <2>2
<1>6. drift' \in BOOLEAN
  BY DEF Stop, LuciSave, TypeOK, Quiet
<1>7. stops' \in 0 .. MaxStops
  <2>1. stops' = stops - 1 /\ stops > 0
    BY DEF Stop, LuciSave
  <2>. QED BY <2>1 DEF TypeOK
<1>8. call' \in [Admins -> Call] /\ \A a \in Admins : call'[a].pc = "idle"
  BY <1>2, IdleFacts
<1>9. TypeOK'
  BY <1>2, <1>3, <1>4, <1>5, <1>6, <1>7, <1>8 DEF TypeOK
<1>10. Migrated' /\ Ordered'
  BY <1>2, <1>3 DEF Migrated, Ordered, Running
<1>. QED BY <1>8, <1>9, <1>10, NoneHeld

\* What follows the save of a PUT: its own state changes, and UCI's, the file's
\* or the hub's.
LEMMA MirrorInv == ASSUME IInv, NEW a \in Admins, Mirror(a) PROVE IInv'
<1>. USE DEF IInv
<1>1. /\ file' = file /\ mem' = mem /\ saving' = saving /\ op' = op /\ pc' = pc /\ hub' = hub
      /\ mode' = mode /\ last' = last /\ made' = made
      /\ confirmed' = confirmed /\ raced' = raced /\ puts' = puts /\ stops' = stops
      /\ OnFile' = OnFile /\ pc = "serving" /\ call[a].pc = "mirror"
  BY DEF Mirror, At, diskVars, serverVars, OnFile, Devices
<1>. DEFINE st == [token |-> mem.token, hashed |-> TRUE]
<1>2. st \in Uci /\ st.hashed
  BY DEF TypeOK, Content, Uci
<1>3. uci' \in Uci /\ (uci.hashed => uci'.hashed)
  <2>1. [uci EXCEPT !.token = st.token] \in Uci
        /\ [uci EXCEPT !.token = st.token].hashed = uci.hashed
    BY <1>2 DEF TypeOK, Uci
  <2>2. uci' = st \/ uci' = uci \/ uci' = [uci EXCEPT !.token = st.token]
    BY DEF Mirror
  <2>3. uci \in Uci
    BY DEF TypeOK
  <2>. HIDE DEF st
  <2>. QED BY <1>2, <2>1, <2>2, <2>3
<1>4. \/ uci' = st /\ Goes(a, "read") /\ drift' = drift /\ faults' = faults
      \/ call' = [call EXCEPT ![a] = Idle] /\ drift' = TRUE /\ faults' = faults - 1 /\ faults > 0
  BY DEF Mirror
<1>5. /\ call' \in [Admins -> Call] /\ \A b \in Admins \ {a} : call'[b] = call[b]
      /\ (call'[a].pc = "read" /\ uci' = st) \/ call'[a].pc = "idle"
  BY <1>4, GoesFacts, IdleFacts, StepOfCall DEF Goes, TypeOK
<1>. HIDE DEF st
<1>6. drift' \in BOOLEAN /\ faults' \in 0 .. MaxFaults
  <2>1. drift' \in BOOLEAN
    BY <1>4 DEF TypeOK
  <2>2. faults' \in 0 .. MaxFaults
    <3>1. faults' = faults \/ (faults' = faults - 1 /\ faults > 0)
      BY <1>4
    <3>. QED BY <3>1 DEF TypeOK
  <2>. QED BY <2>1, <2>2
<1>7. TypeOK' /\ Migrated' /\ Ordered'
  BY <1>1, <1>3, <1>5, <1>6 DEF TypeOK, Migrated, Ordered, Running
<1>8. ASSUME NEW b \in Admins PROVE Held(b)'
  BY <1>1, <1>2, <1>3, <1>5 DEF Held
<1>. QED BY <1>7, <1>8

LEMMA SyncReadInv == ASSUME IInv, NEW a \in Admins, SyncRead(a) PROVE IInv'
<1>. USE DEF IInv
<1>1. /\ UNCHANGED <<file, mem, saving, op, pc, hub, mode, uci, last, made,
                     confirmed, drift, raced, puts, faults, stops>>
      /\ OnFile' = OnFile /\ pc = "serving" /\ call[a].pc = "read"
  BY DEF SyncRead, At, diskVars, serverVars, history, bounds, OnFile, Devices
<1>2. file \in Content \cup {Absent} /\ uci \in Uci /\ uci.hashed /\ call \in [Admins -> Call]
  BY <1>1 DEF TypeOK, Migrated, Held
<1>3. Synced(file, uci) \in Content /\ Synced(file, uci).hashed
      /\ Synced(file, uci).dev = OnFile
  BY <1>2, SyncKeeps DEF OnFile
<1>4. /\ call' \in [Admins -> Call] /\ \A b \in Admins \ {a} : call'[b] = call[b]
      /\ \/ call'[a].pc = "move" /\ call'[a].new = Synced(file, uci)
         \/ call'[a].pc = "snapshot"
  <2>1. CASE call' = [call EXCEPT ![a].pc = "move", ![a].new = Synced(file, uci)]
    <3>. HIDE DEF Synced
    <3>. QED BY <1>2, <1>3, <2>1, MovingFacts
  <2>2. CASE Goes(a, "snapshot")
    BY <1>2, <2>2, GoesFacts DEF Goes
  <2>. QED BY <2>1, <2>2 DEF SyncRead
<1>5. TypeOK' /\ Migrated' /\ Ordered'
  BY <1>1, <1>4 DEF TypeOK, Migrated, Ordered, Running
<1>6. OnFile <= mem.dev
  BY <1>1 DEF Ordered, Running
<1>7. ASSUME NEW b \in Admins PROVE Held(b)'
  BY <1>1, <1>3, <1>4, <1>6 DEF Held
<1>. QED BY <1>5, <1>7

LEMMA SyncMoveInv == ASSUME IInv, NEW a \in Admins, SyncMove(a) PROVE IInv'
<1>. USE DEF IInv
<1>1. /\ UNCHANGED <<mem, saving, op, pc, hub, mode, uci, last, made,
                     confirmed, drift, raced, puts, faults, stops>>
      /\ pc = "serving" /\ call[a].pc = "move" /\ file' = call[a].new
  BY DEF SyncMove, At, serverVars, history, bounds
<1>2. /\ file' \in Content /\ file'.hashed /\ file'.dev <= mem.dev /\ mode = "writeback"
      /\ (raced \/ file'.dev = OnFile) /\ OnFile' = file'.dev /\ file'.dev \in Nat
  BY <1>1 DEF Held, OnFile, Devices, Content
<1>3. /\ call' \in [Admins -> Call] /\ \A b \in Admins \ {a} : call'[b] = call[b]
      /\ call'[a].pc = "snapshot"
  <2>1. call' = [call EXCEPT ![a].pc = "snapshot", ![a].new = Absent] /\ call \in [Admins -> Call]
    BY DEF SyncMove, TypeOK
  <2>. QED BY <2>1, MovedFacts
<1>4. TypeOK' /\ Migrated'
  BY <1>1, <1>2, <1>3 DEF TypeOK, Migrated, Running
<1>5. Ordered'
  <2>1. mem.dev <= made /\ mem.dev \in Nat /\ made \in Nat
    BY <1>1 DEF Ordered, Running, TypeOK, Content
  <2>. QED BY <1>1, <1>2, <2>1 DEF Ordered, Running
<1>6. ASSUME NEW b \in Admins PROVE Held(b)'
  BY <1>1, <1>2, <1>3 DEF Held
<1>. QED BY <1>4, <1>5, <1>6

LEMMA HubInv == ASSUME IInv, NEW a \in Admins, Snapshot(a) \/ SetToken(a) PROVE IInv'
<1>. USE DEF IInv
<1>1. /\ UNCHANGED <<file, mem, saving, op, pc, mode, uci, last, made,
                     confirmed, raced, puts, faults, stops>>
      /\ OnFile' = OnFile /\ pc = "serving"
  BY DEF Snapshot, SetToken, At, diskVars, serverVars, history, bounds, OnFile, Devices
<1>2. mem.token \in Tokens /\ call \in [Admins -> Call]
  BY <1>1 DEF Migrated, TypeOK
<1>3. /\ call' \in [Admins -> Call] /\ \A b \in Admins \ {a} : call'[b] = call[b]
      /\ (call'[a].pc = "set" /\ call'[a].token \in Tokens) \/ call'[a].pc = "idle"
  BY <1>2, SeenFacts, IdleFacts, StepOfCall DEF Snapshot, SetToken
<1>4. hub' \in Tokens /\ drift' \in BOOLEAN
  <2>1. CASE Snapshot(a)
    BY <1>1, <2>1 DEF Snapshot, serverVars, history, Migrated, TypeOK
  <2>2. CASE SetToken(a)
    BY <2>2 DEF SetToken, At, Held, TypeOK, Call
  <2>. QED BY <2>1, <2>2
<1>5. TypeOK' /\ Migrated' /\ Ordered'
  BY <1>1, <1>3, <1>4 DEF TypeOK, Migrated, Ordered, Running
<1>6. ASSUME NEW b \in Admins PROVE Held(b)'
  BY <1>1, <1>3 DEF Held
<1>. QED BY <1>5, <1>6

LEMMA StepInv == IInv /\ [Next]_vars => IInv'
<1>. SUFFICES ASSUME IInv, [Next]_vars PROVE IInv'
  OBVIOUS
<1>1. CASE Starting
  BY <1>1, StartInv, ChangeInv DEF Starting
<1>2. CASE Write
  <2>1. TypeOK' /\ Migrated' /\ Ordered'
    BY <1>2 DEF Write, IInv, serverVars, history, bounds, TypeOK, Migrated, Ordered, Running, OnFile,
                Devices
  <2>2. \A a \in Admins : Held(a)'
    BY <1>2 DEF Write, IInv, serverVars, history, Held, OnFile, Devices
  <2>. QED BY <2>1, <2>2 DEF IInv
<1>3. CASE Rename
  <2>1. /\ Over(TRUE) /\ saving # "no" /\ file' = mem /\ faults' \in 0 .. MaxFaults
        /\ raced' = (raced \/ \E a \in Admins : call[a].pc = "move")
    BY <1>3 DEF Rename, IInv, TypeOK
  <2>. QED BY <2>1, OverInv
<1>4. CASE SaveFails
  <2>1. faults' \in 0 .. MaxFaults
    BY <1>4 DEF SaveFails, IInv, TypeOK
  <2>2. Over(FALSE) /\ saving # "no" /\ file' = file /\ raced' = raced /\ raced \in BOOLEAN
    BY <1>4 DEF SaveFails, IInv, TypeOK
  <2>. QED BY <2>1, <2>2, OverInv
<1>5. CASE Change
  BY <1>5, ChangeInv
<1>6. CASE Stop \/ LuciSave
  BY <1>6, StopInv
<1>7. CASE \E a \in Admins : PutSettings(a) \/ PutRefused(a) \/ Propagating(a)
  <2>1. PICK a \in Admins : PutSettings(a) \/ PutRefused(a) \/ Propagating(a)
    BY <1>7
  <2>. QED BY <2>1, PutsInv, MirrorInv, SyncReadInv, SyncMoveInv, HubInv DEF Propagating
<1>8. CASE UNCHANGED vars
  <2>1. TypeOK' /\ Migrated' /\ Ordered'
    BY <1>8 DEF vars, IInv, diskVars, serverVars, history, bounds, TypeOK, Migrated, Ordered, Running,
                OnFile, Devices
  <2>2. \A a \in Admins : Held(a)'
    BY <1>8 DEF vars, IInv, diskVars, serverVars, history, Held, OnFile, Devices
  <2>. QED BY <2>1, <2>2 DEF IInv
<1>. QED BY <1>1, <1>2, <1>3, <1>4, <1>5, <1>6, <1>7, <1>8 DEF Next, Saving

-----------------------------------------------------------------------------
(* Where the token is.                                                     *)

LEMMA InitInForce == Init => InForce /\ \A a \in Admins : Alone(a)
<1>. SUFFICES ASSUME Init PROVE InForce /\ \A a \in Admins : Alone(a)
  OBVIOUS
<1>1. \A a \in Admins : ~call[a].alone
  BY IdleFacts DEF Init
<1>2. \A a \in Admins : Alone(a)
  BY <1>1 DEF Alone
<1>. QED BY <1>2 DEF Init, InForce

\* No PUT runs by itself where none is under way.
LEMMA NoneAlone ==
    ASSUME \A a \in Admins : Alone(a), \A a \in Admins : call[a].pc = "idle", call' = call
    PROVE  \A a \in Admins : Alone(a)'
BY DEF Alone

\* A PUT that ends or goes on while others are under way.
LEMMA AloneOthers ==
    ASSUME NEW a \in Admins, call[a].pc # "idle",
           NEW b \in Admins \ {a}, Alone(b), call'[b] = call[b]
    PROVE  ~call'[b].alone
BY DEF Alone

LEMMA StartInForce ==
    ASSUME SInv, IInv', Starting
    PROVE  InForce' /\ \A a \in Admins : Alone(a)'
<1>. USE DEF SInv, IInv
<1>1. call' = call /\ pc # "serving"
  BY DEF Starting, StartService, Open, Flag, EnsureClientToken
<1>2. \A a \in Admins : Alone(a)'
  BY <1>1, NoneAlone, NoneBefore
<1>3. CASE StartService
  <2>1. file \in Content \cup {Absent} /\ uci \in Uci
    BY DEF TypeOK, Migrated
  <2>2. mode = "writeback" => file' = Synced(file, uci)
    BY <1>3 DEF StartService
  <2>3. mode = "writeback" => file' \in Content /\ file'.token = uci.token
    BY <2>1, <2>2, SyncKeeps
  <2>4. pc' = "down" /\ mode' = mode /\ uci' = uci
    BY <1>3 DEF StartService, StaysBelow
  <2>. QED BY <1>2, <2>3, <2>4 DEF InForce
<1>4. CASE Open
  <2>1. mem'.token = (IF file = Absent THEN Blank ELSE file.token)
    BY <1>4, MigrateFacts DEF Open, Opened, TypeOK, Default
  <2>2. mem' = file => mem'.token = file.token
    OBVIOUS
  <2>3. /\ file' = file /\ mode' = mode /\ uci' = uci /\ drift' = drift /\ pc = "down"
        /\ \/ pc' = "flag" /\ mem' = file
           \/ pc' = "open"
    BY <1>4 DEF Open, StaysBelow, history
  <2>. QED BY <1>2, <2>1, <2>2, <2>3 DEF InForce
<1>5. CASE Flag
  BY <1>2, <1>5 DEF Flag, StaysBelow, serverVars, history, InForce
<1>6. CASE EnsureClientToken
  <2>1. CASE mem.token # Blank
    BY <1>2, <1>6, <2>1 DEF EnsureClientToken, Serve, history, InForce, Settled
  <2>2. CASE mem.token = Blank
    BY <1>2, <1>6, <2>2 DEF EnsureClientToken, serverVars, history, InForce
  <2>. QED BY <2>1, <2>2
<1>. QED BY <1>3, <1>4, <1>5, <1>6 DEF Starting

LEMMA OverInForce ==
    ASSUME SInv, saving # "no", NEW ok \in BOOLEAN, Over(ok),
           file' = IF ok THEN mem ELSE file
    PROVE  InForce' /\ \A a \in Admins : Alone(a)'
<1>. USE DEF SInv, IInv
<1>1. /\ mem' = mem /\ mode' = mode /\ uci' = uci /\ op' = op /\ saving' = "no"
      /\ pc # "stopped" /\ pc # "down"
  BY DEF Over, Migrated, Running
<1>2. drift' = (drift \/ (~ok /\ (pc = "ensure" \/ (pc = "serving" /\ op # NoAdmin))))
  BY DEF Over
<1>3. CASE pc # "serving"
  <2>1. call' = call
    BY <1>3 DEF Over
  <2>2. \A a \in Admins : Alone(a)'
    BY <1>3, <2>1, NoneAlone, NoneBefore
  <2>3. CASE pc = "open"
    <3>1. pc' = IF ok THEN "flag" ELSE "down"
      BY <2>3 DEF Over, StaysBelow
    <3>2. (~drift') => ~drift
      BY <1>2
    <3>. QED BY <1>1, <2>2, <2>3, <3>1, <3>2 DEF InForce, Migrated, TypeOK
  <2>4. CASE pc = "flag"
    <3>1. pc' = "ensure"
      BY <2>4 DEF Over, StaysBelow
    <3>2. (~drift') => ~drift
      BY <1>2
    <3>. QED BY <1>1, <2>2, <2>4, <3>1, <3>2 DEF InForce, Migrated, TypeOK
  <2>5. CASE pc = "ensure"
    BY <1>1, <1>2, <2>2, <2>5 DEF Over, Serve, InForce, Settled
  <2>. QED BY <1>1, <1>3, <2>3, <2>4, <2>5 DEF TypeOK
<1>4. CASE pc = "serving" /\ op = NoAdmin
  <2>1. call' = call /\ pc' = pc /\ hub' = hub /\ drift' = drift
    BY <1>4 DEF Over, serverVars, TypeOK
  <2>2. file.token = mem.token => file'.token = mem'.token
    BY <1>1
  <2>3. ASSUME NEW a \in Admins PROVE Alone(a)'
    BY <1>1, <2>1, <2>2 DEF Alone
  <2>4. Quiet' = Quiet
    BY <2>1 DEF Quiet
  <2>. QED BY <1>1, <1>4, <2>1, <2>2, <2>3, <2>4 DEF InForce, Settled
<1>5. CASE pc = "serving" /\ op # NoAdmin
  <2>1. op \in Admins /\ call[op].pc = "save" /\ pc' = pc
    BY <1>5 DEF TypeOK, InForce, Over, serverVars
  <2>2. \A b \in Admins \ {op} : call'[b] = call[b]
    BY OverCalls
  <2>3. \A b \in Admins \ {op} : Alone(b)'
    BY <2>1, <2>2, AloneOthers DEF Alone
  <2>4. CASE ok
    <3>1. /\ call'[op].pc = IF mode = "writeback" THEN "mirror" ELSE "snapshot"
          /\ call'[op].alone = call[op].alone
      BY <1>5, <2>1, <2>4, OverCalls, IdleFacts
    <3>2. Alone(op)'
      BY <1>1, <2>1, <2>2, <2>4, <3>1 DEF Alone
    <3>3. ~Quiet'
      BY <2>1, <3>1 DEF Quiet
    <3>. QED BY <1>1, <1>5, <2>1, <2>3, <3>2, <3>3 DEF InForce
  <2>5. CASE ~ok
    <3>1. call'[op] = Idle
      BY <1>5, <2>1, <2>5, OverCalls
    <3>2. Alone(op)'
      BY <1>1, <3>1, IdleFacts DEF Alone
    <3>. QED BY <1>1, <1>2, <1>5, <2>1, <2>3, <2>5, <3>2 DEF InForce
  <2>. QED BY <2>4, <2>5
<1>. QED BY <1>3, <1>4, <1>5

LEMMA ChangeInForce ==
    ASSUME SInv, Change
    PROVE  InForce' /\ \A a \in Admins : Alone(a)'
<1>. USE DEF SInv, IInv
<1>1. mem'.token = mem.token
  BY ChangeFacts DEF Change, TypeOK
<1>2. /\ UNCHANGED <<file, pc, hub, call, mode, uci, drift>> /\ op' = NoAdmin
      /\ pc = "serving"
  BY DEF Change, serverVars
<1>3. \A a \in Admins : Alone(a)'
  BY <1>1, <1>2 DEF Alone
<1>4. Quiet' = Quiet
  BY <1>2 DEF Quiet
<1>. QED BY <1>1, <1>2, <1>3, <1>4 DEF InForce, Settled

LEMMA PutInForce ==
    ASSUME SInv, NEW a \in Admins, PutSettings(a) \/ PutRefused(a)
    PROVE  InForce' /\ \A b \in Admins : Alone(b)'
<1>. USE DEF SInv, IInv
<1>0. call \in [Admins -> Call] /\ pc' = "serving" /\ saving = "no"
  BY DEF TypeOK, PutSettings, PutRefused, Put, serverVars
<1>1. CASE PutSettings(a)
  <2>1. call' = Begun(a, "save") /\ op' = a
    BY <1>1 DEF PutSettings
  <2>2. /\ call'[a].pc = "save" /\ \A b \in Admins \ {a} : ~call'[b].alone
        /\ \A b \in Admins \ {a} : call'[b].pc = call[b].pc
        /\ call'[a].alone => \A b \in Admins \ {a} : call[b].pc = "idle"
    BY <1>0, <2>1, BegunFacts
  <2>3. \A b \in Admins : Alone(b)'
    BY <2>2 DEF Alone
  <2>4. ~Quiet'
    BY <2>2 DEF Quiet
  <2>. QED BY <1>0, <2>1, <2>2, <2>3, <2>4 DEF InForce
<1>2. CASE PutRefused(a)
  <2>1. call' = Begun(a, "idle") /\ saving' = saving /\ drift' = TRUE
    BY <1>2 DEF PutRefused
  <2>2. \A b \in Admins : ~call'[b].alone
    BY <1>0, <2>1, BegunFacts
  <2>3. \A b \in Admins : Alone(b)'
    BY <2>2 DEF Alone
  <2>. QED BY <1>0, <2>1, <2>3 DEF InForce
<1>. QED BY <1>1, <1>2

LEMMA PropagatingInForce ==
    ASSUME SInv, NEW a \in Admins, Propagating(a)
    PROVE  InForce' /\ \A b \in Admins : Alone(b)'
<1>. USE DEF SInv, IInv
<1>0. call \in [Admins -> Call] /\ uci \in Uci /\ mem \in Content
  BY DEF TypeOK
<1>1. /\ mem' = mem /\ mode' = mode /\ pc' = pc /\ saving' = saving /\ op' = op
      /\ pc = "serving" /\ call[a].pc \notin {"idle", "save"}
  BY DEF Propagating, Mirror, SyncRead, SyncMove, Snapshot, SetToken, At, diskVars, serverVars
<1>2. call[a].pc \in {"mirror", "read", "move"} => mode = "writeback"
  BY DEF Held
\* It is a that goes on, or ends.
<1>3. /\ \A b \in Admins \ {a} : call'[b] = call[b]
      /\ \/ call'[a].pc \in {"read", "move", "snapshot", "set"} /\ drift' = drift
         \/ call'[a] = Idle
  <2>1. CASE Mirror(a)
    BY <1>0, <2>1, GoesFacts, StepOfCall, IdleFacts DEF Mirror, Goes
  <2>2. CASE SyncRead(a)
    <3>1. Synced(file, uci) \in Content
      BY <1>0, SyncKeeps DEF TypeOK, Migrated
    <3>2. CASE Goes(a, "snapshot")
      BY <1>0, <2>2, <3>2, GoesFacts DEF SyncRead, Goes, history
    <3>3. CASE call' = [call EXCEPT ![a].pc = "move", ![a].new = Synced(file, uci)]
      <4>. HIDE DEF Synced
      <4>. QED BY <1>0, <2>2, <3>1, <3>3, MovingFacts DEF SyncRead, history
    <3>. QED BY <2>2, <3>2, <3>3 DEF SyncRead
  <2>3. CASE SyncMove(a)
    <3>1. call' = [call EXCEPT ![a].pc = "snapshot", ![a].new = Absent]
      BY <2>3 DEF SyncMove
    <3>. QED BY <1>0, <2>3, <3>1, MovedFacts DEF SyncMove, history
  <2>4. CASE Snapshot(a)
    <3>1. call' = [call EXCEPT ![a].pc = "set", ![a].token = mem.token]
      BY <2>4 DEF Snapshot
    <3>2. mem.token \in Tokens \cup {Blank}
      BY <1>0 DEF Content
    <3>. QED BY <1>0, <2>4, <3>1, <3>2, SeenFacts DEF Snapshot, history
  <2>5. CASE SetToken(a)
    BY <1>0, <2>5, StepOfCall, IdleFacts DEF SetToken
  <2>. QED BY <2>1, <2>2, <2>3, <2>4, <2>5 DEF Propagating
<1>4. \A b \in Admins \ {a} : Alone(b)'
  <2>. SUFFICES ASSUME NEW b \in Admins \ {a} PROVE Alone(b)'
    OBVIOUS
  <2>1. ~call'[b].alone
    BY <1>1, <1>3, AloneOthers
  <2>. QED BY <2>1 DEF Alone
<1>5. (pc' = "serving" /\ saving' # "no" /\ op' # NoAdmin) => call'[op'].pc = "save"
  BY <1>1, <1>3 DEF InForce, TypeOK
<1>6. CASE call'[a] = Idle
  <2>1. Alone(a)'
    BY <1>6, IdleFacts DEF Alone
  <2>2. ~drift' => SetToken(a) /\ call[a].alone
    <3>1. CASE Mirror(a)
      BY <1>0, <1>6, <3>1, GoesFacts, IdleFacts DEF Mirror, Goes
    <3>2. CASE SyncRead(a)
      <4>1. Synced(file, uci) \in Content
        BY <1>0, SyncKeeps DEF TypeOK, Migrated
      <4>2. CASE Goes(a, "snapshot")
        BY <1>0, <1>6, <4>2, GoesFacts, IdleFacts DEF Goes
      <4>3. CASE call' = [call EXCEPT ![a].pc = "move", ![a].new = Synced(file, uci)]
        <5>. HIDE DEF Synced
        <5>. QED BY <1>0, <1>6, <4>1, <4>3, MovingFacts, IdleFacts
      <4>. QED BY <3>2, <4>2, <4>3 DEF SyncRead
    <3>3. CASE SyncMove(a)
      <4>1. call' = [call EXCEPT ![a].pc = "snapshot", ![a].new = Absent]
        BY <3>3 DEF SyncMove
      <4>. QED BY <1>0, <1>6, <4>1, MovedFacts, IdleFacts
    <3>4. CASE Snapshot(a)
      <4>1. call' = [call EXCEPT ![a].pc = "set", ![a].token = mem.token]
        BY <3>4 DEF Snapshot
      <4>2. mem.token \in Tokens \cup {Blank}
        BY <1>0 DEF Content
      <4>. QED BY <1>0, <1>6, <4>1, <4>2, SeenFacts, IdleFacts
    <3>5. CASE SetToken(a)
      BY <3>5 DEF SetToken
    <3>. QED BY <3>1, <3>2, <3>3, <3>4, <3>5 DEF Propagating
  <2>3. ~drift' => Settled'
    <3>. SUFFICES ASSUME ~drift' PROVE Settled'
      OBVIOUS
    <3>1. /\ hub' = call[a].token /\ call[a].pc = "set" /\ call[a].alone
          /\ file' = file /\ uci' = uci
      BY <2>2 DEF SetToken, At, diskVars
    <3>. QED BY <1>1, <3>1 DEF Alone, Settled
  <2>. QED BY <1>1, <1>4, <1>5, <2>1, <2>3 DEF InForce
<1>7. CASE call'[a].pc \in {"read", "move", "snapshot", "set"} /\ drift' = drift
  <2>1. ~Quiet'
    BY <1>7 DEF Quiet
  <2>2. Alone(a)'
    <3>0. Alone(a)
      OBVIOUS
    <3>1. CASE Mirror(a)
      <4>1. /\ uci' = [token |-> mem.token, hashed |-> TRUE]
            /\ call' = [call EXCEPT ![a].pc = "read"] /\ file' = file
        BY <1>0, <1>7, <3>1, StepOfCall, IdleFacts DEF Mirror, Goes, diskVars
      <4>2. call'[a].pc = "read" /\ call'[a].alone = call[a].alone /\ uci'.token = mem.token
        BY <1>0, <4>1, GoesFacts
      <4>3. call[a].pc = "mirror"
        BY <3>1 DEF Mirror, At
      <4>. HIDE DEF SInv, IInv
      <4>. QED BY <1>1, <1>3, <3>0, <4>1, <4>2, <4>3 DEF Alone
    <3>2. CASE SyncRead(a)
      <4>1. file \in Content \cup {Absent}
        BY DEF TypeOK, Migrated
      <4>2. Synced(file, uci) \in Content /\ Synced(file, uci).token = uci.token
        BY <1>0, <4>1, SyncKeeps
      <4>3. file' = file /\ uci' = uci /\ call[a].pc = "read"
        BY <3>2 DEF SyncRead, diskVars, At
      <4>4. CASE Goes(a, "snapshot")
        <5>1. call'[a].pc = "snapshot" /\ call'[a].alone = call[a].alone
          BY <1>0, <4>4, GoesFacts DEF Goes
        <5>. HIDE DEF SInv, IInv
        <5>. QED BY <1>1, <1>3, <3>0, <4>3, <5>1 DEF Alone
      <4>5. CASE call' = [call EXCEPT ![a].pc = "move", ![a].new = Synced(file, uci)]
        <5>. HIDE DEF Synced
        <5>1. /\ call'[a].pc = "move" /\ call'[a].alone = call[a].alone
              /\ call'[a].new = Synced(file, uci)
          BY <1>0, <4>2, <4>5, MovingFacts
        <5>2. call'[a].new.token = uci.token
          BY <4>2, <5>1
        <5>3. call[a].alone => uci.token = mem.token /\ \A b \in Admins \ {a} : call[b].pc = "idle"
          BY <1>2, <3>0, <4>3 DEF Alone
        <5>. HIDE DEF SInv, IInv
        <5>. QED BY <1>1, <1>3, <4>3, <5>1, <5>2, <5>3 DEF Alone
      <4>. QED BY <3>2, <4>4, <4>5 DEF SyncRead
    <3>3. CASE SyncMove(a)
      <4>1. /\ call' = [call EXCEPT ![a].pc = "snapshot", ![a].new = Absent]
            /\ file' = call[a].new /\ uci' = uci /\ call[a].pc = "move"
        BY <3>3 DEF SyncMove, At
      <4>2. call'[a].pc = "snapshot" /\ call'[a].alone = call[a].alone
        BY <1>0, <4>1, MovedFacts
      <4>. HIDE DEF SInv, IInv
      <4>. QED BY <1>1, <1>3, <3>0, <4>1, <4>2 DEF Alone
    <3>4. CASE Snapshot(a)
      <4>1. /\ call' = [call EXCEPT ![a].pc = "set", ![a].token = mem.token]
            /\ file' = file /\ uci' = uci /\ call[a].pc = "snapshot"
        BY <3>4 DEF Snapshot, At, diskVars
      <4>2. mem.token \in Tokens \cup {Blank}
        BY <1>0 DEF Content
      <4>3. call'[a].pc = "set" /\ call'[a].alone = call[a].alone /\ call'[a].token = mem.token
        BY <1>0, <4>1, <4>2, SeenFacts
      <4>. HIDE DEF SInv, IInv
      <4>. QED BY <1>1, <1>3, <3>0, <4>1, <4>3 DEF Alone
    <3>5. CASE SetToken(a)
      BY <1>0, <1>7, <3>5, StepOfCall, IdleFacts DEF SetToken
    <3>. QED BY <3>1, <3>2, <3>3, <3>4, <3>5 DEF Propagating
  <2>. QED BY <1>1, <1>4, <1>5, <2>1, <2>2 DEF InForce
<1>. QED BY <1>3, <1>6, <1>7

LEMMA StopInForce ==
    ASSUME SInv, IInv', Stop \/ LuciSave
    PROVE  InForce' /\ \A a \in Admins : Alone(a)'
<1>. USE DEF SInv, IInv
<1>1. PICK p \in {"stopped", "down"} : Ended(p) /\ (LuciSave => p = "stopped")
  BY DEF Stop, LuciSave
<1>2. pc' = p /\ saving' = "no" /\ call' = [a \in Admins |-> Idle]
  BY <1>1 DEF Ended
<1>3. \A a \in Admins : Alone(a)'
  BY <1>2, IdleFacts DEF Alone
<1>4. CASE p = "stopped"
  BY <1>2, <1>3, <1>4 DEF InForce
<1>5. CASE p = "down"
  <2>1. /\ Stop /\ file' = file /\ uci' = uci /\ mode' = mode
        /\ drift' = (mode = "writeback" /\ (drift \/ ~Quiet))
        /\ pc \in {"open", "flag", "ensure", "serving"}
    BY <1>1, <1>5 DEF Stop, LuciSave, TypeOK
  <2>2. (mode = "writeback" /\ ~drift' /\ uci.token # Blank) =>
            file # Absent /\ file.token = uci.token
    BY <2>1 DEF InForce, Settled, Migrated
  <2>. QED BY <1>2, <1>3, <1>5, <2>1, <2>2 DEF InForce
<1>. QED BY <1>1, <1>4, <1>5

LEMMA StepInForce == SInv /\ [Next]_vars => SInv'
<1>. SUFFICES ASSUME SInv, [Next]_vars PROVE SInv'
  OBVIOUS
<1>0. IInv'
  BY StepInv DEF SInv
<1>. SUFFICES InForce' /\ \A a \in Admins : Alone(a)'
  BY <1>0 DEF SInv
<1>1. CASE Starting
  BY <1>0, <1>1, StartInForce
<1>2. CASE Write
  BY <1>2 DEF SInv, Write, serverVars, history, InForce, Settled, Quiet, Alone
<1>3. CASE Rename
  BY <1>3, OverInForce DEF Rename
<1>4. CASE SaveFails
  BY <1>4, OverInForce DEF SaveFails
<1>5. CASE Change
  BY <1>5, ChangeInForce
<1>6. CASE Stop \/ LuciSave
  BY <1>0, <1>6, StopInForce
<1>7. CASE \E a \in Admins : PutSettings(a) \/ PutRefused(a) \/ Propagating(a)
  BY <1>7, PutInForce, PropagatingInForce
<1>8. CASE UNCHANGED vars
  BY <1>8 DEF SInv, vars, diskVars, serverVars, history, InForce, Settled, Quiet, Alone
<1>. QED BY <1>1, <1>2, <1>3, <1>4, <1>5, <1>6, <1>7, <1>8 DEF Next, Saving

-----------------------------------------------------------------------------
(* The token of the last stop.                                             *)

LEMMA StepRemembered ==
    ASSUME Blank \notin UciTokens
    PROVE  TInv /\ [Next]_vars => TInv'
<1>. SUFFICES ASSUME TInv, [Next]_vars PROVE Remembered'
  BY StepInv DEF TInv
<1>. USE DEF TInv, IInv
<1>0. mem \in Content /\ file \in Content \cup {Absent} /\ uci \in Uci
  BY DEF TypeOK, Migrated
<1>1. CASE StartService
  <2>1. file' = IF mode = "own" THEN file ELSE Synced(file, uci)
    BY <1>1 DEF StartService
  <2>2. mode # "own" => file' \in Content /\ file'.token = uci.token
    BY <1>0, <2>1, SyncKeeps
  <2>3. pc' = "down" /\ UNCHANGED <<mode, uci, last>> /\ pc = "stopped"
    BY <1>1 DEF StartService, StaysBelow
  <2>. QED BY <2>1, <2>2, <2>3 DEF Remembered, Running
<1>2. CASE Open
  <2>1. file # Absent => mem'.token = file.token
    BY <1>0, <1>2, MigrateFacts DEF Open, Opened
  <2>2. pc' \in {"flag", "open"} /\ pc = "down" /\ UNCHANGED <<file, mode, uci, last>>
    BY <1>2 DEF Open, StaysBelow, history
  <2>. QED BY <2>1, <2>2 DEF Remembered, Running
<1>3. CASE Flag
  BY <1>3 DEF Flag, StaysBelow, serverVars, history, Remembered, Running
<1>4. CASE EnsureClientToken
  <2>1. CASE mem.token # Blank
    BY <1>4, <2>1 DEF EnsureClientToken, Serve, history, Remembered, Running
  <2>2. CASE mem.token = Blank
    <3>1. mode # "readonly" /\ last = Blank /\ pc = "ensure"
      BY <1>4, <2>2 DEF EnsureClientToken, Remembered, Running
    <3>2. UNCHANGED <<file, pc, mode, uci, last>>
      BY <1>4, <2>2 DEF EnsureClientToken, serverVars, history
    <3>. QED BY <3>1, <3>2 DEF Remembered, Running
  <2>. QED BY <2>1, <2>2
<1>5. ASSUME NEW ok \in BOOLEAN, Over(ok), saving # "no", file' = IF ok THEN mem ELSE file
      PROVE  Remembered'
  <2>1. mem' = mem /\ UNCHANGED <<mode, uci, last>> /\ pc \notin {"stopped", "down"}
    BY <1>5 DEF Over, Migrated, Running
  <2>2. \/ pc = "open" /\ pc' = IF ok THEN "flag" ELSE "down"
        \/ pc = "flag" /\ pc' = "ensure"
        \/ pc \in {"ensure", "serving"} /\ pc' = "serving"
    BY <1>5 DEF Over, StaysBelow, Serve, serverVars
  <2>3. mode = "readonly" => file' # Absent /\ file'.token = uci.token
    BY <1>0, <1>5, <2>1 DEF Remembered, Running
  <2>4. mode = "readonly" => mem.token = uci.token
    BY <2>1 DEF Remembered, Running
  <2>5. CASE pc = "open" /\ ok
    BY <2>1, <2>2, <2>3, <2>4, <2>5 DEF Remembered, Running
  <2>6. CASE pc = "open" /\ ~ok
    BY <1>5, <2>1, <2>2, <2>3, <2>4, <2>6 DEF Remembered, Running
  <2>7. CASE pc # "open"
    BY <2>1, <2>2, <2>3, <2>4, <2>7 DEF Remembered, Running
  <2>. QED BY <2>5, <2>6, <2>7
<1>6. CASE Rename
  BY <1>5, <1>6 DEF Rename
<1>7. CASE SaveFails
  BY <1>5, <1>7 DEF SaveFails
<1>8. CASE Change
  <2>1. mem'.token = mem.token
    BY <1>8, ChangeFacts DEF Change, TypeOK
  <2>. QED BY <1>8, <2>1 DEF Change, serverVars, Remembered, Running
<1>9. ASSUME NEW a \in Admins, PutSettings(a) \/ PutRefused(a) PROVE Remembered'
  <2>1. mode # "readonly" /\ pc = "serving" /\ UNCHANGED <<file, pc, mode, uci, last>>
    BY <1>9 DEF PutSettings, PutRefused, Put, serverVars
  <2>. QED BY <2>1 DEF Remembered, Running
<1>10. ASSUME NEW a \in Admins, Propagating(a) PROVE Remembered'
  <2>1. /\ pc = "serving" /\ UNCHANGED <<mem, pc, mode, last>>
        /\ \/ call[a].pc \in {"mirror", "read", "move"}
           \/ UNCHANGED <<file, uci>>
    BY <1>10 DEF Propagating, Mirror, SyncRead, SyncMove, Snapshot, SetToken, At, diskVars,
                 serverVars, history
  <2>2. call[a].pc \in {"mirror", "read", "move"} => mode = "writeback"
    BY DEF Held
  <2>3. uci'.token = uci.token \/ uci'.token = mem.token
    <3>1. CASE Mirror(a)
      <4>1. \/ uci' = [token |-> mem.token, hashed |-> TRUE]
            \/ uci' = uci
            \/ uci' = [uci EXCEPT !.token = mem.token]
        BY <3>1 DEF Mirror
      <4>. QED BY <1>0, <4>1 DEF Uci
    <3>2. CASE ~Mirror(a)
      BY <1>10, <3>2 DEF Propagating, SyncRead, SyncMove, Snapshot, SetToken
    <3>. QED BY <3>1, <3>2
  <2>4. mem.token # Blank
    BY <2>1 DEF Migrated
  <2>. QED BY <2>1, <2>2, <2>3, <2>4 DEF Remembered, Running
<1>11. CASE Stop
  <2>1. pc' \in {"stopped", "down"} /\ UNCHANGED <<file, mode, uci>> /\ pc # "stopped"
    BY <1>11 DEF Stop, Ended
  <2>2. last' # Blank => /\ file # Absent /\ last' = file.token
                         /\ mode = "writeback" => uci.token = file.token
    BY <1>11 DEF Stop
  <2>. QED BY <2>1, <2>2 DEF Remembered, Running, TypeOK, AllModes
<1>12. CASE LuciSave
  <2>1. PICK t \in UciTokens, h \in {uci.hashed, FALSE} :
           uci' = [uci EXCEPT !.token = t, !.hashed = h]
    BY <1>12 DEF LuciSave
  <2>2. uci'.token # Blank
    BY <1>0, <2>1 DEF Uci
  <2>. QED BY <1>12, <2>2 DEF LuciSave, Ended, Remembered, Running
<1>13. CASE Write \/ UNCHANGED vars
  BY <1>13 DEF Write, vars, diskVars, serverVars, history, Remembered, Running
<1>. QED BY <1>1, <1>2, <1>3, <1>4, <1>6, <1>7, <1>8, <1>9, <1>10, <1>11, <1>12, <1>13
        DEF Next, Starting, Saving

LEMMA InitRemembered == ASSUME Blank \notin UciTokens PROVE Init => Remembered
<1>. SUFFICES ASSUME Init PROVE Remembered
  OBVIOUS
<1>1. PICK t \in UciTokens : uci = [token |-> t, hashed |-> FALSE]
  BY DEF Init
<1>. QED BY <1>1 DEF Init, Remembered, Running

-----------------------------------------------------------------------------
\* The inductive invariants: types, what each stage of the start has migrated,
\* what the PUTs hold, and the age of file, memory and confirmed changes; where
\* the token in force is; and where that of the last stop is.
THEOREM Invariant == Spec => []IInv
BY InitInv, StepInv, PTL DEF Spec

THEOREM TokenInvariant == Spec => []SInv
<1>1. Init => SInv
  BY InitInv, InitInForce DEF SInv
<1>. QED BY <1>1, StepInForce, PTL DEF Spec

\* Types (store.go:75-109).
THEOREM TypeCorrect == Spec => []TypeOK
<1>1. IInv => TypeOK
  BY DEF IInv
<1>. QED BY <1>1, Invariant, PTL

\* A save that is cut off leaves a file that opens (store.go:688-692).
THEOREM NeverTorn == Spec => []FileOpens
<1>1. IInv => FileOpens
  BY DEF IInv, Migrated, FileOpens
<1>. QED BY <1>1, Invariant, PTL

\* No plain password is on disk while the server serves (store.go:174-187), even
\* after uci-sync has rewritten the file under it.
THEOREM Hashed == Spec => []ServesHashed
<1>1. IInv => ServesHashed
  BY DEF IInv, TypeOK, Migrated, ServesHashed
<1>. QED BY <1>1, Invariant, PTL

\* No order of PUTs, failed saves and propagations leaves the hub of a serving
\* server without a token (store.go:391, server.go:179).
THEOREM HubHasToken == Spec => []ServesWithToken
<1>1. IInv => ServesWithToken
  BY DEF IInv, Migrated, ServesWithToken
<1>. QED BY <1>1, Invariant, PTL

\* uci-sync loses a confirmed change only to a save it did not see
\* (wakehub-uci-sync:2, uci.go:60-66).
THEOREM OnlyARaceLoses == Spec => []LostOnlyToSync
<1>1. IInv => LostOnlyToSync
  <2>. SUFFICES ASSUME IInv, OnFile < confirmed, ~raced PROVE FALSE
    BY DEF LostOnlyToSync
  <2>1. OnFile \in Nat /\ confirmed \in Nat /\ confirmed <= OnFile
    BY DEF IInv, Ordered, TypeOK, OnFile, Devices, Content
  <2>. QED BY <2>1
<1>. QED BY <1>1, Invariant, PTL

\* A PUT that runs by itself and succeeds leaves hub, memory, file and UCI with
\* one token, whatever went wrong before it (server.go:176-225).
THEOREM PutHeals == Spec => []SettledInForce
<1>1. SInv => SettledInForce
  BY DEF SInv, InForce, Settled, SettledInForce
<1>. QED BY <1>1, TokenInvariant, PTL

\* The store implements Durable: confirmed changes survive whatever happens
\* (store.go:680-693).
THEOREM ConfirmedIsKept == Spec => KeepsPromises
<1>. DEFINE K == IF mode = "writeback" THEN 0 ELSE OnFile
            C == IF mode = "writeback" THEN 0 ELSE confirmed
<1>1. Init => Keeps!Init
  <2>. SUFFICES ASSUME Init PROVE OnFile = 0 /\ confirmed = 0
    BY DEF Keeps!Init
  <2>1. file \in Content \cup {Absent} /\ (file # Absent => file.dev = 0)
    BY DefaultFacts, LegacyFacts DEF Init
  <2>. QED BY <2>1 DEF Init, OnFile, Devices
<1>2. IInv /\ IInv' /\ [Next]_vars => [Keeps!Keep]_<<K, C>>
  <2>. SUFFICES ASSUME IInv, IInv', [Next]_vars
       PROVE  [Keeps!Keep]_<<K, C>>
    OBVIOUS
  <2>. USE DEF IInv
  <2>0. mode' = mode
    BY DEF Next, Starting, Saving, StartService, Open, Flag, EnsureClientToken, Write, Rename,
           Over, SaveFails, Change, Stop, LuciSave, PutSettings, PutRefused, Put, Propagating,
           Mirror, SyncRead, SyncMove, Snapshot, SetToken, vars
  <2>1. OnFile' \in Nat /\ OnFile \in Nat /\ (Running => mem.dev >= OnFile)
    BY DEF OnFile, Devices, TypeOK, Content, Ordered
  <2>2. CASE mode = "writeback"
    BY <2>0, <2>2
  <2>3. ASSUME mode # "writeback", OnFile' >= OnFile, confirmed' \in {confirmed, OnFile'}
        PROVE  [Keeps!Keep]_<<K, C>>
    BY <2>0, <2>1, <2>3 DEF Keeps!Keep
  <2>4. CASE mode # "writeback"
    <3>1. CASE Rename
      <4>1. OnFile' = mem.dev /\ Running /\ confirmed' \in {confirmed, mem.dev}
        BY <3>1 DEF Rename, Over, OnFile, Devices, Migrated, TypeOK
      <4>. QED BY <2>1, <2>3, <2>4, <4>1
    <3>2. CASE StartService
      <4>1. file \in Content \cup {Absent} /\ uci \in Uci
        BY DEF TypeOK, Migrated
      <4>2. file' = file \/ file' = Synced(file, uci)
        BY <3>2 DEF StartService
      <4>3. OnFile' = OnFile /\ confirmed' = confirmed
        BY <3>2, <4>1, <4>2, SyncKeeps DEF StartService, OnFile, Devices
      <4>. QED BY <2>1, <2>3, <2>4, <4>3
    <3>3. CASE SaveFails
      <4>1. OnFile' = OnFile /\ confirmed' = confirmed
        BY <3>3 DEF SaveFails, Over, OnFile, Devices
      <4>. QED BY <2>1, <2>3, <2>4, <4>1
    <3>4. CASE Open \/ Flag \/ EnsureClientToken \/ Write \/ Change \/ Stop \/ LuciSave
               \/ UNCHANGED vars
      <4>1. OnFile' = OnFile /\ confirmed' = confirmed
        BY <3>4 DEF Open, Flag, EnsureClientToken, Write, Change, Stop, LuciSave, vars,
                    diskVars, history, OnFile, Devices
      <4>. QED BY <2>1, <2>3, <2>4, <4>1
    <3>5. ASSUME NEW a \in Admins, PutSettings(a) \/ PutRefused(a) \/ Propagating(a)
          PROVE  [Keeps!Keep]_<<K, C>>
      <4>1. ~SyncMove(a)
        BY <2>4 DEF SyncMove, At, Held
      <4>2. OnFile' = OnFile /\ confirmed' = confirmed
        BY <3>5, <4>1 DEF PutSettings, PutRefused, Put, Propagating, Mirror, SyncRead, Snapshot,
                    SetToken, diskVars, history, OnFile, Devices
      <4>. QED BY <2>1, <2>3, <2>4, <4>2
    <3>. QED BY <3>1, <3>2, <3>3, <3>4, <3>5 DEF Next, Starting, Saving
  <2>. QED BY <2>2, <2>4
<1>. QED BY <1>1, <1>2, Invariant, PTL DEF Spec, KeepsPromises, Keeps!Spec

\* Where LuCI has a token, clients need no new one after a restart of the server,
\* whenever it stopped (store.go:391, wakehub-uci-sync:117).
THEOREM TokenSurvives ==
    ASSUME Blank \notin UciTokens PROVE Spec => TokenKept
<1>1. Init => TInv
  BY InitInv, InitRemembered DEF TInv
<1>2. TInv /\ [Next]_vars =>
        [pc # "serving" /\ pc' = "serving" /\ last # Blank => mem'.token = last]_vars
  <2>. SUFFICES ASSUME TInv, Next, pc # "serving", pc' = "serving", last # Blank
       PROVE  mem'.token = last
    OBVIOUS
  <2>. USE DEF TInv, IInv
  <2>1. pc = "ensure" => mem.token = last
    BY DEF Remembered
  <2>2. CASE EnsureClientToken
    BY <2>1, <2>2 DEF EnsureClientToken, serverVars
  <2>3. ASSUME NEW ok \in BOOLEAN, Over(ok) PROVE mem'.token = last
    BY <2>1, <2>3 DEF Over, StaysBelow
  <2>4. CASE Rename \/ SaveFails
    BY <2>3, <2>4 DEF Rename, SaveFails
  <2>5. CASE StartService \/ Open \/ Flag \/ Write \/ Change \/ Stop \/ LuciSave
    BY <2>5 DEF StartService, Open, Flag, Write, Change, Stop, LuciSave, Ended, StaysBelow,
                serverVars
  <2>6. ASSUME NEW a \in Admins, PutSettings(a) \/ PutRefused(a) \/ Propagating(a) PROVE FALSE
    BY <2>6 DEF PutSettings, PutRefused, Put, Propagating, Mirror, SyncRead, SyncMove, Snapshot,
                SetToken, At
  <2>. QED BY <2>2, <2>4, <2>5, <2>6 DEF Next, Starting, Saving
<1>. QED BY <1>1, <1>2, StepRemembered, PTL DEF Spec, TokenKept

=============================================================================
