----------------------------- MODULE ConfigStore -----------------------------
(***************************************************************************)
(* config.json over many lives of the server: what the store               *)
(* (internal/config/store.go) has in memory against what is on disk, saves *)
(* that fail at any step, a server stopped at any point of a save, the     *)
(* start of the server (cmd/server/main.go); the settings (internal/web    *)
(* server.go) on their way from a PUT to the hub, which has a copy of the  *)
(* token; and, on OpenWrt, the script that rewrites the file's settings    *)
(* before each start of the service and, in writeback mode, after each PUT *)
(* has been mirrored into UCI (internal/openwrt/uci.go).                   *)
(*                                                                         *)
(* The store's lock is held from a change until its save is over, so there *)
(* is at most one save under way and memory stays as it is meanwhile.      *)
(* What follows the save of a PUT runs without a lock, next to the other   *)
(* requests.                                                               *)
(*                                                                         *)
(* Devices, groups and schedules are reduced to the number of the last     *)
(* change made to them, the settings to the client token and whether the   *)
(* password is hashed.  The version and the presence of basicAuthEnable    *)
(* are one thing, whether a file is current.                               *)
(***************************************************************************)
EXTENDS Naturals

CONSTANTS
    Admins,      \* PUTs of the settings that may be under way at once
    NoAdmin,     \* what saves is a change of a device, or the start
    Tokens,      \* client tokens
    Blank,       \* the empty token
    Modes,       \* of the installations there are
    UciTokens,   \* what LuCI has for client_token
    Absent,      \* there is no file
    Torn,        \* there is half a file
    MaxChanges,  \* bound: changes to devices, groups and schedules
    MaxPuts,     \* bound: PUTs of the settings
    MaxFaults,   \* bound: saves and mirrorings that fail, PUTs refused
    MaxStops     \* bound: stops of the server

\* Not under OpenWrt; under LuCI, with the settings read-only in the web
\* interface; under LuCI, with PUTs written back (GlobalsWritable).
AllModes == {"own", "readonly", "writeback"}

ASSUME TokenAssumption == Blank \notin Tokens /\ UciTokens \subseteq Tokens \cup {Blank}
ASSUME SettingsAssumption ==
    Modes \subseteq AllModes /\ NoAdmin \notin Admins
ASSUME BoundAssumption ==
    MaxChanges \in Nat /\ MaxPuts \in Nat /\ MaxFaults \in Nat /\ MaxStops \in Nat

VARIABLES
    file,       \* config.json
    mem,        \* Store.data, while the server runs
    pc,         \* where the server is between "stopped" and "serving"
    saving,     \* which part of saveLocked is next
    op,         \* who is saving, while serving
    call,       \* the PUT each admin has under way
    hub,        \* the hub's token
    mode,       \* GlobalManagedByLuci and WebGlobalMode
    uci,        \* /etc/config/wakehub
    last,       \* history: the token on file when the server last stopped
    made,       \* history: changes made so far
    confirmed,  \* history: the last change that was answered with success
    drift,      \* history: a PUT failed or ran into another since the start,
                \* or the last that ran by itself
    raced,      \* history: something was saved while uci-sync was between
                \* its reading and its writing
    puts, faults, stops   \* what is left of the bounds

diskVars == <<file, mem, saving, op>>
serverVars == <<pc, hub>>
history == <<last, made, confirmed, drift, raced>>
bounds == <<puts, faults, stops>>
vars == <<diskVars, serverVars, call, mode, uci, history, bounds>>

Content == [dev : Nat, token : Tokens \cup {Blank}, hashed : BOOLEAN, current : BOOLEAN]
Uci == [token : Tokens \cup {Blank}, hashed : BOOLEAN]

ASSUME FileAssumption == Absent \notin Content /\ Torn \notin Content /\ Absent # Torn

Default == [dev |-> 0, token |-> Blank, hashed |-> TRUE, current |-> TRUE]
Legacy(t) == [dev |-> 0, token |-> t, hashed |-> FALSE, current |-> FALSE]

\* A PUT: how far it is, the token OnSettingsChanged has seen, the file uci-sync
\* is about to write, and whether no other PUT ran into it.
Idle == [pc |-> "idle", token |-> Blank, new |-> Absent, alone |-> FALSE]
Call == [pc : {"idle", "save", "mirror", "read", "move", "snapshot", "set"},
         token : Tokens \cup {Blank}, new : Content \cup {Absent}, alone : BOOLEAN]

Quiet == \A a \in Admins : call[a].pc = "idle"
Others(a) == \E b \in Admins \ {a} : call[b].pc # "idle"

-----------------------------------------------------------------------------
(* saveLocked: a temporary file is written and renamed.                    *)

\* The server goes on to serve: NewHub takes the token there is.
Serve == pc' = "serving" /\ hub' = mem.token
StaysBelow(p) == pc' = p /\ hub' = hub

\* Sensitivity variant of Over: a request whose save failed succeeds.
OverAlwaysOk(ok) ==
    /\ saving' = "no"
    /\ \/ pc = "open" /\ StaysBelow("flag")
       \/ pc = "flag" /\ StaysBelow("ensure")
       \/ pc = "ensure" /\ Serve
       \/ pc = "serving" /\ UNCHANGED serverVars
    /\ confirmed' = IF pc = "serving" /\ op = NoAdmin THEN mem.dev ELSE confirmed
    /\ call' = IF pc = "serving" /\ op # NoAdmin
               THEN [call EXCEPT ![op].pc = IF mode = "writeback" THEN "mirror" ELSE "snapshot"]
               ELSE call
    /\ UNCHANGED <<drift, mem, op, mode, uci, last, made, puts, stops>>

\* What follows a save.  Open gives up if it failed; the -listen flag and
\* EnsureClientToken go on regardless; a request is answered, but for a PUT of
\* the settings that was saved, which is mirrored into UCI and then propagated.
Over(ok) ==
    /\ saving' = "no"
    /\ \/ pc = "open" /\ StaysBelow(IF ok THEN "flag" ELSE "down")
       \/ pc = "flag" /\ StaysBelow("ensure")
       \/ pc = "ensure" /\ Serve
       \/ pc = "serving" /\ UNCHANGED serverVars
    /\ confirmed' = IF ok /\ pc = "serving" /\ op = NoAdmin THEN mem.dev ELSE confirmed
    /\ call' = IF pc = "serving" /\ op # NoAdmin
               THEN IF ok THEN [call EXCEPT ![op].pc =
                                   IF mode = "writeback" THEN "mirror" ELSE "snapshot"]
                          ELSE [call EXCEPT ![op] = Idle]
               ELSE call
    /\ drift' = (drift \/ (~ok /\ (pc = "ensure" \/ (pc = "serving" /\ op # NoAdmin))))
    /\ UNCHANGED <<mem, op, mode, uci, last, made, puts, stops>>

\* Sensitivity variant of Write: the file itself is overwritten.
WriteInPlace ==
    /\ saving = "write"
    /\ saving' = "rename"
    /\ file' = Torn
    /\ UNCHANGED <<mem, op, serverVars, call, mode, uci, history, bounds>>

Write ==
    /\ saving = "write"
    /\ saving' = "rename"
    /\ UNCHANGED <<file, mem, op, serverVars, call, mode, uci, history, bounds>>

Rename ==
    /\ saving = "rename"
    /\ file' = mem
    /\ Over(TRUE)
    /\ raced' = (raced \/ \E a \in Admins : call[a].pc = "move")
    /\ UNCHANGED faults

\* Making the directory, writing or renaming fails.
SaveFails ==
    /\ saving # "no"
    /\ faults > 0
    /\ faults' = faults - 1
    /\ Over(FALSE)
    /\ UNCHANGED <<file, raced>>

-----------------------------------------------------------------------------
(* The start.                                                              *)

\* wakehub-uci-sync writes a file of version 1 with UCI's settings and its
\* password, plain as it was typed in or hashed as it was written back, and
\* keeps devices, groups and schedules if it can read them.
Devices(f) == IF f \in {Absent, Torn} THEN 0 ELSE f.dev
Synced(f, u) ==
    [dev |-> Devices(f), token |-> u.token, hashed |-> u.hashed, current |-> FALSE]

\* The service is started, by OpenWrt after bringing the file in line.
StartService ==
    /\ pc = "stopped"
    /\ StaysBelow("down")
    /\ file' = IF mode = "own" THEN file ELSE Synced(file, uci)
    /\ drift' = FALSE
    /\ UNCHANGED <<mem, saving, op, call, mode, uci, last, made, confirmed, raced, bounds>>

\* Open without a file takes the defaults, and migrates what it finds.
Opened == IF file = Absent THEN Default ELSE [file EXCEPT !.hashed = TRUE, !.current = TRUE]

\* Sensitivity variants of Open: a migrated configuration is not saved; the
\* migration starts from defaults.
OpenNotSaving ==
    /\ pc = "down" /\ file # Torn
    /\ mem' = Opened
    /\ StaysBelow("flag")
    /\ UNCHANGED <<file, saving, op, call, mode, uci, history, bounds>>

OpenForgettingToken ==
    /\ pc = "down" /\ file # Torn
    /\ mem' = IF file = Absent THEN Default ELSE [Default EXCEPT !.dev = file.dev]
    /\ IF mem' = file THEN StaysBelow("flag") /\ UNCHANGED saving
                      ELSE StaysBelow("open") /\ saving' = "write"
    /\ UNCHANGED <<file, op, call, mode, uci, history, bounds>>

\* Open.  Without a file, and with one that needs migrating, it saves.
Open ==
    /\ pc = "down" /\ file # Torn
    /\ mem' = Opened
    /\ IF mem' = file THEN StaysBelow("flag") /\ UNCHANGED saving
                      ELSE StaysBelow("open") /\ saving' = "write"
    /\ UNCHANGED <<file, op, call, mode, uci, history, bounds>>

\* main saves the settings once more if it was given -listen, as the OpenWrt
\* service always does.
Flag ==
    /\ pc = "flag" /\ saving = "no"
    /\ \/ mode = "own" /\ StaysBelow("ensure") /\ UNCHANGED saving
       \/ saving' = "write" /\ UNCHANGED serverVars
    /\ UNCHANGED <<file, mem, op, call, mode, uci, history, bounds>>

\* EnsureClientToken.  Random tokens do not come twice.
EnsureClientToken ==
    /\ pc = "ensure" /\ saving = "no"
    /\ IF mem.token # Blank
       THEN Serve /\ UNCHANGED <<mem, saving>>
       ELSE /\ \E t \in Tokens \ {last} : mem' = [mem EXCEPT !.token = t]
            /\ saving' = "write"
            /\ UNCHANGED serverVars
    /\ UNCHANGED <<file, op, call, mode, uci, history, bounds>>

-----------------------------------------------------------------------------
(* Requests.                                                               *)

\* Any change to devices, groups or schedules.
Change ==
    /\ pc = "serving" /\ saving = "no"
    /\ made < MaxChanges
    /\ made' = made + 1
    /\ mem' = [mem EXCEPT !.dev = made']
    /\ saving' = "write"
    /\ op' = NoAdmin
    /\ UNCHANGED <<file, serverVars, call, mode, uci, last, confirmed, drift, raced, bounds>>

\* A PUT begins; it runs into those under way and they into it.  It comes with
\* a token or with none, for which one is made up.
Begun(a, p) ==
    [b \in Admins |->
        IF b = a THEN [pc |-> p, token |-> Blank, new |-> Absent,
                       alone |-> p # "idle" /\ ~Others(a)]
                 ELSE [call[b] EXCEPT !.alone = FALSE]]

Put(a) ==
    /\ pc = "serving" /\ saving = "no"
    /\ mode # "readonly"
    /\ call[a].pc = "idle"
    /\ puts > 0
    /\ puts' = puts - 1
    /\ \E t \in Tokens : mem' = [mem EXCEPT !.token = t]
    /\ UNCHANGED <<file, serverVars, mode, uci, last, made, confirmed, raced, stops>>

\* Sensitivity variant of PutSettings: no token is made up.
PutSettingsRaw(a) ==
    /\ pc = "serving" /\ saving = "no" /\ mode # "readonly"
    /\ call[a].pc = "idle" /\ puts > 0 /\ puts' = puts - 1
    /\ \E t \in Tokens \cup {Blank} : mem' = [mem EXCEPT !.token = t]
    /\ call' = Begun(a, "save")
    /\ saving' = "write"
    /\ op' = a
    /\ UNCHANGED <<file, serverVars, mode, uci, history, stops, faults>>

PutSettings(a) ==
    /\ Put(a)
    /\ call' = Begun(a, "save")
    /\ saving' = "write"
    /\ op' = a
    /\ UNCHANGED <<drift, faults>>

\* A PUT whose password cannot be hashed is refused half-way: what came before
\* the password has been changed in memory, and is not saved.
PutRefused(a) ==
    /\ Put(a)
    /\ faults > 0
    /\ faults' = faults - 1
    /\ call' = Begun(a, "idle")
    /\ drift' = TRUE
    /\ UNCHANGED <<saving, op>>

-----------------------------------------------------------------------------
(* What follows the save of a PUT.                                         *)

At(a, p) == pc = "serving" /\ call[a].pc = p
Goes(a, p) == call' = [call EXCEPT ![a].pc = p]

\* WriteGlobals: the settings there are now are set in UCI, and committed.  When
\* one of the commands fails the PUT returns; what was set by then is staged,
\* where uci-sync finds it.
Mirror(a) ==
    /\ At(a, "mirror") /\ saving = "no"
    /\ LET st == [token |-> mem.token, hashed |-> TRUE]
       IN  \/ /\ uci' = st
              /\ Goes(a, "read")
              /\ UNCHANGED <<drift, faults>>
           \/ /\ faults > 0
              /\ faults' = faults - 1
              /\ uci' \in {uci, [uci EXCEPT !.token = st.token], st}
              /\ call' = [call EXCEPT ![a] = Idle]
              /\ drift' = TRUE
    /\ UNCHANGED <<diskVars, serverVars, mode, last, made, confirmed, raced, puts, stops>>

\* Sensitivity variant of SyncRead: devices, groups and schedules are not kept.
SyncReadNothing(a) ==
    /\ At(a, "read")
    /\ call' = [call EXCEPT ![a].pc = "move", ![a].new = Synced(Absent, uci)]
    /\ UNCHANGED <<diskVars, serverVars, mode, uci, history, bounds>>

\* uci-sync, which runs if it is there, reads UCI and the file ...
SyncRead(a) ==
    /\ At(a, "read")
    /\ \/ call' = [call EXCEPT ![a].pc = "move", ![a].new = Synced(file, uci)]
       \/ Goes(a, "snapshot")
    /\ UNCHANGED <<diskVars, serverVars, mode, uci, history, bounds>>

\* ... and moves the new one over the file.
SyncMove(a) ==
    /\ At(a, "move")
    /\ file' = call[a].new
    /\ call' = [call EXCEPT ![a].pc = "snapshot", ![a].new = Absent]
    /\ UNCHANGED <<mem, saving, op, serverVars, mode, uci, history, bounds>>

\* OnSettingsChanged takes a snapshot of the configuration ...
Snapshot(a) ==
    /\ At(a, "snapshot") /\ saving = "no"
    /\ call' = [call EXCEPT ![a].pc = "set", ![a].token = mem.token]
    /\ UNCHANGED <<diskVars, serverVars, mode, uci, history, bounds>>

\* Sensitivity variant of SetToken: the hub is not told.
SetTokenNot(a) ==
    /\ At(a, "set")
    /\ drift' = ~call[a].alone
    /\ call' = [call EXCEPT ![a] = Idle]
    /\ UNCHANGED <<diskVars, serverVars, mode, uci, last, made, confirmed, raced, bounds>>

\* ... and tells the hub; MQTT follows, in DeviceService.
SetToken(a) ==
    /\ At(a, "set")
    /\ hub' = call[a].token
    /\ drift' = ~call[a].alone
    /\ call' = [call EXCEPT ![a] = Idle]
    /\ UNCHANGED <<diskVars, pc, mode, uci, last, made, confirmed, raced, bounds>>

-----------------------------------------------------------------------------
(* The end.                                                                *)

Ended(p) == /\ pc' = p
            /\ saving' = "no"
            /\ call' = [a \in Admins |-> Idle]
            /\ hub' = hub

\* The server stops, in the middle of whatever; procd or systemd start a process
\* that died again, which is no start of the service.  The token on file is to
\* be kept unless LuCI has another.
Stop ==
    /\ pc \notin {"stopped", "down"}
    /\ stops > 0
    /\ stops' = stops - 1
    /\ \E p \in {"stopped", "down"} : Ended(p)
    /\ last' = IF file \in {Absent, Torn} \/ (mode = "writeback" /\ uci.token # file.token)
               THEN Blank ELSE file.token
    /\ drift' = (mode = "writeback" /\ (drift \/ ~Quiet))
    /\ UNCHANGED <<file, mem, op, mode, uci, made, confirmed, raced, puts, faults>>

\* LuCI saves another token, and perhaps a password, and reloads the service.
LuciSave ==
    /\ mode # "own"
    /\ stops > 0
    /\ stops' = stops - 1
    /\ \E t \in UciTokens \ {uci.token}, h \in {uci.hashed, FALSE} :
          uci' = [uci EXCEPT !.token = t, !.hashed = h]
    /\ Ended("stopped")
    /\ last' = Blank
    /\ UNCHANGED <<file, mem, op, mode, made, confirmed, drift, raced, puts, faults>>

\* A new installation, or one of a release before authentication.
Init ==
    /\ mode \in Modes
    /\ uci \in {[token |-> t, hashed |-> FALSE] : t \in UciTokens}
    /\ file \in {Absent, Default} \cup {Legacy(t) : t \in Tokens}
    /\ mem = Default
    /\ pc = "stopped" /\ saving = "no" /\ op = NoAdmin
    /\ call = [a \in Admins |-> Idle]
    /\ hub = Blank
    /\ last = Blank
    /\ made = 0 /\ confirmed = 0
    /\ drift = FALSE /\ raced = FALSE
    /\ puts = MaxPuts /\ faults = MaxFaults /\ stops = MaxStops

Starting == StartService \/ Open \/ Flag \/ EnsureClientToken
Saving == Write \/ Rename
Propagating(a) == Mirror(a) \/ SyncRead(a) \/ SyncMove(a) \/ Snapshot(a) \/ SetToken(a)

Next ==
    \/ Starting \/ Saving \/ SaveFails \/ Change \/ Stop \/ LuciSave
    \/ \E a \in Admins : PutSettings(a) \/ PutRefused(a) \/ Propagating(a)

Spec == Init /\ [][Next]_vars

\* The process runs, and is started again when it ends.
FairSpec == Spec /\ WF_vars(Starting) /\ WF_vars(Saving)

-----------------------------------------------------------------------------
(* Properties.                                                             *)

TypeOK ==
    /\ file \in Content \cup {Absent, Torn}
    /\ mem \in Content
    /\ pc \in {"stopped", "down", "open", "flag", "ensure", "serving"}
    /\ saving \in {"no", "write", "rename"}
    /\ op \in Admins \cup {NoAdmin}
    /\ call \in [Admins -> Call]
    /\ hub \in Tokens \cup {Blank}
    /\ mode \in AllModes
    /\ uci \in Uci
    /\ last \in Tokens \cup {Blank}
    /\ made \in 0 .. MaxChanges
    /\ confirmed \in 0 .. made
    /\ drift \in BOOLEAN /\ raced \in BOOLEAN
    /\ puts \in 0 .. MaxPuts /\ faults \in 0 .. MaxFaults /\ stops \in 0 .. MaxStops

\* A stop in the middle of a save leaves a file Open can read (store.go:688-692).
FileOpens == file # Torn

\* A server that serves has its passwords hashed on disk (README.md, API: "Basic
\* 管理密码以 bcrypt 存入 config.json（加载时自动迁移明文）"), whatever failed and
\* whoever wrote the file before.  Of passwords bcrypt takes: one of more than 72
\* bytes in the file stays as it is (store.go:233), and is not in the model.
ServesHashed ==
    pc = "serving" => /\ file \in Content /\ file.hashed
                      /\ file.current \/ mode = "writeback"

\* Neither a failed save of the token the server made up, nor a PUT without one,
\* nor the order in which requests are propagated leaves a serving hub without a
\* token, which would then ask none of its clients (store.go:391, server.go:179).
ServesWithToken == pc = "serving" => hub \in Tokens

\* Once no PUT is under way, hub, memory, file and, in writeback mode, UCI have
\* one token: since the start, or since the last PUT that succeeded by itself, if
\* none failed or ran into another since then.  So such a PUT heals what a refused
\* one, a failed save or a failed mirroring left behind (server.go:176-225).
SettledInForce ==
    pc = "serving" /\ Quiet /\ saving = "no" /\ ~drift =>
        /\ hub = mem.token /\ file.token = mem.token
        /\ mode = "writeback" /\ uci.token # Blank => uci.token = mem.token

OnFile == Devices(file)

\* Where PUTs are written back, uci-sync loses a confirmed change from the file
\* only if it was saved between the script's reading and its writing, and the
\* script keeps devices, groups and schedules otherwise (wakehub-uci-sync:2).
LostOnlyToSync == OnFile < confirmed => raced

\* Once the server has confirmed a change to a device, group or schedule, the
\* file never again holds an older state, through failed saves, stops, migrations
\* and uci-sync (store.go:680-693, wakehub-uci-sync:2).  Not where PUTs are
\* written back: see LostOnlyToSync.
Keeps == INSTANCE Durable WITH
            kept <- IF mode = "writeback" THEN 0 ELSE OnFile,
            confirmed <- IF mode = "writeback" THEN 0 ELSE confirmed
KeepsPromises == Keeps!Spec

\* The token the file held when the server stopped is its token after the next
\* start, unless LuCI has another: one made up because there was none is
\* persisted (store.go:391).
TokenKept ==
    [][pc # "serving" /\ pc' = "serving" /\ last # Blank => mem'.token = last]_vars

\* The server serves again after any stop.
ServesAgain == []<>(pc = "serving")

=============================================================================
