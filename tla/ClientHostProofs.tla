--------------------------- MODULE ClientHostProofs ---------------------------
(***************************************************************************)
(* Safety of ClientHost for any releases, fields, flags and bounds: the    *)
(* executable and the configuration are never torn, an executable is       *)
(* always kept, an update never goes back in versions, and an install      *)
(* changes the fields it was told to change.                               *)
(*                                                                         *)
(* The inductive invariant says what each step of a command may rely on:   *)
(* what it is to install, that exe.new is whole before anything is         *)
(* renamed, and that exe.old is gone from its place only while exe is      *)
(* there.                                                                  *)
(***************************************************************************)
EXTENDS ClientHost, TLAPS

CopySteps == {"stop", "copy", "copied", "clear", "out"}
SaveSteps == {"save", "saved", "rename"}

\* What an update is to install, and where it has got to.
UpdateOk ==
    /\ cmd.pc \in CopySteps =>
          /\ cmd.what \in Releases /\ exe \in Releases /\ IsNewer(cmd.what, exe)
    /\ cmd.pc = "in" =>
          /\ cmd.what \in Releases /\ exe = None /\ old \in Releases
          /\ IsNewer(cmd.what, old)
    /\ cmd.pc \in {"clear", "out", "in"} => new = cmd.what

\* What an install is to write, and that it changes told fields only.
InstallOk ==
    /\ cmd.pc \in SaveSteps =>
          /\ cmd.what \in Configs
          /\ file \in Configs =>
                \A x \in Fields : cmd.what[x] # file[x] =>
                    \E flags \in Flags : flags[x] = cmd.what[x]
    /\ cmd.pc = "rename" => tmp = cmd.what

Binaries ==
    /\ exe \in Releases \cup {None} /\ old \in Releases \cup {None}
    /\ exe = None => old \in Releases
    /\ exe \in Releases /\ old \in Releases => IsNewer(exe, old)

\* What the running process may be behind of.  Once an update with -service has
\* stopped the service, nothing starts it before the new executable is in place.
RunOk ==
    /\ ConfigInForce /\ VersionInForce
    /\ cmd.pc = "in" /\ proc # None => proc.exe = old \/ "version" \in loose
    /\ cmd.service /\ cmd.pc \in {"copy", "copied", "clear", "out", "in"} =>
          (~wanted /\ proc = None) \/ "version" \in loose

Inv == TypeOK /\ file # Part /\ Binaries /\ UpdateOk /\ InstallOk

\* A merge fills every field, and from a file differs from it by flags only.
LEMMA MergedFacts ==
    ASSUME NEW f \in Configs \cup {None}, NEW flags \in Flags
    PROVE  /\ Merged(f, flags) \in Configs
           /\ f \in Configs =>
                 \A x \in Fields : Merged(f, flags)[x] # f[x] => flags[x] = Merged(f, flags)[x]
<1>1. \A x \in Fields : flags[x] \in Values \cup {Unset}
  BY FlagsAssumption
<1>2. None \notin Configs
  BY FileAssumption
<1>3. f # None => f \in Configs
  OBVIOUS
<1>4. \A x \in Fields : Merged(f, flags)[x] \in Values
  BY <1>1, <1>3, ValuesAssumption DEF Merged, Configs
<1>5. Merged(f, flags) \in Configs
  BY <1>4 DEF Merged, Configs
<1>6. \A x \in Fields : f \in Configs /\ Merged(f, flags)[x] # f[x] => flags[x] = Merged(f, flags)[x]
  BY <1>2 DEF Merged
<1>. QED BY <1>5, <1>6

\* isNewerVersion orders releases as their numbers do.
LEMMA NewerIsLater ==
    ASSUME NEW l \in Releases, NEW c \in Releases
    PROVE  IsNewer(l, c) <=> Later(l, c)
<1>1. \A i \in 1 .. 3 : l[i] \in Nat /\ c[i] \in Nat
  BY ReleasesAssumption
<1>2. ASSUME NEW i \in 1 .. 3, l[i] > c[i], \A j \in 1 .. (i - 1) : l[j] = c[j]
      PROVE  Later(l, c)
  <2>1. CASE i = 1
    BY <1>2, <2>1 DEF Later
  <2>2. CASE i = 2
    BY <1>2, <2>2 DEF Later
  <2>3. CASE i = 3
    BY <1>2, <2>3 DEF Later
  <2>. QED BY <2>1, <2>2, <2>3
<1>3. ASSUME Later(l, c) PROVE IsNewer(l, c)
  <2>1. CASE l[1] > c[1]
    BY <2>1 DEF IsNewer
  <2>2. CASE l[1] = c[1] /\ l[2] > c[2]
    <3>1. \A j \in 1 .. (2 - 1) : l[j] = c[j]
      BY <2>2
    <3>. QED BY <2>2, <3>1 DEF IsNewer
  <2>3. CASE l[1] = c[1] /\ l[2] = c[2] /\ l[3] > c[3]
    <3>1. \A j \in 1 .. (3 - 1) : l[j] = c[j]
      BY <2>3
    <3>. QED BY <2>3, <3>1 DEF IsNewer
  <2>. QED BY <1>3, <2>1, <2>2, <2>3 DEF Later
<1>. QED BY <1>2, <1>3 DEF IsNewer

LEMMA InitInv == Init => Inv
<1>. SUFFICES ASSUME Init PROVE Inv
  OBVIOUS
<1>1. cmd.pc = "idle" /\ cmd = Idle
  BY DEF Init, Idle
<1>2. UpdateOk /\ InstallOk
  BY <1>1 DEF UpdateOk, InstallOk, CopySteps, SaveSteps
<1>3. TypeOK
  <2>1. cmd \in [pc : {"idle"} \cup InstallSteps \cup UpdateSteps \cup UninstallSteps,
                 what : Configs \cup Releases \cup {None}, service : BOOLEAN]
    BY <1>1 DEF Idle
  <2>2. /\ proc \in [exe : Releases, cfg : Configs] \cup {None}
        /\ loose \subseteq {"config", "version", "start"}
        /\ commands \in 0 .. MaxCommands /\ failures \in 0 .. MaxFailures
        /\ kills \in 0 .. MaxKills
    BY BoundsAssumption DEF Init
  <2>. QED BY <2>1, <2>2 DEF Init, TypeOK
<1>4. file # Part /\ Binaries
  BY FileAssumption DEF Init, Binaries
<1>. QED BY <1>2, <1>3, <1>4 DEF Inv

\* The type of a command whose step moves on.
LEMMA GoType ==
    ASSUME TypeOK, NEW pc \in InstallSteps \cup UpdateSteps \cup UninstallSteps, Go(pc)
    PROVE  /\ cmd'.pc = pc /\ cmd'.what = cmd.what /\ cmd'.service = cmd.service
           /\ cmd' \in [pc : {"idle"} \cup InstallSteps \cup UpdateSteps \cup UninstallSteps,
                        what : Configs \cup Releases \cup {None}, service : BOOLEAN]
BY DEF TypeOK, Go

LEMMA DoneType ==
    ASSUME Done
    PROVE  /\ cmd'.pc = "idle" /\ cmd'.what = None
           /\ cmd' \in [pc : {"idle"} \cup InstallSteps \cup UpdateSteps \cup UninstallSteps,
                        what : Configs \cup Releases \cup {None}, service : BOOLEAN]
BY DEF Done, Idle

\* Commands begin with something to do.
LEMMA BeginInv ==
    ASSUME Inv, BeginInstall \/ BeginUninstall \/ BeginUpdate
    PROVE  Inv'
<1>. USE FileAssumption, BoundsAssumption
<1> DEFINE Commands == [pc : {"idle"} \cup InstallSteps \cup UpdateSteps \cup UninstallSteps,
                        what : Configs \cup Releases \cup {None}, service : BOOLEAN]
<1>1. ASSUME NEW c \in Commands, Begin(c)
      PROVE  TypeOK' /\ (file # Part)' /\ Binaries'
  <2>1. commands' \in 0 .. MaxCommands
    BY <1>1 DEF Begin, Inv, TypeOK
  <2>. QED BY <1>1, <2>1 DEF Begin, Inv, TypeOK, Binaries, binVars, cfgVars, unitVars, runVars
<1>2. CASE BeginInstall
  <2>1. PICK flags \in Flags :
           Begin([pc |-> "save", what |-> Merged(file, flags), service |-> FALSE])
    BY <1>2 DEF BeginInstall
  <2> DEFINE c == [pc |-> "save", what |-> Merged(file, flags), service |-> FALSE]
  <2>2. file \in Configs \cup {None}
    BY DEF Inv, TypeOK
  <2>3. c.pc = "save" /\ c.what = Merged(file, flags)
    OBVIOUS
  <2>4. c \in Commands
    BY <2>2, <2>3, MergedFacts DEF InstallSteps
  <2>5. cmd' = c /\ file' = file
    BY <2>1 DEF Begin, cfgVars
  <2>6. UpdateOk'
    BY <2>3, <2>5 DEF UpdateOk, CopySteps
  <2>7. InstallOk'
    BY <2>2, <2>3, <2>5, MergedFacts DEF InstallOk, SaveSteps
  <2>8. TypeOK' /\ (file # Part)' /\ Binaries'
    BY <2>1, <2>4, <1>1
  <2>. QED BY <2>6, <2>7, <2>8 DEF Inv
<1>3. CASE BeginUninstall
  <2> DEFINE c == [pc |-> "disable", what |-> None, service |-> FALSE]
  <2>2. c \in Commands
    BY DEF UninstallSteps
  <2>3. Begin(c) /\ cmd' = c
    BY <1>3 DEF BeginUninstall, Begin
  <2>4. UpdateOk' /\ InstallOk'
    BY <2>3 DEF UpdateOk, InstallOk, CopySteps, SaveSteps
  <2>. QED BY <2>2, <2>3, <2>4, <1>1 DEF Inv
<1>4. CASE BeginUpdate
  <2>1. PICK s \in BOOLEAN :
           Begin([pc |-> IF s THEN "stop" ELSE "copy", what |-> release, service |-> s])
    BY <1>4 DEF BeginUpdate
  <2> DEFINE c == [pc |-> IF s THEN "stop" ELSE "copy", what |-> release, service |-> s]
  <2>2. c \in Commands
    BY DEF UpdateSteps, Inv, TypeOK
  <2>3. cmd' = c /\ exe' = exe
    BY <2>1 DEF Begin, binVars
  <2>4. exe \in Releases /\ IsNewer(release, exe) /\ release \in Releases
    BY <1>4 DEF BeginUpdate, Inv, TypeOK
  <2>5. cmd'.pc \in {"stop", "copy"} /\ cmd'.what = release
    BY <2>3
  <2>6. UpdateOk'
    BY <2>3, <2>4, <2>5 DEF UpdateOk, CopySteps
  <2>7. InstallOk'
    BY <2>5 DEF InstallOk, SaveSteps
  <2>8. TypeOK' /\ (file # Part)' /\ Binaries'
    BY <2>1, <2>2, <1>1
  <2>. QED BY <2>6, <2>7, <2>8 DEF Inv
<1>. QED BY <1>2, <1>3, <1>4

\* One step of a command that is not a failure.
LEMMA StepInv ==
    ASSUME Inv, CommandStep
    PROVE  Inv'
<1>. USE FileAssumption
<1>1. TypeOK /\ file # Part /\ Binaries /\ UpdateOk /\ InstallOk
  BY DEF Inv
<1>2. UNCHANGED <<release, commands, failures, kills>>
  BY DEF CommandStep, boundVars
<1>3. cmd' \in [pc : {"idle"} \cup InstallSteps \cup UpdateSteps \cup UninstallSteps,
                what : Configs \cup Releases \cup {None}, service : BOOLEAN]
  <2>1. Done \/ \E pc \in InstallSteps \cup UpdateSteps \cup UninstallSteps : Go(pc)
    BY DEF CommandStep, Save, Saved, Rename, WriteUnit, Reload, Enable, Restart,
           Disable, Remove, Stop, Copy, Copied, ClearOld, MoveOut, MoveIn, Start,
           InstallSteps, UpdateSteps, UninstallSteps
  <2>. QED BY <2>1, <1>1, GoType, DoneType
<1>4. CASE Save \/ Saved
  <2>1. /\ \/ At("save") /\ Go("saved") /\ tmp' = Part
           \/ At("saved") /\ Go("rename") /\ tmp' = cmd.what
        /\ UNCHANGED <<exe, new, old, file, unit, enabled, wanted, proc, loose>>
    BY <1>4 DEF Save, Saved, binVars, unitVars, runVars
  <2>2. cmd'.pc \in {"saved", "rename"} /\ cmd'.what = cmd.what /\ cmd.pc \in SaveSteps
    BY <2>1, <1>1, GoType DEF At, SaveSteps, InstallSteps
  <2>3. cmd'.pc = "rename" => tmp' = cmd.what
    BY <2>1, <1>1, GoType DEF At, InstallSteps
  <2>4. TypeOK'
    BY <1>1, <1>2, <1>3, <2>1, <2>2 DEF TypeOK, InstallOk
  <2>5. Binaries' /\ UpdateOk'
    BY <1>1, <2>1, <2>2 DEF Binaries, UpdateOk, CopySteps
  <2>6. InstallOk'
    BY <1>1, <2>1, <2>2, <2>3 DEF InstallOk
  <2>. QED BY <1>1, <2>1, <2>4, <2>5, <2>6 DEF Inv
<1>5. CASE Rename
  <2>1. /\ At("rename") /\ Go("unit") /\ file' = tmp /\ tmp' = None
        /\ UNCHANGED <<exe, new, old, unit, enabled, wanted, proc, loose>>
    BY <1>5 DEF Rename, binVars, unitVars, runVars
  <2>2. cmd'.pc = "unit" /\ file' = cmd.what /\ cmd.what \in Configs
    BY <2>1, <1>1, GoType DEF At, InstallOk, SaveSteps, InstallSteps
  <2>3. TypeOK'
    BY <1>1, <1>2, <1>3, <2>1, <2>2 DEF TypeOK
  <2>4. Binaries' /\ UpdateOk' /\ InstallOk'
    BY <1>1, <2>1, <2>2 DEF Binaries, UpdateOk, InstallOk, CopySteps, SaveSteps
  <2>. QED BY <2>2, <2>3, <2>4 DEF Inv
<1>6. CASE WriteUnit \/ Reload \/ Enable \/ Restart \/ Disable \/ Remove \/ Start
  <2>1. /\ UNCHANGED <<exe, new, old, file, tmp, loose>>
        /\ unit' \in {unit, None, Part, Whole} /\ enabled' \in {enabled, TRUE, FALSE}
        /\ wanted' \in {wanted, TRUE, FALSE} /\ proc' \in {proc, None}
    BY <1>1, <1>6 DEF WriteUnit, Reload, Enable, Restart, Disable, Remove, Start, TypeOK,
                 binVars, cfgVars, unitVars, runVars
  <2>2. cmd'.pc \in {"reload", "enable", "restart", "remove", "idle"}
    BY <1>1, <1>6, GoType, DoneType
       DEF WriteUnit, Reload, Enable, Restart, Disable, Remove, Start,
           InstallSteps, UninstallSteps
  <2>3. TypeOK'
    <3>1. /\ unit' \in {None, Part, Whole} /\ enabled' \in BOOLEAN /\ wanted' \in BOOLEAN
          /\ proc' \in [exe : Releases, cfg : Configs] \cup {None}
      BY <1>1, <2>1 DEF TypeOK
    <3>. QED BY <1>1, <1>2, <1>3, <2>1, <3>1 DEF TypeOK
  <2>4. Binaries' /\ UpdateOk' /\ InstallOk'
    BY <1>1, <2>1, <2>2 DEF Binaries, UpdateOk, InstallOk, CopySteps, SaveSteps
  <2>. QED BY <1>1, <2>1, <2>3, <2>4 DEF Inv
<1>7. CASE Stop \/ Copy
  <2>1. /\ cmd.pc \in {"stop", "copy"} /\ (Go("copy") \/ Go("copied"))
        /\ UNCHANGED <<exe, old, file, tmp, unit, enabled, loose>>
        /\ new' \in {new, Part} /\ wanted' \in {wanted, FALSE} /\ proc' \in {proc, None}
    BY <1>7 DEF Stop, Copy, At, binVars, cfgVars, unitVars, runVars
  <2>2. cmd'.pc \in {"copy", "copied"} /\ cmd'.what = cmd.what
    BY <1>1, <2>1, GoType DEF UpdateSteps
  <2>3. TypeOK'
    <3>1. /\ new' \in Releases \cup {None, Part} /\ wanted' \in BOOLEAN
          /\ proc' \in [exe : Releases, cfg : Configs] \cup {None}
      BY <1>1, <2>1 DEF TypeOK
    <3>. QED BY <1>1, <1>2, <1>3, <2>1, <3>1 DEF TypeOK
  <2>4. Binaries' /\ UpdateOk' /\ InstallOk'
    BY <1>1, <2>1, <2>2 DEF Binaries, UpdateOk, InstallOk, CopySteps, SaveSteps
  <2>. QED BY <1>1, <2>1, <2>3, <2>4 DEF Inv
<1>8. CASE Copied \/ ClearOld
  <2>1. /\ \/ cmd.pc = "copied" /\ Go("clear") /\ new' = cmd.what /\ old' = old
           \/ cmd.pc = "clear" /\ Go("out") /\ old' = None /\ new' = new
        /\ UNCHANGED <<exe, file, tmp, unit, enabled, wanted, proc, loose>>
    BY <1>8 DEF Copied, ClearOld, At, cfgVars, unitVars, runVars
  <2>2. /\ cmd'.pc \in {"clear", "out"} /\ cmd'.what = cmd.what
        /\ cmd.what \in Releases /\ exe \in Releases
    BY <1>1, <2>1, GoType DEF UpdateSteps, UpdateOk, CopySteps
  <2>3. new' = cmd.what
    BY <1>1, <2>1 DEF UpdateOk
  <2>4. TypeOK'
    BY <1>1, <1>2, <1>3, <2>1, <2>2 DEF TypeOK
  <2>5. Binaries' /\ UpdateOk' /\ InstallOk'
    BY <1>1, <2>1, <2>2, <2>3 DEF Binaries, UpdateOk, InstallOk, CopySteps, SaveSteps
  <2>. QED BY <1>1, <2>1, <2>4, <2>5 DEF Inv
<1>9. CASE MoveOut
  <2>1. /\ cmd.pc = "out" /\ Go("in") /\ old' = exe /\ exe' = None
        /\ UNCHANGED <<new, file, tmp, unit, enabled, wanted, proc, loose>>
    BY <1>9 DEF MoveOut, At, cfgVars, unitVars, runVars
  <2>2. /\ cmd'.pc = "in" /\ cmd'.what = cmd.what
        /\ cmd.what \in Releases /\ exe \in Releases /\ IsNewer(cmd.what, exe)
    BY <1>1, <2>1, GoType DEF UpdateSteps, UpdateOk, CopySteps
  <2>3. TypeOK'
    BY <1>1, <1>2, <1>3, <2>1, <2>2 DEF TypeOK
  <2>4. Binaries' /\ UpdateOk' /\ InstallOk'
    BY <1>1, <2>1, <2>2 DEF Binaries, UpdateOk, InstallOk, CopySteps, SaveSteps
  <2>. QED BY <1>1, <2>1, <2>3, <2>4 DEF Inv
<1>10. CASE MoveIn
  <2>1. /\ cmd.pc = "in" /\ (Go("start") \/ Done) /\ exe' = new /\ new' = None
        /\ UNCHANGED <<old, file, tmp, unit, enabled, wanted, proc>>
        /\ loose' \in {loose, loose \cup {"version"}}
    BY <1>10 DEF MoveIn, At, cfgVars, unitVars, runVars
  <2>2. /\ cmd'.pc \in {"start", "idle"} /\ exe' \in Releases /\ IsNewer(exe', old)
    BY <1>1, <2>1, GoType, DoneType DEF UpdateSteps, UpdateOk
  <2>3. TypeOK'
    BY <1>1, <1>2, <1>3, <2>1, <2>2 DEF TypeOK
  <2>4. Binaries' /\ UpdateOk' /\ InstallOk'
    BY <1>1, <2>1, <2>2 DEF Binaries, UpdateOk, InstallOk, CopySteps, SaveSteps
  <2>. QED BY <1>1, <2>1, <2>3, <2>4 DEF Inv
<1>. QED BY <1>4, <1>5, <1>6, <1>7, <1>8, <1>9, <1>10 DEF CommandStep

\* A step that fails.
LEMMA FailInv ==
    ASSUME Inv, Fail
    PROVE  Inv'
<1>. USE FileAssumption, BoundsAssumption
<1>1. TypeOK /\ file # Part /\ Binaries /\ UpdateOk /\ InstallOk
  BY DEF Inv
<1>2. UNCHANGED <<release, commands, kills>> /\ failures < MaxFailures
  BY DEF Fail
<1>3. cmd' \in [pc : {"idle"} \cup InstallSteps \cup UpdateSteps \cup UninstallSteps,
                what : Configs \cup Releases \cup {None}, service : BOOLEAN]
  <2>1. Done \/ \E pc \in InstallSteps \cup UpdateSteps \cup UninstallSteps : Go(pc)
    BY DEF Fail, InstallFails, UpdateFails, MoveInFails, StopFails, StartFails,
           GiveUp, InstallSteps, UpdateSteps, UninstallSteps
  <2>. QED BY <2>1, <1>1, GoType, DoneType
<1>4. CASE InstallFails
  <2>1. /\ Done /\ failures' = failures + 1 /\ tmp' \in {None, tmp}
        /\ loose' \in {loose, loose \cup {"config"}}
        /\ UNCHANGED <<exe, new, old, file, unit, enabled, wanted, proc>>
    BY <1>4 DEF InstallFails, Unapplied, binVars, unitVars, runVars
  <2>2. cmd'.pc = "idle"
    BY <2>1, DoneType
  <2>3. failures' \in 0 .. MaxFailures
    BY <1>1, <1>2, <2>1 DEF TypeOK
  <2>4. TypeOK'
    BY <1>1, <1>2, <1>3, <2>1, <2>3 DEF TypeOK
  <2>5. Binaries' /\ UpdateOk' /\ InstallOk'
    BY <1>1, <2>1, <2>2 DEF Binaries, UpdateOk, InstallOk, CopySteps, SaveSteps
  <2>. QED BY <1>1, <2>1, <2>4, <2>5 DEF Inv
<1>5. CASE UpdateFails \/ StopFails
  <2>1. /\ failures' = failures + 1 /\ loose' \in {loose, loose \cup {"version"}}
        /\ UNCHANGED <<exe, new, old, file, tmp, unit, enabled, wanted, proc>>
    BY <1>5 DEF UpdateFails, StopFails, binVars, cfgVars, unitVars, runVars
  <2>2. \/ cmd'.pc \in {"idle", "start", "remove"}
        \/ cmd.pc = "stop" /\ cmd'.pc = "copy" /\ cmd'.what = cmd.what
    BY <1>1, <1>5, GoType, DoneType
       DEF UpdateFails, StopFails, GiveUp, At, UpdateSteps, UninstallSteps
  <2>3. failures' \in 0 .. MaxFailures
    BY <1>1, <1>2, <2>1 DEF TypeOK
  <2>4. TypeOK'
    BY <1>1, <1>2, <1>3, <2>1, <2>3 DEF TypeOK
  <2>5. Binaries' /\ UpdateOk' /\ InstallOk'
    BY <1>1, <2>1, <2>2 DEF Binaries, UpdateOk, InstallOk, CopySteps, SaveSteps
  <2>. QED BY <1>1, <2>1, <2>4, <2>5 DEF Inv
<1>6. CASE MoveInFails
  <2>1. /\ cmd.pc = "in" /\ (Go("start") \/ Done)
        /\ \/ exe' = old /\ old' = None /\ failures' = failures + 1
           \/ failures + 2 <= MaxFailures /\ failures' = failures + 2 /\ exe' = exe /\ old' = old
        /\ UNCHANGED <<new, file, tmp, unit, enabled, wanted, proc, loose>>
    BY <1>6 DEF MoveInFails, GiveUp, At, cfgVars, unitVars, runVars
  <2>2. cmd'.pc \in {"idle", "start"}
    BY <1>1, <2>1, GoType, DoneType DEF UpdateSteps
  <2>3. failures' \in 0 .. MaxFailures
    BY <1>1, <1>2, <2>1 DEF TypeOK
  <2>4. TypeOK'
    BY <1>1, <1>2, <1>3, <2>1, <2>3 DEF TypeOK
  <2>5. Binaries' /\ UpdateOk' /\ InstallOk'
    BY <1>1, <2>1, <2>2 DEF Binaries, UpdateOk, InstallOk, CopySteps, SaveSteps
  <2>. QED BY <1>1, <2>1, <2>4, <2>5 DEF Inv
<1>7. CASE StartFails
  <2>1. /\ Done /\ failures' = failures + 1 /\ loose' = loose \cup {"start"}
        /\ UNCHANGED <<exe, new, old, file, tmp, unit, enabled, wanted, proc>>
    BY <1>7 DEF StartFails, binVars, cfgVars, unitVars, runVars
  <2>2. cmd'.pc = "idle"
    BY <2>1, DoneType
  <2>3. failures' \in 0 .. MaxFailures
    BY <1>1, <1>2, <2>1 DEF TypeOK
  <2>4. TypeOK'
    BY <1>1, <1>2, <1>3, <2>1, <2>3 DEF TypeOK
  <2>5. Binaries' /\ UpdateOk' /\ InstallOk'
    BY <1>1, <2>1, <2>2 DEF Binaries, UpdateOk, InstallOk, CopySteps, SaveSteps
  <2>. QED BY <1>1, <2>1, <2>4, <2>5 DEF Inv
<1>. QED BY <1>4, <1>5, <1>6, <1>7 DEF Fail

\* What is not a step of a command touches no binary and no configuration.
LEMMA OtherInv ==
    ASSUME Inv,
           \/ Kill \/ StartProcess \/ ProcessEnds \/ ServiceStart \/ ServiceStop
           \/ Reboot \/ Publish
    PROVE  Inv'
<1>. USE FileAssumption, BoundsAssumption
<1>1. TypeOK /\ file # Part /\ Binaries /\ UpdateOk /\ InstallOk
  BY DEF Inv
<1>2. UNCHANGED <<exe, new, old, file, tmp, unit, enabled, commands, failures>>
  BY DEF Kill, StartProcess, ProcessEnds, ServiceStart, ServiceStop, Reboot, Publish,
         binVars, cfgVars, unitVars, boundVars
<1>3. cmd' = cmd \/ cmd'.pc = "idle"
  BY DoneType DEF Kill, StartProcess, ProcessEnds, ServiceStart, ServiceStop, Reboot, Publish
<1>4. Binaries' /\ UpdateOk' /\ InstallOk'
  BY <1>1, <1>2, <1>3 DEF Binaries, UpdateOk, InstallOk, CopySteps, SaveSteps
<1>5. TypeOK'
  <2>1. cmd' \in [pc : {"idle"} \cup InstallSteps \cup UpdateSteps \cup UninstallSteps,
                  what : Configs \cup Releases \cup {None}, service : BOOLEAN]
    BY <1>1, DoneType
       DEF Kill, StartProcess, ProcessEnds, ServiceStart, ServiceStop, Reboot, Publish, TypeOK
  <2>2. loose' \subseteq {"config", "version", "start"} /\ kills' \in 0 .. MaxKills
    <3>1. loose' = {} \/ loose' = loose \/ loose' = loose \cup Unapplied
      BY DEF Kill, StartProcess, ProcessEnds, ServiceStart, ServiceStop, Reboot, Publish
    <3>2. kills' = kills \/ (kills < MaxKills /\ kills' = kills + 1)
      BY DEF Kill, StartProcess, ProcessEnds, ServiceStart, ServiceStop, Reboot, Publish,
             boundVars
    <3>3. kills' \in 0 .. MaxKills
      BY <1>1, <3>2 DEF TypeOK
    <3>. QED BY <1>1, <3>1, <3>3 DEF Unapplied, TypeOK
  <2>3. wanted' \in BOOLEAN /\ release' \in Releases
    BY <1>1
       DEF Kill, StartProcess, ProcessEnds, ServiceStart, ServiceStop, Reboot, Publish, TypeOK,
           runVars
  <2>4. proc' \in [exe : Releases, cfg : Configs] \cup {None}
    <3>1. CASE StartProcess
      BY <3>1 DEF StartProcess
    <3>2. CASE ~StartProcess
      <4>1. proc' \in {proc, None}
        BY <3>2 DEF Kill, ProcessEnds, ServiceStart, ServiceStop, Reboot, Publish, runVars
      <4>. QED BY <4>1, <1>1 DEF TypeOK
    <3>. QED BY <3>1, <3>2
  <2>. QED BY <1>1, <1>2, <2>1, <2>2, <2>3, <2>4 DEF TypeOK
<1>. QED BY <1>1, <1>2, <1>4, <1>5 DEF Inv

\* The inductive invariant: types, whole binaries and configuration, and what
\* each step of an update or an install relies on.
THEOREM Invariant == Spec => []Inv
<1>1. Inv /\ [Next]_vars => Inv'
  <2> SUFFICES ASSUME Inv, [Next]_vars PROVE Inv'
    OBVIOUS
  <2>1. CASE Next
    BY <2>1, BeginInv, StepInv, FailInv, OtherInv DEF Next
  <2>2. CASE UNCHANGED vars
    BY <2>2 DEF vars, binVars, cfgVars, unitVars, runVars, boundVars,
                Inv, TypeOK, Binaries, UpdateOk, InstallOk
  <2>. QED BY <2>1, <2>2
<1>. QED BY <1>1, InitInv, PTL DEF Spec

\* Types, for any releases, fields, flags and bounds.
THEOREM TypeCorrect == Spec => []TypeOK
<1>1. Inv => TypeOK
  BY DEF Inv
<1>. QED BY <1>1, Invariant, PTL

\* Wherever a command fails or is killed, the executable and the configuration
\* are whole or absent (clientcfg.Save, ApplyUpdate).
THEOREM FilesAreWhole == Spec => []NeverTorn
<1>1. Inv => NeverTorn
  BY FileAssumption DEF Inv, Binaries, NeverTorn
<1>. QED BY <1>1, Invariant, PTL

\* A whole executable is on disk at all times (the renames of ApplyUpdate).
THEOREM BinaryIsKept == Spec => []BinaryKept
<1>1. Inv => BinaryKept
  BY DEF Inv, Binaries, BinaryKept
<1>. QED BY <1>1, Invariant, PTL

\* What an update put in place of another version is newer (isNewerVersion).
THEOREM UpdatesGoForward == Spec => []NoDowngrade
<1>1. Inv => NoDowngrade
  BY NewerIsLater DEF Inv, Binaries, NoDowngrade
<1>. QED BY <1>1, Invariant, PTL

\* One step, on what RunOk relates; each kind of step touches little of it.
LEMMA RunStep ==
    ASSUME Inv, Inv', RunOk, Next
    PROVE  RunOk'
<1>. USE FileAssumption
<1>1. TypeOK /\ Binaries /\ UpdateOk
  BY DEF Inv
<1>2. CASE BeginInstall \/ BeginUninstall \/ BeginUpdate
  <2>1. /\ UNCHANGED <<exe, old, file, wanted, proc, loose>> /\ cmd.pc = "idle"
        /\ cmd'.pc \in {"save", "disable", "stop", "copy"}
        /\ cmd'.pc = "copy" => ~cmd'.service
    BY <1>2 DEF BeginInstall, BeginUninstall, BeginUpdate, Begin, At,
                binVars, cfgVars, runVars
  <2>. QED BY <2>1 DEF RunOk, ConfigInForce, VersionInForce
<1>3. CASE CommandStep
  <2>1. CASE Save \/ Saved \/ WriteUnit \/ Reload \/ Enable
    <3>1. /\ UNCHANGED <<exe, old, file, wanted, proc, loose>>
          /\ \/ cmd.pc \in {"save", "saved"} /\ cmd'.pc \in {"saved", "rename"}
             \/ cmd'.pc \in {"reload", "enable", "restart"}
      BY <1>1, <2>1, GoType DEF Save, Saved, WriteUnit, Reload, Enable, At, InstallSteps,
                           binVars, cfgVars, runVars
    <3>. QED BY <3>1 DEF RunOk, ConfigInForce, VersionInForce
  <2>2. CASE Rename
    <3>1. UNCHANGED <<exe, old, wanted, proc, loose>> /\ cmd'.pc = "unit"
      BY <1>1, <2>2, GoType DEF Rename, InstallSteps, binVars, runVars
    <3>. QED BY <3>1 DEF RunOk, ConfigInForce, VersionInForce
  <2>3. CASE Restart \/ Disable \/ Stop
    <3>1. /\ UNCHANGED <<exe, old, file, loose>> /\ proc' = None
          /\ \/ cmd'.pc \in {"idle", "remove"}
             \/ cmd'.pc = "copy" /\ wanted' = FALSE
      <4>1. CASE Restart
        BY <2>3, <4>1, DoneType DEF Restart, binVars, cfgVars
      <4>2. CASE Disable
        BY <1>1, <4>2, GoType DEF Disable, UninstallSteps, binVars, cfgVars
      <4>3. CASE Stop
        BY <1>1, <4>3, GoType DEF Stop, UpdateSteps, binVars, cfgVars
      <4>. QED BY <2>3, <4>1, <4>2, <4>3
    <3>. QED BY <3>1 DEF RunOk, ConfigInForce, VersionInForce
  <2>4. CASE Remove \/ Start
    <3>1. /\ UNCHANGED <<exe, old, file, proc, loose>> /\ cmd'.pc = "idle"
          /\ cmd.pc \in {"remove", "start"}
      BY <1>1, <2>4, DoneType DEF Remove, Start, At, binVars, cfgVars
    <3>. QED BY <3>1 DEF RunOk, ConfigInForce, VersionInForce
  <2>5. CASE Copy \/ Copied \/ ClearOld
    <3>1. /\ UNCHANGED <<exe, file, wanted, proc, loose>>
          /\ cmd'.service = cmd.service
          /\ cmd.pc \in {"copy", "copied", "clear"} /\ cmd'.pc \in {"copied", "clear", "out"}
      BY <1>1, <2>5, GoType DEF Copy, Copied, ClearOld, At, UpdateSteps, cfgVars, runVars
    <3>. QED BY <3>1 DEF RunOk, ConfigInForce, VersionInForce
  <2>6. CASE MoveOut
    <3>1. /\ UNCHANGED <<file, wanted, proc, loose>> /\ old' = exe /\ exe' = None
          /\ cmd'.service = cmd.service /\ cmd.pc = "out" /\ cmd'.pc = "in"
      BY <1>1, <2>6, GoType DEF MoveOut, At, UpdateSteps, cfgVars, runVars
    <3>2. exe \in Releases
      BY <1>1, <3>1 DEF UpdateOk, CopySteps
    <3>. QED BY <3>1, <3>2 DEF RunOk, ConfigInForce, VersionInForce
  <2>7. CASE MoveIn
    <3>1. /\ UNCHANGED <<file, wanted, proc>> /\ cmd.pc = "in"
          /\ cmd'.pc \in {"start", "idle"}
          /\ cmd.service => loose' = loose
          /\ ~cmd.service => loose' = loose \cup {"version"}
      BY <1>1, <2>7, GoType, DoneType DEF MoveIn, At, UpdateSteps, cfgVars, runVars
    <3>. QED BY <3>1 DEF RunOk, ConfigInForce, VersionInForce
  <2>. QED BY <1>3, <2>1, <2>2, <2>3, <2>4, <2>5, <2>6, <2>7 DEF CommandStep
<1>4. CASE Fail
  <2>1. CASE InstallFails
    <3>1. /\ UNCHANGED <<exe, old, file, wanted, proc>> /\ cmd'.pc = "idle"
          /\ loose' = loose \cup Unapplied
      BY <2>1, DoneType DEF InstallFails, binVars, runVars
    <3>. QED BY <3>1 DEF RunOk, ConfigInForce, VersionInForce, Unapplied
  <2>2. CASE UpdateFails \/ StopFails
    <3>1. /\ UNCHANGED <<exe, old, file, wanted, proc>>
          /\ cmd.pc \in {"copy", "copied", "out", "stop", "disable"}
          /\ \/ cmd'.pc \in {"idle", "start", "remove"} /\ loose' = loose
             \/ cmd'.pc = "copy" /\ loose' = loose \cup {"version"}
      BY <1>1, <2>2, GoType, DoneType
         DEF UpdateFails, StopFails, GiveUp, At, UpdateSteps, UninstallSteps,
             binVars, cfgVars, runVars
    <3>. QED BY <3>1 DEF RunOk, ConfigInForce, VersionInForce
  <2>3. CASE MoveInFails
    <3>1. /\ UNCHANGED <<file, wanted, proc, loose>> /\ cmd.pc = "in"
          /\ cmd'.pc \in {"idle", "start"} /\ exe' \in {old, exe}
      BY <1>1, <2>3, GoType, DoneType
         DEF MoveInFails, GiveUp, At, UpdateSteps, cfgVars, runVars
    <3>2. exe = None
      BY <1>1, <3>1 DEF UpdateOk
    <3>. QED BY <3>1, <3>2 DEF RunOk, ConfigInForce, VersionInForce
  <2>4. CASE StartFails
    <3>1. /\ UNCHANGED <<exe, old, file, wanted, proc>> /\ cmd'.pc = "idle"
          /\ loose' = loose \cup {"start"} /\ cmd.pc = "start"
      BY <2>4, DoneType DEF StartFails, At, binVars, cfgVars, runVars
    <3>. QED BY <3>1 DEF RunOk, ConfigInForce, VersionInForce
  <2>. QED BY <1>4, <2>1, <2>2, <2>3, <2>4 DEF Fail
<1>5. CASE Kill
  <2>1. /\ UNCHANGED <<exe, old, file, wanted, proc>> /\ cmd'.pc = "idle"
        /\ loose' = loose \cup Unapplied
    BY <1>5, DoneType DEF Kill, binVars, cfgVars, runVars
  <2>. QED BY <2>1 DEF RunOk, ConfigInForce, VersionInForce, Unapplied
<1>6. CASE StartProcess
  <2>1. /\ UNCHANGED <<exe, old, file, wanted, cmd>> /\ wanted /\ exe \in Releases
        /\ proc'.exe = exe /\ proc'.cfg = file
        /\ cmd.pc \in UpdateSteps => loose' = loose
    BY <1>6 DEF StartProcess, binVars, cfgVars
  <2>2. cmd.pc # "in"
    BY <1>1, <2>1 DEF UpdateOk
  <2>. QED BY <2>1, <2>2 DEF RunOk, ConfigInForce, VersionInForce, UpdateSteps
<1>7. CASE ProcessEnds \/ ServiceStop \/ Reboot
  <2>1. /\ UNCHANGED <<exe, old, file>> /\ proc' = None
        /\ \/ cmd'.pc = "idle"
           \/ UNCHANGED <<wanted, cmd, loose>>
    BY <1>7, DoneType DEF ProcessEnds, ServiceStop, Reboot, binVars, cfgVars, At
  <2>. QED BY <2>1 DEF RunOk, ConfigInForce, VersionInForce
<1>8. CASE ServiceStart \/ Publish
  <2>1. /\ UNCHANGED <<exe, old, file, proc, cmd, loose>>
        /\ (cmd.pc = "idle" \/ wanted' = wanted)
    BY <1>8 DEF ServiceStart, Publish, binVars, cfgVars, runVars, At
  <2>. QED BY <2>1 DEF RunOk, ConfigInForce, VersionInForce
<1>. QED BY <1>2, <1>3, <1>4, <1>5, <1>6, <1>7, <1>8 DEF Next

\* Where a running service stands towards the file and the binary on disk, in
\* every behaviour (runInstall, runUpdate, runUninstall and the service manager).
LEMMA RunInvariant == Spec => []RunOk
<1>1. Init => RunOk
  BY DEF Init, Idle, RunOk, ConfigInForce, VersionInForce
<1>2. Inv /\ Inv' /\ RunOk /\ [Next]_vars => RunOk'
  <2>1. ASSUME RunOk, UNCHANGED vars PROVE RunOk'
    BY <2>1 DEF vars, binVars, cfgVars, runVars, RunOk, ConfigInForce, VersionInForce
  <2>. QED BY <2>1, RunStep
<1>. QED BY <1>1, <1>2, Invariant, PTL DEF Spec

\* A running service has the configuration of the file, unless a command failed
\* or was killed before it restarted the service (runInstall).
THEOREM ConfigIsInForce == Spec => []ConfigInForce
<1>1. RunOk => ConfigInForce
  BY DEF RunOk
<1>. QED BY <1>1, RunInvariant, PTL

\* A running service is the installed version, unless an update or a stop left
\* the old process running (runUpdate, ApplyUpdate).
THEOREM VersionIsInForce == Spec => []VersionInForce
<1>1. RunOk => VersionInForce
  BY DEF RunOk
<1>. QED BY <1>1, RunInvariant, PTL

\* An install changes the fields it was called with (MergeInstallConfig, Save).
THEOREM InstallKeepsFields == Spec => FieldsKept
<1>1. Inv /\ [Next]_vars =>
         [(file \in Configs /\ file' \in Configs) =>
             \A x \in Fields : file'[x] # file[x] => \E flags \in Flags : flags[x] = file'[x]]_vars
  <2> SUFFICES ASSUME Inv, Next, file \in Configs, file' \in Configs
               PROVE  \A x \in Fields : file'[x] # file[x] =>
                          \E flags \in Flags : flags[x] = file'[x]
    OBVIOUS
  <2>1. CASE Rename
    BY <2>1 DEF Rename, At, Inv, InstallOk, SaveSteps
  <2>2. CASE ~Rename
    <3>1. file' = file
      BY <2>2 DEF Next, BeginInstall, BeginUninstall, BeginUpdate, Begin, CommandStep,
         Save, Saved, WriteUnit, Reload, Enable, Restart, Disable, Remove, Stop, Copy,
         Copied, ClearOld, MoveOut, MoveIn, Start, Fail, InstallFails, UpdateFails,
         MoveInFails, StopFails, StartFails, Kill, StartProcess, ProcessEnds, ServiceStart,
         ServiceStop, Reboot, Publish, cfgVars
    <3>. QED BY <3>1
  <2>. QED BY <2>1, <2>2
<1>. QED BY <1>1, Invariant, PTL DEF Spec, FieldsKept

=============================================================================
