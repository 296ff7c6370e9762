------------------------------ MODULE ClientHost ------------------------------
(***************************************************************************)
(* The client on its machine, under systemd: `service install`,            *)
(* `uninstall`, `start`, `stop` and `update apply` (cmd/client/main.go,    *)
(* internal/clientapp, internal/clientcfg, internal/service), the files    *)
(* they leave behind and the process the service manager keeps running.    *)
(*                                                                         *)
(* A command is a sequence of steps on files and on the service manager;   *)
(* it may fail at one of them, and be killed between any two.  One command *)
(* runs at a time.  A file being written is Part until it is whole.        *)
(*                                                                         *)
(* A version is a triple of numbers; "dev" builds are left out.  A flag    *)
(* that is not given is Unset.  The unit always names the same executable  *)
(* and configuration, so it is None, Part or Whole.                        *)
(***************************************************************************)
EXTENDS Integers

CONSTANTS
    Releases,     \* versions published or installed
    Fields,       \* of the configuration
    Values, Default,      \* what a field holds; what an empty one gets
    Unset,
    Flags,        \* what installs are called with
    None, Part,   \* no such file; a file that is being written
    Whole,        \* a unit file as Install writes it
    MaxCommands, MaxFailures, MaxKills     \* bounds

Configs == [Fields -> Values]

ASSUME ReleasesAssumption == Releases \subseteq Nat \X Nat \X Nat
ASSUME ValuesAssumption == Default \in Values /\ Unset \notin Values
ASSUME FlagsAssumption == Flags \subseteq [Fields -> Values \cup {Unset}]
ASSUME FileAssumption ==
    /\ None # Part /\ None # Whole /\ Part # Whole
    /\ {None, Part} \cap (Releases \cup Configs) = {}
ASSUME BoundsAssumption ==
    MaxCommands \in Nat /\ MaxFailures \in Nat /\ MaxKills \in Nat

VARIABLES
    exe, new, old,        \* the executable, exe.new and exe.old
    file, tmp,            \* config.json and config.json.tmp
    unit, enabled,        \* the unit file; whether it starts with the machine
    wanted,               \* whether the service manager is to keep it running
    proc,                 \* the client process, or None
    release,              \* what GitHub has for the latest
    cmd,                  \* the command under way
    loose,                \* what a command left to the next start
    commands, failures, kills

binVars == <<exe, new, old>>
cfgVars == <<file, tmp>>
unitVars == <<unit, enabled>>
runVars == <<wanted, proc>>
boundVars == <<commands, failures, kills>>
vars == <<binVars, cfgVars, unitVars, runVars, release, cmd, loose, boundVars>>

-----------------------------------------------------------------------------
(* Pure parts                                                              *)

\* Sensitivity variant of IsNewer: by any number that differs.
IsNewerAnywhere(l, c) == \E i \in 1 .. 3 : l[i] > c[i]

\* isNewerVersion: by the first number that differs.
IsNewer(l, c) ==
    \E i \in 1 .. 3 : l[i] > c[i] /\ \A j \in 1 .. (i - 1) : l[j] = c[j]

\* Sensitivity variant of Merged: from the flags alone.
MergedAnew(f, flags) ==
    [x \in Fields |-> IF flags[x] # Unset THEN flags[x] ELSE Default]

\* MergeInstallConfig: a flag that is given wins, then the file, then the
\* default.
Merged(f, flags) ==
    [x \in Fields |-> IF flags[x] # Unset THEN flags[x]
                      ELSE IF f = None THEN Default ELSE f[x]]

-----------------------------------------------------------------------------
(* Commands                                                                *)

InstallSteps == {"save", "saved", "rename", "unit", "reload", "enable", "restart"}
UpdateSteps == {"stop", "copy", "copied", "clear", "out", "in", "start"}
UninstallSteps == {"disable", "remove"}

Idle == [pc |-> "idle", what |-> None, service |-> FALSE]

At(pc) == cmd.pc = pc
Go(pc) == cmd' = [cmd EXCEPT !.pc = pc]
Done == cmd' = Idle

\* A command is started from the executable.
Begin(c) ==
    /\ At("idle") /\ commands < MaxCommands
    /\ exe \in Releases
    /\ commands' = commands + 1
    /\ cmd' = c
    /\ UNCHANGED <<binVars, cfgVars, unitVars, runVars, release, loose, failures, kills>>

BeginInstall ==
    \E flags \in Flags :
        Begin([pc |-> "save", what |-> Merged(file, flags), service |-> FALSE])

BeginUninstall == Begin([pc |-> "disable", what |-> None, service |-> FALSE])

\* CheckUpdate and what runUpdate makes of it, with and without -service.
BeginUpdate ==
    /\ exe \in Releases /\ IsNewer(release, exe)
    /\ \E s \in BOOLEAN :
          Begin([pc |-> IF s THEN "stop" ELSE "copy", what |-> release, service |-> s])

-----------------------------------------------------------------------------
(* service install                                                         *)

\* clientcfg.Save: the temporary file, then a rename.
Save == At("save") /\ Go("saved") /\ tmp' = Part /\ UNCHANGED <<binVars, file, unitVars, runVars, loose>>
Saved == At("saved") /\ Go("rename") /\ tmp' = cmd.what /\ UNCHANGED <<binVars, file, unitVars, runVars, loose>>
Rename ==
    /\ At("rename") /\ Go("unit")
    /\ file' = tmp /\ tmp' = None
    /\ UNCHANGED <<binVars, unitVars, runVars, loose>>

\* service.Install: the unit file, daemon-reload, enable, restart.
WriteUnit == At("unit") /\ Go("reload") /\ unit' = Part /\ UNCHANGED <<binVars, cfgVars, enabled, runVars, loose>>
Reload == At("reload") /\ Go("enable") /\ unit' = Whole /\ UNCHANGED <<binVars, cfgVars, enabled, runVars, loose>>
Enable == At("enable") /\ Go("restart") /\ enabled' = TRUE /\ UNCHANGED <<binVars, cfgVars, unit, runVars, loose>>

\* Sensitivity variant of Restart: start, which leaves a running process be.
StartOnly ==
    /\ At("restart") /\ Done
    /\ wanted' = TRUE
    /\ UNCHANGED <<binVars, cfgVars, unitVars, proc, loose>>

Restart ==
    /\ At("restart") /\ Done
    /\ wanted' = TRUE /\ proc' = None
    /\ UNCHANGED <<binVars, cfgVars, unitVars, loose>>

-----------------------------------------------------------------------------
(* service uninstall                                                       *)

Disable ==
    /\ At("disable") /\ Go("remove")
    /\ enabled' = FALSE /\ wanted' = FALSE /\ proc' = None
    /\ UNCHANGED <<binVars, cfgVars, unit, loose>>

\* Without its unit the service is not started again.
Remove ==
    /\ At("remove") /\ Done
    /\ unit' = None /\ wanted' = FALSE
    /\ UNCHANGED <<binVars, cfgVars, enabled, proc, loose>>

-----------------------------------------------------------------------------
(* update apply                                                            *)

\* Sensitivity variant of Stop: the process is left running.
NoStop ==
    At("stop") /\ Go("copy") /\ UNCHANGED <<binVars, cfgVars, unitVars, runVars, loose>>

Stop ==
    /\ At("stop") /\ Go("copy")
    /\ wanted' = FALSE /\ proc' = None
    /\ UNCHANGED <<binVars, cfgVars, unitVars, loose>>

\* Sensitivity variant of Copy: onto the executable itself.
CopyInPlace ==
    /\ At("copy") /\ Go("copied")
    /\ exe' = Part
    /\ UNCHANGED <<new, old, cfgVars, unitVars, runVars, loose>>

\* Download, extract, and copyFile to exe.new.
Copy ==
    /\ At("copy") /\ Go("copied")
    /\ new' = Part
    /\ UNCHANGED <<exe, old, cfgVars, unitVars, runVars, loose>>
Copied ==
    /\ At("copied") /\ Go("clear")
    /\ new' = cmd.what
    /\ UNCHANGED <<exe, old, cfgVars, unitVars, runVars, loose>>

ClearOld ==
    /\ At("clear") /\ Go("out")
    /\ old' = None
    /\ UNCHANGED <<exe, new, cfgVars, unitVars, runVars, loose>>

\* Sensitivity variant of MoveOut: the executable is removed.
RemoveExe ==
    /\ At("out") /\ Go("in")
    /\ exe' = None
    /\ UNCHANGED <<new, old, cfgVars, unitVars, runVars, loose>>

MoveOut ==
    /\ At("out") /\ Go("in")
    /\ old' = exe /\ exe' = None
    /\ UNCHANGED <<new, cfgVars, unitVars, runVars, loose>>

\* With -service the service is started; without it, it is left as it runs.
MoveIn ==
    /\ At("in")
    /\ IF cmd.service THEN Go("start") /\ UNCHANGED loose
       ELSE Done /\ loose' = loose \cup {"version"}
    /\ exe' = new /\ new' = None
    /\ UNCHANGED <<old, cfgVars, unitVars, runVars>>

\* service.Start
Start ==
    /\ At("start") /\ Done
    /\ wanted' = (wanted \/ unit = Whole)
    /\ UNCHANGED <<binVars, cfgVars, unitVars, proc, loose>>

\* systemctl start failed.  runUpdate returns it, or drops it after an error of
\* ApplyUpdate; the service stays as it is.
StartFails ==
    /\ At("start") /\ Done
    /\ loose' = loose \cup {"start"}
    /\ failures' = failures + 1
    /\ UNCHANGED <<binVars, cfgVars, unitVars, runVars>>

CommandStep ==
    /\ \/ Save \/ Saved \/ Rename \/ WriteUnit \/ Reload \/ Enable \/ Restart
       \/ Disable \/ Remove
       \/ Stop \/ Copy \/ Copied \/ ClearOld \/ MoveOut \/ MoveIn \/ Start
    /\ UNCHANGED <<release, boundVars>>

-----------------------------------------------------------------------------
(* Steps that fail, commands that are killed                               *)

\* What an install that stops here has written and not put in force.
Unapplied ==
    IF cmd.pc \in {"unit", "reload", "enable", "restart"} THEN {"config"} ELSE {}

\* An install returns the error; a rename that failed removes its source.
InstallFails ==
    /\ cmd.pc \in InstallSteps /\ Done
    /\ tmp' = (IF At("rename") THEN None ELSE tmp)
    /\ loose' = loose \cup Unapplied
    /\ failures' = failures + 1
    /\ UNCHANGED <<binVars, file, runVars, unitVars>>

\* Sensitivity variant of GiveUp: the service is not started again.
GiveUpStopped == Done

\* ApplyUpdate returned an error: with -service the service is started.
GiveUp == IF cmd.service THEN Go("start") ELSE Done

UpdateFails ==
    /\ cmd.pc \in {"copy", "copied", "out"}
    /\ GiveUp
    /\ failures' = failures + 1
    /\ UNCHANGED <<binVars, cfgVars, runVars, unitVars, loose>>

\* The second rename failed; the rollback may fail too.
MoveInFails ==
    /\ At("in") /\ GiveUp
    /\ \/ exe' = old /\ old' = None /\ failures' = failures + 1
       \/ failures + 2 <= MaxFailures /\ failures' = failures + 2 /\ UNCHANGED <<exe, old>>
    /\ UNCHANGED <<new, cfgVars, runVars, unitVars, loose>>

\* What Stop and Uninstall get back from systemctl is dropped.
StopFails ==
    /\ \/ At("stop") /\ Go("copy") /\ loose' = loose \cup {"version"}
       \/ At("disable") /\ Go("remove") /\ UNCHANGED loose
    /\ failures' = failures + 1
    /\ UNCHANGED <<binVars, cfgVars, runVars, unitVars>>

Fail ==
    /\ failures < MaxFailures
    /\ InstallFails \/ UpdateFails \/ MoveInFails \/ StopFails \/ StartFails
    /\ UNCHANGED <<release, commands, kills>>

Kill ==
    /\ ~At("idle") /\ kills < MaxKills
    /\ kills' = kills + 1
    /\ Done
    /\ loose' = loose \cup Unapplied
    /\ UNCHANGED <<binVars, cfgVars, unitVars, runVars, release, commands, failures>>

-----------------------------------------------------------------------------
(* The service manager, its user, the machine                              *)

\* LoadMerged, from the file the unit names.  Started in the midst of an update
\* it may still be of the version that goes.
StartProcess ==
    /\ wanted /\ proc = None
    /\ exe \in Releases /\ file \in Configs
    /\ proc' = [exe |-> exe, cfg |-> file]
    /\ loose' = (IF cmd.pc \in UpdateSteps THEN loose ELSE {})
    /\ UNCHANGED <<binVars, cfgVars, unitVars, wanted, release, cmd, boundVars>>

\* A fatal error, a crash: Restart=always has it started again.
ProcessEnds ==
    /\ proc # None /\ proc' = None
    /\ UNCHANGED <<binVars, cfgVars, unitVars, wanted, release, cmd, loose, boundVars>>

ServiceStart ==
    /\ At("idle") /\ unit = Whole
    /\ wanted' = TRUE
    /\ UNCHANGED <<binVars, cfgVars, unitVars, proc, release, cmd, loose, boundVars>>

ServiceStop ==
    /\ At("idle")
    /\ wanted' = FALSE /\ proc' = None
    /\ UNCHANGED <<binVars, cfgVars, unitVars, release, cmd, loose, boundVars>>

\* The machine goes down, with the command that was under way.
Reboot ==
    /\ kills < MaxKills /\ kills' = kills + 1
    /\ Done
    /\ loose' = loose \cup Unapplied
    /\ wanted' = (enabled /\ unit = Whole) /\ proc' = None
    /\ UNCHANGED <<binVars, cfgVars, unitVars, release, commands, failures>>

\* A release is published, or withdrawn.
Publish ==
    /\ release' \in Releases
    /\ UNCHANGED <<binVars, cfgVars, unitVars, runVars, cmd, loose, boundVars>>

-----------------------------------------------------------------------------
Init ==
    /\ exe \in Releases /\ new = None /\ old = None
    /\ file = None /\ tmp = None
    /\ unit = None /\ enabled = FALSE /\ wanted = FALSE /\ proc = None
    /\ release \in Releases
    /\ cmd = Idle /\ loose = {}
    /\ commands = 0 /\ failures = 0 /\ kills = 0

Next ==
    \/ BeginInstall \/ BeginUninstall \/ BeginUpdate
    \/ CommandStep \/ Fail \/ Kill
    \/ StartProcess \/ ProcessEnds \/ ServiceStart \/ ServiceStop \/ Reboot
    \/ Publish

\* A command that is not killed goes on: its downloads and calls time out.
Spec == Init /\ [][Next]_vars /\ WF_vars(CommandStep)

-----------------------------------------------------------------------------
TypeOK ==
    /\ exe \in Releases \cup {None, Part} /\ new \in Releases \cup {None, Part}
    /\ old \in Releases \cup {None, Part}
    /\ file \in Configs \cup {None, Part} /\ tmp \in Configs \cup {None, Part}
    /\ unit \in {None, Part, Whole} /\ enabled \in BOOLEAN /\ wanted \in BOOLEAN
    /\ proc \in [exe : Releases, cfg : Configs] \cup {None}
    /\ release \in Releases
    /\ cmd \in [pc : {"idle"} \cup InstallSteps \cup UpdateSteps \cup UninstallSteps,
                what : Configs \cup Releases \cup {None}, service : BOOLEAN]
    /\ loose \subseteq {"config", "version", "start"}
    /\ commands \in 0 .. MaxCommands /\ failures \in 0 .. MaxFailures
    /\ kills \in 0 .. MaxKills

\* Neither the executable nor the configuration is ever half written, wherever
\* a command fails or is killed: Save is "atomic (temp + rename)", and
\* ApplyUpdate writes beside the executable first.
NeverTorn == exe # Part /\ file # Part

\* A whole executable is on disk at all times, at its place or as exe.old:
\* ApplyUpdate removes exe.old only while the executable is there.
BinaryKept == exe \in Releases \/ old \in Releases

\* The order of releases: by major number, then minor, then patch.
Later(a, b) ==
    \/ a[1] > b[1]
    \/ a[1] = b[1] /\ a[2] > b[2]
    \/ a[1] = b[1] /\ a[2] = b[2] /\ a[3] > b[3]

\* What an update replaced is older than what replaced it, whatever is
\* published, withdrawn, failed or rolled back in between.
NoDowngrade == exe \in Releases /\ old \in Releases => Later(exe, old)

\* A running service has the configuration of the file, except while an install
\* is on its way to the restart, or after it was cut short there.
ConfigInForce ==
    proc # None /\ proc.cfg # file =>
        "config" \in loose \/ cmd.pc \in {"unit", "reload", "enable", "restart"}

\* A running service is the installed version, except after an update without
\* -service or a stop that failed.
VersionInForce ==
    proc # None /\ exe \in Releases /\ proc.exe # exe => "version" \in loose

\* "update token only (other fields kept if present)": a field changes only to a
\* value some install was called with, never back to its default.
FieldsKept ==
    [][(file \in Configs /\ file' \in Configs) =>
          \A x \in Fields : file'[x] # file[x] => \E flags \in Flags : flags[x] = file'[x]]_vars

\* `update apply -service` on an installed service ends with a service that is
\* to run and can, with one step before the start failing: ApplyUpdate rolls
\* back, runUpdate starts the service after an error.  A start that fails, a
\* kill, or a rollback that fails may leave it down: runUpdate tries once.
ServiceComesBack ==
    (At("stop") /\ unit = Whole) ~>
        \/ At("idle") /\ wanted /\ exe \in Releases
        \/ "start" \in loose
        \/ kills > 0 \/ failures > 1
=============================================================================
