----------------------------- MODULE Installer -----------------------------
(***************************************************************************)
(* install-calaja-miner.sh on a rig: one action per function of its main   *)
(* that changes the rig.  A function may fail, which ends the script (set  *)
(* -e), and the power may fail between any two steps; the owner then runs  *)
(* the script again.  The agent's POST changes the settings while it runs. *)
(*                                                                         *)
(* Two files hold what the script promises to preserve: agent/config.json, *)
(* the identity of the rig, and config.json, the settings of xmrig.  Of    *)
(* these the script reads a part ("pool": the first pool's address and     *)
(* login, the threads and a few options more) and not the rest (the        *)
(* algorithm, TLS, further pools, the other options).  What is in a part   *)
(* is one value: the rig's "own", the "panel"'s, what the script makes up  *)
(* or has written into it ("new"), or the "repo"'s: the repository holds   *)
(* the files of a rig of its own.                                          *)
(***************************************************************************)
EXTENDS Integers

CONSTANTS
    Preserve,       \* PRESERVE_CONFIG
    BackupOld,      \* BACKUP_OLD
    MaxRuns,        \* bound: installations and updates the owner wants
    MaxFailures,    \* bound: tries of the script that fail
    MaxPosts        \* bound: POSTs of the panel

Files == {"agent", "xmrig"}
Parts == {"agent", "pool", "rest"}
PartsOf(f) == IF f = "agent" THEN {"agent"} ELSE {"pool", "rest"}
Settings == PartsOf("xmrig")
Values == {"own", "panel", "new", "repo"}
None == "none"      \* no file, or nothing read from it
Cut == "cut"        \* a file truncated and not written

ASSUME OptionsAssumption == Preserve \in BOOLEAN /\ BackupOld \in BOOLEAN
ASSUME BoundsAssumption == MaxRuns \in Nat /\ MaxFailures \in Nat /\ MaxPosts \in Nat

VARIABLES
    config,         \* what is in each part of the files
    backups,        \* the backups of both files
    binary, venv,   \* xmrig/build/xmrig, agent/venv
    units,          \* are the units installed and enabled?
    miner,          \* the settings xmrig runs with, if it runs
    agentUp,        \* does the agent answer?
    pc,             \* the next function of main
    mode,           \* INSTALL_MODE
    existing,       \* EXISTING_*: what read_existing_config found
    copied,         \* the files rsync brought
    runs, failures, posts,
    wanted          \* the last value someone chose for each part

rig   == <<config, binary, venv, units>>
live  == <<miner, agentUp>>
local == <<mode, existing, copied>>
vars  == <<rig, backups, live, pc, local, runs, failures, posts, wanted>>

Functions == {"read", "stop", "remove", "backup", "wipe", "files", "venv", "build",
              "agentOpen", "agentWrite", "xmrigOpen", "xmrigWrite", "units", "start"}
Configs == [Parts -> Values \cup {None, Cut}]

TypeOK ==
    /\ config \in Configs
    /\ backups \subseteq Configs
    /\ binary \in BOOLEAN /\ venv \in BOOLEAN /\ units \in BOOLEAN
    /\ miner \in [Settings -> Values \cup {None}] /\ agentUp \in BOOLEAN
    /\ pc \in Functions \cup {"idle", "done", "failed"}
    /\ mode \in {"update", "clean"}
    /\ existing \in [Parts -> Values \cup {None}]
    /\ copied \subseteq Files
    /\ runs \in 0..MaxRuns /\ failures \in 0..MaxFailures /\ posts \in 0..MaxPosts
    /\ wanted \in [Parts -> Values \cup {None}]

Nothing == [p \in Parts |-> None]

\* A machine without the software, or a rig that mines
Init ==
    /\ \E isRig \in BOOLEAN :
        /\ config = IF isRig THEN [p \in Parts |-> "own"] ELSE Nothing
        /\ wanted = IF isRig THEN [p \in Parts |-> "own"] ELSE Nothing
        /\ miner = [p \in Settings |-> IF isRig THEN "own" ELSE None]
        /\ binary = isRig /\ venv = isRig /\ units = isRig /\ agentUp = isRig
    /\ backups = {} /\ pc = "idle" /\ mode = "update"
    /\ existing = Nothing /\ copied = {}
    /\ runs = 0 /\ failures = 0 /\ posts = 0

Directory == config # Nothing
At(from, to) == pc = from /\ pc' = to

----------------------------------------------------------------------------
(* main, function by function *)

NotMain == <<runs, failures, posts, wanted>>

\* decide_install_mode: a machine without an installation is installed clean.
Decide ==
    /\ \/ pc = "failed" /\ UNCHANGED runs
       \/ pc \in {"idle", "done"} /\ runs < MaxRuns /\ runs' = runs + 1
    /\ pc' = "read"
    /\ mode' \in IF Directory \/ units THEN {"update", "clean"} ELSE {"clean"}
    /\ existing' = Nothing /\ copied' = {}
    /\ UNCHANGED <<rig, backups, live, failures, posts, wanted>>

Readable(p) == IF config[p] \in Values THEN config[p] ELSE None

\* Mistake: the files of the clone in TMP_DIR are read.
ReadClone ==
    /\ At("read", "stop")
    /\ existing' = [p \in Parts |-> "repo"]
    /\ UNCHANGED <<rig, backups, live, mode, copied, NotMain>>

\* read_existing_config: a file that is no JSON reads as nothing, and the rest
\* of the settings is not read at all.
ReadExisting ==
    /\ At("read", "stop")
    /\ existing' = IF Preserve THEN [p \in Parts |-> IF p = "rest" THEN None ELSE Readable(p)]
                   ELSE existing
    /\ UNCHANGED <<rig, backups, live, mode, copied, NotMain>>

\* stop_old_services
Stop ==
    /\ At("stop", IF mode = "clean" THEN "remove" ELSE "backup")
    /\ miner' = [p \in Settings |-> None] /\ agentUp' = FALSE
    /\ UNCHANGED <<rig, backups, local, NotMain>>

\* remove_old_services
Remove ==
    /\ At("remove", "backup")
    /\ units' = FALSE
    /\ UNCHANGED <<config, binary, venv, backups, live, local, NotMain>>

AfterBackup == IF Directory /\ mode = "clean" THEN "wipe" ELSE "files"

\* Mistake: there is one backup, which each run overwrites.
BackupOne ==
    /\ At("backup", AfterBackup)
    /\ backups' = IF BackupOld /\ Directory THEN {config} ELSE backups
    /\ UNCHANGED <<rig, live, local, NotMain>>

\* install_files: cp -a
Backup ==
    /\ At("backup", AfterBackup)
    /\ backups' = IF BackupOld /\ Directory THEN backups \cup {config} ELSE backups
    /\ UNCHANGED <<rig, live, local, NotMain>>

\* rm -rf
Wipe ==
    /\ At("wipe", "files")
    /\ config' = Nothing /\ binary' = FALSE /\ venv' = FALSE
    /\ UNCHANGED <<units, backups, live, local, NotMain>>

\* Mistake: the files of the rig are left alone.
CopyNew(f) ==
    /\ pc = "files" /\ f \notin copied
    /\ config' = [p \in Parts |-> IF p \in PartsOf(f) /\ config[p] = None THEN "repo" ELSE config[p]]
    /\ copied' = copied \cup {f}
    /\ pc' = IF copied' = Files THEN "venv" ELSE "files"
    /\ UNCHANGED <<binary, venv, units, backups, live, mode, existing, NotMain>>

\* rsync --delete replaces the files one by one, the rig's by the repository's.
Copy(f) ==
    /\ pc = "files" /\ f \notin copied
    /\ config' = [p \in Parts |-> IF p \in PartsOf(f) THEN "repo" ELSE config[p]]
    /\ copied' = copied \cup {f}
    /\ pc' = IF copied' = Files THEN "venv" ELSE "files"
    /\ UNCHANGED <<binary, venv, units, backups, live, mode, existing, NotMain>>

\* setup_agent_venv
Venv ==
    /\ At("venv", "build")
    /\ venv' = TRUE
    /\ UNCHANGED <<config, binary, units, backups, live, local, NotMain>>

\* build_xmrig_if_needed
Build ==
    /\ At("build", "agentOpen")
    /\ binary' = TRUE
    /\ UNCHANGED <<config, venv, units, backups, live, local, NotMain>>

\* write_configs: a value that was read, or one made up.  The algorithm, TLS and
\* the list of pools are written into the script; the other options come with
\* the repository's file.
Chosen(p) == IF existing[p] = None THEN "new" ELSE existing[p]

\* write_configs changes what it can read of a file; it truncates it ...
Open(f, from, to) ==
    /\ At(from, to)
    /\ \A p \in PartsOf(f) : config[p] \in Values
    /\ config' = [p \in Parts |-> IF p \in PartsOf(f) THEN Cut ELSE config[p]]
    /\ UNCHANGED <<binary, venv, units, backups, live, local, NotMain>>

\* ... and writes it.
Write(f, from, to) ==
    /\ At(from, to)
    /\ config' = [p \in Parts |-> IF p \in PartsOf(f) THEN Chosen(p) ELSE config[p]]
    /\ UNCHANGED <<binary, venv, units, backups, live, local, NotMain>>

WriteConfigs ==
    \/ Open("agent", "agentOpen", "agentWrite") \/ Write("agent", "agentWrite", "xmrigOpen")
    \/ Open("xmrig", "xmrigOpen", "xmrigWrite") \/ Write("xmrig", "xmrigWrite", "units")

\* Mistake: the units are installed, not enabled.
InstallUnitsOnly == At("units", "start") /\ UNCHANGED <<rig, backups, live, local, NotMain>>

\* install_services
InstallUnits ==
    /\ At("units", "start")
    /\ units' = TRUE
    /\ UNCHANGED <<config, binary, venv, backups, live, local, NotMain>>

\* start_services, which looks whether both run
StartServices ==
    /\ At("start", "done")
    /\ miner' = [p \in Settings |-> config[p]] /\ agentUp' = TRUE
    /\ wanted' = [p \in Parts |-> IF wanted[p] = None THEN config[p] ELSE wanted[p]]
    /\ UNCHANGED <<rig, backups, local, runs, failures, posts>>

Main ==
    \/ ReadExisting \/ Stop \/ Remove \/ Backup \/ Wipe \/ (\E f \in Files : Copy(f))
    \/ Venv \/ Build \/ WriteConfigs \/ InstallUnits \/ StartServices

----------------------------------------------------------------------------
(* What comes between *)

\* A function fails, or what comes before it: apt, git, cp, rsync, pip, cmake,
\* systemctl.  Stopping and removing the units ignore errors.
Fail ==
    /\ pc \in Functions \ {"stop", "remove"}
    /\ failures < MaxFailures
    /\ failures' = failures + 1
    /\ pc' = "failed"
    /\ UNCHANGED <<rig, backups, live, local, runs, posts, wanted>>

\* The power fails and comes back: enabled units start what is there.
PowerCycle ==
    /\ failures < MaxFailures
    /\ failures' = failures + 1
    /\ pc' = IF pc \in Functions THEN "failed" ELSE pc
    /\ miner' = [p \in Settings |-> IF units /\ binary THEN Readable(p) ELSE None]
    /\ agentUp' = (units /\ venv)
    /\ UNCHANGED <<rig, backups, local, runs, posts, wanted>>

\* The value of the panel for the settings, and what is there for the identity
Panel(parts) == [p \in Parts |-> IF p \in Settings THEN "panel" ELSE parts[p]]

\* update_config: the whole file is the panel's, and xmrig restarted.
PanelPost ==
    /\ agentUp /\ posts < MaxPosts
    /\ config["agent"] \in Values
    /\ posts' = posts + 1
    /\ config' = Panel(config) /\ wanted' = Panel(wanted)
    /\ miner' = [p \in Settings |-> IF binary THEN "panel" ELSE miner[p]]
    /\ UNCHANGED <<binary, venv, units, backups, agentUp, pc, local, runs, failures>>

Next == Decide \/ Main \/ Fail \/ PowerCycle \/ PanelPost

\* The script runs, and a try that failed is followed by another.
Spec == /\ Init /\ [][Next]_vars
        /\ WF_vars(Main) /\ WF_vars(pc = "failed" /\ Decide)

----------------------------------------------------------------------------
(* Properties *)

InBackup(p) == \E b \in backups : b[p] = wanted[p]

\* With backups on, what the owner and the panel chose is never out of reach:
\* it is in the installation or in a backup, whatever fails, in either mode.
ChoiceRecoverable ==
    BackupOld => \A p \in Parts :
        wanted[p] # None => config[p] = wanted[p] \/ InBackup(p)

\* Without interruptions an update or a reinstallation leaves a rig its identity,
\* its pool and the options the script reads; those of a POST that came while it
\* ran are in the backup.  The rest of the settings is not preserved: the script
\* overwrites it, and only ChoiceRecoverable speaks of it.
Preserved ==
    Preserve /\ pc = "done" /\ failures = 0 =>
        /\ config["agent"] = wanted["agent"]
        /\ \/ config["pool"] = wanted["pool"]
           \/ posts > 0 /\ BackupOld /\ InBackup("pool")

\* When the script ends both services run, and they will after the next boot.
DoneIsComplete ==
    pc = "done" => /\ units /\ binary /\ venv
                   /\ \A p \in Parts : config[p] \in Values
                   /\ agentUp /\ miner = [p \in Settings |-> config[p]]

\* An installation that failed can be repeated until it ends, whatever it left.
RepeatedEnds == pc = "read" ~> pc = "done"

\* "preserva rig_id, worker": the identity of a rig is its own, or one made up.
IdentityPreserved == Preserve /\ pc = "done" => config["agent"] # "repo"
=============================================================================
