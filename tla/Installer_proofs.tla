-------------------------- MODULE Installer_proofs --------------------------
(***************************************************************************)
(* Proofs about Installer, for any number of runs, failures, power cuts    *)
(* and POSTs, and for every choice of the options: nothing that was chosen *)
(* for the rig is lost while backups are on, and a run that ended left a   *)
(* complete installation that runs.                                        *)
(***************************************************************************)
EXTENDS Installer, TLAPS

----------------------------------------------------------------------------
(* The inductive invariant *)

\* The types that the choices and the installation depend on
Types ==
    /\ config \in Configs
    /\ wanted \in [Parts -> Values \cup {None}]
    /\ existing \in [Parts -> Values \cup {None}]
    /\ copied \subseteq Files

InReach(p) == wanted[p] # None => config[p] = wanted[p] \/ InBackup(p)
Saved(p) == wanted[p] # None => InBackup(p)

\* From the stop of the services to their start the agent does not answer, and
\* from the backup on every choice is in a backup.
AfterStop == Functions \ {"read", "stop"}
PastBackup == AfterStop \ {"remove", "backup"}

Choices ==
    /\ pc \in AfterStop => ~agentUp
    /\ BackupOld => \A p \in Parts : InReach(p)
    /\ BackupOld /\ pc \in PastBackup => \A p \in Parts : Saved(p)

\* What each function finds done
Whole(f) == \A p \in PartsOf(f) : config[p] \in Values
AfterVenv   == {"build", "agentOpen", "agentWrite", "xmrigOpen", "xmrigWrite", "units", "start", "done"}
AfterBuild  == AfterVenv \ {"build"}
AgentWhole  == {"venv", "build", "agentOpen", "xmrigOpen", "xmrigWrite", "units", "start", "done"}
XmrigWhole  == {"venv", "build", "agentOpen", "agentWrite", "xmrigOpen", "units", "start", "done"}

Progress ==
    /\ pc = "files" => \A f \in copied : Whole(f)
    /\ pc \in AfterVenv => venv
    /\ pc \in AfterBuild => binary
    /\ pc \in AgentWhole => Whole("agent")
    /\ pc \in XmrigWhole => Whole("xmrig")
    /\ pc \in {"start", "done"} => units
    /\ pc = "done" => agentUp /\ miner = [p \in Settings |-> config[p]]

\* copied is empty until the copying begins.
Fresh == pc \in {"read", "stop", "remove", "backup", "wipe"} => copied = {}

InstallerInv == Types /\ Choices /\ Progress /\ Fresh

USE DEF Files, Parts, PartsOf, Settings, Values, None, Cut, Functions, AfterStop, PastBackup, AfterVenv, AfterBuild, AgentWhole, XmrigWhole

LEMMA InitInv == Init => InstallerInv
<1> SUFFICES ASSUME Init PROVE InstallerInv
  OBVIOUS
<1>1. Types
  BY DEF Init, Types, Configs, Nothing
<1>2. Choices
  BY DEF Init, Choices, InReach, Nothing
<1>3. Progress /\ Fresh
  BY DEF Init, Progress, Fresh
<1> QED
  BY <1>1, <1>2, <1>3 DEF InstallerInv

\* A step that leaves the files, the backups and the choices alone.
LEMMA SameChoices ==
    ASSUME Choices, UNCHANGED <<config, backups, wanted>>,
           pc' \in AfterStop => ~agentUp',
           pc' \in PastBackup => pc \in PastBackup
    PROVE  Choices'
  BY DEF Choices, InReach, Saved, InBackup

\* A step after the backup may change the files.
LEMMA SavedChoices ==
    ASSUME Choices, UNCHANGED <<backups, wanted, agentUp>>, pc \in PastBackup
    PROVE  Choices'
  BY DEF Choices, InReach, Saved, InBackup
----------------------------------------------------------------------------
(* The steps *)

\* Up to the backup nothing of the installation changes but the units.
LEMMA BeforeBackup ==
    ASSUME InstallerInv, Decide \/ ReadExisting \/ Stop \/ Remove
    PROVE  InstallerInv'
<1> USE DEF InstallerInv, rig, live, local, NotMain
<1>1. UNCHANGED <<config, backups, wanted>>
  BY DEF Decide, ReadExisting, Stop, Remove
<1>2. Types'
  <2>1. CASE ReadExisting
    BY <2>1, <1>1 DEF ReadExisting, Types, Configs, Readable
  <2>2. CASE Decide \/ Stop \/ Remove
    BY <2>2, <1>1 DEF Decide, Stop, Remove, Types, Nothing
  <2> QED BY <2>1, <2>2
<1>3. pc' \in {"read", "stop", "remove", "backup"}
  BY DEF Decide, ReadExisting, Stop, Remove, At
<1>4. pc' \in AfterStop => ~agentUp'
  BY DEF Decide, ReadExisting, Stop, Remove, At, Choices
<1>5. Choices'
  BY <1>1, <1>3, <1>4, SameChoices
<1>6. Progress'
  BY <1>3 DEF Progress
<1>7. Fresh'
  BY DEF Decide, ReadExisting, Stop, Remove, At, Fresh
<1> QED
  BY <1>2, <1>5, <1>6, <1>7

\* The backup holds every choice: what was not in a backup was in the files.
LEMMA BackupStep ==
    ASSUME InstallerInv, Backup
    PROVE  InstallerInv'
<1> USE DEF InstallerInv, rig, live, local, NotMain
<1>1. /\ UNCHANGED <<config, wanted, existing, copied, agentUp>>
      /\ pc = "backup" /\ pc' \in {"wipe", "files"}
      /\ backups' = IF BackupOld /\ Directory THEN backups \cup {config} ELSE backups
  BY DEF Backup, At, AfterBackup
<1>2. Types' /\ Progress' /\ Fresh'
  BY <1>1 DEF Types, Progress, Fresh
<1>3. ASSUME BackupOld, NEW p \in Parts, wanted[p] # None
      PROVE  \E b \in backups' : b[p] = wanted[p]
  <2>1. config[p] = wanted[p] \/ InBackup(p)
    BY <1>3 DEF Choices, InReach
  <2>2. CASE InBackup(p)
    BY <1>1, <2>2 DEF InBackup
  <2>3. CASE config[p] = wanted[p]
    <3>1. Directory
      BY <1>3, <2>3 DEF Directory, Nothing
    <3> QED
      BY <1>1, <1>3, <2>3, <3>1
  <2> QED BY <2>1, <2>2, <2>3
<1>4. Choices'
  BY <1>1, <1>3 DEF Choices, InReach, Saved, InBackup
<1> QED
  BY <1>2, <1>4

\* After the backup the functions put the installation together.
LEMMA AfterBackupSteps ==
    ASSUME InstallerInv,
           \/ Wipe \/ (\E f \in Files : Copy(f)) \/ Venv \/ Build
           \/ WriteConfigs \/ InstallUnits
    PROVE  InstallerInv'
<1> USE DEF InstallerInv, rig, live, local, NotMain
<1>1. CASE Wipe
  <2>1. Types' /\ Progress' /\ Fresh'
    BY <1>1 DEF Wipe, At, Types, Configs, Nothing, Progress, Fresh
  <2>2. Choices'
    BY <1>1, SavedChoices DEF Wipe, At
  <2> QED BY <2>1, <2>2
<1>2. ASSUME NEW f \in Files, Copy(f)
      PROVE  InstallerInv'
  <2>1. /\ config' = [p \in Parts |-> IF p \in PartsOf(f) THEN "repo" ELSE config[p]]
        /\ copied' = copied \cup {f}
        /\ pc = "files" /\ pc' = IF copied' = Files THEN "venv" ELSE "files"
        /\ UNCHANGED <<backups, wanted, agentUp, existing>>
    BY <1>2 DEF Copy
  <2>2. Types'
    BY <2>1 DEF Types, Configs
  <2>3. \A g \in copied' : Whole(g)'
    BY <2>1 DEF Types, Configs, Progress, Whole
  <2>4. Progress'
    BY <2>1, <2>3 DEF Progress
  <2>5. Choices'
    BY <2>1, SavedChoices
  <2>6. Fresh'
    BY <2>1 DEF Fresh
  <2> QED BY <2>2, <2>4, <2>5, <2>6
<1>3. CASE Venv \/ Build \/ InstallUnits
  <2>1. Types' /\ Fresh'
    BY <1>3 DEF Venv, Build, InstallUnits, At, Types, Fresh
  <2>2. Progress'
    BY <1>3 DEF Venv, Build, InstallUnits, At, Progress, Whole
  <2>3. Choices'
    BY <1>3, SavedChoices DEF Venv, Build, InstallUnits, At
  <2> QED BY <2>1, <2>2, <2>3
<1>4. ASSUME NEW f \in Files, NEW from, NEW to, Open(f, from, to) \/ Write(f, from, to),
             from \in PastBackup
      PROVE  Types' /\ Choices'
  <2>1. config' \in Configs
    BY <1>4 DEF Open, Write, Types, Configs, Chosen
  <2>2. UNCHANGED <<backups, wanted, agentUp, existing, copied>> /\ pc = from
    BY <1>4 DEF Open, Write, At
  <2> QED
    BY <1>4, <2>1, <2>2, SavedChoices DEF Types
<1>5. CASE WriteConfigs
  <2>1. Types' /\ Choices'
    BY <1>4, <1>5 DEF WriteConfigs
  <2>2. \A p \in Parts : Chosen(p) \in Values
    BY DEF Chosen, Types
  <2>3. Progress'
    <3>1. CASE Open("agent", "agentOpen", "agentWrite") \/ Open("xmrig", "xmrigOpen", "xmrigWrite")
      BY <3>1 DEF Open, At, Progress, Whole, Types, Configs
    <3>2. CASE Write("agent", "agentWrite", "xmrigOpen") \/ Write("xmrig", "xmrigWrite", "units")
      BY <2>2, <3>2 DEF Write, At, Progress, Whole, Types, Configs
    <3> QED BY <1>5, <3>1, <3>2 DEF WriteConfigs
  <2>4. Fresh'
    BY <1>5 DEF WriteConfigs, Open, Write, At, Fresh
  <2> QED BY <2>1, <2>3, <2>4
<1> QED
  BY <1>1, <1>2, <1>3, <1>5

\* The services start with what the functions left.
LEMMA StartStep ==
    ASSUME InstallerInv, StartServices
    PROVE  InstallerInv'
<1> USE DEF InstallerInv, rig, live, local
<1>1. /\ UNCHANGED <<config, binary, venv, units, backups, existing, copied>>
      /\ pc = "start" /\ pc' = "done" /\ agentUp' /\ miner' = [p \in Settings |-> config[p]]
      /\ wanted' = [p \in Parts |-> IF wanted[p] = None THEN config[p] ELSE wanted[p]]
  BY DEF StartServices, At
<1>2. \A f \in Files : Whole(f)
  BY <1>1 DEF Progress
<1>3. Types'
  BY <1>1, <1>2 DEF Types, Whole
<1>4. Choices'
  BY <1>1 DEF Choices, InReach, InBackup
<1>5. Progress' /\ Fresh'
  BY <1>1, <1>2 DEF Progress, Whole, Fresh
<1> QED
  BY <1>3, <1>4, <1>5

\* Failures, power cuts and POSTs, at any step.
LEMMA DisturbanceStep ==
    ASSUME InstallerInv, Fail \/ PowerCycle \/ PanelPost
    PROVE  InstallerInv'
<1> USE DEF InstallerInv, rig, live, local
<1>1. CASE Fail
  <2>1. UNCHANGED <<config, backups, wanted, existing, copied>> /\ pc' = "failed"
    BY <1>1 DEF Fail
  <2> QED
    BY <2>1, SameChoices DEF Types, Progress, Fresh
<1>2. CASE PowerCycle
  <2>1. /\ UNCHANGED <<config, binary, venv, units, backups, wanted, existing, copied>>
        /\ pc' = (IF pc \in Functions THEN "failed" ELSE pc)
        /\ miner' = [p \in Settings |-> IF units /\ binary THEN Readable(p) ELSE None]
        /\ agentUp' = (units /\ venv)
    BY <1>2 DEF PowerCycle
  <2>2. Types' /\ Fresh'
    BY <2>1 DEF Types, Fresh
  <2>3. Choices'
    BY <2>1, SameChoices
  <2>4. Progress'
    BY <2>1 DEF Progress, Whole, Readable
  <2> QED BY <2>2, <2>3, <2>4
<1>3. CASE PanelPost
  <2>1. /\ config' = Panel(config) /\ wanted' = Panel(wanted)
        /\ miner' = [p \in Settings |-> IF binary THEN "panel" ELSE miner[p]]
        /\ UNCHANGED <<binary, venv, units, backups, agentUp, pc, existing, copied>>
        /\ agentUp
    BY <1>3 DEF PanelPost
  <2>2. Types' /\ Fresh'
    BY <2>1 DEF Panel, Types, Configs, Fresh
  <2>3. pc \notin AfterStop
    BY <2>1 DEF Choices
  <2>4. Choices'
    BY <2>1, <2>3 DEF Panel, Choices, InReach, InBackup, Types, Configs
  <2>5. Progress'
    BY <2>1, <2>3 DEF Panel, Progress, Whole, Types, Configs
  <2> QED BY <2>2, <2>4, <2>5
<1> QED
  BY <1>1, <1>2, <1>3

LEMMA NextInv == InstallerInv /\ [Next]_vars => InstallerInv'
<1> SUFFICES ASSUME InstallerInv, [Next]_vars PROVE InstallerInv'
  OBVIOUS
<1>1. CASE UNCHANGED vars
  BY <1>1 DEF InstallerInv, Types, Choices, InReach, Saved, InBackup, Progress, Whole, Fresh,
              vars, rig, live, local
<1>2. CASE Next
  BY <1>2, BeforeBackup, BackupStep, AfterBackupSteps, StartStep, DisturbanceStep DEF Next, Main
<1> QED
  BY <1>1, <1>2

----------------------------------------------------------------------------
(* The theorems *)

\* With backups on, a value that the owner or the panel chose is in the
\* installation or in a backup, whatever fails and however often.
THEOREM NothingChosenIsLost == Spec => []ChoiceRecoverable
<1>1. InstallerInv => ChoiceRecoverable
  BY DEF InstallerInv, Choices, InReach, ChoiceRecoverable
<1> QED
  BY InitInv, NextInv, <1>1, PTL DEF Spec

\* A run that ended left everything in its place, and it stays so through power
\* cuts and POSTs until the next run.
THEOREM CompleteWhenDone == Spec => []DoneIsComplete
<1>1. InstallerInv => DoneIsComplete
  BY DEF InstallerInv, Progress, Whole, DoneIsComplete
<1> QED
  BY InitInv, NextInv, <1>1, PTL DEF Spec

----------------------------------------------------------------------------
(* What an uninterrupted run preserves *)

\* How a value travels: from the files to what the script read, and from there
\* back into the files, for the parts that are read.  Only a POST between reading
\* and the stop of the agent parts the settings of xmrig from what was read.
Kept(p, value) == value = wanted[p] \/ (p = "pool" /\ posts > 0)
Read == Parts \ {"rest"}
Untouched == {"idle", "read", "stop", "remove", "backup"}

Travels ==
    /\ pc # "failed"
    /\ pc \in Untouched \cup {"done"} => \A p \in Read : Kept(p, config[p])
    /\ pc \in Functions \ {"read"} => \A p \in Read : Kept(p, existing[p])
    /\ pc \in {"xmrigOpen", "xmrigWrite", "units", "start"} => config["agent"] = Chosen("agent")
    /\ pc \in {"units", "start"} => config["pool"] = Chosen("pool")
    /\ pc = "done" /\ BackupOld => config["pool"] = wanted["pool"] \/ InBackup("pool")

Numbers ==
    /\ failures \in Nat /\ posts \in Nat
    /\ posts > 0 => wanted["pool"] # None

TravelInv == Numbers /\ (Preserve /\ failures = 0 => Travels)

LEMMA NumbersStep == InstallerInv /\ Numbers /\ [Next]_vars => Numbers' /\ (failures' = 0 => failures = 0)
<1> SUFFICES ASSUME InstallerInv, Numbers, [Next]_vars
             PROVE  Numbers' /\ (failures' = 0 => failures = 0)
  OBVIOUS
<1> USE DEF Numbers, rig, live, local, NotMain
<1>1. CASE Fail \/ PowerCycle
  BY <1>1 DEF Fail, PowerCycle
<1>2. CASE PanelPost
  BY <1>2 DEF PanelPost, Panel
<1>3. CASE StartServices
  BY <1>3 DEF StartServices
<1>4. CASE UNCHANGED <<failures, posts, wanted>>
  BY <1>4
<1>5. Decide \/ ReadExisting \/ Stop \/ Remove \/ Backup \/ Wipe \/ Venv \/ Build \/ InstallUnits
        => UNCHANGED <<failures, posts, wanted>>
  BY DEF Decide, ReadExisting, Stop, Remove, Backup, Wipe, Venv, Build, InstallUnits
<1>6. (\E f \in Files : Copy(f)) \/ WriteConfigs => UNCHANGED <<failures, posts, wanted>>
  BY DEF Copy, WriteConfigs, Open, Write
<1>7. CASE UNCHANGED vars
  BY <1>4, <1>7 DEF vars
<1> QED
  BY <1>1, <1>2, <1>3, <1>4, <1>5, <1>6, <1>7 DEF Next, Main

\* Up to the backup: the files are read, and nothing of them changes.
LEMMA ReadTravels ==
    ASSUME InstallerInv, Numbers, Preserve, Travels,
           Decide \/ ReadExisting \/ Stop \/ Remove \/ Backup
    PROVE  Travels'
<1> USE DEF rig, live, local, NotMain, Kept, Untouched, Read, Travels
<1>1. CASE Decide
  BY <1>1 DEF Decide
<1>2. CASE ReadExisting
  <2>1. pc = "read" /\ pc' = "stop" /\ UNCHANGED <<config, wanted, posts>>
    BY <1>2 DEF ReadExisting, At
  <2>2. \A p \in Read : existing'[p] = Readable(p)
    BY <1>2 DEF ReadExisting, Read
  <2>3. wanted["agent"] \in Values \cup {None}
    BY DEF InstallerInv, Types
  <2>4. config["agent"] = wanted["agent"] /\ Kept("pool", config["pool"])
    BY <2>1 DEF Read
  <2>5. wanted["pool"] \in Values \cup {None}
    BY DEF InstallerInv, Types
  <2> QED
    BY <2>1, <2>2, <2>3, <2>4, <2>5 DEF Readable
<1>3. CASE Stop \/ Remove \/ Backup
  BY <1>3 DEF Stop, Remove, Backup, AfterBackup, At
<1> QED
  BY <1>1, <1>2, <1>3

\* From the backup to the start: what was read comes back into the files.
LEMMA WriteTravels ==
    ASSUME InstallerInv, Numbers, Preserve, Travels,
           \/ Wipe \/ (\E f \in Files : Copy(f)) \/ Venv \/ Build
           \/ WriteConfigs \/ InstallUnits
    PROVE  Travels'
<1> USE DEF rig, live, local, NotMain, Kept, Untouched, Read, Travels, Chosen
<1>1. CASE Wipe \/ Venv \/ Build \/ InstallUnits
  BY <1>1 DEF Wipe, Venv, Build, InstallUnits, At
<1>2. CASE \E f \in Files : Copy(f)
  BY <1>2 DEF Copy
<1>3. CASE Open("agent", "agentOpen", "agentWrite") \/ Open("xmrig", "xmrigOpen", "xmrigWrite")
  BY <1>3 DEF Open, At, InstallerInv, Types, Configs
<1>4. CASE Write("agent", "agentWrite", "xmrigOpen") \/ Write("xmrig", "xmrigWrite", "units")
  BY <1>4 DEF Write, At, InstallerInv, Types, Configs
<1> QED
  BY <1>1, <1>2, <1>3, <1>4 DEF WriteConfigs

\* The start takes what is new for chosen; a POST chooses.
LEMMA ChoiceTravels ==
    ASSUME InstallerInv, Numbers, Preserve, Travels, StartServices \/ PanelPost
    PROVE  Travels'
<1> USE DEF rig, live, local, Kept, Untouched, Read, Travels
<1>1. CASE StartServices
  <2>1. /\ pc = "start" /\ pc' = "done" /\ UNCHANGED <<config, existing, posts, backups>>
        /\ wanted' = [p \in Parts |-> IF wanted[p] = None THEN config[p] ELSE wanted[p]]
    BY <1>1 DEF StartServices, At
  <2>2. config["agent"] = wanted'["agent"]
    BY <2>1 DEF Chosen
  <2>3. config["pool"] = wanted'["pool"] \/ (posts > 0 /\ wanted["pool"] # None)
    BY <2>1 DEF Chosen, Numbers
  <2>4. BackupOld /\ wanted["pool"] # None => InBackup("pool")
    BY <2>1 DEF InstallerInv, Choices, Saved
  <2>5. wanted["pool"] # None => wanted'["pool"] = wanted["pool"]
    BY <2>1
  <2> QED
    BY <2>1, <2>2, <2>3, <2>4, <2>5 DEF InBackup
<1>2. CASE PanelPost
  <2>1. /\ config' = Panel(config) /\ wanted' = Panel(wanted)
        /\ posts' = posts + 1
        /\ UNCHANGED <<pc, existing, backups>> /\ agentUp
    BY <1>2 DEF PanelPost
  <2>2. pc \notin AfterStop
    BY <2>1 DEF InstallerInv, Choices
  <2>3. /\ config'["pool"] = wanted'["pool"] /\ posts' > 0
        /\ config'["agent"] = config["agent"] /\ wanted'["agent"] = wanted["agent"]
    BY <2>1 DEF Panel, Numbers
  <2> QED
    BY <2>1, <2>2, <2>3
<1> QED
  BY <1>1, <1>2

LEMMA TravelStep == InstallerInv /\ TravelInv /\ [Next]_vars => TravelInv'
<1> SUFFICES ASSUME InstallerInv, TravelInv, [Next]_vars PROVE TravelInv'
  OBVIOUS
<1>1. Numbers' /\ (failures' = 0 => failures = 0)
  BY NumbersStep DEF TravelInv
<1>2. ASSUME Preserve, failures' = 0 PROVE Travels'
  <2>1. Numbers /\ Travels
    BY <1>1, <1>2 DEF TravelInv
  <2>2. CASE UNCHANGED vars
    BY <2>1, <2>2 DEF vars, rig, live, local, Travels, Kept, Read, Chosen, InBackup
  <2>3. ~Fail /\ ~PowerCycle
    BY <1>2, <2>1 DEF Fail, PowerCycle, Numbers
  <2> QED
    BY <1>2, <2>1, <2>2, <2>3, ReadTravels, WriteTravels, ChoiceTravels DEF Next, Main
<1> QED
  BY <1>1, <1>2 DEF TravelInv

\* With backups on, an uninterrupted run leaves a rig its identity, its pool and
\* the options that read_existing_config reads, or has those of a POST that came
\* while it ran in a backup (read_existing_config, install_files,
\* write_configs).
THEOREM PreservedHolds == ASSUME BackupOld PROVE Spec => []Preserved
<1>1. Init => TravelInv
  BY DEF Init, TravelInv, Numbers, Travels, Kept, Read, Nothing
<1>2. InstallerInv /\ TravelInv => Preserved
  BY DEF TravelInv, Numbers, Travels, Kept, Read, Preserved
<1>3. InstallerInv /\ TravelInv /\ [Next]_vars => InstallerInv' /\ TravelInv'
  BY NextInv, TravelStep
<1> QED
  BY InitInv, <1>1, <1>2, <1>3, PTL DEF Spec
----------------------------------------------------------------------------
(* Types *)

\* The parts of TypeOK that the invariant leaves out
Flags == binary \in BOOLEAN /\ venv \in BOOLEAN /\ units \in BOOLEAN /\ agentUp \in BOOLEAN

Places ==
    /\ backups \subseteq Configs
    /\ miner \in [Settings -> Values \cup {None}]
    /\ pc \in Functions \cup {"idle", "done", "failed"}
    /\ mode \in {"update", "clean"}
    /\ runs \in 0..MaxRuns /\ failures \in 0..MaxFailures /\ posts \in 0..MaxPosts

LEMMA FlagsStep == Flags /\ [Next]_vars => Flags'
<1> SUFFICES ASSUME Flags, [Next]_vars PROVE Flags'
  OBVIOUS
<1> USE DEF Flags
<1>1. CASE UNCHANGED <<binary, venv, units, agentUp>>
  BY Zenon, <1>1
<1>2. CASE Stop \/ Remove \/ Wipe \/ Venv \/ Build \/ InstallUnits
  <2>1. Stop => Flags'
    BY Zenon DEF Stop, rig
  <2>2. Remove => Flags'
    BY Zenon DEF Remove, live
  <2>3. Wipe => Flags'
    BY Zenon DEF Wipe, live
  <2>4. Venv \/ Build => Flags'
    BY Zenon DEF Venv, Build, live
  <2>5. InstallUnits => Flags'
    BY Zenon DEF InstallUnits, live
  <2> QED
    BY <1>2, <2>1, <2>2, <2>3, <2>4, <2>5
<1>3. CASE StartServices
  BY Zenon, <1>3 DEF StartServices, rig
<1>4. CASE PowerCycle
  <2>1. agentUp' \in BOOLEAN
    BY Zenon, <1>4 DEF PowerCycle
  <2> QED
    BY Zenon, <1>4, <2>1 DEF PowerCycle, rig
<1>5. Decide \/ ReadExisting \/ Backup \/ Fail \/ PanelPost => UNCHANGED <<binary, venv, units, agentUp>>
  BY Zenon DEF Decide, ReadExisting, Backup, Fail, PanelPost, rig, live
<1>6. (\E f \in Files : Copy(f)) \/ WriteConfigs => UNCHANGED <<binary, venv, units, agentUp>>
  BY Zenon DEF Copy, WriteConfigs, Open, Write, live
<1>7. UNCHANGED vars => UNCHANGED <<binary, venv, units, agentUp>>
  BY Zenon DEF vars, rig, live
<1> QED
  BY <1>1, <1>2, <1>3, <1>4, <1>5, <1>6, <1>7 DEF Next, Main

LEMMA PlacesStep == InstallerInv /\ Places /\ [Next]_vars => Places'
<1> SUFFICES ASSUME InstallerInv, Places, [Next]_vars PROVE Places'
  OBVIOUS
<1> USE BoundsAssumption DEF Places, rig, live, local, NotMain, At
<1>1. CASE Decide
  BY <1>1 DEF Decide
<1>2. CASE ReadExisting \/ Stop \/ Remove \/ Wipe
  BY <1>2 DEF ReadExisting, Stop, Remove, Wipe
<1>3. CASE Backup
  BY <1>3 DEF Backup, AfterBackup, InstallerInv, Types
<1>4. ASSUME NEW f \in Files, Copy(f) PROVE Places'
  BY <1>4 DEF Copy
<1>5. CASE Venv \/ Build \/ WriteConfigs \/ InstallUnits
  BY <1>5 DEF Venv, Build, WriteConfigs, Open, Write, InstallUnits
<1>6. CASE StartServices
  BY <1>6 DEF StartServices, InstallerInv, Progress, Whole
<1>7. CASE Fail
  BY <1>7 DEF Fail
<1>8. CASE PowerCycle
  BY <1>8 DEF PowerCycle, Readable
<1>9. CASE PanelPost
  BY <1>9 DEF PanelPost
<1>10. CASE UNCHANGED vars
  BY <1>10 DEF vars
<1> QED
  BY <1>1, <1>2, <1>3, <1>4, <1>5, <1>6, <1>7, <1>8, <1>9, <1>10 DEF Next, Main

\* The script is at one of its functions, and xmrig never runs with a file that
\* was cut in two (start_services, write_configs).
THEOREM TypeCorrect == Spec => []TypeOK
<1>1. Init => Flags
  BY Zenon DEF Init, Flags
<1>2. Init => Places
  BY BoundsAssumption DEF Init, Places
<1>3. InstallerInv /\ Flags /\ Places => TypeOK
  BY Zenon DEF InstallerInv, Types, Flags, Places, TypeOK
<1> QED
  BY InitInv, NextInv, <1>1, <1>2, <1>3, FlagsStep, PlacesStep, PTL DEF Spec
=============================================================================
