-------------------------------- MODULE Rig --------------------------------
(***************************************************************************)
(* The writers and the reader of a rig's configuration.  agent.py's POST   *)
(* handlers and the first-boot script write /opt/calajaminer/config.json   *)
(* and restart xmrig; xmrig reads the file when it starts, writes it back  *)
(* when it had to generate thread profiles, and then watches it.  Every    *)
(* writer truncates the file first and writes it afterwards, and the power *)
(* may fail between any two steps.                                         *)
(*                                                                         *)
(* A content is what the properties tell apart: the POST it comes from (0  *)
(* for the image of the disk), the identity in it, and whether it is full, *)
(* that is whether it holds the profiles xmrig generates.  systemd restarts*)
(* a process that ends (Restart=always).                                   *)
(***************************************************************************)
EXTENDS Integers

CONSTANTS
    MaxPosts,       \* bound: POSTs of the panel
    MaxCycles,      \* bound: times the power fails
    MaxStops,       \* bound: stops by the panel
    Empty,          \* a truncated file
    Mixed           \* two writes over each other: no JSON

Posts == 1..MaxPosts
Content == [by : 0..MaxPosts, id : {"image", "own"}, full : BOOLEAN]

ASSUME BoundsAssumption == MaxPosts \in Nat /\ MaxCycles \in Nat /\ MaxStops \in Nat
ASSUME FileAssumption == Empty \notin Content /\ Mixed \notin Content /\ Empty # Mixed

VARIABLES
    file,           \* config.json of xmrig
    agentFile,      \* the identity in agent/config.json
    done,           \* .firstboot_done exists
    xmrig,          \* where the xmrig process is
    cfg,            \* the configuration it runs
    changed,        \* its watcher's timer runs
    post,           \* where each POST handler is
    alone,          \* the POSTs that began on a settled rig
    boot,           \* where the first-boot script is
    copy,           \* its copy of config.json
    cycles, stops

fileVars  == <<file, agentFile, done>>
xmrigVars == <<xmrig, cfg, changed>>
postVars  == <<post, alone>>
bootVars  == <<boot, copy>>
vars == <<fileVars, xmrigVars, postVars, bootVars, cycles, stops>>

TypeOK ==
    /\ file \in Content \cup {Empty, Mixed}
    /\ agentFile \in {"image", "own", Empty}
    /\ done \in BOOLEAN
    /\ xmrig \in {"off", "starting", "read", "save", "up", "reload"}
    /\ cfg \in Content \cup {Empty}
    /\ (cfg = Empty) = (xmrig \in {"off", "starting"})
    /\ changed \in BOOLEAN
    /\ post \in [Posts -> {"none", "built", "open", "written", "answered", "lost"}]
    /\ alone \subseteq Posts
    /\ boot \in {"start", "host", "agent", "agentOpen", "xmrig", "xmrigRead", "xmrigOpen",
                 "restart", "restartAgent", "touch", "end", "halted", "failed"}
    /\ copy \in Content \cup {Empty}
    /\ cycles \in 0..MaxCycles /\ stops \in 0..MaxStops

Image == [by |-> 0, id |-> "image", full |-> TRUE]

\* A clone of a rig that ran: its file is full.
Init ==
    /\ file = Image /\ agentFile = "image" /\ done = FALSE
    /\ xmrig = "starting" /\ cfg = Empty /\ changed = FALSE
    /\ post = [p \in Posts |-> "none"] /\ alone = {}
    /\ boot = "start" /\ copy = Empty
    /\ cycles = 0 /\ stops = 0

----------------------------------------------------------------------------
(* The file *)

\* What a write at offset 0 leaves, without a truncation right before it: the
\* end of the older content stays when that was longer, and a full content is
\* longer than one that is not.
After(old, new) ==
    IF old \in Content
    THEN IF old.full = new.full THEN {new, Mixed} ELSE IF new.full THEN {new} ELSE {Mixed}
    ELSE IF old = Empty THEN {new} ELSE {new, Mixed}

\* Watcher::queueUpdate: the timer runs if the file is watched.
Noticed == changed' = (changed \/ xmrig \in {"up", "reload"})

Truncate == file' = Empty /\ Noticed
Fill(new) == file' \in After(file, new) /\ Noticed

----------------------------------------------------------------------------
(* xmrig *)

OthersThanXmrig == <<agentFile, done, postVars, bootVars, cycles, stops>>

\* Base::Base: without a readable file the process ends and is started again.
Read ==
    /\ xmrig = "starting" /\ file \in Content
    /\ xmrig' = "read" /\ cfg' = file
    /\ UNCHANGED <<file, changed, OthersThanXmrig>>

\* Base::start, when the profiles were all there
Start ==
    /\ xmrig = "read" /\ cfg.full
    /\ xmrig' = "up"
    /\ UNCHANGED <<file, cfg, changed, OthersThanXmrig>>

\* Base::start saves the configuration ...
SaveOpen ==
    /\ xmrig = "read" /\ ~cfg.full
    /\ xmrig' = "save"
    /\ Truncate
    /\ UNCHANGED <<cfg, OthersThanXmrig>>

\* ... and watches the file.
SaveWrite ==
    /\ xmrig = "save"
    /\ cfg' = [cfg EXCEPT !.full = TRUE]
    /\ file' \in After(file, cfg')
    /\ xmrig' = "up"
    /\ UNCHANGED <<changed, OthersThanXmrig>>

\* Base::onFileChanged: what cannot be read changes nothing.
Reload ==
    /\ xmrig = "up" /\ changed
    /\ changed' = FALSE
    /\ cfg' = IF file \in Content THEN file ELSE cfg
    /\ xmrig' = "reload"
    /\ UNCHANGED <<file, OthersThanXmrig>>

\* Watcher::reload watches the file anew: an event in between is lost.
Rewatch ==
    /\ xmrig = "reload"
    /\ xmrig' = "up"
    /\ changed' = FALSE
    /\ UNCHANGED <<file, cfg, OthersThanXmrig>>

Xmrig == Read \/ Start \/ SaveOpen \/ SaveWrite \/ Reload \/ Rewatch

Ends(place) == xmrig' = place /\ cfg' = Empty /\ changed' = FALSE

\* Mistake: "start" does nothing to a process that runs.
RestartStarts == IF xmrig = "off" THEN Ends("starting") ELSE UNCHANGED xmrigVars

\* systemctl restart xmrig: App handles the signal after the save.
Restart == xmrig # "save" /\ Ends("starting")

----------------------------------------------------------------------------
(* The agent *)

Running == {p \in Posts : post[p] \in {"built", "open", "written"}}
Settled == /\ xmrig = "up" /\ boot = "end" /\ Running = {}
           /\ file \in Content /\ file.full

PostAt(p, from, to) == post[p] = from /\ post' = [post EXCEPT ![p] = to]
NotPost == <<agentFile, done, bootVars, cycles, stops>>

\* build_config_from_panel needs the agent's own configuration.
Begin(p) ==
    /\ \A q \in 1..(p - 1) : post[q] # "none"
    /\ agentFile # Empty
    /\ PostAt(p, "none", "built")
    /\ alone' = IF Settled THEN alone \cup {p} ELSE alone
    /\ UNCHANGED <<file, xmrigVars, NotPost>>

\* save_xmrig_config
PostOpen(p) ==
    /\ PostAt(p, "built", "open")
    /\ Truncate
    /\ UNCHANGED <<xmrig, cfg, alone, NotPost>>

PostWrite(p) ==
    /\ PostAt(p, "open", "written")
    /\ Fill([by |-> p, id |-> "own", full |-> FALSE])
    /\ UNCHANGED <<xmrig, cfg, alone, NotPost>>

\* "config salva e xmrig reiniciado"
PostRestart(p) ==
    /\ PostAt(p, "written", "answered")
    /\ Restart
    /\ UNCHANGED <<file, alone, NotPost>>

\* The steps of a handler that began
Post(p) == PostOpen(p) \/ PostWrite(p) \/ PostRestart(p)

\* miner_stop, miner_start, miner_restart
MinerStop ==
    /\ stops < MaxStops
    /\ stops' = stops + 1
    /\ xmrig # "save" /\ Ends("off")
    /\ UNCHANGED <<fileVars, postVars, bootVars, cycles>>

MinerStart ==
    /\ xmrig = "off" /\ Ends("starting")
    /\ UNCHANGED <<fileVars, postVars, bootVars, cycles, stops>>

MinerRestart ==
    /\ xmrig # "starting" /\ stops < MaxStops
    /\ stops' = stops + 1
    /\ Restart
    /\ UNCHANGED <<fileVars, postVars, bootVars, cycles>>

\* The handlers that ran are gone.
Lost == post' = [p \in Posts |-> IF p \in Running THEN "lost" ELSE post[p]]

----------------------------------------------------------------------------
(* calaja-firstboot.sh, in the order of its steps *)

BootAt(from, to) == boot = from /\ boot' = to
NotBoot == <<postVars, cycles, stops>>

\* Mistake: .firstboot_done is written before the work.
BootStartTouches ==
    /\ BootAt("start", IF done THEN "end" ELSE "host")
    /\ done' = TRUE
    /\ UNCHANGED <<file, agentFile, xmrigVars, copy, NotBoot>>

BootStart ==
    /\ BootAt("start", IF done THEN "end" ELSE "host")
    /\ UNCHANGED <<fileVars, xmrigVars, copy, NotBoot>>

\* The hostname and /etc/hosts, which no property here looks at: a command that
\* fails (set -e) halts the script until the next boot.
BootHostname ==
    /\ BootAt("host", "agent") \/ BootAt("host", "halted")
    /\ UNCHANGED <<fileVars, xmrigVars, copy, NotBoot>>

\* Mistake: the script expects the identity of the image.
BootAgentOpenImage ==
    /\ BootAt("agent", IF agentFile # "image" THEN "failed" ELSE "agentOpen")
    /\ agentFile' = IF agentFile # "image" THEN agentFile ELSE Empty
    /\ UNCHANGED <<file, done, xmrigVars, copy, NotBoot>>

\* No other program writes the agent's file: it is read and truncated at once.
BootAgentOpen ==
    /\ BootAt("agent", IF agentFile = Empty THEN "failed" ELSE "agentOpen")
    /\ agentFile' = Empty
    /\ UNCHANGED <<file, done, xmrigVars, copy, NotBoot>>

BootAgentWrite ==
    /\ BootAt("agentOpen", "xmrig")
    /\ agentFile' = "own"
    /\ UNCHANGED <<file, done, xmrigVars, copy, NotBoot>>

\* set -e: a file that is no JSON ends the script.
BootRead ==
    /\ BootAt("xmrig", IF file \in Content THEN "xmrigRead" ELSE "failed")
    /\ copy' = IF file \in Content THEN [file EXCEPT !.id = "own"] ELSE Empty
    /\ UNCHANGED <<fileVars, xmrigVars, NotBoot>>

BootOpen ==
    /\ BootAt("xmrigRead", "xmrigOpen")
    /\ Truncate
    /\ UNCHANGED <<agentFile, done, xmrig, cfg, copy, NotBoot>>

BootWrite ==
    /\ BootAt("xmrigOpen", "restart")
    /\ Fill(copy)
    /\ copy' = Empty
    /\ UNCHANGED <<agentFile, done, xmrig, cfg, NotBoot>>

BootRestart ==
    /\ BootAt("restart", "restartAgent")
    /\ Restart
    /\ UNCHANGED <<fileVars, copy, NotBoot>>

BootRestartAgent ==
    /\ BootAt("restartAgent", "touch")
    /\ Lost
    /\ UNCHANGED <<fileVars, xmrigVars, copy, alone, cycles, stops>>

\* The unit is disabled afterwards, which .firstboot_done makes a repetition.
BootTouch ==
    /\ BootAt("touch", "end")
    /\ done' = TRUE
    /\ UNCHANGED <<file, agentFile, xmrigVars, copy, NotBoot>>

Firstboot ==
    \/ BootStart \/ BootHostname \/ BootAgentOpen \/ BootAgentWrite \/ BootRead \/ BootOpen \/ BootWrite
    \/ BootRestart \/ BootRestartAgent \/ BootTouch

----------------------------------------------------------------------------

\* The power fails and comes back: the files stay as they are.
PowerCycle ==
    /\ cycles < MaxCycles
    /\ cycles' = cycles + 1
    /\ Ends("starting")
    /\ Lost
    /\ boot' = "start" /\ copy' = Empty
    /\ UNCHANGED <<fileVars, alone, stops>>

Panel == (\E p \in Posts : Begin(p)) \/ MinerStop \/ MinerStart \/ MinerRestart

Next ==
    \/ Xmrig \/ Firstboot \/ Panel \/ PowerCycle
    \/ \E p \in Posts : Post(p)

\* The processes of the rig run; the panel need not ask for anything.
Spec == /\ Init /\ [][Next]_vars
        /\ WF_vars(Xmrig) /\ WF_vars(Firstboot)
        /\ \A p \in Posts : WF_vars(Post(p))

----------------------------------------------------------------------------
(* Properties *)

\* A rig that finished its first boot neither reports nor mines under the
\* identity of the image it was cloned from, whatever interrupted the script
\* before (calaja-firstboot.sh, .firstboot_done).
DoneMeansRenamed ==
    done => /\ agentFile = "own"
            /\ file \in Content => file.id = "own"
            /\ cfg \in Content => cfg.id = "own"

\* The script completes after any number of power failures, as long as no POST
\* comes before its end: only a configuration cut in two can stop it for good,
\* and a failure of the naming until the next boot.
FirstbootCompletes ==
    [](~done => Running = {}) =>
        <>(done \/ [](agentFile = Empty \/ file \notin Content \/ boot = "halted"))

\* Once the writers rest, xmrig runs what is in the file: each of them restarts
\* it after its write, except a handler that was killed.
Quiet == Running = {} /\ boot \in {"end", "halted", "failed"} /\ file \in Content
RunsTheFile ==
    <>[](Quiet /\ xmrig # "off") =>
        <>[](/\ xmrig = "up"
             /\ \/ file \in Content /\ cfg.by = file.by
                \/ \E p \in Posts : post[p] = "lost")

\* The configuration of the last POST is in force if it began on a settled rig,
\* unless the power fails while xmrig saves it.
LastPost(p) == post[p] = "answered" /\ \A q \in Posts : q > p => post[q] = "none"
InForce(p) == xmrig = "up" /\ cfg.by = p
PostInForce ==
    \A p \in Posts : <>[](LastPost(p) /\ p \in alone /\ xmrig # "off") =>
        <>[](InForce(p) \/ file = Empty)

\* "config salva e xmrig reiniciado": after the first boot, and when each POST
\* waits for the answer to the one before, the last one answered is in force.
OneAtATime == (~done => Running = {}) /\ \A p, q \in Running : p = q
EveryPostInForce ==
    []OneAtATime =>
        \A p \in Posts : <>[](LastPost(p) /\ xmrig # "off") => <>[]InForce(p)
=============================================================================
