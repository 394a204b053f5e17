------------------------------- MODULE Clone -------------------------------
(***************************************************************************)
(* Cloning a rig to USB disks, and the first boots of the clones:          *)
(* scripts/clone-usb-safe.sh and the first-boot script it writes to the    *)
(* clone.                                                                  *)
(*                                                                         *)
(* The script runs with set -e: a command without "|| true" that fails     *)
(* ends it where it stands, and it is repeated by hand.  Each disk becomes *)
(* a rig of its own, which takes its name from the last octet of its       *)
(* address (or from its MAC) at the first boot and keeps it.               *)
(***************************************************************************)
EXTENDS Integers

CONSTANTS
    Disks,      \* the disks that are cloned: numbers
    Octets      \* bound: last octets the DHCP server gives

ASSUME NumbersAssumption == Disks \subseteq Nat \ {0} /\ Octets \subseteq Nat \ {0}

VARIABLES
    source,     \* did the source finish a first boot of its own?
    step, disk, \* where the script is, and the disk it clones
    data,       \* what is on the disk: "old", "cut" or "whole" copy of the source
    mounts,     \* of the disk's partitions: "no", "root", "all" (EFI and binds too)
    finished,   \* the script ended with success
    refused,    \* history: systemctl enable failed for the first boot, unnoticed
    marked,       \* /opt/calajaminer/.firstboot_done of the clone
    enabled,    \* calaja-firstboot.service of the clone is enabled
    host, agent, miner, \* the names in hostname, agent/config.json and config.json
    unnamed,    \* history: hostnamectl failed to set the name in the latest first
                \* boot, unnoticed
    rig,        \* the rig that boots from the disk: "off", at a step of its first
                \* boot, "run", or without one that ended: "halted", "failed"
    lease       \* the last octet of its address, 0: none

script == <<step, disk, data, mounts, finished, refused>>
names  == <<host, agent, miner, unnamed>>
rigs   == <<rig, lease>>
cloneVars == <<source, script, marked, enabled, names, rigs>>

Source == 0                         \* the name of the source
Cut == -1                           \* a file cut in two is no JSON
Mac(d) == -1 - d                    \* the name by the MAC address
Names == {Source, Cut} \cup Octets \cup {Mac(d) : d \in Disks}

CloneTypes ==
    /\ source \in BOOLEAN
    /\ step \in {"idle", "unmount", "copy", "mount", "bind", "prepare", "refresh", "umount"}
    /\ disk \in Disks
    /\ data \in [Disks -> {"old", "cut", "whole"}]
    /\ mounts \in [Disks -> {"no", "root", "all"}]
    /\ finished \in [Disks -> BOOLEAN] /\ refused \in [Disks -> BOOLEAN]
    /\ marked \in [Disks -> BOOLEAN] /\ enabled \in [Disks -> BOOLEAN]
    /\ host \in [Disks -> Names \ {Cut}] /\ agent \in [Disks -> Names] /\ miner \in [Disks -> Names]
    /\ unnamed \in [Disks -> BOOLEAN]
    /\ rig \in [Disks -> {"off", "host", "agent", "miner", "touch", "run", "halted", "failed"}]
    /\ lease \in [Disks -> Octets \cup {0}]
    /\ \A c, d \in Disks : c # d /\ lease[c] = lease[d] => lease[c] = 0
    /\ \A d \in Disks : finished[d] => data[d] # "old"

CloneInit ==
    LET all(x) == [d \in Disks |-> x]
    IN  /\ source \in BOOLEAN
        /\ step = "idle" /\ disk \in Disks
        /\ data = all("old") /\ mounts = all("no") /\ finished = all(FALSE) /\ refused = all(FALSE)
        /\ marked = all(FALSE) /\ enabled = all(FALSE)
        /\ host = all(Source) /\ agent = all(Source) /\ miner = all(Source)
        /\ unnamed = all(FALSE)
        /\ rig = all("off") /\ lease = all(0)

----------------------------------------------------------------------------
(* clone-usb-safe.sh *)

\* A step of the script that ends well, or one that ends the script.
At(s) == step = s /\ UNCHANGED <<source, disk, rigs>>
Goes(s) == step' = s
Aborts == step' = "idle"

\* The checks and confirmations
BeginClone ==
    /\ step = "idle" /\ step' = "unmount"
    /\ \E d \in Disks : disk' = d /\ ~finished[d]
    /\ UNCHANGED <<source, data, mounts, finished, refused, marked, enabled, names, rigs>>

\* umount || true: with the bind mounts of an earlier try the root is busy.
Unmount ==
    /\ At("unmount") /\ Goes("copy")
    /\ mounts' = IF mounts[disk] = "all" THEN mounts ELSE [mounts EXCEPT ![disk] = "no"]
    /\ UNCHANGED <<data, finished, refused, marked, enabled, names>>

\* The copy brings what the source has.  Without pipefail only the last command
\* of the pipe counts: an error of reading leaves a copy cut in two, and the
\* script goes on.
Copy ==
    /\ At("copy")
    /\ \/ Goes("mount") /\ data' \in {[data EXCEPT ![disk] = x] : x \in {"cut", "whole"}}
       \/ Aborts /\ data' = [data EXCEPT ![disk] = "cut"]
    /\ marked' = [marked EXCEPT ![disk] = source]
    /\ enabled' = [enabled EXCEPT ![disk] = ~source]
    /\ host' = [host EXCEPT ![disk] = Source]
    /\ agent' = [agent EXCEPT ![disk] = Source]
    /\ miner' = [miner EXCEPT ![disk] = Source]
    /\ unnamed' = [unnamed EXCEPT ![disk] = FALSE]
    /\ UNCHANGED <<mounts, finished, refused>>

\* Finding the partitions and mounting the root: the same filesystem is not
\* mounted twice at one place.
Mount ==
    /\ At("mount")
    /\ \/ /\ mounts[disk] = "no"
          /\ Goes("bind") /\ mounts' = [mounts EXCEPT ![disk] = "root"]
       \/ Aborts /\ UNCHANGED mounts
    /\ UNCHANGED <<data, finished, refused, marked, enabled, names>>

\* The EFI partition, /dev, /proc, /sys and /run
Bind ==
    /\ At("bind")
    /\ \/ Goes("prepare") /\ mounts' = [mounts EXCEPT ![disk] = "all"]
       \/ Aborts /\ mounts' \in {mounts, [mounts EXCEPT ![disk] = "all"]}
    /\ UNCHANGED <<data, finished, refused, marked, enabled, names>>

\* Netplan, the first-boot script and its unit
Prepare ==
    /\ At("prepare")
    /\ Goes("refresh") \/ Aborts
    /\ UNCHANGED <<data, mounts, finished, refused, marked, enabled, names>>

\* Mistake: the mark of the source's first boot stays on the clone.
RefreshKeepsDone ==
    /\ At("refresh")
    /\ Goes("umount")
    /\ \/ enabled' = [enabled EXCEPT ![disk] = TRUE] /\ refused' = [refused EXCEPT ![disk] = FALSE]
       \/ UNCHANGED enabled /\ refused' = [refused EXCEPT ![disk] = TRUE]
    /\ UNCHANGED <<data, mounts, finished, marked, names>>

\* Mistake: the service is enabled only by the image.
RefreshNoEnable ==
    /\ At("refresh")
    /\ Goes("umount")
    /\ marked' = [marked EXCEPT ![disk] = FALSE] /\ refused' = [refused EXCEPT ![disk] = FALSE]
    /\ UNCHANGED <<data, mounts, finished, enabled, names>>

\* .firstboot_done, keys and machine-id are removed and the services enabled
\* (|| true); fstab, the boot loader and the cleaning follow.
Refresh ==
    /\ At("refresh")
    /\ marked' = [marked EXCEPT ![disk] = FALSE]
    /\ \/ enabled' = [enabled EXCEPT ![disk] = TRUE] /\ refused' = [refused EXCEPT ![disk] = FALSE]
       \/ UNCHANGED enabled /\ refused' = [refused EXCEPT ![disk] = TRUE]
    /\ Goes("umount") \/ Aborts
    /\ UNCHANGED <<data, mounts, finished, names>>

\* umount || true, and the success is told.  A finished disk is not cloned again
\* (a bound), so what stays mounted of it is forgotten.
Umount ==
    /\ At("umount") /\ Goes("idle")
    /\ mounts' = [mounts EXCEPT ![disk] = "no"]
    /\ finished' = [finished EXCEPT ![disk] = TRUE]
    /\ UNCHANGED <<data, refused, marked, enabled, names>>

----------------------------------------------------------------------------
(* The rigs of the clones, and calaja-firstboot.sh as the script wrote it *)

Rig(d, s, t) == rig[d] = s /\ rig' = [rig EXCEPT ![d] = t] /\ UNCHANGED <<source, script>>
Free == Octets \ {lease[d] : d \in Disks}
NewName(d) == IF lease[d] = 0 THEN Mac(d) ELSE lease[d]

\* A whole clone is put in a rig and switched on: it gets an address, or none
\* in time.
Boot(d) ==
    /\ finished[d] /\ data[d] = "whole"
    /\ Rig(d, "off", IF enabled[d] /\ ~marked[d] THEN "host" ELSE "run")
    /\ \E octet \in Free \cup {0} : lease' = [lease EXCEPT ![d] = octet]
    /\ UNCHANGED <<marked, enabled, names>>

\* hostnamectl may fail, which is ignored (|| true), and the rig keeps the name
\* it has.  What else fails up to the new line of /etc/hosts ends the script
\* until the next boot.
BootHost(d) ==
    /\ Rig(d, "host", "agent") \/ Rig(d, "host", "halted")
    /\ \/ host' = [host EXCEPT ![d] = NewName(d)] /\ unnamed' = [unnamed EXCEPT ![d] = FALSE]
       \/ unnamed' = [unnamed EXCEPT ![d] = host[d] # NewName(d)] /\ UNCHANGED host
    /\ UNCHANGED <<marked, enabled, agent, miner, lease>>

BootAgent(d) ==
    /\ Rig(d, "agent", IF agent[d] = Cut THEN "failed" ELSE "miner")
    /\ agent' = [agent EXCEPT ![d] = IF @ = Cut THEN Cut ELSE NewName(d)]
    /\ UNCHANGED <<marked, enabled, host, unnamed, miner, lease>>

BootMiner(d) ==
    /\ Rig(d, "miner", IF miner[d] = Cut THEN "failed" ELSE "touch")
    /\ miner' = [miner EXCEPT ![d] = IF @ = Cut THEN Cut ELSE NewName(d)]
    /\ UNCHANGED <<marked, enabled, host, unnamed, agent, lease>>

\* Services are restarted, the mark is set, and the unit disabled (|| true).
BootMark(d) ==
    /\ Rig(d, "touch", "run")
    /\ marked' = [marked EXCEPT ![d] = TRUE]
    /\ enabled' \in {enabled, [enabled EXCEPT ![d] = FALSE]}
    /\ UNCHANGED <<names, lease>>

\* Power is lost, perhaps in the middle of a write; the address may go to
\* another rig.
PowerOff(d) ==
    /\ rig[d] # "off"
    /\ Rig(d, rig[d], "off")
    /\ lease' = [lease EXCEPT ![d] = 0]
    /\ \/ UNCHANGED <<agent, miner>>
       \/ rig[d] = "agent" /\ agent' = [agent EXCEPT ![d] = Cut] /\ UNCHANGED miner
       \/ rig[d] = "miner" /\ miner' = [miner EXCEPT ![d] = Cut] /\ UNCHANGED agent
    /\ unnamed' = [unnamed EXCEPT ![d] = @ /\ marked[d]]
    /\ UNCHANGED <<marked, enabled, host>>

FirstBoot(d) == BootHost(d) \/ BootAgent(d) \/ BootMiner(d) \/ BootMark(d)

Script == BeginClone \/ Unmount \/ Copy \/ Mount \/ Bind \/ Prepare \/ Refresh \/ Umount

CloneNext == Script \/ \E d \in Disks : Boot(d) \/ FirstBoot(d) \/ PowerOff(d)

\* A first boot goes on while the rig is on.
CloneSpec == CloneInit /\ [][CloneNext]_cloneVars /\ \A d \in Disks : WF_cloneVars(FirstBoot(d))

----------------------------------------------------------------------------
(* Properties *)

\* A clone is marked as booted only when its own first boot gave it its name in
\* both configurations and the hostname: not by the mark it was copied with, and
\* not with two names of two addresses, whatever failures the script and the
\* power had.  The one exception is the hostname of a rig whose hostnamectl
\* failed: it may still be the source's or that of an earlier boot.
MarkedIsNamed ==
    \A d \in Disks : finished[d] /\ marked[d] =>
        /\ agent[d] # Source /\ miner[d] = agent[d]
        /\ host[d] = agent[d] \/ unnamed[d]

\* A clone of a finished script that stays on ends its first boot, however often
\* cloning failed and the power went before.  The exceptions: its service could
\* not be enabled, which the script does not tell, a file was cut in two, or the
\* naming halted the script.
FirstbootEnds ==
    \A d \in Disks :
        <>[](rig[d] # "off") =>
            <>[](marked[d] \/ refused[d] \/ agent[d] = Cut \/ miner[d] = Cut \/ rig[d] = "halted")

\* No two rigs that ended their first boot have one name.
UniqueName ==
    \A c, d \in Disks : c # d /\ finished[c] /\ finished[d] /\ marked[c] /\ marked[d] => agent[c] # agent[d]
=============================================================================
