------------------------------ MODULE LiveInit -------------------------------
(***************************************************************************)
(* profile/init_tiny.template, the /init of the live initramfs: it looks   *)
(* for the device with the live medium among devices that the kernel may   *)
(* still be finding, mounts the EROFS image and the overlay on it, and     *)
(* hands over to systemd.  It is a shell script without `set -e': where it *)
(* does not test the outcome of a command, it goes on after a failure.     *)
(*                                                                         *)
(* Time is abstracted to when a device appears: within the first second,   *)
(* within the third, later, or never.  A sleep ends no earlier than the    *)
(* devices that appear within it have appeared.                            *)
(***************************************************************************)
EXTENDS Naturals, Sequences, FiniteSets

CONSTANTS
    N,                  \* number of devices in {{BOOT_DEVICES}}, in this order
    sr0, sda,           \* the two of them that the script asks for by name
    MaxFailures         \* bound on the number of commands that fail

ASSUME DevicesAssumption == N \in Nat /\ sr0 \in 1..N /\ sda \in 1..N
ASSUME FailuresAssumption == MaxFailures \in Nat

VARIABLES
    media, appears,     \* of each device: what is on it, and when it appears
    there,              \* the devices that have appeared
    vfs,                \* proc, sys and dev, as far as mounted
    modules,            \* the needed file systems that the kernel has
    pc, dev,            \* the command to run next; the device to try next
    mnt,                \* the devices mounted on /mnt, the last one on top
    boot_dev,           \* BOOT_DEV, 0 if empty
    rootfs,             \* the device whose EROFS image is on /rootfs, or 0
    live,               \* the device whose live overlay is on /live-overlay
    live_overlay,       \* is LIVE_OVERLAY set?
    newroot,            \* the lower layers of /newroot, the highest first
    marker,             \* is there a live-boot-marker?
    moved,              \* what has been moved to the new root
    cdrom,              \* the device on /newroot/media/cdrom, or 0
    failed              \* the commands that have failed

given == <<media, appears>>
mounts == <<vfs, modules, mnt, boot_dev, rootfs, live, live_overlay, newroot, marker, moved, cdrom>>
bootVars == <<given, there, mounts, pc, dev, failed>>

Devices == 1..N
None == 0
Media == {"live", "live_without_overlay", "other", "blank"}
HasImage(d) == media[d] \in {"live", "live_without_overlay"}
FileSystems == {"isofs", "erofs", "overlay"}
Vfs == {"proc", "sys", "dev"}
Ends == {"running", "shell", "exited", "switch_failed"}

BootTypeOK ==
    /\ media \in [Devices -> Media]
    /\ appears \in [Devices -> {"1s", "3s", "late", "never"}]
    /\ there \subseteq Devices
    /\ vfs \subseteq Vfs /\ moved \subseteq Vfs
    /\ modules \subseteq FileSystems
    /\ pc \in {"mount_vfs", "insmod", "sleep1", "wait", "sleep2", "probe", "requested_shell",
               "losetup", "mount_erofs", "mount_direct", "bind", "tmpfs", "mount_overlay",
               "move_vfs", "move_mnt", "check_init", "switch_root"} \cup Ends
    /\ dev \in 1..(N + 1)
    /\ mnt \in Seq(Devices) /\ Len(mnt) <= N
    /\ boot_dev \in Devices \cup {None} /\ rootfs \in Devices \cup {None}
    /\ live \in Devices \cup {None} /\ cdrom \in Devices \cup {None}
    /\ live_overlay \in BOOLEAN /\ marker \in BOOLEAN
    /\ newroot \in {<<>>, <<"rootfs">>, <<"live", "rootfs">>}
    /\ Cardinality(failed) <= MaxFailures

BootInit ==
    /\ media \in [Devices -> Media]
    /\ appears \in [Devices -> {"1s", "3s", "late", "never"}]
    /\ there = {}
    /\ vfs = {} /\ modules = {}
    /\ pc = "mount_vfs" /\ dev = 1
    /\ mnt = <<>> /\ boot_dev = None
    /\ rootfs = None /\ live = None /\ live_overlay = FALSE
    /\ newroot = <<>> /\ marker = FALSE
    /\ moved = {} /\ cdrom = None
    /\ failed = {}
-----------------------------------------------------------------------------
Fine == UNCHANGED failed
MayFail(c) == Cardinality(failed \cup {c}) <= MaxFailures /\ failed' = failed \cup {c}
Goto(p) == pc' = p /\ UNCHANGED dev

(* The kernel finds a device; it may do so before it must.  Once the       *)
(* medium is found nobody looks for a device again.                        *)
Appear(d) ==
    /\ appears[d] # "never" /\ d \notin there
    /\ boot_dev = None /\ pc \notin Ends
    /\ there' = there \cup {d}
    /\ UNCHANGED <<given, mounts, pc, dev, failed>>
AllThere(when) == \A d \in Devices : appears[d] \in when => d \in there

MountVfs ==
    /\ pc = "mount_vfs"
    /\ \/ vfs' = Vfs /\ Fine
       \/ \E v \in Vfs : vfs' = Vfs \ {v} /\ MayFail(v)
    /\ Goto("insmod")
    /\ UNCHANGED <<given, there, modules, mnt, boot_dev, rootfs, live, live_overlay, newroot,
                   marker, moved, cdrom>>

(* The for loop over {{BOOT_MODULES}}: insmod "already loaded or failed",  *)
(* of some of them or, where there is no directory of modules, of all.     *)
LoadModules ==
    /\ pc = "insmod"
    /\ \/ modules' = FileSystems /\ Fine
       \/ modules' \in SUBSET FileSystems \ {FileSystems} /\ MayFail("insmod")
    /\ Goto("sleep1")
    /\ UNCHANGED <<given, there, vfs, mnt, boot_dev, rootfs, live, live_overlay, newroot, marker,
                   moved, cdrom>>

Sleep1 ==
    /\ pc = "sleep1" /\ AllThere({"1s"})
    /\ Goto("wait")
    /\ UNCHANGED <<given, there, mounts, failed>>

\* "Additional wait for slower devices": a node in /dev means devtmpfs is there.
Node(d) == d \in there /\ "dev" \in vfs
\* A faulty variant without the additional wait.
NoWait ==
    /\ pc = "wait"
    /\ Goto("probe")
    /\ UNCHANGED <<given, there, mounts, failed>>

Wait ==
    /\ pc = "wait"
    /\ Goto(IF Node(sr0) \/ Node(sda) THEN "probe" ELSE "sleep2")
    /\ UNCHANGED <<given, there, mounts, failed>>

Sleep2 ==
    /\ pc = "sleep2" /\ AllThere({"1s", "3s"})
    /\ Goto("probe")
    /\ UNCHANGED <<given, there, mounts, failed>>
-----------------------------------------------------------------------------
(* The loop over the devices: one that is no block device or cannot be     *)
(* mounted is passed over, one without the image is unmounted again, which *)
(* may fail.                                                               *)
Mountable(d) == media[d] # "blank" /\ (HasImage(d) => "isofs" \in modules)
NextDevice == dev' = dev + 1 /\ UNCHANGED pc

ProbePassesOver ==
    /\ pc = "probe" /\ dev <= N
    /\ ~(Node(dev) /\ Mountable(dev))
    /\ NextDevice
    /\ UNCHANGED <<given, there, mounts, failed>>

ProbeOther ==
    /\ pc = "probe" /\ dev <= N
    /\ Node(dev) /\ Mountable(dev) /\ ~HasImage(dev)
    /\ NextDevice
    /\ \/ Fine /\ UNCHANGED mnt
       \/ MayFail("umount") /\ mnt' = Append(mnt, dev)
    /\ UNCHANGED <<given, there, vfs, modules, boot_dev, rootfs, live, live_overlay, newroot,
                   marker, moved, cdrom>>

ProbeFinds ==
    /\ pc = "probe" /\ dev <= N
    /\ Node(dev) /\ Mountable(dev) /\ HasImage(dev)
    /\ boot_dev' = dev /\ mnt' = Append(mnt, dev)
    /\ Goto("losetup") \/ ("proc" \in vfs /\ Goto("requested_shell"))
    /\ Fine
    /\ UNCHANGED <<given, there, vfs, modules, rootfs, live, live_overlay, newroot, marker, moved,
                   cdrom>>

ProbeEnds ==
    /\ pc = "probe" /\ dev > N
    /\ Goto("shell")
    /\ UNCHANGED <<given, there, mounts, failed>>

\* The shell that "emergency" on the kernel command line, which is read from
\* /proc, asks for is a child, and boot goes on after it.
RequestedShellExits ==
    /\ pc = "requested_shell"
    /\ Goto("losetup")
    /\ UNCHANGED <<given, there, mounts, failed>>
-----------------------------------------------------------------------------
Top == mnt[Len(mnt)]
Losetup ==
    /\ pc = "losetup"
    /\ \/ HasImage(Top) /\ Fine /\ Goto("mount_erofs")
       \/ MayFail("losetup") /\ Goto("mount_direct")
    /\ UNCHANGED <<given, there, mounts>>

MountErofs ==
    /\ pc \in {"mount_erofs", "mount_direct"}
    /\ \/ /\ "erofs" \in modules /\ HasImage(Top)
          /\ rootfs' = Top /\ Goto("bind") /\ Fine
       \/ /\ ("erofs" \in modules => MayFail("mount_erofs"))
          /\ ("erofs" \notin modules => Fine)
          /\ Goto("shell") /\ UNCHANGED rootfs
    /\ UNCHANGED <<given, there, vfs, modules, mnt, boot_dev, live, live_overlay, newroot, marker,
                   moved, cdrom>>

\* The bind mount is not tested: LIVE_OVERLAY is set also if it fails.
BindLiveOverlay ==
    /\ pc = "bind"
    /\ \/ /\ media[Top] = "live" /\ live_overlay' = TRUE
          /\ \/ live' = Top /\ Fine
             \/ UNCHANGED live /\ MayFail("bind")
       \/ media[Top] # "live" /\ Fine /\ UNCHANGED <<live, live_overlay>>
    /\ Goto("tmpfs")
    /\ UNCHANGED <<given, there, vfs, modules, mnt, boot_dev, rootfs, newroot, marker, moved, cdrom>>

\* Without the tmpfs the upper directory is on the initramfs itself.
MountTmpfs ==
    /\ pc = "tmpfs"
    /\ Fine \/ MayFail("tmpfs")
    /\ Goto("mount_overlay")
    /\ UNCHANGED <<given, there, mounts>>

LowerDirs == IF live_overlay THEN <<"live", "rootfs">> ELSE <<"rootfs">>

MountOverlay ==
    /\ pc = "mount_overlay"
    /\ \/ /\ "overlay" \in modules
          /\ newroot' = LowerDirs /\ marker' = live_overlay
          /\ Goto("move_vfs") /\ Fine
       \/ /\ ("overlay" \in modules => MayFail("mount_overlay"))
          /\ ("overlay" \notin modules => Fine)
          /\ Goto("shell") /\ UNCHANGED <<newroot, marker>>
    /\ UNCHANGED <<given, there, vfs, modules, mnt, boot_dev, rootfs, live, live_overlay, moved, cdrom>>

MoveVfs ==
    /\ pc = "move_vfs"
    /\ \/ moved' = vfs /\ Fine
       \/ \E v \in vfs : moved' = vfs \ {v} /\ MayFail("move")
    /\ Goto("move_mnt")
    /\ UNCHANGED <<given, there, vfs, modules, mnt, boot_dev, rootfs, live, live_overlay, newroot,
                   marker, cdrom>>

\* A faulty variant that takes the medium to be in the CD-ROM drive.
MountSr0 ==
    /\ pc = "move_mnt"
    /\ cdrom' = IF sr0 \in there THEN sr0 ELSE None
    /\ Goto("check_init") /\ Fine
    /\ UNCHANGED <<given, there, vfs, modules, mnt, boot_dev, rootfs, live, live_overlay, newroot,
                   marker, moved>>

MoveMnt ==
    /\ pc = "move_mnt"
    /\ \/ cdrom' = Top /\ mnt' = SubSeq(mnt, 1, Len(mnt) - 1) /\ Fine
       \/ UNCHANGED <<cdrom, mnt>> /\ MayFail("move")
    /\ Goto("check_init")
    /\ UNCHANGED <<given, there, vfs, modules, boot_dev, rootfs, live, live_overlay, newroot, marker,
                   moved>>

\* /sbin/init is executable or a link, which may lead nowhere.
CheckInit ==
    /\ pc = "check_init"
    /\ (Fine /\ Goto("switch_root")) \/ (MayFail("no_init") /\ Goto("shell"))
    /\ UNCHANGED <<given, there, mounts>>

\* exec: after a failure there is no script to go on with.
SwitchRoot ==
    /\ pc = "switch_root"
    /\ (Fine /\ Goto("running")) \/ (MayFail("switch_root") /\ Goto("switch_failed"))
    /\ UNCHANGED <<given, there, mounts>>

\* emergency_shell is exec busybox sh, as process 1.
ShellExits ==
    /\ pc = "shell"
    /\ Goto("exited")
    /\ UNCHANGED <<given, there, mounts, failed>>

End == pc \in Ends \ {"shell"} /\ UNCHANGED bootVars

Script ==
    \/ MountVfs \/ LoadModules \/ Sleep1 \/ Wait \/ Sleep2
    \/ ProbePassesOver \/ ProbeOther \/ ProbeFinds \/ ProbeEnds
    \/ Losetup \/ MountErofs \/ BindLiveOverlay \/ MountTmpfs \/ MountOverlay
    \/ MoveVfs \/ MoveMnt \/ CheckInit \/ SwitchRoot

BootNext == Script \/ (\E d \in Devices : Appear(d)) \/ RequestedShellExits \/ ShellExits \/ End

(* The script goes on, and a device the kernel can find it finds; that     *)
(* somebody leaves a shell is not assumed.                                 *)
Fairness == WF_bootVars(Script) /\ \A d \in Devices : WF_bootVars(Appear(d))
BootSpec == BootInit /\ [][BootNext]_bootVars /\ Fairness
-----------------------------------------------------------------------------
(* The live system runs from one medium: its base, its live overlay and    *)
(* what recstrap finds at /media/cdrom are of the device that was chosen,  *)
(* also where another device could not be unmounted from /mnt.             *)
RunsFromOneMedium ==
    pc = "running" =>
        /\ rootfs = boot_dev
        /\ live \in {boot_dev, None}
        /\ cdrom = boot_dev \/ "move" \in failed

(* A medium that appears in time is booted from: within one second or, if  *)
(* there is no other device that could be /dev/sr0 or /dev/sda, within     *)
(* three, unless a command fails or a shell was asked for.                 *)
InTime(d) ==
    \/ appears[d] = "1s"
    \/ appears[d] = "3s" /\ \A e \in {sr0, sda} \ {d} : appears[e] = "never"
BootsIfInTime ==
    (\E d \in Devices : HasImage(d) /\ InTime(d))
        ~> (pc \in {"running", "requested_shell"} \/ failed # {})
=============================================================================
