--------------------------- MODULE BuildPipeline ----------------------------
(***************************************************************************)
(* The build commands of leviso (src/commands/build.rs, run.rs) over the   *)
(* artifacts, the input hashes beside them (src/rebuild.rs), the artifact  *)
(* store, the ISO and the qcow2 image, and the clean commands              *)
(* (src/clean.rs).  The developer may edit an artifact's inputs at any     *)
(* time, also while a command runs; a command may fail at any step or be   *)
(* killed at any point, and the next command starts from what is on disk.  *)
(*                                                                         *)
(* An artifact's content is which version of its inputs it was made from   *)
(* (src) and whether it would pass its verification ("good") or is         *)
(* truncated or incomplete ("broken").  A hash file, or the record of what *)
(* a running build has read, is {} or {version}: hashes of different       *)
(* versions differ.                                                        *)
(***************************************************************************)
EXTENDS Naturals, Sequences

CONSTANTS
    MaxVersion,         \* bound on the version of each artifact's inputs
    MaxCommands,        \* bound on the number of build and run commands started
    MaxCleans,          \* bound on the number of clean commands
    Commands,           \* the build commands the developer uses
    Edited              \* the artifacts whose inputs the developer edits

ASSUME BoundsAssumption == MaxVersion \in Nat /\ MaxCommands \in Nat /\ MaxCleans \in Nat
ASSUME CommandsAssumption ==
    Commands \subseteq {"full", "rootfs", "initramfs", "iso", "qcow2", "run"}
ASSUME EditedAssumption ==
    Edited \subseteq {"rootfs", "initramfs", "install_initramfs", "overlay"}

VARIABLES
    inputs,             \* the version each artifact's input files are at
    out,                \* filesystem.erofs and the two initramfs images
    staging,            \* rootfs-staging, written together with the rootfs
    hash,               \* the .<artifact>-inputs.hash files
    store,              \* per artifact, the store's key -> content entries
    kernel,             \* what there is of the kernel, see KernelParts
    iso,                \* the ISO at its final path and what it was made from
    newer,              \* what has been written since the ISO was
    qcow2,              \* the qcow2 image and what it was made from
    cmd, ip,            \* the running command, "none" if none, and its next step
    reading,            \* the input version the build in progress has read
    storeOpen,          \* has the running command opened the artifact store?
    result,             \* the last command and how it ended
    edited,             \* inputs edited since the last command was started
    hashLost,           \* has that command failed to write a hash file?
    commands, cleans    \* number of commands and of cleans started

disk == <<out, staging, hash, store, kernel, iso, newer, qcow2>>
control == <<cmd, ip, reading, storeOpen, result, commands, cleans>>
vars == <<inputs, disk, control, edited, hashLost>>

Arts == {"rootfs", "initramfs", "install_initramfs"}
Sources == Arts \cup {"overlay"}    \* the live overlay only goes into the ISO
\* bzImage and vmlinuz, whether .kernel-inputs.hash is that of kconfig and
\* whether bzImage is newer than vmlinuz.
KernelParts == {"bzImage", "vmlinuz", "hash", "newer"}
Version == 0..MaxVersion
None == {}
AtMostOne == {None} \cup {{v} : v \in Version}
Content == [st : {"absent", "broken", "good"}, src : Version]
Absent == [st |-> "absent", src |-> 0]
Exists(c) == c.st # "absent"
NoIso == [st |-> "absent", parts |-> [a \in Arts |-> Absent], overlay |-> 0]
NoImage == [st |-> "absent", staging |-> Absent, initramfs |-> Absent]

(* The steps of each command, in the order of the code.                    *)
BuildCacheStore(a) == <<<<"build", a>>, <<"cache_hash", a>>, <<"store", a>>>>
CreateIsoSteps == <<<<"create_iso", "iso">>, <<"verify_iso", "iso">>>>
FullSteps ==
    <<<<"recipes", "all">>, <<"restore", "rootfs">>, <<"restore", "initramfs">>,
      <<"restore", "install_initramfs">>, <<"kernel", "kernel">>>>
    \o BuildCacheStore("rootfs") \o BuildCacheStore("initramfs")
    \o BuildCacheStore("install_initramfs") \o CreateIsoSteps
    \o <<<<"verify", "initramfs">>, <<"verify", "install_initramfs">>, <<"verify_iso", "iso">>>>
RootfsSteps == <<<<"restore", "rootfs">>>> \o BuildCacheStore("rootfs")
InitramfsSteps ==
    <<<<"restore", "initramfs">>>> \o BuildCacheStore("initramfs") \o <<<<"verify", "initramfs">>>>
IsoSteps ==
    <<<<"build", "rootfs">>, <<"build", "initramfs">>, <<"build", "install_initramfs">>,
      <<"cache_hash", "rootfs">>, <<"cache_hash", "initramfs">>,
      <<"cache_hash", "install_initramfs">>,
      <<"verify", "initramfs">>, <<"verify", "install_initramfs">>>>
    \o CreateIsoSteps \o <<<<"verify_iso", "iso">>>>
Qcow2Steps ==
    <<<<"need_staging", "rootfs">>, <<"if_stale", "install_initramfs">>,
      <<"build", "install_initramfs">>, <<"cache_hash", "install_initramfs">>,
      <<"qcow2", "qcow2">>>>
RunSteps ==
    <<<<"recipes", "all">>, <<"if_no_iso", "iso">>,
      <<"if_missing", "rootfs">>, <<"build", "rootfs">>,
      <<"if_missing", "initramfs">>, <<"build", "initramfs">>>>
    \o CreateIsoSteps \o <<<<"boot", "iso">>>>
Program == [full |-> FullSteps, rootfs |-> RootfsSteps, initramfs |-> InitramfsSteps,
            iso |-> IsoSteps, qcow2 |-> Qcow2Steps, run |-> RunSteps]

TypeOK ==
    /\ inputs \in [Sources -> Version]
    /\ out \in [Arts -> Content]
    /\ staging \in Content
    /\ hash \in [Arts -> AtMostOne]
    /\ store \in [Arts -> SUBSET [key : Version, val : Content]]
    /\ kernel \subseteq KernelParts
    /\ iso \in [st : {"absent", "bad", "good"}, parts : [Arts -> Content], overlay : Version]
    /\ newer \in SUBSET (Arts \cup {"kernel"})
    /\ qcow2 \in [st : {"absent", "built"}, staging : Content, initramfs : Content]
    /\ cmd \in Commands \cup {"none"}
    /\ ip \in 0..20
    /\ reading \in AtMostOne
    /\ storeOpen \in BOOLEAN
    /\ result \in [cmd : Commands \cup {"none"}, res : {"none", "ok", "err", "killed"}]
    /\ edited \in BOOLEAN
    /\ hashLost \in BOOLEAN
    /\ commands \in 0..MaxCommands
    /\ cleans \in 0..MaxCleans

Init ==
    /\ inputs = [s \in Sources |-> 0]
    /\ out = [a \in Arts |-> Absent]
    /\ staging = Absent
    /\ hash = [a \in Arts |-> None]
    /\ store = [a \in Arts |-> {}]
    /\ kernel = {"bzImage", "hash"}
    /\ iso = NoIso
    /\ newer = {}
    /\ qcow2 = NoImage
    /\ cmd = "none" /\ ip = 0
    /\ reading = None
    /\ storeOpen = FALSE
    /\ result = [cmd |-> "none", res |-> "none"]
    /\ edited = FALSE
    /\ hashLost = FALSE
    /\ commands = 0
    /\ cleans = 0
-----------------------------------------------------------------------------
(* Artifact::needs_rebuild: the output is missing, or the hash file is     *)
(* missing or holds another hash than that of the current inputs.          *)
NeedsRebuild(a) == ~Exists(out[a]) \/ hash[a] # {inputs[a]}

\* A faulty iso_needs_rebuild that forgets the modification time of the initramfs.
IsoNeedsRebuildForgetsInitramfs ==
    \/ iso.st = "absent"
    \/ ~Exists(out["rootfs"]) \/ ~Exists(out["initramfs"]) \/ "vmlinuz" \notin kernel
    \/ newer \cap {"rootfs", "kernel"} # {}

(* iso_needs_rebuild: by existence and modification time of three of the   *)
(* ISO's parts.  The overlay files it also looks at, under                 *)
(* profile/live-overlay, are not in the repository (the overlay is made    *)
(* from src/component/custom/live/overlay), and a file that does not exist *)
(* is not newer than the ISO.                                              *)
IsoNeedsRebuild ==
    \/ iso.st = "absent"
    \/ ~Exists(out["rootfs"]) \/ ~Exists(out["initramfs"]) \/ "vmlinuz" \notin kernel
    \/ newer \cap {"rootfs", "initramfs", "kernel"} # {}

\* kernel_needs_compile, kernel_needs_install
KernelNeedsCompile == ~({"bzImage", "hash"} \subseteq kernel)
KernelNeedsInstall == "bzImage" \in kernel /\ ("vmlinuz" \notin kernel \/ "newer" \in kernel)
-----------------------------------------------------------------------------
At(op, a) == cmd # "none" /\ Program[cmd][ip] = <<op, a>>

(* The step is done, n steps further on there may be another one.          *)
Advance(n) ==
    /\ IF ip + n > Len(Program[cmd])
       THEN cmd' = "none" /\ ip' = 0 /\ storeOpen' = FALSE /\ result' = [cmd |-> cmd, res |-> "ok"]
       ELSE ip' = ip + n /\ UNCHANGED <<cmd, storeOpen, result>>
    /\ reading' = None
    /\ UNCHANGED <<commands, cleans>>

Stop(res) ==
    /\ cmd' = "none" /\ ip' = 0 /\ storeOpen' = FALSE
    /\ result' = [cmd |-> cmd, res |-> res]
    /\ reading' = None
    /\ UNCHANGED <<commands, cleans>>

ReturnsErr == Stop("err")
Written(a, c) ==
    /\ out' = [out EXCEPT ![a] = c]
    /\ newer' = newer \cup {a}
-----------------------------------------------------------------------------
(* Faulty variants of the actions below, each the bug its name says; none  *)
(* of them is part of the specification.                                   *)
BuildInitramfsUnverified(a) ==
    /\ a # "rootfs"
    /\ At("build", a)
    /\ \E v \in reading : \E s \in {"broken", "good"} : Written(a, [st |-> s, src |-> v])
    /\ Advance(1)
    /\ UNCHANGED <<inputs, staging, hash, store, kernel, iso, qcow2, edited, hashLost>>

CacheHashOnlyOnce(a) ==
    /\ At("cache_hash", a)
    /\ Advance(1)
    /\ hash' = [hash EXCEPT ![a] = IF @ = None THEN {inputs[a]} ELSE @]
    /\ UNCHANGED <<inputs, out, staging, store, kernel, iso, newer, qcow2, edited, hashLost>>

CreateIsoUnlessThere ==
    /\ At("create_iso", "iso")
    /\ \A a \in Arts : Exists(out[a])
    /\ iso' = IF iso.st = "absent"
              THEN [st |-> "good", parts |-> out, overlay |-> inputs["overlay"]]
              ELSE iso
    /\ newer' = {}
    /\ Advance(1)
    /\ UNCHANGED <<inputs, out, staging, hash, store, kernel, qcow2, edited, hashLost>>
-----------------------------------------------------------------------------
(* A command is started; the artifact store opens or is disabled for it.   *)
Start(c) ==
    /\ cmd = "none"
    /\ commands < MaxCommands
    /\ cmd' = c /\ ip' = 1
    /\ storeOpen' \in IF c \in {"full", "rootfs", "initramfs"} THEN BOOLEAN ELSE {FALSE}
    /\ result' = [cmd |-> c, res |-> "none"]
    /\ edited' = FALSE
    /\ hashLost' = FALSE
    /\ commands' = commands + 1
    /\ UNCHANGED <<inputs, disk, reading, cleans>>

(* Host tools, Rocky, supplementary and EPEL packages, or QEMU, by recipe. *)
Recipes ==
    /\ At("recipes", "all")
    /\ Advance(1) \/ ReturnsErr
    /\ UNCHANGED <<inputs, disk, edited, hashLost>>

(* try_restore_file_from_key: a missing output whose hash file names an    *)
(* entry of the store comes back from there; an error only warns.          *)
Restore(a) ==
    /\ At("restore", a)
    /\ Advance(1)
    /\ \/ /\ storeOpen /\ ~Exists(out[a])
          /\ \E e \in store[a] : {e.key} = hash[a] /\ Written(a, e.val)
       \/ UNCHANGED <<out, newer>>
    /\ UNCHANGED <<inputs, staging, hash, store, kernel, iso, qcow2, edited, hashLost>>

(* A kernel that is not compiled ends the build; one that is compiled and  *)
(* newer than vmlinuz, or without one, goes to its recipe.  The recipe is  *)
(* skipped if there is a vmlinuz and a modules directory, which is not in  *)
(* this model (KernelStaging has it); it copies vmlinuz before the modules *)
(* and, at its end or after a failure, removes kernel-build.  The kernel   *)
(* payload the build then puts into the store is left out: an error of it  *)
(* only warns, and leviso never takes a kernel from there.                 *)
Kernel ==
    /\ At("kernel", "kernel")
    /\ \/ KernelNeedsCompile /\ ReturnsErr /\ UNCHANGED <<kernel, newer>>
       \/ /\ ~KernelNeedsCompile /\ KernelNeedsInstall
          /\ ReturnsErr
          /\ kernel' \in {kernel, kernel \ {"bzImage", "newer"}} /\ UNCHANGED newer
       \/ /\ ~KernelNeedsCompile /\ KernelNeedsInstall
          /\ Advance(1) \/ ReturnsErr
          /\ kernel' \in {{"vmlinuz", "hash"}, {"bzImage", "vmlinuz", "hash"}}
          /\ newer' = newer \cup {"kernel"}
       \/ /\ ~KernelNeedsCompile /\ (KernelNeedsInstall => "vmlinuz" \in kernel)
          /\ Advance(1) /\ UNCHANGED <<kernel, newer>>
    /\ UNCHANGED <<inputs, out, staging, hash, store, iso, qcow2, edited, hashLost>>

(* A builder starts and reads its inputs.                                  *)
BuildReads(a) ==
    /\ At("build", a) /\ reading = None
    /\ reading' = {inputs[a]}
    /\ UNCHANGED <<inputs, disk, cmd, ip, storeOpen, result, commands, cleans,
                   edited, hashLost>>

(* build_rootfs ends (RootfsBuild has the steps): with an error before the *)
(* swap, with the pair in place, or with an error or a kill inside the     *)
(* swap.  The errors of its two removals are ignored, so a kill or the     *)
(* rename that fails then finds the old staging directory whole, damaged   *)
(* or gone, or the new one in its place, and the old image or none.        *)
BuildRootfsFails ==
    /\ At("build", "rootfs") /\ reading # None
    /\ ReturnsErr
    /\ UNCHANGED <<inputs, disk, edited, hashLost>>

BuildRootfsDone ==
    /\ At("build", "rootfs")
    /\ \E v \in reading :
        /\ staging' = [st |-> "good", src |-> v]
        /\ Written("rootfs", [st |-> "good", src |-> v])
    /\ Advance(1)
    /\ UNCHANGED <<inputs, hash, store, kernel, iso, qcow2, edited, hashLost>>

BuildRootfsSwapStops ==
    /\ At("build", "rootfs")
    /\ \E v \in reading :
        \/ staging' \in {staging, Absent, [st |-> "good", src |-> v]}
        \/ Exists(staging) /\ staging' = [staging EXCEPT !.st = "broken"]
    /\ out' \in {out, [out EXCEPT !["rootfs"] = Absent]}
    /\ Stop("killed") \/ ReturnsErr
    /\ UNCHANGED <<inputs, hash, store, kernel, iso, newer, qcow2, edited, hashLost>>

(* build_tiny_initramfs and build_install_initramfs let recinit write to   *)
(* the final path and verify what is there afterwards: an image that fails *)
(* its verification, or a truncated one, stays.                            *)
BuildInitramfs(a) ==
    /\ a # "rootfs"
    /\ At("build", a)
    /\ \E v \in reading :
        \/ Written(a, [st |-> "good", src |-> v]) /\ Advance(1)
        \/ Written(a, [st |-> "broken", src |-> v]) /\ ReturnsErr
        \/ UNCHANGED <<out, newer>> /\ ReturnsErr
        \/ Written(a, [st |-> "broken", src |-> v]) /\ Stop("killed")
    /\ UNCHANGED <<inputs, staging, hash, store, kernel, iso, qcow2, edited, hashLost>>

(* Artifact::cache_hash hashes the inputs as they are now; an input it     *)
(* cannot read or a hash file it cannot write is ignored.                  *)
CacheHash(a) ==
    /\ At("cache_hash", a)
    /\ Advance(1)
    /\ \/ hash' = [hash EXCEPT ![a] = {inputs[a]}] /\ UNCHANGED hashLost
       \/ hashLost' = TRUE /\ UNCHANGED hash
    /\ UNCHANGED <<inputs, out, staging, store, kernel, iso, newer, qcow2, edited>>

(* try_store_file_from_key: the output goes into the store under the key   *)
(* in the hash file; an error only warns.                                  *)
Store(a) ==
    /\ At("store", a)
    /\ Advance(1)
    /\ \/ /\ storeOpen
          /\ \E v \in hash[a] :
                store' = [store EXCEPT ![a] =
                            {e \in @ : e.key # v} \cup {[key |-> v, val |-> out[a]]}]
       \/ UNCHANGED store
    /\ UNCHANGED <<inputs, out, staging, hash, kernel, iso, newer, qcow2, edited, hashLost>>

(* verify_live_initramfs, verify_install_initramfs on what is on disk.     *)
Verify(a) ==
    /\ At("verify", a)
    /\ IF out[a].st = "good" THEN Advance(1) ELSE ReturnsErr
    /\ UNCHANGED <<inputs, disk, edited, hashLost>>

(* create_iso up to its rename: the rootfs and the live initramfs are      *)
(* asked for, then the kernel, and the install initramfs is missed when    *)
(* the UKIs for installed systems are built from it; the ISO is written    *)
(* beside the old one and renamed over it before it is verified.           *)
Lacks(S) == \E a \in S : ~Exists(out[a])
CreateIsoRefuses ==
    /\ At("create_iso", "iso")
    /\ Lacks(Arts) \/ "vmlinuz" \notin kernel
    /\ ReturnsErr
    /\ UNCHANGED <<inputs, disk, edited, hashLost>>

CreateIso ==
    /\ At("create_iso", "iso")
    /\ ~Lacks(Arts) /\ "vmlinuz" \in kernel
    /\ \/ ReturnsErr /\ UNCHANGED <<iso, newer>>
       \/ /\ \E s \in {"bad", "good"} :
                iso' = [st |-> s, parts |-> out, overlay |-> inputs["overlay"]]
          /\ newer' = {}
          /\ Advance(1)
    /\ UNCHANGED <<inputs, out, staging, hash, store, kernel, qcow2, edited, hashLost>>

VerifyIso ==
    /\ At("verify_iso", "iso")
    /\ IF iso.st = "good" THEN Advance(1) ELSE ReturnsErr
    /\ UNCHANGED <<inputs, disk, edited, hashLost>>

(* build_qcow2_only: the staging directory must exist, the install         *)
(* initramfs is rebuilt if it is stale, and the image is made from both.   *)
NeedStaging ==
    /\ At("need_staging", "rootfs")
    /\ IF Exists(staging) THEN Advance(1) ELSE ReturnsErr
    /\ UNCHANGED <<inputs, disk, edited, hashLost>>

IfStale(a) ==
    /\ At("if_stale", a)
    /\ IF NeedsRebuild(a) THEN Advance(1) ELSE Advance(3)
    /\ UNCHANGED <<inputs, disk, edited, hashLost>>

BuildQcow2 ==
    /\ At("qcow2", "qcow2")
    /\ \/ "vmlinuz" \notin kernel /\ ReturnsErr /\ UNCHANGED qcow2
       \/ ReturnsErr /\ qcow2' \in {qcow2, NoImage}
       \/ /\ "vmlinuz" \in kernel
          /\ qcow2' = [st |-> "built", staging |-> staging, initramfs |-> out["install_initramfs"]]
          /\ Advance(1)
    /\ UNCHANGED <<inputs, out, staging, hash, store, kernel, iso, newer, edited, hashLost>>

(* ensure_iso_built: any ISO will do; otherwise the missing ones of rootfs *)
(* and live initramfs are built.                                           *)
IfNoIso ==
    /\ At("if_no_iso", "iso")
    /\ IF iso.st = "absent" THEN Advance(1) ELSE Advance(7)
    /\ UNCHANGED <<inputs, disk, edited, hashLost>>

IfMissing(a) ==
    /\ At("if_missing", a)
    /\ IF Exists(out[a]) THEN Advance(2) ELSE Advance(1)
    /\ UNCHANGED <<inputs, disk, edited, hashLost>>

\* qemu::run_iso or test_iso (BootTest); neither writes to an artifact.
BootIso ==
    /\ At("boot", "iso")
    /\ Advance(1) \/ ReturnsErr
    /\ UNCHANGED <<inputs, disk, edited, hashLost>>
-----------------------------------------------------------------------------
(* The clean commands remove path after path and stop at the first error.  *)
Cleans ==
    /\ cmd = "none"
    /\ cleans < MaxCleans
    /\ cleans' = cleans + 1
    /\ result' = [cmd |-> "none", res |-> "none"]
    /\ UNCHANGED <<cmd, ip, reading, storeOpen, commands>>

CleanRootfs ==
    /\ Cleans
    /\ out' = [out EXCEPT !["rootfs"] = Absent]
    /\ \E n \in 1..3 :
        /\ staging' = IF n >= 2 THEN Absent ELSE staging
        /\ hash' = IF n = 3 THEN [hash EXCEPT !["rootfs"] = None] ELSE hash
    /\ UNCHANGED <<inputs, store, kernel, iso, newer, qcow2, edited, hashLost>>

CleanIso ==
    /\ Cleans
    /\ iso' = NoIso
    /\ \E n \in 1..3 :
        /\ out' = IF n >= 2 THEN [out EXCEPT !["initramfs"] = Absent] ELSE out
        /\ hash' = IF n = 3 THEN [hash EXCEPT !["initramfs"] = None] ELSE hash
    /\ UNCHANGED <<inputs, staging, store, kernel, newer, qcow2, edited, hashLost>>

\* It removes .kconfig.hash, which nobody writes, and not .kernel-inputs.hash.
CleanKernel ==
    /\ Cleans
    /\ kernel' \in {kernel \ {"bzImage", "newer"}, kernel \cap {"hash"}}
    /\ UNCHANGED <<inputs, out, staging, hash, store, iso, newer, qcow2, edited, hashLost>>

(* clean_outputs removes the output directory, all of it or some of its    *)
(* entries before an error (the three images count as one here); the store *)
(* is elsewhere.                                                           *)
CleanOutputs ==
    /\ Cleans
    /\ \E gone \in SUBSET {"images", "hashes", "rest"} :
        /\ out' = IF "images" \in gone THEN [a \in Arts |-> Absent] ELSE out
        /\ hash' = IF "hashes" \in gone THEN [a \in Arts |-> None] ELSE hash
        /\ IF "rest" \in gone
           THEN staging' = Absent /\ kernel' = {} /\ iso' = NoIso /\ qcow2' = NoImage
           ELSE UNCHANGED <<staging, kernel, iso, qcow2>>
    /\ UNCHANGED <<inputs, store, newer, edited, hashLost>>

(* The kernel is compiled by another program (cargo xtask kernels build),  *)
(* the only one that can make a hash file for a kernel that was stale.     *)
XtaskBuildsKernel ==
    /\ cmd = "none" /\ KernelNeedsCompile
    /\ kernel' = {"bzImage", "hash"} \cup
                 (IF "vmlinuz" \in kernel THEN {"vmlinuz", "newer"} ELSE {})
    /\ UNCHANGED <<inputs, out, staging, hash, store, iso, newer, qcow2, control, edited, hashLost>>

(* The developer edits one artifact's inputs, or takes the edit back.      *)
Edit(s) ==
    /\ inputs' \in {[inputs EXCEPT ![s] = v] : v \in Version \ {inputs[s]}}
    /\ edited' = TRUE
    /\ UNCHANGED <<disk, control, hashLost>>

(* The command is killed between two steps, or while a builder works in    *)
(* places nobody else looks at.                                            *)
Kill ==
    /\ cmd # "none"
    /\ Stop("killed")
    /\ UNCHANGED <<inputs, disk, edited, hashLost>>

\* No command runs and the developer starts no other.
Rest == cmd = "none" /\ UNCHANGED vars

Next ==
    \/ \E c \in Commands : Start(c)
    \/ Recipes \/ Kernel \/ CreateIsoRefuses \/ CreateIso \/ VerifyIso \/ NeedStaging \/ BuildQcow2
    \/ IfNoIso \/ BootIso
    \/ \E a \in Arts :
        \/ Restore(a) \/ BuildReads(a) \/ BuildInitramfs(a) \/ CacheHash(a) \/ Store(a)
        \/ Verify(a) \/ IfStale(a) \/ IfMissing(a)
    \/ BuildRootfsFails \/ BuildRootfsDone \/ BuildRootfsSwapStops
    \/ CleanRootfs \/ CleanIso \/ CleanKernel \/ CleanOutputs
    \/ XtaskBuildsKernel
    \/ \E s \in Edited : Edit(s)
    \/ Kill \/ Rest

Spec == Init /\ [][Next]_vars
-----------------------------------------------------------------------------
(* Nothing unfinished gets into the artifact store, whence every later     *)
(* build would restore it: what is stored was built and verified by the    *)
(* same command just before.                                               *)
StoreHoldsFinished == \A a \in Arts : \A e \in store[a] : e.val.st = "good"

(* A full or ISO build that reports success, with no edit since it was     *)
(* started, leaves every artifact made from the current inputs, and an ISO *)
(* made from exactly these artifacts, whatever earlier commands that       *)
(* failed or were killed had left behind, and whatever was restored.       *)
SuccessIsCurrent ==
    result.res = "ok" /\ result.cmd \in {"full", "iso"} /\ ~edited =>
        /\ \A a \in Arts : out[a] = [st |-> "good", src |-> inputs[a]]
        /\ staging = out["rootfs"]
        /\ iso = [st |-> "good", parts |-> out, overlay |-> inputs["overlay"]]

(* After a full or ISO build that reports success, with no edit since it   *)
(* was started and every hash file written, show status has "OK (up to     *)
(* date)" for the rootfs, the two initramfs images and the ISO, from every *)
(* state of the output directory.  Nothing is said of its two lines on the *)
(* kernel: leviso does not compile one, and its recipe may have removed    *)
(* bzImage, or have skipped an install that is due, before a success.      *)
SuccessLeavesImagesUpToDate ==
    result.res = "ok" /\ result.cmd \in {"full", "iso"} /\ ~edited /\ ~hashLost =>
        (\A a \in Arts : ~NeedsRebuild(a)) /\ ~IsoNeedsRebuild

(* "skip rebuilding artifacts that haven't changed": an artifact that is   *)
(* not to be rebuilt was made from the inputs as they are.                 *)
UpToDateIsCurrent ==
    \A a \in Arts : ~NeedsRebuild(a) /\ out[a].st = "good" => out[a].src = inputs[a]

(* An ISO that is not reported as stale holds the rootfs and the live      *)
(* initramfs that are on disk.                                             *)
FreshIsoHoldsParts ==
    ~IsoNeedsRebuild => \A a \in {"rootfs", "initramfs"} : iso.parts[a] = out[a]
=============================================================================
