-------------------------------- MODULE Qcow2 --------------------------------
(***************************************************************************)
(* `leviso build qcow2' (src/artifact/qcow2): the rootfs-staging tree is   *)
(* copied to a work directory and configured there, an EFI and a root      *)
(* partition are made, put together as a raw disk, converted to qcow2 at   *)
(* the final path and verified.  The command may fail at any step or be    *)
(* killed; the next one starts from what is on disk, and between commands  *)
(* the developer rebuilds what the image is made of, or cleans.            *)
(*                                                                         *)
(* Trees, kernels and initramfs images are versions.  The UUIDs of one     *)
(* build are known by the number of the build they were generated in.      *)
(***************************************************************************)
EXTENDS Integers

CONSTANTS
    Sizes,              \* the values of --disk-size, in GB
    Modulus,            \* 2^64 in the code, the range of a u64
    MaxFile,            \* the largest file the host can hold, in MB
    Services,           \* the units enable_services enables
    Accounts, root,     \* the accounts in /etc/shadow, and root
    MaxVersion,         \* bound on the versions of each part
    MaxBuilds,          \* bound on the number of builds
    MaxChanges          \* bound on what the developer does in between

EFI_SIZE_MB == 1024
ASSUME BoundsAssumption ==
    MaxVersion \in Nat \ {0} /\ MaxBuilds \in Nat /\ MaxChanges \in Nat
ASSUME SizesAssumption ==
    /\ Modulus \in Nat /\ MaxFile \in Nat /\ MaxFile + EFI_SIZE_MB + 2 < Modulus
    /\ Sizes \subseteq {d \in Nat : d * 1024 < Modulus}
ASSUME AccountsAssumption == root \in Accounts

VARIABLES
    staging,            \* rootfs-staging
    kernel, initramfs,  \* staging/boot/vmlinuz, initramfs-installed.img (0: none)
    hostUnits,          \* the units of the machine the build runs on
    work,               \* qcow2-work: the tree and the images in it
    image,              \* the qcow2 file at its final path
    pc, size, build,    \* the running step, the size asked for, number of builds
    result,             \* how the last build ended
    before,             \* the image when the last build was started
    changes             \* number of changes so far

parts == <<staging, kernel, initramfs>>
vars == <<parts, hostUnits, work, image, pc, size, build, result, before, changes>>

Version == 0..MaxVersion
Build == 0..MaxBuilds
NoBuild == 0
(* A tree: its version, what validate_rootfs_content looks at, the units   *)
(* in it and those enabled, the passwords in /etc/shadow ("short": the     *)
(* line has less than three fields), the SSH host keys, and the builds     *)
(* whose UUIDs and settings it holds.                                      *)
Passwords == {"locked", "empty", "short"}
Tree == [ver : Version, ok : {"absent", "incomplete", "small", "good"},
         units : SUBSET Services, enabled : SUBSET Services, serial : BOOLEAN,
         shadow : [Accounts -> Passwords], keys : SUBSET {"key", "pub"},
         fstab : Build, configured : SUBSET {"machine_id", "hostname", "instrumentation"},
         kernel : Version]
NoTree == [ver |-> 0, ok |-> "absent", units |-> {}, enabled |-> {}, serial |-> FALSE,
           shadow |-> [a \in Accounts |-> "locked"], keys |-> {}, fstab |-> NoBuild,
           configured |-> {}, kernel |-> 0]
Efi == [fs : Build, entry : Build, kernel : Version, initramfs : Version]
Root == [fs : Build, tree : Tree, mb : Nat]
Disk == [efi : Efi, root : Root, part : Build, gb : Sizes \cup {0}]
Work == [dir : BOOLEAN, rootfs : Tree, efi : Efi, root : Root, raw : Disk]
Image == [st : {"absent", "cut", "small", "whole"}, disk : Disk]
NoEfi == [fs |-> NoBuild, entry |-> NoBuild, kernel |-> 0, initramfs |-> 0]
NoRoot == [fs |-> NoBuild, tree |-> NoTree, mb |-> 0]
NoDisk == [efi |-> NoEfi, root |-> NoRoot, part |-> NoBuild, gb |-> 0]
NoWork == [dir |-> FALSE, rootfs |-> NoTree, efi |-> NoEfi, root |-> NoRoot, raw |-> NoDisk]
EmptyWork == [dir |-> TRUE, rootfs |-> NoTree, efi |-> NoEfi, root |-> NoRoot, raw |-> NoDisk]
NoImage == [st |-> "absent", disk |-> NoDisk]

\* A tree as build_rootfs leaves it: every unit that is enabled is there.
StagingTree(v, o, u, e, p) ==
    [ver |-> v, ok |-> o, units |-> u, enabled |-> e, serial |-> FALSE,
     shadow |-> [a \in Accounts |-> IF a = root THEN p ELSE "locked"], keys |-> {"key", "pub"},
     fstab |-> NoBuild, configured |-> {}, kernel |-> 0]
StagingTrees ==
    {StagingTree(v, o, u, e, p) :
        v \in 1..MaxVersion, o \in {"incomplete", "small", "good"},
        u \in SUBSET Services, e \in SUBSET Services, p \in {"locked", "short"}}
Stagings == {t \in StagingTrees : t.enabled \subseteq t.units}

\* The steps of prepare_qcow2_rootfs, each with the one that follows.
StepAfter == [fstab |-> "shadow", shadow |-> "machine_id", machine_id |-> "hostname",
              hostname |-> "services", services |-> "instrumentation", instrumentation |-> "keys",
              keys |-> "kernel", kernel |-> "efi"]
ConfigSteps == DOMAIN StepAfter
Steps == {"none", "check", "workdir", "copy", "efi", "root", "raw", "remove", "convert",
          "verify", "cleanup", "verify_again"} \cup ConfigSteps

TypeOK ==
    /\ staging \in Stagings \cup {NoTree}
    /\ kernel \in Version /\ initramfs \in Version
    /\ hostUnits \subseteq Services
    /\ work \in Work /\ image \in Image
    /\ pc \in Steps
    /\ size \in Sizes \cup {0}
    /\ build \in Build
    /\ result \in {"none", "ok", "err", "killed"}
    /\ changes \in 0..MaxChanges

Init ==
    /\ staging \in {t \in Stagings : t.ver = 1 /\ t.ok = "good"}
    /\ kernel = 1 /\ initramfs = 1
    /\ hostUnits \in SUBSET Services
    /\ work = NoWork /\ image = NoImage /\ before = NoImage
    /\ pc = "none" /\ size = 0 /\ build = NoBuild
    /\ result = "none"
    /\ changes = 0
-----------------------------------------------------------------------------
World == <<parts, hostUnits, size, build, before, changes>>
Goto(p) == pc' = p /\ UNCHANGED result
Fails == pc' = "none" /\ result' = "err" /\ UNCHANGED <<work, image>>

Start(gb) ==
    /\ pc = "none" /\ build < MaxBuilds
    /\ pc' = "check" /\ size' = gb /\ build' = build + 1
    /\ before' = image /\ result' = "none"
    /\ UNCHANGED <<parts, hostUnits, work, image, changes>>

(* check_host_tools, ensure_exists, verify_build_dependencies with         *)
(* validate_rootfs_content, generate_disk_uuids.                           *)
ValidRootfsContent == staging.ok = "good"
CheckDependencies ==
    /\ pc = "check"
    /\ \/ kernel # 0 /\ initramfs # 0 /\ ValidRootfsContent
          /\ Goto("workdir") /\ UNCHANGED <<work, image>>
       \/ Fails
    /\ UNCHANGED World

\* A faulty variant that goes on in the work directory of an earlier build.
KeepWorkDir ==
    /\ pc = "workdir"
    /\ work' = [work EXCEPT !.dir = TRUE]
    /\ Goto("copy") /\ UNCHANGED <<World, image>>

\* A faulty variant that removes the old image together with the old directory.
MakeWorkDirRemovesImage ==
    /\ pc = "workdir"
    /\ work' = EmptyWork /\ image' = NoImage
    /\ Goto("copy") /\ UNCHANGED World

MakeWorkDir ==
    /\ pc = "workdir"
    /\ \/ work' = EmptyWork /\ Goto("copy") /\ UNCHANGED image
       \/ Fails
    /\ UNCHANGED World

(* cp -a: into a directory that exists it would copy the tree one level    *)
(* deeper, where nobody looks for it.                                      *)
CopyStaging ==
    /\ pc = "copy"
    /\ \/ work' = [work EXCEPT !.rootfs = IF @ = NoTree THEN staging ELSE @]
          /\ Goto("fstab") /\ UNCHANGED image
       \/ Fails
    /\ UNCHANGED World
-----------------------------------------------------------------------------
(* The steps of prepare_qcow2_rootfs on the tree t.                        *)
\* A faulty generate_fstab that keeps the fstab of a complete tree.
generate_fstab_unless_there(t) ==
    IF t.ok = "good" THEN t ELSE [t EXCEPT !.fstab = build]

generate_fstab(t) == [t EXCEPT !.fstab = build]

set_empty_root_password(t) ==
    [t EXCEPT !.shadow[root] = IF @ = "short" THEN @ ELSE "empty"]

\* A faulty enable_services that looks for the unit on the host.
enable_services_of_host(t) ==
    [t EXCEPT !.enabled = @ \cup hostUnits, !.serial = TRUE]

(* A link that is there is taken to dangle if the host, whose root its     *)
(* absolute target is looked up in, has no such unit; it is removed and    *)
(* made again if the unit is in the tree.                                  *)
enable_services(t) ==
    LET dangling == t.enabled \ hostUnits
        kept == t.enabled \ dangling
    IN  [t EXCEPT !.enabled = kept \cup {s \in Services \ kept : s \in t.units},
                  !.serial = TRUE]

\* A faulty regenerate_ssh_keys that leaves the public key.
remove_private_key(t) == [t EXCEPT !.keys = @ \ {"key"}]

regenerate_ssh_keys(t) == [t EXCEPT !.keys = {}]

copy_kernel(t) == [t EXCEPT !.kernel = IF kernel = 0 THEN @ ELSE kernel]

Configured(t, step) ==
    CASE step = "fstab" -> generate_fstab(t)
      [] step = "shadow" -> set_empty_root_password(t)
      [] step = "services" -> enable_services(t)
      [] step = "keys" -> regenerate_ssh_keys(t)
      [] step = "kernel" -> copy_kernel(t)
      [] OTHER -> [t EXCEPT !.configured = @ \cup {step}]

Configure ==
    /\ pc \in ConfigSteps
    /\ \/ /\ work' = [work EXCEPT !.rootfs = Configured(@, pc)]
          /\ Goto(StepAfter[pc]) /\ UNCHANGED image
       \/ Fails
    /\ UNCHANGED World
-----------------------------------------------------------------------------
(* create_efi_partition: the kernel and the install initramfs must still   *)
(* be there; the boot entry names the root partition by its PARTUUID.      *)
CreateEfiPartition ==
    /\ pc = "efi"
    /\ \/ /\ kernel # 0 /\ initramfs # 0
          /\ work' = [work EXCEPT !.efi = [fs |-> build, entry |-> build,
                                           kernel |-> kernel, initramfs |-> initramfs]]
          /\ Goto("root") /\ UNCHANGED image
       \/ Fails
    /\ UNCHANGED World

\* A faulty size that leaves no room for the partition tables.
RootSizeWithoutGpt(gb) == (gb * 1024 - EFI_SIZE_MB) % Modulus

(* root_size_mb: disk_size_gb * 1024 - EFI_SIZE_MB - 2 in a u64.           *)
RootSizeMb(gb) == (gb * 1024 - EFI_SIZE_MB - 2) % Modulus

(* create_root_partition: a release build that underflows asks for a file  *)
(* no host can hold, a debug build panics; a tree may be too large.        *)
CreateRootPartition ==
    /\ pc = "root"
    /\ \/ /\ RootSizeMb(size) <= MaxFile
          /\ work' = [work EXCEPT !.root = [fs |-> build, tree |-> work.rootfs,
                                            mb |-> RootSizeMb(size)]]
          /\ Goto("raw") /\ UNCHANGED image
       \/ Fails
    /\ UNCHANGED World

AssembleDisk ==
    /\ pc = "raw"
    /\ \/ /\ work' = [work EXCEPT !.raw = [efi |-> work.efi, root |-> work.root,
                                           part |-> build, gb |-> size]]
          /\ Goto("remove") /\ UNCHANGED image
       \/ Fails
    /\ UNCHANGED World

\* A faulty variant that ignores an error of the removal.
RemoveOldImageIfItCan ==
    /\ pc = "remove"
    /\ image' \in {image, NoImage} /\ Goto("convert")
    /\ UNCHANGED <<World, work>>

(* convert_to_qcow2: the old image goes first, and qemu-img writes to the  *)
(* final path.                                                             *)
RemoveOldImage ==
    /\ pc = "remove"
    /\ \/ image' = NoImage /\ Goto("convert") /\ UNCHANGED work
       \/ Fails
    /\ UNCHANGED World

Convert ==
    /\ pc = "convert"
    /\ \/ \E s \in {"small", "whole"} : image' = [st |-> s, disk |-> work.raw] /\ Goto("verify")
       \/ /\ image' \in {NoImage, [st |-> "cut", disk |-> work.raw]}
          /\ pc' = "none" /\ result' \in {"err", "killed"}
    /\ UNCHANGED <<World, work>>

(* verify_qcow2_internal, and verify_qcow2 after the build: an image of at *)
(* least 100 MB passes.  The work directory is kept if it does not.        *)
Verify ==
    /\ pc = "verify"
    /\ IF image.st = "small" THEN Fails ELSE Goto("cleanup") /\ UNCHANGED <<work, image>>
    /\ UNCHANGED World

Cleanup ==
    /\ pc = "cleanup"
    /\ \/ work' = NoWork /\ Goto("verify_again") /\ UNCHANGED image
       \/ Fails
    /\ UNCHANGED World

VerifyAgain ==
    /\ pc = "verify_again"
    /\ pc' = "none" /\ result' = IF image.st = "small" THEN "err" ELSE "ok"
    /\ UNCHANGED <<World, work, image>>

Kill ==
    /\ pc # "none"
    /\ pc' = "none" /\ result' = "killed"
    /\ UNCHANGED <<World, work, image>>
-----------------------------------------------------------------------------
(* What the image is made of is rebuilt, or a rebuild of it fails.         *)
Change ==
    /\ pc = "none" /\ changes < MaxChanges
    /\ changes' = changes + 1 /\ result' = "none"
    /\ UNCHANGED <<hostUnits, pc, size, build, before>>

RebuildParts ==
    /\ Change
    /\ \/ /\ staging' \in {t \in Stagings : t.ver \in {staging.ver, staging.ver + 1}} \cup {NoTree}
          /\ UNCHANGED <<kernel, initramfs>>
       \/ kernel' \in Version \ {kernel} /\ UNCHANGED <<staging, initramfs>>
       \/ initramfs' \in Version \ {initramfs} /\ UNCHANGED <<staging, kernel>>
    /\ UNCHANGED <<work, image>>

CleanOutputs ==
    /\ Change
    /\ staging' = NoTree /\ kernel' = 0 /\ initramfs' = 0
    /\ work' = NoWork /\ image' = NoImage

Rest == pc = "none" /\ UNCHANGED vars

Next ==
    \/ \E gb \in Sizes : Start(gb)
    \/ CheckDependencies \/ MakeWorkDir \/ CopyStaging \/ Configure
    \/ CreateEfiPartition \/ CreateRootPartition \/ AssembleDisk
    \/ RemoveOldImage \/ Convert \/ Verify \/ Cleanup \/ VerifyAgain
    \/ RebuildParts \/ CleanOutputs
    \/ Kill \/ Rest

Spec == Init /\ [][Next]_vars
-----------------------------------------------------------------------------
Tree0 == image.disk.root.tree

(* A build that reports success leaves an image of the size asked for,     *)
(* with the tree, kernel and initramfs as they are now, whatever earlier   *)
(* builds that failed or were killed had left in the work directory.       *)
OkImageIsCurrent ==
    result = "ok" =>
        /\ image.st = "whole" /\ image.disk.gb = size
        /\ Tree0.ver = staging.ver /\ Tree0.kernel = kernel
        /\ image.disk.efi.kernel = kernel /\ image.disk.efi.initramfs = initramfs

(* In every image, the UUIDs by which its fstab and its boot entry name    *)
(* file systems and the root partition are those that these were made      *)
(* with: all of one build.                                                 *)
UuidsAgree ==
    image.st # "absent" =>
        /\ Tree0.fstab = image.disk.root.fs /\ Tree0.fstab = image.disk.efi.fs
        /\ image.disk.efi.entry = image.disk.part

(* In every image exactly those of the services are enabled that it has    *)
(* units for, whatever units the host has.                                 *)
ServicesEnabled == image.st # "absent" => Tree0.enabled = Tree0.units /\ Tree0.serial

(* No image holds an SSH host key, which all machines booted from it would *)
(* share, and of its accounts only root, whose password is taken away, is  *)
(* not locked.                                                             *)
NoSharedSecrets ==
    image.st # "absent" =>
        /\ Tree0.keys = {}
        /\ \A a \in Accounts : Tree0.shadow[a] = "locked" <=> a # root

(* The partitions of every image, and the partition tables before and      *)
(* after them, fit into the disk, for every size that can be asked for.    *)
PartitionsFit ==
    image.st # "absent" => 1 + EFI_SIZE_MB + image.disk.root.mb + 1 <= image.disk.gb * 1024

(* A size for which root_size_mb underflows never costs the image that was *)
(* there: the build ends before the old image is removed.                  *)
UnderflowKeepsImage ==
    pc # "none" \/ result # "none" => (size * 1024 < EFI_SIZE_MB + 2 => image = before)

(* The final path of the image, as the callers of build_qcow2 see it.      *)
Slot == INSTANCE UnverifiedSlot WITH
    issued <- build,
    running <- pc # "none",
    slot <- IF image.st = "absent" THEN 0 ELSE image.disk.part,
    ok <- result = "ok"

(* build_qcow2 keeps the promise of a builder that writes in place: the    *)
(* old image is there until this build removes it, what comes to the final *)
(* path is of this build and is written where nothing is, and success is   *)
(* reported only with it there.  Whether it is whole is not promised: a    *)
(* build that stops in the conversion leaves a part of one.                *)
ImplementsSlot == Slot!WrittenSpec
=============================================================================
