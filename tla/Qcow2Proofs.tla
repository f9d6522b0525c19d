----------------------------- MODULE Qcow2Proofs -----------------------------
(* Proofs about Qcow2, for every set of sizes, services and accounts, every *)
(* modulus the sizes fit into and every bound.                              *)
EXTENDS Qcow2, TLAPS

(* The steps before which each of the steps of the build has been done, as  *)
(* long as the work directory is not removed.                               *)
DiskMade == {"remove", "convert"}
RootMade == {"raw"} \cup DiskMade
EfiMade == {"root"} \cup RootMade
KernelCopied == {"efi"} \cup EfiMade
KeysRemoved == {"kernel"} \cup KernelCopied
ServicesSet == {"instrumentation", "keys"} \cup KeysRemoved
PasswordSet == {"machine_id", "hostname", "services"} \cup ServicesSet
FstabMade == {"shadow"} \cup PasswordSet
TreeCopied == {"fstab"} \cup FstabMade
Converted == {"verify", "cleanup", "verify_again"}

\* Root has no password in the shadow file s, and every other account is locked.
OnlyRootUnlocked(s) == \A a \in Accounts : s[a] = "locked" <=> a # root

(* A build that runs has checked what it is made of, has nothing to report *)
(* yet, and has left the old image alone as long as it has not converted.  *)
ControlInv ==
    /\ pc # "none" => size \in Sizes /\ result = "none"
    /\ pc \notin {"none", "check"} => staging.ok = "good" /\ kernel # 0 /\ initramfs # 0
    /\ pc \notin Converted \cup {"none", "convert"} => image = before
    /\ pc \in RootMade \cup Converted => EFI_SIZE_MB + 2 <= size * 1024

(* The tree in the work directory is a copy of staging, with what the      *)
(* steps so far have changed in it.                                        *)
TreeInv ==
    /\ pc = "copy" => work.rootfs = NoTree
    /\ pc \in TreeCopied =>
         /\ work.rootfs.ver = staging.ver
         /\ work.rootfs.enabled \subseteq work.rootfs.units
         /\ \A a \in Accounts \ {root} : work.rootfs.shadow[a] = "locked"
    /\ pc \in FstabMade => work.rootfs.fstab = build
    /\ pc \in PasswordSet => OnlyRootUnlocked(work.rootfs.shadow)
    /\ pc \in ServicesSet => work.rootfs.enabled = work.rootfs.units /\ work.rootfs.serial
    /\ pc \in KeysRemoved => work.rootfs.keys = {}
    /\ pc \in KernelCopied => work.rootfs.kernel = kernel

(* The images that were made so far are of this build.                     *)
WorkInv ==
    /\ pc \in EfiMade => work.efi = [fs |-> build, entry |-> build,
                                     kernel |-> kernel, initramfs |-> initramfs]
    /\ pc \in RootMade =>
         /\ work.root.fs = build /\ work.root.tree = work.rootfs
         /\ EFI_SIZE_MB + 2 + work.root.mb <= size * 1024
    /\ pc \in DiskMade => work.raw = [efi |-> work.efi, root |-> work.root,
                                      part |-> build, gb |-> size]

\* The image is of what there is, and of the size asked for.
Current ==
    /\ image.disk.gb = size
    /\ Tree0.ver = staging.ver /\ Tree0.kernel = kernel
    /\ image.disk.efi.kernel = kernel /\ image.disk.efi.initramfs = initramfs
ImageInv ==
    /\ pc \in Converted => image.st \in {"small", "whole"} /\ Current
    /\ pc \in Converted \ {"verify"} => image.st = "whole"

(* The inductive invariant.                                                *)
IInv == TypeOK /\ ControlInv /\ TreeInv /\ WorkInv /\ ImageInv
        /\ OkImageIsCurrent /\ UuidsAgree /\ ServicesEnabled /\ NoSharedSecrets
        /\ PartitionsFit /\ UnderflowKeepsImage

USE BoundsAssumption, SizesAssumption, AccountsAssumption
USE DEF vars, parts, World, Version, Build, NoBuild, EFI_SIZE_MB, Goto, Fails

(* The size that create_root_partition asks for, if the host can hold it, *)
(* is no underflow of the u64: what is asked for, less the EFI partition   *)
(* and the partition tables.                                               *)
LEMMA RootSizeFits ==
    ASSUME NEW gb \in Sizes, RootSizeMb(gb) <= MaxFile
    PROVE  /\ RootSizeMb(gb) \in Nat
           /\ EFI_SIZE_MB + 2 <= gb * 1024
           /\ EFI_SIZE_MB + 2 + RootSizeMb(gb) <= gb * 1024
<1> DEFINE x == gb * 1024 - EFI_SIZE_MB - 2
<1>1. x \in Int /\ x < Modulus /\ Modulus \in Nat /\ Modulus > 1026 /\ -Modulus < x
    BY SMT
<1>2. CASE x >= 0
    <2>1. x % Modulus = x
        BY <1>1, <1>2
    <2>2. QED
        BY <1>2, <2>1 DEF RootSizeMb
<1>3. CASE x < 0
    <2>1. x % Modulus = x + Modulus
        BY <1>1, <1>3
    <2>2. QED
        BY <1>3, <2>1 DEF RootSizeMb
<1>4. QED
    BY <1>1, <1>2, <1>3

(* A size that can be asked for is a number of gigabytes.                  *)
LEMMA SizesAreNat == Sizes \subseteq Nat
OBVIOUS

(* The order of the steps of prepare_qcow2_rootfs.                         *)
LEMMA ConfigStepOrder ==
    ASSUME NEW s \in ConfigSteps
    PROVE  \/ s = "fstab" /\ StepAfter[s] = "shadow"
           \/ s = "shadow" /\ StepAfter[s] = "machine_id"
           \/ s = "machine_id" /\ StepAfter[s] = "hostname"
           \/ s = "hostname" /\ StepAfter[s] = "services"
           \/ s = "services" /\ StepAfter[s] = "instrumentation"
           \/ s = "instrumentation" /\ StepAfter[s] = "keys"
           \/ s = "keys" /\ StepAfter[s] = "kernel"
           \/ s = "kernel" /\ StepAfter[s] = "efi"
BY DEF ConfigSteps, StepAfter

(* What is not there is of the type of what may be.                        *)
LEMMA AbsentTypes ==
    /\ NoTree \in Tree /\ NoEfi \in Efi /\ NoRoot \in Root /\ NoDisk \in Disk
    /\ NoWork \in Work /\ NoImage \in Image
    /\ EmptyWork \in Work
<1>1. NoTree \in Tree
    BY DEF NoTree, Tree, Passwords
<1>2. NoEfi \in Efi
    BY DEF NoEfi, Efi
<1>3. NoRoot \in Root
    BY <1>1 DEF NoRoot, Root
<1>4. NoDisk \in Disk
    BY <1>2, <1>3 DEF NoDisk, Disk
<1>5. NoWork \in Work
    BY <1>1, <1>2, <1>3, <1>4 DEF NoWork, Work
<1>6. EmptyWork \in Work
    BY <1>1, <1>2, <1>3, <1>4 DEF EmptyWork, Work
<1>7. NoImage \in Image
    BY <1>4 DEF NoImage, Image
<1>8. QED
    BY <1>1, <1>2, <1>3, <1>4, <1>5, <1>6, <1>7

(* What build_rootfs leaves: a tree whose enabled units are there and in   *)
(* which no account has a password.                                        *)
LEMMA StagingTreeOk ==
    ASSUME NEW t \in Stagings
    PROVE  /\ t \in Tree /\ t.enabled \subseteq t.units /\ t # NoTree /\ t.ok # "absent"
           /\ \A a \in Accounts \ {root} : t.shadow[a] = "locked"
<1>1. PICK v \in 1..MaxVersion, o \in {"incomplete", "small", "good"}, u \in SUBSET Services,
           e \in SUBSET Services, p \in {"locked", "short"} : t = StagingTree(v, o, u, e, p)
    BY DEF Stagings, StagingTrees
<1>2. t \in Tree
    BY <1>1 DEF StagingTree, Tree, Passwords
<1>3. t.ok # "absent" /\ NoTree.ok = "absent"
    BY <1>1 DEF StagingTree, NoTree
<1>4. \A a \in Accounts \ {root} : t.shadow[a] = "locked"
    BY <1>1 DEF StagingTree
<1>5. t.enabled \subseteq t.units
    BY DEF Stagings
<1>6. QED
    BY <1>2, <1>3, <1>4, <1>5

(* What the steps of prepare_qcow2_rootfs change in a tree, and that they  *)
(* leave the rest of it alone.                                             *)
LEMMA ConfiguredTree ==
    ASSUME TypeOK, NEW t \in Tree, NEW step \in ConfigSteps
    PROVE  LET c == Configured(t, step)
           IN  /\ c \in Tree
               /\ c.ver = t.ver /\ c.units = t.units
               /\ step = "fstab" => c.fstab = build
               /\ step # "fstab" => c.fstab = t.fstab
               /\ step = "shadow" => c.shadow[root] # "locked"
               /\ step # "shadow" => c.shadow = t.shadow
               /\ \A a \in Accounts \ {root} : c.shadow[a] = t.shadow[a]
               /\ step = "services" /\ t.enabled \subseteq t.units => c.enabled = t.units /\ c.serial
               /\ step # "services" => c.enabled = t.enabled /\ c.serial = t.serial
               /\ step = "keys" => c.keys = {}
               /\ step # "keys" => c.keys = t.keys
               /\ step = "kernel" /\ kernel # 0 => c.kernel = kernel
               /\ step # "kernel" => c.kernel = t.kernel
<1> USE DEF Tree, Configured
<1>1. CASE step = "fstab"
    BY <1>1 DEF generate_fstab, TypeOK
<1>2. CASE step = "shadow"
    BY <1>2 DEF set_empty_root_password, Passwords
<1>3. CASE step = "services"
    <2> DEFINE dangling == t.enabled \ hostUnits
               kept == t.enabled \ dangling
               e == kept \cup {s \in Services \ kept : s \in t.units}
    <2>1. Configured(t, step) = [t EXCEPT !.enabled = e, !.serial = TRUE]
        BY <1>3 DEF enable_services
    <2>2. e \subseteq Services /\ (t.enabled \subseteq t.units => e = t.units)
        OBVIOUS
    <2> HIDE DEF e, Configured
    <2>3. Configured(t, step) \in Tree
        <3>1. e \in SUBSET Services
            BY <2>2
        <3>2. [t EXCEPT !.enabled = e] \in Tree
            BY <3>1
        <3>3. ASSUME NEW u \in Tree, NEW b \in BOOLEAN
              PROVE  [u EXCEPT !.serial = b] \in Tree
            OBVIOUS
        <3>4. Configured(t, step) = [[t EXCEPT !.enabled = e] EXCEPT !.serial = TRUE]
            BY <2>1
        <3>5. QED
            <4>1. [[t EXCEPT !.enabled = e] EXCEPT !.serial = TRUE] \in Tree
                <5> HIDE DEF Tree
                <5> QED
                    BY <3>2, <3>3
            <4>2. QED
                BY <3>4, <4>1
    <2>4. /\ Configured(t, step).enabled = e /\ Configured(t, step).serial
          /\ Configured(t, step).ver = t.ver /\ Configured(t, step).units = t.units
        BY <2>1
    <2>5. /\ Configured(t, step).fstab = t.fstab /\ Configured(t, step).shadow = t.shadow
          /\ Configured(t, step).keys = t.keys /\ Configured(t, step).kernel = t.kernel
        BY <2>1
    <2>6. QED
        BY <1>3, <2>2, <2>3, <2>4, <2>5
<1>4. CASE step = "keys"
    BY <1>4 DEF regenerate_ssh_keys
<1>5. CASE step = "kernel"
    BY <1>5 DEF copy_kernel, TypeOK
<1>6. CASE step \in {"machine_id", "hostname", "instrumentation"}
    BY <1>6
<1>7. step \in {"fstab", "shadow", "machine_id", "hostname", "services", "instrumentation",
                "keys", "kernel"}
    BY DEF ConfigSteps, StepAfter
<1>8. QED
    BY <1>1, <1>2, <1>3, <1>4, <1>5, <1>6, <1>7

(* What the steps write to the work directory changes nothing else in it.  *)
LEMMA WorkUpdates ==
    ASSUME NEW w \in Work
    PROVE  /\ w.rootfs \in Tree /\ w.efi \in Efi /\ w.root \in Root /\ w.raw \in Disk
           /\ \A t \in Tree : LET n == [w EXCEPT !.rootfs = t]
                              IN  n \in Work /\ n.rootfs = t /\ n.efi = w.efi /\ n.root = w.root
           /\ \A e \in Efi : LET n == [w EXCEPT !.efi = e]
                             IN  n \in Work /\ n.efi = e /\ n.rootfs = w.rootfs
           /\ \A r \in Root : LET n == [w EXCEPT !.root = r]
                              IN  n \in Work /\ n.root = r /\ n.rootfs = w.rootfs /\ n.efi = w.efi
           /\ \A d \in Disk : LET n == [w EXCEPT !.raw = d]
                              IN  /\ n \in Work /\ n.raw = d
                                  /\ n.rootfs = w.rootfs /\ n.efi = w.efi /\ n.root = w.root
BY DEF Work

(* Every step keeps the variables in their types.                          *)
LEMMA NextTypeOK == TypeOK /\ ControlInv /\ [Next]_vars => TypeOK'
<1> SUFFICES ASSUME TypeOK, ControlInv, [Next]_vars
             PROVE  TypeOK'
    OBVIOUS
<1> USE DEF TypeOK
<1>a. work \in Work /\ work.rootfs \in Tree /\ work.efi \in Efi /\ work.root \in Root
      /\ work.raw \in Disk
    BY WorkUpdates
<1>1. ASSUME NEW gb \in Sizes, Start(gb)
      PROVE  TypeOK'
    BY <1>1, "check" \in Steps DEF Start, Steps
<1>2. CASE CheckDependencies
    BY <1>2 DEF CheckDependencies, Steps
<1>3. CASE MakeWorkDir
    <2>1. work' \in Work
        <3>1. work' = EmptyWork \/ work' = work
            BY <1>3 DEF MakeWorkDir
        <3>2. QED
            BY <1>a, <3>1, AbsentTypes
    <2>2. pc' \in Steps /\ result' \in {result, "err"}
        BY <1>3 DEF MakeWorkDir, Steps
    <2>3. UNCHANGED <<staging, kernel, initramfs, hostUnits, image, size, build, changes>>
        BY <1>3 DEF MakeWorkDir
    <2>4. QED
        BY <2>1, <2>2, <2>3
<1>4. CASE CopyStaging
    <2>1. work' \in Work
        BY <1>4, <1>a, WorkUpdates, AbsentTypes, StagingTreeOk DEF CopyStaging
    <2>2. pc' \in Steps /\ result' \in {result, "err"}
        BY <1>4 DEF CopyStaging, Steps, ConfigSteps, StepAfter
    <2>3. QED
        BY <1>4, <2>1, <2>2 DEF CopyStaging
<1>5. CASE Configure
    <2>1. work' \in Work
        BY <1>5, <1>a, WorkUpdates, ConfiguredTree DEF Configure
    <2>2. pc' \in Steps /\ result' \in {result, "err"}
        BY <1>5 DEF Configure, Steps, ConfigSteps, StepAfter
    <2>3. QED
        BY <1>5, <2>1, <2>2 DEF Configure
<1>6. CASE CreateEfiPartition
    <2>1. work' \in Work
        <3>1. [fs |-> build, entry |-> build, kernel |-> kernel, initramfs |-> initramfs] \in Efi
            BY DEF Efi
        <3>2. QED
            BY <1>6, <3>1, WorkUpdates DEF CreateEfiPartition
    <2>2. pc' \in Steps /\ result' \in {result, "err"}
        BY <1>6 DEF CreateEfiPartition, Steps
    <2>3. QED
        BY <1>6, <2>1, <2>2 DEF CreateEfiPartition
<1>7. CASE CreateRootPartition
    <2>1. work' \in Work
        <3>1. size \in Sizes
            BY <1>7 DEF CreateRootPartition, ControlInv
        <3>2. RootSizeMb(size) <= MaxFile =>
                [fs |-> build, tree |-> work.rootfs, mb |-> RootSizeMb(size)] \in Root
            BY <1>a, <3>1, RootSizeFits DEF Root
        <3>3. QED
            BY <1>7, <3>2, WorkUpdates DEF CreateRootPartition
    <2>2. pc' \in Steps /\ result' \in {result, "err"}
        BY <1>7 DEF CreateRootPartition, Steps
    <2>3. QED
        BY <1>7, <2>1, <2>2 DEF CreateRootPartition
<1>8. CASE AssembleDisk
    <2>1. work' \in Work
        <3>1. [efi |-> work.efi, root |-> work.root, part |-> build, gb |-> size] \in Disk
            BY <1>a DEF Disk
        <3>2. QED
            BY <1>8, <3>1, WorkUpdates DEF AssembleDisk
    <2>2. pc' \in Steps /\ result' \in {result, "err"}
        BY <1>8 DEF AssembleDisk, Steps
    <2>3. QED
        BY <1>8, <2>1, <2>2 DEF AssembleDisk
<1>9. CASE RemoveOldImage
    BY <1>9, AbsentTypes DEF RemoveOldImage, Steps
<1>10. CASE Convert
    <2>1. \A s \in {"cut", "small", "whole"} : [st |-> s, disk |-> work.raw] \in Image
        BY <1>a DEF Image
    <2>2. image' \in Image
        BY <1>10, <2>1, AbsentTypes DEF Convert
    <2>3. pc' \in Steps
        BY <1>10 DEF Convert, Steps
    <2>4. QED
        BY <1>10, <2>2, <2>3 DEF Convert
<1>11. CASE Verify
    BY <1>11 DEF Verify, Steps
<1>12. CASE Cleanup
    BY <1>12, AbsentTypes DEF Cleanup, Steps
<1>13. CASE VerifyAgain
    BY <1>13 DEF VerifyAgain, Steps
<1>14. CASE RebuildParts
    BY <1>14 DEF RebuildParts, Change
<1>15. CASE CleanOutputs
    BY <1>15, AbsentTypes DEF CleanOutputs, Change
<1>16. CASE Kill
    BY <1>16 DEF Kill, Steps
<1>17. CASE Rest
    BY <1>17 DEF Rest
<1>18. CASE UNCHANGED vars
    BY <1>18
<1>19. QED
    BY <1>1, <1>2, <1>3, <1>4, <1>5, <1>6, <1>7, <1>8, <1>9, <1>10, <1>11, <1>12, <1>13, <1>14,
       <1>15, <1>16, <1>17, <1>18 DEF Next

(* What the initial state establishes.                                     *)
LEMMA InitIInv == Init => IInv
<1> SUFFICES ASSUME Init
             PROVE  IInv
    OBVIOUS
<1>1. TypeOK
    BY AbsentTypes DEF Init, TypeOK, Steps
<1>2. ControlInv /\ TreeInv /\ WorkInv /\ ImageInv
    BY DEF Init, ControlInv, TreeInv, WorkInv, ImageInv, DiskMade, RootMade, EfiMade,
           KernelCopied, KeysRemoved, ServicesSet, PasswordSet, FstabMade, TreeCopied, Converted
<1>3. image.st = "absent" /\ result = "none" /\ pc = "none"
    BY DEF Init, NoImage
<1>4. QED
    BY <1>1, <1>2, <1>3 DEF IInv, OkImageIsCurrent, UuidsAgree, ServicesEnabled, NoSharedSecrets,
       PartitionsFit, UnderflowKeepsImage

(* Every step of a build, and what happens between builds, preserves the   *)
(* invariant.                                                              *)
LEMMA NextIInv == IInv /\ [Next]_vars => IInv'
<1> SUFFICES ASSUME IInv, [Next]_vars
             PROVE  IInv'
    OBVIOUS
<1>0. TypeOK'
    BY NextTypeOK DEF IInv
<1> USE DEF IInv, ControlInv, TreeInv, WorkInv, ImageInv, DiskMade, RootMade, EfiMade,
       KernelCopied, KeysRemoved, ServicesSet, PasswordSet, FstabMade, TreeCopied, Converted,
       OnlyRootUnlocked, Current, Tree0, OkImageIsCurrent, UuidsAgree, ServicesEnabled,
       NoSharedSecrets, PartitionsFit, UnderflowKeepsImage
<1>1. ASSUME NEW gb \in Sizes, Start(gb)
      PROVE  IInv'
    BY <1>0, <1>1 DEF Start
<1>2. CASE CheckDependencies
    <2>1. ControlInv'
        BY <1>2 DEF CheckDependencies, ValidRootfsContent
    <2>2. TreeInv' /\ WorkInv' /\ ImageInv' /\ OkImageIsCurrent' /\ UuidsAgree'
          /\ ServicesEnabled' /\ NoSharedSecrets' /\ PartitionsFit' /\ UnderflowKeepsImage'
        BY <1>2 DEF CheckDependencies
    <2>3. QED
        BY <1>0, <2>1, <2>2
<1>3. CASE MakeWorkDir
    <2>1. TreeInv'
        BY <1>3 DEF MakeWorkDir, EmptyWork
    <2>2. ControlInv' /\ WorkInv' /\ ImageInv' /\ OkImageIsCurrent' /\ UuidsAgree'
          /\ ServicesEnabled' /\ NoSharedSecrets' /\ PartitionsFit' /\ UnderflowKeepsImage'
        BY <1>3 DEF MakeWorkDir
    <2>3. QED
        BY <1>0, <2>1, <2>2
<1>4. CASE CopyStaging
    <2>1. TreeInv'
        <3>1. CASE Fails
            BY <1>4, <3>1
        <3>2. CASE pc' = "fstab" /\ work' = [work EXCEPT !.rootfs = staging]
            <4>1. staging \in Stagings
                BY <1>4 DEF CopyStaging, TypeOK, NoTree
            <4>2. work'.rootfs = staging
                BY <3>2, <4>1, StagingTreeOk, WorkUpdates DEF TypeOK
            <4>3. UNCHANGED staging
                BY <1>4 DEF CopyStaging
            <4>4. QED
                BY <3>2, <4>1, <4>2, <4>3, StagingTreeOk
        <3>3. QED
            BY <1>4, <3>1, <3>2 DEF CopyStaging
    <2>2. ControlInv' /\ WorkInv' /\ ImageInv' /\ OkImageIsCurrent' /\ UuidsAgree'
          /\ ServicesEnabled' /\ NoSharedSecrets' /\ PartitionsFit' /\ UnderflowKeepsImage'
        BY <1>4 DEF CopyStaging
    <2>3. QED
        BY <1>0, <2>1, <2>2
<1>5. CASE Configure
    <2>0. pc # "none"
        BY <1>5, ConfigStepOrder DEF Configure
    <2>1. CASE Fails
        BY <1>5, <1>0, <2>0, <2>1 DEF Configure
    <2>2. CASE work' = [work EXCEPT !.rootfs = Configured(@, pc)] /\ pc' = StepAfter[pc] /\ UNCHANGED <<image, result>>
        <3>1. UNCHANGED <<staging, kernel, initramfs, hostUnits, size, build, before, changes>>
            BY <1>5 DEF Configure
        <3>2. \/ pc = "fstab" /\ pc' = "shadow"
              \/ pc = "shadow" /\ pc' = "machine_id"
              \/ pc = "machine_id" /\ pc' = "hostname"
              \/ pc = "hostname" /\ pc' = "services"
              \/ pc = "services" /\ pc' = "instrumentation"
              \/ pc = "instrumentation" /\ pc' = "keys"
              \/ pc = "keys" /\ pc' = "kernel"
              \/ pc = "kernel" /\ pc' = "efi"
            <4> HIDE DEF IInv
            <4>1. pc \in ConfigSteps /\ pc' = StepAfter[pc]
                BY <1>5, <2>2 DEF Configure
            <4>2. QED
                BY <4>1, ConfigStepOrder
        <3>3. ControlInv' /\ WorkInv' /\ ImageInv' /\ OkImageIsCurrent'
            BY <2>2, <3>1, <3>2
        <3>4. UuidsAgree' /\ ServicesEnabled' /\ NoSharedSecrets' /\ PartitionsFit'
              /\ UnderflowKeepsImage'
            BY <2>2, <3>1, <3>2
        <3>5. TreeInv'
            <4> DEFINE c == Configured(work.rootfs, pc)
            <4>1. work.rootfs \in Tree /\ pc \in ConfigSteps
                BY <1>5, WorkUpdates DEF Configure, TypeOK
            <4>2. work'.rootfs = c
                BY <2>2, <4>1, ConfiguredTree, WorkUpdates DEF TypeOK
            <4>3. c.ver = work.rootfs.ver /\ c.enabled \subseteq c.units
                  /\ \A a \in Accounts \ {root} : c.shadow[a] = work.rootfs.shadow[a]
                BY <3>2, <4>1, ConfiguredTree
            <4>4. pc' \in FstabMade => c.fstab = build
                BY <3>2, <4>1, ConfiguredTree
            <4>5. pc' \in PasswordSet => OnlyRootUnlocked(c.shadow)
                BY <3>2, <4>1, ConfiguredTree
            <4>6. pc' \in ServicesSet => c.enabled = c.units /\ c.serial
                BY <3>2, <4>1, ConfiguredTree
            <4>7. pc' \in KeysRemoved => c.keys = {}
                BY <3>2, <4>1, ConfiguredTree
            <4>8. pc' \in KernelCopied => c.kernel = kernel
                BY <3>2, <4>1, ConfiguredTree
            <4>9. QED
                <5> HIDE DEF c
                <5> QED
                    BY <3>1, <3>2, <4>2, <4>3, <4>4, <4>5, <4>6, <4>7, <4>8
        <3>6. QED
            BY <1>0, <3>3, <3>4, <3>5
    <2>3. QED
        BY <1>5, <2>1, <2>2 DEF Configure
<1>6. CASE CreateEfiPartition
    <2>1. CASE Fails
        BY <1>6, <1>0, <2>1 DEF CreateEfiPartition
    <2>2. CASE pc' = "root"
        <3> DEFINE e == [fs |-> build, entry |-> build, kernel |-> kernel, initramfs |-> initramfs]
        <3>1. e \in Efi
            BY DEF Efi, TypeOK
        <3>2. work'.efi = e /\ work'.rootfs = work.rootfs
            <4>1. work' = [work EXCEPT !.efi = e] /\ work \in Work
                BY <1>6, <2>2 DEF CreateEfiPartition, TypeOK
            <4> HIDE DEF e
            <4>2. QED
                BY <3>1, <4>1, WorkUpdates
        <3>3. pc = "efi" /\ UNCHANGED <<staging, kernel, initramfs, hostUnits, image, result,
                                        size, build, before, changes>>
            BY <1>6, <2>2 DEF CreateEfiPartition
        <3>4. ControlInv' /\ TreeInv' /\ WorkInv'
            BY <2>2, <3>2, <3>3
        <3>5. QED
            BY <1>0, <2>2, <3>3, <3>4
    <2>3. QED
        BY <1>6, <2>1, <2>2 DEF CreateEfiPartition
<1>7. CASE CreateRootPartition
    <2>1. CASE Fails
        BY <1>7, <1>0, <2>1 DEF CreateRootPartition
    <2>2. CASE pc' = "raw"
        <3> DEFINE r == [fs |-> build, tree |-> work.rootfs, mb |-> RootSizeMb(size)]
        <3>1. /\ RootSizeMb(size) \in Nat /\ EFI_SIZE_MB + 2 <= size * 1024
              /\ EFI_SIZE_MB + 2 + RootSizeMb(size) <= size * 1024
            BY <1>7, <2>2, RootSizeFits DEF CreateRootPartition
        <3>2. r \in Root
            BY <3>1, WorkUpdates DEF Root, TypeOK
        <3>3. work'.root = r /\ work'.rootfs = work.rootfs /\ work'.efi = work.efi
            <4>1. work' = [work EXCEPT !.root = r] /\ work \in Work
                BY <1>7, <2>2 DEF CreateRootPartition, TypeOK
            <4> HIDE DEF r
            <4>2. QED
                BY <3>2, <4>1, WorkUpdates
        <3>4. pc = "root" /\ UNCHANGED <<staging, kernel, initramfs, hostUnits, image, result,
                                         size, build, before, changes>>
            BY <1>7, <2>2 DEF CreateRootPartition
        <3>5. TreeInv'
            BY <2>2, <3>3, <3>4
        <3>6. ControlInv' /\ WorkInv'
            BY <2>2, <3>1, <3>3, <3>4
        <3>7. QED
            BY <1>0, <2>2, <3>4, <3>5, <3>6
    <2>3. QED
        BY <1>7, <2>1, <2>2 DEF CreateRootPartition
<1>8. CASE AssembleDisk
    <2>1. CASE Fails
        BY <1>8, <1>0, <2>1 DEF AssembleDisk
    <2>2. CASE pc' = "remove"
        <3> DEFINE d == [efi |-> work.efi, root |-> work.root, part |-> build, gb |-> size]
        <3>1. d \in Disk
            BY WorkUpdates DEF Disk, TypeOK
        <3>2. work'.raw = d /\ work'.root = work.root /\ work'.rootfs = work.rootfs
              /\ work'.efi = work.efi
            <4>1. work' = [work EXCEPT !.raw = d] /\ work \in Work
                BY <1>8, <2>2 DEF AssembleDisk, TypeOK
            <4> HIDE DEF d
            <4>2. QED
                BY <3>1, <4>1, WorkUpdates
        <3>3. pc = "raw" /\ UNCHANGED <<staging, kernel, initramfs, hostUnits, image, result,
                                        size, build, before, changes>>
            BY <1>8, <2>2 DEF AssembleDisk
        <3>4. TreeInv'
            BY <2>2, <3>2, <3>3
        <3>5. ControlInv' /\ WorkInv'
            BY <2>2, <3>2, <3>3
        <3>6. QED
            BY <1>0, <2>2, <3>3, <3>4, <3>5
    <2>3. QED
        BY <1>8, <2>1, <2>2 DEF AssembleDisk
<1>9. CASE RemoveOldImage
    <2>1. UuidsAgree' /\ ServicesEnabled' /\ NoSharedSecrets'
        BY <1>9 DEF RemoveOldImage, NoImage
    <2>2. PartitionsFit' /\ UnderflowKeepsImage'
        <3>1. size \in Nat /\ EFI_SIZE_MB + 2 <= size * 1024
            <4>1. pc \in RootMade /\ pc # "none"
                BY <1>9 DEF RemoveOldImage
            <4>2. size \in Sizes /\ EFI_SIZE_MB + 2 <= size * 1024
                BY <4>1
            <4>3. QED
                BY <4>2, SizesAreNat
        <3>2. ~(size * 1024 < EFI_SIZE_MB + 2)
            BY <3>1
        <3>3. QED
            BY <1>9, <3>2 DEF RemoveOldImage, NoImage
    <2>3. ControlInv' /\ TreeInv' /\ WorkInv' /\ ImageInv' /\ OkImageIsCurrent'
        BY <1>9 DEF RemoveOldImage
    <2>4. QED
        BY <1>0, <2>1, <2>2, <2>3
<1>10. CASE Convert
    <2>0. size \in Nat /\ ~(size * 1024 < EFI_SIZE_MB + 2)
        <3>1. size \in Nat /\ EFI_SIZE_MB + 2 <= size * 1024
            <4>1. pc \in RootMade /\ pc # "none"
                BY <1>10 DEF Convert
            <4>2. size \in Sizes /\ EFI_SIZE_MB + 2 <= size * 1024
                BY <4>1
            <4>3. QED
                BY <4>2, SizesAreNat
        <3>2. QED
            BY <3>1
    <2>1. CASE image' = NoImage
        <3>1. image'.st = "absent" /\ pc' = "none" /\ result' \in {"err", "killed"}
            BY <1>10, <2>1 DEF Convert, NoImage
        <3>2. UNCHANGED size
            BY <1>10 DEF Convert
        <3>3. QED
            BY <1>0, <2>0, <3>1, <3>2
    <2>2. ASSUME NEW s \in {"cut", "small", "whole"}, image' = [st |-> s, disk |-> work.raw]
          PROVE  IInv'
        <3>1. pc = "convert" /\ UNCHANGED <<staging, kernel, initramfs, hostUnits, work,
                                            size, build, before, changes>>
            BY <1>10 DEF Convert
        <3>2. \/ pc' = "none" /\ result' \in {"err", "killed"}
              \/ pc' = "verify" /\ UNCHANGED result /\ s \in {"small", "whole"}
            BY <1>10, <2>2 DEF Convert, NoImage
        <3>3. image'.st = s /\ image'.disk = work.raw
            BY <2>2
        <3>4. /\ image'.disk.efi = [fs |-> build, entry |-> build,
                                    kernel |-> kernel, initramfs |-> initramfs]
              /\ image'.disk.root.fs = build /\ image'.disk.root.tree = work.rootfs
              /\ EFI_SIZE_MB + 2 + image'.disk.root.mb <= size * 1024
              /\ image'.disk.part = build /\ image'.disk.gb = size
            BY <3>1, <3>3
        <3>5. ControlInv' /\ TreeInv' /\ WorkInv'
            BY <3>1, <3>2
        <3>6. ImageInv' /\ OkImageIsCurrent'
            BY <3>1, <3>2, <3>3, <3>4
        <3>7. UuidsAgree' /\ ServicesEnabled' /\ NoSharedSecrets'
            BY <3>1, <3>4
        <3>8. PartitionsFit' /\ UnderflowKeepsImage'
            <4>1. image'.disk.root.mb \in Nat
                BY <1>0 DEF TypeOK, Image, Disk, Root
            <4>2. PartitionsFit'
                BY <2>0, <3>4, <4>1
            <4>3. UnderflowKeepsImage'
                BY <2>0, <3>1
            <4>4. QED
                BY <4>2, <4>3
        <3>9. QED
            BY <1>0, <3>5, <3>6, <3>7, <3>8
    <2>3. image' = NoImage \/ \E s \in {"cut", "small", "whole"} : image' = [st |-> s, disk |-> work.raw]
        BY <1>10 DEF Convert
    <2>4. QED
        <3> HIDE DEF IInv
        <3> QED
            BY <2>1, <2>2, <2>3
<1>11. CASE Verify
    BY <1>0, <1>11 DEF Verify
<1>12. CASE Cleanup
    BY <1>0, <1>12 DEF Cleanup
<1>13. CASE VerifyAgain
    BY <1>0, <1>13 DEF VerifyAgain
<1>14. CASE RebuildParts
    <2>1. ControlInv'
        BY <1>14 DEF RebuildParts, Change
    <2>2. TreeInv'
        BY <1>14 DEF RebuildParts, Change
    <2>3. WorkInv'
        BY <1>14 DEF RebuildParts, Change
    <2>4. ImageInv' /\ OkImageIsCurrent'
        BY <1>14 DEF RebuildParts, Change
    <2>5. UuidsAgree' /\ ServicesEnabled' /\ NoSharedSecrets'
        BY <1>14 DEF RebuildParts, Change
    <2>6. PartitionsFit' /\ UnderflowKeepsImage'
        BY <1>14 DEF RebuildParts, Change
    <2>7. QED
        BY <1>0, <2>1, <2>2, <2>3, <2>4, <2>5, <2>6
<1>15. CASE CleanOutputs
    <2>1. ControlInv'
        BY <1>15 DEF CleanOutputs, Change, NoImage
    <2>2. TreeInv'
        BY <1>15 DEF CleanOutputs, Change, NoImage
    <2>3. WorkInv'
        BY <1>15 DEF CleanOutputs, Change, NoImage
    <2>4. ImageInv' /\ OkImageIsCurrent'
        BY <1>15 DEF CleanOutputs, Change, NoImage
    <2>5. UuidsAgree' /\ ServicesEnabled' /\ NoSharedSecrets'
        BY <1>15 DEF CleanOutputs, Change, NoImage
    <2>6. PartitionsFit' /\ UnderflowKeepsImage'
        BY <1>15 DEF CleanOutputs, Change, NoImage
    <2>7. QED
        BY <1>0, <2>1, <2>2, <2>3, <2>4, <2>5, <2>6
<1>16. CASE Kill
    BY <1>0, <1>16 DEF Kill
<1>17. CASE Rest
    BY <1>0, <1>17 DEF Rest
<1>18. CASE UNCHANGED vars
    BY <1>18, <1>0
<1> HIDE DEF IInv
<1>19. QED
    BY <1>1, <1>2, <1>3, <1>4, <1>5, <1>6, <1>7, <1>8, <1>9, <1>10, <1>11, <1>12, <1>13, <1>14,
       <1>15, <1>16, <1>17, <1>18 DEF Next

(* The invariant holds in every state of every behaviour.                  *)
LEMMA IInvHolds == Spec => []IInv
<1>1. QED
    BY InitIInv, NextIInv, PTL DEF Spec

(* Builds and what happens between them keep the state within its types.   *)
THEOREM TypeCorrect == Spec => []TypeOK
<1>1. IInv => TypeOK
    BY DEF IInv
<1>2. QED
    BY <1>1, IInvHolds, PTL

(* build_qcow2 makes its work directory anew, so that what it reports as a *)
(* success is an image of what there is, whatever was left in it.          *)
THEOREM OkIsCurrent == Spec => []OkImageIsCurrent
<1>1. IInv => OkImageIsCurrent
    BY DEF IInv
<1>2. QED
    BY <1>1, IInvHolds, PTL

(* generate_fstab, create_efi_partition, create_root_partition and the     *)
(* partition table all use the UUIDs that generate_disk_uuids made in this *)
(* build.                                                                  *)
THEOREM UuidsAgreeAlways == Spec => []UuidsAgree
<1>1. IInv => UuidsAgree
    BY DEF IInv
<1>2. QED
    BY <1>1, IInvHolds, PTL

(* enable_services looks a link's target up on the host, and yet enables   *)
(* exactly what the tree has units for, for every set of units of both.    *)
THEOREM ServicesAreEnabled == Spec => []ServicesEnabled
<1>1. IInv => ServicesEnabled
    BY DEF IInv
<1>2. QED
    BY <1>1, IInvHolds, PTL

(* set_empty_root_password and regenerate_ssh_keys have been done to the   *)
(* tree of every image, for every set of accounts.                         *)
THEOREM SecretsAreNotShared == Spec => []NoSharedSecrets
<1>1. IInv => NoSharedSecrets
    BY DEF IInv
<1>2. QED
    BY <1>1, IInvHolds, PTL

(* The root size that create_root_partition computes in a u64, if the host *)
(* can hold it, leaves room for the EFI partition and both partition       *)
(* tables, for every width of the integers that the sizes fit into.        *)
THEOREM PartitionsFitAlways == Spec => []PartitionsFit
<1>1. IInv => PartitionsFit
    BY DEF IInv
<1>2. QED
    BY <1>1, IInvHolds, PTL

(* A --disk-size for which that size underflows ends in an error before    *)
(* convert_to_qcow2 removes the old image.                                 *)
THEOREM UnderflowIsHarmless == Spec => []UnderflowKeepsImage
<1>1. IInv => UnderflowKeepsImage
    BY DEF IInv
<1>2. QED
    BY <1>1, IInvHolds, PTL
-----------------------------------------------------------------------------
\* What the build relies on at the final path when it converts the disk,
\* and has there afterwards.
FinalInv ==
    /\ pc = "convert" => image = NoImage
    /\ pc \in Converted => image.disk.part = build

(* convert_to_qcow2 writes where it has removed the old image, and what it *)
(* writes is the disk of this build.                                       *)
LEMMA NextFinalInv == IInv /\ FinalInv /\ [Next]_vars => FinalInv'
<1> SUFFICES ASSUME IInv, FinalInv, [Next]_vars
             PROVE  FinalInv'
    OBVIOUS
<1> USE DEF Converted
<1>1. CASE RemoveOldImage
    BY <1>1 DEF RemoveOldImage, FinalInv
<1>2. CASE Convert
    <2>1. work.raw.part = build
        BY <1>2 DEF Convert, IInv, WorkInv, DiskMade
    <2>2. QED
        BY <1>2, <2>1 DEF Convert, FinalInv
<1>3. CASE pc' = "none"
    BY <1>3 DEF FinalInv
<1>4. CASE pc' \notin Converted \cup {"convert"}
    BY <1>4 DEF FinalInv
<1>5. CASE UNCHANGED <<image, build>> /\ pc \in Converted /\ pc' \in Converted
    BY <1>5 DEF FinalInv
<1>6. ASSUME Configure, ~(pc' = "none")
      PROVE  pc' \notin Converted \cup {"convert"}
    BY <1>6, ConfigStepOrder DEF Configure
<1>7. CASE UNCHANGED vars
    BY <1>7 DEF FinalInv
<1>8. QED
    <2>1. CASE Configure
        BY <2>1, <1>3, <1>4, <1>6
    <2>2. CASE \/ \E gb \in Sizes : Start(gb)
               \/ CheckDependencies \/ MakeWorkDir \/ CopyStaging \/ CreateEfiPartition
               \/ CreateRootPartition \/ AssembleDisk
        <3>1. pc' \notin Converted \cup {"convert"}
            BY <2>2 DEF Start, CheckDependencies, MakeWorkDir, CopyStaging, CreateEfiPartition,
               CreateRootPartition, AssembleDisk
        <3>2. QED
            BY <3>1, <1>4
    <2>3. CASE Verify \/ Cleanup
        BY <2>3, <1>3, <1>5 DEF Verify, Cleanup
    <2>4. CASE VerifyAgain \/ Kill \/ RebuildParts \/ CleanOutputs
        BY <2>4, <1>3 DEF VerifyAgain, Kill, RebuildParts, CleanOutputs, Change
    <2>5. CASE Rest
        BY <2>5, <1>7 DEF Rest
    <2>6. QED
        BY <1>1, <1>2, <1>7, <2>1, <2>2, <2>3, <2>4, <2>5 DEF Next

(* A step of a build that leaves the final path alone is none of the slot, *)
(* or ends the build.                                                      *)
LEMMA StepBesideSlot ==
    ASSUME pc # "none", UNCHANGED <<image, build>>,
           (pc' # "none" /\ result' = result) \/ (pc' = "none" /\ result' \in {"err", "killed"})
    PROVE  Slot!Abort \/ UNCHANGED Slot!slotVars
BY DEF Slot!Abort, Slot!slotVars

(* The qcow2 builder implements an unverified slot that is written in      *)
(* place: what is at the final path is of the last build, whole or torn,   *)
(* or of one that nothing was converted after, and success is reported     *)
(* only with the image of this build there.                                *)
THEOREM RefinesSlot == Spec => ImplementsSlot
<1>1. Init => Slot!SlotInit /\ FinalInv
    BY DEF Init, Slot!SlotInit, FinalInv, Converted, NoImage
<1>2. ASSUME IInv, FinalInv, [Next]_vars
      PROVE  [Slot!WrittenNext]_(Slot!slotVars)
    <2>1. ASSUME NEW gb \in Sizes, Start(gb)
          PROVE  Slot!WrittenNext
        <3>1. Slot!Begin
            BY <2>1 DEF Start, Slot!Begin
        <3>2. QED
            BY <3>1 DEF Slot!WrittenNext
    <2>2. CASE RemoveOldImage
        <3>1. CASE image' = NoImage /\ pc' = "convert"
            <4>1. Slot!Withdraw \/ UNCHANGED Slot!slotVars
                BY <2>2, <3>1, <1>2 DEF RemoveOldImage, Slot!Withdraw, Slot!slotVars, NoImage, IInv, ControlInv
            <4>2. QED
                BY <4>1 DEF Slot!WrittenNext
        <3>2. CASE UNCHANGED image /\ pc' = "none" /\ result' = "err"
            <4>1. Slot!Abort \/ UNCHANGED Slot!slotVars
                BY <2>2, <3>2, StepBesideSlot DEF RemoveOldImage
            <4>2. QED
                BY <4>1 DEF Slot!WrittenNext
        <3>3. QED
            BY <2>2, <3>1, <3>2 DEF RemoveOldImage
    <2>3. CASE Convert
        <3>1. work.raw.part = build /\ image.st = "absent" /\ pc = "convert"
            BY <1>2, <2>3 DEF Convert, IInv, WorkInv, DiskMade, FinalInv, NoImage
        <3>2. ASSUME NEW s \in {"small", "whole"}, image' = [st |-> s, disk |-> work.raw], Goto("verify")
              PROVE  Slot!WrittenNext
            <4>1. Slot!Publish
                BY <2>3, <3>1, <3>2 DEF Convert, Slot!Publish
            <4>2. QED
                BY <3>1, <4>1 DEF Slot!WrittenNext
        <3>3. ASSUME image' \in {NoImage, [st |-> "cut", disk |-> work.raw]},
                     pc' = "none", result' \in {"err", "killed"}
              PROVE  Slot!WrittenNext
            <4>1. Slot!Abort \/ Slot!Tear
                BY <2>3, <3>1, <3>3 DEF Convert, Slot!Abort, Slot!Tear, NoImage
            <4>2. QED
                BY <4>1 DEF Slot!WrittenNext
        <3>4. QED
            BY <2>3, <3>2, <3>3 DEF Convert
    <2>4. CASE VerifyAgain
        <3>1. image.st \in {"small", "whole"} /\ image.disk.part = build
            BY <1>2, <2>4 DEF VerifyAgain, IInv, ImageInv, FinalInv, Converted
        <3>2. Slot!Succeed \/ Slot!Abort
            BY <2>4, <3>1 DEF VerifyAgain, Slot!Succeed, Slot!Abort
        <3>3. QED
            BY <3>2 DEF Slot!WrittenNext
    <2>5. CASE CleanOutputs
        <3>1. Slot!Withdraw \/ Slot!Forget
            BY <2>5 DEF CleanOutputs, Change, NoImage, Slot!Withdraw, Slot!Forget
        <3>2. QED
            BY <3>1 DEF Slot!WrittenNext
    <2>6. CASE RebuildParts
        <3>1. Slot!Forget
            BY <2>6 DEF RebuildParts, Change, Slot!Forget
        <3>2. QED
            BY <3>1 DEF Slot!WrittenNext
    <2>7. CASE Rest \/ UNCHANGED vars
        BY <2>7 DEF Rest, Slot!slotVars
    <2>8. CASE \/ CheckDependencies \/ MakeWorkDir \/ CopyStaging \/ Configure \/ CreateEfiPartition
               \/ CreateRootPartition \/ AssembleDisk \/ Verify \/ Cleanup \/ Kill
        <3>1. CASE Configure
            BY <3>1, ConfigStepOrder, StepBesideSlot DEF Configure, Slot!WrittenNext
        <3>2. CASE ~Configure
            <4>1. /\ pc # "none" /\ UNCHANGED <<image, build>>
                  /\ (pc' # "none" /\ result' = result) \/ (pc' = "none" /\ result' \in {"err", "killed"})
                BY <2>8, <3>2 DEF CheckDependencies, MakeWorkDir, CopyStaging, CreateEfiPartition,
                   CreateRootPartition, AssembleDisk, Verify, Cleanup, Kill
            <4>2. Slot!Abort \/ UNCHANGED Slot!slotVars
                BY <4>1, StepBesideSlot
            <4>3. QED
                BY <4>2 DEF Slot!WrittenNext
        <3>3. QED
            BY <3>1, <3>2
    <2>9. QED
        BY <1>2, <2>1, <2>2, <2>3, <2>4, <2>5, <2>6, <2>7, <2>8 DEF Next
<1>3. QED
    BY <1>1, <1>2, NextFinalInv, IInvHolds, PTL DEF Spec, ImplementsSlot, Slot!WrittenSpec
=============================================================================
