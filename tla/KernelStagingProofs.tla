------------------------ MODULE KernelStagingProofs -------------------------
(* Proofs about KernelStaging, for every set of releases and every bound.  *)
EXTENDS KernelStaging, TLAPS

\* The steps of the install of linux.rhai, and those with vmlinuz or its
\* modules on the way.
Installing == {"mkdir", "cp", "modules_install", "mv", "cleanup"}
UnderWay == {"cp", "modules_install", "mv"}

(* A command has a step; the kernel that is installed is there, and once   *)
(* MakeModuleDirs has been there is a directory for its modules.           *)
ControlInv ==
    /\ cmd = "none" <=> pc = "none"
    /\ pc \in Installing => bzImage # None
    /\ pc \in Installing \ {"mkdir"} => moddir /\ Release \in dirs

(* As long as nothing was cut off, staging holds the modules of exactly    *)
(* one compilation, that of vmlinuz, or nothing, except while an install   *)
(* is under way.                                                           *)
Empty == vmlinuz = None /\ ~moddir /\ dirs = {} /\ \A r \in Releases : mods[r] = None
OneKernel == moddir /\ dirs = {rel[vmlinuz]} /\ mods[rel[vmlinuz]] = vmlinuz
StagingInv ==
    mishaps = {} =>
        /\ lib = {}
        /\ pc \notin UnderWay => Empty \/ (vmlinuz # None /\ OneKernel)
        /\ pc = "mkdir" => vmlinuz = None
        /\ pc \in UnderWay => dirs = {Release} /\ \A r \in Releases : mods[r] = None
        /\ pc \in {"modules_install", "mv"} => vmlinuz = bzImage

(* What the builders of a full or an ISO build took their modules from is  *)
(* still what create_iso takes vmlinuz from.                               *)
Building(steps) == cmd \in {"full", "iso"} /\ pc \in steps
ArtifactInv ==
    /\ Building({"initramfs", "create_iso"}) /\ moddir /\ dirs # {} => rootfs.src = "custom"
    /\ Building({"create_iso"}) /\ moddir => initramfs.src = "custom"
    /\ mishaps = {} /\ vmlinuz # None =>
         /\ Building({"initramfs", "create_iso"}) => rootfs.of = vmlinuz
         /\ Building({"create_iso"}) => initramfs.of = vmlinuz

(* The inductive invariant.                                                *)
IInv == TypeOK /\ ControlInv /\ StagingInv /\ ArtifactInv
        /\ KernelHasModulesDir /\ NoRockyModulesInIso /\ IsoModulesMatchKernel

USE BoundsAssumption
USE DEF vars, staging, artifacts, Bounds, Builds, None, Goto, End, InstallFails, CutOff, GoesOnTo,
        Cleaning, NoModulesDir

(* What the builders copy is of the type of what they may hold.            *)
LEMMA ModulesTypes ==
    ASSUME TypeOK
    PROVE  /\ NoModules \in Modules /\ RockyModules \in Modules
           /\ CustomModules \subseteq Modules
BY DEF TypeOK, NoModules, RockyModules, CustomModules, Modules

(* Every step keeps the variables in their types.                          *)
LEMMA NextTypeOK == TypeOK /\ ControlInv /\ [Next]_vars => TypeOK'
<1> SUFFICES ASSUME TypeOK, ControlInv, [Next]_vars
             PROVE  TypeOK'
    OBVIOUS
<1> USE DEF TypeOK
<1>1. ASSUME NEW c \in {"full", "iso", "run"}, Start(c)
      PROVE  TypeOK'
    BY <1>1 DEF Start
<1>2. CASE KernelStep
    BY <1>2 DEF KernelStep
<1>3. CASE MakeModuleDirs
    <2>1. Release \in Releases
        BY <1>3 DEF MakeModuleDirs, Release, ControlInv, Installing
    <2>2. mishaps' \subseteq {"install", "clean"} /\ bzImage' \in 0..MaxBuilds
        <3>1. mishaps' = mishaps \/ mishaps' = mishaps \cup {"install"}
            BY <1>3 DEF MakeModuleDirs
        <3>2. bzImage' = bzImage \/ bzImage' = 0
            BY <1>3 DEF MakeModuleDirs
        <3>3. mishaps' \subseteq {"install", "clean"}
            BY <3>1
        <3>4. QED
            BY <3>2, <3>3
    <2>3. pc' \in {"none", "cp"} /\ cmd' \in {"none", cmd}
          /\ result' \in {result, "err", "killed"}
        BY <1>3 DEF MakeModuleDirs
    <2>4. moddir' \in BOOLEAN /\ dirs' \subseteq Releases
        BY <1>3, <2>1 DEF MakeModuleDirs
    <2>5. QED
        BY <1>3, <2>2, <2>3, <2>4 DEF MakeModuleDirs
<1>4. CASE CopyVmlinuz
    <2>1. Release \in Releases
        BY <1>4 DEF CopyVmlinuz, Release, ControlInv, Installing
    <2>2. mishaps' \subseteq {"install", "clean"} /\ bzImage' \in 0..MaxBuilds
        <3>1. mishaps' = mishaps \/ mishaps' = mishaps \cup {"install"}
            BY <1>4 DEF CopyVmlinuz
        <3>2. bzImage' = bzImage \/ bzImage' = 0
            BY <1>4 DEF CopyVmlinuz
        <3>3. mishaps' \subseteq {"install", "clean"}
            BY <3>1
        <3>4. QED
            BY <3>2, <3>3
    <2>3. pc' \in {"none", "modules_install"} /\ cmd' \in {"none", cmd}
          /\ result' \in {result, "err", "killed"}
        BY <1>4 DEF CopyVmlinuz
    <2>4. vmlinuz' \in 0..MaxBuilds /\ newer' \in BOOLEAN
        BY <1>4, <2>1 DEF CopyVmlinuz
    <2>5. QED
        BY <1>4, <2>2, <2>3, <2>4 DEF CopyVmlinuz
<1>5. CASE ModulesInstall
    <2>1. Release \in Releases
        BY <1>5 DEF ModulesInstall, Release, ControlInv, Installing
    <2>2. mishaps' \subseteq {"install", "clean"} /\ bzImage' \in 0..MaxBuilds
        <3>1. mishaps' = mishaps \/ mishaps' = mishaps \cup {"install"}
            BY <1>5 DEF ModulesInstall
        <3>2. bzImage' = bzImage \/ bzImage' = 0
            BY <1>5 DEF ModulesInstall
        <3>3. mishaps' \subseteq {"install", "clean"}
            BY <3>1
        <3>4. QED
            BY <3>2, <3>3
    <2>3. pc' \in {"none", "mv"} /\ cmd' \in {"none", cmd}
          /\ result' \in {result, "err", "killed"}
        BY <1>5 DEF ModulesInstall
    <2>4. lib' \subseteq Releases
        BY <1>5, <2>1 DEF ModulesInstall
    <2>5. QED
        BY <1>5, <2>2, <2>3, <2>4 DEF ModulesInstall
<1>6. CASE MoveModules
    <2>1. Release \in Releases
        BY <1>6 DEF MoveModules, Release, ControlInv, Installing
    <2>2. mishaps' \subseteq {"install", "clean"} /\ bzImage' \in 0..MaxBuilds
        <3>1. mishaps' = mishaps \/ mishaps' = mishaps \cup {"install"}
            BY <1>6 DEF MoveModules
        <3>2. bzImage' = bzImage \/ bzImage' = 0
            BY <1>6 DEF MoveModules
        <3>3. mishaps' \subseteq {"install", "clean"}
            BY <3>1
        <3>4. QED
            BY <3>2, <3>3
    <2>3. pc' \in {"none", "cleanup"} /\ cmd' \in {"none", cmd}
          /\ result' \in {result, "err", "killed"}
        BY <1>6 DEF MoveModules
    <2>4. dirs' \subseteq Releases /\ lib' \subseteq Releases
          /\ mods' \in [Releases -> 0..MaxBuilds]
        BY <1>6, <2>1 DEF MoveModules
    <2>5. QED
        BY <1>6, <2>2, <2>3, <2>4 DEF MoveModules
<1>7. CASE CleanupAndHash
    BY <1>7 DEF CleanupAndHash
<1>8. CASE BuildRootfs
    BY <1>8, ModulesTypes DEF BuildRootfs
<1>9. CASE BuildInitramfs
    BY <1>9, ModulesTypes DEF BuildInitramfs
<1>10. CASE CreateIso
    BY <1>10, ModulesTypes DEF CreateIso
<1>11. CASE XtaskCompiles
    BY <1>11 DEF XtaskCompiles
<1>12. CASE EditKconfig
    BY <1>12 DEF EditKconfig
<1>13. CASE CleanKernel
    <2>1. mishaps' \subseteq {"install", "clean"}
        BY <1>13 DEF CleanKernel
    <2>2. vmlinuz' = vmlinuz \/ vmlinuz' = 0
        BY <1>13 DEF CleanKernel
    <2>3. moddir' \in BOOLEAN
        BY <1>13 DEF CleanKernel
    <2>4. dirs' \subseteq Releases
        BY <1>13 DEF CleanKernel
    <2>5. mods' \in [Releases -> 0..MaxBuilds]
        BY <1>13 DEF CleanKernel
    <2>6. UNCHANGED <<rel, compiled, hashed, lib, initramfs, rootfs, iso, cmd, pc, result, commands>>
          /\ bzImage' = 0 /\ newer' = FALSE /\ cleans' \in 0..MaxCleans
        BY <1>13 DEF CleanKernel
    <2>7. vmlinuz' \in 0..MaxBuilds /\ bzImage' \in 0..MaxBuilds
        BY <2>2, <2>6
    <2>8. QED
        BY <2>1, <2>3, <2>4, <2>5, <2>6, <2>7
<1>14. CASE CleanRootfs
    BY <1>14, ModulesTypes DEF CleanRootfs
<1>15. CASE CleanIso
    BY <1>15, ModulesTypes DEF CleanIso, NoIso
<1>16. CASE CleanOutputs
    <2>1. mishaps' \subseteq {"install", "clean"}
        BY <1>16 DEF CleanOutputs
    <2>2. bzImage' \in 0..MaxBuilds /\ vmlinuz' \in 0..MaxBuilds
        BY <1>16 DEF CleanOutputs
    <2>3. hashed' \in BOOLEAN /\ newer' \in BOOLEAN /\ moddir' \in BOOLEAN
        BY <1>16 DEF CleanOutputs
    <2>4. dirs' \subseteq Releases /\ lib' \subseteq Releases
          /\ mods' \in [Releases -> 0..MaxBuilds]
        BY <1>16 DEF CleanOutputs
    <2>5. initramfs' \in Modules /\ rootfs' \in Modules
        BY <1>16, ModulesTypes DEF CleanOutputs
    <2>6. iso' \in [kernel : 0..MaxBuilds, initramfs : Modules, rootfs : Modules,
                     by : {"none", "full", "iso", "run"}]
        BY <1>16, ModulesTypes DEF CleanOutputs, NoIso
    <2>7. QED
        BY <1>16, <2>1, <2>2, <2>3, <2>4, <2>5, <2>6 DEF CleanOutputs
<1>17. CASE Kill
    BY <1>17 DEF Kill
<1>18. CASE Rest
    BY <1>18 DEF Rest
<1>19. CASE UNCHANGED vars
    BY <1>19
<1>20. QED
    BY <1>1, <1>2, <1>3, <1>4, <1>5, <1>6, <1>7, <1>8, <1>9, <1>10, <1>11, <1>12, <1>13, <1>14,
       <1>15, <1>16, <1>17, <1>18, <1>19 DEF Next

(* What the initial state establishes.                                     *)
LEMMA InitIInv == Init => IInv
<1> SUFFICES ASSUME Init
             PROVE  IInv
    OBVIOUS
<1>1. TypeOK
    <2>1. NoModules \in Modules
        BY DEF NoModules, Modules
    <2>2. NoIso \in [kernel : 0..MaxBuilds, initramfs : Modules, rootfs : Modules,
                     by : {"none", "full", "iso", "run"}]
        BY <2>1 DEF NoIso
    <2>3. [r \in Releases |-> None] \in [Releases -> 0..MaxBuilds] /\ 0 \in 0..MaxBuilds
        OBVIOUS
    <2>4. 0 \in 0..MaxCommands /\ 0 \in 0..MaxCleans
        OBVIOUS
    <2>5. QED
        BY <2>1, <2>2, <2>3, <2>4 DEF Init, TypeOK
<1>2. ControlInv /\ StagingInv /\ ArtifactInv
    BY DEF Init, ControlInv, Installing, UnderWay, StagingInv, Empty, ArtifactInv, Building
<1>3. KernelHasModulesDir /\ NoRockyModulesInIso /\ IsoModulesMatchKernel
    BY DEF Init, KernelHasModulesDir, NoRockyModulesInIso, IsoModulesMatchKernel, NoIso
<1>4. QED
    BY <1>1, <1>2, <1>3 DEF IInv

(* Every step of a build, an install and a clean preserves the invariant.  *)
LEMMA NextIInv == IInv /\ [Next]_vars => IInv'
<1> SUFFICES ASSUME IInv, [Next]_vars
             PROVE  IInv'
    OBVIOUS
<1>0. TypeOK'
    BY NextTypeOK DEF IInv
<1> USE DEF IInv, TypeOK, ControlInv, Installing, UnderWay, StagingInv, Empty, OneKernel,
       ArtifactInv, Building, KernelHasModulesDir, CleanedWhole, NoRockyModulesInIso,
       IsoModulesMatchKernel, Release
<1>1. ASSUME NEW c \in {"full", "iso", "run"}, Start(c)
      PROVE  IInv'
    BY <1>0, <1>1 DEF Start
<1>2. CASE KernelStep
    <2>1. ControlInv'
        BY <1>2 DEF KernelStep, KernelNeedsCompile
    <2>2. StagingInv'
        BY <1>2 DEF KernelStep, KernelNeedsCompile, KernelNeedsInstall, IsInstalled
    <2>3. ArtifactInv' /\ KernelHasModulesDir' /\ NoRockyModulesInIso' /\ IsoModulesMatchKernel'
        BY <1>2 DEF KernelStep
    <2>4. QED
        BY <1>0, <2>1, <2>2, <2>3
<1>3. CASE MakeModuleDirs
    BY <1>0, <1>3 DEF MakeModuleDirs
<1>4. CASE CopyVmlinuz
    BY <1>0, <1>4 DEF CopyVmlinuz
<1>5. CASE ModulesInstall
    BY <1>0, <1>5 DEF ModulesInstall
<1>6. CASE MoveModules
    BY <1>0, <1>6 DEF MoveModules
<1>7. CASE CleanupAndHash
    BY <1>0, <1>7 DEF CleanupAndHash
<1>8. CASE BuildRootfs
    <2>1. ArtifactInv'
        <3>1. CASE cmd = "run" \/ pc' = "none"
            BY <1>8, <3>1 DEF BuildRootfs
        <3>2. CASE cmd # "run" /\ pc' = "initramfs"
            <4>1. rootfs' \in IF moddir /\ dirs # {} THEN CustomModules ELSE {RockyModules}
                BY <1>8, <3>2 DEF BuildRootfs
            <4>2. pc' = "initramfs" /\ UNCHANGED <<cmd, moddir, dirs, vmlinuz, mishaps>>
                BY <1>8, <3>2 DEF BuildRootfs
            <4>3. moddir /\ dirs # {} => rootfs'.src = "custom"
                BY <4>1 DEF CustomModules
            <4>4. mishaps = {} /\ vmlinuz # None => rootfs'.of = vmlinuz
                <5> SUFFICES ASSUME mishaps = {}, vmlinuz # None
                             PROVE  rootfs'.of = vmlinuz
                    OBVIOUS
                <5>1. moddir /\ dirs = {rel[vmlinuz]} /\ mods[rel[vmlinuz]] = vmlinuz
                    BY <1>8 DEF BuildRootfs
                <5>2. rootfs' = [src |-> "custom", of |-> mods[rel[vmlinuz]]]
                    BY <4>1, <5>1 DEF CustomModules
                <5>3. QED
                    BY <5>1, <5>2
            <4>5. QED
                BY <4>2, <4>3, <4>4
        <3>3. QED
            BY <1>8, <3>1, <3>2 DEF BuildRootfs
    <2>2. ControlInv' /\ StagingInv' /\ KernelHasModulesDir' /\ NoRockyModulesInIso'
          /\ IsoModulesMatchKernel'
        BY <1>8 DEF BuildRootfs
    <2>3. QED
        BY <1>0, <2>1, <2>2
<1>9. CASE BuildInitramfs
    <2>1. ArtifactInv'
        <3>1. CASE cmd = "run" \/ pc' = "none"
            BY <1>9, <3>1 DEF BuildInitramfs
        <3>2. CASE cmd # "run" /\ pc' = "create_iso"
            <4>1. \/ moddir /\ initramfs' \in CustomModules
                  \/ ~moddir /\ initramfs' = RockyModules
                BY <1>9, <3>2 DEF BuildInitramfs
            <4>2. UNCHANGED <<cmd, moddir, dirs, vmlinuz, rootfs, mishaps>> /\ pc = "initramfs"
                BY <1>9, <3>2 DEF BuildInitramfs
            <4>3. moddir => initramfs'.src = "custom"
                BY <4>1 DEF CustomModules
            <4>4. mishaps = {} /\ vmlinuz # None => initramfs'.of = vmlinuz
                <5> SUFFICES ASSUME mishaps = {}, vmlinuz # None
                             PROVE  initramfs'.of = vmlinuz
                    OBVIOUS
                <5>1. moddir /\ dirs = {rel[vmlinuz]} /\ mods[rel[vmlinuz]] = vmlinuz
                    BY <4>2
                <5>2. initramfs' = [src |-> "custom", of |-> mods[rel[vmlinuz]]]
                    BY <4>1, <5>1 DEF CustomModules
                <5>3. QED
                    BY <5>1, <5>2
            <4>5. QED
                BY <3>2, <4>2, <4>3, <4>4
        <3>3. QED
            BY <1>9, <3>1, <3>2 DEF BuildInitramfs
    <2>2. ControlInv' /\ StagingInv' /\ KernelHasModulesDir' /\ NoRockyModulesInIso'
          /\ IsoModulesMatchKernel'
        BY <1>9 DEF BuildInitramfs
    <2>3. QED
        BY <1>0, <2>1, <2>2
<1>10. CASE CreateIso
    <2>1. NoRockyModulesInIso' /\ IsoModulesMatchKernel'
        BY <1>10 DEF CreateIso, IsoInputsValid
    <2>2. ControlInv' /\ StagingInv' /\ ArtifactInv' /\ KernelHasModulesDir'
        BY <1>10 DEF CreateIso
    <2>3. QED
        BY <1>0, <2>1, <2>2
<1>11. CASE XtaskCompiles
    BY <1>0, <1>11 DEF XtaskCompiles
<1>12. CASE EditKconfig
    BY <1>0, <1>12 DEF EditKconfig
<1>13. CASE CleanKernel
    <2>1. StagingInv'
        <3> SUFFICES ASSUME mishaps' = {}
                     PROVE  StagingInv'
            OBVIOUS
        <3>1. mishaps = {} /\ pc = "none" /\ UNCHANGED <<rel, lib, pc>>
            BY <1>13 DEF CleanKernel
        <3>2. CASE vmlinuz' = None /\ NoModulesDir
            BY <3>1, <3>2
        <3>3. CASE UNCHANGED <<vmlinuz, moddir, dirs, mods>>
            BY <3>1, <3>3
        <3>4. QED
            BY <1>13, <3>2, <3>3 DEF CleanKernel
    <2>2. ControlInv' /\ ArtifactInv' /\ KernelHasModulesDir' /\ NoRockyModulesInIso'
          /\ IsoModulesMatchKernel'
        BY <1>13 DEF CleanKernel
    <2>3. QED
        BY <1>0, <2>1, <2>2
<1>14. CASE CleanRootfs
    BY <1>0, <1>14 DEF CleanRootfs
<1>15. CASE CleanIso
    <2>1. NoRockyModulesInIso' /\ IsoModulesMatchKernel'
        BY <1>15 DEF CleanIso, NoIso
    <2>2. ControlInv' /\ StagingInv' /\ ArtifactInv' /\ KernelHasModulesDir'
        BY <1>15 DEF CleanIso
    <2>3. QED
        BY <1>0, <2>1, <2>2
<1>16. CASE CleanOutputs
    <2>1. NoRockyModulesInIso' /\ IsoModulesMatchKernel'
        BY <1>16 DEF CleanOutputs, NoIso
    <2>2. ControlInv' /\ StagingInv' /\ ArtifactInv' /\ KernelHasModulesDir'
        BY <1>16 DEF CleanOutputs
    <2>3. QED
        BY <1>0, <2>1, <2>2
<1>17. CASE Kill
    BY <1>0, <1>17 DEF Kill
<1>18. CASE Rest
    BY <1>0, <1>18 DEF Rest
<1>19. CASE UNCHANGED vars
    BY <1>19, <1>0
<1>20. QED
    BY <1>1, <1>2, <1>3, <1>4, <1>5, <1>6, <1>7, <1>8, <1>9, <1>10, <1>11, <1>12, <1>13, <1>14,
       <1>15, <1>16, <1>17, <1>18, <1>19 DEF Next

(* The invariant holds in every state of every behaviour.                  *)
LEMMA IInvHolds == Spec => []IInv
<1>1. QED
    BY InitIInv, NextIInv, PTL DEF Spec

(* Commands, installs and cleans keep the state within its types.          *)
THEOREM TypeCorrect == Spec => []TypeOK
<1>1. IInv => TypeOK
    BY DEF IInv
<1>2. QED
    BY <1>1, IInvHolds, PTL

(* linux.rhai never leaves a vmlinuz in staging without a directory for    *)
(* its modules, at whatever step an install ends.                          *)
THEOREM VmlinuzHasDir == Spec => []KernelHasModulesDir
<1>1. IInv => KernelHasModulesDir
    BY DEF IInv
<1>2. QED
    BY <1>1, IInvHolds, PTL

(* The fallback of copy_modules and find_kernel_modules_dir to the modules *)
(* of Rocky never reaches an ISO of a full or an ISO build: where they     *)
(* fall back, create_iso finds no vmlinuz.                                 *)
THEOREM NeverRockyModules == Spec => []NoRockyModulesInIso
<1>1. IInv => NoRockyModulesInIso
    BY DEF IInv
<1>2. QED
    BY <1>1, IInvHolds, PTL

(* The modules that copy_modules and build_initramfs chose by the first    *)
(* directory they saw are of the compilation whose vmlinuz create_iso      *)
(* takes, as long as no install and no clean was cut off.                  *)
THEOREM ModulesMatchKernel == Spec => []IsoModulesMatchKernel
<1>1. IInv => IsoModulesMatchKernel
    BY DEF IInv
<1>2. QED
    BY <1>1, IInvHolds, PTL
=============================================================================
