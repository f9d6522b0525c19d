---------------------------- MODULE KernelStaging ----------------------------
(***************************************************************************)
(* The kernel and its modules on their way into an ISO: the kernel-build   *)
(* directory, the staging directory that deps/linux.rhai installs vmlinuz  *)
(* and the modules into, and the three builders that look for modules      *)
(* there or, failing that, in the Rocky rootfs (src/artifact/initramfs.rs, *)
(* src/component/custom/modules.rs), up to src/artifact/iso.rs, which puts *)
(* vmlinuz and what the builders made into one ISO.  An install may fail   *)
(* or be killed between any two of its steps, and a clean may be cut off.  *)
(*                                                                         *)
(* A compilation is a number; its release names the directory its modules  *)
(* are installed to, and several compilations may have the same release.   *)
(***************************************************************************)
EXTENDS Naturals

CONSTANTS
    Releases,           \* the kernel releases
    MaxBuilds,          \* bound on the number of compilations
    MaxCommands,        \* bound on the number of build and run commands
    MaxCleans           \* bound on the number of clean commands

ASSUME BoundsAssumption ==
    MaxBuilds \in Nat \ {0} /\ MaxCommands \in Nat /\ MaxCleans \in Nat

VARIABLES
    rel,                \* the release of each compilation
    compiled,           \* number of compilations so far
    bzImage,            \* the compilation in kernel-build, 0 if none
    hashed,             \* does .kernel-inputs.hash match the kconfig?
    vmlinuz, newer,     \* that in staging/boot, and is bzImage newer?
    moddir, dirs,       \* staging/usr/lib/modules and the releases below it
    mods,               \* whose modules are below each: 0 if none, or not all
    lib,                \* what a failed modules_install left in staging/lib
    initramfs, rootfs,  \* whose modules the live initramfs and the rootfs hold
    iso,                \* the kernel, the modules of both, and who made it
    cmd, pc, result,    \* the running command, its step, how the last ended
    mishaps,            \* "install": one was cut off, "clean": one was
    commands, cleans    \* number of commands and cleans

staging == <<vmlinuz, newer, moddir, dirs, mods, lib>>
artifacts == <<initramfs, rootfs, iso>>
vars == <<rel, compiled, bzImage, hashed, staging, artifacts, cmd, pc, result,
          mishaps, commands, cleans>>

Builds == 1..MaxBuilds
None == 0
\* The origin of a set of modules, and the compilation it is all of, if any.
Modules == [src : {"none", "rocky", "custom"}, of : 0..MaxBuilds]
NoModules == [src |-> "none", of |-> None]
RockyModules == [src |-> "rocky", of |-> None]
NoIso == [kernel |-> None, initramfs |-> NoModules, rootfs |-> NoModules, by |-> "none"]

TypeOK ==
    /\ rel \in [Builds -> Releases]
    /\ compiled \in 0..MaxBuilds
    /\ bzImage \in 0..MaxBuilds /\ vmlinuz \in 0..MaxBuilds
    /\ hashed \in BOOLEAN /\ newer \in BOOLEAN /\ moddir \in BOOLEAN
    /\ dirs \subseteq Releases /\ lib \subseteq Releases
    /\ mods \in [Releases -> 0..MaxBuilds]
    /\ initramfs \in Modules /\ rootfs \in Modules
    /\ iso \in [kernel : 0..MaxBuilds, initramfs : Modules, rootfs : Modules,
                by : {"none", "full", "iso", "run"}]
    /\ cmd \in {"none", "full", "iso", "run"}
    /\ pc \in {"none", "kernel", "mkdir", "cp", "modules_install", "mv", "cleanup",
               "rootfs", "initramfs", "create_iso"}
    /\ result \in {"none", "ok", "err", "killed"}
    /\ mishaps \subseteq {"install", "clean"}
    /\ commands \in 0..MaxCommands /\ cleans \in 0..MaxCleans

Init ==
    /\ rel \in [Builds -> Releases]
    /\ compiled = 0 /\ bzImage = None /\ hashed = FALSE
    /\ vmlinuz = None /\ newer = FALSE
    /\ moddir = FALSE /\ dirs = {} /\ mods = [r \in Releases |-> None] /\ lib = {}
    /\ initramfs = NoModules /\ rootfs = NoModules /\ iso = NoIso
    /\ cmd = "none" /\ pc = "none" /\ result = "none"
    /\ mishaps = {}
    /\ commands = 0 /\ cleans = 0
-----------------------------------------------------------------------------
Goto(p) == pc' = p /\ UNCHANGED <<cmd, result>>
End(res) == cmd' = "none" /\ pc' = "none" /\ result' = res
Bounds == <<rel, compiled, commands, cleans>>

(* kernel_needs_compile, kernel_needs_install, and is_installed of         *)
(* linux.rhai, by which the recipe is skipped.                             *)
KernelNeedsCompile == bzImage = None \/ ~hashed
KernelNeedsInstall == bzImage # None /\ (vmlinuz = None \/ newer)
IsInstalled == vmlinuz # None /\ moddir

(* The commands: a full build begins with the kernel, an ISO build with    *)
(* the rootfs, and run, if there is no ISO, builds only what is missing.   *)
Start(c) ==
    /\ cmd = "none" /\ commands < MaxCommands
    /\ c = "run" => iso = NoIso
    /\ cmd' = c /\ result' = "none"
    /\ pc' = IF c = "full" THEN "kernel" ELSE "rootfs"
    /\ commands' = commands + 1
    /\ UNCHANGED <<rel, compiled, bzImage, hashed, staging, artifacts, mishaps, cleans>>

KernelStep ==
    /\ pc = "kernel"
    /\ \/ (KernelNeedsCompile \/ KernelNeedsInstall) /\ End("err")
       \/ ~KernelNeedsCompile /\ KernelNeedsInstall /\ ~IsInstalled /\ Goto("mkdir")
       \/ ~KernelNeedsCompile /\ (KernelNeedsInstall => IsInstalled) /\ Goto("rootfs")
    /\ UNCHANGED <<Bounds, bzImage, hashed, staging, artifacts, mishaps>>
-----------------------------------------------------------------------------
(* install of linux.rhai: the directory for the modules, vmlinuz, the      *)
(* modules into staging/lib, from there to their place, and the cleanup of *)
(* kernel-build, which the executor calls after a success or a failure.    *)
Release == rel[bzImage]
InstallFails == End("err") /\ bzImage' \in {bzImage, None}
CutOff ==
    /\ InstallFails \/ (End("killed") /\ UNCHANGED bzImage)
    /\ mishaps' = mishaps \cup {"install"}
GoesOnTo(p) == (Goto(p) /\ UNCHANGED <<bzImage, mishaps>>) \/ CutOff

\* A faulty order: vmlinuz is copied before there is a directory for its modules.
CopyThenMakeDirs ==
    /\ pc = "mkdir"
    /\ Goto("cp") /\ UNCHANGED mishaps
    /\ vmlinuz' = bzImage /\ newer' = FALSE
    /\ UNCHANGED <<Bounds, bzImage, hashed, moddir, dirs, mods, lib, artifacts>>

MakeModuleDirs ==
    /\ pc = "mkdir"
    /\ \/ moddir' = TRUE /\ dirs' = dirs \cup {Release} /\ GoesOnTo("cp")
       \/ InstallFails /\ UNCHANGED <<moddir, dirs, mishaps>>
    /\ UNCHANGED <<Bounds, hashed, vmlinuz, newer, mods, lib, artifacts>>

CopyVmlinuz ==
    /\ pc = "cp"
    /\ vmlinuz' = bzImage /\ newer' = FALSE
    /\ GoesOnTo("modules_install")
    /\ UNCHANGED <<Bounds, hashed, moddir, dirs, mods, lib, artifacts>>

ModulesInstall ==
    /\ pc = "modules_install"
    /\ \/ Goto("mv") /\ UNCHANGED <<bzImage, lib, mishaps>>
       \/ CutOff /\ lib' = lib \cup {Release}
    /\ UNCHANGED <<Bounds, hashed, vmlinuz, newer, moddir, dirs, mods, artifacts>>

(* mv replaces an empty directory and fails, which is ignored, on one with *)
(* anything in it: all modules of a compilation or, after an install or a  *)
(* clean that was cut off, some; staging/lib is removed in any case.       *)
MoveModules ==
    /\ pc = "mv"
    /\ dirs' = dirs \cup lib
    /\ \/ mods[Release] = None /\ mods' = [mods EXCEPT ![Release] = bzImage]
       \/ (mods[Release] # None \/ mishaps # {}) /\ UNCHANGED mods
    /\ lib' = {}
    /\ GoesOnTo("cleanup")
    /\ UNCHANGED <<Bounds, hashed, vmlinuz, newer, moddir, artifacts>>

(* The cleanup of the recipe, and cache_kernel_hash.                       *)
CleanupAndHash ==
    /\ pc = "cleanup"
    /\ bzImage' \in {bzImage, None}
    /\ hashed' = TRUE
    /\ Goto("rootfs")
    /\ UNCHANGED <<Bounds, staging, artifacts, mishaps>>
-----------------------------------------------------------------------------
\* find_kernel_version: of several directories the first that readdir yields.
CustomModules == {[src |-> "custom", of |-> mods[r]] : r \in dirs}

(* copy_modules: custom modules if there is a directory of them, else      *)
(* Rocky's.  run does not rebuild a rootfs or initramfs that exists.       *)
BuildRootfs ==
    /\ pc = "rootfs"
    /\ \/ cmd = "run" /\ rootfs # NoModules /\ Goto("initramfs") /\ UNCHANGED rootfs
       \/ End("err") /\ UNCHANGED rootfs
       \/ /\ cmd = "run" => rootfs = NoModules
          /\ rootfs' \in IF moddir /\ dirs # {} THEN CustomModules ELSE {RockyModules}
          /\ Goto("initramfs")
    /\ UNCHANGED <<Bounds, bzImage, hashed, staging, initramfs, iso, mishaps>>

\* A faulty find_kernel_modules_dir that falls back to Rocky's modules.
BuildInitramfsFallsBack ==
    /\ pc = "initramfs"
    /\ initramfs' \in IF \E m \in CustomModules : m.of # None THEN CustomModules ELSE {RockyModules}
    /\ Goto("create_iso")
    /\ UNCHANGED <<Bounds, bzImage, hashed, staging, rootfs, iso, mishaps>>

(* find_kernel_modules_dir refuses custom modules without a vmlinuz;       *)
(* find_kernel_version fails if there is no directory at all, recinit if   *)
(* there is nothing in the one it finds; only something that was cut off   *)
(* leaves a part of the modules there.                                     *)
BuildInitramfs ==
    /\ pc = "initramfs"
    /\ \/ cmd = "run" /\ initramfs # NoModules /\ Goto("create_iso") /\ UNCHANGED initramfs
       \/ End("err") /\ UNCHANGED initramfs
       \/ /\ cmd = "run" => initramfs = NoModules
          /\ \/ /\ moddir /\ vmlinuz # None
                /\ initramfs' \in {m \in CustomModules : m.of # None \/ mishaps # {}}
             \/ ~moddir /\ initramfs' = RockyModules
          /\ Goto("create_iso")
    /\ UNCHANGED <<Bounds, bzImage, hashed, staging, rootfs, iso, mishaps>>

(* validate_iso_inputs and find_kernel: there must be a vmlinuz and, if    *)
(* there is a modules directory, a directory in it.                        *)
IsoInputsValid == vmlinuz # None /\ (moddir => dirs # {})
CreateIso ==
    /\ pc = "create_iso"
    /\ \/ End("err") /\ UNCHANGED iso
       \/ /\ IsoInputsValid
          /\ iso' = [kernel |-> vmlinuz, initramfs |-> initramfs, rootfs |-> rootfs, by |-> cmd]
          /\ End("ok")
    /\ UNCHANGED <<Bounds, bzImage, hashed, staging, initramfs, rootfs, mishaps>>

\* The command is killed between two of its steps.
Kill ==
    /\ cmd # "none"
    /\ End("killed")
    /\ mishaps' = IF pc \in {"cp", "modules_install", "mv"} THEN mishaps \cup {"install"} ELSE mishaps
    /\ UNCHANGED <<Bounds, bzImage, hashed, staging, artifacts>>
-----------------------------------------------------------------------------
(* `cargo xtask kernels build' compiles, for a kernel of some release.     *)
XtaskCompiles ==
    /\ cmd = "none" /\ compiled < MaxBuilds
    /\ compiled' = compiled + 1
    /\ bzImage' = compiled'
    /\ hashed' = TRUE /\ newer' = (vmlinuz # None)
    /\ UNCHANGED <<rel, vmlinuz, moddir, dirs, mods, lib, artifacts, cmd, pc, result,
                   mishaps, commands, cleans>>

EditKconfig ==
    /\ cmd = "none"
    /\ hashed /\ hashed' = FALSE
    /\ UNCHANGED <<Bounds, bzImage, staging, artifacts, cmd, pc, result, mishaps>>

Cleaning ==
    /\ cmd = "none" /\ cleans < MaxCleans
    /\ cleans' = cleans + 1
    /\ UNCHANGED <<rel, compiled, cmd, pc, result, commands>>

NoModulesDir == moddir' = FALSE /\ dirs' = {} /\ mods' = [r \in Releases |-> None]
\* A faulty clean_kernel that leaves the modules.
CleanKernelKeepsModules ==
    /\ Cleaning
    /\ bzImage' = None /\ vmlinuz' = None /\ newer' = FALSE
    /\ UNCHANGED <<hashed, moddir, dirs, mods, lib, artifacts, mishaps>>

(* clean_kernel: kernel-build, vmlinuz and the modules, in this order; an  *)
(* error ends it.                                                          *)
CleanKernel ==
    /\ Cleaning
    /\ bzImage' = None /\ newer' = FALSE
    /\ \/ vmlinuz' = None /\ NoModulesDir /\ UNCHANGED mishaps
       \/ /\ vmlinuz' \in {vmlinuz, None} /\ UNCHANGED <<moddir, dirs, mods>>
          /\ mishaps' = IF vmlinuz' = vmlinuz THEN mishaps ELSE mishaps \cup {"clean"}
       \/ /\ vmlinuz' = None /\ moddir /\ mishaps' = mishaps \cup {"clean"}
          /\ dirs' \in SUBSET dirs
          /\ \E whole \in SUBSET dirs' :
                mods' = [r \in Releases |-> IF r \in whole THEN mods[r] ELSE None]
          /\ UNCHANGED moddir
    /\ UNCHANGED <<hashed, lib, artifacts>>

(* clean_rootfs, and clean_iso, which takes the live initramfs with it or  *)
(* fails in between.                                                       *)
CleanRootfs ==
    /\ Cleaning
    /\ rootfs' = NoModules
    /\ UNCHANGED <<bzImage, hashed, staging, initramfs, iso, mishaps>>

CleanIso ==
    /\ Cleaning
    /\ iso' = NoIso /\ initramfs' \in {initramfs, NoModules}
    /\ UNCHANGED <<bzImage, hashed, staging, rootfs, mishaps>>

(* clean_outputs: all of the output directory, or what was removed of it   *)
(* before an error.                                                        *)
CleanOutputs ==
    /\ Cleaning
    /\ \/ /\ bzImage' = None /\ hashed' = FALSE /\ vmlinuz' = None /\ newer' = FALSE
          /\ NoModulesDir /\ lib' = {}
          /\ initramfs' = NoModules /\ rootfs' = NoModules /\ iso' = NoIso
          /\ UNCHANGED mishaps
       \/ /\ mishaps' = mishaps \cup {"clean"}
          /\ \/ vmlinuz' = None /\ newer' = FALSE /\ UNCHANGED <<moddir, dirs, mods>>
             \/ NoModulesDir /\ UNCHANGED <<vmlinuz, newer>>
          /\ \/ bzImage' = None /\ iso' = NoIso
             \/ UNCHANGED <<bzImage, iso>>
          /\ UNCHANGED <<hashed, lib, initramfs, rootfs>>

Rest == cmd = "none" /\ UNCHANGED vars

Next ==
    \/ \E c \in {"full", "iso", "run"} : Start(c)
    \/ KernelStep \/ MakeModuleDirs \/ CopyVmlinuz \/ ModulesInstall \/ MoveModules \/ CleanupAndHash
    \/ BuildRootfs \/ BuildInitramfs \/ CreateIso
    \/ XtaskCompiles \/ EditKconfig \/ CleanKernel \/ CleanRootfs \/ CleanIso \/ CleanOutputs
    \/ Kill \/ Rest

Spec == Init /\ [][Next]_vars
-----------------------------------------------------------------------------
CleanedWhole == "clean" \notin mishaps

(* Whenever there is a vmlinuz in staging there is a modules directory for *)
(* its release, if an empty one: linux.rhai makes the one before it copies *)
(* the other, and clean_kernel removes them in the opposite order.         *)
KernelHasModulesDir == CleanedWhole /\ vmlinuz # None => moddir /\ rel[vmlinuz] \in dirs

(* So no full or ISO build, however its kernel install ended, combines the *)
(* LevitateOS kernel with the modules of the Rocky kernel, unless a clean  *)
(* was cut off and left a vmlinuz without a modules directory.             *)
NoRockyModulesInIso ==
    CleanedWhole /\ iso.by \in {"full", "iso"} =>
        iso.initramfs.src = "custom" /\ iso.rootfs.src = "custom"

(* As long as no install and no clean was cut off, an ISO made by a full   *)
(* or an ISO build has the modules of exactly the compilation its kernel   *)
(* is of, in the initramfs and in the rootfs, though three places choose   *)
(* them independently and by the first directory they see.                 *)
IsoModulesMatchKernel ==
    mishaps = {} /\ iso.by \in {"full", "iso"} =>
        iso.initramfs.of = iso.kernel /\ iso.rootfs.of = iso.kernel
=============================================================================
