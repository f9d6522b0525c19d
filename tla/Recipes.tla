------------------------------- MODULE Recipes -------------------------------
(***************************************************************************)
(* What a full build needs before it can build anything: the trees that    *)
(* the recipes rocky.rhai, packages.rhai and epel.rhai (deps/) keep in the *)
(* downloads directory, with the marker files by which each recipe decides *)
(* what it need not do again, and the functions of src/recipe that run     *)
(* them.  A phase may fail or be killed at any point, and the next command *)
(* starts from what is on disk; between commands the developer raises the  *)
(* version in a recipe, has a recipe clean up, or cleans the downloads.    *)
(*                                                                         *)
(* The recipe executor is another program: a phase is run if its is_...    *)
(* function throws, all of them are skipped if is_installed does not, and  *)
(* cleanup is called after the install with the reason                     *)
(* auto.install.success or auto.install.failure, or not at all.            *)
(*                                                                         *)
(* A tree is the version of Rocky it was extracted from and the parts that *)
(* are there.  Everything of the rootfs that is named here is below usr.   *)
(***************************************************************************)
EXTENDS Naturals

CONSTANTS
    MaxVersion,         \* bound on the version in rocky.rhai
    MaxPkgVersion,      \* bound on the version in packages.rhai
    MaxCommands,        \* bound on the number of commands started
    MaxCleans           \* bound on the number of cleanups between commands

ASSUME BoundsAssumption ==
    /\ MaxVersion \in Nat \ {0} /\ MaxPkgVersion \in Nat \ {0}
    /\ MaxCommands \in Nat /\ MaxCleans \in Nat

VARIABLES
    ver, pkgVer,        \* ctx.version in rocky.rhai and in packages.rhai
    isos,               \* the downloaded ISO of each version
    isoPath,            \* the version of the ISO that ctx.iso_path names
    contents, rootfs,   \* the trees iso-contents and rootfs
    built, debloated,   \* .rocky-built-version (0: none) and .rocky-installed
    pk,                 \* the three marker files of packages.rhai
    epel,               \* the two of epel.rhai, and its cache of RPMs
    cmd, pc,            \* the running command and where in it
    result,             \* how the last command ended
    cut,                \* what has been cut off so far, or kept (see Mishaps)
    commands, cleans    \* number of commands and of cleanups so far

rocky == <<isos, isoPath, contents, rootfs, built, debloated>>
control == <<cmd, pc, result, commands>>
vars == <<ver, pkgVer, rocky, pk, epel, control, cut, cleans>>

Version == 1..MaxVersion
PkgVersion == 1..MaxPkgVersion
NoFile == 0
\* The directories BaseOS and BaseOS/Packages, all of the RPMs, and
\* images/install.img, the file and all of it.
ContentParts == {"baseos", "packages", "rpms", "image", "whole_image"}
Installer == {"image", "whole_image"}
\* What the squashfs holds: usr, the rest of what later steps need, the
\* installer's files, and the write permission that chmod adds.
BaseParts == {"usr", "rest", "bloat"}
Extracted == BaseParts \cup {"writable"}
\* The packages by what is known of them: the binaries is_installed asks
\* for, those that install verifies as well, what nobody verifies and lies
\* where rocky.rhai looks for bloat (man pages), and what the list gained.
PackageList(v) == {"critical", "key", "man"} \cup (IF v > 1 THEN {"added"} ELSE {})
Verified(v) == PackageList(v) \ {"man"}
RootfsParts == Extracted \cup PackageList(MaxPkgVersion) \cup {"epel"}
NoTree == [ver |-> 1, has |-> {}]
\* What earlier commands may have cut off: an extraction of a tree, the
\* removal of stale trees, the extraction of packages (or a cpio has failed in
\* it), a cleanup of rocky.rhai and a clean of all downloads.  "kept" is a
\* removal of the rootfs, by a cleanup of rocky.rhai or as stale, that has left
\* .packages-installed there, "skipped" a build that has gone past rocky.rhai
\* before .rocky-installed was written.
Mishaps == {"extraction", "stale", "packages", "cleanup", "downloads", "kept", "skipped"}

TypeOK ==
    /\ ver \in Version /\ pkgVer \in PkgVersion
    /\ isos \in [Version -> {"absent", "partial", "good"}]
    /\ isoPath \in Version
    /\ contents \in [ver : Version, has : SUBSET ContentParts]
    /\ rootfs \in [ver : Version, has : SUBSET RootfsParts]
    /\ built \in Version \cup {NoFile} /\ debloated \in BOOLEAN
    /\ pk \in [version : PkgVersion \cup {NoFile}, manifest : SUBSET PackageList(MaxPkgVersion),
               installed : PkgVersion \cup {NoFile}]
    /\ epel \in [rpms : {"absent", "partial", "good"}, version : BOOLEAN, installed : BOOLEAN]
    /\ cmd \in {"none", "build", "rocky"}
    /\ pc \in {"none", "rocky", "acquire", "is_built", "rm_rootfs", "rm_marker", "7z", "image",
               "unsquashfs", "chmod", "mark", "install", "debloat", "paths", "extract",
               "packages", "pk_build", "pk_save", "pk_version", "pk_install", "pk_cleanup",
               "epel", "ep_download", "ep_extract", "ep_install", "ep_cleanup"}
    /\ result \in {"none", "ok", "ok_rocky", "err", "killed"}
    /\ cut \subseteq Mishaps
    /\ commands \in 0..MaxCommands /\ cleans \in 0..MaxCleans

Init ==
    /\ ver = 1 /\ pkgVer = 1
    /\ isos = [v \in Version |-> "absent"] /\ isoPath = 1
    /\ contents = NoTree /\ rootfs = NoTree
    /\ built = NoFile /\ debloated = FALSE
    /\ pk = [version |-> NoFile, manifest |-> {}, installed |-> NoFile]
    /\ epel = [rpms |-> "absent", version |-> FALSE, installed |-> FALSE]
    /\ cmd = "none" /\ pc = "none"
    /\ result = "none"
    /\ cut = {}
    /\ commands = 0 /\ cleans = 0
-----------------------------------------------------------------------------
Goto(p) == pc' = p /\ UNCHANGED <<cmd, result, commands>>
End(res) == cmd' = "none" /\ pc' = "none" /\ result' = res /\ UNCHANGED commands
Throws == End("err")
Stops == End("err") \/ End("killed")
Developer == <<ver, pkgVer, cleans>>

(* What an extraction that is cut off leaves in a tree that it has begun.  *)
(* unsquashfs sets the permissions of a directory last, and to root they   *)
(* do not matter, so that what it leaves may well be writable.             *)
PartOfIso ==
    {S \in SUBSET ContentParts :
        /\ "packages" \in S => "baseos" \in S
        /\ "rpms" \in S => "packages" \in S
        /\ "whole_image" \in S => "image" \in S} \ {ContentParts}
PartOfSquashfs == {{}, {"usr"}, {"usr", "writable"}, {"usr", "bloat", "writable"}}
(* What a removal that is cut off leaves of a tree: usr alone, all but one *)
(* part, or nothing of what is named here.                                 *)
RemainsOf(t) == {[t EXCEPT !.has = S] :
                    S \in {{}, t.has \cap {"usr", "baseos"}} \cup
                          {t.has \ {p} : p \in t.has \ {"usr", "baseos", "packages"}}}

HasUsr == "usr" \in rootfs.has
HasPackages == "packages" \in contents.has
-----------------------------------------------------------------------------
(* rocky.rhai                                                              *)
RockyIsBuilt == HasUsr /\ HasPackages /\ built = ver

\* A faulty is_installed that goes by the marker alone.
RockyIsInstalledByMarker == debloated

RockyIsInstalled == HasUsr /\ HasPackages /\ debloated
RockyStarts ==
    /\ pc = "rocky"
    /\ Goto(IF RockyIsInstalled THEN "paths" ELSE "acquire")
    /\ UNCHANGED <<Developer, rocky, pk, epel, cut>>

(* is_acquired, acquire: an ISO that is there must have the right checksum *)
(* and is never downloaded again.                                          *)
Acquired == isos[ver] = "good" /\ isoPath = ver
AcquireSkips ==
    /\ pc = "acquire" /\ Acquired
    /\ Goto("is_built")
    /\ UNCHANGED <<Developer, rocky, pk, epel, cut>>

Acquire ==
    /\ pc = "acquire" /\ ~Acquired
    /\ \/ Throws /\ UNCHANGED <<isos, isoPath>>
       \/ /\ isos[ver] = "absent"
          /\ \/ isos' = [isos EXCEPT ![ver] = "partial"] /\ Stops /\ UNCHANGED isoPath
             \/ isos' = [isos EXCEPT ![ver] = "good"] /\ Goto("is_built") /\ isoPath' = ver
       \/ /\ isos[ver] = "good"
          /\ Goto("is_built") /\ isoPath' = ver /\ UNCHANGED isos
    /\ UNCHANGED <<Developer, contents, rootfs, built, debloated, pk, epel, cut>>

(* build: the trees of another version go first, the marker last.          *)
Stale == built # NoFile /\ built # ver
IsBuilt ==
    /\ pc = "is_built"
    /\ \/ RockyIsBuilt /\ Goto("install") /\ UNCHANGED <<contents, cut>>
       \/ ~RockyIsBuilt /\ ~Stale /\ Goto("7z") /\ UNCHANGED <<contents, cut>>
       \/ /\ ~RockyIsBuilt /\ Stale
          /\ \/ contents' = NoTree /\ Goto("rm_rootfs") /\ UNCHANGED cut
             \/ contents' \in RemainsOf(contents) /\ Stops /\ cut' = cut \cup {"stale"}
    /\ UNCHANGED <<Developer, isos, isoPath, rootfs, built, debloated, pk, epel>>

\* A faulty removal of the stale trees that forgets the rootfs.
RemoveNoStaleRootfs ==
    /\ pc = "rm_rootfs"
    /\ Goto("rm_marker")
    /\ UNCHANGED <<Developer, rocky, pk, epel, cut>>

\* The marker of packages.rhai stays where the rootfs it is about is removed.
Kept == IF pk.installed = NoFile THEN {} ELSE {"kept"}
RemoveStaleRootfs ==
    /\ pc = "rm_rootfs"
    /\ \/ rootfs' = NoTree /\ Goto("rm_marker") /\ cut' = cut \cup Kept
       \/ rootfs' \in RemainsOf(rootfs) /\ Stops /\ cut' = cut \cup {"stale"} \cup Kept
    /\ UNCHANGED <<Developer, isos, isoPath, contents, built, debloated, pk, epel>>

RemoveStaleMarker ==
    /\ pc = "rm_marker"
    /\ built' = NoFile
    /\ Goto("7z")
    /\ UNCHANGED <<Developer, isos, isoPath, contents, rootfs, debloated, pk, epel, cut>>

(* A tree with a BaseOS directory is taken for a whole one, and so is a    *)
(* rootfs with a usr directory.                                            *)
ExtractIso ==
    /\ pc = "7z"
    /\ \/ "baseos" \in contents.has /\ Goto("image") /\ UNCHANGED <<contents, cut>>
       \/ /\ "baseos" \notin contents.has
          /\ \/ contents' = [ver |-> ver, has |-> ContentParts] /\ Goto("image") /\ UNCHANGED cut
             \/ /\ contents' \in [ver : {ver}, has : PartOfIso]
                /\ Stops /\ cut' = cut \cup {"extraction"}
    /\ UNCHANGED <<Developer, isos, isoPath, rootfs, built, debloated, pk, epel>>

FindImage ==
    /\ pc = "image"
    /\ IF "image" \in contents.has THEN Goto("unsquashfs") ELSE Throws
    /\ UNCHANGED <<Developer, rocky, pk, epel, cut>>

Unsquashfs ==
    /\ pc = "unsquashfs"
    /\ \/ HasUsr /\ Goto("mark") /\ UNCHANGED <<rootfs, cut>>
       \/ /\ ~HasUsr /\ "whole_image" \in contents.has
          /\ rootfs' = [ver |-> contents.ver, has |-> BaseParts]
          /\ Goto("chmod") /\ UNCHANGED cut
       \/ /\ ~HasUsr
          /\ rootfs' \in [ver : {contents.ver}, has : PartOfSquashfs]
          /\ Stops /\ cut' = cut \cup {"extraction"}
    /\ UNCHANGED <<Developer, isos, isoPath, contents, built, debloated, pk, epel>>

Chmod ==
    /\ pc = "chmod"
    /\ \/ rootfs' = [rootfs EXCEPT !.has = @ \cup {"writable"}] /\ Goto("mark") /\ UNCHANGED cut
       \/ Stops /\ cut' = cut \cup {"extraction"} /\ UNCHANGED rootfs
    /\ UNCHANGED <<Developer, isos, isoPath, contents, built, debloated, pk, epel>>

WriteBuiltVersion ==
    /\ pc = "mark"
    /\ built' = ver
    /\ Goto("install")
    /\ UNCHANGED <<Developer, isos, isoPath, contents, rootfs, debloated, pk, epel, cut>>

(* install: the installer's files are removed from both trees, unless the  *)
(* marker says that they have been, and then the marker is written.        *)
RockyInstall ==
    /\ pc = "install"
    /\ IF debloated THEN Goto("paths") ELSE Goto("debloat")
    /\ UNCHANGED <<Developer, rocky, pk, epel, cut>>

Debloat ==
    /\ pc = "debloat"
    /\ \/ /\ contents' = [contents EXCEPT !.has = @ \ Installer]
          /\ rootfs' = [rootfs EXCEPT !.has = @ \ {"bloat", "man"}]
          /\ debloated' = TRUE /\ Goto("paths")
       \/ /\ contents' \in {contents, [contents EXCEPT !.has = @ \ Installer]}
          /\ rootfs' \in {rootfs, [rootfs EXCEPT !.has = @ \ {"bloat", "man"}]}
          /\ Stops /\ UNCHANGED debloated
    /\ UNCHANGED <<Developer, isos, isoPath, built, pk, epel, cut>>

(* rocky(): the ISO that ctx names must exist, and the two directories,    *)
(* which do (RockyLeavesTrees).                                            *)
RockyPathsExist ==
    /\ pc = "paths"
    /\ \/ isos[isoPath] = "absent" /\ Throws
       \/ isos[isoPath] # "absent" /\ cmd = "build" /\ Goto("packages")
       \/ isos[isoPath] # "absent" /\ cmd = "rocky" /\ Goto("extract")
    /\ UNCHANGED <<Developer, rocky, pk, epel, cut>>

(* extract_rocky_iso, when `extract rocky' calls it, finds both trees and  *)
(* leaves them as they are (RockyLeavesTrees); `download rocky' ends here  *)
(* too.                                                                    *)
ExtractRockyIso ==
    /\ pc = "extract"
    /\ End("ok_rocky")
    /\ UNCHANGED <<Developer, rocky, pk, epel, cut>>
-----------------------------------------------------------------------------
(* packages.rhai                                                           *)
\* A faulty is_installed that trusts the marker of the current version.
PackagesInstalledByMarker == pk.installed = pkgVer

PackagesInstalled == pk.installed = pkgVer /\ "critical" \in rootfs.has
PackagesBuilt == pk.version = pkgVer /\ pk.manifest # {}

\* cleanup, called or not, and the three removals it is made of.
PkCleanedUp == [pk EXCEPT !.version = NoFile, !.manifest = {}, !.installed = NoFile]
PkCleanup == pk' \in {pk, PkCleanedUp}
PkCleanupStops == pk' \in {[pk EXCEPT !.version = NoFile],
                           [pk EXCEPT !.version = NoFile, !.manifest = {}]} /\ Stops

PackagesStarts ==
    /\ pc = "packages"
    /\ \/ ~(HasUsr /\ HasPackages) /\ Throws
       \/ /\ HasUsr /\ HasPackages
          /\ Goto(CASE PackagesInstalled -> "epel"
                    [] ~PackagesInstalled /\ PackagesBuilt -> "pk_install"
                    [] OTHER -> "pk_build")
    /\ UNCHANGED <<Developer, rocky, pk, epel, cut>>

(* build: what the manifest does not name is extracted; an RPM that is not *)
(* found ends it, a cpio that fails does not.  The manifest and then the   *)
(* version are written at the end.                                         *)
Merged(S) == rootfs' = [rootfs EXCEPT !.has = @ \cup S]
PackagesBuild ==
    /\ pc = "pk_build"
    /\ LET todo == PackageList(pkgVer) \ pk.manifest
           ok == IF "writable" \in rootfs.has THEN todo ELSE {}
       IN \/ /\ "rpms" \in contents.has \/ todo = {}
             /\ \E failed \in {{}} \cup {{p} : p \in ok} : Merged(ok \ failed)
             /\ Goto("pk_save") /\ UNCHANGED pk
          \/ /\ "rpms" \notin contents.has /\ todo # {}
             /\ \E S \in {{}, ok \cap {"critical", "man"}} : Merged(S)
             /\ Throws /\ PkCleanup
          \/ /\ \E S \in {ok \cap {"critical"}, ok \cap {"critical", "man"}} : Merged(S)
             /\ End("killed") /\ UNCHANGED pk
    /\ cut' = IF PackageList(pkgVer) \ pk.manifest \subseteq rootfs'.has
              THEN cut ELSE cut \cup {"packages"}
    /\ UNCHANGED <<Developer, isos, isoPath, contents, built, debloated, epel>>

SaveManifest ==
    /\ pc = "pk_save"
    /\ pk' = [pk EXCEPT !.manifest = @ \cup PackageList(pkgVer)]
    /\ Goto("pk_version")
    /\ UNCHANGED <<Developer, rocky, epel, cut>>

WritePackagesVersion ==
    /\ pc = "pk_version"
    /\ pk' = [pk EXCEPT !.version = pkgVer]
    /\ Goto("pk_install")
    /\ UNCHANGED <<Developer, rocky, epel, cut>>

(* install verifies a binary of each category and writes the marker.       *)
PackagesInstall ==
    /\ pc = "pk_install"
    /\ \/ /\ Verified(pkgVer) \subseteq rootfs.has
          /\ pk' = [pk EXCEPT !.installed = pkgVer]
          /\ Goto("pk_cleanup")
       \/ ~(Verified(pkgVer) \subseteq rootfs.has) /\ Throws /\ PkCleanup
    /\ UNCHANGED <<Developer, rocky, epel, cut>>

PackagesCleanup ==
    /\ pc = "pk_cleanup"
    /\ \/ PkCleanup /\ Goto("epel")
       \/ PkCleanupStops
    /\ UNCHANGED <<Developer, rocky, epel, cut>>
-----------------------------------------------------------------------------
(* epel.rhai                                                               *)
EpCleanedUp == [epel EXCEPT !.version = FALSE, !.installed = FALSE]
EpCleanup == epel' \in {epel, EpCleanedUp}

EpelStarts ==
    /\ pc = "epel"
    /\ \/ ~HasUsr /\ Throws
       \/ HasUsr /\ epel.installed /\ End("ok")
       \/ /\ HasUsr /\ ~epel.installed
          /\ Goto(IF epel.version THEN "ep_install" ELSE "ep_download")
    /\ UNCHANGED <<Developer, rocky, pk, epel, cut>>

(* An RPM that is in the cache is not downloaded again.                    *)
EpelDownload ==
    /\ pc = "ep_download"
    /\ \/ epel.rpms # "absent" /\ Goto("ep_extract") /\ UNCHANGED epel
       \/ /\ epel.rpms = "absent"
          /\ \/ epel' = [epel EXCEPT !.rpms = "good"] /\ Goto("ep_extract")
             \/ epel' \in {epel, [epel EXCEPT !.rpms = "partial"]} /\ Stops
    /\ UNCHANGED <<Developer, rocky, pk, cut>>

EpelExtract ==
    /\ pc = "ep_extract"
    /\ \/ epel.rpms = "good" /\ "writable" \in rootfs.has /\ Merged({"epel"})
       \/ UNCHANGED rootfs
    /\ epel' = [epel EXCEPT !.version = TRUE]
    /\ Goto("ep_install")
    /\ UNCHANGED <<Developer, isos, isoPath, contents, built, debloated, pk, cut>>

EpelInstall ==
    /\ pc = "ep_install"
    /\ \/ /\ "epel" \in rootfs.has
          /\ epel' = [epel EXCEPT !.installed = TRUE] /\ Goto("ep_cleanup")
       \/ "epel" \notin rootfs.has /\ Throws /\ EpCleanup
    /\ UNCHANGED <<Developer, rocky, pk, cut>>

EpelCleanup ==
    /\ pc = "ep_cleanup"
    /\ \/ EpCleanup /\ End("ok")
       \/ epel' = [epel EXCEPT !.version = FALSE] /\ Stops
    /\ UNCHANGED <<Developer, rocky, pk, cut>>
-----------------------------------------------------------------------------
(* `download rocky' and `extract rocky' run the first recipe, `leviso      *)
(* build' the other two, and the first one before them if there is no      *)
(* BaseOS directory yet.                                                   *)
Start(c) ==
    /\ cmd = "none" /\ commands < MaxCommands
    /\ LET skips == c = "build" /\ "baseos" \in contents.has
       IN /\ pc' = IF skips THEN "packages" ELSE "rocky"
          /\ cut' = IF skips /\ ~debloated THEN cut \cup {"skipped"} ELSE cut
    /\ cmd' = c /\ result' = "none"
    /\ commands' = commands + 1
    /\ UNCHANGED <<Developer, rocky, pk, epel>>

RaiseVersion ==
    /\ cmd = "none"
    /\ \/ ver < MaxVersion /\ ver' = ver + 1 /\ UNCHANGED pkgVer
       \/ pkgVer < MaxPkgVersion /\ pkgVer' = pkgVer + 1 /\ UNCHANGED ver
    /\ result' = "none"
    /\ UNCHANGED <<rocky, pk, epel, cmd, pc, commands, cut, cleans>>

Cleaning ==
    /\ cmd = "none" /\ cleans < MaxCleans
    /\ cleans' = cleans + 1 /\ result' = "none"
    /\ UNCHANGED <<ver, pkgVer, cmd, pc, commands>>

\* A faulty cleanup that removes the markers before the trees.
RockyCleanupMarkersFirst ==
    /\ Cleaning
    /\ built' = NoFile /\ debloated' = FALSE
    /\ \/ contents' = NoTree /\ rootfs' = NoTree
       \/ UNCHANGED <<contents, rootfs>>
    /\ UNCHANGED <<isos, isoPath, pk, epel, cut>>

(* cleanup with the reason manual, killed or not: iso-contents, rootfs,    *)
(* .rocky-built-version and .rocky-installed go in this order, or the      *)
(* state files of the other two recipes.                                   *)
RockyCleanup ==
    /\ Cleaning
    /\ \/ /\ contents' \in RemainsOf(contents) \cup {NoTree} /\ cut' = cut \cup {"cleanup"}
          /\ UNCHANGED <<rootfs, built, debloated>>
       \/ /\ contents' = NoTree /\ rootfs' \in RemainsOf(rootfs) /\ cut' = cut \cup {"cleanup"}
          /\ UNCHANGED <<built, debloated>>
       \/ /\ contents' = NoTree /\ rootfs' = NoTree
          /\ \/ built' \in {built, NoFile} /\ UNCHANGED debloated
             \/ built' = NoFile /\ debloated' = FALSE
          /\ cut' = cut \cup Kept
    /\ UNCHANGED <<isos, isoPath, pk, epel>>

CleanupStateFiles ==
    /\ Cleaning
    /\ \/ pk' = PkCleanedUp /\ UNCHANGED epel
       \/ epel' = EpCleanedUp /\ UNCHANGED pk
    /\ UNCHANGED <<rocky, cut>>

(* clean_downloads: one remove_dir_all, which may stop half way.           *)
CleanDownloads ==
    /\ Cleaning
    /\ \/ /\ isos' = [v \in Version |-> "absent"]
          /\ contents' = NoTree /\ rootfs' = NoTree /\ built' = NoFile /\ debloated' = FALSE
          /\ pk' = PkCleanedUp /\ epel' = [EpCleanedUp EXCEPT !.rpms = "absent"]
          /\ UNCHANGED cut
       \/ /\ cut' = cut \cup {"downloads"}
          /\ isos' \in {isos, [v \in Version |-> "absent"]}
          /\ contents' \in {contents, NoTree} /\ rootfs' \in {rootfs, NoTree}
          /\ built' \in {built, NoFile} /\ debloated' \in {debloated, FALSE}
          /\ pk' \in {pk, PkCleanedUp} /\ epel' \in {epel, EpCleanedUp}
    /\ UNCHANGED isoPath

\* The command is killed between two of its steps.
Kill ==
    /\ cmd # "none"
    /\ End("killed")
    /\ UNCHANGED <<Developer, rocky, pk, epel, cut>>

Rest == cmd = "none" /\ UNCHANGED vars

Next ==
    \/ \E c \in {"build", "rocky"} : Start(c)
    \/ RockyStarts \/ AcquireSkips \/ Acquire \/ IsBuilt \/ RemoveStaleRootfs
    \/ RemoveStaleMarker \/ ExtractIso \/ FindImage \/ Unsquashfs \/ Chmod
    \/ WriteBuiltVersion \/ RockyInstall \/ Debloat \/ RockyPathsExist \/ ExtractRockyIso
    \/ PackagesStarts \/ PackagesBuild \/ SaveManifest \/ WritePackagesVersion
    \/ PackagesInstall \/ PackagesCleanup
    \/ EpelStarts \/ EpelDownload \/ EpelExtract \/ EpelInstall \/ EpelCleanup
    \/ RaiseVersion \/ RockyCleanup \/ CleanupStateFiles \/ CleanDownloads
    \/ Kill \/ Rest

Spec == Init /\ [][Next]_vars
-----------------------------------------------------------------------------
(* rocky.rhai's bloat removal, which deletes the man pages of the rootfs,  *)
(* runs over a rootfs that packages.rhai has put its own man pages into    *)
(* only if a clean of all downloads was cut off or a build has found a     *)
(* BaseOS directory and gone past rocky.rhai before that was done: no kill *)
(* within rocky.rhai and no retry, new version or cleanup, cut off or not, *)
(* leaves a rootfs with packages and no .rocky-installed.                  *)
BloatRemovalSparesPackages ==
    HasUsr /\ ~debloated /\ cut \cap {"downloads", "skipped"} = {}
        => rootfs.has \subseteq Extracted

(* Supplementary RPMs come from the same Rocky release as the rootfs they  *)
(* are merged into, whatever version changes, failures and kills came      *)
(* between the extraction of the two trees (but for a cleanup or clean     *)
(* that was itself cut off).                                               *)
CleanedWhole == cut \cap {"cleanup", "downloads"} = {}
TreesOfOneRelease ==
    CleanedWhole /\ pc \in {"pk_build", "pk_save", "pk_version", "pk_install"}
        => rootfs.ver = contents.ver

(* A build whose recipes report success has in its rootfs every binary the *)
(* current package list must provide: no marker or manifest that is left   *)
(* from before the rootfs was replaced, the list was changed or a build    *)
(* was killed hides the work that is to be done again, whether the build   *)
(* has run rocky.rhai or gone past it.  It takes two mishaps to get past   *)
(* the three critical binaries: a marker that was kept when the rootfs was *)
(* removed, and the next extraction of packages incomplete (and not a      *)
(* cleanup or clean that was itself cut off).                              *)
OkHasKeyBinaries ==
    result = "ok" /\ CleanedWhole /\ ~({"kept", "packages"} \subseteq cut)
        => Verified(pkgVer) \subseteq rootfs.has

(* "version marker missing - rebuild required", rocky.rhai says after an   *)
(* extraction that was cut off, and "must run first", packages.rhai says   *)
(* of it: a build whose recipes report success has the whole of the        *)
(* squashfs in its rootfs.                                                 *)
OkRootfsIsWhole == result = "ok" => "rest" \in rootfs.has

(* Whenever rocky.rhai ends well, both trees it names are there, however   *)
(* its markers came about: rocky() need not bail, and extract_rocky_iso,   *)
(* which takes any directory for an extracted one, never has to extract.   *)
RockyLeavesTrees == pc \in {"paths", "extract"} => HasUsr /\ "baseos" \in contents.has
=============================================================================
