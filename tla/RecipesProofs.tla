---------------------------- MODULE RecipesProofs ----------------------------
(* Proofs about Recipes, for every bound on versions, commands and         *)
(* cleanups.                                                               *)
EXTENDS Recipes, TLAPS

HasBaseOS == "baseos" \in contents.has
\* It takes both of them to get past the critical binaries.
NotBoth == ~({"kept", "packages"} \subseteq cut)
\* The steps of packages.rhai that follow its checks, and those that follow
\* its install.
BuildOn == {"pk_build", "pk_save", "pk_version", "pk_install", "pk_cleanup"}
EpelOn == {"epel", "ep_download", "ep_extract", "ep_install", "ep_cleanup"}

(* What each step may rely on, as far as no cleanup was cut off.           *)
ControlInv ==
    /\ cmd = "none" <=> pc = "none"
    /\ result = "ok" => cmd = "none"
    /\ pc \in {"image", "unsquashfs", "chmod", "mark", "install", "debloat", "paths", "extract"} =>
         HasBaseOS
    /\ pc \in {"chmod", "mark", "install", "debloat", "paths", "extract"} => HasUsr
    /\ pc = "rm_rootfs" => ~HasBaseOS
    /\ pc = "rm_marker" => ~HasUsr
    /\ pc = "7z" /\ CleanedWhole /\ HasUsr => HasBaseOS
    /\ pc \in {"packages"} \cup BuildOn \cup EpelOn => debloated \/ "skipped" \in cut
    /\ pc \in {"paths", "extract"} => debloated
    /\ pc \in BuildOn => HasUsr /\ HasPackages
    /\ pc \in {"pk_cleanup"} \cup EpelOn /\ CleanedWhole /\ NotBoth =>
         Verified(pkgVer) \subseteq rootfs.has

(* Trees that fit each other, but for a rootfs that is about to be removed *)
(* because .rocky-built-version names an older version.                    *)
TreeInv ==
    /\ HasPackages => HasBaseOS
    /\ built <= ver
    /\ CleanedWhole /\ HasUsr =>
         IF HasBaseOS THEN rootfs.ver = contents.ver ELSE built # NoFile /\ built < ver

(* Packages are below usr.                                                 *)
PackagesInv == "critical" \in rootfs.has => HasUsr

(* What the markers of packages.rhai say of the rootfs, but for one that   *)
(* is about to be removed.                                                 *)
MarkerInv ==
    /\ pk.installed <= pkgVer
    /\ "critical" \notin pk.manifest => pk.manifest = {}
    /\ CleanedWhole /\ pk.installed # NoFile =>
         /\ "kept" \notin cut => "critical" \in rootfs.has
         /\ NotBoth /\ HasBaseOS /\ "critical" \in rootfs.has =>
              Verified(pk.installed) \subseteq rootfs.has

(* The inductive invariant.                                                *)
IInv == TypeOK /\ ControlInv /\ TreeInv /\ PackagesInv /\ MarkerInv
        /\ BloatRemovalSparesPackages /\ OkHasKeyBinaries


USE BoundsAssumption
USE DEF vars, rocky, control, Developer, Goto, End, Throws, Stops, NoFile, HasUsr,
        HasPackages, HasBaseOS

(* The package lists grow with the version, and every one of them has the  *)
(* critical binaries.                                                      *)
LEMMA PackageLists ==
    /\ \A v \in PkgVersion : /\ PackageList(v) \subseteq RootfsParts
                             /\ PackageList(v) \subseteq PackageList(MaxPkgVersion)
                             /\ "critical" \in PackageList(v) /\ "critical" \in Verified(v)
                             /\ Verified(v) \subseteq PackageList(v)
                             /\ Verified(v) \cap {"bloat", "man"} = {}
    /\ \A v, w \in PkgVersion : v <= w => PackageList(v) \subseteq PackageList(w)
    /\ \A v, w \in PkgVersion : v <= w => Verified(v) \subseteq Verified(w)
BY DEF PackageList, Verified, RootfsParts, PkgVersion

(* What later steps ask for is in none of the trees that are not there.    *)
LEMMA NoTreeIs ==
    /\ NoTree \in [ver : Version, has : SUBSET ContentParts]
    /\ NoTree \in [ver : Version, has : SUBSET RootfsParts]
    /\ NoTree.has = {}
BY DEF NoTree, Version

(* What is left of a tree is of its version and has usr unless it has      *)
(* nothing, and Packages only together with BaseOS.                        *)
LEMMA Remains ==
    ASSUME NEW parts, NEW t \in [ver : Version, has : SUBSET parts], NEW r \in RemainsOf(t)
    PROVE  /\ r \in [ver : Version, has : SUBSET parts]
           /\ r.ver = t.ver /\ r.has \subseteq t.has
           /\ "usr" \in t.has => "usr" \in r.has \/ r.has = {}
           /\ "packages" \in r.has /\ "baseos" \in t.has => "baseos" \in r.has
<1>1. PICK S \in SUBSET t.has :
        /\ r = [t EXCEPT !.has = S]
        /\ "usr" \in t.has => "usr" \in S \/ S = {}
        /\ "packages" \in S /\ "baseos" \in t.has => "baseos" \in S
    BY DEF RemainsOf
<1>2. r = [ver |-> t.ver, has |-> S]
    BY <1>1
<1>3. QED
    BY <1>1, <1>2

(* The same of the two trees.                                              *)
LEMMA TreesRemain ==
    ASSUME TypeOK
    PROVE  /\ \A r \in RemainsOf(contents) :
                /\ r \in [ver : Version, has : SUBSET ContentParts]
                /\ r.ver = contents.ver /\ r.has \subseteq contents.has
                /\ "packages" \in r.has /\ HasBaseOS => "baseos" \in r.has
           /\ \A r \in RemainsOf(rootfs) :
                /\ r \in [ver : Version, has : SUBSET RootfsParts]
                /\ r.ver = rootfs.ver /\ r.has \subseteq rootfs.has
                /\ HasUsr => "usr" \in r.has \/ r.has = {}
<1>1. contents \in [ver : Version, has : SUBSET ContentParts]
      /\ rootfs \in [ver : Version, has : SUBSET RootfsParts]
    BY DEF TypeOK
<1>2. QED
    BY <1>1, Remains

(* Every step keeps the variables in their types.                          *)
LEMMA NextTypeOK == TypeOK /\ [Next]_vars => TypeOK'
<1> SUFFICES ASSUME TypeOK, [Next]_vars
             PROVE  TypeOK'
    OBVIOUS
<1> USE DEF TypeOK
<1>1. ASSUME NEW c \in {"build", "rocky"}, Start(c)
      PROVE  TypeOK'
    <2>1. cut' \subseteq Mishaps
        BY <1>1 DEF Start, Mishaps
    <2>2. cmd' \in {"build", "rocky"} /\ pc' \in {"packages", "rocky"} /\ result' = "none"
          /\ commands' \in 0..MaxCommands
        BY <1>1 DEF Start
    <2>3. UNCHANGED <<ver, pkgVer, isos, isoPath, contents, rootfs, built, debloated, pk, epel,
                      cleans>>
        BY <1>1 DEF Start
    <2>4. QED
        BY <2>1, <2>2, <2>3
<1>2. CASE RockyStarts
    BY <1>2 DEF RockyStarts
<1>3. CASE AcquireSkips
    BY <1>3 DEF AcquireSkips
<1>4. CASE Acquire
    BY <1>4 DEF Acquire
<1>5. CASE IsBuilt
    <2>1. contents' \in [ver : Version, has : SUBSET ContentParts]
        BY <1>5, NoTreeIs, TreesRemain DEF IsBuilt
    <2>2. cut' \subseteq Mishaps
        BY <1>5 DEF IsBuilt, Mishaps
    <2>3. cmd' \in {cmd, "none"} /\ pc' \in {"none", "install", "7z", "rm_rootfs"}
          /\ result' \in {result, "err", "killed"}
        BY <1>5 DEF IsBuilt
    <2>4. UNCHANGED <<ver, pkgVer, isos, isoPath, rootfs, built, debloated, pk, epel, commands,
                      cleans>>
        BY <1>5 DEF IsBuilt
    <2>5. QED
        BY <2>1, <2>2, <2>3, <2>4
<1>6. CASE RemoveStaleRootfs
    <2>1. rootfs' \in [ver : Version, has : SUBSET RootfsParts]
        BY <1>6, NoTreeIs, TreesRemain DEF RemoveStaleRootfs
    <2>2. cut' \subseteq Mishaps
        BY <1>6 DEF RemoveStaleRootfs, Kept, Mishaps
    <2>3. cmd' \in {cmd, "none"} /\ pc' \in {"none", "rm_marker"}
          /\ result' \in {result, "err", "killed"}
        BY <1>6 DEF RemoveStaleRootfs
    <2>4. UNCHANGED <<ver, pkgVer, isos, isoPath, contents, built, debloated, pk, epel,
                      commands, cleans>>
        BY <1>6 DEF RemoveStaleRootfs
    <2>5. QED
        BY <2>1, <2>2, <2>3, <2>4
<1>7. CASE RemoveStaleMarker
    BY <1>7 DEF RemoveStaleMarker
<1>8. CASE ExtractIso
    <2>1. contents' \in [ver : Version, has : SUBSET ContentParts]
        BY <1>8 DEF ExtractIso, PartOfIso
    <2>2. cut' \subseteq Mishaps
        BY <1>8 DEF ExtractIso, Mishaps
    <2>3. cmd' \in {cmd, "none"} /\ pc' \in {"none", "image"}
          /\ result' \in {result, "err", "killed"}
        BY <1>8 DEF ExtractIso
    <2>4. UNCHANGED <<ver, pkgVer, isos, isoPath, rootfs, built, debloated, pk, epel, commands,
                      cleans>>
        BY <1>8 DEF ExtractIso
    <2>5. QED
        BY <2>1, <2>2, <2>3, <2>4
<1>9. CASE FindImage
    BY <1>9 DEF FindImage
<1>10. CASE Unsquashfs
    <2>1. rootfs' \in [ver : Version, has : SUBSET RootfsParts]
        BY <1>10 DEF Unsquashfs, PartOfSquashfs, BaseParts, RootfsParts, Extracted
    <2>2. cut' \subseteq Mishaps
        BY <1>10 DEF Unsquashfs, Mishaps
    <2>3. cmd' \in {cmd, "none"} /\ pc' \in {"none", "mark", "chmod"}
          /\ result' \in {result, "err", "killed"}
        BY <1>10 DEF Unsquashfs
    <2>4. UNCHANGED <<ver, pkgVer, isos, isoPath, contents, built, debloated, pk, epel,
                      commands, cleans>>
        BY <1>10 DEF Unsquashfs
    <2>5. QED
        BY <2>1, <2>2, <2>3, <2>4
<1>11. CASE Chmod
    <2>1. rootfs' \in [ver : Version, has : SUBSET RootfsParts]
        BY <1>11 DEF Chmod, RootfsParts, Extracted
    <2>2. cut' \subseteq Mishaps
        BY <1>11 DEF Chmod, Mishaps
    <2>3. cmd' \in {cmd, "none"} /\ pc' \in {"none", "mark"}
          /\ result' \in {result, "err", "killed"}
        BY <1>11 DEF Chmod
    <2>4. UNCHANGED <<ver, pkgVer, isos, isoPath, contents, built, debloated, pk, epel,
                      commands, cleans>>
        BY <1>11 DEF Chmod
    <2>5. QED
        BY <2>1, <2>2, <2>3, <2>4
<1>12. CASE WriteBuiltVersion
    BY <1>12 DEF WriteBuiltVersion
<1>13. CASE RockyInstall
    BY <1>13 DEF RockyInstall
<1>14. CASE Debloat
    <2>1. contents' \in [ver : Version, has : SUBSET ContentParts]
        BY <1>14 DEF Debloat
    <2>2. rootfs' \in [ver : Version, has : SUBSET RootfsParts]
        BY <1>14 DEF Debloat
    <2>3. debloated' \in BOOLEAN
        BY <1>14 DEF Debloat
    <2>4. cmd' \in {cmd, "none"} /\ pc' \in {"none", "paths"}
          /\ result' \in {result, "err", "killed"}
        BY <1>14 DEF Debloat
    <2>5. UNCHANGED <<ver, pkgVer, isos, isoPath, built, pk, epel, cut, commands, cleans>>
        BY <1>14 DEF Debloat
    <2>6. QED
        BY <2>1, <2>2, <2>3, <2>4, <2>5
<1>15. CASE RockyPathsExist
    BY <1>15 DEF RockyPathsExist
<1>16. CASE ExtractRockyIso
    BY <1>16 DEF ExtractRockyIso
<1>17. CASE PackagesStarts
    BY <1>17 DEF PackagesStarts
<1>18. CASE PackagesBuild
    <2>1. rootfs' \in [ver : Version, has : SUBSET RootfsParts]
        <3>1. ASSUME NEW S \in SUBSET PackageList(pkgVer), Merged(S)
              PROVE  rootfs' \in [ver : Version, has : SUBSET RootfsParts]
            BY <3>1, PackageLists DEF Merged
        <3>2. \E S \in SUBSET PackageList(pkgVer) : Merged(S)
            BY <1>18 DEF PackagesBuild
        <3>3. QED
            BY <3>1, <3>2
    <2>2. pk' \in [version : PkgVersion \cup {NoFile}, manifest : SUBSET PackageList(MaxPkgVersion),
                    installed : PkgVersion \cup {NoFile}]
        BY <1>18 DEF PackagesBuild, PkCleanup, PkCleanedUp
    <2>3. cut' \subseteq Mishaps
        BY <1>18 DEF PackagesBuild, Mishaps
    <2>4. cmd' \in {cmd, "none"} /\ pc' \in {"none", "pk_save"}
          /\ result' \in {result, "err", "killed"}
        BY <1>18 DEF PackagesBuild
    <2>5. UNCHANGED <<ver, pkgVer, isos, isoPath, contents, built, debloated, epel, commands,
                      cleans>>
        BY <1>18 DEF PackagesBuild
    <2>6. QED
        BY <2>1, <2>2, <2>3, <2>4, <2>5
<1>19. CASE SaveManifest
    <2>1. pk' \in [version : PkgVersion \cup {NoFile}, manifest : SUBSET PackageList(MaxPkgVersion),
                    installed : PkgVersion \cup {NoFile}]
        BY <1>19, PackageLists DEF SaveManifest
    <2>2. cmd' \in {cmd, "none"} /\ pc' \in {"none", "pk_version"} /\ result' \in {result}
        BY <1>19 DEF SaveManifest
    <2>3. UNCHANGED <<ver, pkgVer, isos, isoPath, contents, rootfs, built, debloated, epel,
                      cut, commands, cleans>>
        BY <1>19 DEF SaveManifest
    <2>4. QED
        BY <2>1, <2>2, <2>3
<1>20. CASE WritePackagesVersion
    BY <1>20 DEF WritePackagesVersion
<1>21. CASE PackagesInstall
    <2>1. pk' \in [version : PkgVersion \cup {NoFile}, manifest : SUBSET PackageList(MaxPkgVersion),
                    installed : PkgVersion \cup {NoFile}]
        BY <1>21 DEF PackagesInstall, PkCleanup, PkCleanedUp
    <2>2. cmd' \in {cmd, "none"} /\ pc' \in {"none", "pk_cleanup"} /\ result' \in {result, "err"}
        BY <1>21 DEF PackagesInstall
    <2>3. UNCHANGED <<ver, pkgVer, isos, isoPath, contents, rootfs, built, debloated, epel,
                      cut, commands, cleans>>
        BY <1>21 DEF PackagesInstall
    <2>4. QED
        BY <2>1, <2>2, <2>3
<1>22. CASE PackagesCleanup
    <2>1. pk' \in [version : PkgVersion \cup {NoFile}, manifest : SUBSET PackageList(MaxPkgVersion),
                    installed : PkgVersion \cup {NoFile}]
        BY <1>22 DEF PackagesCleanup, PkCleanup, PkCleanedUp, PkCleanupStops
    <2>2. cmd' \in {cmd, "none"} /\ pc' \in {"none", "epel"}
          /\ result' \in {result, "err", "killed"}
        BY <1>22 DEF PackagesCleanup, PkCleanupStops
    <2>3. UNCHANGED <<ver, pkgVer, isos, isoPath, contents, rootfs, built, debloated, epel,
                      cut, commands, cleans>>
        BY <1>22 DEF PackagesCleanup, PkCleanupStops
    <2>4. QED
        BY <2>1, <2>2, <2>3
<1>23. CASE EpelStarts
    BY <1>23 DEF EpelStarts
<1>24. CASE EpelDownload
    BY <1>24 DEF EpelDownload
<1>25. CASE EpelExtract
    <2>1. rootfs' \in [ver : Version, has : SUBSET RootfsParts]
        BY <1>25 DEF EpelExtract, Merged, RootfsParts
    <2>2. epel' \in [rpms : {"absent", "partial", "good"}, version : BOOLEAN, installed : BOOLEAN]
        BY <1>25 DEF EpelExtract
    <2>3. cmd' \in {cmd, "none"} /\ pc' \in {"none", "ep_install"} /\ result' \in {result}
        BY <1>25 DEF EpelExtract
    <2>4. UNCHANGED <<ver, pkgVer, isos, isoPath, contents, built, debloated, pk, cut,
                      commands, cleans>>
        BY <1>25 DEF EpelExtract
    <2>5. QED
        BY <2>1, <2>2, <2>3, <2>4
<1>26. CASE EpelInstall
    <2>1. epel' \in [rpms : {"absent", "partial", "good"}, version : BOOLEAN, installed : BOOLEAN]
        BY <1>26 DEF EpelInstall, EpCleanup, EpCleanedUp
    <2>2. cmd' \in {cmd, "none"} /\ pc' \in {"none", "ep_cleanup"} /\ result' \in {result, "err"}
        BY <1>26 DEF EpelInstall
    <2>3. UNCHANGED <<ver, pkgVer, isos, isoPath, contents, rootfs, built, debloated, pk, cut,
                      commands, cleans>>
        BY <1>26 DEF EpelInstall
    <2>4. QED
        BY <2>1, <2>2, <2>3
<1>27. CASE EpelCleanup
    <2>1. epel' \in [rpms : {"absent", "partial", "good"}, version : BOOLEAN, installed : BOOLEAN]
        BY <1>27 DEF EpelCleanup, EpCleanup, EpCleanedUp
    <2>2. cmd' \in {cmd, "none"} /\ pc' \in {"none"}
          /\ result' \in {result, "ok", "err", "killed"}
        BY <1>27 DEF EpelCleanup
    <2>3. UNCHANGED <<ver, pkgVer, isos, isoPath, contents, rootfs, built, debloated, pk, cut,
                      commands, cleans>>
        BY <1>27 DEF EpelCleanup
    <2>4. QED
        BY <2>1, <2>2, <2>3
<1>28. CASE RaiseVersion
    <2>1. ver' \in Version /\ pkgVer' \in PkgVersion
        BY <1>28 DEF RaiseVersion, Version, PkgVersion
    <2>2. result' = "none" /\ UNCHANGED <<cmd, pc>>
        BY <1>28 DEF RaiseVersion
    <2>3. UNCHANGED <<isos, isoPath, contents, rootfs, built, debloated, pk, epel, cut,
                      commands, cleans>>
        BY <1>28 DEF RaiseVersion
    <2>4. QED
        BY <2>1, <2>2, <2>3
<1>29. CASE RockyCleanup
    <2>1. cleans' \in 0..MaxCleans
        BY <1>29 DEF Cleaning, RockyCleanup
    <2>2. contents' \in [ver : Version, has : SUBSET ContentParts]
        BY <1>29, NoTreeIs, TreesRemain DEF RockyCleanup
    <2>3. rootfs' \in [ver : Version, has : SUBSET RootfsParts]
        BY <1>29, NoTreeIs, TreesRemain DEF RockyCleanup
    <2>4. built' \in Version \cup {NoFile} /\ debloated' \in BOOLEAN
        BY <1>29 DEF RockyCleanup
    <2>5. cut' \subseteq Mishaps
        BY <1>29 DEF RockyCleanup, Kept, Mishaps
    <2>6. result' = "none" /\ UNCHANGED <<cmd, pc>>
        BY <1>29 DEF RockyCleanup, Cleaning
    <2>7. UNCHANGED <<ver, pkgVer, isos, isoPath, pk, epel, commands>>
        BY <1>29 DEF RockyCleanup, Cleaning
    <2>8. QED
        BY <2>1, <2>2, <2>3, <2>4, <2>5, <2>6, <2>7
<1>30. CASE CleanupStateFiles
    <2>1. cleans' \in 0..MaxCleans
        BY <1>30 DEF Cleaning, CleanupStateFiles
    <2>2. pk' \in [version : PkgVersion \cup {NoFile}, manifest : SUBSET PackageList(MaxPkgVersion),
                    installed : PkgVersion \cup {NoFile}]
        BY <1>30 DEF CleanupStateFiles, PkCleanedUp
    <2>3. epel' \in [rpms : {"absent", "partial", "good"}, version : BOOLEAN, installed : BOOLEAN]
        BY <1>30 DEF CleanupStateFiles, EpCleanedUp
    <2>4. result' = "none" /\ UNCHANGED <<cmd, pc>>
        BY <1>30 DEF CleanupStateFiles, Cleaning
    <2>5. UNCHANGED <<ver, pkgVer, isos, isoPath, contents, rootfs, built, debloated, cut,
                      commands>>
        BY <1>30 DEF CleanupStateFiles, Cleaning
    <2>6. QED
        BY <2>1, <2>2, <2>3, <2>4, <2>5
<1>31. CASE CleanDownloads
    <2>1. cleans' \in 0..MaxCleans
        BY <1>31 DEF Cleaning, CleanDownloads
    <2>2. isos' \in [Version -> {"absent", "partial", "good"}]
        BY <1>31 DEF CleanDownloads
    <2>3. contents' \in [ver : Version, has : SUBSET ContentParts]
        BY <1>31, NoTreeIs DEF CleanDownloads
    <2>4. rootfs' \in [ver : Version, has : SUBSET RootfsParts]
        BY <1>31, NoTreeIs DEF CleanDownloads
    <2>5. built' \in Version \cup {NoFile} /\ debloated' \in BOOLEAN
        BY <1>31 DEF CleanDownloads
    <2>6. pk' \in [version : PkgVersion \cup {NoFile}, manifest : SUBSET PackageList(MaxPkgVersion),
                    installed : PkgVersion \cup {NoFile}]
        BY <1>31 DEF CleanDownloads, PkCleanedUp
    <2>7. epel' \in [rpms : {"absent", "partial", "good"}, version : BOOLEAN, installed : BOOLEAN]
        BY <1>31 DEF CleanDownloads, EpCleanedUp
    <2>8. cut' \subseteq Mishaps
        BY <1>31 DEF CleanDownloads, Mishaps
    <2>9. result' = "none" /\ UNCHANGED <<cmd, pc>>
        BY <1>31 DEF CleanDownloads, Cleaning
    <2>10. UNCHANGED <<ver, pkgVer, isoPath, commands>>
        BY <1>31 DEF CleanDownloads, Cleaning
    <2>11. QED
        BY <2>1, <2>2, <2>3, <2>4, <2>5, <2>6, <2>7, <2>8, <2>9, <2>10
<1>32. CASE Kill
    BY <1>32 DEF Kill
<1>33. CASE Rest
    BY <1>33 DEF Rest
<1>34. CASE UNCHANGED vars
    BY <1>34
<1>35. QED
    BY <1>1, <1>2, <1>3, <1>4, <1>5, <1>6, <1>7, <1>8, <1>9, <1>10, <1>11, <1>12, <1>13, <1>14,
       <1>15, <1>16, <1>17, <1>18, <1>19, <1>20, <1>21, <1>22, <1>23, <1>24, <1>25, <1>26,
       <1>27, <1>28, <1>29, <1>30, <1>31, <1>32, <1>33, <1>34 DEF Next

(* What the initial state establishes.                                     *)
LEMMA InitIInv == Init => IInv
<1> SUFFICES ASSUME Init
             PROVE  IInv
    OBVIOUS
<1>1. TypeOK
    <2>1. 1 \in Version /\ 1 \in PkgVersion /\ 0 \in 0..MaxCommands /\ 0 \in 0..MaxCleans
        BY DEF Version, PkgVersion
    <2>2. ver \in Version /\ pkgVer \in PkgVersion /\ isoPath \in Version
          /\ isos \in [Version -> {"absent", "partial", "good"}]
        BY <2>1 DEF Init
    <2>3. contents \in [ver : Version, has : SUBSET ContentParts]
          /\ rootfs \in [ver : Version, has : SUBSET RootfsParts]
        BY NoTreeIs DEF Init
    <2>4. built \in Version \cup {NoFile} /\ debloated \in BOOLEAN /\ cut \subseteq Mishaps
        BY DEF Init
    <2>5. pk \in [version : PkgVersion \cup {NoFile}, manifest : SUBSET PackageList(MaxPkgVersion),
                  installed : PkgVersion \cup {NoFile}]
        BY DEF Init
    <2>6. epel \in [rpms : {"absent", "partial", "good"}, version : BOOLEAN, installed : BOOLEAN]
        BY DEF Init
    <2>7. cmd = "none" /\ pc = "none" /\ result = "none" /\ commands = 0 /\ cleans = 0
        BY DEF Init
    <2>8. QED
        BY <2>1, <2>2, <2>3, <2>4, <2>5, <2>6, <2>7 DEF TypeOK
<1>2. ControlInv /\ PackagesInv
    BY NoTreeIs DEF Init, ControlInv, PackagesInv, BuildOn, EpelOn
<1>3. TreeInv
    BY NoTreeIs DEF Init, TreeInv
<1>4. MarkerInv
    BY DEF Init, MarkerInv
<1>5. BloatRemovalSparesPackages /\ OkHasKeyBinaries
    BY NoTreeIs DEF Init, BloatRemovalSparesPackages, OkHasKeyBinaries
<1>6. QED
    BY <1>1, <1>2, <1>3, <1>4, <1>5 DEF IInv

(* Versions are numbers, 0 stands for a marker that is not there.          *)
LEMMA Numbers ==
    ASSUME TypeOK
    PROVE  /\ ver \in Nat /\ built \in Nat /\ pk.installed \in Nat /\ pkgVer \in Nat
           /\ pkgVer \in PkgVersion /\ (pk.installed # NoFile => pk.installed \in PkgVersion)
BY DEF TypeOK, Version, PkgVersion

(* What is said of trees and markers is not about the step a recipe is at. *)
LEMMA SameTrees ==
    ASSUME IInv, UNCHANGED <<ver, pkgVer, contents, rootfs, built, debloated, pk, cut>>
    PROVE  TreeInv' /\ MarkerInv' /\ BloatRemovalSparesPackages'
<1>1. TreeInv'
    BY DEF IInv, TreeInv, CleanedWhole
<1>2. MarkerInv'
    BY DEF IInv, MarkerInv, CleanedWhole, NotBoth
<1>3. BloatRemovalSparesPackages'
    BY DEF IInv, BloatRemovalSparesPackages
<1>4. QED
    BY <1>1, <1>2, <1>3

(* Every step of a recipe, every cleanup and every new version preserves   *)
(* the invariant.                                                          *)
LEMMA NextIInv == IInv /\ [Next]_vars => IInv'
<1> SUFFICES ASSUME IInv, [Next]_vars
             PROVE  IInv'
    OBVIOUS
<1>0. TypeOK' /\ TypeOK
    BY NextTypeOK DEF IInv
<1> USE DEF IInv, CleanedWhole, NotBoth, BuildOn, EpelOn
<1>1. ASSUME NEW c \in {"build", "rocky"}, Start(c)
      PROVE  IInv'
    <2>1. UNCHANGED <<ver, pkgVer, contents, rootfs, built, debloated, pk>>
          /\ cut' \in {cut, cut \cup {"skipped"}}
        BY <1>1 DEF Start
    <2>2. ControlInv'
        BY <1>1 DEF Start, ControlInv
    <2>3. TreeInv'
        BY <2>1 DEF TreeInv
    <2>4. PackagesInv'
        BY <2>1 DEF PackagesInv
    <2>5. MarkerInv'
        BY <2>1 DEF MarkerInv
    <2>6. BloatRemovalSparesPackages'
        BY <2>1 DEF BloatRemovalSparesPackages
    <2>7. OkHasKeyBinaries'
        BY <1>1 DEF Start, OkHasKeyBinaries
    <2>8. QED
        BY <1>0, <2>2, <2>3, <2>4, <2>5, <2>6, <2>7
<1>2. CASE RockyStarts
    <2>1. TreeInv' /\ MarkerInv' /\ BloatRemovalSparesPackages'
        BY <1>2, SameTrees DEF RockyStarts
    <2>2. ControlInv'
        BY <1>2 DEF RockyStarts, RockyIsInstalled, ControlInv, TreeInv
    <2>3. PackagesInv'
        BY <1>2 DEF RockyStarts, RockyIsInstalled, PackagesInv
    <2>4. OkHasKeyBinaries'
        BY <1>2 DEF RockyStarts, OkHasKeyBinaries, ControlInv
    <2>5. QED
        BY <1>0, <2>1, <2>2, <2>3, <2>4
<1>3. CASE AcquireSkips
    <2>1. TreeInv' /\ MarkerInv' /\ BloatRemovalSparesPackages'
        BY <1>3, SameTrees DEF AcquireSkips
    <2>2. ControlInv'
        BY <1>3 DEF AcquireSkips, ControlInv
    <2>3. PackagesInv'
        BY <1>3 DEF AcquireSkips, PackagesInv
    <2>4. OkHasKeyBinaries'
        BY <1>3 DEF AcquireSkips, OkHasKeyBinaries, ControlInv
    <2>5. QED
        BY <1>0, <2>1, <2>2, <2>3, <2>4
<1>4. CASE Acquire
    <2>1. TreeInv' /\ MarkerInv' /\ BloatRemovalSparesPackages'
        BY <1>4, SameTrees DEF Acquire
    <2>2. ControlInv'
        BY <1>4 DEF Acquire, ControlInv
    <2>3. PackagesInv'
        BY <1>4 DEF Acquire, PackagesInv
    <2>4. OkHasKeyBinaries'
        BY <1>4 DEF Acquire, OkHasKeyBinaries, ControlInv
    <2>5. QED
        BY <1>0, <2>1, <2>2, <2>3, <2>4
<1>5. CASE IsBuilt
    <2>1. pc = "is_built" /\ UNCHANGED <<ver, pkgVer, rootfs, built, debloated, pk>>
        BY <1>5 DEF IsBuilt
    <2>2. CASE /\ UNCHANGED <<contents, cut, cmd, result>>
               /\ \/ RockyIsBuilt /\ pc' = "install"
                  \/ ~Stale /\ pc' = "7z"
        <3>1. TreeInv' /\ MarkerInv' /\ BloatRemovalSparesPackages'
            BY <2>1, <2>2, SameTrees
        <3>2. ControlInv'
            BY <2>1, <2>2, Numbers DEF ControlInv, TreeInv, RockyIsBuilt, Stale
        <3>3. PackagesInv' /\ OkHasKeyBinaries'
            BY <2>1, <2>2 DEF PackagesInv, ControlInv, OkHasKeyBinaries
        <3>4. QED
            BY <1>0, <3>1, <3>2, <3>3
    <2>3. CASE /\ Stale /\ contents' \in {NoTree} \cup RemainsOf(contents) /\ cut \subseteq cut'
               /\ \/ pc' = "rm_rootfs" /\ contents' = NoTree /\ UNCHANGED <<cmd, result>>
                  \/ pc' = "none" /\ cmd' = "none" /\ result' # "ok"
               /\ cut' \in {cut, cut \cup {"stale"}}
        <3>1. /\ "packages" \in contents'.has => "baseos" \in contents'.has
              /\ "baseos" \in contents'.has => HasBaseOS /\ contents'.ver = contents.ver
            BY <2>3, NoTreeIs, TreesRemain DEF TreeInv
        <3>2. ControlInv'
            BY <2>1, <2>3, NoTreeIs DEF ControlInv
        <3>3. TreeInv'
            BY <2>1, <2>3, <3>1, Numbers DEF TreeInv, Stale
        <3>4. PackagesInv'
            BY <2>1, <2>3 DEF PackagesInv
        <3>5. MarkerInv'
            BY <2>1, <2>3, <3>1 DEF MarkerInv
        <3>6. BloatRemovalSparesPackages' /\ OkHasKeyBinaries'
            BY <2>1, <2>3 DEF BloatRemovalSparesPackages, OkHasKeyBinaries, ControlInv
        <3>7. QED
            BY <1>0, <3>2, <3>3, <3>4, <3>5, <3>6
    <2>4. QED
        BY <1>5, <2>2, <2>3 DEF IsBuilt
<1>6. CASE RemoveStaleRootfs
    <2>1. /\ pc = "rm_rootfs" /\ UNCHANGED <<ver, pkgVer, contents, built, debloated, pk>>
          /\ \/ cut' \in {cut, cut \cup {"stale"}} /\ pk.installed = NoFile
             \/ cut' \in {cut \cup {"kept"}, cut \cup {"stale", "kept"}}
        BY <1>6 DEF RemoveStaleRootfs, Kept
    <2>2. \/ pc' = "rm_marker" /\ UNCHANGED <<cmd, result>> /\ rootfs' = NoTree
          \/ pc' = "none" /\ cmd' = "none" /\ result' # "ok" /\ rootfs' \in RemainsOf(rootfs)
        BY <1>6 DEF RemoveStaleRootfs
    <2>3. rootfs'.has \subseteq rootfs.has /\ (rootfs'.has # {} => rootfs'.ver = rootfs.ver)
          /\ (pc' = "rm_marker" => rootfs'.has = {})
          /\ (HasUsr => "usr" \in rootfs'.has \/ rootfs'.has = {})
        BY <2>2, NoTreeIs, TreesRemain
    <2>4. ControlInv'
        BY <2>1, <2>2, <2>3 DEF ControlInv
    <2>5. TreeInv'
        BY <2>1, <2>3 DEF TreeInv
    <2>6. PackagesInv'
        BY <2>1, <2>2, <2>3 DEF PackagesInv
    <2>7. MarkerInv'
        BY <2>1, <2>3 DEF ControlInv, MarkerInv
    <2>8. BloatRemovalSparesPackages'
        BY <2>1, <2>3 DEF BloatRemovalSparesPackages
    <2>9. OkHasKeyBinaries'
        BY <2>1, <2>2, <2>3 DEF ControlInv, OkHasKeyBinaries
    <2>10. QED
        BY <1>0, <2>4, <2>5, <2>6, <2>7, <2>8, <2>9
<1>7. CASE RemoveStaleMarker
    <2>1. /\ pc = "rm_marker" /\ pc' = "7z" /\ built' = NoFile
          /\ UNCHANGED <<ver, pkgVer, contents, rootfs, debloated, pk, cut, cmd, result>>
        BY <1>7 DEF RemoveStaleMarker
    <2>2. ~HasUsr
        BY <2>1 DEF ControlInv
    <2>3. ControlInv'
        BY <2>1, <2>2 DEF ControlInv
    <2>4. TreeInv'
        BY <2>1, <2>2, Numbers DEF TreeInv
    <2>5. PackagesInv'
        BY <2>1 DEF PackagesInv
    <2>6. MarkerInv'
        BY <2>1 DEF MarkerInv
    <2>7. BloatRemovalSparesPackages'
        BY <2>1 DEF BloatRemovalSparesPackages
    <2>8. OkHasKeyBinaries'
        BY <2>1 DEF ControlInv, OkHasKeyBinaries
    <2>9. QED
        BY <1>0, <2>3, <2>4, <2>5, <2>6, <2>7, <2>8
<1>8. CASE ExtractIso
    <2>1. pc = "7z" /\ UNCHANGED <<ver, pkgVer, rootfs, built, debloated, pk>>
        BY <1>8 DEF ExtractIso
    <2>2. CASE UNCHANGED <<contents, cut, cmd, result>> /\ HasBaseOS /\ pc' = "image"
        <3>1. TreeInv' /\ MarkerInv' /\ BloatRemovalSparesPackages'
            BY <2>1, <2>2, SameTrees
        <3>2. ControlInv' /\ PackagesInv' /\ OkHasKeyBinaries'
            BY <2>1, <2>2 DEF ControlInv, PackagesInv, OkHasKeyBinaries
        <3>3. QED
            BY <1>0, <3>1, <3>2
    <2>3. CASE /\ ~HasBaseOS /\ cut' \in {cut, cut \cup {"extraction"}}
               /\ "packages" \in contents'.has => "baseos" \in contents'.has
               /\ \/ pc' = "image" /\ "baseos" \in contents'.has /\ UNCHANGED <<cmd, result>>
                  \/ pc' = "none" /\ cmd' = "none" /\ result' # "ok"
        <3>1. CleanedWhole => ~HasUsr
            BY <2>1, <2>3 DEF ControlInv
        <3>2. ControlInv'
            BY <2>1, <2>3 DEF ControlInv
        <3>3. TreeInv'
            BY <2>1, <2>3, <3>1 DEF TreeInv
        <3>4. PackagesInv'
            BY <2>1, <2>3 DEF PackagesInv
        <3>5. MarkerInv'
            BY <2>1, <2>3, <3>1 DEF MarkerInv, PackagesInv
        <3>6. BloatRemovalSparesPackages' /\ OkHasKeyBinaries'
            BY <2>1, <2>3 DEF BloatRemovalSparesPackages, OkHasKeyBinaries, ControlInv
        <3>7. QED
            BY <1>0, <3>2, <3>3, <3>4, <3>5, <3>6
    <2>4. QED
        BY <1>8, <2>2, <2>3 DEF ExtractIso, PartOfIso, ContentParts
<1>9. CASE FindImage
    <2>1. TreeInv' /\ MarkerInv' /\ BloatRemovalSparesPackages'
        BY <1>9, SameTrees DEF FindImage
    <2>2. ControlInv'
        BY <1>9 DEF FindImage, ControlInv
    <2>3. PackagesInv'
        BY <1>9 DEF FindImage, PackagesInv
    <2>4. OkHasKeyBinaries'
        BY <1>9 DEF FindImage, OkHasKeyBinaries, ControlInv
    <2>5. QED
        BY <1>0, <2>1, <2>2, <2>3, <2>4
<1>10. CASE Unsquashfs
    <2>1. pc = "unsquashfs" /\ UNCHANGED <<ver, pkgVer, contents, built, debloated, pk>>
          /\ HasBaseOS
        BY <1>10 DEF Unsquashfs, ControlInv
    <2>2. CASE UNCHANGED <<rootfs, cut, cmd, result>> /\ HasUsr /\ pc' = "mark"
        <3>1. TreeInv' /\ MarkerInv' /\ BloatRemovalSparesPackages'
            BY <2>1, <2>2, SameTrees
        <3>2. ControlInv' /\ PackagesInv' /\ OkHasKeyBinaries'
            BY <2>1, <2>2 DEF ControlInv, PackagesInv, OkHasKeyBinaries
        <3>3. QED
            BY <1>0, <3>1, <3>2
    <2>3. CASE /\ ~HasUsr /\ cut' \in {cut, cut \cup {"extraction"}}
               /\ rootfs'.ver = contents.ver /\ rootfs'.has \subseteq Extracted
               /\ \/ pc' = "chmod" /\ "usr" \in rootfs'.has /\ UNCHANGED <<cmd, result>>
                  \/ pc' = "none" /\ cmd' = "none" /\ result' # "ok"
        <3>1. "critical" \notin rootfs'.has
            BY <2>3 DEF Extracted, BaseParts
        <3>2. ControlInv'
            BY <2>1, <2>3 DEF ControlInv
        <3>3. TreeInv'
            BY <2>1, <2>3 DEF TreeInv
        <3>4. PackagesInv'
            BY <3>1 DEF PackagesInv
        <3>5. MarkerInv'
            BY <2>1, <2>3, <3>1 DEF MarkerInv, PackagesInv
        <3>6. BloatRemovalSparesPackages' /\ OkHasKeyBinaries'
            BY <2>1, <2>3 DEF BloatRemovalSparesPackages, OkHasKeyBinaries, ControlInv
        <3>7. QED
            BY <1>0, <3>2, <3>3, <3>4, <3>5, <3>6
    <2>4. ASSUME ~HasUsr, NEW S \in {BaseParts} \cup PartOfSquashfs,
                 rootfs' = [ver |-> contents.ver, has |-> S]
          PROVE  /\ rootfs'.ver = contents.ver /\ rootfs'.has \subseteq Extracted
                 /\ (S = BaseParts => "usr" \in rootfs'.has)
        BY <2>4 DEF PartOfSquashfs, BaseParts, Extracted
    <2>5. QED
        BY <1>10, <2>2, <2>3, <2>4 DEF Unsquashfs
<1>11. CASE Chmod
    <2>1. /\ pc = "chmod" /\ UNCHANGED <<ver, pkgVer, contents, built, debloated, pk>>
          /\ cut' \in {cut, cut \cup {"extraction"}}
          /\ \/ pc' = "mark" /\ UNCHANGED <<cmd, result>>
             \/ pc' = "none" /\ cmd' = "none" /\ result' # "ok"
        BY <1>11 DEF Chmod
    <2>2. rootfs'.ver = rootfs.ver /\ rootfs'.has \in {rootfs.has, rootfs.has \cup {"writable"}}
        BY <1>11 DEF Chmod, TypeOK
    <2>3. ControlInv'
        BY <2>1, <2>2 DEF ControlInv
    <2>4. TreeInv'
        BY <2>1, <2>2 DEF TreeInv
    <2>5. PackagesInv'
        BY <2>1, <2>2 DEF PackagesInv
    <2>6. MarkerInv'
        BY <2>1, <2>2 DEF MarkerInv
    <2>7. BloatRemovalSparesPackages'
        BY <2>1, <2>2 DEF BloatRemovalSparesPackages, Extracted
    <2>8. OkHasKeyBinaries'
        BY <2>1, <2>2 DEF ControlInv, OkHasKeyBinaries
    <2>9. QED
        BY <1>0, <2>3, <2>4, <2>5, <2>6, <2>7, <2>8
<1>12. CASE WriteBuiltVersion
    <2>1. /\ pc = "mark" /\ pc' = "install" /\ built' = ver
          /\ UNCHANGED <<ver, pkgVer, contents, rootfs, debloated, pk, cut, cmd, result>>
        BY <1>12 DEF WriteBuiltVersion
    <2>2. HasUsr /\ HasBaseOS
        BY <2>1 DEF ControlInv
    <2>3. ControlInv'
        BY <2>1, <2>2 DEF ControlInv
    <2>4. TreeInv'
        BY <2>1, <2>2, Numbers DEF TreeInv
    <2>5. PackagesInv'
        BY <2>1 DEF PackagesInv
    <2>6. MarkerInv'
        BY <2>1 DEF MarkerInv
    <2>7. BloatRemovalSparesPackages'
        BY <2>1 DEF BloatRemovalSparesPackages
    <2>8. OkHasKeyBinaries'
        BY <2>1 DEF ControlInv, OkHasKeyBinaries
    <2>9. QED
        BY <1>0, <2>3, <2>4, <2>5, <2>6, <2>7, <2>8
<1>13. CASE RockyInstall
    <2>1. TreeInv' /\ MarkerInv' /\ BloatRemovalSparesPackages'
        BY <1>13, SameTrees DEF RockyInstall
    <2>2. ControlInv'
        BY <1>13 DEF RockyInstall, ControlInv
    <2>3. PackagesInv'
        BY <1>13 DEF RockyInstall, PackagesInv
    <2>4. OkHasKeyBinaries'
        BY <1>13 DEF RockyInstall, OkHasKeyBinaries, ControlInv
    <2>5. QED
        BY <1>0, <2>1, <2>2, <2>3, <2>4
<1>14. CASE Debloat
    <2>1. /\ pc = "debloat" /\ UNCHANGED <<ver, pkgVer, built, pk, cut>>
          /\ \/ pc' = "paths" /\ debloated' = TRUE /\ UNCHANGED <<cmd, result>>
             \/ pc' = "none" /\ cmd' = "none" /\ result' # "ok" /\ UNCHANGED debloated
        BY <1>14 DEF Debloat
    <2>2. contents'.ver = contents.ver
          /\ contents'.has \in {contents.has, contents.has \ Installer}
        BY <1>14 DEF Debloat, TypeOK
    <2>3. rootfs'.ver = rootfs.ver /\ rootfs'.has \in {rootfs.has, rootfs.has \ {"bloat", "man"}}
        BY <1>14 DEF Debloat, TypeOK
    <2>4. /\ "baseos" \in contents'.has <=> HasBaseOS
          /\ "packages" \in contents'.has <=> HasPackages
          /\ "usr" \in rootfs'.has <=> HasUsr
          /\ "critical" \in rootfs'.has <=> "critical" \in rootfs.has
        BY <2>2, <2>3 DEF Installer
    <2>5. pk.installed # NoFile /\ Verified(pk.installed) \subseteq rootfs.has =>
            Verified(pk.installed) \subseteq rootfs'.has
        BY <1>0, <2>3, PackageLists, Numbers
    <2>6. ControlInv'
        BY <2>1, <2>4 DEF ControlInv
    <2>7. TreeInv'
        BY <2>1, <2>2, <2>3, <2>4 DEF TreeInv
    <2>8. PackagesInv'
        BY <2>1, <2>4 DEF PackagesInv
    <2>9. MarkerInv'
        BY <2>1, <2>4, <2>5 DEF MarkerInv
    <2>10. BloatRemovalSparesPackages'
        BY <2>1, <2>3, <2>4 DEF BloatRemovalSparesPackages
    <2>11. OkHasKeyBinaries'
        BY <2>1 DEF ControlInv, OkHasKeyBinaries
    <2>12. QED
        BY <1>0, <2>6, <2>7, <2>8, <2>9, <2>10, <2>11
<1>15. CASE RockyPathsExist
    <2>1. TreeInv' /\ MarkerInv' /\ BloatRemovalSparesPackages'
        BY <1>15, SameTrees DEF RockyPathsExist
    <2>2. ControlInv'
        BY <1>15 DEF RockyPathsExist, ControlInv
    <2>3. PackagesInv'
        BY <1>15 DEF RockyPathsExist, PackagesInv
    <2>4. OkHasKeyBinaries'
        BY <1>15 DEF RockyPathsExist, OkHasKeyBinaries, ControlInv
    <2>5. QED
        BY <1>0, <2>1, <2>2, <2>3, <2>4
<1>16. CASE ExtractRockyIso
    <2>1. TreeInv' /\ MarkerInv' /\ BloatRemovalSparesPackages'
        BY <1>16, SameTrees DEF ExtractRockyIso
    <2>2. ControlInv'
        BY <1>16 DEF ExtractRockyIso, ControlInv
    <2>3. PackagesInv'
        BY <1>16 DEF ExtractRockyIso, PackagesInv
    <2>4. OkHasKeyBinaries'
        BY <1>16 DEF ExtractRockyIso, OkHasKeyBinaries, ControlInv
    <2>5. QED
        BY <1>0, <2>1, <2>2, <2>3, <2>4
<1>17. CASE PackagesStarts
    <2>1. TreeInv' /\ MarkerInv' /\ BloatRemovalSparesPackages'
        BY <1>17, SameTrees DEF PackagesStarts
    <2>2. pc = "packages" /\ UNCHANGED <<pkgVer, rootfs, contents, debloated, cut>>
        BY <1>17 DEF PackagesStarts
    <2>3. CASE pc' = "none" /\ cmd' = "none" /\ result' = "err"
        <3>1. ControlInv' /\ PackagesInv' /\ OkHasKeyBinaries'
            BY <2>2, <2>3 DEF ControlInv, PackagesInv, OkHasKeyBinaries
        <3>2. QED
            BY <1>0, <2>1, <3>1
    <2>4. CASE /\ pc' \in {"epel", "pk_install", "pk_build"} /\ UNCHANGED <<cmd, result>>
               /\ HasUsr /\ HasPackages /\ (pc' = "epel" => PackagesInstalled)
        <3>1. pc' = "epel" /\ CleanedWhole /\ NotBoth => Verified(pkgVer) \subseteq rootfs.has
            BY <1>0, <2>4, Numbers DEF MarkerInv, TreeInv, PackagesInstalled, PkgVersion
        <3>2. ControlInv'
            BY <2>2, <2>4, <3>1 DEF ControlInv
        <3>3. PackagesInv' /\ OkHasKeyBinaries'
            BY <2>2, <2>4 DEF ControlInv, PackagesInv, OkHasKeyBinaries
        <3>4. QED
            BY <1>0, <2>1, <3>2, <3>3
    <2>5. QED
        BY <1>17, <2>3, <2>4 DEF PackagesStarts
<1>18. CASE PackagesBuild
    <2>1. /\ pc = "pk_build" /\ UNCHANGED <<ver, pkgVer, contents, built, debloated>>
          /\ \/ pc' = "pk_save" /\ UNCHANGED <<cmd, result>>
             \/ pc' = "none" /\ cmd' = "none" /\ result' # "ok"
        BY <1>18 DEF PackagesBuild
    <2>2. HasUsr /\ HasPackages /\ HasBaseOS /\ (debloated \/ "skipped" \in cut)
        BY <2>1 DEF ControlInv, TreeInv
    <2>3. PICK S \in SUBSET (PackageList(pkgVer) \ pk.manifest) : Merged(S)
        BY <1>18 DEF PackagesBuild
    <2>4. rootfs'.ver = rootfs.ver /\ rootfs'.has = rootfs.has \cup S
        BY <2>3 DEF Merged, TypeOK
    <2>5. pk' = pk \/ (pk'.installed = NoFile /\ pk'.manifest = {})
        BY <1>18 DEF PackagesBuild, PkCleanup, PkCleanedUp, TypeOK
    <2>6. \/ cut' = cut /\ PackageList(pkgVer) \ pk.manifest \subseteq rootfs'.has
          \/ cut' = cut \cup {"packages"}
        BY <1>18 DEF PackagesBuild
    <2>7. ControlInv'
        BY <2>1, <2>2, <2>4, <2>6 DEF ControlInv
    <2>8. TreeInv'
        BY <2>1, <2>2, <2>4, <2>6 DEF TreeInv
    <2>9. PackagesInv'
        BY <2>1, <2>2, <2>4 DEF PackagesInv
    <2>10. MarkerInv'
        <3>1. CASE pk'.installed = NoFile /\ pk'.manifest = {}
            BY <2>1, <3>1, Numbers DEF MarkerInv
        <3>2. CASE UNCHANGED pk /\ "critical" \in rootfs.has
            BY <2>1, <2>2, <2>4, <2>6, <3>2 DEF MarkerInv
        <3>3. CASE UNCHANGED pk /\ "critical" \notin rootfs.has
            <4>1. "critical" \in rootfs'.has => pk.manifest = {}
                BY <2>4, <3>3 DEF MarkerInv
            <4>2. CleanedWhole /\ pk.installed # NoFile => "kept" \in cut
                BY <3>3 DEF MarkerInv
            <4>3. ASSUME CleanedWhole', NotBoth', pk.installed # NoFile, "critical" \in rootfs'.has
                  PROVE  Verified(pk.installed) \subseteq rootfs'.has
                <5>1. CleanedWhole /\ "packages" \notin cut'
                    BY <2>6, <4>2, <4>3
                <5>2. PackageList(pkgVer) \subseteq rootfs'.has
                    BY <2>6, <4>1, <4>3, <5>1
                <5>3. QED
                    BY <4>3, <5>2, PackageLists, Numbers DEF MarkerInv
            <4>4. QED
                BY <2>1, <2>6, <3>3, <4>2, <4>3 DEF MarkerInv
        <3>4. QED
            BY <2>5, <3>1, <3>2, <3>3
    <2>11. BloatRemovalSparesPackages'
        BY <2>1, <2>2, <2>6 DEF BloatRemovalSparesPackages
    <2>12. OkHasKeyBinaries'
        BY <2>1 DEF ControlInv, OkHasKeyBinaries
    <2>13. QED
        BY <1>0, <2>7, <2>8, <2>9, <2>10, <2>11, <2>12
<1>19. CASE SaveManifest
    <2>1. /\ pc = "pk_save" /\ pc' = "pk_version"
          /\ UNCHANGED <<ver, pkgVer, contents, rootfs, built, debloated, cut, cmd, result>>
        BY <1>19 DEF SaveManifest
    <2>2. pk'.installed = pk.installed /\ pk'.manifest = pk.manifest \cup PackageList(pkgVer)
        BY <1>19 DEF SaveManifest, TypeOK
    <2>3. "critical" \in pk'.manifest
        BY <2>2, PackageLists, Numbers
    <2>4. ControlInv'
        BY <2>1 DEF ControlInv
    <2>5. TreeInv'
        BY <2>1 DEF TreeInv
    <2>6. PackagesInv'
        BY <2>1 DEF PackagesInv
    <2>7. MarkerInv'
        BY <2>1, <2>2, <2>3 DEF MarkerInv
    <2>8. BloatRemovalSparesPackages'
        BY <2>1 DEF BloatRemovalSparesPackages
    <2>9. OkHasKeyBinaries'
        BY <2>1 DEF ControlInv, OkHasKeyBinaries
    <2>10. QED
        BY <1>0, <2>4, <2>5, <2>6, <2>7, <2>8, <2>9
<1>20. CASE WritePackagesVersion
    <2>1. /\ pc = "pk_version" /\ pc' = "pk_install"
          /\ UNCHANGED <<ver, pkgVer, contents, rootfs, built, debloated, cut, cmd, result>>
        BY <1>20 DEF WritePackagesVersion
    <2>2. pk'.installed = pk.installed /\ pk'.manifest = pk.manifest
        BY <1>20 DEF WritePackagesVersion, TypeOK
    <2>3. ControlInv'
        BY <2>1 DEF ControlInv
    <2>4. TreeInv'
        BY <2>1 DEF TreeInv
    <2>5. PackagesInv'
        BY <2>1 DEF PackagesInv
    <2>6. MarkerInv'
        BY <2>1, <2>2 DEF MarkerInv
    <2>7. BloatRemovalSparesPackages'
        BY <2>1 DEF BloatRemovalSparesPackages
    <2>8. OkHasKeyBinaries'
        BY <2>1 DEF ControlInv, OkHasKeyBinaries
    <2>9. QED
        BY <1>0, <2>3, <2>4, <2>5, <2>6, <2>7, <2>8
<1>21. CASE PackagesInstall
    <2>1. pc = "pk_install" /\ UNCHANGED <<ver, pkgVer, contents, rootfs, built, debloated, cut>>
        BY <1>21 DEF PackagesInstall
    <2>2. \/ /\ Verified(pkgVer) \subseteq rootfs.has /\ pc' = "pk_cleanup"
             /\ UNCHANGED <<cmd, result>>
             /\ pk'.installed = pkgVer /\ pk'.manifest = pk.manifest
          \/ /\ pc' = "none" /\ cmd' = "none" /\ result' # "ok"
             /\ pk'.installed \in {pk.installed, NoFile} /\ pk'.manifest \in {pk.manifest, {}}
        BY <1>21 DEF PackagesInstall, PkCleanup, PkCleanedUp, TypeOK
    <2>3. "critical" \in Verified(pkgVer)
        BY PackageLists, Numbers
    <2>4. ControlInv'
        BY <2>1, <2>2 DEF ControlInv
    <2>5. TreeInv'
        BY <2>1 DEF TreeInv
    <2>6. PackagesInv'
        BY <2>1, <2>2 DEF PackagesInv
    <2>7. MarkerInv'
        BY <2>1, <2>2, <2>3, Numbers DEF MarkerInv
    <2>8. BloatRemovalSparesPackages'
        BY <2>1 DEF BloatRemovalSparesPackages
    <2>9. OkHasKeyBinaries'
        BY <2>1, <2>2 DEF ControlInv, OkHasKeyBinaries
    <2>10. QED
        BY <1>0, <2>4, <2>5, <2>6, <2>7, <2>8, <2>9
<1>22. CASE PackagesCleanup
    <2>1. /\ pc = "pk_cleanup"
          /\ UNCHANGED <<ver, pkgVer, contents, rootfs, built, debloated, cut>>
          /\ \/ pc' = "epel" /\ UNCHANGED <<cmd, result>>
             \/ pc' = "none" /\ cmd' = "none" /\ result' # "ok"
        BY <1>22 DEF PackagesCleanup, PkCleanupStops
    <2>2. pk'.installed \in {pk.installed, NoFile} /\ pk'.manifest \in {pk.manifest, {}}
        BY <1>22 DEF PackagesCleanup, PkCleanup, PkCleanupStops, PkCleanedUp, TypeOK
    <2>3. ControlInv'
        BY <2>1 DEF ControlInv
    <2>4. TreeInv'
        BY <2>1 DEF TreeInv
    <2>5. PackagesInv'
        BY <2>1 DEF PackagesInv
    <2>6. MarkerInv'
        BY <2>1, <2>2, Numbers DEF MarkerInv
    <2>7. BloatRemovalSparesPackages'
        BY <2>1 DEF BloatRemovalSparesPackages
    <2>8. OkHasKeyBinaries'
        BY <2>1 DEF ControlInv, OkHasKeyBinaries
    <2>9. QED
        BY <1>0, <2>3, <2>4, <2>5, <2>6, <2>7, <2>8
<1>23. CASE EpelStarts
    <2>1. TreeInv' /\ MarkerInv' /\ BloatRemovalSparesPackages'
        BY <1>23, SameTrees DEF EpelStarts
    <2>2. ControlInv'
        BY <1>23 DEF EpelStarts, ControlInv
    <2>3. PackagesInv'
        BY <1>23 DEF EpelStarts, PackagesInv
    <2>4. OkHasKeyBinaries'
        BY <1>23 DEF EpelStarts, OkHasKeyBinaries, ControlInv
    <2>5. QED
        BY <1>0, <2>1, <2>2, <2>3, <2>4
<1>24. CASE EpelDownload
    <2>1. TreeInv' /\ MarkerInv' /\ BloatRemovalSparesPackages'
        BY <1>24, SameTrees DEF EpelDownload
    <2>2. ControlInv'
        BY <1>24 DEF EpelDownload, ControlInv
    <2>3. PackagesInv'
        BY <1>24 DEF EpelDownload, PackagesInv
    <2>4. OkHasKeyBinaries'
        BY <1>24 DEF EpelDownload, OkHasKeyBinaries, ControlInv
    <2>5. QED
        BY <1>0, <2>1, <2>2, <2>3, <2>4
<1>25. CASE EpelExtract
    <2>1. /\ pc = "ep_extract" /\ pc' = "ep_install"
          /\ UNCHANGED <<ver, pkgVer, contents, built, debloated, pk, cut, cmd, result>>
        BY <1>25 DEF EpelExtract
    <2>2. rootfs'.ver = rootfs.ver /\ rootfs'.has \in {rootfs.has, rootfs.has \cup {"epel"}}
        BY <1>25 DEF EpelExtract, Merged, TypeOK
    <2>3. debloated \/ "skipped" \in cut
        BY <2>1 DEF ControlInv
    <2>4. ControlInv'
        BY <2>1, <2>2 DEF ControlInv
    <2>5. TreeInv'
        BY <2>1, <2>2 DEF TreeInv
    <2>6. PackagesInv'
        BY <2>1, <2>2 DEF PackagesInv
    <2>7. MarkerInv'
        BY <2>1, <2>2 DEF MarkerInv
    <2>8. BloatRemovalSparesPackages'
        BY <2>1, <2>3 DEF BloatRemovalSparesPackages
    <2>9. OkHasKeyBinaries'
        BY <2>1 DEF ControlInv, OkHasKeyBinaries
    <2>10. QED
        BY <1>0, <2>4, <2>5, <2>6, <2>7, <2>8, <2>9
<1>26. CASE EpelInstall
    <2>1. TreeInv' /\ MarkerInv' /\ BloatRemovalSparesPackages'
        BY <1>26, SameTrees DEF EpelInstall
    <2>2. ControlInv'
        BY <1>26 DEF EpelInstall, ControlInv
    <2>3. PackagesInv'
        BY <1>26 DEF EpelInstall, PackagesInv
    <2>4. OkHasKeyBinaries'
        BY <1>26 DEF EpelInstall, OkHasKeyBinaries, ControlInv
    <2>5. QED
        BY <1>0, <2>1, <2>2, <2>3, <2>4
<1>27. CASE EpelCleanup
    <2>1. TreeInv' /\ MarkerInv' /\ BloatRemovalSparesPackages'
        BY <1>27, SameTrees DEF EpelCleanup
    <2>2. ControlInv'
        BY <1>27 DEF EpelCleanup, ControlInv
    <2>3. PackagesInv'
        BY <1>27 DEF EpelCleanup, PackagesInv
    <2>4. OkHasKeyBinaries'
        BY <1>27 DEF EpelCleanup, OkHasKeyBinaries, ControlInv
    <2>5. QED
        BY <1>0, <2>1, <2>2, <2>3, <2>4
<1>28. CASE RaiseVersion
    <2>1. /\ cmd = "none" /\ result' = "none"
          /\ UNCHANGED <<contents, rootfs, built, debloated, pk, cut, cmd, pc>>
          /\ ver' \in {ver, ver + 1} /\ pkgVer' \in {pkgVer, pkgVer + 1}
        BY <1>28 DEF RaiseVersion
    <2>2. ver <= ver' /\ pkgVer <= pkgVer'
        BY <2>1, Numbers
    <2>3. ControlInv'
        BY <2>1 DEF ControlInv
    <2>4. TreeInv'
        BY <2>1, <2>2, Numbers DEF TreeInv
    <2>5. PackagesInv'
        BY <2>1 DEF PackagesInv
    <2>6. MarkerInv'
        BY <2>1, <2>2, Numbers DEF MarkerInv
    <2>7. BloatRemovalSparesPackages'
        BY <2>1 DEF BloatRemovalSparesPackages
    <2>8. OkHasKeyBinaries'
        BY <2>1 DEF OkHasKeyBinaries
    <2>9. QED
        BY <1>0, <2>3, <2>4, <2>5, <2>6, <2>7, <2>8
<1>29. CASE RockyCleanup
    <2>1. /\ pc = "none" /\ result' = "none" /\ UNCHANGED <<ver, pkgVer, cmd, pc, pk>>
          /\ cut \subseteq cut'
        BY <1>29 DEF RockyCleanup, Cleaning, ControlInv
    <2>2. \/ rootfs' = NoTree
          \/ /\ rootfs' = rootfs \/ rootfs' \in RemainsOf(rootfs)
             /\ "cleanup" \in cut' /\ UNCHANGED debloated
        BY <1>29 DEF RockyCleanup
    <2>3. contents' = NoTree \/ contents' \in RemainsOf(contents)
        BY <1>29 DEF RockyCleanup
    <2>4. built' \in {built, NoFile}
          /\ ("cleanup" \in cut' \/ pk.installed = NoFile \/ "kept" \in cut')
        BY <1>29 DEF RockyCleanup, Kept
    <2>5. /\ \/ rootfs'.has = {}
             \/ rootfs'.has \subseteq rootfs.has /\ "cleanup" \in cut' /\ UNCHANGED debloated
          /\ HasUsr => "usr" \in rootfs'.has \/ rootfs'.has = {}
          /\ "packages" \in contents'.has => "baseos" \in contents'.has
        <3>1. \/ rootfs'.has = {}
              \/ rootfs'.has \subseteq rootfs.has /\ "cleanup" \in cut' /\ UNCHANGED debloated
            BY <2>2, NoTreeIs, TreesRemain
        <3>2. HasUsr => "usr" \in rootfs'.has \/ rootfs'.has = {}
            BY <2>2, NoTreeIs, TreesRemain
        <3>3. "packages" \in contents'.has => "baseos" \in contents'.has
            BY <2>3, NoTreeIs, TreesRemain DEF TreeInv
        <3>4. QED
            BY <3>1, <3>2, <3>3
    <2>6. ControlInv' /\ OkHasKeyBinaries'
        BY <2>1 DEF ControlInv, OkHasKeyBinaries
    <2>7. TreeInv' /\ PackagesInv'
        BY <2>1, <2>4, <2>5, Numbers DEF TreeInv, PackagesInv
    <2>8. MarkerInv'
        BY <2>1, <2>4, <2>5, Numbers DEF MarkerInv
    <2>9. BloatRemovalSparesPackages'
        BY <2>1, <2>5 DEF BloatRemovalSparesPackages
    <2>10. QED
        BY <1>0, <2>6, <2>7, <2>8, <2>9
<1>30. CASE CleanupStateFiles
    <2>1. /\ cmd = "none" /\ result' = "none"
          /\ UNCHANGED <<ver, pkgVer, cmd, pc, contents, rootfs, built, debloated, cut>>
        BY <1>30 DEF CleanupStateFiles, Cleaning
    <2>2. pk'.installed \in {pk.installed, NoFile} /\ pk'.manifest \in {pk.manifest, {}}
        BY <1>30 DEF CleanupStateFiles, PkCleanedUp, TypeOK
    <2>3. ControlInv'
        BY <2>1 DEF ControlInv
    <2>4. TreeInv'
        BY <2>1 DEF TreeInv
    <2>5. PackagesInv'
        BY <2>1 DEF PackagesInv
    <2>6. MarkerInv'
        BY <2>1, <2>2, Numbers DEF MarkerInv
    <2>7. BloatRemovalSparesPackages'
        BY <2>1 DEF BloatRemovalSparesPackages
    <2>8. OkHasKeyBinaries'
        BY <2>1 DEF OkHasKeyBinaries
    <2>9. QED
        BY <1>0, <2>3, <2>4, <2>5, <2>6, <2>7, <2>8
<1>31. CASE CleanDownloads
    <2>1. pc = "none" /\ result' = "none" /\ UNCHANGED <<ver, pkgVer, cmd, pc>>
        BY <1>31 DEF CleanDownloads, Cleaning, ControlInv
    <2>2. ControlInv' /\ OkHasKeyBinaries'
        BY <2>1 DEF ControlInv, OkHasKeyBinaries
    <2>3. contents' \in {contents, NoTree} /\ built' \in {built, NoFile}
          /\ pk' \in {pk, PkCleanedUp}
        BY <1>31 DEF CleanDownloads
    <2>4. pk'.installed \in {pk.installed, NoFile} /\ pk'.manifest \in {pk.manifest, {}}
        BY <2>3 DEF PkCleanedUp, TypeOK
    <2>5. "downloads" \in cut' \/ (rootfs' = NoTree /\ pk' = PkCleanedUp)
        BY <1>31 DEF CleanDownloads
    <2>6. /\ "downloads" \in cut' \/ (rootfs'.has = {} /\ pk'.installed = NoFile)
          /\ rootfs'.has \in {rootfs.has, {}}
        BY <1>31, <2>5, NoTreeIs DEF CleanDownloads, PkCleanedUp, TypeOK
    <2>7. TreeInv' /\ PackagesInv'
        BY <2>1, <2>3, <2>6, NoTreeIs, Numbers DEF TreeInv, PackagesInv
    <2>8. MarkerInv'
        BY <2>1, <2>4, <2>6, Numbers DEF MarkerInv
    <2>9. BloatRemovalSparesPackages'
        BY <2>6 DEF BloatRemovalSparesPackages
    <2>10. QED
        BY <1>0, <2>2, <2>7, <2>8, <2>9
<1>32. CASE Kill
    <2>1. TreeInv' /\ MarkerInv' /\ BloatRemovalSparesPackages'
        BY <1>32, SameTrees DEF Kill
    <2>2. ControlInv'
        BY <1>32 DEF Kill, ControlInv
    <2>3. PackagesInv'
        BY <1>32 DEF Kill, PackagesInv
    <2>4. OkHasKeyBinaries'
        BY <1>32 DEF Kill, OkHasKeyBinaries, ControlInv
    <2>5. QED
        BY <1>0, <2>1, <2>2, <2>3, <2>4
<1>33. CASE Rest
    <2>1. TreeInv' /\ MarkerInv' /\ BloatRemovalSparesPackages'
        BY <1>33, SameTrees DEF Rest
    <2>2. ControlInv'
        BY <1>33 DEF Rest, ControlInv
    <2>3. PackagesInv'
        BY <1>33 DEF Rest, PackagesInv
    <2>4. OkHasKeyBinaries'
        BY <1>33 DEF Rest, OkHasKeyBinaries, ControlInv
    <2>5. QED
        BY <1>0, <2>1, <2>2, <2>3, <2>4
<1>34. CASE UNCHANGED vars
    BY <1>0, <1>34, SameTrees DEF ControlInv, PackagesInv, OkHasKeyBinaries
<1> HIDE DEF IInv
<1>35. QED
    BY <1>1, <1>2, <1>3, <1>4, <1>5, <1>6, <1>7, <1>8, <1>9, <1>10, <1>11, <1>12, <1>13, <1>14,
       <1>15, <1>16, <1>17, <1>18, <1>19, <1>20, <1>21, <1>22, <1>23, <1>24, <1>25, <1>26,
       <1>27, <1>28, <1>29, <1>30, <1>31, <1>32, <1>33, <1>34 DEF Next

(* The invariant holds in every state that the recipes can reach.          *)
LEMMA IInvHolds == Spec => []IInv
<1>1. Init => IInv
    BY InitIInv
<1>2. IInv /\ [Next]_vars => IInv'
    BY NextIInv
<1>3. QED
    BY <1>1, <1>2, PTL DEF Spec

(* The trees, the marker files and the command that runs stay within their *)
(* types.                                                                  *)
THEOREM TypeCorrect == Spec => []TypeOK
<1>1. IInv => TypeOK
    BY DEF IInv
<1>2. QED
    BY <1>1, IInvHolds, PTL

(* install of rocky.rhai never removes bloat from a rootfs with packages,  *)
(* unless a clean of all downloads was cut off or a build has gone past    *)
(* rocky.rhai while .rocky-installed was missing.                          *)
THEOREM PackagesSurvive == Spec => []BloatRemovalSparesPackages
<1>1. IInv => BloatRemovalSparesPackages
    BY DEF IInv
<1>2. QED
    BY <1>1, IInvHolds, PTL

(* When the three recipes end well, every binary that the package list     *)
(* must provide is in the rootfs, up to the mishaps the property names.    *)
THEOREM OkBuildHasBinaries == Spec => []OkHasKeyBinaries
<1>1. IInv => OkHasKeyBinaries
    BY DEF IInv
<1>2. QED
    BY <1>1, IInvHolds, PTL

(* packages.rhai merges RPMs of the release that the rootfs is of, unless  *)
(* a cleanup or clean was cut off.                                         *)
THEOREM OneRelease == Spec => []TreesOfOneRelease
<1>1. IInv => TreesOfOneRelease
    BY DEF IInv, ControlInv, TreeInv, BuildOn, TreesOfOneRelease
<1>2. QED
    BY <1>1, IInvHolds, PTL

(* When rocky.rhai has ended, rocky() and extract_rocky_iso find both of   *)
(* the trees.                                                              *)
THEOREM TreesAreThere == Spec => []RockyLeavesTrees
<1>1. IInv => RockyLeavesTrees
    BY DEF IInv, ControlInv, RockyLeavesTrees
<1>2. QED
    BY <1>1, IInvHolds, PTL
=============================================================================
