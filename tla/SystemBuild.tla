---------------------------- MODULE SystemBuild -----------------------------
(***************************************************************************)
(* component::build_system (src/component/builder.rs) and verify_staging   *)
(* (src/artifact/rootfs.rs): the components and services of                *)
(* definitions.rs, the operations they are made of, and the executor that  *)
(* carries them out one by one on the staging tree.                        *)
(*                                                                         *)
(* An operation is <<what it does, an item>>.  An item is a path, or the   *)
(* list of paths that one operation installs: it is there when all of them *)
(* are.  Of several operations of a component that are alike and work on   *)
(* unrelated paths, one stands for all.  An item of the staging tree is    *)
(* absent ("none"), cut short by a copy that was interrupted ("partial"),  *)
(* a copy of what the source rootfs has ("source"), a symlink of the       *)
(* source without its target ("dangling"), or made by the build ("own").   *)
(***************************************************************************)
EXTENDS Naturals, SequencesExt

CONSTANTS
    MaxMissing,         \* bound on the items that the source rootfs lacks
    MaxRuns             \* bound on the number of builds

ASSUME BoundsAssumption == MaxMissing \in Nat /\ MaxRuns \in Nat

VARIABLES
    missing,            \* items that the source rootfs and the monorepo lack
    staging,            \* item -> what the staging tree has of it
    passwd, group,      \* account -> where its entry in etc/passwd, etc/group is from
    ip,                 \* the next operation, 0 if no build runs
    result,             \* how the last build ended
    dirty,              \* was the tree of an earlier build not removed?
    runs                \* number of builds started

vars == <<missing, staging, passwd, group, ip, result, dirty, runs>>

Each(do, items) == [i \in 1..Len(items) |-> <<do, items[i]>>]
-----------------------------------------------------------------------------
(* The kinds of operation: those of the executor; "built" and "recursive", *)
(* the copies of the custom operations (by fs::copy, or by leviso_elf and  *)
(* then external), "write" for whatever the build makes itself, "link" for *)
(* what it makes if nothing is there, and "write_in" and "through" where   *)
(* it writes into a directory it does not create or by way of the lib      *)
(* symlink.  Keeps: what is in the tree already stays as it is.            *)
Copies == {"bins", "bash", "systemd_bins", "sudo_libs", "copyfile", "copytree", "units",
           "user_units", "built", "recursive", "present"}
Keeps == {"bins", "copyfile", "copytree", "units", "recursive"}

(* The custom operations, each as the operations it amounts to.            *)
SetupLiveSystemdConfigs == <<<<"write", "etc/systemd/journald.conf.d">>>>
CopyWifiFirmware == <<<<"through", "lib">>, <<"recursive", "usr/lib/firmware">>>>
\* A faulty create_pam_files that leaves a file alone that is there.
CreatePamFilesIfMissing == <<<<"write", "etc/pam.d">>, <<"link", "etc/pam.d/sshd">>>>
CreatePamFiles == <<<<"write", "etc/pam.d">>, <<"write", "etc/pam.d/sshd">>>>
CreateSecurityConfig == <<<<"write", "etc/security">>>>
CopyModules == <<<<"through", "lib">>, <<"modules", "lib/modules">>>>
CreateSystemFiles == <<<<"write", "etc/files">>, <<"write", "etc/profile.d">>>>
CreateTmpfilesConfigs == <<<<"write_in", "usr/lib/tmpfiles.d">>>>
CopyLdSoConf == <<<<"present", "etc/ld.so.conf.d">>>>
CreateEtcFiles ==
    <<<<"static_accounts", "etc/passwd">>>>
    \o CreateSystemFiles \o CreateTmpfilesConfigs \o CopyLdSoConf
CopyTimezoneData == <<<<"present", "usr/share/zoneinfo">>>>
CopyLocales == <<<<"present", "usr/lib/locale/locale-archive">>>>
DisableSelinux == <<<<"write", "etc/selinux/config">>>>
CreateSshHostKeys == <<<<"host_keys", "etc/ssh/host_key">>>>
CopyRecipe == <<<<"built", "recipe">>>>
SetupRecipeConfig == <<<<"write", "etc/recipe">>, <<"write_in", "etc/profile.d">>>>
CopySystemdBootEfi == <<<<"recursive", "systemd-boot-unsigned">>>>
CopyAllFirmware == <<<<"recursive", "usr/lib/firmware">>, <<"recursive", "amd-ucode">>,
                     <<"recursive", "intel-ucode">>>>
CopyKeymaps == <<<<"recursive", "usr/lib/kbd/keymaps">>>>
CreateWelcomeMessage == <<<<"write", "etc/motd">>>>
InstallTools == <<<<"built", "LEVITATE_CARGO_TOOLS">>>>
InstallStageTests == <<<<"built", "stage-tests">>>>
CopyDocsTui == <<<<"built", "levitate-docs">>>>

(* Service::ops: the order in which a service's fields become operations.  *)
EmptyService ==
    [dirs |-> <<>>, bins |-> <<>>, config_trees |-> <<>>, config_files |-> <<>>,
     symlinks |-> <<>>, units |-> <<>>, user_units |-> <<>>, enable |-> <<>>,
     groups |-> <<>>, users |-> <<>>]
ServiceOps(s) ==
    Each("write", s.dirs) \o Each("bins", s.bins) \o Each("copytree", s.config_trees)
    \o Each("copyfile", s.config_files) \o Each("link", s.symlinks) \o Each("units", s.units)
    \o Each("user_units", s.user_units) \o Each("link", s.enable)
    \o Each("group", s.groups) \o Each("user", s.users)

(* The components and services, in the phases of build_system.             *)
FILESYSTEM == <<<<"write", "FHS_DIRS">>, <<"link", "lib">>, <<"link", "usr/bin/sh">>>>
SHELL == <<<<"bash", "usr/bin/bash">>>>
COREUTILS == <<<<"bins", "BIN_UTILS">>, <<"bins", "AUTH_BIN">>>>
SBIN_BINARIES == <<<<"bins", "SBIN_UTILS">>, <<"bins", "AUTH_SBIN">>, <<"link", "usr/bin/login">>>>
SYSTEMD_BINS ==
    <<<<"systemd_bins", "SYSTEMD_BINARIES">>, <<"units", "system-generators">>,
      <<"link", "usr/sbin/init">>, <<"sudo_libs", "SUDO_LIBS">>>>
SYSTEMD_UNITS == <<<<"units", "ESSENTIAL_UNITS">>, <<"units", "DBUS_ACTIVATION_SYMLINKS">>>>
GETTY ==
    <<<<"link", "wants/getty@tty1">>, <<"link", "etc/systemd/system/default.target">>,
      <<"write", "serial-getty/local.conf">>>>
EFIVARS == <<<<"write", "efivars.mount">>, <<"link", "wants/efivars.mount">>>>
UDEV ==
    <<<<"copytree", "usr/lib/udev/rules.d">>, <<"units", "UDEV_HELPERS">>,
      <<"link", "wants/systemd-udevd">>>>
TMPFILES == <<<<"copytree", "usr/lib/tmpfiles.d">>>>
LIVE_SYSTEMD == SetupLiveSystemdConfigs
DBUS_SVC == ServiceOps([EmptyService EXCEPT
    !.dirs = <<"run/dbus">>, !.bins = <<"dbus-broker">>,
    !.config_trees = <<"usr/share/dbus-1", "etc/dbus-1">>,
    !.symlinks = <<"dbus.service">>, !.units = <<"dbus.socket">>,
    !.enable = <<"wants/dbus.socket">>, !.groups = <<"dbus">>, !.users = <<"dbus">>])
NETWORK ==
    <<<<"bins", "NM_SBIN">>, <<"bins", "NM_BIN">>, <<"bins", "WPA_SBIN">>,
      <<"copytree", "usr/libexec">>, <<"copytree", "etc/NetworkManager">>,
      <<"copyfile", "NetworkManager.conf">>, <<"copyfile", "wpa_supplicant.conf">>,
      <<"units", "NM_UNITS">>, <<"units", "WPA_UNITS">>, <<"link", "wants/NetworkManager">>>>
    \o CopyWifiFirmware
    \o <<<<"user", "nm-openconnect">>, <<"group", "nm-openconnect">>>>
CHRONY_SVC == ServiceOps([EmptyService EXCEPT
    !.dirs = <<"var/lib/chrony">>, !.config_files = <<"etc/chrony.conf">>,
    !.enable = <<"wants/chronyd">>, !.groups = <<"chrony">>, !.users = <<"chrony">>])
OPENSSH_SVC == ServiceOps([EmptyService EXCEPT
    !.dirs = <<"var/empty/sshd">>, !.bins = <<"SSH_BIN">>,
    !.config_trees = <<"etc/ssh", "etc/crypto-policies">>,
    !.config_files = <<"etc/pam.d/sshd">>, !.units = <<"sshd.service">>,
    !.groups = <<"sshd">>, !.users = <<"sshd">>])
PAM == <<<<"copytree", "usr/lib64/security">>>> \o CreatePamFiles \o CreateSecurityConfig
MODULES == CopyModules
BLUETOOTH_SVC == ServiceOps([EmptyService EXCEPT
    !.bins = <<"bluetoothctl">>, !.config_trees = <<"etc/bluetooth", "usr/libexec/bluetooth">>,
    !.config_files = <<"bluetooth.conf">>, !.units = <<"BLUETOOTH_UNITS">>,
    !.groups = <<"bluetooth">>])
PIPEWIRE_SVC == ServiceOps([EmptyService EXCEPT
    !.bins = <<"wpctl">>, !.config_trees = <<"usr/share/pipewire">>,
    !.user_units = <<"PIPEWIRE_UNITS">>, !.groups = <<"pipewire", "audio">>])
POLKIT_SVC == ServiceOps([EmptyService EXCEPT
    !.bins = <<"pkexec">>, !.config_trees = <<"usr/lib/polkit-1">>,
    !.config_files = <<"PolicyKit1.conf">>, !.units = <<"POLKIT_UNITS">>,
    !.groups = <<"polkitd">>, !.users = <<"polkitd">>])
UDISKS_SVC == ServiceOps([EmptyService EXCEPT
    !.bins = <<"udisksctl">>, !.config_trees = <<"usr/libexec/udisks2">>,
    !.config_files = <<"UDisks2.conf">>, !.units = <<"UDISKS_UNITS">>])
UPOWER_SVC == ServiceOps([EmptyService EXCEPT
    !.bins = <<"upower">>, !.config_trees = <<"etc/UPower">>,
    !.config_files = <<"UPower.conf", "usr/libexec/upowerd">>, !.units = <<"UPOWER_UNITS">>])
ETC_CONFIG ==
    CreateEtcFiles \o CopyTimezoneData \o CopyLocales \o DisableSelinux \o CreateSshHostKeys
    \o <<<<"copytree", "usr/share/terminfo">>>>
RECIPE == CopyRecipe \o SetupRecipeConfig
BOOTLOADER == CopySystemdBootEfi
FIRMWARE == CopyAllFirmware \o CopyKeymaps
FINAL == CreateWelcomeMessage \o InstallTools \o InstallStageTests \o CopyDocsTui

(* build_system, by the phases of it, the licenses of what was copied,   *)
(* and verify_staging.                                                     *)
BasePhases ==
    FILESYSTEM \o SHELL \o COREUTILS \o SBIN_BINARIES \o SYSTEMD_BINS
    \o SYSTEMD_UNITS \o GETTY \o EFIVARS \o UDEV \o TMPFILES \o LIVE_SYSTEMD
    \o DBUS_SVC
ServicePhase ==
    NETWORK \o CHRONY_SVC \o OPENSSH_SVC \o PAM \o MODULES \o BLUETOOTH_SVC
    \o PIPEWIRE_SVC \o POLKIT_SVC \o UDISKS_SVC \o UPOWER_SVC
LaterPhases ==
    ETC_CONFIG \o RECIPE \o BOOTLOADER \o FIRMWARE \o FINAL
    \o <<<<"write", "licenses">>, <<"verify", "staging">>>>
System == BasePhases \o ServicePhase \o LaterPhases

\* Files that a tree brings along and another operation names by itself, or
\* that may be missing together.
Within(tree) ==
    CASE tree = "usr/share/dbus-1" -> {"NetworkManager.conf", "bluetooth.conf",
                                       "PolicyKit1.conf", "UDisks2.conf", "UPower.conf"}
      [] tree = "etc/dbus-1" -> {"wpa_supplicant.conf"}
      [] tree = "usr/libexec" -> {"usr/libexec/sudo", "SUDO_LIBS", "usr/libexec/bluetooth",
                                  "usr/libexec/udisks2", "usr/libexec/upowerd"}
      [] tree \in {"etc/ssh", "host_key_pair"} -> {"etc/ssh/host_key", "etc/ssh/host_key.pub"}
      [] tree = "modules" -> {"custom_modules", "rocky_modules"}
      [] OTHER -> {}
Ops == ToSet(System)
Named(kinds) == {op[2] : op \in {p \in Ops : p[1] \in kinds}}
Made == {"write", "link", "through"}
Accounts == Named({"user", "group"})
Items == Named(Copies \cup Made \cup {"modules"}) \cup Within("etc/ssh")
InSource == Named(Copies \cup {"user", "group"}) \cup Within("etc/ssh")
            \cup {"usr/libexec/sudo", "host_key_pair", "modules", "custom_modules"}
Lacks(i) == i \in missing \/ \E tree \in missing : i \in Within(tree)

\* src/component/custom/etc/files/passwd and group, of the accounts above
StaticUsers == {"dbus", "chrony", "sshd"}
StaticGroups == {"dbus", "chrony", "sshd", "audio"}
Entry == {"none", "source", "default", "static"}

TypeOK ==
    /\ missing \subseteq InSource
    /\ staging \in [Items -> {"none", "partial", "dangling", "source", "own", "dir"}]
    /\ passwd \in [Accounts -> Entry]
    /\ group \in [Accounts -> Entry]
    /\ ip \in 0..Len(System)
    /\ result \in {"none", "ok", "err"}
    /\ dirty \in BOOLEAN
    /\ runs \in 0..MaxRuns

Init ==
    /\ missing \in {{}} \cup {{f[k] : k \in 1..MaxMissing} : f \in [1..MaxMissing -> InSource]}
    /\ staging = [i \in Items |-> "none"]
    /\ passwd = [n \in Accounts |-> "none"]
    /\ group = [n \in Accounts |-> "none"]
    /\ ip = 0
    /\ result = "none"
    /\ dirty = FALSE
    /\ runs = 0
-----------------------------------------------------------------------------
(* The operation at hand and how it ends.                                  *)
At(kinds) == ip > 0 /\ System[ip][1] \in kinds
Item == System[ip][2]
Does(do) == System[ip][1] = do

Continue ==
    /\ IF ip = Len(System) THEN ip' = 0 /\ result' = "ok" ELSE ip' = ip + 1 /\ UNCHANGED result
    /\ UNCHANGED <<missing, dirty, runs>>
Bail ==
    /\ ip' = 0 /\ result' = "err"
    /\ UNCHANGED <<missing, dirty, runs>>
Put(items, what) == staging' = [i \in Items |-> IF i \in items THEN what ELSE staging[i]]
Accounted == <<passwd, group>>
Pair == Within("etc/ssh")
-----------------------------------------------------------------------------
(* Faulty variants of the actions below, each the bug its name says; none  *)
(* of them is part of the specification.                                   *)
CreatePasswdFileOnly ==
    /\ At({"static_accounts"})
    /\ passwd' = [n \in Accounts |-> IF n \in StaticUsers THEN "static" ELSE "none"]
    /\ Continue
    /\ UNCHANGED <<staging, group>>

GenerateHostKeysUnlessPrivate ==
    /\ At({"host_keys"})
    /\ \/ staging["etc/ssh/host_key"] # "none" /\ UNCHANGED staging
       \/ staging["etc/ssh/host_key"] = "none" /\ Put(Pair, "own")
    /\ Continue
    /\ UNCHANGED Accounted

VerifyStagingOnlyWarns ==
    /\ At({"verify"})
    /\ Continue
    /\ UNCHANGED <<staging, Accounted>>
-----------------------------------------------------------------------------
(* build_rootfs removes the tree of an earlier build that failed before it *)
(* calls build_system; an error of the removal is ignored, which leaves    *)
(* all of the tree or a part.  Only of the host keys does it matter which  *)
(* part: every other item that is gone is handled as in an empty tree.     *)
(* Packages may have been added to the source since; that a copy which is  *)
(* kept may be of an older release of the source is not told apart.        *)
Begin ==
    /\ ip = 0 /\ runs < MaxRuns
    /\ ip' = 1 /\ runs' = runs + 1 /\ result' = "none"
    /\ missing' \in SUBSET missing
    /\ \/ /\ staging' = [i \in Items |-> "none"]
          /\ passwd' = [n \in Accounts |-> "none"] /\ group' = [n \in Accounts |-> "none"]
          /\ dirty' = FALSE
       \/ /\ result = "err" /\ dirty' = TRUE
          /\ \E gone \in {{}} \cup {{k} : k \in Within("etc/ssh")} : Put(gone, "none")
          /\ UNCHANGED <<passwd, group>>

(* A copy: of what the source has, to where nothing is or over what is.    *)
CopyMissing(items) == Put({i \in items : ~Lacks(i) /\ staging[i] = "none"}, "source")
CopyOver(items) == Put({i \in items : ~Lacks(i)}, "source")
Found(ok) == IF Lacks(Item) THEN Bail /\ UNCHANGED staging ELSE ok /\ Continue

(* copy_binary_with_libs: from the rootfs or a known RPM.  Where the       *)
(* binary is a symlink (mkfs.ntfs in SBIN_UTILS), an error of the copy of  *)
(* its target is ignored.                                                  *)
HandleBins ==
    /\ At({"bins"})
    /\ Found(\/ CopyMissing({Item})
             \/ Item = "SBIN_UTILS" /\ staging[Item] = "none" /\ Put({Item}, "dangling"))
    /\ UNCHANGED Accounted

HandleBash ==
    /\ At({"bash"})
    /\ Found(CopyOver({Item}))
    /\ UNCHANGED Accounted

\* Of the binaries and of the sudo libraries the ones that are there.
HandleSystemdBinaries ==
    /\ At({"systemd_bins"})
    /\ CopyOver({Item}) /\ Continue
    /\ UNCHANGED Accounted

HandleSudoLibs ==
    /\ At({"sudo_libs"})
    /\ IF Lacks("usr/libexec/sudo") THEN Bail /\ UNCHANGED staging ELSE CopyOver({Item}) /\ Continue
    /\ UNCHANGED Accounted

HandleCopyfile ==
    /\ At({"copyfile"})
    /\ Found(CopyMissing({Item}))
    /\ UNCHANGED Accounted

\* copy_dir_tree: without the tree, nothing.
HandleCopytree ==
    /\ At({"copytree"})
    /\ CopyMissing({Item} \cup (Within(Item) \cap Items)) /\ Continue
    /\ UNCHANGED Accounted

\* copy_systemd_units, handle_dbus_symlinks, handle_udev_helpers, and the
\* generators of handle_systemd_binaries
HandleUnits ==
    /\ At({"units"})
    /\ CopyMissing({Item}) /\ Continue
    /\ UNCHANGED Accounted

HandleUserUnits ==
    /\ At({"user_units"})
    /\ CopyOver({Item}) /\ Continue
    /\ UNCHANGED Accounted

(* The copies of the custom operations.                                    *)
CopyBuilt ==
    /\ At({"built"})
    /\ Found(CopyOver({Item}))
    /\ UNCHANGED Accounted

CopyRecursive ==
    /\ At({"recursive"})
    /\ Found(CopyMissing({Item}) \/ CopyOver({Item}))
    /\ UNCHANGED Accounted

CopyPresent ==
    /\ At({"present"})
    /\ CopyOver({Item}) \/ CopyMissing({Item})
    /\ Continue
    /\ UNCHANGED Accounted

Make ==
    /\ At(Made)
    /\ \/ Does("write") /\ Put({Item}, "own")
       \/ Does("link") /\ Put({i \in {Item} : staging[i] = "none"}, "own")
       \/ Does("through") /\ Put({i \in {Item} : staging[i] = "none"}, "dir")
    /\ Continue
    /\ UNCHANGED Accounted

\* A directory that the source lacks may still be one of FHS_DIRS.
WriteIn ==
    /\ At({"write_in"})
    /\ Continue \/ (staging[Item] = "none" /\ Bail)
    /\ UNCHANGED <<staging, Accounted>>

(* copy_modules: those of the custom kernel, else those of Rocky that the  *)
(* configuration lists.                                                    *)
CopyKernelModules ==
    /\ At({"modules"})
    /\ \/ ~Lacks("custom_modules") /\ Put({Item}, "own") /\ Continue
       \/ /\ Lacks("custom_modules")
          /\ IF Lacks("rocky_modules") THEN Bail /\ UNCHANGED staging
             ELSE Continue /\ Put({Item}, "source")
    /\ UNCHANGED Accounted

(* ensure_user, ensure_group: an entry that is there stays, else it gets   *)
(* the ids of the source or the defaults.  (The search for "name:" in the  *)
(* whole file finds no other entry for these names.)                       *)
Ensured(file, n) ==
    IF file[n] # "none" THEN file
    ELSE [file EXCEPT ![n] = IF n \in missing THEN "default" ELSE "source"]
EnsureUser ==
    /\ At({"user"})
    /\ passwd' = Ensured(passwd, Item)
    /\ Continue
    /\ UNCHANGED <<staging, group>>
EnsureGroup ==
    /\ At({"group"})
    /\ group' = Ensured(group, Item)
    /\ Continue
    /\ UNCHANGED <<staging, passwd>>

(* create_passwd_files: the static files replace what is there.            *)
CreatePasswdFiles ==
    /\ At({"static_accounts"})
    /\ passwd' = [n \in Accounts |-> IF n \in StaticUsers THEN "static" ELSE "none"]
    /\ group' = [n \in Accounts |-> IF n \in StaticGroups THEN "static" ELSE "none"]
    /\ Continue
    /\ UNCHANGED staging

(* create_ssh_host_keys: a complete pair is kept, anything else is removed *)
(* and generated anew; ssh-keygen may be stopped between the two files.    *)
GenerateHostKeys ==
    /\ At({"host_keys"})
    /\ \/ (\A k \in Pair : staging[k] # "none") /\ UNCHANGED staging /\ Continue
       \/ (\E k \in Pair : staging[k] = "none") /\ Put(Pair, "own") /\ Continue
       \/ /\ \E k \in Pair : staging[k] = "none"
          /\ staging' = [staging EXCEPT !["etc/ssh/host_key"] = "own", !["etc/ssh/host_key.pub"] = "none"]
          /\ Bail
    /\ UNCHANGED Accounted

(* verify_staging asks whether some of the items exist.  ESSENTIAL_UNITS   *)
(* are the units of that list that it does not filter out: networkd,       *)
(* resolved and system.slice it does not miss.                             *)
Verified ==
    {"BIN_UTILS", "AUTH_BIN", "SSH_BIN", "NM_BIN", "usr/bin/bash", "ESSENTIAL_UNITS",
     "NM_UNITS", "WPA_UNITS", "FHS_DIRS", "etc/files"}
VerifyStaging ==
    /\ At({"verify"})
    /\ IF \E i \in Verified : staging[i] = "none" THEN Bail ELSE Continue
    /\ UNCHANGED <<staging, Accounted>>

(* An operation meets an I/O error, or the build is killed in it; a copy   *)
(* may have been begun.                                                    *)
Fails ==
    /\ ip > 0
    /\ \/ UNCHANGED staging
       \/ /\ At(Copies) /\ ~Lacks(Item)
          /\ staging[Item] = "none" \/ ~At(Keeps \ {"recursive"})
          /\ Put({Item}, "partial")
    /\ Bail
    /\ UNCHANGED Accounted

Next ==
    \/ Begin \/ HandleBins \/ HandleBash \/ HandleSystemdBinaries \/ HandleSudoLibs
    \/ HandleCopyfile \/ HandleCopytree \/ HandleUnits \/ HandleUserUnits
    \/ CopyBuilt \/ CopyRecursive \/ CopyPresent \/ Make \/ WriteIn \/ CopyKernelModules
    \/ EnsureUser \/ EnsureGroup \/ CreatePasswdFiles \/ GenerateHostKeys
    \/ VerifyStaging \/ Fails

Spec == Init /\ [][Next]_vars
-----------------------------------------------------------------------------
Ok == result = "ok"

(* A build that succeeds has in its tree what the source has of every item *)
(* listed, and its own version of what it makes itself, also where the     *)
(* source has one (the PAM file of sshd).  Exceptions: a binary that is a  *)
(* symlink, and a file that an earlier build cut short, in a tree that was *)
(* not removed and of a kind of operation that keeps what is there.        *)
Expected(i) ==
    IF i = "lib/modules" THEN IF Lacks("custom_modules") THEN "source" ELSE "own"
    ELSE IF i \in Named(Made) THEN "own"
    ELSE IF Lacks(i) THEN "none" ELSE "source"
OkTreeIsAsListed ==
    Ok => \A i \in Items \ Pair :
            \/ staging[i] = Expected(i)
            \/ staging[i] = "dangling" /\ i \in Named({"bins"})
            \/ staging[i] = "partial" /\ dirty /\ i \in Named(Keeps \cup {"present"})

(* The ssh host keys of a build that succeeds are a pair, both from the    *)
(* source or both generated, also if the source has only one of them or an *)
(* interrupted ssh-keygen has left one in a tree that was not removed      *)
(* (unless the source then adds a key of its own to that one).             *)
HostKeysAreAPair ==
    Ok /\ (dirty => \A k \in Pair : Lacks(k)) => \E what \in {"source", "own"} : \A k \in Pair : staging[k] = what

(* The primary group of every user in passwd is in the group file, with    *)
(* the id that the passwd entry has.                                       *)
PrimaryGroupExists == Ok => \A n \in Accounts : passwd[n] # "none" => group[n] = passwd[n]

(* NetworkManager, chronyd and the EFI variables, once enabled, have their *)
(* units in the tree: the units operations pass over what the source       *)
(* lacks, and it takes verify_staging, which asks for the lists that these *)
(* are on, to notice.  Nothing is said of the other units that are enabled *)
(* (dbus.socket, those of getty and udev): whether they are on one of      *)
(* these lists is decided outside the repository, and a build may succeed  *)
(* with them enabled and missing.                                          *)
EnabledUnitsAreThere ==
    Ok => \A e \in {<<"wants/NetworkManager", "NM_UNITS">>,
                    <<"wants/chronyd", "ESSENTIAL_UNITS">>,
                    <<"wants/efivars.mount", "efivars.mount">>} :
            staging[e[1]] = "own" => staging[e[2]] # "none"

(* "Ensure a user exists in passwd file", "Ensure a group exists in group  *)
(* file": the accounts of a component are in the tree of a build that      *)
(* succeeds.                                                               *)
AccountsSurvive ==
    Ok => /\ \A n \in Named({"user"}) : passwd[n] # "none"
          /\ \A n \in Named({"group"}) : group[n] # "none"
=============================================================================
