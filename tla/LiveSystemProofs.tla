-------------------------- MODULE LiveSystemProofs --------------------------
(* Proofs about the live system: about the tree that build_system makes    *)
(* of it (SystemBuild), for every set of items that the source lacks and   *)
(* every number of builds; and, in the second half, about the script that  *)
(* boots it (LiveInit), for every number of devices, whatever is on them   *)
(* and whenever they appear, and every number of commands that fail.       *)
EXTENDS SystemBuild, LiveInit, FiniteSetTheorems, SequenceTheorems, TLAPS

-----------------------------------------------------------------------------
(* The items by how they come into the tree: copied over what is there,    *)
(* copied if nothing is there, written, or linked if nothing is there.     *)
(* Every operation of the components and services is one of KnownOps.      *)
Replacing == {"bash", "systemd_bins", "sudo_libs", "user_units", "built"}
OverKinds == Replacing \cup {"recursive", "present"}
KeptKinds == {"bins", "copytree", "units", "copyfile"}
OverItems ==
    {"usr/bin/bash", "SYSTEMD_BINARIES", "SUDO_LIBS", "PIPEWIRE_UNITS", "recipe",
     "LEVITATE_CARGO_TOOLS", "stage-tests", "levitate-docs", "usr/lib/firmware",
     "systemd-boot-unsigned", "amd-ucode", "intel-ucode", "usr/lib/kbd/keymaps",
     "etc/ld.so.conf.d", "usr/share/zoneinfo", "usr/lib/locale/locale-archive"}
KeptItems ==
    {"BIN_UTILS", "AUTH_BIN", "SBIN_UTILS", "AUTH_SBIN", "dbus-broker", "NM_SBIN", "NM_BIN",
     "WPA_SBIN", "SSH_BIN", "bluetoothctl", "wpctl", "pkexec", "udisksctl", "upower",
     "system-generators", "ESSENTIAL_UNITS", "DBUS_ACTIVATION_SYMLINKS", "UDEV_HELPERS",
     "dbus.socket", "NM_UNITS", "WPA_UNITS", "sshd.service", "BLUETOOTH_UNITS", "POLKIT_UNITS",
     "UDISKS_UNITS", "UPOWER_UNITS", "usr/lib/tmpfiles.d", "usr/lib/udev/rules.d",
     "usr/share/dbus-1", "etc/dbus-1", "usr/libexec", "etc/NetworkManager", "etc/ssh",
     "etc/crypto-policies", "usr/lib64/security", "etc/bluetooth", "usr/libexec/bluetooth",
     "usr/share/pipewire", "usr/lib/polkit-1", "usr/libexec/udisks2", "etc/UPower",
     "usr/share/terminfo", "NetworkManager.conf", "wpa_supplicant.conf", "etc/chrony.conf",
     "bluetooth.conf", "PolicyKit1.conf", "UDisks2.conf", "UPower.conf", "usr/libexec/upowerd"}
WriteItems ==
    {"FHS_DIRS", "serial-getty/local.conf", "efivars.mount", "etc/systemd/journald.conf.d",
     "run/dbus", "var/lib/chrony", "var/empty/sshd", "etc/pam.d", "etc/pam.d/sshd",
     "etc/security", "etc/files", "etc/profile.d", "etc/selinux/config", "etc/recipe", "etc/motd",
     "licenses"}
LinkItems ==
    {"lib", "usr/bin/sh", "usr/bin/login", "usr/sbin/init", "wants/getty@tty1",
     "etc/systemd/system/default.target", "wants/efivars.mount", "wants/systemd-udevd",
     "dbus.service", "wants/dbus.socket", "wants/NetworkManager", "wants/chronyd"}
AccountNames ==
    {"dbus", "nm-openconnect", "chrony", "sshd", "bluetooth", "pipewire", "audio", "polkitd"}

TreeOps ==
    (OverKinds \X OverItems) \cup (KeptKinds \X KeptItems)
    \cup ({"copyfile"} \X {"etc/pam.d/sshd"})
    \cup ({"write"} \X WriteItems) \cup ({"link"} \X LinkItems)
    \cup ({"through"} \X {"lib"}) \cup ({"modules"} \X {"lib/modules"})
AccountOps == {"user", "group"} \X AccountNames
EtcOps ==
    {<<"static_accounts", "etc/passwd">>, <<"write_in", "usr/lib/tmpfiles.d">>,
     <<"write_in", "etc/profile.d">>, <<"host_keys", "etc/ssh/host_key">>, <<"verify", "staging">>}
BuildOps == TreeOps \cup AccountOps
LaterOps == TreeOps \cup EtcOps
KnownOps == BuildOps \cup EtcOps

(* Each gives a sequence of operations of the one kind.                    *)
LEMMA EachSeq ==
    ASSUME NEW do, NEW S, NEW items \in Seq(S)
    PROVE  Each(do, items) \in Seq({do} \X S)
BY DEF Each

(* The operations of a service are known if the items in its fields are.   *)
LEMMA ServiceSeq ==
    ASSUME NEW s,
           s.dirs \in Seq(WriteItems), s.bins \in Seq(KeptItems),
           s.config_trees \in Seq(KeptItems),
           s.config_files \in Seq(KeptItems \cup {"etc/pam.d/sshd"}),
           s.symlinks \in Seq(LinkItems), s.units \in Seq(KeptItems),
           s.user_units \in Seq(OverItems), s.enable \in Seq(LinkItems),
           s.groups \in Seq(AccountNames), s.users \in Seq(AccountNames)
    PROVE  ServiceOps(s) \in Seq(BuildOps)
<1>1. ASSUME NEW do, NEW S, NEW items \in Seq(S), {do} \X S \subseteq BuildOps
      PROVE  Each(do, items) \in Seq(BuildOps)
    BY <1>1, EachSeq, SeqMonotonic
<1>2. /\ {"write"} \X WriteItems \subseteq BuildOps
      /\ {"bins"} \X KeptItems \subseteq BuildOps
      /\ {"copytree"} \X KeptItems \subseteq BuildOps
      /\ {"copyfile"} \X (KeptItems \cup {"etc/pam.d/sshd"}) \subseteq BuildOps
      /\ {"link"} \X LinkItems \subseteq BuildOps
      /\ {"units"} \X KeptItems \subseteq BuildOps
      /\ {"user_units"} \X OverItems \subseteq BuildOps
      /\ {"group"} \X AccountNames \subseteq BuildOps
      /\ {"user"} \X AccountNames \subseteq BuildOps
    BY DEF BuildOps, TreeOps, AccountOps, KeptKinds, OverKinds, Replacing
<1>3. /\ Each("write", s.dirs) \in Seq(BuildOps)
      /\ Each("bins", s.bins) \in Seq(BuildOps)
      /\ Each("copytree", s.config_trees) \in Seq(BuildOps)
    BY <1>1, <1>2
<1>4. /\ Each("copyfile", s.config_files) \in Seq(BuildOps)
      /\ Each("link", s.symlinks) \in Seq(BuildOps)
      /\ Each("units", s.units) \in Seq(BuildOps)
    BY <1>1, <1>2
<1>5. /\ Each("user_units", s.user_units) \in Seq(BuildOps)
      /\ Each("link", s.enable) \in Seq(BuildOps)
      /\ Each("group", s.groups) \in Seq(BuildOps)
      /\ Each("user", s.users) \in Seq(BuildOps)
    BY <1>1, <1>2
<1>6. \A x, y \in Seq(BuildOps) : x \o y \in Seq(BuildOps)
    BY ConcatProperties
<1>7. QED
    BY <1>3, <1>4, <1>5, <1>6 DEF ServiceOps

(* What the concatenation of two phases has in it and where.               *)
LEMMA Concat ==
    ASSUME NEW S, NEW s \in Seq(S), NEW t \in Seq(S)
    PROVE  /\ s \o t \in Seq(S)
           /\ ToSet(s \o t) = ToSet(s) \cup ToSet(t)
           /\ Len(s \o t) = Len(s) + Len(t)
           /\ \A i \in 1..Len(s) : (s \o t)[i] = s[i]
           /\ \A i \in (Len(s) + 1)..Len(s \o t) : (s \o t)[i] \in ToSet(t)
<1>1. /\ s \o t \in Seq(S) /\ Len(s \o t) = Len(s) + Len(t)
      /\ \A i \in 1..(Len(s) + Len(t)) :
            (s \o t)[i] = IF i <= Len(s) THEN s[i] ELSE t[i - Len(s)]
    BY ConcatProperties
<1>2. Len(s) \in Nat /\ Len(t) \in Nat /\ DOMAIN s = 1..Len(s) /\ DOMAIN t = 1..Len(t)
    BY LenProperties
<1>3. DOMAIN (s \o t) = 1..(Len(s) + Len(t))
    BY <1>1, LenProperties
<1>4. ASSUME NEW i \in (Len(s) + 1)..Len(s \o t)
      PROVE  (s \o t)[i] \in ToSet(t)
    <2>1. (s \o t)[i] = t[i - Len(s)] /\ i - Len(s) \in DOMAIN t
        BY <1>1, <1>2, <1>4
    <2>2. QED
        BY <2>1 DEF ToSet
<1>5. ToSet(s \o t) \subseteq ToSet(s) \cup ToSet(t)
    <2>1. SUFFICES ASSUME NEW i \in DOMAIN (s \o t)
                   PROVE  (s \o t)[i] \in ToSet(s) \cup ToSet(t)
        BY DEF ToSet
    <2>2. CASE i <= Len(s)
        <3>1. i \in DOMAIN s /\ (s \o t)[i] = s[i]
            BY <1>1, <1>2, <1>3, <2>2
        <3>2. QED
            BY <3>1 DEF ToSet
    <2>3. CASE ~(i <= Len(s))
        BY <1>1, <1>2, <1>3, <1>4, <2>3
    <2>4. QED
        BY <2>2, <2>3
<1>6. ToSet(s) \cup ToSet(t) \subseteq ToSet(s \o t)
    <2>1. ASSUME NEW i \in DOMAIN s
          PROVE  s[i] \in ToSet(s \o t)
        <3>1. i \in DOMAIN (s \o t) /\ (s \o t)[i] = s[i]
            BY <1>1, <1>2, <1>3
        <3>2. QED
            BY <3>1 DEF ToSet
    <2>2. ASSUME NEW i \in DOMAIN t
          PROVE  t[i] \in ToSet(s \o t)
        <3>1. Len(s) + i \in DOMAIN (s \o t) /\ (s \o t)[Len(s) + i] = t[i]
            BY <1>1, <1>2, <1>3
        <3>2. QED
            BY <3>1 DEF ToSet
    <2>3. QED
        BY <2>1, <2>2 DEF ToSet
<1>7. \A i \in 1..Len(s) : (s \o t)[i] = s[i]
    BY <1>1, <1>2
<1>8. QED
    BY <1>1, <1>4, <1>5, <1>6, <1>7

(* The known operations, kind by kind.                                     *)
LEMMA KnownKinds ==
    /\ \A i \in OverItems, k \in OverKinds : <<k, i>> \in BuildOps
    /\ \A i \in KeptItems, k \in KeptKinds : <<k, i>> \in BuildOps
    /\ <<"copyfile", "etc/pam.d/sshd">> \in BuildOps
    /\ \A i \in WriteItems : <<"write", i>> \in BuildOps
    /\ \A i \in LinkItems : <<"link", i>> \in BuildOps
    /\ <<"through", "lib">> \in BuildOps /\ <<"modules", "lib/modules">> \in BuildOps
    /\ \A i \in AccountNames : <<"user", i>> \in BuildOps /\ <<"group", i>> \in BuildOps
BY DEF BuildOps, TreeOps, AccountOps

(* The components of the first four phases are made of known operations,   *)
(* which are none of those that only the later phases have.                *)
LEMMA BaseComponents ==
    /\ FILESYSTEM \in Seq(BuildOps) /\ SHELL \in Seq(BuildOps) /\ COREUTILS \in Seq(BuildOps)
    /\ SBIN_BINARIES \in Seq(BuildOps) /\ SYSTEMD_BINS \in Seq(BuildOps)
    /\ SYSTEMD_UNITS \in Seq(BuildOps) /\ GETTY \in Seq(BuildOps) /\ EFIVARS \in Seq(BuildOps)
    /\ UDEV \in Seq(BuildOps) /\ TMPFILES \in Seq(BuildOps) /\ LIVE_SYSTEMD \in Seq(BuildOps)
    /\ DBUS_SVC \in Seq(BuildOps)
<1>1. FILESYSTEM \in Seq(BuildOps)
    <2>1. /\ <<"write", "FHS_DIRS">> \in BuildOps /\ <<"link", "lib">> \in BuildOps
          /\ <<"link", "usr/bin/sh">> \in BuildOps
        BY KnownKinds DEF LinkItems, WriteItems
    <2>2. QED
        BY <2>1, ConcatProperties DEF FILESYSTEM
<1>2. SHELL \in Seq(BuildOps)
    <2>1. /\ <<"bash", "usr/bin/bash">> \in BuildOps
        BY KnownKinds DEF OverItems, OverKinds, Replacing
    <2>2. QED
        BY <2>1, ConcatProperties DEF SHELL
<1>3. COREUTILS \in Seq(BuildOps)
    <2>1. /\ <<"bins", "BIN_UTILS">> \in BuildOps /\ <<"bins", "AUTH_BIN">> \in BuildOps
        BY KnownKinds DEF KeptItems, KeptKinds
    <2>2. QED
        BY <2>1, ConcatProperties DEF COREUTILS
<1>4. SBIN_BINARIES \in Seq(BuildOps)
    <2>1. /\ <<"bins", "SBIN_UTILS">> \in BuildOps /\ <<"bins", "AUTH_SBIN">> \in BuildOps
          /\ <<"link", "usr/bin/login">> \in BuildOps
        BY KnownKinds DEF KeptItems, LinkItems, KeptKinds
    <2>2. QED
        BY <2>1, ConcatProperties DEF SBIN_BINARIES
<1>5. SYSTEMD_BINS \in Seq(BuildOps)
    <2>1. /\ <<"systemd_bins", "SYSTEMD_BINARIES">> \in BuildOps
          /\ <<"units", "system-generators">> \in BuildOps
          /\ <<"link", "usr/sbin/init">> \in BuildOps
          /\ <<"sudo_libs", "SUDO_LIBS">> \in BuildOps
        BY KnownKinds DEF KeptItems, LinkItems, OverItems, OverKinds, Replacing, KeptKinds
    <2>2. QED
        BY <2>1, ConcatProperties DEF SYSTEMD_BINS
<1>6. SYSTEMD_UNITS \in Seq(BuildOps)
    <2>1. /\ <<"units", "ESSENTIAL_UNITS">> \in BuildOps
          /\ <<"units", "DBUS_ACTIVATION_SYMLINKS">> \in BuildOps
        BY KnownKinds DEF KeptItems, KeptKinds
    <2>2. QED
        BY <2>1, ConcatProperties DEF SYSTEMD_UNITS
<1>7. GETTY \in Seq(BuildOps)
    <2>1. /\ <<"link", "wants/getty@tty1">> \in BuildOps
          /\ <<"link", "etc/systemd/system/default.target">> \in BuildOps
          /\ <<"write", "serial-getty/local.conf">> \in BuildOps
        BY KnownKinds DEF LinkItems, WriteItems
    <2>2. QED
        BY <2>1, ConcatProperties DEF GETTY
<1>8. EFIVARS \in Seq(BuildOps)
    <2>1. /\ <<"write", "efivars.mount">> \in BuildOps
          /\ <<"link", "wants/efivars.mount">> \in BuildOps
        BY KnownKinds DEF LinkItems, WriteItems
    <2>2. QED
        BY <2>1, ConcatProperties DEF EFIVARS
<1>9. UDEV \in Seq(BuildOps)
    <2>1. /\ <<"copytree", "usr/lib/udev/rules.d">> \in BuildOps
          /\ <<"units", "UDEV_HELPERS">> \in BuildOps
          /\ <<"link", "wants/systemd-udevd">> \in BuildOps
        BY KnownKinds DEF KeptItems, LinkItems, KeptKinds
    <2>2. QED
        BY <2>1, ConcatProperties DEF UDEV
<1>10. TMPFILES \in Seq(BuildOps)
    <2>1. /\ <<"copytree", "usr/lib/tmpfiles.d">> \in BuildOps
        BY KnownKinds DEF KeptItems, KeptKinds
    <2>2. QED
        BY <2>1, ConcatProperties DEF TMPFILES
<1>11. LIVE_SYSTEMD \in Seq(BuildOps)
    <2>1. /\ <<"write", "etc/systemd/journald.conf.d">> \in BuildOps
        BY KnownKinds DEF WriteItems
    <2>2. QED
        BY <2>1, ConcatProperties DEF LIVE_SYSTEMD, SetupLiveSystemdConfigs
<1>12. DBUS_SVC \in Seq(BuildOps)
    <2> DEFINE s == [EmptyService EXCEPT
            !.dirs = <<"run/dbus">>, !.bins = <<"dbus-broker">>,
            !.config_trees = <<"usr/share/dbus-1", "etc/dbus-1">>,
            !.symlinks = <<"dbus.service">>, !.units = <<"dbus.socket">>,
            !.enable = <<"wants/dbus.socket">>, !.groups = <<"dbus">>, !.users = <<"dbus">>]
    <2>1. /\ s.dirs = <<"run/dbus">> /\ s.bins = <<"dbus-broker">>
          /\ s.config_trees = <<"usr/share/dbus-1", "etc/dbus-1">> /\ s.config_files = <<>>
          /\ s.symlinks = <<"dbus.service">> /\ s.units = <<"dbus.socket">>
          /\ s.user_units = <<>> /\ s.enable = <<"wants/dbus.socket">> /\ s.groups = <<"dbus">>
          /\ s.users = <<"dbus">>
        BY Zenon DEF EmptyService
    <2> HIDE DEF s
    <2>2. /\ s.dirs \in Seq(WriteItems) /\ s.bins \in Seq(KeptItems)
          /\ s.config_trees \in Seq(KeptItems)
          /\ s.config_files \in Seq(KeptItems \cup {"etc/pam.d/sshd"})
          /\ s.symlinks \in Seq(LinkItems) /\ s.units \in Seq(KeptItems)
          /\ s.user_units \in Seq(OverItems) /\ s.enable \in Seq(LinkItems)
          /\ s.groups \in Seq(AccountNames) /\ s.users \in Seq(AccountNames)
        BY <2>1 DEF AccountNames, KeptItems, LinkItems, WriteItems
    <2>3. QED
        BY <2>2, ServiceSeq DEF DBUS_SVC, s
<1>13. QED
    BY <1>1, <1>2, <1>3, <1>4, <1>5, <1>6, <1>7, <1>8, <1>9, <1>10, <1>11, <1>12

(* So are the services.                                                    *)
LEMMA ServiceComponents ==
    /\ NETWORK \in Seq(BuildOps) /\ CHRONY_SVC \in Seq(BuildOps)
    /\ OPENSSH_SVC \in Seq(BuildOps) /\ PAM \in Seq(BuildOps) /\ MODULES \in Seq(BuildOps)
    /\ BLUETOOTH_SVC \in Seq(BuildOps) /\ PIPEWIRE_SVC \in Seq(BuildOps)
    /\ POLKIT_SVC \in Seq(BuildOps) /\ UDISKS_SVC \in Seq(BuildOps)
    /\ UPOWER_SVC \in Seq(BuildOps)
<1>1. NETWORK \in Seq(BuildOps)
    <2>1. /\ <<"bins", "NM_SBIN">> \in BuildOps /\ <<"bins", "NM_BIN">> \in BuildOps
          /\ <<"bins", "WPA_SBIN">> \in BuildOps /\ <<"copytree", "usr/libexec">> \in BuildOps
          /\ <<"copytree", "etc/NetworkManager">> \in BuildOps
          /\ <<"copyfile", "NetworkManager.conf">> \in BuildOps
          /\ <<"copyfile", "wpa_supplicant.conf">> \in BuildOps
          /\ <<"units", "NM_UNITS">> \in BuildOps /\ <<"units", "WPA_UNITS">> \in BuildOps
          /\ <<"link", "wants/NetworkManager">> \in BuildOps
          /\ <<"user", "nm-openconnect">> \in BuildOps
          /\ <<"group", "nm-openconnect">> \in BuildOps /\ <<"through", "lib">> \in BuildOps
          /\ <<"recursive", "usr/lib/firmware">> \in BuildOps
        BY KnownKinds DEF AccountNames, KeptItems, LinkItems, OverItems, OverKinds, Replacing, KeptKinds
    <2>2. QED
        BY <2>1, ConcatProperties DEF NETWORK, CopyWifiFirmware
<1>2. CHRONY_SVC \in Seq(BuildOps)
    <2> DEFINE s == [EmptyService EXCEPT
            !.dirs = <<"var/lib/chrony">>, !.config_files = <<"etc/chrony.conf">>,
            !.enable = <<"wants/chronyd">>, !.groups = <<"chrony">>, !.users = <<"chrony">>]
    <2>1. /\ s.dirs = <<"var/lib/chrony">> /\ s.bins = <<>> /\ s.config_trees = <<>>
          /\ s.config_files = <<"etc/chrony.conf">> /\ s.symlinks = <<>> /\ s.units = <<>>
          /\ s.user_units = <<>> /\ s.enable = <<"wants/chronyd">> /\ s.groups = <<"chrony">>
          /\ s.users = <<"chrony">>
        BY Zenon DEF EmptyService
    <2> HIDE DEF s
    <2>2. /\ s.dirs \in Seq(WriteItems) /\ s.bins \in Seq(KeptItems)
          /\ s.config_trees \in Seq(KeptItems)
          /\ s.config_files \in Seq(KeptItems \cup {"etc/pam.d/sshd"})
          /\ s.symlinks \in Seq(LinkItems) /\ s.units \in Seq(KeptItems)
          /\ s.user_units \in Seq(OverItems) /\ s.enable \in Seq(LinkItems)
          /\ s.groups \in Seq(AccountNames) /\ s.users \in Seq(AccountNames)
        BY <2>1 DEF AccountNames, KeptItems, LinkItems, WriteItems
    <2>3. QED
        BY <2>2, ServiceSeq DEF CHRONY_SVC, s
<1>3. OPENSSH_SVC \in Seq(BuildOps)
    <2> DEFINE s == [EmptyService EXCEPT
            !.dirs = <<"var/empty/sshd">>, !.bins = <<"SSH_BIN">>,
            !.config_trees = <<"etc/ssh", "etc/crypto-policies">>,
            !.config_files = <<"etc/pam.d/sshd">>, !.units = <<"sshd.service">>,
            !.groups = <<"sshd">>, !.users = <<"sshd">>]
    <2>1. /\ s.dirs = <<"var/empty/sshd">> /\ s.bins = <<"SSH_BIN">>
          /\ s.config_trees = <<"etc/ssh", "etc/crypto-policies">>
          /\ s.config_files = <<"etc/pam.d/sshd">> /\ s.symlinks = <<>>
          /\ s.units = <<"sshd.service">> /\ s.user_units = <<>> /\ s.enable = <<>>
          /\ s.groups = <<"sshd">> /\ s.users = <<"sshd">>
        BY Zenon DEF EmptyService
    <2> HIDE DEF s
    <2>2. /\ s.dirs \in Seq(WriteItems) /\ s.bins \in Seq(KeptItems)
          /\ s.config_trees \in Seq(KeptItems)
          /\ s.config_files \in Seq(KeptItems \cup {"etc/pam.d/sshd"})
          /\ s.symlinks \in Seq(LinkItems) /\ s.units \in Seq(KeptItems)
          /\ s.user_units \in Seq(OverItems) /\ s.enable \in Seq(LinkItems)
          /\ s.groups \in Seq(AccountNames) /\ s.users \in Seq(AccountNames)
        BY <2>1 DEF AccountNames, KeptItems, WriteItems
    <2>3. QED
        BY <2>2, ServiceSeq DEF OPENSSH_SVC, s
<1>4. PAM \in Seq(BuildOps)
    <2>1. /\ <<"copytree", "usr/lib64/security">> \in BuildOps
          /\ <<"write", "etc/pam.d">> \in BuildOps /\ <<"write", "etc/pam.d/sshd">> \in BuildOps
          /\ <<"write", "etc/security">> \in BuildOps
        BY KnownKinds DEF KeptItems, WriteItems, KeptKinds
    <2>2. QED
        BY <2>1, ConcatProperties DEF PAM, CreatePamFiles, CreateSecurityConfig
<1>5. MODULES \in Seq(BuildOps)
    <2>1. /\ <<"through", "lib">> \in BuildOps /\ <<"modules", "lib/modules">> \in BuildOps
        BY KnownKinds
    <2>2. QED
        BY <2>1, ConcatProperties DEF MODULES, CopyModules
<1>6. BLUETOOTH_SVC \in Seq(BuildOps)
    <2> DEFINE s == [EmptyService EXCEPT
            !.bins = <<"bluetoothctl">>, !.config_trees = <<"etc/bluetooth", "usr/libexec/bluetooth">>,
            !.config_files = <<"bluetooth.conf">>, !.units = <<"BLUETOOTH_UNITS">>,
            !.groups = <<"bluetooth">>]
    <2>1. /\ s.dirs = <<>> /\ s.bins = <<"bluetoothctl">>
          /\ s.config_trees = <<"etc/bluetooth", "usr/libexec/bluetooth">>
          /\ s.config_files = <<"bluetooth.conf">> /\ s.symlinks = <<>>
          /\ s.units = <<"BLUETOOTH_UNITS">> /\ s.user_units = <<>> /\ s.enable = <<>>
          /\ s.groups = <<"bluetooth">> /\ s.users = <<>>
        BY Zenon DEF EmptyService
    <2> HIDE DEF s
    <2>2. /\ s.dirs \in Seq(WriteItems) /\ s.bins \in Seq(KeptItems)
          /\ s.config_trees \in Seq(KeptItems)
          /\ s.config_files \in Seq(KeptItems \cup {"etc/pam.d/sshd"})
          /\ s.symlinks \in Seq(LinkItems) /\ s.units \in Seq(KeptItems)
          /\ s.user_units \in Seq(OverItems) /\ s.enable \in Seq(LinkItems)
          /\ s.groups \in Seq(AccountNames) /\ s.users \in Seq(AccountNames)
        BY <2>1 DEF AccountNames, KeptItems
    <2>3. QED
        BY <2>2, ServiceSeq DEF BLUETOOTH_SVC, s
<1>7. PIPEWIRE_SVC \in Seq(BuildOps)
    <2> DEFINE s == [EmptyService EXCEPT
            !.bins = <<"wpctl">>, !.config_trees = <<"usr/share/pipewire">>,
            !.user_units = <<"PIPEWIRE_UNITS">>, !.groups = <<"pipewire", "audio">>]
    <2>1. /\ s.dirs = <<>> /\ s.bins = <<"wpctl">> /\ s.config_trees = <<"usr/share/pipewire">>
          /\ s.config_files = <<>> /\ s.symlinks = <<>> /\ s.units = <<>>
          /\ s.user_units = <<"PIPEWIRE_UNITS">> /\ s.enable = <<>>
          /\ s.groups = <<"pipewire", "audio">> /\ s.users = <<>>
        BY Zenon DEF EmptyService
    <2> HIDE DEF s
    <2>2. /\ s.dirs \in Seq(WriteItems) /\ s.bins \in Seq(KeptItems)
          /\ s.config_trees \in Seq(KeptItems)
          /\ s.config_files \in Seq(KeptItems \cup {"etc/pam.d/sshd"})
          /\ s.symlinks \in Seq(LinkItems) /\ s.units \in Seq(KeptItems)
          /\ s.user_units \in Seq(OverItems) /\ s.enable \in Seq(LinkItems)
          /\ s.groups \in Seq(AccountNames) /\ s.users \in Seq(AccountNames)
        BY <2>1 DEF AccountNames, KeptItems, OverItems
    <2>3. QED
        BY <2>2, ServiceSeq DEF PIPEWIRE_SVC, s
<1>8. POLKIT_SVC \in Seq(BuildOps)
    <2> DEFINE s == [EmptyService EXCEPT
            !.bins = <<"pkexec">>, !.config_trees = <<"usr/lib/polkit-1">>,
            !.config_files = <<"PolicyKit1.conf">>, !.units = <<"POLKIT_UNITS">>,
            !.groups = <<"polkitd">>, !.users = <<"polkitd">>]
    <2>1. /\ s.dirs = <<>> /\ s.bins = <<"pkexec">> /\ s.config_trees = <<"usr/lib/polkit-1">>
          /\ s.config_files = <<"PolicyKit1.conf">> /\ s.symlinks = <<>>
          /\ s.units = <<"POLKIT_UNITS">> /\ s.user_units = <<>> /\ s.enable = <<>>
          /\ s.groups = <<"polkitd">> /\ s.users = <<"polkitd">>
        BY Zenon DEF EmptyService
    <2> HIDE DEF s
    <2>2. /\ s.dirs \in Seq(WriteItems) /\ s.bins \in Seq(KeptItems)
          /\ s.config_trees \in Seq(KeptItems)
          /\ s.config_files \in Seq(KeptItems \cup {"etc/pam.d/sshd"})
          /\ s.symlinks \in Seq(LinkItems) /\ s.units \in Seq(KeptItems)
          /\ s.user_units \in Seq(OverItems) /\ s.enable \in Seq(LinkItems)
          /\ s.groups \in Seq(AccountNames) /\ s.users \in Seq(AccountNames)
        BY <2>1 DEF AccountNames, KeptItems
    <2>3. QED
        BY <2>2, ServiceSeq DEF POLKIT_SVC, s
<1>9. UDISKS_SVC \in Seq(BuildOps)
    <2> DEFINE s == [EmptyService EXCEPT
            !.bins = <<"udisksctl">>, !.config_trees = <<"usr/libexec/udisks2">>,
            !.config_files = <<"UDisks2.conf">>, !.units = <<"UDISKS_UNITS">>]
    <2>1. /\ s.dirs = <<>> /\ s.bins = <<"udisksctl">>
          /\ s.config_trees = <<"usr/libexec/udisks2">> /\ s.config_files = <<"UDisks2.conf">>
          /\ s.symlinks = <<>> /\ s.units = <<"UDISKS_UNITS">> /\ s.user_units = <<>>
          /\ s.enable = <<>> /\ s.groups = <<>> /\ s.users = <<>>
        BY Zenon DEF EmptyService
    <2> HIDE DEF s
    <2>2. /\ s.dirs \in Seq(WriteItems) /\ s.bins \in Seq(KeptItems)
          /\ s.config_trees \in Seq(KeptItems)
          /\ s.config_files \in Seq(KeptItems \cup {"etc/pam.d/sshd"})
          /\ s.symlinks \in Seq(LinkItems) /\ s.units \in Seq(KeptItems)
          /\ s.user_units \in Seq(OverItems) /\ s.enable \in Seq(LinkItems)
          /\ s.groups \in Seq(AccountNames) /\ s.users \in Seq(AccountNames)
        BY <2>1 DEF KeptItems
    <2>3. QED
        BY <2>2, ServiceSeq DEF UDISKS_SVC, s
<1>10. UPOWER_SVC \in Seq(BuildOps)
    <2> DEFINE s == [EmptyService EXCEPT
            !.bins = <<"upower">>, !.config_trees = <<"etc/UPower">>,
            !.config_files = <<"UPower.conf", "usr/libexec/upowerd">>, !.units = <<"UPOWER_UNITS">>]
    <2>1. /\ s.dirs = <<>> /\ s.bins = <<"upower">> /\ s.config_trees = <<"etc/UPower">>
          /\ s.config_files = <<"UPower.conf", "usr/libexec/upowerd">> /\ s.symlinks = <<>>
          /\ s.units = <<"UPOWER_UNITS">> /\ s.user_units = <<>> /\ s.enable = <<>>
          /\ s.groups = <<>> /\ s.users = <<>>
        BY Zenon DEF EmptyService
    <2> HIDE DEF s
    <2>2. /\ s.dirs \in Seq(WriteItems) /\ s.bins \in Seq(KeptItems)
          /\ s.config_trees \in Seq(KeptItems)
          /\ s.config_files \in Seq(KeptItems \cup {"etc/pam.d/sshd"})
          /\ s.symlinks \in Seq(LinkItems) /\ s.units \in Seq(KeptItems)
          /\ s.user_units \in Seq(OverItems) /\ s.enable \in Seq(LinkItems)
          /\ s.groups \in Seq(AccountNames) /\ s.users \in Seq(AccountNames)
        BY <2>1 DEF KeptItems
    <2>3. QED
        BY <2>2, ServiceSeq DEF UPOWER_SVC, s
<1>11. QED
    BY <1>1, <1>2, <1>3, <1>4, <1>5, <1>6, <1>7, <1>8, <1>9, <1>10

(* The operations of the later phases, kind by kind.                       *)
LEMMA LaterKinds ==
    /\ \A i \in OverItems, k \in OverKinds : <<k, i>> \in LaterOps
    /\ \A i \in KeptItems, k \in KeptKinds : <<k, i>> \in LaterOps
    /\ \A i \in WriteItems : <<"write", i>> \in LaterOps
    /\ EtcOps \subseteq LaterOps
BY DEF LaterOps, TreeOps

(* The later phases have no accounts to ensure.                            *)
LEMMA LaterComponents ==
    /\ ETC_CONFIG \in Seq(LaterOps) /\ RECIPE \in Seq(LaterOps) /\ BOOTLOADER \in Seq(LaterOps)
    /\ FIRMWARE \in Seq(LaterOps) /\ FINAL \in Seq(LaterOps)
<1>1. ETC_CONFIG \in Seq(LaterOps)
    <2>1. /\ <<"copytree", "usr/share/terminfo">> \in LaterOps
          /\ <<"static_accounts", "etc/passwd">> \in LaterOps
          /\ <<"write", "etc/files">> \in LaterOps /\ <<"write", "etc/profile.d">> \in LaterOps
          /\ <<"write_in", "usr/lib/tmpfiles.d">> \in LaterOps
          /\ <<"present", "etc/ld.so.conf.d">> \in LaterOps
          /\ <<"present", "usr/share/zoneinfo">> \in LaterOps
          /\ <<"present", "usr/lib/locale/locale-archive">> \in LaterOps
          /\ <<"write", "etc/selinux/config">> \in LaterOps
          /\ <<"host_keys", "etc/ssh/host_key">> \in LaterOps
        BY LaterKinds DEF EtcOps, KeptItems, OverItems, WriteItems, OverKinds, Replacing, KeptKinds
    <2>2. QED
        BY <2>1, ConcatProperties DEF ETC_CONFIG, CreateEtcFiles, CreateSystemFiles,
           CreateTmpfilesConfigs, CopyLdSoConf, CopyTimezoneData, CopyLocales, DisableSelinux,
           CreateSshHostKeys
<1>2. RECIPE \in Seq(LaterOps)
    <2>1. /\ <<"built", "recipe">> \in LaterOps /\ <<"write", "etc/recipe">> \in LaterOps
          /\ <<"write_in", "etc/profile.d">> \in LaterOps
        BY LaterKinds DEF EtcOps, OverItems, WriteItems, OverKinds, Replacing
    <2>2. QED
        BY <2>1, ConcatProperties DEF RECIPE, CopyRecipe, SetupRecipeConfig
<1>3. BOOTLOADER \in Seq(LaterOps)
    <2>1. /\ <<"recursive", "systemd-boot-unsigned">> \in LaterOps
        BY LaterKinds DEF OverItems, OverKinds, Replacing
    <2>2. QED
        BY <2>1, ConcatProperties DEF BOOTLOADER, CopySystemdBootEfi
<1>4. FIRMWARE \in Seq(LaterOps)
    <2>1. /\ <<"recursive", "usr/lib/firmware">> \in LaterOps
          /\ <<"recursive", "amd-ucode">> \in LaterOps
          /\ <<"recursive", "intel-ucode">> \in LaterOps
          /\ <<"recursive", "usr/lib/kbd/keymaps">> \in LaterOps
        BY LaterKinds DEF OverItems, OverKinds, Replacing
    <2>2. QED
        BY <2>1, ConcatProperties DEF FIRMWARE, CopyAllFirmware, CopyKeymaps
<1>5. FINAL \in Seq(LaterOps)
    <2>1. /\ <<"write", "etc/motd">> \in LaterOps
          /\ <<"built", "LEVITATE_CARGO_TOOLS">> \in LaterOps
          /\ <<"built", "stage-tests">> \in LaterOps
          /\ <<"built", "levitate-docs">> \in LaterOps
        BY LaterKinds DEF OverItems, WriteItems, OverKinds, Replacing
    <2>2. QED
        BY <2>1, ConcatProperties DEF FINAL, CreateWelcomeMessage, InstallTools,
           InstallStageTests, CopyDocsTui
<1>6. QED
    BY <1>1, <1>2, <1>3, <1>4, <1>5

(* The first four phases begin with the directories and the lib symlink.   *)
LEMMA BaseShape ==
    /\ BasePhases \in Seq(BuildOps)
    /\ Len(BasePhases) > 2 /\ BasePhases[1][1] = "write" /\ BasePhases[2] = <<"link", "lib">>
    /\ {<<"units", "ESSENTIAL_UNITS">>, <<"write", "efivars.mount">>} \subseteq ToSet(BasePhases)
<1> DEFINE Begins(s) == /\ s \in Seq(BuildOps) /\ Len(s) > 2
                        /\ s[1][1] = "write" /\ s[2] = <<"link", "lib">>
<1>1. ASSUME NEW s, Begins(s), NEW t \in Seq(BuildOps)
      PROVE  Begins(s \o t) /\ ToSet(s) \cup ToSet(t) \subseteq ToSet(s \o t)
    <2>1. /\ s \in Seq(BuildOps) /\ Len(s) \in Nat /\ Len(t) \in Nat
          /\ 1 \in 1..Len(s) /\ 2 \in 1..Len(s)
        BY <1>1
    <2>2. /\ s \o t \in Seq(BuildOps) /\ Len(s \o t) = Len(s) + Len(t)
          /\ ToSet(s \o t) = ToSet(s) \cup ToSet(t)
          /\ \A i \in 1..Len(s) : (s \o t)[i] = s[i]
        BY <1>1, <2>1, Concat
    <2>3. (s \o t)[1] = s[1] /\ (s \o t)[2] = s[2]
        BY <2>1, <2>2
    <2>4. QED
        BY <1>1, <2>1, <2>2, <2>3
<1> USE BaseComponents
<1> DEFINE binaries == FILESYSTEM \o SHELL \o COREUTILS \o SBIN_BINARIES \o SYSTEMD_BINS
           units == binaries \o SYSTEMD_UNITS
           efi == units \o GETTY \o EFIVARS
           udev == efi \o UDEV \o TMPFILES \o LIVE_SYSTEMD
<1>2. Begins(FILESYSTEM)
    BY DEF FILESYSTEM
<1> HIDE DEF Begins
<1>3. Begins(binaries)
    BY <1>1, <1>2
<1>4. Begins(units) /\ ToSet(SYSTEMD_UNITS) \subseteq ToSet(units)
    BY <1>1, <1>3
<1>5. Begins(efi) /\ ToSet(units) \cup ToSet(EFIVARS) \subseteq ToSet(efi)
    <2> HIDE DEF units
    <2>1. Begins(units \o GETTY) /\ ToSet(units) \subseteq ToSet(units \o GETTY)
        BY <1>1, <1>4
    <2>2. QED
        BY <1>1, <2>1
<1>6. Begins(udev) /\ ToSet(efi) \subseteq ToSet(udev)
    <2> HIDE DEF efi
    <2>1. Begins(efi \o UDEV) /\ ToSet(efi) \subseteq ToSet(efi \o UDEV)
        BY <1>1, <1>5
    <2>2. Begins(efi \o UDEV \o TMPFILES) /\ ToSet(efi) \subseteq ToSet(efi \o UDEV \o TMPFILES)
        BY <1>1, <2>1
    <2>3. QED
        BY <1>1, <2>2
<1>7. Begins(BasePhases) /\ ToSet(udev) \subseteq ToSet(BasePhases)
    BY <1>1, <1>6 DEF BasePhases
<1>8. <<"units", "ESSENTIAL_UNITS">> \in ToSet(SYSTEMD_UNITS)
    BY DEF SYSTEMD_UNITS, ToSet
<1>9. <<"write", "efivars.mount">> \in ToSet(EFIVARS)
    BY DEF EFIVARS, ToSet
<1>10. QED
    BY <1>4, <1>5, <1>6, <1>7, <1>8, <1>9 DEF Begins

(* The services: NetworkManager's units are among them.                    *)
LEMMA ServiceShape ==
    /\ ServicePhase \in Seq(BuildOps)
    /\ <<"units", "NM_UNITS">> \in ToSet(ServicePhase)
<1> USE ServiceComponents
<1> DEFINE Has(s) == s \in Seq(BuildOps) /\ <<"units", "NM_UNITS">> \in ToSet(s)
<1>1. ASSUME NEW s, Has(s), NEW t \in Seq(BuildOps)
      PROVE  Has(s \o t)
    BY <1>1, Concat
<1>2. Has(NETWORK)
    <2> DEFINE s == <<<<"bins", "NM_SBIN">>, <<"bins", "NM_BIN">>, <<"bins", "WPA_SBIN">>,
              <<"copytree", "usr/libexec">>, <<"copytree", "etc/NetworkManager">>,
              <<"copyfile", "NetworkManager.conf">>, <<"copyfile", "wpa_supplicant.conf">>,
              <<"units", "NM_UNITS">>, <<"units", "WPA_UNITS">>, <<"link", "wants/NetworkManager">>>>
    <2>1. Len(s) = 10 /\ s[8] = <<"units", "NM_UNITS">>
        OBVIOUS
    <2>2. NETWORK[8] = s[8] /\ 8 \in 1..Len(NETWORK)
        BY <2>1, ConcatProperties DEF NETWORK, CopyWifiFirmware
    <2>3. DOMAIN NETWORK = 1..Len(NETWORK)
        BY LenProperties
    <2>4. QED
        BY <2>1, <2>2, <2>3, Zenon DEF ToSet
<1> HIDE DEF Has
<1>3. Has(NETWORK \o CHRONY_SVC \o OPENSSH_SVC \o PAM \o MODULES \o BLUETOOTH_SVC)
    BY <1>1, <1>2
<1>4. Has(ServicePhase)
    BY <1>1, <1>3 DEF ServicePhase
<1>5. QED
    BY <1>4 DEF Has

(* The later phases: the account files, the host keys, the verification.   *)
LEMMA LaterShape ==
    /\ LaterPhases \in Seq(LaterOps)
    /\ {<<"static_accounts", "etc/passwd">>, <<"host_keys", "etc/ssh/host_key">>,
        <<"verify", "staging">>} \subseteq ToSet(LaterPhases)
<1> USE LaterComponents
<1> DEFINE Has(s) == /\ s \in Seq(LaterOps)
                     /\ <<"static_accounts", "etc/passwd">> \in ToSet(s)
                     /\ <<"host_keys", "etc/ssh/host_key">> \in ToSet(s)
           last == <<<<"write", "licenses">>, <<"verify", "staging">>>>
<1>1. ASSUME NEW s, Has(s), NEW t \in Seq(LaterOps)
      PROVE  Has(s \o t) /\ ToSet(t) \subseteq ToSet(s \o t)
    BY <1>1, Concat
<1>2. Has(ETC_CONFIG)
    <2>1. /\ ETC_CONFIG[1] = <<"static_accounts", "etc/passwd">>
          /\ ETC_CONFIG[9] = <<"host_keys", "etc/ssh/host_key">>
          /\ 1 \in 1..Len(ETC_CONFIG) /\ 9 \in 1..Len(ETC_CONFIG)
        BY DEF ETC_CONFIG, CreateEtcFiles, CreateSystemFiles, CreateTmpfilesConfigs, CopyLdSoConf,
               CopyTimezoneData, CopyLocales, DisableSelinux, CreateSshHostKeys
    <2>2. DOMAIN ETC_CONFIG = 1..Len(ETC_CONFIG)
        BY LenProperties
    <2>3. QED
        BY <2>1, <2>2, Zenon DEF ToSet
<1>3. last \in Seq(LaterOps)
    <2>1. <<"write", "licenses">> \in LaterOps /\ <<"verify", "staging">> \in LaterOps
        BY LaterKinds DEF EtcOps, WriteItems
    <2>2. QED
        BY <2>1
<1>4. <<"verify", "staging">> \in ToSet(last)
    BY DEF ToSet
<1> HIDE DEF Has, last
<1>5. Has(ETC_CONFIG \o RECIPE \o BOOTLOADER \o FIRMWARE \o FINAL)
    BY <1>1, <1>2
<1>6. Has(LaterPhases) /\ ToSet(last) \subseteq ToSet(LaterPhases)
    BY <1>1, <1>3, <1>5 DEF LaterPhases, last
<1>7. QED
    BY <1>4, <1>6 DEF Has

-----------------------------------------------------------------------------
(* The order of the whole build: the lib symlink comes before whatever     *)
(* goes by way of it, and no account is ensured once the account files     *)
(* were replaced; and the operations that the invariants speak of.         *)
LEMMA SystemShape ==
    /\ System \in Seq(KnownOps)
    /\ Len(System) > 2 /\ System[1][1] = "write" /\ System[2] = <<"link", "lib">>
    /\ \E n \in Nat : \A j \in 1..Len(System) : System[j] \in IF j <= n THEN BuildOps ELSE LaterOps
    /\ Ops = {System[j] : j \in 1..Len(System)}
    /\ {<<"units", "ESSENTIAL_UNITS">>, <<"write", "efivars.mount">>, <<"units", "NM_UNITS">>,
        <<"static_accounts", "etc/passwd">>, <<"host_keys", "etc/ssh/host_key">>,
        <<"verify", "staging">>} \subseteq Ops
<1> DEFINE early == BasePhases \o ServicePhase
<1>1. /\ early \in Seq(BuildOps) /\ ToSet(early) = ToSet(BasePhases) \cup ToSet(ServicePhase)
      /\ Len(early) = Len(BasePhases) + Len(ServicePhase)
      /\ \A i \in 1..Len(BasePhases) : early[i] = BasePhases[i]
    BY BaseShape, ServiceShape, Concat
<1>2. Len(BasePhases) \in Nat /\ Len(ServicePhase) \in Nat /\ Len(LaterPhases) \in Nat
    BY BaseShape, ServiceShape, LaterShape
<1>3. Len(early) > 2 /\ early[1][1] = "write" /\ early[2] = <<"link", "lib">>
    BY <1>1, <1>2, BaseShape
<1> HIDE DEF early
<1>4. early \in Seq(KnownOps) /\ LaterPhases \in Seq(KnownOps)
    <2>1. BuildOps \subseteq KnownOps /\ LaterOps \subseteq KnownOps
        BY DEF KnownOps, BuildOps, LaterOps
    <2>2. QED
        BY <1>1, <2>1, LaterShape, SeqMonotonic
<1>5. /\ System \in Seq(KnownOps) /\ ToSet(System) = ToSet(early) \cup ToSet(LaterPhases)
      /\ Len(System) = Len(early) + Len(LaterPhases)
      /\ \A i \in 1..Len(early) : System[i] = early[i]
      /\ \A i \in (Len(early) + 1)..Len(System) : System[i] \in ToSet(LaterPhases)
    <2>1. System = early \o LaterPhases
        BY DEF System, early
    <2>2. QED
        BY <1>4, <2>1, Concat
<1>6. Len(early) \in Nat
    BY <1>1
<1>7. Len(System) > 2 /\ System[1][1] = "write" /\ System[2] = <<"link", "lib">>
    BY <1>2, <1>3, <1>5, <1>6
<1>8. \A j \in 1..Len(System) : System[j] \in IF j <= Len(early) THEN BuildOps ELSE LaterOps
    <2>1. ASSUME NEW j \in 1..Len(System), j <= Len(early)
          PROVE  System[j] \in BuildOps
        <3>1. j \in 1..Len(early) /\ System[j] = early[j]
            BY <1>5, <1>6, <2>1
        <3>2. QED
            BY <1>1, <3>1, ElementOfSeq
    <2>2. ASSUME NEW j \in 1..Len(System), ~(j <= Len(early))
          PROVE  System[j] \in LaterOps
        <3>1. System[j] \in ToSet(LaterPhases)
            BY <1>5, <1>6, <2>2
        <3>2. QED
            BY <3>1, LaterShape DEF ToSet
    <2>3. QED
        BY <2>1, <2>2
<1>9. Ops = {System[j] : j \in 1..Len(System)}
    <2>1. DOMAIN System = 1..Len(System)
        BY <1>5, LenProperties
    <2>2. QED
        BY <2>1, Zenon DEF Ops, ToSet
<1>10. ToSet(BasePhases) \cup ToSet(ServicePhase) \cup ToSet(LaterPhases) \subseteq Ops
    BY <1>1, <1>5, Zenon DEF Ops
<1>11. QED
    BY <1>5, <1>6, <1>7, <1>8, <1>9, <1>10, BaseShape, ServiceShape, LaterShape

(* What is known of the item of an operation by its kind.                  *)
LEMMA KnownItem ==
    ASSUME NEW op \in KnownOps
    PROVE  /\ op = <<op[1], op[2]>>
           /\ op[1] \in OverKinds => op[2] \in OverItems
           /\ op[1] \in KeptKinds => op[2] \in KeptItems \cup {"etc/pam.d/sshd"}
           /\ op[1] = "write" => op[2] \in WriteItems
           /\ op[1] = "link" => op[2] \in LinkItems
           /\ op[1] = "through" => op[2] = "lib"
           /\ op[1] = "modules" => op[2] = "lib/modules"
BY DEF KnownOps, BuildOps, EtcOps, TreeOps, AccountOps, OverKinds, Replacing, KeptKinds

(* An item is named by the operations of some kinds if there is one.       *)
LEMMA NamedIs ==
    ASSUME NEW kinds
    PROVE  /\ \A j \in 1..Len(System) : System[j][1] \in kinds => System[j][2] \in Named(kinds)
           /\ \A i \in Named(kinds) :
                 \E j \in 1..Len(System) : System[j][1] \in kinds /\ System[j][2] = i
BY SystemShape DEF Named

(* The items of each kind.                                                 *)
LEMMA NamedItems ==
    /\ Named(OverKinds) \subseteq OverItems
    /\ Named(KeptKinds) \subseteq KeptItems \cup {"etc/pam.d/sshd"}
    /\ Named({"write"}) \subseteq WriteItems /\ Named({"link"}) \subseteq LinkItems
    /\ Named({"through"}) \subseteq {"lib"} /\ Named({"modules"}) \subseteq {"lib/modules"}
<1>1. \A op \in Ops : op \in KnownOps
    BY SystemShape
<1>2. QED
    BY <1>1, KnownItem DEF Named

(* What is copied over, what is kept, what is made, the kernel's modules   *)
(* and the host keys are different items; but the PAM file of sshd is both *)
(* copied, if nothing is there, and written.                               *)
LEMMA Apart ==
    /\ OverItems \cap (WriteItems \cup LinkItems \cup {"lib"}) = {}
    /\ KeptItems \cap (WriteItems \cup LinkItems \cup {"lib"}) = {}
    /\ "etc/pam.d/sshd" \notin LinkItems \cup {"lib"}
    /\ "lib/modules" \notin OverItems \cup KeptItems \cup WriteItems \cup LinkItems
    /\ "lib/modules" \notin {"lib"} \cup Pair
    /\ Pair \cap (OverItems \cup KeptItems \cup WriteItems \cup LinkItems \cup {"lib"}) = {}
    /\ "etc/pam.d/sshd" \notin Pair
<1>1. Pair = {"etc/ssh/host_key", "etc/ssh/host_key.pub"}
    BY DEF Pair, Within
<1>2. QED
    BY <1>1 DEF OverItems, KeptItems, WriteItems, LinkItems

(* The items that are only copied, and those that are only made.           *)
Copied == Named(Copies) \ Named(Made)
MadeOnly == Named(Made) \ Named(Copies)

(* What the invariants need to know of the definitions.                    *)
LEMMA ItemFacts ==
    /\ Named(Copies) = Named(OverKinds) \cup Named(KeptKinds)
    /\ Named(Made) = Named({"write"}) \cup Named({"link"}) \cup Named({"through"})
    /\ Items = Named(Copies) \cup Named(Made) \cup Named({"modules"}) \cup Pair
    /\ Named(OverKinds) \subseteq Copied
    /\ Named({"link"}) \cup Named({"through"}) \subseteq MadeOnly
    /\ Named({"modules"}) \subseteq {"lib/modules"}
    /\ "lib/modules" \notin Named(Copies) \cup Named(Made) \cup Pair
    /\ Pair \cap (Named(Copies) \cup Named(Made)) = {}
    /\ "lib" \in MadeOnly /\ Named({"through"}) \subseteq {"lib"}
<1>1. Copies = OverKinds \cup KeptKinds
    BY DEF Copies, OverKinds, KeptKinds, Replacing
<1>2. ASSUME NEW A, NEW B
      PROVE  Named(A \cup B) = Named(A) \cup Named(B)
    BY DEF Named
<1>3. Named(Copies) = Named(OverKinds) \cup Named(KeptKinds)
    BY <1>1, <1>2
<1>4. Named(Made) = Named({"write"}) \cup Named({"link"}) \cup Named({"through"})
    BY DEF Made, Named
<1>5. Items = Named(Copies) \cup Named(Made) \cup Named({"modules"}) \cup Pair
    <2>1. Named((Copies \cup Made) \cup {"modules"}) = Named(Copies \cup Made) \cup Named({"modules"})
        BY <1>2, Zenon
    <2>2. Named(Copies \cup Made) = Named(Copies) \cup Named(Made)
        BY <1>2, Zenon
    <2>3. QED
        BY <2>1, <2>2, Zenon DEF Items, Pair
<1>6. "lib" \in Named({"link"})
    <2>1. 2 \in 1..Len(System) /\ System[2][1] \in {"link"} /\ System[2][2] = "lib"
        BY SystemShape
    <2>2. QED
        BY <2>1, NamedIs
<1>7. QED
    BY <1>3, <1>4, <1>5, <1>6, NamedItems, Apart DEF Copied, MadeOnly

(* The units and the mount that are asked for by name are operated on.     *)
LEMMA UnitItems ==
    /\ {"NM_UNITS", "ESSENTIAL_UNITS"} \subseteq Items
    /\ \E j \in 1..Len(System) : System[j] = <<"write", "efivars.mount">>
<1>1. PICK j \in 1..Len(System) : System[j] = <<"units", "NM_UNITS">>
    BY SystemShape
<1>2. PICK k \in 1..Len(System) : System[k] = <<"units", "ESSENTIAL_UNITS">>
    BY SystemShape
<1>3. PICK l \in 1..Len(System) : System[l] = <<"write", "efivars.mount">>
    BY SystemShape
<1>4. "NM_UNITS" \in Named(Copies) /\ "ESSENTIAL_UNITS" \in Named(Copies)
    <2>1. System[j][1] \in Copies /\ System[j][2] = "NM_UNITS"
        BY <1>1 DEF Copies
    <2>2. System[k][1] \in Copies /\ System[k][2] = "ESSENTIAL_UNITS"
        BY <1>2 DEF Copies
    <2>3. QED
        BY <2>1, <2>2, NamedIs
<1>5. QED
    BY <1>3, <1>4, ItemFacts

(* A tree brings along only items that are copied, or the host keys.       *)
LEMMA WithinFacts == \A tree : Within(tree) \cap Items \subseteq Copied \cup Pair
<1> SUFFICES ASSUME NEW tree, NEW i \in Within(tree), i \in Items, i \notin Pair
             PROVE  i \in Copied
    OBVIOUS
<1>1. i \in {"NetworkManager.conf", "bluetooth.conf", "PolicyKit1.conf", "UDisks2.conf", "UPower.conf",
             "wpa_supplicant.conf", "usr/libexec/sudo", "SUDO_LIBS", "usr/libexec/bluetooth",
             "usr/libexec/udisks2", "usr/libexec/upowerd", "custom_modules", "rocky_modules"}
    BY DEF Within, Pair
<1>2. i \notin WriteItems \cup LinkItems \cup {"lib"} /\ i # "lib/modules"
    BY <1>1 DEF WriteItems, LinkItems
<1>3. i \notin Named(Made) /\ i \notin Named({"modules"})
    BY <1>2, ItemFacts, NamedItems
<1>4. QED
    BY <1>3, ItemFacts DEF Copied
-----------------------------------------------------------------------------
(* Of an item that is only copied there is nothing in the tree but what    *)
(* the source has, and nothing if the source lacks it; an item that is     *)
(* only made is the build's own.                                           *)
ValuesInv ==
    /\ \A i \in Copied : \/ staging[i] = "none"
                         \/ ~Lacks(i) /\ staging[i] \in {"partial", "source"}
                         \/ ~Lacks(i) /\ staging[i] = "dangling" /\ i \in Named({"bins"})
    /\ \A i \in MadeOnly : staging[i] \in {"none", "own"}
    /\ \A k \in Pair : \/ staging[k] \in {"none", "own"}
                       \/ ~Lacks(k) /\ staging[k] = "source"

(* In the tree of a build that runs, or that has succeeded, and that began *)
(* with an empty tree, nothing is cut short, and a host key that was       *)
(* generated was generated with the other one.                             *)
CleanInv ==
    (ip > 0 \/ Ok) /\ ~dirty =>
        /\ \A i \in Items : staging[i] # "partial"
        /\ \A k, l \in Pair : staging[k] = "own" => staging[l] = "own"

(* What an operation has achieved once it is done, and no later one of the *)
(* same build undoes.                                                      *)
Achieved(op) ==
    /\ op[1] \in {"write", "link"} => staging[op[2]] = "own"
    /\ op[1] \in Copies /\ ~Lacks(op[2]) => staging[op[2]] # "none"
    /\ op[1] \in Replacing /\ ~Lacks(op[2]) => staging[op[2]] = "source"
    /\ op[1] = "modules" => staging[op[2]] = IF Lacks("custom_modules") THEN "source" ELSE "own"
    /\ op[1] = "static_accounts" => \A n \in Accounts : passwd[n] # "none" => group[n] = passwd[n]
    /\ op[1] = "host_keys" => \A k \in Pair : staging[k] # "none"
    /\ op[1] = "verify" => staging["NM_UNITS"] # "none" /\ staging["ESSENTIAL_UNITS"] # "none"

(* Every operation before the current one, and every operation of a build  *)
(* that succeeded, has achieved its purpose.                               *)
DoneInv ==
    /\ ip > 0 => ~Ok
    /\ \A j \in 1..Len(System) : j < ip \/ Ok => Achieved(System[j])

(* The inductive invariant.                                                *)
IInv == TypeOK /\ ValuesInv /\ CleanInv /\ DoneInv
-----------------------------------------------------------------------------
(* What an operation that succeeds may do to an item: copy it from the     *)
(* source, make it, or leave it alone.                                     *)
Changes(i) ==
    \/ staging'[i] = staging[i]
    \/ /\ staging'[i] = "source" /\ ~Lacks(i)
       /\ i \in Named(OverKinds) \/ (i \in Named(Copies) \cup Pair /\ staging[i] = "none")
    \/ /\ staging'[i] = "dangling" /\ staging[i] = "none" /\ ~Lacks(i)
       /\ i \in Copied /\ i \in Named({"bins"})
    \/ staging'[i] = "own" /\ i \in Named({"write"})
    \/ staging'[i] = "own" /\ i \in MadeOnly /\ staging[i] = "none"
    \/ i = "lib/modules" /\ System[ip][1] = "modules" /\ staging'[i] \in {"own", "source"}
    \/ i \in Pair /\ staging'[i] = "own" /\ \A k \in Pair : staging'[k] = "own"

(* A step that does the operation op and goes on to the next.              *)
Advances(op) ==
    /\ Continue
    /\ staging' \in [Items -> {"none", "partial", "dangling", "source", "own", "dir"}]
    /\ \A i \in Items : Changes(i)
    /\ Achieved(op)'
    /\ passwd' \in [Accounts -> Entry] /\ group' \in [Accounts -> Entry]
    /\ op[1] \notin {"user", "group", "static_accounts"} => UNCHANGED <<passwd, group>>

(* A step with which the build fails: it may leave a copy that is cut      *)
(* short, or a host key without the other.                                 *)
Stops ==
    /\ Bail
    /\ staging' \in [Items -> {"none", "partial", "dangling", "source", "own", "dir"}]
    /\ \A i \in Items : \/ staging'[i] = staging[i]
                        \/ staging'[i] = "partial" /\ i \in Named(Copies) /\ ~Lacks(i)
                        \/ staging'[i] \in {"none", "own"} /\ i \in Pair
    /\ UNCHANGED <<passwd, group>>

(* The operation at hand is known, and its item named by its kind.         *)
LEMMA AtHand ==
    ASSUME TypeOK, ip > 0
    PROVE  /\ ip \in 1..Len(System) /\ System[ip] \in KnownOps /\ System[ip] \in Ops
           /\ Item = System[ip][2]
<1>1. ip \in 1..Len(System)
    BY SystemShape DEF TypeOK
<1>2. QED
    BY <1>1, SystemShape, ElementOfSeq DEF Item

(* What the source lacks does not change while a build runs.               *)
LEMMA LacksStays ==
    ASSUME UNCHANGED missing
    PROVE  \A i : Lacks(i)' <=> Lacks(i)
BY DEF Lacks

(* What is put into the tree.                                              *)
LEMMA PutItems ==
    ASSUME TypeOK, NEW S, NEW what \in {"none", "partial", "dangling", "source", "own", "dir"},
           Put(S, what)
    PROVE  /\ staging' \in [Items -> {"none", "partial", "dangling", "source", "own", "dir"}]
           /\ \A i \in Items : staging'[i] = IF i \in S THEN what ELSE staging[i]
BY DEF Put, TypeOK

(* Copying to where nothing is does to no item more than an operation may, *)
(* and afterwards there is something of each that the source has.          *)
LEMMA CopyMissingItems ==
    ASSUME TypeOK, NEW S, S \cap Items \subseteq Named(Copies) \cup Pair, CopyMissing(S)
    PROVE  /\ staging' \in [Items -> {"none", "partial", "dangling", "source", "own", "dir"}]
           /\ \A i \in Items : Changes(i)
           /\ \A i \in S \cap Items : ~Lacks(i) => staging'[i] # "none"
<1>1. /\ staging' \in [Items -> {"none", "partial", "dangling", "source", "own", "dir"}]
      /\ \A i \in Items : staging'[i] = IF i \in {k \in S : ~Lacks(k) /\ staging[k] = "none"}
                                        THEN "source" ELSE staging[i]
    BY PutItems DEF CopyMissing
<1>2. QED
    BY <1>1 DEF Changes

(* Copying over what is there leaves what the source has.                  *)
LEMMA CopyOverItem ==
    ASSUME TypeOK, NEW i \in Named(OverKinds), CopyOver({i})
    PROVE  /\ staging' \in [Items -> {"none", "partial", "dangling", "source", "own", "dir"}]
           /\ \A k \in Items : Changes(k)
           /\ i \in Items /\ (~Lacks(i) => staging'[i] = "source")
<1>1. /\ staging' \in [Items -> {"none", "partial", "dangling", "source", "own", "dir"}]
      /\ \A k \in Items : staging'[k] = IF k \in {l \in {i} : ~Lacks(l)} THEN "source" ELSE staging[k]
    BY PutItems DEF CopyOver
<1>2. i \in Items
    BY ItemFacts
<1>3. QED
    BY <1>1, <1>2 DEF Changes

(* Leaving the tree alone is something every operation may do.             *)
LEMMA NoChange ==
    ASSUME TypeOK, UNCHANGED staging
    PROVE  /\ staging' \in [Items -> {"none", "partial", "dangling", "source", "own", "dir"}]
           /\ \A i \in Items : Changes(i)
BY DEF Changes, TypeOK

(* An operation for which the source must have the item stops the build or *)
(* copies it.                                                              *)
LEMMA CopyStep ==
    ASSUME IInv, NEW op \in KnownOps, op = System[ip], ip > 0, op[1] \in Copies,
           HandleBins \/ HandleBash \/ HandleSystemdBinaries \/ HandleSudoLibs
           \/ HandleCopyfile \/ HandleCopytree \/ HandleUnits \/ HandleUserUnits
           \/ CopyBuilt \/ CopyRecursive \/ CopyPresent
    PROVE  Advances(op) \/ Stops
<1> USE DEF IInv
<1>1. /\ ip \in 1..Len(System) /\ Item = op[2] /\ op[2] \in Named(Copies)
      /\ op[1] \in OverKinds => op[2] \in Named(OverKinds)
      /\ op[1] \in KeptKinds => op[2] \in Named(KeptKinds)
      /\ op[1] = "bins" => op[2] \in Named({"bins"})
      /\ op[2] \in Items /\ op[2] \notin Pair
    BY AtHand, NamedIs, ItemFacts
<1>2. UNCHANGED Accounted
    BY DEF HandleBins, HandleBash, HandleSystemdBinaries, HandleSudoLibs, HandleCopyfile,
           HandleCopytree, HandleUnits, HandleUserUnits, CopyBuilt, CopyRecursive, CopyPresent
<1>3. passwd' \in [Accounts -> Entry] /\ group' \in [Accounts -> Entry] /\ UNCHANGED <<passwd, group>>
    BY <1>2 DEF TypeOK, Accounted
<1>4. ASSUME Bail, UNCHANGED staging
      PROVE  Stops
    BY <1>3, <1>4 DEF Stops, TypeOK
<1>5. ASSUME Continue,
             staging' \in [Items -> {"none", "partial", "dangling", "source", "own", "dir"}],
             \A i \in Items : Changes(i),
             ~Lacks(op[2]) => staging'[op[2]] # "none",
             op[1] \in Replacing /\ ~Lacks(op[2]) => staging'[op[2]] = "source"
      PROVE  Advances(op)
    <2>1. Lacks(op[2])' <=> Lacks(op[2])
        BY <1>5, LacksStays DEF Continue
    <2>2. Achieved(op)'
        BY <1>5, <2>1 DEF Achieved, Copies
    <2>3. QED
        BY <1>3, <1>5, <2>2 DEF Advances
<1>6. ASSUME Continue, CopyMissing({op[2]}), op[1] \notin Replacing
      PROVE  Advances(op)
    <2>1. {op[2]} \cap Items \subseteq Named(Copies) \cup Pair
        BY <1>1
    <2>2. QED
        BY <1>1, <1>5, <1>6, <2>1, CopyMissingItems
<1>7. ASSUME Continue, CopyOver({op[2]}), op[1] \in OverKinds
      PROVE  Advances(op)
    BY <1>1, <1>5, <1>7, CopyOverItem
<1>8. CASE HandleBins
    <2>1. op[1] = "bins"
        BY <1>8 DEF HandleBins, At
    <2>2. ASSUME ~Lacks(op[2]), op[2] = "SBIN_UTILS", staging[op[2]] = "none",
                 Put({op[2]}, "dangling"), Continue
          PROVE  Advances(op)
        <3>1. /\ staging' \in [Items -> {"none", "partial", "dangling", "source", "own", "dir"}]
              /\ \A i \in Items : staging'[i] = IF i \in {op[2]} THEN "dangling" ELSE staging[i]
            BY <2>2, PutItems
        <3>2. op[2] \in Copied
            <4>1. "SBIN_UTILS" \notin WriteItems \cup LinkItems \cup {"lib"}
                BY DEF WriteItems, LinkItems
            <4>2. QED
                BY <1>1, <2>2, <4>1, ItemFacts, NamedItems DEF Copied
        <3>3. \A i \in Items : Changes(i)
            BY <1>1, <2>1, <2>2, <3>1, <3>2 DEF Changes
        <3>4. QED
            BY <1>1, <1>5, <2>1, <2>2, <3>1, <3>3 DEF Replacing
    <2>3. QED
        BY <1>1, <1>4, <1>6, <1>8, <2>1, <2>2 DEF HandleBins, Found, Replacing
<1>9. CASE HandleBash
    BY <1>1, <1>4, <1>7, <1>9 DEF HandleBash, At, Found, OverKinds, Replacing
<1>10. CASE HandleSystemdBinaries
    BY <1>1, <1>7, <1>10 DEF HandleSystemdBinaries, At, OverKinds, Replacing
<1>11. CASE HandleSudoLibs
    BY <1>1, <1>4, <1>7, <1>11 DEF HandleSudoLibs, At, OverKinds, Replacing
<1>12. CASE HandleCopyfile
    BY <1>1, <1>4, <1>6, <1>12 DEF HandleCopyfile, At, Found, Replacing
<1>13. CASE HandleCopytree
    <2>1. op[1] = "copytree" /\ CopyMissing({op[2]} \cup (Within(op[2]) \cap Items)) /\ Continue
        BY <1>1, <1>13 DEF HandleCopytree, At
    <2>2. ({op[2]} \cup (Within(op[2]) \cap Items)) \cap Items \subseteq Named(Copies) \cup Pair
        BY <1>1, WithinFacts DEF Copied
    <2>3. QED
        BY <1>1, <1>5, <2>1, <2>2, CopyMissingItems DEF Replacing
<1>14. CASE HandleUnits
    BY <1>1, <1>6, <1>14 DEF HandleUnits, At, Replacing
<1>15. CASE HandleUserUnits
    BY <1>1, <1>7, <1>15 DEF HandleUserUnits, At, OverKinds, Replacing
<1>16. CASE CopyBuilt
    BY <1>1, <1>4, <1>7, <1>16 DEF CopyBuilt, At, Found, OverKinds, Replacing
<1>17. CASE CopyRecursive
    BY <1>1, <1>4, <1>6, <1>7, <1>17 DEF CopyRecursive, At, Found, OverKinds, Replacing
<1>18. CASE CopyPresent
    BY <1>1, <1>6, <1>7, <1>18 DEF CopyPresent, At, OverKinds, Replacing
<1>19. QED
    BY <1>8, <1>9, <1>10, <1>11, <1>12, <1>13, <1>14, <1>15, <1>16, <1>17, <1>18

(* The entries of an account file after ensure_user or ensure_group.       *)
LEMMA EnsuredFile ==
    ASSUME NEW file \in [Accounts -> Entry], NEW n
    PROVE  Ensured(file, n) \in [Accounts -> Entry]
BY DEF Ensured, Entry

(* What the build makes itself, the account files and the verification.    *)
LEMMA MakeStep ==
    ASSUME IInv, NEW op \in KnownOps, op = System[ip], ip > 0,
           Make \/ WriteIn \/ CopyKernelModules \/ EnsureUser \/ EnsureGroup
           \/ CreatePasswdFiles \/ GenerateHostKeys \/ VerifyStaging
    PROVE  Advances(op) \/ Stops
<1> USE DEF IInv
<1>1. ip \in 1..Len(System) /\ Item = op[2]
    BY AtHand
<1>2. passwd \in [Accounts -> Entry] /\ group \in [Accounts -> Entry]
    BY DEF TypeOK
<1>3. ASSUME Bail, UNCHANGED <<staging, passwd, group>>
      PROVE  Stops
    BY <1>3 DEF Stops, TypeOK
<1>4. CASE Make
    <2>1. /\ op[1] \in Made /\ Continue /\ UNCHANGED <<passwd, group>>
          /\ \/ op[1] = "write" /\ Put({op[2]}, "own")
             \/ op[1] = "link" /\ Put({i \in {op[2]} : staging[i] = "none"}, "own")
             \/ op[1] = "through" /\ Put({i \in {op[2]} : staging[i] = "none"}, "dir")
        BY <1>1, <1>4 DEF Make, At, Does, Accounted
    <2>2. op[2] \in Named(Made) /\ op[2] \in Items
        BY <1>1, <2>1, NamedIs, ItemFacts
    <2>3. CASE op[1] = "write"
        <3>1. Put({op[2]}, "own")
            BY <2>1, <2>3
        <3>2. /\ staging' \in [Items -> {"none", "partial", "dangling", "source", "own", "dir"}]
              /\ \A i \in Items : staging'[i] = IF i \in {op[2]} THEN "own" ELSE staging[i]
            BY <3>1, PutItems
        <3>3. op[2] \in Named({"write"})
            BY <1>1, <2>3, NamedIs
        <3>4. \A i \in Items : Changes(i)
            BY <3>2, <3>3 DEF Changes
        <3>5. Achieved(op)'
            BY <2>2, <2>3, <3>2 DEF Achieved, Copies, Replacing
        <3>6. QED
            BY <1>2, <2>1, <3>2, <3>4, <3>5 DEF Advances
    <2>4. CASE op[1] = "link"
        <3>1. Put({i \in {op[2]} : staging[i] = "none"}, "own")
            BY <2>1, <2>4
        <3>2. /\ staging' \in [Items -> {"none", "partial", "dangling", "source", "own", "dir"}]
              /\ \A i \in Items : staging'[i] = IF i \in {k \in {op[2]} : staging[k] = "none"}
                                                THEN "own" ELSE staging[i]
            BY <3>1, PutItems
        <3>3. op[2] \in MadeOnly
            BY <1>1, <2>4, NamedIs, ItemFacts
        <3>4. staging[op[2]] \in {"none", "own"}
            BY <3>3 DEF ValuesInv
        <3>5. \A i \in Items : Changes(i)
            BY <3>2, <3>3 DEF Changes
        <3>6. Achieved(op)'
            BY <2>2, <2>4, <3>2, <3>4 DEF Achieved, Copies, Replacing
        <3>7. QED
            BY <1>2, <2>1, <3>2, <3>5, <3>6 DEF Advances
    <2>5. CASE op[1] = "through"
        <3>1. Put({i \in {op[2]} : staging[i] = "none"}, "dir")
            BY <2>1, <2>5
        <3>2. op[2] = "lib"
            BY <2>5, KnownItem
        <3>3. staging["lib"] = "own"
            <4>1. ip > 2 /\ 2 \in 1..Len(System)
                BY <1>1, <2>5, SystemShape
            <4>2. Achieved(System[2])
                BY <1>1, <4>1 DEF DoneInv
            <4>3. QED
                BY <4>2, SystemShape DEF Achieved
        <3>4. /\ staging' \in [Items -> {"none", "partial", "dangling", "source", "own", "dir"}]
              /\ \A i \in Items : staging'[i] = IF i \in {k \in {op[2]} : staging[k] = "none"}
                                                THEN "dir" ELSE staging[i]
            BY <3>1, PutItems
        <3>5. \A i \in Items : Changes(i)
            BY <3>2, <3>3, <3>4 DEF Changes
        <3>6. Achieved(op)'
            BY <2>5 DEF Achieved, Copies, Replacing
        <3>7. QED
            BY <1>2, <2>1, <3>4, <3>5, <3>6 DEF Advances
    <2>6. QED
        BY <2>1, <2>3, <2>4, <2>5
<1>5. CASE WriteIn
    <2>1. op[1] = "write_in" /\ UNCHANGED <<staging, passwd, group>> /\ (Continue \/ Bail)
        BY <1>5 DEF WriteIn, At, Accounted
    <2>2. Achieved(op)'
        BY <2>1 DEF Achieved, Copies, Replacing
    <2>3. QED
        BY <1>2, <1>3, <2>1, <2>2, NoChange DEF Advances
<1>6. CASE CopyKernelModules
    <2>1. /\ op[1] = "modules" /\ UNCHANGED <<passwd, group>>
          /\ \/ ~Lacks("custom_modules") /\ Put({op[2]}, "own") /\ Continue
             \/ Lacks("custom_modules") /\ Put({op[2]}, "source") /\ Continue
             \/ Bail /\ UNCHANGED staging
        BY <1>1, <1>6 DEF CopyKernelModules, At, Accounted
    <2>2. op[2] = "lib/modules" /\ op[2] \in Items
        BY <1>1, <2>1, KnownItem, NamedIs, ItemFacts
    <2>3. ASSUME Continue,
                 NEW what \in {"own", "source"}, Put({op[2]}, what),
                 what = IF Lacks("custom_modules") THEN "source" ELSE "own"
          PROVE  Advances(op)
        <3>1. /\ staging' \in [Items -> {"none", "partial", "dangling", "source", "own", "dir"}]
              /\ \A i \in Items : staging'[i] = IF i \in {op[2]} THEN what ELSE staging[i]
            BY <2>3, PutItems
        <3>2. \A i \in Items : Changes(i)
            BY <2>1, <2>2, <3>1 DEF Changes
        <3>3. Lacks("custom_modules")' <=> Lacks("custom_modules")
            BY <2>3, LacksStays DEF Continue
        <3>4. Achieved(op)'
            BY <2>1, <2>2, <2>3, <3>1, <3>3 DEF Achieved, Copies, Replacing
        <3>5. QED
            BY <1>2, <2>1, <2>3, <3>1, <3>2, <3>4 DEF Advances
    <2>4. QED
        BY <1>3, <2>1, <2>3
<1>7. CASE EnsureUser
    <2>1. /\ op[1] = "user" /\ UNCHANGED <<staging, group>> /\ Continue
          /\ passwd' = Ensured(passwd, op[2])
        BY <1>1, <1>7 DEF EnsureUser, At
    <2>2. Achieved(op)'
        BY <2>1 DEF Achieved, Copies, Replacing
    <2>3. QED
        BY <1>2, <2>1, <2>2, NoChange, EnsuredFile DEF Advances
<1>8. CASE EnsureGroup
    <2>1. /\ op[1] = "group" /\ UNCHANGED <<staging, passwd>> /\ Continue
          /\ group' = Ensured(group, op[2])
        BY <1>1, <1>8 DEF EnsureGroup, At
    <2>2. Achieved(op)'
        BY <2>1 DEF Achieved, Copies, Replacing
    <2>3. QED
        BY <1>2, <2>1, <2>2, NoChange, EnsuredFile DEF Advances
<1>9. CASE CreatePasswdFiles
    <2>1. /\ op[1] = "static_accounts" /\ UNCHANGED staging /\ Continue
          /\ passwd' = [n \in Accounts |-> IF n \in StaticUsers THEN "static" ELSE "none"]
          /\ group' = [n \in Accounts |-> IF n \in StaticGroups THEN "static" ELSE "none"]
        BY <1>9 DEF CreatePasswdFiles, At
    <2>2. \A n \in Accounts : passwd'[n] # "none" => group'[n] = passwd'[n]
        BY <2>1 DEF StaticUsers, StaticGroups
    <2>3. Achieved(op)'
        BY <2>1, <2>2 DEF Achieved, Copies, Replacing
    <2>4. passwd' \in [Accounts -> Entry] /\ group' \in [Accounts -> Entry]
        BY <2>1 DEF Entry
    <2>5. QED
        BY <2>1, <2>3, <2>4, NoChange DEF Advances
<1>10. CASE GenerateHostKeys
    <2>1. op[1] = "host_keys" /\ UNCHANGED <<passwd, group>>
        BY <1>10 DEF GenerateHostKeys, At, Accounted
    <2>2. Pair \subseteq Items
        BY ItemFacts
    <2>3. CASE (\A k \in Pair : staging[k] # "none") /\ UNCHANGED staging /\ Continue
        <3>1. Achieved(op)'
            BY <2>1, <2>3 DEF Achieved, Copies, Replacing, Pair
        <3>2. QED
            BY <1>2, <2>1, <2>3, <3>1, NoChange DEF Advances
    <2>4. CASE Put(Pair, "own") /\ Continue
        <3>1. /\ staging' \in [Items -> {"none", "partial", "dangling", "source", "own", "dir"}]
              /\ \A i \in Items : staging'[i] = IF i \in Pair THEN "own" ELSE staging[i]
            BY <2>4, PutItems
        <3>2. \A i \in Items : Changes(i)
            BY <2>2, <3>1 DEF Changes
        <3>3. Achieved(op)'
            BY <2>1, <2>2, <3>1 DEF Achieved, Copies, Replacing, Pair
        <3>4. QED
            BY <1>2, <2>1, <2>4, <3>1, <3>2, <3>3 DEF Advances
    <2>5. CASE /\ staging' = [staging EXCEPT !["etc/ssh/host_key"] = "own",
                                             !["etc/ssh/host_key.pub"] = "none"]
               /\ Bail
        <3>1. Pair = {"etc/ssh/host_key", "etc/ssh/host_key.pub"}
            BY DEF Pair, Within
        <3>2. /\ staging' \in [Items -> {"none", "partial", "dangling", "source", "own", "dir"}]
              /\ \A i \in Items : \/ staging'[i] = staging[i]
                                  \/ staging'[i] \in {"none", "own"} /\ i \in Pair
            BY <2>2, <2>5, <3>1 DEF TypeOK
        <3>3. QED
            BY <2>1, <2>5, <3>2 DEF Stops
    <2>6. QED
        BY <1>10, <2>3, <2>4, <2>5 DEF GenerateHostKeys
<1>11. CASE VerifyStaging
    <2>1. /\ op[1] = "verify" /\ UNCHANGED <<staging, passwd, group>>
          /\ \/ Bail
             \/ Continue /\ staging["NM_UNITS"] # "none" /\ staging["ESSENTIAL_UNITS"] # "none"
        BY <1>11 DEF VerifyStaging, At, Accounted, Verified
    <2>2. CASE Bail
        BY <1>3, <2>1, <2>2
    <2>3. CASE Continue /\ staging["NM_UNITS"] # "none" /\ staging["ESSENTIAL_UNITS"] # "none"
        <3>1. Achieved(op)'
            BY <2>1, <2>3 DEF Achieved, Copies, Replacing
        <3>2. QED
            BY <1>2, <2>1, <2>3, <3>1, NoChange DEF Advances
    <2>4. QED
        BY <2>1, <2>2, <2>3
<1>12. QED
    BY <1>4, <1>5, <1>6, <1>7, <1>8, <1>9, <1>10, <1>11

(* An error, or the end of the process, in the middle of an operation.     *)
LEMMA FailsStops == IInv /\ Fails => Stops
<1> SUFFICES ASSUME IInv, Fails
             PROVE  Stops
    OBVIOUS
<1>1. TypeOK /\ ip > 0 /\ Bail /\ UNCHANGED <<passwd, group>>
    BY DEF IInv, Fails, Accounted
<1>2. CASE UNCHANGED staging
    BY <1>1, <1>2 DEF Stops, TypeOK
<1>3. CASE At(Copies) /\ ~Lacks(Item) /\ Put({Item}, "partial")
    <2>1. Item \in Named(Copies)
        BY <1>1, <1>3, AtHand, NamedIs DEF At
    <2>2. /\ staging' \in [Items -> {"none", "partial", "dangling", "source", "own", "dir"}]
          /\ \A i \in Items : staging'[i] = IF i \in {Item} THEN "partial" ELSE staging[i]
        BY <1>1, <1>3, PutItems
    <2>3. \A i \in Items : \/ staging'[i] = staging[i]
                           \/ staging'[i] = "partial" /\ i \in Named(Copies) /\ ~Lacks(i)
        BY <1>3, <2>1, <2>2
    <2>4. QED
        BY <1>1, <2>2, <2>3 DEF Stops
<1>4. QED
    BY <1>2, <1>3 DEF Fails

(* What an operation achieved, a later one of the same build keeps.        *)
LEMMA AchievedStays ==
    ASSUME IInv, NEW op \in KnownOps, op = System[ip], ip > 0, Advances(op),
           NEW j \in 1..Len(System), j < ip, Achieved(System[j])
    PROVE  Achieved(System[j])'
<1>1. TypeOK /\ ip \in 1..Len(System)
    BY AtHand DEF IInv
<1>2. PICK q \in KnownOps : q = System[j]
    BY SystemShape, ElementOfSeq
<1>3. \A i \in Items : Changes(i)
    BY DEF Advances
<1>4. \A i : Lacks(i)' <=> Lacks(i)
    BY LacksStays DEF Advances, Continue
<1>5. \A i \in Items : staging[i] # "none" => staging'[i] # "none"
    BY <1>3 DEF Changes
<1>6. ASSUME q[1] \in {"write", "link"}
      PROVE  staging'[q[2]] = "own"
    <2>1. q[2] \in Named(Made) /\ q[2] \in Items
        BY <1>2, <1>6, NamedIs, ItemFacts DEF Made
    <2>2. staging[q[2]] = "own"
        BY <1>2, <1>6 DEF Achieved
    <2>3. q[2] \notin Named(OverKinds) /\ q[2] # "lib/modules"
        BY <2>1, ItemFacts DEF Copied
    <2>4. QED
        BY <1>3, <2>1, <2>2, <2>3 DEF Changes
<1>7. ASSUME q[1] \in Copies, ~Lacks(q[2])
      PROVE  staging'[q[2]] # "none"
    BY <1>2, <1>5, <1>7, NamedIs, ItemFacts DEF Achieved
<1>8. ASSUME q[1] \in Replacing, ~Lacks(q[2])
      PROVE  staging'[q[2]] = "source"
    <2>1. q[2] \in Copied /\ q[2] \in Items
        BY <1>2, <1>8, NamedIs, ItemFacts DEF OverKinds
    <2>2. staging[q[2]] = "source"
        BY <1>2, <1>8 DEF Achieved
    <2>3. /\ q[2] \notin Named({"write"}) /\ q[2] \notin MadeOnly
          /\ q[2] # "lib/modules" /\ q[2] \notin Pair
        BY <2>1, ItemFacts DEF Copied, MadeOnly
    <2>4. QED
        BY <1>3, <2>1, <2>2, <2>3 DEF Changes
<1>9. ASSUME q[1] = "modules"
      PROVE  staging'[q[2]] = IF Lacks("custom_modules") THEN "source" ELSE "own"
    <2>1. q[2] = "lib/modules" /\ q[2] \in Items
        BY <1>2, <1>9, KnownItem, NamedIs, ItemFacts
    <2>2. staging[q[2]] = IF Lacks("custom_modules") THEN "source" ELSE "own"
        BY <1>2, <1>9 DEF Achieved
    <2>3. CASE op[1] = "modules"
        <3>1. op[2] = "lib/modules"
            BY <2>3, KnownItem
        <3>2. staging'[op[2]] = IF Lacks("custom_modules")' THEN "source" ELSE "own"
            BY <2>3 DEF Advances, Achieved
        <3>3. QED
            BY <1>4, <2>1, <3>1, <3>2
    <2>4. CASE op[1] # "modules"
        <3>1. staging'[q[2]] = staging[q[2]]
            BY <1>3, <2>1, <2>4, ItemFacts DEF Changes, Copied, MadeOnly
        <3>2. QED
            BY <2>2, <3>1
    <2>5. QED
        BY <2>3, <2>4
<1>10. ASSUME q[1] = "static_accounts"
       PROVE  \A n \in Accounts : passwd'[n] # "none" => group'[n] = passwd'[n]
    <2>1. PICK n \in Nat :
            \A k \in 1..Len(System) : System[k] \in IF k <= n THEN BuildOps ELSE LaterOps
        BY SystemShape
    <2>2. q \notin BuildOps
        BY <1>10 DEF BuildOps, TreeOps, AccountOps, OverKinds, Replacing, KeptKinds
    <2>3. op \in LaterOps
        BY <1>1, <1>2, <2>1, <2>2
    <2>4. op[1] \notin {"user", "group"}
        BY <2>3 DEF LaterOps, TreeOps, EtcOps, OverKinds, Replacing, KeptKinds
    <2>5. CASE op[1] = "static_accounts"
        BY <2>5 DEF Advances, Achieved
    <2>6. CASE op[1] # "static_accounts"
        <3>1. UNCHANGED <<passwd, group>>
            BY <2>4, <2>6 DEF Advances
        <3>2. QED
            BY <1>2, <1>10, <3>1 DEF Achieved
    <2>7. QED
        BY <2>5, <2>6
<1>11. ASSUME q[1] = "host_keys"
       PROVE  \A k \in Pair : staging'[k] # "none"
    BY <1>2, <1>5, <1>11, ItemFacts DEF Achieved
<1>12. ASSUME q[1] = "verify"
       PROVE  staging'["NM_UNITS"] # "none" /\ staging'["ESSENTIAL_UNITS"] # "none"
    <2>1. "NM_UNITS" \in Items /\ "ESSENTIAL_UNITS" \in Items
        BY UnitItems
    <2>2. QED
        BY <1>2, <1>5, <1>12, <2>1 DEF Achieved
<1>13. Achieved(q)'
    BY <1>4, <1>6, <1>7, <1>8, <1>9, <1>10, <1>11, <1>12 DEF Achieved, Pair, Accounts
<1>14. QED
    BY <1>2, <1>13

(* An operation that goes on preserves the invariant.                      *)
LEMMA AdvancesIInv ==
    ASSUME IInv, NEW op \in KnownOps, op = System[ip], ip > 0, Advances(op)
    PROVE  IInv'
<1>1. ip \in 1..Len(System) /\ Len(System) \in Nat /\ ~Ok
    BY AtHand, SystemShape DEF IInv, DoneInv
<1>2. /\ UNCHANGED <<missing, dirty, runs>>
      /\ \/ ip = Len(System) /\ ip' = 0 /\ result' = "ok"
         \/ ip # Len(System) /\ ip' = ip + 1 /\ UNCHANGED result
    BY DEF Advances, Continue
<1>3. \A i \in Items : Changes(i)
    BY DEF Advances
<1>4. \A i : Lacks(i)' <=> Lacks(i)
    BY <1>2, LacksStays
<1>5. TypeOK'
    <2>1. ip' \in 0..Len(System)
        BY <1>1, <1>2
    <2>2. QED
        BY <1>2, <2>1 DEF IInv, TypeOK, Advances
<1>6. ValuesInv'
    <2>1. ASSUME NEW i \in Copied
          PROVE  \/ staging'[i] = "none"
                 \/ ~Lacks(i) /\ staging'[i] \in {"partial", "source"}
                 \/ ~Lacks(i) /\ staging'[i] = "dangling" /\ i \in Named({"bins"})
        <3>1. /\ i \in Items /\ i \notin Named({"write"}) /\ i \notin MadeOnly
              /\ i \notin Pair /\ i # "lib/modules"
            BY ItemFacts DEF Copied, MadeOnly
        <3>2. QED
            BY <1>3, <3>1 DEF Changes, IInv, ValuesInv
    <2>2. ASSUME NEW i \in MadeOnly
          PROVE  staging'[i] \in {"none", "own"}
        <3>1. /\ i \in Items /\ i \notin Named(Copies) /\ i \notin Named(OverKinds)
              /\ i \notin Pair /\ i # "lib/modules"
            BY ItemFacts DEF Copied, MadeOnly
        <3>2. QED
            BY <1>3, <3>1 DEF Changes, IInv, ValuesInv, Copied
    <2>3. ASSUME NEW k \in Pair
          PROVE  staging'[k] \in {"none", "own"} \/ (~Lacks(k) /\ staging'[k] = "source")
        <3>1. k \in Items /\ k # "lib/modules" /\ k \notin Copied
            BY ItemFacts DEF Copied
        <3>2. QED
            BY <1>3, <3>1 DEF Changes, IInv, ValuesInv
    <2>4. QED
        BY <1>4, <2>1, <2>2, <2>3 DEF ValuesInv, Pair, Copied, MadeOnly, Named
<1>7. CleanInv'
    <2> SUFFICES ASSUME ~dirty
                 PROVE  /\ \A i \in Items : staging'[i] # "partial"
                        /\ \A k, l \in Pair : staging'[k] = "own" => staging'[l] = "own"
        BY <1>2 DEF CleanInv, Pair, Items, Named
    <2>1. /\ \A i \in Items : staging[i] # "partial"
          /\ \A k, l \in Pair : staging[k] = "own" => staging[l] = "own"
        BY DEF IInv, CleanInv
    <2>2. \A i \in Items : staging'[i] # "partial"
        BY <1>3, <2>1 DEF Changes
    <2>3. ASSUME NEW k \in Pair, NEW l \in Pair, staging'[k] = "own"
          PROVE  staging'[l] = "own"
        <3>1. /\ k \in Items /\ l \in Items
              /\ \A m \in Pair : /\ m \notin Named({"write"}) /\ m \notin MadeOnly
                                 /\ m \notin Named(OverKinds) /\ m # "lib/modules"
            BY ItemFacts DEF Copied, MadeOnly
        <3>2. staging[k] = "own" \/ \A m \in Pair : staging'[m] = "own"
            BY <1>3, <2>3, <3>1 DEF Changes
        <3>3. CASE staging[k] = "own"
            <4>1. staging[l] = "own"
                BY <2>1, <3>3
            <4>2. QED
                BY <1>3, <3>1, <4>1 DEF Changes
        <3>4. QED
            BY <3>2, <3>3
    <2>4. QED
        BY <2>2, <2>3
<1>8. DoneInv'
    <2>1. (ip > 0 => ~Ok)'
        BY <1>1, <1>2 DEF Ok
    <2>2. ASSUME NEW j \in 1..Len(System), (j < ip \/ Ok)'
          PROVE  Achieved(System[j])'
        <3>1. j < ip \/ j = ip
            BY <1>1, <1>2, <2>2 DEF Ok
        <3>2. CASE j < ip
            <4>1. Achieved(System[j])
                BY <3>2 DEF IInv, DoneInv
            <4>2. QED
                BY <3>2, <4>1, AchievedStays
        <3>3. CASE j = ip
            <4>1. op = System[j] /\ Achieved(op)'
                BY <3>3 DEF Advances
            <4>2. QED
                BY <4>1
        <3>4. QED
            BY <3>1, <3>2, <3>3
    <2>3. QED
        BY <2>1, <2>2 DEF DoneInv
<1>9. QED
    BY <1>5, <1>6, <1>7, <1>8 DEF IInv

(* A build that fails preserves it.                                        *)
LEMMA StopsIInv == IInv /\ ip > 0 /\ Stops => IInv'
<1> SUFFICES ASSUME IInv, ip > 0, Stops
             PROVE  IInv'
    OBVIOUS
<1>1. UNCHANGED <<missing, dirty, runs, passwd, group>> /\ ip' = 0 /\ result' = "err" /\ ~Ok'
    BY DEF Stops, Bail, Ok
<1>2. TypeOK'
    BY <1>1, SystemShape DEF IInv, TypeOK, Stops
<1>3. \A i : Lacks(i)' <=> Lacks(i)
    BY <1>1, LacksStays
<1>4. ValuesInv'
    <2>1. \A i \in Copied : i \in Items /\ i \notin Pair
        BY ItemFacts DEF Copied
    <2>2. \A i \in MadeOnly : i \in Items /\ i \notin Pair /\ i \notin Named(Copies)
        BY ItemFacts DEF MadeOnly
    <2>3. \A k \in Pair : k \in Items /\ k \notin Named(Copies)
        BY ItemFacts
    <2>4. \A i \in Copied : \/ staging'[i] = "none"
                            \/ ~Lacks(i) /\ staging'[i] \in {"partial", "source"}
                            \/ ~Lacks(i) /\ staging'[i] = "dangling" /\ i \in Named({"bins"})
        BY <2>1 DEF Stops, IInv, ValuesInv
    <2>5. \A i \in MadeOnly : staging'[i] \in {"none", "own"}
        BY <2>2 DEF Stops, IInv, ValuesInv
    <2>6. \A k \in Pair : staging'[k] \in {"none", "own"} \/ (~Lacks(k) /\ staging'[k] = "source")
        BY <2>3 DEF Stops, IInv, ValuesInv
    <2>7. QED
        BY <1>3, <2>4, <2>5, <2>6 DEF ValuesInv, Pair, Copied, MadeOnly, Named
<1>5. CleanInv' /\ DoneInv'
    BY <1>1, SystemShape DEF CleanInv, DoneInv
<1>6. QED
    BY <1>2, <1>4, <1>5 DEF IInv

(* So does the beginning of a build: with an empty tree or in what an      *)
(* earlier one has left; the source may have more than before.             *)
LEMMA BeginIInv == IInv /\ Begin => IInv'
<1> SUFFICES ASSUME IInv, Begin
             PROVE  IInv'
    OBVIOUS
<1>1. /\ ip' = 1 /\ result' = "none" /\ missing' \subseteq missing
      /\ runs < MaxRuns /\ runs' = runs + 1
    BY DEF Begin
<1>2. \/ /\ staging' = [i \in Items |-> "none"]
         /\ passwd' = [n \in Accounts |-> "none"] /\ group' = [n \in Accounts |-> "none"]
         /\ dirty' = FALSE
      \/ /\ dirty' = TRUE /\ UNCHANGED <<passwd, group>>
         /\ \E gone \in SUBSET Pair : Put(gone, "none")
    BY DEF Begin, Pair
<1>3. \/ staging' = [i \in Items |-> "none"] /\ dirty' = FALSE
      \/ /\ staging' \in [Items -> {"none", "partial", "dangling", "source", "own", "dir"}]
         /\ \A i \in Items : staging'[i] = staging[i] \/ (i \in Pair /\ staging'[i] = "none")
         /\ dirty' = TRUE
    <2>1. ASSUME NEW gone \in SUBSET Pair, Put(gone, "none")
          PROVE  /\ staging' \in [Items -> {"none", "partial", "dangling", "source", "own", "dir"}]
                 /\ \A i \in Items : staging'[i] = staging[i] \/ (i \in Pair /\ staging'[i] = "none")
        <3>1. /\ staging' \in [Items -> {"none", "partial", "dangling", "source", "own", "dir"}]
              /\ \A i \in Items : staging'[i] = IF i \in gone THEN "none" ELSE staging[i]
            BY <2>1, PutItems DEF IInv
        <3>2. QED
            BY <3>1
    <2>2. QED
        BY <1>2, <2>1
<1>4. TypeOK'
    <2>1. 1 \in 0..Len(System)
        BY SystemShape
    <2>2. runs' \in 0..MaxRuns
        BY <1>1, BoundsAssumption DEF IInv, TypeOK
    <2>3. passwd' \in [Accounts -> Entry] /\ group' \in [Accounts -> Entry]
        BY <1>2 DEF IInv, TypeOK, Entry
    <2>4. staging' \in [Items -> {"none", "partial", "dangling", "source", "own", "dir"}]
        BY <1>3
    <2>5. missing' \subseteq InSource /\ dirty' \in BOOLEAN
        BY <1>1, <1>2 DEF IInv, TypeOK
    <2>6. QED
        BY <1>1, <2>1, <2>2, <2>3, <2>4, <2>5 DEF TypeOK
<1>5. \A i : Lacks(i)' => Lacks(i)
    BY <1>1 DEF Lacks
<1>6. ValuesInv'
    <2>1. Copied \subseteq Items /\ MadeOnly \subseteq Items /\ Pair \subseteq Items
        BY ItemFacts DEF Copied, MadeOnly
    <2>2. \A i \in Copied : \/ staging'[i] = "none"
                            \/ ~Lacks(i)' /\ staging'[i] \in {"partial", "source"}
                            \/ ~Lacks(i)' /\ staging'[i] = "dangling" /\ i \in Named({"bins"})
        BY <1>3, <1>5, <2>1 DEF IInv, ValuesInv
    <2>3. \A i \in MadeOnly : staging'[i] \in {"none", "own"}
        BY <1>3, <2>1 DEF IInv, ValuesInv
    <2>4. \A k \in Pair : staging'[k] \in {"none", "own"} \/ (~Lacks(k)' /\ staging'[k] = "source")
        BY <1>3, <1>5, <2>1 DEF IInv, ValuesInv
    <2>5. QED
        BY <2>2, <2>3, <2>4 DEF ValuesInv, Pair, Copied, MadeOnly, Named
<1>7. CleanInv'
    <2>1. Pair \subseteq Items
        BY ItemFacts
    <2>2. CASE dirty' = TRUE
        BY <2>2 DEF CleanInv
    <2>3. CASE staging' = [i \in Items |-> "none"]
        <3>1. /\ \A i \in Items : staging'[i] # "partial"
              /\ \A k, l \in Pair : staging'[k] = "own" => staging'[l] = "own"
            BY <2>1, <2>3
        <3>2. QED
            BY <3>1 DEF CleanInv, Pair, Items, Named
    <2>4. QED
        BY <1>3, <2>2, <2>3
<1>8. DoneInv'
    BY <1>1, SystemShape DEF DoneInv, Ok
<1>9. QED
    BY <1>4, <1>6, <1>7, <1>8 DEF IInv

(* The initial state satisfies the invariant.                              *)
LEMMA InitIInv == Init => IInv
<1> SUFFICES ASSUME Init
             PROVE  IInv
    OBVIOUS
<1>1. missing \subseteq InSource
    <2>1. CASE missing = {}
        BY <2>1
    <2>2. ASSUME NEW f \in [1..MaxMissing -> InSource], missing = {f[k] : k \in 1..MaxMissing}
          PROVE  missing \subseteq InSource
        BY <2>2
    <2>3. QED
        BY <2>1, <2>2, Zenon DEF Init
<1>2. Len(System) \in Nat
    BY SystemShape
<1>3. TypeOK
    <2>1. ip \in 0..Len(System) /\ runs \in 0..MaxRuns
        BY <1>2, BoundsAssumption DEF Init
    <2>2. /\ staging \in [Items -> {"none", "partial", "dangling", "source", "own", "dir"}]
          /\ passwd \in [Accounts -> Entry] /\ group \in [Accounts -> Entry]
        BY DEF Init, Entry
    <2>3. dirty \in BOOLEAN /\ result \in {"none", "ok", "err"}
        BY DEF Init
    <2>4. QED
        BY <1>1, <2>1, <2>2, <2>3 DEF TypeOK
<1>4. \A i \in Items : staging[i] = "none"
    BY DEF Init
<1>5. Copied \subseteq Items /\ MadeOnly \subseteq Items /\ Pair \subseteq Items
    BY ItemFacts DEF Copied, MadeOnly
<1>6. ValuesInv /\ CleanInv
    BY <1>4, <1>5 DEF ValuesInv, CleanInv
<1>7. DoneInv
    BY <1>2 DEF Init, DoneInv, Ok
<1>8. QED
    BY <1>3, <1>6, <1>7 DEF IInv

(* Every step preserves the invariant.                                     *)
LEMMA NextIInv == IInv /\ [Next]_vars => IInv'
<1> SUFFICES ASSUME IInv, [Next]_vars
             PROVE  IInv'
    OBVIOUS
<1>1. CASE Begin
    BY <1>1, BeginIInv
<1>2. CASE Fails
    BY <1>2, FailsStops, StopsIInv DEF Fails
<1>3. CASE ip > 0 /\ Next /\ ~Begin /\ ~Fails
    <2>1. PICK op \in KnownOps : op = System[ip]
        BY <1>3, AtHand DEF IInv
    <2>2. CASE HandleBins \/ HandleBash \/ HandleSystemdBinaries \/ HandleSudoLibs
               \/ HandleCopyfile \/ HandleCopytree \/ HandleUnits \/ HandleUserUnits
               \/ CopyBuilt \/ CopyRecursive \/ CopyPresent
        <3>1. op[1] \in Copies
            BY <2>1, <2>2 DEF HandleBins, HandleBash, HandleSystemdBinaries, HandleSudoLibs,
               HandleCopyfile, HandleCopytree, HandleUnits, HandleUserUnits, CopyBuilt,
               CopyRecursive, CopyPresent, At, Copies
        <3>2. Advances(op) \/ Stops
            BY <1>3, <2>1, <2>2, <3>1, CopyStep
        <3>3. QED
            BY <1>3, <2>1, <3>2, AdvancesIInv, StopsIInv
    <2>3. CASE Make \/ WriteIn \/ CopyKernelModules \/ EnsureUser \/ EnsureGroup
               \/ CreatePasswdFiles \/ GenerateHostKeys \/ VerifyStaging
        <3>1. Advances(op) \/ Stops
            BY <1>3, <2>1, <2>3, MakeStep
        <3>2. QED
            BY <1>3, <2>1, <3>1, AdvancesIInv, StopsIInv
    <2>4. QED
        BY <1>3, <2>2, <2>3 DEF Next
<1>4. CASE UNCHANGED vars
    <2>1. \A i : Lacks(i)' <=> Lacks(i)
        BY <1>4, LacksStays DEF vars
    <2>2. TypeOK' /\ ValuesInv' /\ CleanInv'
        BY <1>4 DEF vars, IInv, TypeOK, ValuesInv, CleanInv, Ok, Lacks
    <2>3. DoneInv'
        BY <1>4 DEF vars, IInv, DoneInv, Achieved, Ok, Lacks
    <2>4. QED
        BY <2>2, <2>3 DEF IInv
<1>5. CASE Next /\ ~(ip > 0) /\ ~Begin
    BY <1>5 DEF Next, HandleBins, HandleBash, HandleSystemdBinaries, HandleSudoLibs, HandleCopyfile,
       HandleCopytree, HandleUnits, HandleUserUnits, CopyBuilt, CopyRecursive, CopyPresent, Make,
       WriteIn, CopyKernelModules, EnsureUser, EnsureGroup, CreatePasswdFiles, GenerateHostKeys,
       VerifyStaging, Fails, At
<1>6. QED
    BY <1>1, <1>2, <1>3, <1>4, <1>5

(* The invariant holds in every state of every behaviour.                  *)
LEMMA IInvHolds == Spec => []IInv
<1>1. QED
    BY InitIInv, NextIInv, PTL DEF Spec

(* In a build that succeeded every operation has achieved its purpose.     *)
LEMMA OkAchieved ==
    ASSUME IInv, Ok, NEW kinds, NEW i \in Named(kinds)
    PROVE  \E op \in KnownOps \cap Ops : op[1] \in kinds /\ op[2] = i /\ Achieved(op)
<1>1. PICK j \in 1..Len(System) : System[j][1] \in kinds /\ System[j][2] = i
    BY NamedIs
<1>2. System[j] \in KnownOps /\ System[j] \in Ops /\ Achieved(System[j])
    BY SystemShape, ElementOfSeq DEF IInv, DoneInv
<1>3. QED
    BY <1>1, <1>2

(* A build that succeeds has the tree that the components list: what the   *)
(* source has of each item that is copied, the build's own version of each *)
(* that is made, and the modules of the kernel that is built; whatever an  *)
(* earlier build has left, and wherever one was interrupted.               *)
THEOREM TreeAsListed == Spec => []OkTreeIsAsListed
<1>1. IInv => OkTreeIsAsListed
    <2> SUFFICES ASSUME IInv, Ok, NEW i \in Items, i \notin Pair
                 PROVE  \/ staging[i] = Expected(i)
                        \/ staging[i] = "dangling" /\ i \in Named({"bins"})
                        \/ staging[i] = "partial" /\ dirty /\ i \in Named(Keeps \cup {"present"})
        BY DEF OkTreeIsAsListed
    <2>1. CASE i \in Named({"modules"})
        <3>1. i = "lib/modules"
            BY <2>1, ItemFacts
        <3>2. PICK op \in KnownOps : op[1] = "modules" /\ op[2] = i /\ Achieved(op)
            BY <2>1, OkAchieved
        <3>3. QED
            BY <3>1, <3>2 DEF Achieved, Expected
    <2>2. CASE i \in Named(Made)
        <3>1. i # "lib/modules"
            BY <2>2, ItemFacts
        <3>2. CASE i \in Named({"write", "link"})
            <4>1. PICK op \in KnownOps : op[1] \in {"write", "link"} /\ op[2] = i /\ Achieved(op)
                BY <3>2, OkAchieved
            <4>2. QED
                BY <2>2, <3>1, <4>1 DEF Achieved, Expected
        <3>3. CASE i = "lib"
            <4>1. 2 \in 1..Len(System) /\ System[2] = <<"link", "lib">>
                BY SystemShape
            <4>2. Achieved(<<"link", "lib">>)
                BY <4>1 DEF IInv, DoneInv
            <4>3. QED
                BY <2>2, <3>1, <3>3, <4>2 DEF Achieved, Expected
        <3>4. QED
            BY <2>2, <3>2, <3>3, ItemFacts DEF Named
    <2>3. CASE i \in Copied
        <3>1. i # "lib/modules" /\ i \notin Named(Made)
            BY <2>3, ItemFacts DEF Copied
        <3>2. Expected(i) = IF Lacks(i) THEN "none" ELSE "source"
            BY <3>1 DEF Expected
        <3>3. PICK op \in KnownOps \cap Ops : op[1] \in Copies /\ op[2] = i /\ Achieved(op)
            BY <2>3, OkAchieved DEF Copied
        <3>4. CASE Lacks(i)
            BY <2>3, <3>2, <3>4 DEF IInv, ValuesInv
        <3>5. CASE staging[i] = "partial"
            <4>1. ~Lacks(i) /\ dirty
                BY <2>3, <3>5 DEF IInv, ValuesInv, CleanInv
            <4>2. op[1] \in Keeps \cup {"present"}
                BY <3>3, <3>5, <4>1 DEF Achieved, Copies, Keeps, Replacing
            <4>3. QED
                BY <3>3, <3>5, <4>1, <4>2 DEF Named
        <3>6. CASE ~Lacks(i) /\ staging[i] # "partial"
            BY <2>3, <3>2, <3>3, <3>6 DEF IInv, ValuesInv, Achieved
        <3>7. QED
            BY <3>4, <3>5, <3>6
    <2>4. QED
        BY <2>1, <2>2, <2>3, ItemFacts DEF Copied
<1>2. QED
    BY <1>1, IInvHolds, PTL

(* The ssh host keys of a build that succeeds belong together, also if an  *)
(* earlier build was stopped between the two.                              *)
THEOREM HostKeyPair == Spec => []HostKeysAreAPair
<1>1. IInv => HostKeysAreAPair
    <2> SUFFICES ASSUME IInv, Ok, dirty => \A k \in Pair : Lacks(k)
                 PROVE  \E what \in {"source", "own"} : \A k \in Pair : staging[k] = what
        BY DEF HostKeysAreAPair
    <2>1. Pair \subseteq Items
        BY ItemFacts
    <2>2. \A k \in Pair : staging[k] # "none"
        <3>1. PICK j \in 1..Len(System) : System[j] = <<"host_keys", "etc/ssh/host_key">>
            BY SystemShape
        <3>2. Achieved(<<"host_keys", "etc/ssh/host_key">>)
            BY <3>1 DEF IInv, DoneInv
        <3>3. QED
            BY <3>2 DEF Achieved
    <2>3. \A k \in Pair : \/ staging[k] = "own"
                          \/ ~Lacks(k) /\ staging[k] = "source"
        BY <2>2 DEF IInv, ValuesInv
    <2>4. CASE dirty
        BY <2>3, <2>4
    <2>5. CASE ~dirty
        <3>1. \A k, l \in Pair : staging[k] = "own" => staging[l] = "own"
            BY <2>5 DEF IInv, CleanInv
        <3>2. QED
            BY <2>3, <3>1
    <2>6. QED
        BY <2>4, <2>5
<1>2. QED
    BY <1>1, IInvHolds, PTL

(* The primary group of every user of a build that succeeds exists, with   *)
(* the id of the user: no account is ensured after the files were replaced.*)
THEOREM PrimaryGroups == Spec => []PrimaryGroupExists
<1>1. IInv => PrimaryGroupExists
    <2> SUFFICES ASSUME IInv, Ok
                 PROVE  \A n \in Accounts : passwd[n] # "none" => group[n] = passwd[n]
        BY DEF PrimaryGroupExists
    <2>1. PICK j \in 1..Len(System) : System[j] = <<"static_accounts", "etc/passwd">>
        BY SystemShape
    <2>2. Achieved(<<"static_accounts", "etc/passwd">>)
        BY <2>1 DEF IInv, DoneInv
    <2>3. QED
        BY <2>2 DEF Achieved
<1>2. QED
    BY <1>1, IInvHolds, PTL

(* A build that succeeds has the units of NetworkManager, of chronyd and   *)
(* of the mount of the EFI variables in its tree if it has enabled them;   *)
(* of the other units that it enables nothing is claimed.                  *)
THEOREM EnabledUnits == Spec => []EnabledUnitsAreThere
<1>1. IInv => EnabledUnitsAreThere
    <2> SUFFICES ASSUME IInv, Ok
                 PROVE  /\ staging["NM_UNITS"] # "none" /\ staging["ESSENTIAL_UNITS"] # "none"
                        /\ staging["efivars.mount"] # "none"
        BY DEF EnabledUnitsAreThere
    <2>1. PICK j \in 1..Len(System) : System[j] = <<"verify", "staging">>
        BY SystemShape
    <2>2. PICK k \in 1..Len(System) : System[k] = <<"write", "efivars.mount">>
        BY UnitItems
    <2>3. Achieved(<<"verify", "staging">>) /\ Achieved(<<"write", "efivars.mount">>)
        BY <2>1, <2>2 DEF IInv, DoneInv
    <2>4. QED
        BY <2>3 DEF Achieved
<1>2. QED
    BY <1>1, IInvHolds, PTL

(* The state stays within its types: of an item there is never anything in *)
(* the tree but what a copy, a symlink or the build itself can leave.      *)
THEOREM TypeCorrect == Spec => []TypeOK
<1>1. IInv => TypeOK
    BY DEF IInv
<1>2. QED
    BY <1>1, IInvHolds, PTL
-----------------------------------------------------------------------------
(* The init script.                                                        *)

\* The commands before a medium is chosen, those that use the one on top of
\* /mnt, and those after its image has been mounted.
Looking == {"mount_vfs", "insmod", "sleep1", "wait", "sleep2", "probe"}
UsingMnt == {"requested_shell", "losetup", "mount_erofs", "mount_direct", "bind", "tmpfs",
             "mount_overlay", "move_vfs", "move_mnt"}
MntMoved == {"check_init", "switch_root", "running"}
ImageMounted == {"bind", "tmpfs", "mount_overlay", "move_vfs", "move_mnt"} \cup MntMoved

(* While devices are tried, at most those before the next one are on /mnt, *)
(* where they could not be unmounted, and nothing has been taken from it.  *)
LookingInv ==
    pc \in Looking =>
        /\ Len(mnt) < dev
        /\ pc # "probe" => dev = 1
        /\ live = None

(* Afterwards the medium that was chosen lies on top of all of them, and   *)
(* what was mounted is of that medium.                                     *)
MediumInv ==
    /\ pc \in UsingMnt => Len(mnt) > 0 /\ Top = boot_dev
    /\ pc \in ImageMounted => rootfs = boot_dev
    /\ live \in {boot_dev, None}
    /\ pc \in MntMoved => cdrom = boot_dev \/ "move" \in failed

(* The inductive invariant.                                                *)
BootIInv == BootTypeOK /\ LookingInv /\ MediumInv

USE DevicesAssumption, FailuresAssumption DEF bootVars, given, mounts, Devices, None
USE DEF Vfs, FileSystems, Ends, Goto, Fine, NextDevice

(* Every command keeps the variables in their types: /mnt never has more   *)
(* devices on it than there are.                                           *)
LEMMA BootNextTypeOK ==
    BootTypeOK /\ LookingInv /\ MediumInv /\ [BootNext]_bootVars => BootTypeOK'
<1> SUFFICES ASSUME BootTypeOK, LookingInv, MediumInv, [BootNext]_bootVars
             PROVE  BootTypeOK'
    OBVIOUS
<1> USE DEF BootTypeOK, MayFail
<1>1. CASE MountVfs
    BY <1>1 DEF MountVfs
<1>2. CASE LoadModules
    BY <1>2 DEF LoadModules
<1>3. CASE Sleep1
    BY <1>3 DEF Sleep1
<1>4. CASE Wait
    BY <1>4 DEF Wait
<1>5. CASE Sleep2
    BY <1>5 DEF Sleep2
<1>6. CASE ProbePassesOver
    BY <1>6 DEF ProbePassesOver
<1>7. CASE ProbeOther
    <2>1. dev \in Devices /\ dev + 1 \in 1..(N + 1) /\ Len(mnt) < dev
        BY <1>7 DEF ProbeOther, LookingInv, Looking
    <2>2. mnt' \in Seq(Devices) /\ Len(mnt') <= N
        <3>1. Append(mnt, dev) \in Seq(Devices) /\ Len(Append(mnt, dev)) = Len(mnt) + 1
            BY <2>1, AppendProperties
        <3>2. Len(mnt) \in Nat /\ Len(mnt) + 1 <= N
            BY <2>1
        <3>3. mnt' = mnt \/ mnt' = Append(mnt, dev)
            BY <1>7 DEF ProbeOther
        <3>4. QED
            BY <3>1, <3>2, <3>3
    <2>3. QED
        BY <1>7, <2>1, <2>2 DEF ProbeOther
<1>8. CASE ProbeFinds
    BY <1>8 DEF ProbeFinds, LookingInv, Looking
<1>9. CASE ProbeEnds
    BY <1>9 DEF ProbeEnds
<1>10. CASE Losetup
    BY <1>10 DEF Losetup
<1>11. CASE MountErofs
    BY <1>11 DEF MountErofs, MediumInv, UsingMnt, Top
<1>12. CASE BindLiveOverlay
    BY <1>12 DEF BindLiveOverlay, MediumInv, UsingMnt, Top
<1>13. CASE MountTmpfs
    BY <1>13 DEF MountTmpfs
<1>14. CASE MountOverlay
    BY <1>14 DEF MountOverlay, LowerDirs
<1>15. CASE MoveVfs
    BY <1>15 DEF MoveVfs
<1>16. CASE MoveMnt
    <2>1. Len(mnt) \in Nat /\ Len(mnt) > 0 /\ Top \in Devices
        BY <1>16 DEF MoveMnt, MediumInv, UsingMnt, Top
    <2>2. \A i \in 1..(Len(mnt) - 1) : mnt[i] \in Devices
        OBVIOUS
    <2>3. SubSeq(mnt, 1, Len(mnt) - 1) \in Seq(Devices) /\ Len(SubSeq(mnt, 1, Len(mnt) - 1)) <= N
        BY <2>1, <2>2, SubSeqProperties
    <2>4. QED
        BY <1>16, <2>1, <2>3 DEF MoveMnt
<1>17. CASE CheckInit
    BY <1>17 DEF CheckInit
<1>18. CASE SwitchRoot
    BY <1>18 DEF SwitchRoot
<1>19. ASSUME NEW d \in Devices, Appear(d)
      PROVE  BootTypeOK'
    BY <1>19 DEF Appear
<1>20. CASE RequestedShellExits
    BY <1>20 DEF RequestedShellExits
<1>21. CASE ShellExits
    BY <1>21 DEF ShellExits
<1>22. CASE End
    BY <1>22 DEF End
<1>23. CASE UNCHANGED bootVars
    BY <1>23
<1>24. QED
    BY <1>1, <1>2, <1>3, <1>4, <1>5, <1>6, <1>7, <1>8, <1>9, <1>10, <1>11, <1>12, <1>13, <1>14,
       <1>15, <1>16, <1>17, <1>18, <1>19, <1>20, <1>21, <1>22, <1>23 DEF BootNext, Script

(* What the initial state establishes.                                     *)
LEMMA BootInitIInv ==
    BootInit => BootIInv
<1> SUFFICES ASSUME BootInit
             PROVE  BootIInv
    OBVIOUS
<1>1. Cardinality(failed) <= MaxFailures
    BY FS_EmptySet DEF BootInit
<1>2. BootTypeOK
    <2>1. <<>> \in Seq(Devices) /\ Len(<<>>) <= N /\ 1 \in 1..(N + 1)
        BY EmptySeq
    <2>2. QED
        BY <1>1, <2>1 DEF BootInit, BootTypeOK
<1>3. LookingInv /\ MediumInv
    BY DEF BootInit, LookingInv, Looking, MediumInv, UsingMnt, ImageMounted, MntMoved
<1>4. QED
    BY <1>2, <1>3 DEF BootIInv

(* Every command, whether it succeeds or fails, and every device that      *)
(* appears preserves the invariant.                                        *)
LEMMA BootNextIInv ==
    BootIInv /\ [BootNext]_bootVars => BootIInv'
<1> SUFFICES ASSUME BootIInv, [BootNext]_bootVars
             PROVE  BootIInv'
    OBVIOUS
<1>0. BootTypeOK'
    BY BootNextTypeOK DEF BootIInv
<1> USE DEF BootIInv, LookingInv, Looking, MediumInv, UsingMnt, ImageMounted, MntMoved
<1> USE DEF Top, MayFail
<1>1. CASE MountVfs
    BY <1>0, <1>1 DEF MountVfs
<1>2. CASE LoadModules
    BY <1>0, <1>2 DEF LoadModules
<1>3. CASE Sleep1
    BY <1>0, <1>3 DEF Sleep1
<1>4. CASE Wait
    BY <1>0, <1>4 DEF Wait
<1>5. CASE Sleep2
    BY <1>0, <1>5 DEF Sleep2
<1>6. CASE ProbePassesOver
    <2>1. LookingInv'
        BY <1>6 DEF ProbePassesOver, BootTypeOK
    <2>2. MediumInv'
        BY <1>6 DEF ProbePassesOver
    <2>3. QED
        BY <1>0, <2>1, <2>2
<1>7. CASE ProbeOther
    <2>1. LookingInv'
        BY <1>7, AppendProperties DEF ProbeOther, BootTypeOK
    <2>2. MediumInv'
        BY <1>7 DEF ProbeOther
    <2>3. QED
        BY <1>0, <2>1, <2>2
<1>8. CASE ProbeFinds
    BY <1>0, <1>8 DEF ProbeFinds
<1>9. CASE ProbeEnds
    BY <1>0, <1>9 DEF ProbeEnds
<1>10. CASE Losetup
    BY <1>0, <1>10 DEF Losetup
<1>11. CASE MountErofs
    BY <1>0, <1>11 DEF MountErofs
<1>12. CASE BindLiveOverlay
    BY <1>0, <1>12 DEF BindLiveOverlay
<1>13. CASE MountTmpfs
    BY <1>0, <1>13 DEF MountTmpfs
<1>14. CASE MountOverlay
    BY <1>0, <1>14 DEF MountOverlay
<1>15. CASE MoveVfs
    BY <1>0, <1>15 DEF MoveVfs
<1>16. CASE MoveMnt
    BY <1>0, <1>16 DEF MoveMnt
<1>17. CASE CheckInit
    BY <1>0, <1>17 DEF CheckInit
<1>18. CASE SwitchRoot
    BY <1>0, <1>18 DEF SwitchRoot
<1>19. ASSUME NEW d \in Devices, Appear(d)
      PROVE  BootIInv'
    BY <1>0, <1>19 DEF Appear
<1>20. CASE RequestedShellExits
    BY <1>0, <1>20 DEF RequestedShellExits
<1>21. CASE ShellExits
    BY <1>0, <1>21 DEF ShellExits
<1>22. CASE End
    BY <1>0, <1>22 DEF End
<1>23. CASE UNCHANGED bootVars
    BY <1>23, <1>0
<1> HIDE DEF BootIInv
<1>24. QED
    BY <1>1, <1>2, <1>3, <1>4, <1>5, <1>6, <1>7, <1>8, <1>9, <1>10, <1>11, <1>12, <1>13, <1>14,
       <1>15, <1>16, <1>17, <1>18, <1>19, <1>20, <1>21, <1>22, <1>23 DEF BootNext, Script

(* The invariant holds in every state of every behaviour.                  *)
LEMMA BootIInvHolds ==
    BootSpec => []BootIInv
<1>1. QED
    BY BootInitIInv, BootNextIInv, PTL DEF BootSpec

(* The script keeps the state within its types, however many devices could *)
(* not be unmounted and whatever failed.                                   *)
THEOREM BootTypeCorrect ==
    BootSpec => []BootTypeOK
<1>1. BootIInv => BootTypeOK
    BY DEF BootIInv
<1>2. QED
    BY <1>1, BootIInvHolds, PTL

(* What the init script mounts on /rootfs and /live-overlay and moves to   *)
(* /media/cdrom is all of BOOT_DEV, though it names none of them but takes *)
(* what is on /mnt, where other devices may still be mounted.              *)
THEOREM OneMedium ==
    BootSpec => []RunsFromOneMedium
<1>1. BootIInv => RunsFromOneMedium
    BY DEF BootIInv, MediumInv, ImageMounted, MntMoved, RunsFromOneMedium
<1>2. QED
    BY <1>1, BootIInvHolds, PTL
=============================================================================
