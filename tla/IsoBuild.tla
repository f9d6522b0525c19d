------------------------------- MODULE IsoBuild -------------------------------
(***************************************************************************)
(* create_iso (src/artifact/iso.rs) step by step: the live overlay         *)
(* (component/custom/live), the UKIs for installed systems (artifact/uki), *)
(* the ISO and its checksum made by reciso beside their final paths, and   *)
(* the two renames.  The command may fail at any step or be killed; the    *)
(* next one starts from what is on disk.  Between commands the parts are   *)
(* rebuilt or cleaned, and the files of the overlay are edited at any      *)
(* time.                                                                   *)
(*                                                                         *)
(* A part or a file is a version, 0 if there is none.  A checksum is the   *)
(* number of the build of whose ISO it is.                                 *)
(***************************************************************************)
EXTENDS Naturals

CONSTANTS
    NF, shadow,         \* the files of the overlay are 1..NF; etc/shadow
    NE,                 \* number of UKI_INSTALLED_ENTRIES
    MaxVersion,         \* bound on the versions of parts and files
    MaxBuilds,          \* bound on the number of builds
    MaxChanges          \* bound on what is changed or cleaned

ASSUME FilesAssumption == NF \in Nat /\ shadow \in 1..NF /\ NE \in Nat
ASSUME BoundsAssumption ==
    MaxVersion \in Nat \ {0} /\ MaxBuilds \in Nat /\ MaxChanges \in Nat

VARIABLES
    parts,              \* vmlinuz, the two initramfs images and the rootfs
    source,             \* overlay files that create_live_overlay_at reads
    overlay,            \* live-overlay, and is its shadow file private?
    ukis,               \* installed-ukis
    tmp, tmpSum,        \* the ISO and the checksum that reciso writes
    iso, sum,           \* those at their final paths
    pc, at,             \* the running step, and the file or entry it is at
    build, result,      \* number of builds, how the last one ended
    before,             \* ISO and checksum when it was started
    edited,             \* was a file of the overlay edited since?
    mishaps, changes    \* see Mishaps; number of changes so far

vars == <<parts, source, overlay, ukis, tmp, tmpSum, iso, sum, pc, at, build, result, before, edited, mishaps, changes>>

Version == 0..MaxVersion
Files == 1..NF
Entries == 1..NE
Parts == {"kernel", "live", "installed", "rootfs"}
Uki == [kernel : Version, initramfs : Version]
Overlay == [files : [Files -> Version], private : BOOLEAN]
Iso == [st : {"absent", "partial", "whole"}, parts : [Parts -> Version],
        ukis : [Entries -> Uki], overlay : Overlay, build : 0..MaxBuilds]
NoUki == [kernel |-> 0, initramfs |-> 0]
NoUkis == [e \in Entries |-> NoUki]
NoOverlay == [files |-> [f \in Files |-> 0], private |-> FALSE]
NoIso == [st |-> "absent", parts |-> [p \in Parts |-> 0], ukis |-> NoUkis,
          overlay |-> NoOverlay, build |-> 0]
\* A build that stopped between the two renames, and one for whose ISO
\* reciso left no checksum.
Mishaps == {"renames", "no_sum"}

TypeOK ==
    /\ parts \in [Parts -> Version] /\ source \in [Files -> Version]
    /\ overlay \in Overlay /\ ukis \in [Entries -> Uki]
    /\ tmp \in Iso /\ iso \in Iso
    /\ tmpSum \in 0..MaxBuilds /\ sum \in 0..MaxBuilds
    /\ pc \in {"none", "validate", "rm_overlay", "overlay", "chmod", "ukis", "reciso",
               "rename", "rename_sum", "cleanup", "verify"}
    /\ at \in 1..(NF + NE + 1)
    /\ build \in 0..MaxBuilds
    /\ result \in {"none", "ok", "err", "killed"}
    /\ edited \in BOOLEAN /\ mishaps \subseteq Mishaps
    /\ changes \in 0..MaxChanges

Init ==
    /\ parts = [p \in Parts |-> 1] /\ source = [f \in Files |-> 1]
    /\ overlay = NoOverlay /\ ukis = NoUkis
    /\ tmp = NoIso /\ tmpSum = 0 /\ iso = NoIso /\ sum = 0
    /\ pc = "none" /\ at = 1 /\ build = 0 /\ result = "none"
    /\ before = [iso |-> NoIso, sum |-> 0]
    /\ edited = FALSE /\ mishaps = {} /\ changes = 0
-----------------------------------------------------------------------------
World == <<parts, source, build, before, edited, changes>>
Published == <<iso, sum>>
Goto(p) == pc' = p /\ at' = 1 /\ UNCHANGED result
Stop(res) == pc' = "none" /\ at' = 1 /\ result' = res
Stops == Stop("err") \/ Stop("killed")

Start ==
    /\ pc = "none" /\ build < MaxBuilds
    /\ pc' = "validate" /\ at' = 1 /\ result' = "none" /\ build' = build + 1
    /\ before' = [iso |-> iso, sum |-> sum] /\ edited' = FALSE
    /\ UNCHANGED <<parts, source, overlay, ukis, tmp, tmpSum, Published, mishaps, changes>>

(* validate_iso_inputs and find_kernel; nobody asks for the initramfs of   *)
(* installed systems.                                                      *)
Validate ==
    /\ pc = "validate"
    /\ \/ (\A p \in Parts \ {"installed"} : parts[p] # 0) /\ Goto("rm_overlay")
       \/ Stop("err")
    /\ UNCHANGED <<World, overlay, ukis, tmp, tmpSum, Published, mishaps>>

\* A faulty create_live_overlay_at that writes into the overlay there is.
KeepOverlay ==
    /\ pc = "rm_overlay"
    /\ Goto("overlay")
    /\ UNCHANGED <<World, overlay, ukis, tmp, tmpSum, Published, mishaps>>

(* create_live_overlay_at: what an earlier build left goes first, or as    *)
(* much of it as was removed before an error.                              *)
RemoveOverlay ==
    /\ pc = "rm_overlay"
    /\ \/ overlay' = NoOverlay /\ Goto("overlay")
       \/ /\ \E f \in Files : overlay' = [overlay EXCEPT !.files[f] = 0]
          /\ Stops
    /\ UNCHANGED <<World, ukis, tmp, tmpSum, Published, mishaps>>

\* One file after the other is read from the source tree and written.
WriteOverlayFile ==
    /\ pc = "overlay" /\ at <= NF
    /\ \/ /\ overlay' = [overlay EXCEPT !.files[at] = IF source[at] = 0 THEN @ ELSE source[at]]
          /\ IF at = shadow THEN pc' = "chmod" /\ UNCHANGED <<at, result>>
                            ELSE at' = at + 1 /\ UNCHANGED <<pc, result>>
       \/ Stop("err") /\ UNCHANGED overlay
    /\ UNCHANGED <<World, ukis, tmp, tmpSum, Published, mishaps>>

ChmodShadow ==
    /\ pc = "chmod"
    /\ \/ overlay' = [overlay EXCEPT !.private = TRUE]
          /\ pc' = "overlay" /\ at' = at + 1 /\ UNCHANGED result
       \/ Stop("err") /\ UNCHANGED overlay
    /\ UNCHANGED <<World, ukis, tmp, tmpSum, Published, mishaps>>

OverlayDone ==
    /\ pc = "overlay" /\ at > NF
    /\ Goto("ukis")
    /\ UNCHANGED <<World, overlay, ukis, tmp, tmpSum, Published, mishaps>>

Built == [kernel |-> parts["kernel"], initramfs |-> parts["installed"]]

\* A faulty build_installed_ukis that keeps a UKI that is there.
BuildUkiUnlessThere ==
    /\ pc = "ukis" /\ at <= NE
    /\ ukis' = [ukis EXCEPT ![at] = IF @ = NoUki THEN Built ELSE @]
    /\ at' = at + 1 /\ UNCHANGED <<pc, result>>
    /\ UNCHANGED <<World, overlay, tmp, tmpSum, Published, mishaps>>

(* build_installed_ukis, into a directory that a killed build may have     *)
(* left: each UKI is written anew, or the build ends.                      *)
BuildUki ==
    /\ pc = "ukis" /\ at <= NE
    /\ \/ /\ parts["installed"] # 0
          /\ ukis' = [ukis EXCEPT ![at] = Built]
          /\ at' = at + 1 /\ UNCHANGED <<pc, result>>
       \/ Stop("err") /\ UNCHANGED ukis
    /\ UNCHANGED <<World, overlay, tmp, tmpSum, Published, mishaps>>

UkisDone ==
    /\ pc = "ukis" /\ at > NE
    /\ Goto("reciso")
    /\ UNCHANGED <<World, overlay, ukis, tmp, tmpSum, Published, mishaps>>

Assembled == [st |-> "whole", parts |-> parts, ukis |-> ukis, overlay |-> overlay, build |-> build]

\* A faulty variant that has reciso write to the final path.
RecisoInPlace ==
    /\ pc = "reciso"
    /\ \/ iso' = Assembled /\ tmp' = Assembled /\ tmpSum' = build /\ Goto("rename")
       \/ iso' = [Assembled EXCEPT !.st = "partial"] /\ Stops /\ UNCHANGED <<tmp, tmpSum>>
    /\ UNCHANGED <<World, overlay, ukis, sum, mishaps>>

(* reciso writes the ISO and then its checksum, beside the final ones.     *)
(* That the checksum may be missing create_iso allows for.                 *)
Reciso ==
    /\ pc = "reciso"
    /\ \/ /\ parts["installed"] # 0
          /\ tmp' = Assembled /\ Goto("rename")
          /\ \/ tmpSum' = build /\ UNCHANGED mishaps
             \/ mishaps' = mishaps \cup {"no_sum"} /\ UNCHANGED tmpSum
       \/ /\ tmp' \in {tmp, Assembled, [Assembled EXCEPT !.st = "partial"]}
          /\ Stops /\ UNCHANGED <<tmpSum, mishaps>>
    /\ UNCHANGED <<World, overlay, ukis, Published>>

(* verify_hardware_compat only warns; then the two renames.                *)
RenameIso ==
    /\ pc = "rename"
    /\ \/ iso' = tmp /\ tmp' = NoIso /\ Goto("rename_sum")
       \/ Stop("err") /\ UNCHANGED <<iso, tmp>>
    /\ UNCHANGED <<World, overlay, ukis, tmpSum, sum, mishaps>>

\* A faulty variant that leaves a checksum alone that is there.
RenameChecksumUnlessThere ==
    /\ pc = "rename_sum"
    /\ sum' = (IF sum = 0 THEN tmpSum ELSE sum) /\ tmpSum' = 0
    /\ Goto("cleanup")
    /\ UNCHANGED <<World, overlay, ukis, tmp, iso, mishaps>>

RenameChecksum ==
    /\ pc = "rename_sum"
    /\ \/ tmpSum # 0 /\ sum' = tmpSum /\ tmpSum' = 0 /\ Goto("cleanup") /\ UNCHANGED mishaps
       \/ tmpSum = 0 /\ Goto("cleanup") /\ UNCHANGED <<sum, tmpSum, mishaps>>
       \/ tmpSum # 0 /\ Stop("err") /\ mishaps' = mishaps \cup {"renames"} /\ UNCHANGED <<sum, tmpSum>>
    /\ UNCHANGED <<World, overlay, ukis, tmp, iso>>

\* The UKIs are removed, and an error in that is ignored.
RemoveUkis ==
    /\ pc = "cleanup"
    /\ \/ ukis' = NoUkis
       \/ UNCHANGED ukis
       \/ \E e \in Entries : ukis' = [ukis EXCEPT ![e] = NoUki]
    /\ Goto("verify")
    /\ UNCHANGED <<World, overlay, tmp, tmpSum, Published, mishaps>>

VerifyIso ==
    /\ pc = "verify"
    /\ Stop("ok") \/ Stop("err")
    /\ UNCHANGED <<World, overlay, ukis, tmp, tmpSum, Published, mishaps>>

\* The command is killed between two of its steps.
Kill ==
    /\ pc # "none"
    /\ Stop("killed")
    /\ mishaps' = IF pc = "rename_sum" THEN mishaps \cup {"renames"} ELSE mishaps
    /\ UNCHANGED <<World, overlay, ukis, tmp, tmpSum, Published>>
-----------------------------------------------------------------------------
Changes == changes < MaxChanges /\ changes' = changes + 1

(* A file of the overlay is edited, at any time; that one is added to or   *)
(* dropped from what create_live_overlay_at writes takes another leviso.   *)
EditOverlay ==
    /\ Changes
    /\ \E f \in Files : \E v \in Version \ {source[f]} :
         /\ v = 0 \/ source[f] = 0 => pc = "none"
         /\ source' = [source EXCEPT ![f] = v]
    /\ edited' = TRUE
    /\ UNCHANGED <<parts, overlay, ukis, tmp, tmpSum, Published, pc, at, build, result, before, mishaps>>

\* A part is built again or cleaned.
RebuildPart ==
    /\ Changes /\ pc = "none"
    /\ \E p \in Parts : \E v \in Version \ {parts[p]} :
         parts' = [parts EXCEPT ![p] = v]
    /\ result' = "none"
    /\ UNCHANGED <<source, overlay, ukis, tmp, tmpSum, iso, sum, pc, at, build, before, edited, mishaps>>

(* clean_iso, which may end after any removal, in this order: the ISO, its *)
(* checksum, the one at what is also reciso's path for it, the live        *)
(* initramfs and the overlay.                                              *)
CleanIso ==
    /\ Changes /\ pc = "none"
    /\ iso' = NoIso /\ result' = "none"
    /\ \E n \in 0..4 :
         /\ sum' = IF n >= 1 THEN 0 ELSE sum
         /\ tmpSum' = IF n >= 2 THEN 0 ELSE tmpSum
         /\ parts' = IF n >= 3 THEN [parts EXCEPT !["live"] = 0] ELSE parts
         /\ overlay' = IF n >= 4 THEN NoOverlay ELSE overlay
    /\ UNCHANGED <<source, ukis, tmp, pc, at, build, before, edited, mishaps>>

Rest == pc = "none" /\ UNCHANGED vars

Next ==
    \/ Start \/ Validate \/ RemoveOverlay \/ WriteOverlayFile \/ ChmodShadow \/ OverlayDone
    \/ BuildUki \/ UkisDone \/ Reciso \/ RenameIso \/ RenameChecksum \/ RemoveUkis \/ VerifyIso
    \/ EditOverlay \/ RebuildPart \/ CleanIso \/ Kill \/ Rest

Spec == Init /\ [][Next]_vars
-----------------------------------------------------------------------------
(* The UKIs for installed systems in an ISO are all there and boot the     *)
(* kernel and the initramfs that are in the same ISO, though create_iso    *)
(* takes whatever the directory of UKIs has, and killed builds leave some. *)
UkisMatchIso ==
    iso.st # "absent" =>
        \A e \in Entries : iso.ukis[e] = [kernel |-> iso.parts["kernel"],
                                          initramfs |-> iso.parts["installed"]]

(* While a build runs, and after one that failed or was killed, there is   *)
(* at the final path what was there before or the whole ISO of this build. *)
OldOrNewIso ==
    pc # "none" \/ result \in {"err", "killed"} =>
        iso = before.iso \/ (iso.st = "whole" /\ iso.build = build)

(* A build that reports success leaves an ISO of the parts as they are     *)
(* now, with exactly the overlay files of the source (none left over from  *)
(* a build that wrote others) if nobody has edited them since it began,    *)
(* and a shadow file that only root can read.                              *)
OkIsoIsCurrent ==
    result = "ok" /\ pc = "none" =>
        /\ iso.build = build /\ iso.parts = parts
        /\ ~edited => iso.overlay.files = source
        /\ iso.overlay.private

(* A checksum beside an ISO is the checksum of this ISO, unless a build    *)
(* stopped between the two renames or reciso left it without one.          *)
ChecksumIsOfIso ==
    pc # "rename_sum" /\ mishaps = {} /\ iso.st # "absent" /\ sum # 0 => sum = iso.build
=============================================================================
