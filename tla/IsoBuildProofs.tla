--------------------------- MODULE IsoBuildProofs ---------------------------
(* Proofs about IsoBuild, for every number of overlay files and UKI        *)
(* entries and every bound.                                                *)
EXTENDS IsoBuild, TLAPS

(* While build_installed_ukis runs, the UKIs before the one it is at are   *)
(* of the parts there are; once it has returned they all are.              *)
UkiInv ==
    /\ pc = "ukis" => \A e \in Entries : e < at => ukis[e] = Built
    /\ pc = "reciso" => \A e \in Entries : ukis[e] = Built

(* While create_live_overlay_at writes, the overlay has the files before   *)
(* the one it is at as the source has them (as it had them, if one was     *)
(* edited), and none of those that follow.                                 *)
OverlayInv ==
    /\ pc = "chmod" => at = shadow
    /\ pc \in {"overlay", "chmod"} =>
         \A f \in Files :
           /\ ~edited /\ (f < at \/ (f = at /\ pc = "chmod")) => overlay.files[f] = source[f]
           /\ f > at \/ (f = at /\ pc = "overlay") => overlay.files[f] = 0
    /\ pc = "overlay" /\ shadow < at => overlay.private

\* The steps that follow create_live_overlay_at.
OverlayMade == {"ukis", "reciso", "rename", "rename_sum", "cleanup", "verify"}

OverlayMadeInv ==
    pc \in OverlayMade => overlay.private /\ (~edited => overlay.files = source)

\* An ISO that holds the parts and the overlay there are.
OfThisBuild(i) ==
    i.st = "whole" /\ i.build = build /\ i.parts = parts /\ i.overlay = overlay

\* The UKIs of an ISO are of its kernel and its initramfs.
UkisOf(i) ==
    \A e \in Entries : i.ukis[e] = [kernel |-> i.parts["kernel"],
                                    initramfs |-> i.parts["installed"]]

\* The steps that follow the rename of the ISO.
Renamed == {"rename_sum", "cleanup", "verify"}

IsoInv ==
    /\ pc # "none" => build > 0
    /\ pc \in {"validate", "rm_overlay", "overlay", "chmod", "ukis", "reciso", "rename"} =>
         iso = before.iso
    /\ pc = "rename" => OfThisBuild(tmp) /\ UkisOf(tmp)
    /\ pc \in Renamed => OfThisBuild(iso)
    /\ pc \in {"rename", "rename_sum"} /\ mishaps = {} => tmpSum = build

(* The inductive invariant: what the steps of a running build rely on, and *)
(* the properties themselves.                                              *)
IInv == TypeOK /\ UkiInv /\ OverlayInv /\ OverlayMadeInv /\ IsoInv
        /\ UkisMatchIso /\ OldOrNewIso /\ OkIsoIsCurrent /\ ChecksumIsOfIso

USE FilesAssumption, BoundsAssumption
USE DEF vars, World, Published, Version, Files, Entries, Parts, Mishaps, Goto, Stop, Stops, Changes

(* What a directory holds that was removed is of the type of what it may   *)
(* hold.                                                                   *)
LEMMA AbsentTypes ==
    NoUki \in Uki /\ NoUkis \in [Entries -> Uki] /\ NoOverlay \in Overlay /\ NoIso \in Iso
BY DEF NoUki, NoUkis, NoOverlay, NoIso, Uki, Overlay, Iso

(* So is a UKI of the parts there are, and an ISO of what there is, whole  *)
(* or partly written.                                                      *)
LEMMA BuiltTypes ==
    ASSUME TypeOK
    PROVE  Built \in Uki /\ Assembled \in Iso /\ [Assembled EXCEPT !.st = "partial"] \in Iso
<1>1. Built \in Uki
    BY DEF TypeOK, Built, Uki
<1>2. Assembled \in Iso
    BY DEF TypeOK, Assembled, Iso
<1>3. [Assembled EXCEPT !.st = "partial"] \in Iso
    BY DEF TypeOK, Assembled, Iso
<1>4. QED
    BY <1>1, <1>2, <1>3

(* No file and the first version of one are versions.                      *)
LEMMA Versions == 0 \in Version /\ 1 \in Version
OBVIOUS

(* A write to a file of the overlay, or to its mode, leaves an overlay.    *)
LEMMA OverlayTypes ==
    ASSUME NEW o \in Overlay, NEW f \in Files, NEW v \in Version
    PROVE  /\ [o EXCEPT !.files[f] = v] \in Overlay
           /\ [o EXCEPT !.files[f] = v].files = [o.files EXCEPT ![f] = v]
           /\ [o EXCEPT !.files[f] = v].private = o.private
           /\ [o EXCEPT !.private = TRUE] \in Overlay
           /\ [o EXCEPT !.private = TRUE].files = o.files
           /\ o.files \in [Files -> Version]
           /\ [o EXCEPT !.private = TRUE].private
BY DEF Overlay

(* Every step keeps the variables in their types; at stays within bounds   *)
(* because etc/shadow is one of the files.                                 *)
LEMMA NextTypeOK == TypeOK /\ OverlayInv /\ [Next]_vars => TypeOK'
<1> SUFFICES ASSUME TypeOK, OverlayInv, [Next]_vars
             PROVE  TypeOK'
    OBVIOUS
<1> USE DEF TypeOK
<1>1. CASE Start
    <2>1. build' \in 0..MaxBuilds /\ at' \in 1..(NF + NE + 1)
        BY <1>1 DEF Start
    <2>2. pc' = "validate" /\ result' = "none" /\ edited' = FALSE
        BY <1>1 DEF Start
    <2>3. UNCHANGED <<parts, source, overlay, ukis, tmp, tmpSum, iso, sum, mishaps, changes>>
        BY <1>1 DEF Start
    <2>4. QED
        BY <2>1, <2>2, <2>3
<1>2. CASE Validate
    BY <1>2 DEF Validate
<1>3. CASE RemoveOverlay
    <2>1. overlay' \in Overlay
        <3>1. CASE overlay' = NoOverlay
            BY <3>1, AbsentTypes
        <3>2. ASSUME NEW f \in Files, overlay' = [overlay EXCEPT !.files[f] = 0]
              PROVE  overlay' \in Overlay
            BY <3>2, OverlayTypes, Versions
        <3>3. QED
            BY <1>3, <3>1, <3>2 DEF RemoveOverlay
    <2>2. pc' \in {"overlay", "none"} /\ result' \in {result, "err", "killed"} /\ at' = 1
        BY <1>3 DEF RemoveOverlay
    <2>3. UNCHANGED <<parts, source, ukis, tmp, tmpSum, iso, sum, build, edited, mishaps, changes>>
        BY <1>3 DEF RemoveOverlay
    <2>4. QED
        BY <2>1, <2>2, <2>3
<1>4. CASE WriteOverlayFile
    <2>1. at \in Files /\ source[at] \in Version
        BY <1>4 DEF WriteOverlayFile
    <2>2. overlay.files[at] \in Version
        BY <2>1, OverlayTypes
    <2>3. overlay' \in Overlay
        <3> DEFINE v == IF source[at] = 0 THEN overlay.files[at] ELSE source[at]
        <3>1. v \in Version
            BY <2>1, <2>2
        <3>2. [overlay EXCEPT !.files[at] = v] \in Overlay
            BY <2>1, <3>1, OverlayTypes
        <3>3. overlay' = overlay \/ overlay' = [overlay EXCEPT !.files[at] = v]
            BY <1>4 DEF WriteOverlayFile
        <3>4. QED
            BY <3>2, <3>3
    <2>4. at' \in 1..(NF + NE + 1)
        <3>1. at' \in {1, at, at + 1}
            BY <1>4 DEF WriteOverlayFile
        <3>2. QED
            BY <2>1, <3>1
    <2>5. pc' \in {"none", "chmod", "overlay"} /\ result' \in {"err", result}
        BY <1>4 DEF WriteOverlayFile
    <2>6. QED
        BY <1>4, <2>3, <2>4, <2>5 DEF WriteOverlayFile
<1>5. CASE ChmodShadow
    <2>1. overlay' \in Overlay
        BY <1>5, OverlayTypes, Versions DEF ChmodShadow
    <2>2. at' \in 1..(NF + NE + 1)
        <3>1. at = shadow /\ at' \in {1, at + 1}
            BY <1>5 DEF ChmodShadow, OverlayInv
        <3>2. QED
            BY <3>1
    <2>3. QED
        BY <1>5, <2>1, <2>2 DEF ChmodShadow
<1>6. CASE OverlayDone
    BY <1>6 DEF OverlayDone
<1>7. CASE BuildUki
    <2>1. ukis' \in [Entries -> Uki]
        BY <1>7, BuiltTypes DEF BuildUki
    <2>2. at' \in 1..(NF + NE + 1)
        BY <1>7 DEF BuildUki
    <2>3. QED
        BY <1>7, <2>1, <2>2 DEF BuildUki
<1>8. CASE UkisDone
    BY <1>8 DEF UkisDone
<1>9. CASE Reciso
    <2>1. tmp' \in Iso
        BY <1>9, BuiltTypes DEF Reciso
    <2>2. tmpSum' \in 0..MaxBuilds /\ mishaps' \subseteq {"renames", "no_sum"}
        BY <1>9 DEF Reciso
    <2>3. pc' \in {"none", "rename"} /\ at' = 1 /\ result' \in {result, "err", "killed"}
        BY <1>9 DEF Reciso
    <2>4. UNCHANGED <<parts, source, overlay, ukis, iso, sum, build, edited, changes>>
        BY <1>9 DEF Reciso
    <2>5. QED
        BY <2>1, <2>2, <2>3, <2>4
<1>10. CASE RenameIso
    BY <1>10, AbsentTypes DEF RenameIso
<1>11. CASE RenameChecksum
    <2>1. sum' \in 0..MaxBuilds /\ tmpSum' \in 0..MaxBuilds
        BY <1>11 DEF RenameChecksum
    <2>2. mishaps' \subseteq {"renames", "no_sum"}
        BY <1>11 DEF RenameChecksum
    <2>3. pc' \in {"none", "cleanup"} /\ at' = 1 /\ result' \in {result, "err"}
        BY <1>11 DEF RenameChecksum
    <2>4. UNCHANGED <<parts, source, overlay, ukis, tmp, iso, build, edited, changes>>
        BY <1>11 DEF RenameChecksum
    <2>5. QED
        BY <2>1, <2>2, <2>3, <2>4
<1>12. CASE RemoveUkis
    <2>1. ukis' \in [Entries -> Uki]
        <3>1. CASE ukis' = NoUkis \/ ukis' = ukis
            BY <3>1, AbsentTypes
        <3>2. ASSUME NEW e \in Entries, ukis' = [ukis EXCEPT ![e] = NoUki]
              PROVE  ukis' \in [Entries -> Uki]
            BY <3>2, AbsentTypes
        <3>3. QED
            BY <1>12, <3>1, <3>2 DEF RemoveUkis
    <2>2. QED
        BY <1>12, <2>1 DEF RemoveUkis
<1>13. CASE VerifyIso
    BY <1>13 DEF VerifyIso
<1>14. CASE EditOverlay
    BY <1>14 DEF EditOverlay
<1>15. CASE RebuildPart
    BY <1>15 DEF RebuildPart
<1>16. CASE CleanIso
    BY <1>16, AbsentTypes DEF CleanIso
<1>17. CASE Kill
    BY <1>17 DEF Kill
<1>18. CASE Rest
    BY <1>18 DEF Rest
<1>19. CASE UNCHANGED vars
    BY <1>19
<1>20. QED
    BY <1>1, <1>2, <1>3, <1>4, <1>5, <1>6, <1>7, <1>8, <1>9, <1>10, <1>11, <1>12, <1>13, <1>14,
       <1>15, <1>16, <1>17, <1>18, <1>19 DEF Next

(* What the initial state establishes.                                     *)
LEMMA InitIInv == Init => IInv
<1> SUFFICES ASSUME Init
             PROVE  IInv
    OBVIOUS
<1>1. TypeOK
    <2>1. [p \in Parts |-> 1] \in [Parts -> Version] /\ [f \in Files |-> 1] \in [Files -> Version]
        OBVIOUS
    <2>2. 1 \in 1..(NF + NE + 1) /\ 0 \in 0..MaxBuilds /\ 0 \in 0..MaxChanges
        OBVIOUS
    <2>3. QED
        BY <2>1, <2>2, AbsentTypes DEF Init, TypeOK
<1>2. UkiInv /\ OverlayInv /\ OverlayMadeInv /\ IsoInv
    BY DEF Init, UkiInv, OverlayInv, OverlayMadeInv, OverlayMade, IsoInv, Renamed
<1>3. UkisMatchIso /\ OldOrNewIso /\ OkIsoIsCurrent /\ ChecksumIsOfIso
    BY DEF Init, UkisMatchIso, OldOrNewIso, OkIsoIsCurrent, ChecksumIsOfIso, NoIso
<1>4. QED
    BY <1>1, <1>2, <1>3 DEF IInv

(* The overlay is empty when create_live_overlay_at begins to write.       *)
LEMMA RemoveOverlayStep ==
    ASSUME RemoveOverlay
    PROVE  OverlayInv' /\ OverlayMadeInv'
<1>1. CASE overlay' = NoOverlay /\ pc' = "overlay" /\ at' = 1
    <2>1. \A f \in Files : overlay'.files[f] = 0 /\ ~(f < 1)
        BY <1>1 DEF NoOverlay
    <2>2. ~(shadow < 1)
        OBVIOUS
    <2>3. QED
        BY <1>1, <2>1, <2>2 DEF OverlayInv, OverlayMadeInv, OverlayMade
<1>2. CASE pc' = "none"
    BY <1>2 DEF OverlayInv, OverlayMadeInv, OverlayMade
<1>3. QED
    BY <1>1, <1>2 DEF RemoveOverlay

(* A file that is written is as the source has it; those before it and     *)
(* those after it stay as they are.                                        *)
LEMMA WriteStep ==
    ASSUME TypeOK, OverlayInv, WriteOverlayFile
    PROVE  OverlayInv' /\ OverlayMadeInv'
<1> DEFINE v == IF source[at] = 0 THEN overlay.files[at] ELSE source[at]
<1>1. CASE pc' = "none"
    BY <1>1 DEF OverlayInv, OverlayMadeInv, OverlayMade
<1>2. CASE overlay' = [overlay EXCEPT !.files[at] = v] /\ pc' \in {"chmod", "overlay"}
    <2>1. at \in Files /\ source[at] \in Version /\ overlay \in Overlay
        BY DEF WriteOverlayFile, TypeOK
    <2>2. overlay.files[at] = 0 /\ pc = "overlay" /\ UNCHANGED <<source, edited>>
        BY <2>1 DEF WriteOverlayFile, OverlayInv
    <2>3. overlay' = [overlay EXCEPT !.files[at] = source[at]]
        BY <1>2, <2>2
    <2>4. /\ overlay'.files = [overlay.files EXCEPT ![at] = source[at]]
          /\ overlay'.private = overlay.private /\ overlay.files \in [Files -> Version]
        BY <2>1, <2>3 DEF Overlay
    <2>5. /\ \A f \in Files : f # at => overlay'.files[f] = overlay.files[f]
          /\ overlay'.files[at] = source[at]
        BY <2>1, <2>4
    <2>6. \A f \in Files : /\ ~edited /\ f < at => overlay'.files[f] = source[f]
                           /\ f > at => overlay'.files[f] = 0
        BY <2>1, <2>2, <2>5 DEF OverlayInv
    <2>7. shadow < at => overlay'.private
        BY <2>2, <2>4 DEF OverlayInv
    <2>8. CASE at = shadow /\ pc' = "chmod" /\ at' = at
        BY <2>2, <2>5, <2>6, <2>8 DEF OverlayInv, OverlayMadeInv, OverlayMade
    <2>9. CASE at # shadow /\ pc' = "overlay" /\ at' = at + 1
        <3>1. ASSUME NEW f \in Files
              PROVE  /\ f < at + 1 => f < at \/ f = at
                     /\ f > at + 1 \/ f = at + 1 => f > at
            BY <2>1
        <3>2. \A f \in Files : /\ ~edited' /\ f < at' => overlay'.files[f] = source'[f]
                               /\ f > at' \/ f = at' => overlay'.files[f] = 0
            BY <2>2, <2>5, <2>6, <2>9, <3>1
        <3>3. shadow < at' => overlay'.private
            BY <2>1, <2>7, <2>9
        <3>4. QED
            BY <2>9, <3>2, <3>3 DEF OverlayInv, OverlayMadeInv, OverlayMade
    <2>10. QED
        BY <1>2, <2>8, <2>9 DEF WriteOverlayFile
<1>3. QED
    BY <1>1, <1>2 DEF WriteOverlayFile

(* The mode of etc/shadow is set right after the file is written.          *)
LEMMA ChmodStep ==
    ASSUME TypeOK, OverlayInv, ChmodShadow
    PROVE  OverlayInv' /\ OverlayMadeInv'
<1>1. CASE pc' = "none"
    BY <1>1 DEF OverlayInv, OverlayMadeInv, OverlayMade
<1>2. CASE overlay' = [overlay EXCEPT !.private = TRUE] /\ pc' = "overlay" /\ at' = at + 1
    <2>1. overlay'.files = overlay.files /\ overlay'.private
        BY <1>2 DEF TypeOK, Overlay
    <2>2. UNCHANGED <<source, edited>> /\ pc = "chmod" /\ at = shadow
        BY DEF ChmodShadow, OverlayInv
    <2>3. \A f \in Files : /\ ~edited /\ f < at + 1 => overlay.files[f] = source[f]
                           /\ f > at => overlay.files[f] = 0
        BY <2>2 DEF OverlayInv
    <2>4. \A f \in Files : f > at + 1 \/ f = at + 1 => f > at
        BY <2>2
    <2>5. QED
        BY <1>2, <2>1, <2>2, <2>3, <2>4 DEF OverlayInv, OverlayMadeInv, OverlayMade
<1>3. QED
    BY <1>1, <1>2 DEF ChmodShadow

(* When the last file is written the overlay has them all.                 *)
LEMMA OverlayDoneStep ==
    ASSUME TypeOK, OverlayInv, OverlayDone
    PROVE  OverlayInv' /\ OverlayMadeInv'
<1>1. overlay.files \in [Files -> Version] /\ source \in [Files -> Version]
    BY DEF TypeOK, Overlay
<1>2. pc = "overlay" /\ pc' = "ukis" /\ UNCHANGED <<overlay, source, edited>>
    BY DEF OverlayDone
<1>3. \A f \in Files : f < at
    BY DEF OverlayDone, TypeOK
<1>4. ~edited => \A f \in Files : overlay.files[f] = source[f]
    BY <1>2, <1>3 DEF OverlayInv
<1>5. ~edited => overlay.files = source
    BY <1>1, <1>4
<1>6. overlay.private
    BY <1>2, <1>3 DEF OverlayInv
<1>7. QED
    BY <1>2, <1>5, <1>6 DEF OverlayInv, OverlayMadeInv

(* A UKI that is built is of the parts there are, as those before it.      *)
LEMMA UkiStep ==
    ASSUME TypeOK, UkiInv, BuildUki
    PROVE  UkiInv'
<1>1. pc = "ukis" /\ at \in Entries /\ ukis \in [Entries -> Uki] /\ Built' = Built
    BY DEF BuildUki, TypeOK, Built
<1>2. CASE pc' = "none"
    BY <1>2 DEF UkiInv
<1>3. CASE ukis' = [ukis EXCEPT ![at] = Built] /\ at' = at + 1 /\ pc' = pc
    <2>1. \A e \in Entries : e < at + 1 => e < at \/ e = at
        BY <1>1
    <2>2. \A e \in Entries : e < at + 1 => ukis'[e] = Built
        BY <1>1, <1>3, <2>1 DEF UkiInv
    <2>3. QED
        BY <1>1, <1>3, <2>2 DEF UkiInv
<1>4. QED
    BY <1>2, <1>3 DEF BuildUki

(* What an edit of the source leaves to be said of the overlay.            *)
LEMMA EditStep ==
    ASSUME OverlayInv, OverlayMadeInv, EditOverlay
    PROVE  OverlayInv' /\ OverlayMadeInv'
<1>1. edited' = TRUE /\ UNCHANGED <<overlay, pc, at>>
    BY DEF EditOverlay
<1>2. QED
    BY <1>1 DEF OverlayInv, OverlayMadeInv, OverlayMade

(* Every step of create_iso, a kill, and everything that happens to the    *)
(* parts and the overlay preserve the invariant.                           *)
LEMMA NextIInv == IInv /\ [Next]_vars => IInv'
<1> SUFFICES ASSUME IInv, [Next]_vars
             PROVE  IInv'
    OBVIOUS
<1>0. TypeOK'
    BY NextTypeOK DEF IInv
<1> USE DEF IInv, TypeOK, UkiInv, OverlayInv, OverlayMade, OverlayMadeInv, IsoInv, Renamed,
       OfThisBuild, UkisOf, UkisMatchIso, OldOrNewIso, OkIsoIsCurrent, ChecksumIsOfIso, Built, Assembled, NoIso
<1>1. CASE Start
    BY <1>0, <1>1 DEF Start
<1>2. CASE Validate
    BY <1>0, <1>2 DEF Validate
<1>3. CASE RemoveOverlay
    <2>1. OverlayInv' /\ OverlayMadeInv'
        BY <1>3, RemoveOverlayStep
    <2>2. UkiInv' /\ IsoInv' /\ UkisMatchIso' /\ OldOrNewIso' /\ OkIsoIsCurrent'
          /\ ChecksumIsOfIso'
        BY <1>3 DEF RemoveOverlay
    <2>3. QED
        BY <1>0, <2>1, <2>2
<1>4. CASE WriteOverlayFile
    <2>1. OverlayInv' /\ OverlayMadeInv'
        BY <1>4, WriteStep
    <2>2. UkiInv' /\ IsoInv' /\ UkisMatchIso' /\ OldOrNewIso' /\ OkIsoIsCurrent'
          /\ ChecksumIsOfIso'
        BY <1>4 DEF WriteOverlayFile
    <2>3. QED
        BY <1>0, <2>1, <2>2
<1>5. CASE ChmodShadow
    <2>1. OverlayInv' /\ OverlayMadeInv'
        BY <1>5, ChmodStep
    <2>2. UkiInv' /\ IsoInv' /\ UkisMatchIso' /\ OldOrNewIso' /\ OkIsoIsCurrent'
          /\ ChecksumIsOfIso'
        BY <1>5 DEF ChmodShadow
    <2>3. QED
        BY <1>0, <2>1, <2>2
<1>6. CASE OverlayDone
    <2>1. OverlayInv' /\ OverlayMadeInv'
        BY <1>6, OverlayDoneStep
    <2>2. UkiInv' /\ IsoInv' /\ UkisMatchIso' /\ OldOrNewIso' /\ OkIsoIsCurrent'
          /\ ChecksumIsOfIso'
        BY <1>6 DEF OverlayDone
    <2>3. QED
        BY <1>0, <2>1, <2>2
<1>7. CASE BuildUki
    <2>1. UkiInv'
        BY <1>7, UkiStep
    <2>2. OverlayInv' /\ OverlayMadeInv' /\ IsoInv'
        BY <1>7 DEF BuildUki
    <2>3. UkisMatchIso' /\ OldOrNewIso' /\ OkIsoIsCurrent' /\ ChecksumIsOfIso'
        BY <1>7 DEF BuildUki
    <2>4. QED
        BY <1>0, <2>1, <2>2, <2>3
<1>8. CASE UkisDone
    BY <1>0, <1>8 DEF UkisDone
<1>9. CASE Reciso
    <2>1. UkiInv' /\ IsoInv'
        <3>1. CASE pc' = "none"
            BY <3>1
        <3>2. CASE tmp' = Assembled /\ pc' = "rename" /\ (tmpSum' = build \/ mishaps' # {})
            <4>1. pc = "reciso" /\ UNCHANGED <<parts, overlay, build, iso, before>>
                BY <1>9 DEF Reciso
            <4>2. OfThisBuild(tmp)' /\ UkisOf(tmp)'
                BY <3>2, <4>1
            <4>3. QED
                BY <3>2, <4>1, <4>2
        <3>3. mishaps \cup {"no_sum"} # {}
            OBVIOUS
        <3>4. QED
            BY <1>9, <3>1, <3>2, <3>3 DEF Reciso
    <2>2. OverlayInv' /\ OverlayMadeInv' /\ UkisMatchIso' /\ OldOrNewIso' /\ OkIsoIsCurrent'
          /\ ChecksumIsOfIso'
        BY <1>9 DEF Reciso
    <2>3. QED
        BY <1>0, <2>1, <2>2
<1>10. CASE RenameIso
    BY <1>0, <1>10 DEF RenameIso
<1>11. CASE RenameChecksum
    <2>1. /\ UNCHANGED <<parts, source, overlay, ukis, tmp, iso, build, before, edited>>
          /\ pc = "rename_sum" /\ at' = 1
          /\ \/ pc' = "cleanup" /\ result' = result
             \/ pc' = "none" /\ result' = "err"
        BY <1>11 DEF RenameChecksum
    <2>2. UkiInv' /\ OverlayInv' /\ OverlayMadeInv' /\ IsoInv'
        BY <2>1
    <2>3. UkisMatchIso' /\ OldOrNewIso' /\ OkIsoIsCurrent'
        BY <2>1
    <2>4. ChecksumIsOfIso'
        BY <1>11 DEF RenameChecksum
    <2>5. QED
        BY <1>0, <2>2, <2>3, <2>4
<1>12. CASE RemoveUkis
    BY <1>0, <1>12 DEF RemoveUkis
<1>13. CASE VerifyIso
    BY <1>0, <1>13 DEF VerifyIso
<1>14. CASE EditOverlay
    <2>1. UNCHANGED <<parts, overlay, ukis, tmp, tmpSum, iso, sum, pc, at, build, result, before, mishaps>>
          /\ edited' = TRUE
        BY <1>14 DEF EditOverlay
    <2>2. OverlayInv' /\ OverlayMadeInv'
        BY <1>14, EditStep
    <2>3. UkiInv' /\ IsoInv'
        BY <2>1
    <2>4. UkisMatchIso' /\ OldOrNewIso' /\ OkIsoIsCurrent' /\ ChecksumIsOfIso'
        BY <2>1
    <2>5. QED
        BY <1>0, <2>2, <2>3, <2>4
<1>15. CASE RebuildPart
    BY <1>0, <1>15 DEF RebuildPart
<1>16. CASE CleanIso
    BY <1>0, <1>16 DEF CleanIso
<1>17. CASE Kill
    BY <1>0, <1>17 DEF Kill
<1>18. CASE Rest
    BY <1>0, <1>18 DEF Rest
<1>19. CASE UNCHANGED vars
    <2>1. UkiInv' /\ OverlayInv' /\ OverlayMadeInv' /\ IsoInv'
        BY <1>19
    <2>2. UkisMatchIso' /\ OldOrNewIso' /\ OkIsoIsCurrent' /\ ChecksumIsOfIso'
        BY <1>19
    <2>3. QED
        BY <1>0, <2>1, <2>2
<1>20. QED
    BY <1>1, <1>2, <1>3, <1>4, <1>5, <1>6, <1>7, <1>8, <1>9, <1>10, <1>11, <1>12, <1>13, <1>14,
       <1>15, <1>16, <1>17, <1>18, <1>19 DEF Next

(* The invariant holds in every state of every behaviour.                  *)
LEMMA IInvHolds == Spec => []IInv
<1>1. QED
    BY InitIInv, NextIInv, PTL DEF Spec

(* create_iso and everything around it keep the state within its types.    *)
THEOREM TypeCorrect == Spec => []TypeOK
<1>1. IInv => TypeOK
    BY DEF IInv
<1>2. QED
    BY <1>1, IInvHolds, PTL

(* create_iso hands reciso only UKIs that build_installed_ukis has written *)
(* anew in this build, so that those in a published ISO boot the kernel    *)
(* and the initramfs of the same ISO, whatever killed builds had left.     *)
THEOREM UkisMatch == Spec => []UkisMatchIso
<1>1. IInv => UkisMatchIso
    BY DEF IInv
<1>2. QED
    BY <1>1, IInvHolds, PTL

(* The rename that publishes the ISO is the only step of create_iso that   *)
(* touches the final path, and it publishes a whole ISO: a build that      *)
(* fails or is killed leaves the old ISO or the whole new one.             *)
THEOREM OldOrNew == Spec => []OldOrNewIso
<1>1. IInv => OldOrNewIso
    BY DEF IInv
<1>2. QED
    BY <1>1, IInvHolds, PTL

(* A create_iso that reports success has published an ISO of the parts     *)
(* there are, with the overlay of the source and a private shadow file.    *)
THEOREM OkIsCurrent == Spec => []OkIsoIsCurrent
<1>1. IInv => OkIsoIsCurrent
    BY DEF IInv
<1>2. QED
    BY <1>1, IInvHolds, PTL

(* Of the two files that create_iso renames one after the other, the       *)
(* checksum is always that of the ISO it lies beside, except where a build *)
(* stopped between the renames or reciso wrote none.                       *)
THEOREM ChecksumMatches == Spec => []ChecksumIsOfIso
<1>1. IInv => ChecksumIsOfIso
    BY DEF IInv
<1>2. QED
    BY <1>1, IInvHolds, PTL
-----------------------------------------------------------------------------
(* The final path of the ISO, as its callers see it.  A partial ISO there  *)
(* would be no artifact of any build.                                      *)
Slot == INSTANCE UnverifiedSlot WITH
    issued <- build,
    running <- pc # "none",
    slot <- IF iso.st = "absent" THEN 0
            ELSE IF iso.st = "whole" THEN iso.build ELSE build + 1,
    ok <- result = "ok"

ImplementsSlot == Slot!RenamedSpec

\* What is at the final path is never partly written.
NoPartialIso == iso.st # "partial"

(* Only the rename puts something at the final path, and what it renames   *)
(* is whole.                                                               *)
LEMMA NextNoPartialIso == IInv /\ NoPartialIso /\ [Next]_vars => NoPartialIso'
<1> SUFFICES ASSUME IInv, NoPartialIso, [Next]_vars
             PROVE  NoPartialIso'
    OBVIOUS
<1>1. CASE RenameIso
    BY <1>1 DEF RenameIso, NoPartialIso, IInv, IsoInv, OfThisBuild
<1>2. CASE CleanIso
    BY <1>2 DEF CleanIso, NoPartialIso, NoIso
<1>3. CASE iso' = iso
    BY <1>3 DEF NoPartialIso
<1>4. QED
    BY <1>1, <1>2, <1>3 DEF Next, Start, Validate, RemoveOverlay, WriteOverlayFile, ChmodShadow,
       OverlayDone, BuildUki, UkisDone, Reciso, RenameChecksum, RemoveUkis, VerifyIso, EditOverlay,
       RebuildPart, Kill, Rest

(* A step of a build that leaves the final path alone is none of the slot, *)
(* or ends the build.                                                      *)
LEMMA StepBesideSlot ==
    ASSUME pc # "none", UNCHANGED <<iso, build>>,
           (pc' # "none" /\ result' = result) \/ (pc' = "none" /\ result' \in {"err", "killed"})
    PROVE  Slot!Abort \/ UNCHANGED Slot!slotVars
BY DEF Slot!Abort, Slot!slotVars

(* create_iso implements an unverified slot whose artifacts are renamed:   *)
(* what a caller finds at the final path is one whole ISO, which nothing   *)
(* but a clean takes away before there is another, and success is reported *)
(* only with the ISO of this build there.                                  *)
THEOREM RefinesSlot == Spec => ImplementsSlot
<1>1. Init => Slot!SlotInit /\ NoPartialIso
    BY DEF Init, Slot!SlotInit, NoPartialIso, NoIso
<1>2. ASSUME IInv, NoPartialIso, [Next]_vars
      PROVE  [Slot!RenamedNext]_(Slot!slotVars)
    <2> USE <1>2 DEF IInv, TypeOK, IsoInv
    <2>1. CASE Start
        <3>1. Slot!Begin
            BY <2>1 DEF Start, Slot!Begin, NoPartialIso, Iso
        <3>2. QED
            BY <3>1 DEF Slot!RenamedNext
    <2>2. CASE RenameIso
        <3>1. CASE iso' = tmp /\ pc' = "rename_sum"
            <4>1. Slot!Publish
                BY <2>2, <3>1 DEF RenameIso, Slot!Publish, OfThisBuild
            <4>2. QED
                BY <4>1 DEF Slot!RenamedNext
        <3>2. CASE UNCHANGED iso /\ pc' = "none" /\ result' = "err"
            <4>1. Slot!Abort \/ UNCHANGED Slot!slotVars
                BY <2>2, <3>2, StepBesideSlot DEF RenameIso
            <4>2. QED
                BY <4>1 DEF Slot!RenamedNext
        <3>3. QED
            BY <2>2, <3>1, <3>2 DEF RenameIso
    <2>3. CASE VerifyIso
        <3>1. Slot!Succeed \/ Slot!Abort
            BY <2>3 DEF VerifyIso, Slot!Succeed, Slot!Abort, OfThisBuild, Renamed
        <3>2. QED
            BY <3>1 DEF Slot!RenamedNext
    <2>4. CASE CleanIso
        <3>1. (pc = "none" /\ Slot!Withdraw) \/ Slot!Forget
            BY <2>4 DEF CleanIso, NoIso, Slot!Withdraw, Slot!Forget
        <3>2. QED
            BY <3>1 DEF Slot!RenamedNext
    <2>5. CASE RebuildPart
        <3>1. Slot!Forget
            BY <2>5 DEF RebuildPart, Slot!Forget
        <3>2. QED
            BY <3>1 DEF Slot!RenamedNext
    <2>6. CASE EditOverlay \/ Rest \/ UNCHANGED vars
        BY <2>6 DEF EditOverlay, Rest, Slot!slotVars
    <2>7. CASE \/ Validate \/ RemoveOverlay \/ WriteOverlayFile \/ ChmodShadow \/ OverlayDone
               \/ BuildUki \/ UkisDone \/ Reciso \/ RenameChecksum \/ RemoveUkis \/ Kill
        <3>1. /\ pc # "none" /\ UNCHANGED <<iso, build>>
              /\ (pc' # "none" /\ result' = result) \/ (pc' = "none" /\ result' \in {"err", "killed"})
            BY <2>7 DEF Validate, RemoveOverlay, WriteOverlayFile, ChmodShadow, OverlayDone, BuildUki,
               UkisDone, Reciso, RenameChecksum, RemoveUkis, Kill
        <3>2. Slot!Abort \/ UNCHANGED Slot!slotVars
            BY <3>1, StepBesideSlot
        <3>3. QED
            BY <3>2 DEF Slot!RenamedNext
    <2>8. QED
        BY <1>2, <2>1, <2>2, <2>3, <2>4, <2>5, <2>6, <2>7 DEF Next
<1>3. QED
    BY <1>1, <1>2, NextNoPartialIso, IInvHolds, PTL DEF Spec, ImplementsSlot, Slot!RenamedSpec
=============================================================================
