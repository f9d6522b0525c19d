------------------------- MODULE RootfsBuildProofs --------------------------
(* Proofs about RootfsBuild, for every bound on the number of builds.      *)
EXTENDS RootfsBuild, TLAPS

USE MaxBuildsAssumption
USE DEF vars, files, Bookkeeping, St, File, Absent, Exists, Damaged, Holds, Running,
        BuildPc, FailPc, SwapPc, CleanPc, Pc, Outcome, Goto, Return

(* What the initial state establishes.                                     *)
LEMMA InitIInv == Init => IInv
<1> SUFFICES ASSUME Init
             PROVE  IInv
    OBVIOUS
<1>1. Absent \in File
    OBVIOUS
<1>2. TypeOK
    BY <1>1 DEF Init, TypeOK
<1>3. WorkInv /\ RemovedInv /\ ControlInv /\ GenInv
    BY DEF Init, WorkInv, RemovedInv, ControlInv, GenInv
<1>4. ErofsIsWhole /\ OkPublishesPair /\ PairMatches
    BY DEF Init, ErofsIsWhole, OkPublishesPair, PairMatches
<1>5. FailurePreservesFinal /\ SwapKeepsNew /\ CancelKeepsAPair
    BY DEF Init, FailurePreservesFinal, SwapKeepsNew, CancelKeepsAPair
<1>6. QED
    BY <1>2, <1>3, <1>4, <1>5 DEF IInv

(* A removal leaves nothing, or it ignores an error and leaves at most     *)
(* what was there.                                                         *)
LEMMA RemovalResult ==
    ASSUME NEW f \in File, NEW g, swallowed \in BOOLEAN,
           RemovedOrIgnored(f, g, DirRemains(f)) \/ RemovedOrIgnored(f, g, FileRemains(f))
    PROVE  /\ g \in File
           /\ swallowed' \in BOOLEAN
           /\ ~swallowed' => g = Absent /\ ~swallowed
           /\ g = Absent \/ g = f \/ g = Damaged(f)
<1>1. Absent \in File /\ Damaged(f) \in File
    OBVIOUS
<1>2. CASE g = Absent /\ UNCHANGED swallowed
    BY <1>1, <1>2
<1>3. CASE g \in {f, Damaged(f)} /\ swallowed' = TRUE
    BY <1>1, <1>3
<1>4. QED
    BY <1>2, <1>3 DEF RemovedOrIgnored, DirRemains, FileRemains

(* Every call of build_rootfs and clean_rootfs preserves the invariant.    *)
LEMMA NextIInv == IInv /\ [Next]_vars => IInv'
<1> SUFFICES ASSUME IInv, [Next]_vars
             PROVE  IInv'
    OBVIOUS
<1> USE DEF IInv, TypeOK, WorkInv, RemovedInv, ControlInv, GenInv, ErofsIsWhole,
       OkPublishesPair, PairMatches, FailurePreservesFinal, SwapKeepsNew, CancelKeepsAPair
<1>1. CASE BeginBuild
    BY <1>1 DEF BeginBuild
<1>2. CASE NoHostTools
    BY <1>2 DEF NoHostTools
<1>3. CASE RemoveWorkStaging
    <2>1. TypeOK'
        <3>1. workStaging' \in File /\ swallowed' \in BOOLEAN
            <4> HIDE DEF File, Damaged
            <4> QED
                BY <1>3, RemovalResult DEF RemoveWorkStaging
        <3>2. QED
            BY <1>3, <3>1 DEF RemoveWorkStaging
    <2>2. WorkInv' /\ RemovedInv'
        BY <1>3 DEF RemoveWorkStaging, RemovedOrIgnored, DirRemains
    <2>3. ControlInv' /\ GenInv' /\ ErofsIsWhole'
        BY <1>3 DEF RemoveWorkStaging, RemovedOrIgnored, DirRemains
    <2>4. OkPublishesPair' /\ PairMatches'
        BY <1>3 DEF RemoveWorkStaging, RemovedOrIgnored, DirRemains
    <2>5. FailurePreservesFinal' /\ SwapKeepsNew' /\ CancelKeepsAPair'
        BY <1>3 DEF RemoveWorkStaging, RemovedOrIgnored, DirRemains
    <2>6. QED
        BY <2>1, <2>2, <2>3, <2>4, <2>5
<1>4. CASE RemoveWorkOutput
    <2>1. TypeOK'
        <3>1. workOutput' \in File /\ swallowed' \in BOOLEAN
            <4> HIDE DEF File, Damaged
            <4> QED
                BY <1>4, RemovalResult DEF RemoveWorkOutput
        <3>2. QED
            BY <1>4, <3>1 DEF RemoveWorkOutput
    <2>2. WorkInv' /\ RemovedInv'
        BY <1>4 DEF RemoveWorkOutput, RemovedOrIgnored, FileRemains
    <2>3. ControlInv' /\ GenInv' /\ ErofsIsWhole'
        BY <1>4 DEF RemoveWorkOutput, RemovedOrIgnored, FileRemains
    <2>4. OkPublishesPair' /\ PairMatches'
        BY <1>4 DEF RemoveWorkOutput, RemovedOrIgnored, FileRemains
    <2>5. FailurePreservesFinal' /\ SwapKeepsNew' /\ CancelKeepsAPair'
        BY <1>4 DEF RemoveWorkOutput, RemovedOrIgnored, FileRemains
    <2>6. QED
        BY <2>1, <2>2, <2>3, <2>4, <2>5
<1>5. CASE CreateWork
    <2>1. TypeOK'
        BY <1>5 DEF CreateWork
    <2>2. WorkInv' /\ RemovedInv'
        BY <1>5 DEF CreateWork
    <2>3. ControlInv' /\ GenInv' /\ ErofsIsWhole'
        BY <1>5 DEF CreateWork
    <2>4. OkPublishesPair' /\ PairMatches'
        BY <1>5 DEF CreateWork
    <2>5. FailurePreservesFinal' /\ SwapKeepsNew' /\ CancelKeepsAPair'
        BY <1>5 DEF CreateWork
    <2>6. QED
        BY <2>1, <2>2, <2>3, <2>4, <2>5
<1>6. CASE CreateWorkFails
    BY <1>6 DEF CreateWorkFails
<1>7. CASE BuildSystem
    BY <1>7 DEF BuildSystem
<1>8. CASE VerifyStaging
    BY <1>8 DEF VerifyStaging
<1>9. CASE MkfsBegin
    BY <1>9 DEF MkfsBegin
<1>10. CASE MkfsEnd
    BY <1>10 DEF MkfsEnd
<1>11. CASE BuildFails
    BY <1>11 DEF BuildFails
<1>12. CASE FailRemoveStaging
    <2>1. TypeOK'
        <3>1. workStaging' \in File /\ swallowed' \in BOOLEAN
            <4> HIDE DEF File, Damaged
            <4> QED
                BY <1>12, RemovalResult DEF FailRemoveStaging
        <3>2. QED
            BY <1>12, <3>1 DEF FailRemoveStaging
    <2>2. WorkInv' /\ RemovedInv'
        BY <1>12 DEF FailRemoveStaging, RemovedOrIgnored, DirRemains
    <2>3. ControlInv' /\ GenInv' /\ ErofsIsWhole'
        BY <1>12 DEF FailRemoveStaging, RemovedOrIgnored, DirRemains
    <2>4. OkPublishesPair' /\ PairMatches'
        BY <1>12 DEF FailRemoveStaging, RemovedOrIgnored, DirRemains
    <2>5. FailurePreservesFinal' /\ SwapKeepsNew' /\ CancelKeepsAPair'
        BY <1>12 DEF FailRemoveStaging, RemovedOrIgnored, DirRemains
    <2>6. QED
        BY <2>1, <2>2, <2>3, <2>4, <2>5
<1>13. CASE FailRemoveOutput
    <2>1. TypeOK'
        <3>1. workOutput' \in File /\ swallowed' \in BOOLEAN
            <4> HIDE DEF File, Damaged
            <4> QED
                BY <1>13, RemovalResult DEF FailRemoveOutput
        <3>2. QED
            BY <1>13, <3>1 DEF FailRemoveOutput
    <2>2. WorkInv' /\ RemovedInv'
        BY <1>13 DEF FailRemoveOutput, RemovedOrIgnored, FileRemains
    <2>3. ControlInv' /\ GenInv' /\ ErofsIsWhole'
        BY <1>13 DEF FailRemoveOutput, RemovedOrIgnored, FileRemains
    <2>4. OkPublishesPair' /\ PairMatches'
        BY <1>13 DEF FailRemoveOutput, RemovedOrIgnored, FileRemains
    <2>5. FailurePreservesFinal' /\ SwapKeepsNew' /\ CancelKeepsAPair'
        BY <1>13 DEF FailRemoveOutput, RemovedOrIgnored, FileRemains
    <2>6. QED
        BY <2>1, <2>2, <2>3, <2>4, <2>5
<1>14. CASE RemoveFinalStaging
    <2>1. TypeOK'
        <3>1. finalStaging' \in File /\ swallowed' \in BOOLEAN
            <4> HIDE DEF File, Damaged
            <4> QED
                BY <1>14, RemovalResult DEF RemoveFinalStaging
        <3>2. QED
            BY <1>14, <3>1 DEF RemoveFinalStaging
    <2>2. WorkInv' /\ RemovedInv'
        BY <1>14 DEF RemoveFinalStaging, RemovedOrIgnored, DirRemains
    <2>3. ControlInv' /\ GenInv' /\ ErofsIsWhole'
        BY <1>14 DEF RemoveFinalStaging, RemovedOrIgnored, DirRemains
    <2>4. OkPublishesPair' /\ PairMatches'
        BY <1>14 DEF RemoveFinalStaging, RemovedOrIgnored, DirRemains
    <2>5. FailurePreservesFinal' /\ SwapKeepsNew' /\ CancelKeepsAPair'
        BY <1>14 DEF RemoveFinalStaging, RemovedOrIgnored, DirRemains
    <2>6. QED
        BY <2>1, <2>2, <2>3, <2>4, <2>5
<1>15. CASE RemoveFinalOutput
    <2>1. TypeOK'
        <3>1. finalOutput' \in File /\ swallowed' \in BOOLEAN
            <4> HIDE DEF File, Damaged
            <4> QED
                BY <1>15, RemovalResult DEF RemoveFinalOutput
        <3>2. QED
            BY <1>15, <3>1 DEF RemoveFinalOutput
    <2>2. WorkInv' /\ RemovedInv'
        BY <1>15 DEF RemoveFinalOutput, RemovedOrIgnored, FileRemains
    <2>3. ControlInv' /\ GenInv' /\ ErofsIsWhole'
        BY <1>15 DEF RemoveFinalOutput, RemovedOrIgnored, FileRemains
    <2>4. OkPublishesPair' /\ PairMatches'
        BY <1>15 DEF RemoveFinalOutput, RemovedOrIgnored, FileRemains
    <2>5. FailurePreservesFinal' /\ SwapKeepsNew' /\ CancelKeepsAPair'
        BY <1>15 DEF RemoveFinalOutput, RemovedOrIgnored, FileRemains
    <2>6. QED
        BY <2>1, <2>2, <2>3, <2>4, <2>5
<1>16. CASE RenameStaging
    <2>1. TypeOK'
        BY <1>16 DEF RenameStaging
    <2>2. WorkInv' /\ RemovedInv'
        BY <1>16 DEF RenameStaging
    <2>3. ControlInv' /\ GenInv' /\ ErofsIsWhole'
        BY <1>16 DEF RenameStaging
    <2>4. OkPublishesPair' /\ PairMatches'
        BY <1>16 DEF RenameStaging
    <2>5. FailurePreservesFinal' /\ SwapKeepsNew' /\ CancelKeepsAPair'
        BY <1>16 DEF RenameStaging
    <2>6. QED
        BY <2>1, <2>2, <2>3, <2>4, <2>5
<1>17. CASE RenameOutput
    BY <1>17 DEF RenameOutput
<1>18. CASE RenameFails
    BY <1>18 DEF RenameFails
<1>19. CASE BeginClean
    BY <1>19 DEF BeginClean
<1>20. CASE CleanOutput
    BY <1>20 DEF CleanOutput
<1>21. CASE CleanStaging
    BY <1>21 DEF CleanStaging
<1>22. CASE CleanFails
    BY <1>22 DEF CleanFails
<1>23. CASE RemovalInProgress
    BY <1>23 DEF RemovalInProgress
<1>24. CASE Cancel
    BY <1>24 DEF Cancel
<1>25. CASE UNCHANGED vars
    BY <1>25
<1>26. QED
    BY <1>1, <1>2, <1>3, <1>4, <1>5, <1>6, <1>7, <1>8, <1>9, <1>10, <1>11, <1>12, <1>13, <1>14, <1>15, <1>16, <1>17, <1>18, <1>19, <1>20, <1>21, <1>22, <1>23, <1>24, <1>25
       DEF Next, BuildPhase, SwapPhase, CleanPhase

(* The inductive invariant holds in every reachable state.                 *)
LEMMA IInvHolds == Spec => []IInv
BY InitIInv, NextIInv, PTL DEF Spec
-----------------------------------------------------------------------------
(* Every reachable state of the rootfs builder is well typed.              *)
THEOREM TypeCorrect == Spec => []TypeOK
<1>1. IInv => TypeOK
    BY DEF IInv
<1>2. QED
    BY <1>1, IInvHolds, PTL

(* filesystem.erofs is absent or a verified, complete image at all times:  *)
(* no failure or kill of build_rootfs shows a partial one.                 *)
THEOREM ErofsAlwaysWhole == Spec => []ErofsIsWhole
<1>1. IInv => ErofsIsWhole
    BY DEF IInv
<1>2. QED
    BY <1>1, IInvHolds, PTL

(* Ok from build_rootfs means both artifacts of that build are in place.   *)
THEOREM OkAlwaysPublishesPair == Spec => []OkPublishesPair
<1>1. IInv => OkPublishesPair
    BY DEF IInv
<1>2. QED
    BY <1>1, IInvHolds, PTL

(* The staging directory and the image never come from different builds    *)
(* unless the error of a removal was ignored.                              *)
THEOREM PairAlwaysMatches == Spec => []PairMatches
<1>1. IInv => PairMatches
    BY DEF IInv
<1>2. QED
    BY <1>1, IInvHolds, PTL

(* An error before the swap leaves the existing artifacts untouched.       *)
THEOREM FailureAlwaysPreserves == Spec => []FailurePreservesFinal
<1>1. IInv => FailurePreservesFinal
    BY DEF IInv
<1>2. QED
    BY <1>1, IInvHolds, PTL

(* A swap that fails has lost the old pair at most, never the new one.     *)
THEOREM SwapAlwaysKeepsNew == Spec => []SwapKeepsNew
<1>1. IInv => SwapKeepsNew
    BY DEF IInv
<1>2. QED
    BY <1>1, IInvHolds, PTL

(* A kill at any point leaves the old pair untouched or the new one whole. *)
THEOREM CancelAlwaysKeepsAPair == Spec => []CancelKeepsAPair
<1>1. IInv => CancelKeepsAPair
    BY DEF IInv
<1>2. QED
    BY <1>1, IInvHolds, PTL
-----------------------------------------------------------------------------
(* Steps that no caller of the slot can see.                               *)
LEMMA QuietStep ==
    ASSUME UNCHANGED <<build, finalOutput, outcome>>, Running' = Running
    PROVE  UNCHANGED Slot!slotVars
<1> HIDE DEF Running
<1> QED
    BY DEF Slot!slotVars

(* build_rootfs implements the artifact slot: the image is replaced as a   *)
(* whole, and success is reported exactly when it was.                     *)
THEOREM RefinesSlot == Spec => ImplementsSlot
<1>1. Init => Slot!SlotInit
    BY DEF Init, Slot!SlotInit
<1>2. ASSUME IInv, IInv', [Next]_vars
      PROVE  [Slot!SlotNext]_(Slot!slotVars)
    <2> USE <1>2 DEF IInv, TypeOK, ControlInv, GenInv, ErofsIsWhole
    <2>1. CASE BeginBuild
        <3>1. Slot!Begin
            BY <2>1 DEF BeginBuild, Slot!Begin
        <3>2. QED
            BY <3>1 DEF Slot!SlotNext
    <2>2. CASE NoHostTools
        <3>1. Slot!Forget
            BY <2>2 DEF NoHostTools, Slot!Forget
        <3>2. QED
            BY <3>1 DEF Slot!SlotNext
    <2>3. CASE RemoveWorkStaging
        BY <2>3, QuietStep DEF RemoveWorkStaging
    <2>4. CASE RemoveWorkOutput
        BY <2>4, QuietStep DEF RemoveWorkOutput
    <2>5. CASE CreateWork
        BY <2>5, QuietStep DEF CreateWork
    <2>6. CASE CreateWorkFails
        <3>1. Slot!Abort
            BY <2>6 DEF CreateWorkFails, Slot!Abort
        <3>2. QED
            BY <3>1 DEF Slot!SlotNext
    <2>7. CASE BuildSystem
        BY <2>7, QuietStep DEF BuildSystem
    <2>8. CASE VerifyStaging
        BY <2>8, QuietStep DEF VerifyStaging
    <2>9. CASE MkfsBegin
        BY <2>9, QuietStep DEF MkfsBegin
    <2>10. CASE MkfsEnd
        BY <2>10, QuietStep DEF MkfsEnd
    <2>11. CASE BuildFails
        BY <2>11, QuietStep DEF BuildFails
    <2>12. CASE FailRemoveStaging
        BY <2>12, QuietStep DEF FailRemoveStaging
    <2>13. CASE FailRemoveOutput
        <3>1. Slot!Abort
            BY <2>13 DEF FailRemoveOutput, Slot!Abort
        <3>2. QED
            BY <3>1 DEF Slot!SlotNext
    <2>14. CASE RemoveFinalStaging
        BY <2>14, QuietStep DEF RemoveFinalStaging
    <2>15. CASE RemoveFinalOutput
        <3>1. Slot!Withdraw \/ UNCHANGED Slot!slotVars
            BY <2>15 DEF RemoveFinalOutput, Slot!Withdraw, Slot!slotVars, RemovedOrIgnored, FileRemains
        <3>2. QED
            BY <3>1 DEF Slot!SlotNext
    <2>16. CASE RenameStaging
        BY <2>16, QuietStep DEF RenameStaging
    <2>17. CASE RenameOutput
        <3>1. Slot!Commit
            BY <2>17 DEF RenameOutput, Slot!Commit, WorkInv
        <3>2. QED
            BY <3>1 DEF Slot!SlotNext
    <2>18. CASE RenameFails
        <3>1. Slot!Abort
            BY <2>18 DEF RenameFails, Slot!Abort
        <3>2. QED
            BY <3>1 DEF Slot!SlotNext
    <2>19. CASE BeginClean
        <3>1. Slot!Forget
            BY <2>19 DEF BeginClean, Slot!Forget
        <3>2. QED
            BY <3>1 DEF Slot!SlotNext
    <2>20. CASE CleanOutput
        <3>1. Slot!Withdraw \/ UNCHANGED Slot!slotVars
            BY <2>20 DEF CleanOutput, Slot!Withdraw, Slot!slotVars, RemovedOrIgnored, FileRemains
        <3>2. QED
            BY <3>1 DEF Slot!SlotNext
    <2>21. CASE CleanStaging
        BY <2>21, QuietStep DEF CleanStaging
    <2>22. CASE CleanFails
        BY <2>22, QuietStep DEF CleanFails
    <2>23. CASE RemovalInProgress
        BY <2>23, QuietStep DEF RemovalInProgress
    <2>24. CASE Cancel
        <3>1. Slot!Abort \/ UNCHANGED Slot!slotVars
            BY <2>24 DEF Cancel, Slot!Abort, Slot!slotVars
        <3>2. QED
            BY <3>1 DEF Slot!SlotNext
    <2>25. CASE UNCHANGED vars
        BY <2>25, QuietStep
    <2>26. QED
        BY <1>2, <2>1, <2>2, <2>3, <2>4, <2>5, <2>6, <2>7, <2>8, <2>9, <2>10, <2>11, <2>12, <2>13, <2>14, <2>15, <2>16, <2>17, <2>18, <2>19, <2>20, <2>21, <2>22, <2>23, <2>24, <2>25
           DEF Next, BuildPhase, SwapPhase, CleanPhase
<1>3. QED
    BY <1>1, <1>2, IInvHolds, PTL DEF Spec, ImplementsSlot, Slot!SlotSpec
=============================================================================
