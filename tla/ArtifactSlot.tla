---------------------------- MODULE ArtifactSlot ----------------------------
(***************************************************************************)
(* What a caller of an artifact builder may rely on: one named output      *)
(* ("slot") that a build either replaces as a whole or does not publish    *)
(* to.  A build may withdraw the old artifact before it publishes the new  *)
(* one, so the slot can be empty for a while, or for good if the build     *)
(* stops there; it never shows anything but a finished artifact, and a     *)
(* build reports success exactly when its own artifact is in the slot.     *)
(***************************************************************************)
EXTENDS Naturals

CONSTANT MaxBuilds      \* bound on the number of builds that are started

VARIABLES
    issued,             \* number of the last build started, 0 before any
    running,            \* is that build still running?
    slot,               \* number of the build whose artifact is there, 0: empty
    ok                  \* did the last build to end report success?

slotVars == <<issued, running, slot, ok>>

SlotTypeOK ==
    /\ issued \in 0..MaxBuilds
    /\ running \in BOOLEAN
    /\ slot \in 0..issued
    /\ ok \in BOOLEAN

SlotInit ==
    /\ issued = 0
    /\ running = FALSE
    /\ slot = 0
    /\ ok = FALSE

Begin ==
    /\ ~running
    /\ issued < MaxBuilds
    /\ issued' = issued + 1
    /\ running' = TRUE
    /\ ok' = FALSE
    /\ UNCHANGED slot

(* The old artifact goes away: during a build, or by a clean command.      *)
Withdraw ==
    /\ slot # 0
    /\ slot' = 0
    /\ ok' = FALSE
    /\ UNCHANGED <<issued, running>>

(* The running build puts its own artifact into the slot and succeeds.     *)
Commit ==
    /\ running
    /\ slot' = issued
    /\ running' = FALSE
    /\ ok' = TRUE
    /\ UNCHANGED issued

(* The running build fails or is killed: nothing is published.             *)
Abort ==
    /\ running
    /\ running' = FALSE
    /\ ok' = FALSE
    /\ UNCHANGED <<issued, slot>>

(* A clean command is run, which ends what was said of the last build.     *)
Forget ==
    /\ ~running
    /\ ok' = FALSE
    /\ UNCHANGED <<issued, running, slot>>

SlotNext == Begin \/ Withdraw \/ Commit \/ Abort \/ Forget

SlotSpec == SlotInit /\ [][SlotNext]_slotVars
=============================================================================
