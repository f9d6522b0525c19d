--------------------------- MODULE UnverifiedSlot ---------------------------
(***************************************************************************)
(* What is left of ArtifactSlot for a builder that verifies an artifact    *)
(* only where its callers find it: the artifact is in the slot before its  *)
(* build has succeeded and stays there if the build then fails.  What is   *)
(* in the slot is still that of one build, the last one or one that        *)
(* nothing was published over, and success is that of the last build's.    *)
(***************************************************************************)
EXTENDS ArtifactSlot

(* The running build puts its artifact into the slot, and goes on.         *)
Publish ==
    /\ running
    /\ slot' = issued
    /\ UNCHANGED <<issued, running, ok>>

(* The running build finds its artifact in the slot to be as it should be. *)
Succeed ==
    /\ running /\ slot = issued
    /\ running' = FALSE
    /\ ok' = TRUE
    /\ UNCHANGED <<issued, slot>>

(* The running build stops while it writes to the slot.                    *)
Tear ==
    /\ running /\ slot = 0
    /\ slot' = issued
    /\ running' = FALSE
    /\ ok' = FALSE
    /\ UNCHANGED issued

(* A builder that renames a finished artifact: it replaces the old one,    *)
(* which no build takes away, and never leaves half of one.                *)
RenamedNext ==
    \/ Begin \/ Publish \/ Succeed \/ Abort \/ Forget
    \/ (~running /\ Withdraw)

(* A builder that writes in place: it takes the old artifact away, and may *)
(* leave half of the new one.                                              *)
WrittenNext ==
    \/ Begin \/ Succeed \/ Abort \/ Forget \/ Withdraw \/ Tear
    \/ (slot = 0 /\ Publish)

RenamedSpec == SlotInit /\ [][RenamedNext]_slotVars
WrittenSpec == SlotInit /\ [][WrittenNext]_slotVars
=============================================================================
