---------------------------- MODULE RootfsBuild -----------------------------
(***************************************************************************)
(* artifact::build_rootfs (src/artifact/rootfs.rs), the builder of the     *)
(* EROFS system image, one action per call that touches the file system,   *)
(* so that a build can fail or be killed between any two of them; and      *)
(* clean::clean_rootfs (src/clean.rs), which works on the same paths.      *)
(*                                                                         *)
(* A path holds a File: how far its content has got (st), which build      *)
(* wrote it (gen) and whether every file in it is of that build (pure).    *)
(* st of a directory is "partial" while a build fills it or a removal      *)
(* empties it, "incomplete" once build_system has returned but a file that *)
(* verify_staging requires is missing, "whole" when none is; an image has  *)
(* the st of the directory it was made from, or is "partial" while         *)
(* mkfs.erofs writes it.                                                   *)
(***************************************************************************)
EXTENDS Naturals

CONSTANT MaxBuilds      \* bound on the number of builds that are started

ASSUME MaxBuildsAssumption == MaxBuilds \in Nat

VARIABLES
    workStaging,        \* rootfs-staging.work
    workOutput,         \* filesystem.erofs.work
    finalStaging,       \* rootfs-staging, what a qcow2 image is made from
    finalOutput,        \* filesystem.erofs, what the ISO is made from
    pc,                 \* the next call of the running command
    build,              \* number of the last build started
    outcome,            \* how the last command ended
    before,             \* <<finalStaging, finalOutput>> when it started
    swallowed           \* has a removal failed and its error been ignored?

files == <<workStaging, workOutput, finalStaging, finalOutput>>
vars == <<files, pc, build, outcome, before, swallowed>>

St == {"absent", "partial", "incomplete", "whole"}
File == [st : St, gen : 0..MaxBuilds, pure : BOOLEAN]
Absent == [st |-> "absent", gen |-> 0, pure |-> TRUE]
Exists(f) == f.st # "absent"

\* The calls up to and including mkfs.erofs, the failure cleanup, the swap.
BuildPc == {"rm_work_staging", "rm_work_output", "create_work", "build_system",
            "verify_staging", "mkfs_begin", "mkfs_end"}
FailPc == {"fail_rm_staging", "fail_rm_output"}
SwapPc == {"rm_final_staging", "rm_final_output", "rename_staging", "rename_output"}
CleanPc == {"clean_output", "clean_staging"}
Pc == {"idle"} \cup BuildPc \cup FailPc \cup SwapPc \cup CleanPc
Outcome == {"none", "ok", "no_tools", "create_failed", "build_failed",
            "rename_failed", "cancelled", "cleaning"}

TypeOK ==
    /\ workStaging \in File
    /\ workOutput \in File
    /\ finalStaging \in File
    /\ finalOutput \in File
    /\ pc \in Pc
    /\ build \in 0..MaxBuilds
    /\ outcome \in Outcome
    /\ before \in File \X File
    /\ swallowed \in BOOLEAN

Init ==
    /\ workStaging = Absent
    /\ workOutput = Absent
    /\ finalStaging = Absent
    /\ finalOutput = Absent
    /\ pc = "idle"
    /\ build = 0
    /\ outcome = "none"
    /\ before = <<Absent, Absent>>
    /\ swallowed = FALSE
-----------------------------------------------------------------------------
(* What a removal can leave behind.  remove_dir_all deletes entry by entry *)
(* and stops at the first error; remove_file is atomic.                    *)
Damaged(f) == [f EXCEPT !.st = "partial"]
DirRemains(f) == IF Exists(f) THEN {f, Damaged(f)} ELSE {}
FileRemains(f) == IF Exists(f) THEN {f} ELSE {}

\* let _ = fs::remove_...(p): it works, or its error is ignored.
RemovedOrIgnored(f, g, remains) ==
    \/ g = Absent /\ UNCHANGED swallowed
    \/ g \in remains /\ swallowed' = TRUE

Goto(from, to) == pc = from /\ pc' = to
Return(from, o) == Goto(from, "idle") /\ outcome' = o
Running == pc \in BuildPc \cup FailPc \cup SwapPc
Bookkeeping == <<build, before>>
-----------------------------------------------------------------------------
(* Faulty variants of the calls below, each the bug its name says; none of *)
(* them is part of the specification.                                      *)
RemoveWorkStagingAndFinal ==
    /\ Goto("rm_work_staging", "rm_work_output")
    /\ workStaging' = Absent
    /\ finalStaging' = Absent
    /\ UNCHANGED <<workOutput, finalOutput, outcome, Bookkeeping, swallowed>>

VerifyStagingOnlyWarns ==
    /\ Goto("verify_staging", "mkfs_begin")
    /\ UNCHANGED <<files, outcome, Bookkeeping, swallowed>>

FailRemoveFinalOutput ==
    /\ Return("fail_rm_output", "build_failed")
    /\ finalOutput' = Absent
    /\ UNCHANGED <<workStaging, workOutput, finalStaging, Bookkeeping, swallowed>>

RemoveFinalOutputSkipped ==
    /\ Goto("rm_final_output", "rename_staging")
    /\ UNCHANGED <<files, outcome, Bookkeeping, swallowed>>

RenameFailsIgnored ==
    /\ pc \in {"rename_staging", "rename_output"}
    /\ pc' = "idle"
    /\ outcome' = "ok"
    /\ UNCHANGED <<files, Bookkeeping, swallowed>>

RenameFailsAndCleansUp ==
    /\ pc \in {"rename_staging", "rename_output"}
    /\ pc' = "idle"
    /\ outcome' = "rename_failed"
    /\ workStaging' = Absent
    /\ workOutput' = Absent
    /\ UNCHANGED <<finalStaging, finalOutput, Bookkeeping, swallowed>>

RenameStagingRetriedForever ==
    /\ pc = "rename_output"
    /\ pc' = "idle"
    /\ outcome' = "rename_failed"
    /\ UNCHANGED <<files, Bookkeeping, swallowed>>
-----------------------------------------------------------------------------
(* build_rootfs is called; check_host_tools finds its tools or bails.      *)
BeginBuild ==
    /\ Goto("idle", "rm_work_staging")
    /\ build < MaxBuilds
    /\ build' = build + 1
    /\ outcome' = "none"
    /\ before' = <<finalStaging, finalOutput>>
    /\ UNCHANGED <<files, swallowed>>

NoHostTools ==
    /\ pc = "idle"
    /\ outcome' = "no_tools"
    /\ UNCHANGED <<files, pc, Bookkeeping, swallowed>>

(* 1. Clean the work locations; errors are ignored.                        *)
RemoveWorkStaging ==
    /\ Goto("rm_work_staging", "rm_work_output")
    /\ RemovedOrIgnored(workStaging, workStaging', DirRemains(workStaging))
    /\ UNCHANGED <<workOutput, finalStaging, finalOutput, outcome, Bookkeeping>>

RemoveWorkOutput ==
    /\ Goto("rm_work_output", "create_work")
    /\ RemovedOrIgnored(workOutput, workOutput', FileRemains(workOutput))
    /\ UNCHANGED <<workStaging, finalStaging, finalOutput, outcome, Bookkeeping>>

\* create_dir_all is content with a directory that is still there.
CreateWork ==
    /\ Goto("create_work", "build_system")
    /\ workStaging' = [st |-> "partial", gen |-> build, pure |-> ~Exists(workStaging)]
    /\ UNCHANGED <<workOutput, finalStaging, finalOutput, outcome, Bookkeeping, swallowed>>

CreateWorkFails ==
    /\ Return("create_work", "create_failed")
    /\ UNCHANGED <<files, Bookkeeping, swallowed>>

(* 2. Build into the work locations.  Several component operations skip    *)
(* what they do not find, so build_system can succeed on a tree that lacks *)
(* a required file; verify_staging is what stops such a build.             *)
BuildSystem ==
    /\ Goto("build_system", "verify_staging")
    /\ \E s \in {"incomplete", "whole"} : workStaging' = [workStaging EXCEPT !.st = s]
    /\ UNCHANGED <<workOutput, finalStaging, finalOutput, outcome, Bookkeeping, swallowed>>

VerifyStaging ==
    /\ pc = "verify_staging"
    /\ pc' = IF workStaging.st = "whole" THEN "mkfs_begin" ELSE "fail_rm_staging"
    /\ UNCHANGED <<files, outcome, Bookkeeping, swallowed>>

\* mkfs.erofs truncates its output and fills it.
MkfsBegin ==
    /\ Goto("mkfs_begin", "mkfs_end")
    /\ workOutput' = [st |-> "partial", gen |-> build, pure |-> TRUE]
    /\ UNCHANGED <<workStaging, finalStaging, finalOutput, outcome, Bookkeeping, swallowed>>

MkfsEnd ==
    /\ Goto("mkfs_end", "rm_final_staging")
    /\ workOutput' = workStaging
    /\ UNCHANGED <<workStaging, finalStaging, finalOutput, outcome, Bookkeeping, swallowed>>

\* BuildContext::new, build_system or mkfs.erofs returns an error.
BuildFails ==
    /\ pc \in {"build_system", "mkfs_begin", "mkfs_end"}
    /\ pc' = "fail_rm_staging"
    /\ UNCHANGED <<files, outcome, Bookkeeping, swallowed>>

(* 3. On failure the work locations are removed and the error returned.    *)
FailRemoveStaging ==
    /\ Goto("fail_rm_staging", "fail_rm_output")
    /\ RemovedOrIgnored(workStaging, workStaging', DirRemains(workStaging))
    /\ UNCHANGED <<workOutput, finalStaging, finalOutput, outcome, Bookkeeping>>

FailRemoveOutput ==
    /\ Return("fail_rm_output", "build_failed")
    /\ RemovedOrIgnored(workOutput, workOutput', FileRemains(workOutput))
    /\ UNCHANGED <<workStaging, finalStaging, finalOutput, Bookkeeping>>

(* 4. The swap: remove both old artifacts, then rename both new ones.      *)
RemoveFinalStaging ==
    /\ Goto("rm_final_staging", "rm_final_output")
    /\ RemovedOrIgnored(finalStaging, finalStaging', DirRemains(finalStaging))
    /\ UNCHANGED <<workStaging, workOutput, finalOutput, outcome, Bookkeeping>>

RemoveFinalOutput ==
    /\ Goto("rm_final_output", "rename_staging")
    /\ RemovedOrIgnored(finalOutput, finalOutput', FileRemains(finalOutput))
    /\ UNCHANGED <<workStaging, workOutput, finalStaging, outcome, Bookkeeping>>

\* A directory can only be renamed over nothing or over an empty directory.
RenameStaging ==
    /\ Goto("rename_staging", "rename_output")
    /\ finalStaging.st \in {"absent", "partial"}
    /\ finalStaging' = workStaging
    /\ workStaging' = Absent
    /\ UNCHANGED <<workOutput, finalOutput, outcome, Bookkeeping, swallowed>>

RenameOutput ==
    /\ Return("rename_output", "ok")
    /\ finalOutput' = workOutput
    /\ workOutput' = Absent
    /\ UNCHANGED <<workStaging, finalStaging, Bookkeeping, swallowed>>

RenameFails ==
    /\ pc \in {"rename_staging", "rename_output"}
    /\ pc' = "idle"
    /\ outcome' = "rename_failed"
    /\ UNCHANGED <<files, Bookkeeping, swallowed>>
-----------------------------------------------------------------------------
(* clean_rootfs: the image, then the staging directory; an error ends it.  *)
BeginClean ==
    /\ Goto("idle", "clean_output")
    /\ outcome' = "cleaning"
    /\ UNCHANGED <<files, Bookkeeping, swallowed>>

CleanOutput ==
    /\ Goto("clean_output", "clean_staging")
    /\ finalOutput' = Absent
    /\ UNCHANGED <<workStaging, workOutput, finalStaging, outcome, Bookkeeping, swallowed>>

CleanStaging ==
    /\ Goto("clean_staging", "idle")
    /\ finalStaging' = Absent
    /\ UNCHANGED <<workStaging, workOutput, finalOutput, outcome, Bookkeeping, swallowed>>

CleanFails ==
    /\ pc \in CleanPc
    /\ pc' = "idle"
    /\ UNCHANGED <<files, outcome, Bookkeeping, swallowed>>
-----------------------------------------------------------------------------
(* remove_dir_all has deleted some entries and not yet all.                *)
RemovalInProgress ==
    /\ \/ /\ pc \in {"rm_work_staging", "fail_rm_staging"}
          /\ Exists(workStaging)
          /\ workStaging' = Damaged(workStaging)
          /\ UNCHANGED finalStaging
       \/ /\ pc \in {"rm_final_staging", "clean_staging"}
          /\ Exists(finalStaging)
          /\ finalStaging' = Damaged(finalStaging)
          /\ UNCHANGED workStaging
    /\ UNCHANGED <<workOutput, finalOutput, pc, outcome, Bookkeeping, swallowed>>

(* The process is killed (Ctrl-C, power loss) between two calls or inside  *)
(* one; what is on disk stays.                                             *)
Cancel ==
    /\ pc # "idle"
    /\ pc' = "idle"
    /\ outcome' = IF pc \in CleanPc THEN "cleaning" ELSE "cancelled"
    /\ UNCHANGED <<files, Bookkeeping, swallowed>>

BuildPhase ==
    \/ RemoveWorkStaging \/ RemoveWorkOutput \/ CreateWork \/ CreateWorkFails
    \/ BuildSystem \/ VerifyStaging \/ MkfsBegin \/ MkfsEnd \/ BuildFails
    \/ FailRemoveStaging \/ FailRemoveOutput
SwapPhase ==
    \/ RemoveFinalStaging \/ RemoveFinalOutput
    \/ RenameStaging \/ RenameOutput \/ RenameFails
CleanPhase == CleanOutput \/ CleanStaging \/ CleanFails

Next ==
    \/ BeginBuild \/ NoHostTools \/ BuildPhase \/ SwapPhase
    \/ BeginClean \/ CleanPhase \/ RemovalInProgress \/ Cancel

Spec == Init /\ [][Next]_vars

(* A command that has been started gets to its end unless it is killed:    *)
(* the code is sequential and waits on nobody.                             *)
Fairness == WF_vars(BuildPhase \/ SwapPhase \/ CleanPhase)
FairSpec == Spec /\ Fairness
-----------------------------------------------------------------------------
(* The image that other commands pick up (ISO, store) was verified and is  *)
(* complete at every moment, whatever failed or was killed before.         *)
ErofsIsWhole == Exists(finalOutput) => finalOutput.st = "whole"

(* build_rootfs returns Ok only with both artifacts of this very build in  *)
(* place, whole, and nothing left in .work: a staging directory that an    *)
(* interrupted swap has damaged (the qcow2 builder only asks whether it    *)
(* exists) is repaired by the next build that reports success.             *)
OkPublishesPair ==
    outcome = "ok" =>
        /\ finalStaging.st = "whole" /\ finalOutput.st = "whole"
        /\ finalStaging.gen = build /\ finalOutput.gen = build
        /\ ~Exists(workStaging) /\ ~Exists(workOutput)

(* Two whole artifacts side by side are of the same build and hold nothing *)
(* of another, as long as no removal error was ignored: the ISO and the    *)
(* qcow2 image made from them install the same system.                     *)
PairMatches ==
    ~swallowed /\ finalStaging.st = "whole" /\ Exists(finalOutput) =>
        finalStaging = finalOutput /\ finalOutput.pure

(* "2. Build into work directory (may fail - final is preserved)": a build *)
(* that ends with an error before the swap leaves both artifacts exactly   *)
(* as it found them.                                                       *)
FailurePreservesFinal ==
    outcome \in {"build_failed", "create_failed"} => before = <<finalStaging, finalOutput>>

(* "If rename fails after removal, we've lost the old but have the new in  *)
(* .work": from the first removal of the swap until the build ends, also   *)
(* with a failed rename, each half of the new pair is at its work or at    *)
(* its final location, whole.                                              *)
Holds(f) == f.st = "whole" /\ f.gen = build
SwapKeepsNew ==
    pc \in SwapPc \/ outcome = "rename_failed" =>
        /\ Holds(workStaging) \/ Holds(finalStaging)
        /\ Holds(workOutput) \/ Holds(finalOutput)

(* A cancelled build that had not begun its swap preserved both artifacts; *)
(* and one that had can have lost them, but kept the new pair in .work.    *)
CancelKeepsAPair ==
    outcome = "cancelled" =>
        \/ before = <<finalStaging, finalOutput>>
        \/ /\ Holds(workStaging) \/ Holds(finalStaging)
           /\ Holds(workOutput) \/ Holds(finalOutput)

(* Every command that is started ends.                                     *)
CommandsEnd == (pc # "idle") ~> (pc = "idle")

-----------------------------------------------------------------------------
(* The inductive invariant behind the safety properties, by what each part *)
(* is about.                                                               *)

\* What the running command has established about the work locations.
WorkInv ==
    /\ pc \in {"rm_work_output", "create_work"} /\ ~swallowed => ~Exists(workStaging)
    /\ pc \in {"build_system", "verify_staging", "mkfs_begin", "mkfs_end"} =>
        workStaging.gen = build /\ (~swallowed => workStaging.pure)
    /\ pc \in {"mkfs_begin", "mkfs_end"} => workStaging.st = "whole"
    /\ pc \in {"rm_final_staging", "rm_final_output", "rename_staging"} =>
        Holds(workStaging) /\ workOutput = workStaging /\ (~swallowed => workStaging.pure)
    /\ pc = "rename_output" =>
        /\ Holds(workOutput) /\ workOutput = finalStaging /\ ~Exists(workStaging)
        /\ ~swallowed => workOutput.pure

\* What the swap and clean_rootfs have removed.
RemovedInv ==
    /\ pc = "rm_final_output" /\ ~swallowed => ~Exists(finalStaging)
    /\ pc = "rename_staging" /\ ~swallowed => ~Exists(finalStaging) /\ ~Exists(finalOutput)
    /\ pc = "rename_output" /\ ~swallowed => ~Exists(finalOutput)
    /\ pc = "clean_staging" => ~Exists(finalOutput)

\* How outcome and before go with the control state.
ControlInv ==
    /\ Running => outcome = "none" /\ build > 0
    /\ pc \in CleanPc => outcome = "cleaning"
    /\ pc \in BuildPc \cup FailPc => before = <<finalStaging, finalOutput>>

GenInv == Exists(finalOutput) => finalOutput.gen \in 1..build

IInv ==
    /\ TypeOK /\ WorkInv /\ RemovedInv /\ ControlInv /\ GenInv
    /\ ErofsIsWhole /\ OkPublishesPair /\ PairMatches
    /\ FailurePreservesFinal /\ SwapKeepsNew /\ CancelKeepsAPair
-----------------------------------------------------------------------------
(* The image alone keeps the promise of an artifact slot.                  *)
Slot == INSTANCE ArtifactSlot WITH
    issued <- build,
    running <- Running,
    slot <- IF ~Exists(finalOutput) THEN 0
            ELSE IF finalOutput.st = "whole" THEN finalOutput.gen ELSE build + 1,
    ok <- outcome = "ok"

ImplementsSlot == Slot!SlotSpec
=============================================================================
