------------------------ MODULE BuildPipelineProofs -------------------------
(* Proofs about BuildPipeline, for every bound on versions, commands and   *)
(* cleans, every set of commands and every set of edited inputs.           *)
EXTENDS BuildPipeline, SequenceTheorems, TLAPS

\* The commands that build without asking whether they have to.
Rebuilding == {"full", "iso", "rootfs", "initramfs"}
\* The n-th step of command c comes after the step op on a.
Passed(c, n, op, a) == \E i \in 1..(n - 1) : Program[c][i] = <<op, a>>

(* A command that runs is at one of its steps and has no result yet, and   *)
(* no builder works when none runs.                                        *)
ControlInv ==
    IF cmd = "none" THEN ip = 0 /\ reading = None
    ELSE ip \in 1..Len(Program[cmd]) /\ result.res = "none"

(* A builder works on the inputs as they are, unless they were edited.     *)
ReadingInv ==
    ~edited => \A a \in Arts : At("build", a) => reading \in {None, {inputs[a]}}

(* What a rebuilding command c has done before its n-th step is still      *)
(* there: each artifact it has built, each hash file it has written, the   *)
(* ISO it has created, newer than all of them, and its verification.       *)
Done(c, n) ==
    c \in Rebuilding =>
        /\ \A a \in Arts : Passed(c, n, "build", a) =>
             /\ out[a].st = "good"
             /\ ~edited => out[a] = [st |-> "good", src |-> inputs[a]]
             /\ a = "rootfs" => staging = out[a]
        /\ \A a \in Arts : Passed(c, n, "cache_hash", a) /\ ~edited /\ ~hashLost =>
             hash[a] = {inputs[a]}
        /\ Passed(c, n, "create_iso", "iso") =>
             /\ ~edited => iso = [st |-> iso.st, parts |-> out, overlay |-> inputs["overlay"]]
             /\ newer = {} /\ "vmlinuz" \in kernel
        /\ Passed(c, n, "verify_iso", "iso") => iso.st = "good"
DoneInv == cmd # "none" => Done(cmd, ip)

(* What is not newer than the ISO is in it.                                *)
FreshInv ==
    iso.st # "absent" => \A a \in {"rootfs", "initramfs"} :
        Exists(out[a]) /\ a \notin newer => iso.parts[a] = out[a]

(* The inductive invariant.                                                *)
IInv == TypeOK /\ ControlInv /\ ReadingInv /\ DoneInv /\ FreshInv
        /\ StoreHoldsFinished /\ SuccessIsCurrent /\ SuccessLeavesImagesUpToDate

USE BoundsAssumption, CommandsAssumption, EditedAssumption
USE DEF vars, disk, control, Arts, Sources

(* The steps of `build', one by one.                                       *)
LEMMA FullStepsAre ==
    /\ Program["full"] = FullSteps /\ Len(FullSteps) = 19
    /\ FullSteps[1] = <<"recipes", "all">> /\ FullSteps[2] = <<"restore", "rootfs">>
    /\ FullSteps[3] = <<"restore", "initramfs">>
    /\ FullSteps[4] = <<"restore", "install_initramfs">>
    /\ FullSteps[5] = <<"kernel", "kernel">> /\ FullSteps[6] = <<"build", "rootfs">>
    /\ FullSteps[7] = <<"cache_hash", "rootfs">> /\ FullSteps[8] = <<"store", "rootfs">>
    /\ FullSteps[9] = <<"build", "initramfs">> /\ FullSteps[10] = <<"cache_hash", "initramfs">>
    /\ FullSteps[11] = <<"store", "initramfs">>
    /\ FullSteps[12] = <<"build", "install_initramfs">>
    /\ FullSteps[13] = <<"cache_hash", "install_initramfs">>
    /\ FullSteps[14] = <<"store", "install_initramfs">>
    /\ FullSteps[15] = <<"create_iso", "iso">> /\ FullSteps[16] = <<"verify_iso", "iso">>
    /\ FullSteps[17] = <<"verify", "initramfs">>
    /\ FullSteps[18] = <<"verify", "install_initramfs">>
    /\ FullSteps[19] = <<"verify_iso", "iso">>
BY DEF Program, FullSteps, BuildCacheStore, CreateIsoSteps

(* The steps of `build rootfs', one by one.                                *)
LEMMA RootfsStepsAre ==
    /\ Program["rootfs"] = RootfsSteps /\ Len(RootfsSteps) = 4
    /\ RootfsSteps[1] = <<"restore", "rootfs">> /\ RootfsSteps[2] = <<"build", "rootfs">>
    /\ RootfsSteps[3] = <<"cache_hash", "rootfs">> /\ RootfsSteps[4] = <<"store", "rootfs">>
BY DEF Program, RootfsSteps, BuildCacheStore

(* The steps of `build initramfs', one by one.                             *)
LEMMA InitramfsStepsAre ==
    /\ Program["initramfs"] = InitramfsSteps /\ Len(InitramfsSteps) = 5
    /\ InitramfsSteps[1] = <<"restore", "initramfs">>
    /\ InitramfsSteps[2] = <<"build", "initramfs">>
    /\ InitramfsSteps[3] = <<"cache_hash", "initramfs">>
    /\ InitramfsSteps[4] = <<"store", "initramfs">>
    /\ InitramfsSteps[5] = <<"verify", "initramfs">>
BY DEF Program, InitramfsSteps, BuildCacheStore

(* The steps of `build iso', one by one.                                   *)
LEMMA IsoStepsAre ==
    /\ Program["iso"] = IsoSteps /\ Len(IsoSteps) = 11
    /\ IsoSteps[1] = <<"build", "rootfs">> /\ IsoSteps[2] = <<"build", "initramfs">>
    /\ IsoSteps[3] = <<"build", "install_initramfs">>
    /\ IsoSteps[4] = <<"cache_hash", "rootfs">> /\ IsoSteps[5] = <<"cache_hash", "initramfs">>
    /\ IsoSteps[6] = <<"cache_hash", "install_initramfs">>
    /\ IsoSteps[7] = <<"verify", "initramfs">>
    /\ IsoSteps[8] = <<"verify", "install_initramfs">> /\ IsoSteps[9] = <<"create_iso", "iso">>
    /\ IsoSteps[10] = <<"verify_iso", "iso">> /\ IsoSteps[11] = <<"verify_iso", "iso">>
BY DEF Program, IsoSteps, CreateIsoSteps

(* The steps of `build qcow2', one by one.                                 *)
LEMMA Qcow2StepsAre ==
    /\ Program["qcow2"] = Qcow2Steps /\ Len(Qcow2Steps) = 5
    /\ Qcow2Steps[1] = <<"need_staging", "rootfs">>
    /\ Qcow2Steps[2] = <<"if_stale", "install_initramfs">>
    /\ Qcow2Steps[3] = <<"build", "install_initramfs">>
    /\ Qcow2Steps[4] = <<"cache_hash", "install_initramfs">>
    /\ Qcow2Steps[5] = <<"qcow2", "qcow2">>
BY DEF Program, Qcow2Steps

(* The steps of `run', one by one.                                         *)
LEMMA RunStepsAre ==
    /\ Program["run"] = RunSteps /\ Len(RunSteps) = 9
    /\ RunSteps[1] = <<"recipes", "all">> /\ RunSteps[2] = <<"if_no_iso", "iso">>
    /\ RunSteps[3] = <<"if_missing", "rootfs">> /\ RunSteps[4] = <<"build", "rootfs">>
    /\ RunSteps[5] = <<"if_missing", "initramfs">> /\ RunSteps[6] = <<"build", "initramfs">>
    /\ RunSteps[7] = <<"create_iso", "iso">> /\ RunSteps[8] = <<"verify_iso", "iso">>
    /\ RunSteps[9] = <<"boot", "iso">>
BY DEF Program, RunSteps, CreateIsoSteps


(* Every command has between 4 and 19 steps.                               *)
LEMMA Lengths ==
    ASSUME NEW c \in Commands
    PROVE  Len(Program[c]) \in 4..19
<1>1. Len(Program["full"]) = 19
    BY FullStepsAre
<1>2. Len(Program["rootfs"]) = 4
    BY RootfsStepsAre
<1>3. Len(Program["initramfs"]) = 5
    BY InitramfsStepsAre
<1>4. Len(Program["iso"]) = 11
    BY IsoStepsAre
<1>5. Len(Program["qcow2"]) = 5
    BY Qcow2StepsAre
<1>6. Len(Program["run"]) = 9
    BY RunStepsAre
<1>7. c \in {"full", "rootfs", "initramfs", "iso", "qcow2", "run"}
    OBVIOUS
<1>8. QED
    BY <1>1, <1>2, <1>3, <1>4, <1>5, <1>6, <1>7

(* To go one step further is to have done the step.                        *)
LEMMA PassedNext ==
    ASSUME NEW c, NEW n \in Nat \ {0}, NEW op, NEW a
    PROVE  Passed(c, n + 1, op, a) <=> Passed(c, n, op, a) \/ Program[c][n] = <<op, a>>
<1>1. 1..(n + 1 - 1) = 1..(n - 1) \cup {n}
    OBVIOUS
<1>2. QED
    BY <1>1 DEF Passed

(* Nothing has been done before the first step.                            *)
LEMMA NothingPassed ==
    ASSUME NEW c, NEW op, NEW a
    PROVE  ~Passed(c, 1, op, a)
BY DEF Passed

(* The order of the steps of the commands that rebuild: what is stored has *)
(* been built, nothing is restored after it was built, and nothing goes    *)
(* into the ISO after it was created.                                      *)
LEMMA Order ==
    ASSUME NEW c \in Commands, NEW n \in 1..Len(Program[c]), NEW a \in Arts
    PROVE  /\ Program[c][n] = <<"store", a>> => c \in Rebuilding /\ Passed(c, n, "build", a)
           /\ c \in Rebuilding /\ Program[c][n] = <<"restore", a>> =>
                ~Passed(c, n, "build", a) /\ ~Passed(c, n, "create_iso", "iso")
           /\ c \in Rebuilding /\ Program[c][n] \in {<<"build", a>>, <<"kernel", "kernel">>} =>
                ~Passed(c, n, "create_iso", "iso")
           /\ c \in Rebuilding /\ Program[c][n] = <<"create_iso", "iso">> =>
                ~Passed(c, n, "verify_iso", "iso")
           /\ Program[c][n] \in {<<"if_stale", a>>, <<"if_missing", a>>, <<"if_no_iso", "iso">>,
                                 <<"need_staging", "rootfs">>, <<"qcow2", "qcow2">>}
                => c \notin Rebuilding
<1>1. CASE c = "full"
    <2>0. c \in Rebuilding /\ n \in 1..19 /\ Program[c] = FullSteps
        BY <1>1, FullStepsAre DEF Rebuilding
    <2>1. Program[c][n] = <<"store", a>> => Passed(c, n, "build", a)
        BY <2>0, FullStepsAre DEF Passed
    <2>2. Program[c][n] = <<"restore", a>> =>
            ~Passed(c, n, "build", a) /\ ~Passed(c, n, "create_iso", "iso")
        BY <2>0, FullStepsAre DEF Passed
    <2>3. Program[c][n] \in {<<"build", a>>, <<"kernel", "kernel">>} =>
            ~Passed(c, n, "create_iso", "iso")
        BY <2>0, FullStepsAre DEF Passed
    <2>4. Program[c][n] = <<"create_iso", "iso">> => ~Passed(c, n, "verify_iso", "iso")
        BY <2>0, FullStepsAre DEF Passed
    <2>5. Program[c][n] \notin {<<"if_stale", a>>, <<"if_missing", a>>, <<"if_no_iso", "iso">>,
                              <<"need_staging", "rootfs">>, <<"qcow2", "qcow2">>}
        BY <2>0, FullStepsAre DEF Passed
    <2>6. QED
        BY <2>0, <2>1, <2>2, <2>3, <2>4, <2>5
<1>2. CASE c = "rootfs"
    <2>0. c \in Rebuilding /\ n \in 1..4 /\ Program[c] = RootfsSteps
        BY <1>2, RootfsStepsAre DEF Rebuilding
    <2>1. Program[c][n] = <<"store", a>> => Passed(c, n, "build", a)
        BY <2>0, RootfsStepsAre DEF Passed
    <2>2. Program[c][n] = <<"restore", a>> =>
            ~Passed(c, n, "build", a) /\ ~Passed(c, n, "create_iso", "iso")
        BY <2>0, RootfsStepsAre DEF Passed
    <2>3. Program[c][n] \in {<<"build", a>>, <<"kernel", "kernel">>} =>
            ~Passed(c, n, "create_iso", "iso")
        BY <2>0, RootfsStepsAre DEF Passed
    <2>4. Program[c][n] = <<"create_iso", "iso">> => ~Passed(c, n, "verify_iso", "iso")
        BY <2>0, RootfsStepsAre DEF Passed
    <2>5. Program[c][n] \notin {<<"if_stale", a>>, <<"if_missing", a>>, <<"if_no_iso", "iso">>,
                              <<"need_staging", "rootfs">>, <<"qcow2", "qcow2">>}
        BY <2>0, RootfsStepsAre DEF Passed
    <2>6. QED
        BY <2>0, <2>1, <2>2, <2>3, <2>4, <2>5
<1>3. CASE c = "initramfs"
    <2>0. c \in Rebuilding /\ n \in 1..5 /\ Program[c] = InitramfsSteps
        BY <1>3, InitramfsStepsAre DEF Rebuilding
    <2>1. Program[c][n] = <<"store", a>> => Passed(c, n, "build", a)
        BY <2>0, InitramfsStepsAre DEF Passed
    <2>2. Program[c][n] = <<"restore", a>> =>
            ~Passed(c, n, "build", a) /\ ~Passed(c, n, "create_iso", "iso")
        BY <2>0, InitramfsStepsAre DEF Passed
    <2>3. Program[c][n] \in {<<"build", a>>, <<"kernel", "kernel">>} =>
            ~Passed(c, n, "create_iso", "iso")
        BY <2>0, InitramfsStepsAre DEF Passed
    <2>4. Program[c][n] = <<"create_iso", "iso">> => ~Passed(c, n, "verify_iso", "iso")
        BY <2>0, InitramfsStepsAre DEF Passed
    <2>5. Program[c][n] \notin {<<"if_stale", a>>, <<"if_missing", a>>, <<"if_no_iso", "iso">>,
                              <<"need_staging", "rootfs">>, <<"qcow2", "qcow2">>}
        BY <2>0, InitramfsStepsAre DEF Passed
    <2>6. QED
        BY <2>0, <2>1, <2>2, <2>3, <2>4, <2>5
<1>4. CASE c = "iso"
    <2>0. c \in Rebuilding /\ n \in 1..11 /\ Program[c] = IsoSteps
        BY <1>4, IsoStepsAre DEF Rebuilding
    <2>1. Program[c][n] = <<"store", a>> => Passed(c, n, "build", a)
        BY <2>0, IsoStepsAre DEF Passed
    <2>2. Program[c][n] = <<"restore", a>> =>
            ~Passed(c, n, "build", a) /\ ~Passed(c, n, "create_iso", "iso")
        BY <2>0, IsoStepsAre DEF Passed
    <2>3. Program[c][n] \in {<<"build", a>>, <<"kernel", "kernel">>} =>
            ~Passed(c, n, "create_iso", "iso")
        BY <2>0, IsoStepsAre DEF Passed
    <2>4. Program[c][n] = <<"create_iso", "iso">> => ~Passed(c, n, "verify_iso", "iso")
        BY <2>0, IsoStepsAre DEF Passed
    <2>5. Program[c][n] \notin {<<"if_stale", a>>, <<"if_missing", a>>, <<"if_no_iso", "iso">>,
                              <<"need_staging", "rootfs">>, <<"qcow2", "qcow2">>}
        BY <2>0, IsoStepsAre DEF Passed
    <2>6. QED
        BY <2>0, <2>1, <2>2, <2>3, <2>4, <2>5
<1>5. CASE c = "qcow2"
    <2>1. c \notin Rebuilding
        BY <1>5 DEF Rebuilding
    <2>2. Program[c][n] # <<"store", a>>
        BY <1>5, Qcow2StepsAre
    <2>3. QED
        BY <2>1, <2>2
<1>6. CASE c = "run"
    <2>1. c \notin Rebuilding
        BY <1>6 DEF Rebuilding
    <2>2. Program[c][n] # <<"store", a>>
        BY <1>6, RunStepsAre
    <2>3. QED
        BY <2>1, <2>2
<1>7. QED
    BY <1>1, <1>2, <1>3, <1>4, <1>5, <1>6

(* A full or ISO build that has got past its last step has done all there  *)
(* is to do.                                                               *)
LEMMA AllPassed ==
    ASSUME NEW c \in {"full", "iso"}
    PROVE  LET n == Len(Program[c]) + 1
           IN  /\ \A a \in Arts : Passed(c, n, "build", a) /\ Passed(c, n, "cache_hash", a)
               /\ Passed(c, n, "create_iso", "iso") /\ Passed(c, n, "verify_iso", "iso")
<1>1. CASE c = "full"
    <2>1. Passed(c, 20, "build", "rootfs") /\ Passed(c, 20, "cache_hash", "rootfs")
        BY <1>1, FullStepsAre DEF Passed
    <2>2. Passed(c, 20, "build", "initramfs") /\ Passed(c, 20, "cache_hash", "initramfs")
        BY <1>1, FullStepsAre DEF Passed
    <2>3. Passed(c, 20, "build", "install_initramfs")
          /\ Passed(c, 20, "cache_hash", "install_initramfs")
        BY <1>1, FullStepsAre DEF Passed
    <2>4. Passed(c, 20, "create_iso", "iso") /\ Passed(c, 20, "verify_iso", "iso")
        BY <1>1, FullStepsAre DEF Passed
    <2>5. Len(Program[c]) + 1 = 20
        BY <1>1, FullStepsAre
    <2>6. QED
        BY <2>1, <2>2, <2>3, <2>4, <2>5
<1>2. CASE c = "iso"
    <2>1. Passed(c, 12, "build", "rootfs") /\ Passed(c, 12, "cache_hash", "rootfs")
        BY <1>2, IsoStepsAre DEF Passed
    <2>2. Passed(c, 12, "build", "initramfs") /\ Passed(c, 12, "cache_hash", "initramfs")
        BY <1>2, IsoStepsAre DEF Passed
    <2>3. Passed(c, 12, "build", "install_initramfs")
          /\ Passed(c, 12, "cache_hash", "install_initramfs")
        BY <1>2, IsoStepsAre DEF Passed
    <2>4. Passed(c, 12, "create_iso", "iso") /\ Passed(c, 12, "verify_iso", "iso")
        BY <1>2, IsoStepsAre DEF Passed
    <2>5. Len(Program[c]) + 1 = 12
        BY <1>2, IsoStepsAre
    <2>6. QED
        BY <2>1, <2>2, <2>3, <2>4, <2>5
<1>3. QED
    BY <1>1, <1>2

USE DEF At
(* Where a command is after a step, and that it has a result only if that  *)
(* was its last one.                                                       *)
LEMMA Advances ==
    ASSUME TypeOK, ControlInv, cmd # "none", NEW k \in Nat \ {0}, Advance(k)
    PROVE  /\ cmd' \in Commands \cup {"none"} /\ ip' \in 0..20 /\ reading' = None
           /\ storeOpen' \in BOOLEAN
           /\ result' \in [cmd : Commands \cup {"none"}, res : {"none", "ok", "err", "killed"}]
           /\ UNCHANGED <<commands, cleans>> /\ ControlInv'
           /\ \/ cmd' = "none" /\ ip + k > Len(Program[cmd]) /\ result' = [cmd |-> cmd, res |-> "ok"]
              \/ cmd' = cmd /\ ip' = ip + k /\ UNCHANGED result /\ result.res = "none"
<1>1. cmd \in Commands /\ Len(Program[cmd]) \in 4..19 /\ ip \in 1..Len(Program[cmd])
      /\ result.res = "none"
    BY Lengths DEF TypeOK, ControlInv
<1>2. CASE ip + k > Len(Program[cmd])
    <2>1. cmd' = "none" /\ ip' = 0 /\ storeOpen' = FALSE /\ result' = [cmd |-> cmd, res |-> "ok"]
        BY <1>2 DEF Advance
    <2>2. ip' \in 0..20 /\ storeOpen' \in BOOLEAN
        <3>1. 0 \in 0..20
            OBVIOUS
        <3>2. storeOpen' \in BOOLEAN
            BY <2>1
        <3>3. QED
            BY <2>1, <3>1, <3>2
    <2>3. result' \in [cmd : Commands \cup {"none"}, res : {"none", "ok", "err", "killed"}]
        BY <1>1, <2>1
    <2>4. reading' = None /\ UNCHANGED <<commands, cleans>>
        BY DEF Advance
    <2>5. ControlInv'
        BY <2>1, <2>4 DEF ControlInv
    <2>6. QED
        BY <1>2, <2>1, <2>2, <2>3, <2>4, <2>5
<1>3. CASE ~(ip + k > Len(Program[cmd]))
    <2>1. cmd' = cmd /\ ip' = ip + k /\ UNCHANGED <<storeOpen, result>>
        BY <1>3 DEF Advance
    <2>2. ip' \in 1..Len(Program[cmd'])
        BY <1>1, <1>3, <2>1
    <2>3. cmd' \in Commands /\ ip' \in 0..20
        <3>1. \A m \in 4..19 : \A j \in 1..m : j \in 0..20
            OBVIOUS
        <3>2. ip' \in 1..Len(Program[cmd])
            BY <2>1, <2>2
        <3>3. QED
            BY <1>1, <2>1, <3>1, <3>2
    <2>4. /\ result' \in [cmd : Commands \cup {"none"}, res : {"none", "ok", "err", "killed"}]
          /\ storeOpen' \in BOOLEAN
        BY <2>1 DEF TypeOK
    <2>5. reading' = None /\ UNCHANGED <<commands, cleans>>
        BY DEF Advance
    <2>6. ControlInv'
        BY <1>1, <2>1, <2>2 DEF ControlInv
    <2>7. QED
        BY <1>1, <2>1, <2>3, <2>4, <2>5, <2>6
<1>4. QED
    BY <1>2, <1>3

(* A command that stops has another result than ok.                        *)
LEMMA Stopped ==
    ASSUME TypeOK, cmd # "none", NEW res \in {"err", "killed"}, Stop(res)
    PROVE  /\ cmd' = "none" /\ ip' = 0 /\ reading' = None /\ storeOpen' = FALSE
           /\ result' \in [cmd : Commands \cup {"none"}, res : {"none", "ok", "err", "killed"}]
           /\ UNCHANGED <<commands, cleans>> /\ ControlInv' /\ result'.res # "ok"
BY DEF TypeOK, Stop, ControlInv

(* A step preserves the invariant if what the command has done holds after *)
(* it, one step further.                                                   *)
LEMMA AdvanceIInv ==
    ASSUME IInv, TypeOK', cmd # "none", NEW k \in Nat \ {0}, Advance(k),
           NEW c, c = cmd, NEW n, n = ip, Done(c, n + k)', c \in Rebuilding => k = 1,
           FreshInv', StoreHoldsFinished'
    PROVE  IInv'
<1>1. ControlInv' /\ reading' = None
    BY Advances DEF IInv
<1>2. ReadingInv'
    BY <1>1 DEF ReadingInv
<1>3. CASE cmd' = cmd /\ ip' = ip + k /\ result'.res = "none"
    <2>1. DoneInv'
        BY <1>3 DEF DoneInv
    <2>2. SuccessIsCurrent' /\ SuccessLeavesImagesUpToDate'
        BY <1>3 DEF SuccessIsCurrent, SuccessLeavesImagesUpToDate
    <2>3. QED
        BY <1>1, <1>2, <2>1, <2>2 DEF IInv
<1>4. CASE cmd' = "none" /\ ip + k > Len(Program[cmd]) /\ result' = [cmd |-> cmd, res |-> "ok"]
    <2>1. DoneInv'
        BY <1>4 DEF DoneInv
    <2>2. CASE c \notin {"full", "iso"}
        BY <1>1, <1>2, <1>4, <2>1, <2>2 DEF IInv, SuccessIsCurrent, SuccessLeavesImagesUpToDate
    <2>3. CASE c \in {"full", "iso"}
        <3>1. c \in Rebuilding /\ n + k = Len(Program[c]) + 1
            <4>1. c \in Commands /\ Len(Program[c]) \in 4..19 /\ n \in 1..Len(Program[c])
                BY Lengths DEF IInv, TypeOK, ControlInv
            <4>2. QED
                BY <1>4, <2>3, <4>1 DEF Rebuilding
        <3>2. /\ \A a \in Arts : Passed(c, n + k, "build", a) /\ Passed(c, n + k, "cache_hash", a)
              /\ Passed(c, n + k, "create_iso", "iso") /\ Passed(c, n + k, "verify_iso", "iso")
            BY <2>3, <3>1, AllPassed
        <3>3. /\ \A a \in Arts : out'[a].st = "good"
              /\ ~edited' => \A a \in Arts : out'[a] = [st |-> "good", src |-> inputs'[a]]
              /\ staging' = out'["rootfs"]
            BY <3>1, <3>2 DEF Done
        <3>4. ~edited' /\ ~hashLost' => \A a \in Arts : hash'[a] = {inputs'[a]}
            BY <3>1, <3>2 DEF Done
        <3>5. /\ ~edited' => iso' = [st |-> iso'.st, parts |-> out', overlay |-> inputs'["overlay"]]
              /\ newer' = {} /\ "vmlinuz" \in kernel' /\ iso'.st = "good"
            BY <3>1, <3>2 DEF Done
        <3>6. SuccessIsCurrent'
            BY <3>3, <3>5 DEF SuccessIsCurrent
        <3>7. SuccessLeavesImagesUpToDate'
            BY <3>3, <3>4, <3>5 DEF SuccessLeavesImagesUpToDate, NeedsRebuild, IsoNeedsRebuild,
               Exists
        <3>8. QED
            BY <1>1, <1>2, <2>1, <3>6, <3>7 DEF IInv
    <2>4. QED
        BY <2>2, <2>3
<1>5. QED
    BY <1>3, <1>4, Advances DEF IInv

(* A command that stops, however it leaves the disk, keeps the invariant   *)
(* if store and ISO keep theirs.                                           *)
LEMMA StopIInv ==
    ASSUME IInv, TypeOK', cmd # "none", NEW res \in {"err", "killed"}, Stop(res),
           FreshInv', StoreHoldsFinished'
    PROVE  IInv'
BY Stopped DEF IInv, ReadingInv, DoneInv, SuccessIsCurrent, SuccessLeavesImagesUpToDate

(* What the builders and the clean commands write is of its type.          *)
LEMMA Contents ==
    /\ Absent \in Content /\ [a \in Arts |-> Absent] \in [Arts -> Content]
    /\ \A s \in {"broken", "good"}, v \in Version : [st |-> s, src |-> v] \in Content
    /\ NoIso \in [st : {"absent", "bad", "good"}, parts : [Arts -> Content], overlay : Version]
    /\ NoImage \in [st : {"absent", "built"}, staging : Content, initramfs : Content]
    /\ None \in AtMostOne /\ \A v \in Version : {v} \in AtMostOne
<1>1. 0 \in Version
    BY DEF Version
<1>2. Absent \in Content
    BY <1>1 DEF Absent, Content
<1>3. QED
    BY <1>1, <1>2 DEF Content, NoIso, NoImage, AtMostOne

(* The control of a command stays within its types.                        *)
ControlTypes ==
    /\ cmd \in Commands \cup {"none"} /\ ip \in 0..20
    /\ reading \in AtMostOne /\ storeOpen \in BOOLEAN
    /\ result \in [cmd : Commands \cup {"none"}, res : {"none", "ok", "err", "killed"}]
    /\ commands \in 0..MaxCommands /\ cleans \in 0..MaxCleans
LEMMA ControlTypesNext ==
    ASSUME TypeOK, ControlInv, cmd # "none",
           (\E k \in Nat \ {0} : Advance(k)) \/ (\E r \in {"err", "killed"} : Stop(r))
    PROVE  ControlTypes'
<1>1. ASSUME NEW k \in Nat \ {0}, Advance(k)
      PROVE  ControlTypes'
    BY <1>1, Advances, Contents DEF ControlTypes, TypeOK
<1>2. ASSUME NEW r \in {"err", "killed"}, Stop(r)
      PROVE  ControlTypes'
    <2>1. cmd' = "none" /\ ip' = 0 /\ reading' = None /\ storeOpen' = FALSE
          /\ UNCHANGED <<commands, cleans>>
        BY <1>2, Stopped
    <2>2. result' \in [cmd : Commands \cup {"none"}, res : {"none", "ok", "err", "killed"}]
        BY <1>2, Stopped
    <2>3. 0 \in 0..20
        OBVIOUS
    <2>4. storeOpen' \in BOOLEAN
        BY <2>1
    <2>5. commands' \in 0..MaxCommands /\ cleans' \in 0..MaxCleans
        BY <2>1 DEF TypeOK
    <2>6. QED
        BY <2>1, <2>2, <2>3, <2>4, <2>5, Contents DEF ControlTypes
<1>3. QED
    BY <1>1, <1>2

(* A clean command leaves the control within its types.                    *)
LEMMA CleansTypes ==
    ASSUME TypeOK, Cleans
    PROVE  ControlTypes'
<1>1. cleans' \in 0..MaxCleans
    BY DEF TypeOK, Cleans
<1>2. result' \in [cmd : Commands \cup {"none"}, res : {"none", "ok", "err", "killed"}]
    BY DEF Cleans
<1>3. QED
    BY <1>1, <1>2 DEF TypeOK, Cleans, ControlTypes

(* Every step keeps the variables in their types.                          *)
LEMMA NextTypeOK == TypeOK /\ ControlInv /\ [Next]_vars => TypeOK'
<1> SUFFICES ASSUME TypeOK, ControlInv, [Next]_vars
             PROVE  TypeOK'
    OBVIOUS
<1> USE DEF TypeOK
<1>1. ASSUME NEW cc \in Commands, Start(cc)
      PROVE  TypeOK'
    <2>1. ip' \in 0..20 /\ commands' \in 0..MaxCommands
        BY <1>1 DEF Start
    <2>2. storeOpen' \in BOOLEAN /\ edited' \in BOOLEAN /\ hashLost' \in BOOLEAN
        BY <1>1 DEF Start
    <2>3. result' \in [cmd : Commands \cup {"none"}, res : {"none", "ok", "err", "killed"}]
        BY <1>1 DEF Start
    <2>4. QED
        BY <1>1, <2>1, <2>2, <2>3 DEF Start
<1>2. CASE Recipes
    <2>1. ControlTypes'
        BY <1>2, ControlTypesNext DEF Recipes, ReturnsErr
    <2>2. QED
        BY <1>2, <2>1, Contents DEF Recipes, ControlTypes, Written
<1>3. CASE Kernel
    <2>1. ControlTypes'
        BY <1>3, ControlTypesNext DEF Kernel, ReturnsErr
    <2>2. kernel' \subseteq KernelParts
        BY <1>3 DEF Kernel, KernelParts
    <2>3. newer' \in SUBSET (Arts \cup {"kernel"})
        BY <1>3 DEF Kernel
    <2>4. UNCHANGED <<inputs, out, staging, hash, store, iso, qcow2, edited, hashLost>>
        BY <1>3 DEF Kernel
    <2>5. QED
        BY <2>1, <2>2, <2>3, <2>4 DEF ControlTypes
<1>4. CASE CreateIsoRefuses
    <2>1. ControlTypes'
        BY <1>4, ControlTypesNext DEF CreateIsoRefuses, ReturnsErr
    <2>2. QED
        BY <1>4, <2>1, Contents DEF CreateIsoRefuses, ControlTypes, Written
<1>5. CASE CreateIso
    <2>1. ControlTypes'
        BY <1>5, ControlTypesNext DEF CreateIso, ReturnsErr
    <2>2. iso' \in [st : {"absent", "bad", "good"}, parts : [Arts -> Content], overlay : Version]
        <3>1. inputs["overlay"] \in Version
            OBVIOUS
        <3>2. \A st \in {"bad", "good"} : [st |-> st, parts |-> out, overlay |-> inputs["overlay"]]
                \in [st : {"absent", "bad", "good"}, parts : [Arts -> Content], overlay : Version]
            BY <3>1
        <3>3. QED
            BY <1>5, <3>2 DEF CreateIso
    <2>3. newer' \in SUBSET (Arts \cup {"kernel"})
        BY <1>5 DEF CreateIso
    <2>4. UNCHANGED <<inputs, out, staging, hash, store, kernel, qcow2, edited, hashLost>>
        BY <1>5 DEF CreateIso
    <2>5. QED
        BY <2>1, <2>2, <2>3, <2>4 DEF ControlTypes
<1>6. CASE VerifyIso
    <2>1. ControlTypes'
        BY <1>6, ControlTypesNext DEF VerifyIso, ReturnsErr
    <2>2. QED
        BY <1>6, <2>1, Contents DEF VerifyIso, ControlTypes, Written
<1>7. CASE NeedStaging
    <2>1. ControlTypes'
        BY <1>7, ControlTypesNext DEF NeedStaging, ReturnsErr
    <2>2. QED
        BY <1>7, <2>1, Contents DEF NeedStaging, ControlTypes, Written
<1>8. CASE BuildQcow2
    <2>1. ControlTypes'
        BY <1>8, ControlTypesNext DEF BuildQcow2, ReturnsErr
    <2>2. QED
        BY <1>8, <2>1, Contents DEF BuildQcow2, ControlTypes, Written
<1>9. CASE IfNoIso
    <2>1. ControlTypes'
        BY <1>9, ControlTypesNext DEF IfNoIso, ReturnsErr
    <2>2. QED
        BY <1>9, <2>1, Contents DEF IfNoIso, ControlTypes, Written
<1>10. CASE BootIso
    <2>1. ControlTypes'
        BY <1>10, ControlTypesNext DEF BootIso, ReturnsErr
    <2>2. QED
        BY <1>10, <2>1, Contents DEF BootIso, ControlTypes, Written
<1>11. ASSUME NEW a \in Arts, Restore(a)
      PROVE  TypeOK'
    <2>1. ControlTypes'
        BY <1>11, ControlTypesNext DEF Restore, ReturnsErr
    <2>2. out' \in [Arts -> Content]
        <3>1. ASSUME NEW e \in store[a]
              PROVE  [out EXCEPT ![a] = e.val] \in [Arts -> Content]
            <4>1. e \in [key : Version, val : Content]
                BY <3>1
            <4>2. QED
                BY <4>1
        <3>2. QED
            BY <1>11, <3>1 DEF Restore, Written
    <2>3. newer' \in SUBSET (Arts \cup {"kernel"})
        BY <1>11 DEF Restore, Written
    <2>4. UNCHANGED <<inputs, staging, hash, store, kernel, iso, qcow2, edited, hashLost>>
        BY <1>11 DEF Restore
    <2>5. QED
        BY <2>1, <2>2, <2>3, <2>4 DEF ControlTypes
<1>12. ASSUME NEW a \in Arts, BuildReads(a)
      PROVE  TypeOK'
    BY <1>12, Contents DEF BuildReads
<1>13. ASSUME NEW a \in Arts, BuildInitramfs(a)
      PROVE  TypeOK'
    <2>1. ControlTypes'
        BY <1>13, ControlTypesNext DEF BuildInitramfs, ReturnsErr
    <2>2. reading \subseteq Version
        BY <1>13 DEF AtMostOne, None
    <2>3. out' \in [Arts -> Content]
        BY <1>13, <2>2, Contents DEF BuildInitramfs, Written
    <2>4. newer' \in SUBSET (Arts \cup {"kernel"})
        BY <1>13 DEF BuildInitramfs, Written
    <2>5. UNCHANGED <<inputs, staging, hash, store, kernel, iso, qcow2, edited, hashLost>>
        BY <1>13 DEF BuildInitramfs
    <2>6. QED
        BY <2>1, <2>2, <2>3, <2>4, <2>5 DEF ControlTypes
<1>14. ASSUME NEW a \in Arts, CacheHash(a)
      PROVE  TypeOK'
    <2>1. ControlTypes'
        BY <1>14, ControlTypesNext DEF CacheHash, ReturnsErr
    <2>2. hash' \in [Arts -> AtMostOne]
        <3>1. PICK k \in AtMostOne : k = {inputs[a]}
            BY Contents
        <3>2. hash' = [hash EXCEPT ![a] = k] \/ hash' = hash
            BY <1>14, <3>1 DEF CacheHash
        <3>3. QED
            BY <3>2
    <2>3. hashLost' \in BOOLEAN
        BY <1>14 DEF CacheHash
    <2>4. UNCHANGED <<inputs, out, staging, store, kernel, iso, newer, qcow2, edited>>
        BY <1>14 DEF CacheHash
    <2>5. QED
        BY <2>1, <2>2, <2>3, <2>4 DEF ControlTypes
<1>15. ASSUME NEW a \in Arts, Store(a)
      PROVE  TypeOK'
    <2>1. ControlTypes'
        BY <1>15, ControlTypesNext DEF Store, ReturnsErr
    <2>2. store' \in [Arts -> SUBSET [key : Version, val : Content]]
        <3>1. ASSUME NEW v \in hash[a]
              PROVE  {e \in store[a] : e.key # v} \cup {[key |-> v, val |-> out[a]]}
                        \in SUBSET [key : Version, val : Content]
            <4>1. v \in Version /\ out[a] \in Content
                BY <3>1 DEF AtMostOne, None
            <4>2. QED
                BY <4>1
        <3>2. QED
            BY <1>15, <3>1 DEF Store
    <2>3. UNCHANGED <<inputs, out, staging, hash, kernel, iso, newer, qcow2, edited, hashLost>>
        BY <1>15 DEF Store
    <2>4. QED
        BY <2>1, <2>2, <2>3 DEF ControlTypes
<1>16. ASSUME NEW a \in Arts, Verify(a)
      PROVE  TypeOK'
    <2>1. ControlTypes'
        BY <1>16, ControlTypesNext DEF Verify, ReturnsErr
    <2>2. QED
        BY <1>16, <2>1, Contents DEF Verify, ControlTypes, Written
<1>17. ASSUME NEW a \in Arts, IfStale(a)
      PROVE  TypeOK'
    <2>1. ControlTypes'
        BY <1>17, ControlTypesNext DEF IfStale, ReturnsErr
    <2>2. QED
        BY <1>17, <2>1, Contents DEF IfStale, ControlTypes, Written
<1>18. ASSUME NEW a \in Arts, IfMissing(a)
      PROVE  TypeOK'
    <2>1. ControlTypes'
        BY <1>18, ControlTypesNext DEF IfMissing, ReturnsErr
    <2>2. QED
        BY <1>18, <2>1, Contents DEF IfMissing, ControlTypes, Written
<1>19. CASE BuildRootfsFails
    <2>1. ControlTypes'
        BY <1>19, ControlTypesNext DEF BuildRootfsFails, ReturnsErr
    <2>2. QED
        BY <1>19, <2>1, Contents DEF BuildRootfsFails, ControlTypes, Written
<1>20. CASE BuildRootfsDone
    <2>1. ControlTypes'
        BY <1>20, ControlTypesNext DEF BuildRootfsDone, ReturnsErr
    <2>2. reading \subseteq Version
        BY <1>20 DEF AtMostOne, None
    <2>3. staging' \in Content
        BY <1>20, <2>2, Contents DEF BuildRootfsDone
    <2>4. out' \in [Arts -> Content]
        BY <1>20, <2>2, Contents DEF BuildRootfsDone, Written
    <2>5. newer' \in SUBSET (Arts \cup {"kernel"})
        BY <1>20 DEF BuildRootfsDone, Written
    <2>6. UNCHANGED <<inputs, hash, store, kernel, iso, qcow2, edited, hashLost>>
        BY <1>20 DEF BuildRootfsDone
    <2>7. QED
        BY <2>1, <2>2, <2>3, <2>4, <2>5, <2>6 DEF ControlTypes
<1>21. CASE BuildRootfsSwapStops
    <2>1. ControlTypes'
        BY <1>21, ControlTypesNext DEF BuildRootfsSwapStops, ReturnsErr
    <2>2. reading \subseteq Version
        BY <1>21 DEF AtMostOne, None
    <2>3. staging' \in Content
        <3>1. [staging EXCEPT !.st = "broken"] \in Content
            BY DEF Content
        <3>2. QED
            BY <1>21, <2>2, <3>1, Contents DEF BuildRootfsSwapStops
    <2>4. out' \in [Arts -> Content]
        BY <1>21, Contents DEF BuildRootfsSwapStops
    <2>5. UNCHANGED <<inputs, hash, store, kernel, iso, newer, qcow2, edited, hashLost>>
        BY <1>21 DEF BuildRootfsSwapStops
    <2>6. QED
        BY <2>1, <2>2, <2>3, <2>4, <2>5 DEF ControlTypes
<1>22. CASE CleanRootfs
    <2>1. ControlTypes'
        BY <1>22, CleansTypes DEF CleanRootfs
    <2>2. out' \in [Arts -> Content]
        BY <1>22, Contents DEF CleanRootfs
    <2>3. staging' \in Content
        BY <1>22, Contents DEF CleanRootfs
    <2>4. hash' \in [Arts -> AtMostOne]
        BY <1>22, Contents DEF CleanRootfs
    <2>5. UNCHANGED <<inputs, store, kernel, iso, newer, qcow2, edited, hashLost>>
        BY <1>22 DEF CleanRootfs
    <2>6. QED
        BY <2>1, <2>2, <2>3, <2>4, <2>5 DEF ControlTypes
<1>23. CASE CleanIso
    <2>1. ControlTypes'
        BY <1>23, CleansTypes DEF CleanIso
    <2>2. out' \in [Arts -> Content]
        BY <1>23, Contents DEF CleanIso
    <2>3. iso' \in [st : {"absent", "bad", "good"}, parts : [Arts -> Content], overlay : Version]
        BY <1>23, Contents DEF CleanIso
    <2>4. hash' \in [Arts -> AtMostOne]
        BY <1>23, Contents DEF CleanIso
    <2>5. UNCHANGED <<inputs, staging, store, kernel, newer, qcow2, edited, hashLost>>
        BY <1>23 DEF CleanIso
    <2>6. QED
        BY <2>1, <2>2, <2>3, <2>4, <2>5 DEF ControlTypes
<1>24. CASE CleanKernel
    <2>1. ControlTypes'
        BY <1>24, CleansTypes DEF CleanKernel
    <2>2. kernel' \subseteq KernelParts
        BY <1>24 DEF CleanKernel, KernelParts
    <2>3. UNCHANGED <<inputs, out, staging, hash, store, iso, newer, qcow2, edited, hashLost>>
        BY <1>24 DEF CleanKernel
    <2>4. QED
        BY <2>1, <2>2, <2>3 DEF ControlTypes
<1>25. CASE CleanOutputs
    <2>1. ControlTypes'
        BY <1>25, CleansTypes DEF CleanOutputs
    <2>2. out' \in [Arts -> Content]
        BY <1>25, Contents DEF CleanOutputs
    <2>3. hash' \in [Arts -> AtMostOne]
        <3>1. [a \in Arts |-> None] \in [Arts -> AtMostOne]
            BY Contents
        <3>2. QED
            BY <1>25, <3>1 DEF CleanOutputs
    <2>4. staging' \in Content
        BY <1>25, Contents DEF CleanOutputs
    <2>5. kernel' \subseteq KernelParts
        BY <1>25 DEF CleanOutputs, KernelParts
    <2>6. iso' \in [st : {"absent", "bad", "good"}, parts : [Arts -> Content], overlay : Version]
        BY <1>25, Contents DEF CleanOutputs
    <2>7. qcow2' \in [st : {"absent", "built"}, staging : Content, initramfs : Content]
        BY <1>25, Contents DEF CleanOutputs
    <2>8. UNCHANGED <<inputs, store, newer, edited, hashLost>>
        BY <1>25 DEF CleanOutputs
    <2>9. QED
        BY <2>1, <2>2, <2>3, <2>4, <2>5, <2>6, <2>7, <2>8 DEF ControlTypes
<1>26. CASE XtaskBuildsKernel
    <2>1. kernel' \subseteq KernelParts
        BY <1>26 DEF XtaskBuildsKernel, KernelParts
    <2>2. QED
        BY <1>26, <2>1 DEF XtaskBuildsKernel
<1>27. ASSUME NEW s \in Edited, Edit(s)
      PROVE  TypeOK'
    BY <1>27, Contents DEF Edit
<1>28. CASE Kill
    <2>1. ControlTypes'
        BY <1>28, ControlTypesNext DEF Kill, ReturnsErr
    <2>2. QED
        BY <1>28, <2>1, Contents DEF Kill, ControlTypes, Written
<1>29. CASE Rest
    BY <1>29, Contents DEF Rest
<1>30. CASE UNCHANGED vars
    BY <1>30
<1>31. QED
    BY <1>1, <1>2, <1>3, <1>4, <1>5, <1>6, <1>7, <1>8, <1>9, <1>10, <1>11, <1>12, <1>13, <1>14,
       <1>15, <1>16, <1>17, <1>18, <1>19, <1>20, <1>21, <1>22, <1>23, <1>24, <1>25, <1>26,
       <1>27, <1>28, <1>29, <1>30 DEF Next

(* What the initial state establishes.                                     *)
LEMMA InitIInv == Init => IInv
<1> SUFFICES ASSUME Init
             PROVE  IInv
    OBVIOUS
<1>1. TypeOK
    <2>1. 0 \in Version /\ 0 \in 0..20 /\ 0 \in 0..MaxCommands /\ 0 \in 0..MaxCleans
        BY DEF Version
    <2>2. inputs \in [Sources -> Version] /\ out \in [Arts -> Content] /\ staging \in Content
        BY <2>1, Contents DEF Init
    <2>3. hash \in [Arts -> AtMostOne]
          /\ store \in [Arts -> SUBSET [key : Version, val : Content]]
        BY Contents DEF Init
    <2>4. kernel \subseteq KernelParts /\ newer \in SUBSET (Arts \cup {"kernel"})
        BY DEF Init, KernelParts
    <2>5. /\ iso \in [st : {"absent", "bad", "good"}, parts : [Arts -> Content], overlay : Version]
          /\ qcow2 \in [st : {"absent", "built"}, staging : Content, initramfs : Content]
        BY Contents DEF Init
    <2>6. /\ cmd \in Commands \cup {"none"} /\ reading \in AtMostOne
          /\ result \in [cmd : Commands \cup {"none"}, res : {"none", "ok", "err", "killed"}]
        BY Contents DEF Init
    <2>7. storeOpen \in BOOLEAN /\ edited \in BOOLEAN /\ hashLost \in BOOLEAN
        BY DEF Init
    <2>8. ip \in 0..20 /\ commands \in 0..MaxCommands /\ cleans \in 0..MaxCleans
        BY <2>1 DEF Init
    <2>9. QED
        BY <2>2, <2>3, <2>4, <2>5, <2>6, <2>7, <2>8 DEF TypeOK
<1>2. ControlInv /\ ReadingInv /\ DoneInv
    BY DEF Init, ControlInv, ReadingInv, DoneInv
<1>3. FreshInv /\ StoreHoldsFinished
    BY DEF Init, FreshInv, StoreHoldsFinished, NoIso
<1>4. SuccessIsCurrent /\ SuccessLeavesImagesUpToDate
    BY DEF Init, SuccessIsCurrent, SuccessLeavesImagesUpToDate
<1>5. QED
    BY <1>1, <1>2, <1>3, <1>4 DEF IInv

(* What is known of a command at its step op on a.                         *)
LEMMA Here ==
    ASSUME IInv, NEW op, NEW a, At(op, a), NEW c, c = cmd, NEW n, n = ip
    PROVE  /\ cmd # "none" /\ c \in Commands /\ n \in 1..Len(Program[c]) /\ Done(c, n)
           /\ Program[c][n] = <<op, a>>
           /\ \A p, b : Passed(c, n + 1, p, b) <=> Passed(c, n, p, b) \/ (p = op /\ b = a)
<1>1. cmd # "none" /\ c \in Commands /\ n \in 1..Len(Program[c]) /\ Done(c, n)
      /\ Program[c][n] = <<op, a>>
    BY DEF IInv, TypeOK, ControlInv, DoneInv
<1>2. n \in Nat \ {0}
    BY <1>1, Lengths
<1>3. ASSUME NEW p, NEW b
      PROVE  Passed(c, n + 1, p, b) <=> Passed(c, n, p, b) \/ (p = op /\ b = a)
    <2>1. Passed(c, n + 1, p, b) <=> Passed(c, n, p, b) \/ Program[c][n] = <<p, b>>
        BY <1>2, PassedNext
    <2>2. QED
        BY <1>1, <2>1
<1>4. QED
    BY <1>1, <1>3

(* A step that writes nothing and that Done says nothing about.            *)
LEMMA OtherStep ==
    ASSUME IInv, TypeOK', NEW op, NEW a, At(op, a), UNCHANGED <<inputs, disk, edited, hashLost>>,
           op \notin {"build", "cache_hash", "create_iso", "verify_iso"},
           Advance(1) \/ ReturnsErr
    PROVE  IInv'
<1> PICK c, n : c = cmd /\ n = ip
    OBVIOUS
<1>1. FreshInv' /\ StoreHoldsFinished' /\ cmd # "none"
    BY DEF IInv, FreshInv, StoreHoldsFinished
<1>2. CASE Advance(1)
    <2>1. /\ Done(c, n)
          /\ \A p, b : Passed(c, n + 1, p, b) <=> Passed(c, n, p, b) \/ (p = op /\ b = a)
        BY Here
    <2>2. Done(c, n + 1)'
        BY <2>1 DEF Done
    <2>3. QED
        BY <1>1, <1>2, <2>2, AdvanceIInv
<1>3. CASE ReturnsErr
    BY <1>1, <1>3, StopIInv DEF ReturnsErr
<1>4. QED
    BY <1>2, <1>3

(* A step that asks whether a build is needed, and may go further than the *)
(* next step: no rebuilding command has one.                               *)
LEMMA AskingStep ==
    ASSUME IInv, TypeOK', cmd \notin Rebuilding, cmd # "none",
           UNCHANGED <<inputs, out, staging, hash, store, kernel, iso, newer, edited, hashLost>>,
           (\E k \in Nat \ {0} : Advance(k)) \/ ReturnsErr
    PROVE  IInv'
<1> PICK c, n : c = cmd /\ n = ip
    OBVIOUS
<1>1. FreshInv' /\ StoreHoldsFinished'
    BY DEF IInv, FreshInv, StoreHoldsFinished
<1>2. ASSUME NEW k \in Nat \ {0}, Advance(k)
      PROVE  IInv'
    <2>1. Done(c, n + k)'
        BY DEF Done
    <2>2. QED
        BY <1>1, <1>2, <2>1, AdvanceIInv
<1>3. CASE ReturnsErr
    BY <1>1, <1>3, StopIInv DEF ReturnsErr
<1>4. QED
    BY <1>2, <1>3

(* A clean command keeps the invariant if store and ISO keep theirs.       *)
LEMMA CleanIInv ==
    ASSUME IInv, TypeOK', Cleans, UNCHANGED <<inputs, edited>>, FreshInv', StoreHoldsFinished'
    PROVE  IInv'
<1>1. ControlInv' /\ cmd' = "none"
    BY DEF IInv, ControlInv, Cleans
<1>2. ReadingInv' /\ DoneInv'
    BY <1>1 DEF ReadingInv, DoneInv
<1>3. SuccessIsCurrent' /\ SuccessLeavesImagesUpToDate'
    BY DEF Cleans, SuccessIsCurrent, SuccessLeavesImagesUpToDate
<1>4. QED
    BY <1>1, <1>2, <1>3 DEF IInv

(* Every step of a command, every clean and every edit preserves the       *)
(* invariant.                                                              *)
LEMMA NextIInv == IInv /\ [Next]_vars => IInv'
<1> SUFFICES ASSUME IInv, [Next]_vars
             PROVE  IInv'
    OBVIOUS
<1>0. TypeOK' /\ TypeOK
    BY NextTypeOK DEF IInv
<1> PICK c, n : c = cmd /\ n = ip
    OBVIOUS
<1>1. ASSUME NEW cc \in Commands, Start(cc)
      PROVE  IInv'
    <2>1. /\ cmd' = cc /\ ip' = 1 /\ result'.res = "none" /\ reading' = None
          /\ UNCHANGED disk
        BY <1>1 DEF Start, IInv, ControlInv
    <2>2. ControlInv' /\ ReadingInv' /\ SuccessIsCurrent' /\ SuccessLeavesImagesUpToDate'
        <3>1. 1 \in 1..Len(Program[cc]) /\ cc # "none"
            <4>1. \A m \in 4..19 : 1 \in 1..m
                OBVIOUS
            <4>2. Len(Program[cc]) \in 4..19
                BY Lengths
            <4>3. cc # "none"
                OBVIOUS
            <4>4. QED
                BY <4>1, <4>2, <4>3
        <3>2. QED
            BY <2>1, <3>1 DEF ControlInv, ReadingInv, SuccessIsCurrent, SuccessLeavesImagesUpToDate
    <2>3. FreshInv' /\ StoreHoldsFinished'
        BY <2>1 DEF IInv, FreshInv, StoreHoldsFinished
    <2>4. DoneInv'
        BY <2>1, NothingPassed DEF DoneInv, Done
    <2>5. QED
        BY <1>0, <2>2, <2>3, <2>4 DEF IInv
<1>2. CASE Recipes
    <2>1. At("recipes", "all")
        BY <1>2 DEF Recipes
    <2>2. QED
        BY <1>2, <1>0, <2>1, OtherStep DEF Recipes
<1>3. CASE Kernel
    <2>1. At("kernel", "kernel")
        BY <1>3 DEF Kernel
    <2>2. FreshInv'
        BY <1>3 DEF IInv, FreshInv, Kernel
    <2>3. StoreHoldsFinished'
        BY <1>3 DEF IInv, StoreHoldsFinished, Kernel
    <2>4. ASSUME Advance(1)
          PROVE  IInv'
        <3>1. /\ c \in Commands /\ n \in 1..Len(Program[c]) /\ Done(c, n)
              /\ Program[c][n] = <<"kernel", "kernel">>
              /\ \A p, b : Passed(c, n + 1, p, b) <=> Passed(c, n, p, b) \/ (p = "kernel" /\ b = "kernel")
            BY <2>1, Here
        <3>2. c \in Rebuilding => ~Passed(c, n + 1, "create_iso", "iso")
            BY <3>1, Order
        <3>3. Done(c, n + 1)'
            BY <1>3, <3>1, <3>2 DEF Kernel, Done
        <3>4. QED
            BY <1>0, <2>1, <2>2, <2>3, <2>4, <3>3, AdvanceIInv
    <2>5. ASSUME NEW r \in {"err", "killed"}, Stop(r)
          PROVE  IInv'
        BY <1>0, <2>1, <2>2, <2>3, <2>5, StopIInv
    <2>6. QED
        BY <1>3, <2>4, <2>5 DEF Kernel, ReturnsErr
<1>4. CASE CreateIsoRefuses
    <2>1. FreshInv' /\ StoreHoldsFinished' /\ cmd # "none" /\ Stop("err")
        BY <1>4 DEF CreateIsoRefuses, ReturnsErr, IInv, FreshInv, StoreHoldsFinished
    <2>2. QED
        BY <1>0, <2>1, StopIInv
<1>5. CASE CreateIso
    <2>1. At("create_iso", "iso")
        BY <1>5 DEF CreateIso
    <2>2. StoreHoldsFinished'
        BY <1>5 DEF IInv, StoreHoldsFinished, CreateIso
    <2>3. CASE ReturnsErr /\ UNCHANGED <<iso, newer>>
        <3>1. FreshInv'
            BY <1>5, <2>3 DEF IInv, FreshInv, CreateIso
        <3>2. QED
            BY <1>0, <2>1, <2>2, <2>3, <3>1, StopIInv DEF ReturnsErr
    <2>4. ASSUME NEW s \in {"bad", "good"}, newer' = {}, Advance(1),
                 iso' = [st |-> s, parts |-> out, overlay |-> inputs["overlay"]]
          PROVE  IInv'
        <3>1. FreshInv'
            BY <1>5, <2>4 DEF FreshInv, CreateIso
        <3>2. /\ c \in Commands /\ n \in 1..Len(Program[c]) /\ Done(c, n)
              /\ Program[c][n] = <<"create_iso", "iso">>
              /\ \A p, b : Passed(c, n + 1, p, b) <=> Passed(c, n, p, b) \/ (p = "create_iso" /\ b = "iso")
            BY <2>1, Here
        <3>3. c \in Rebuilding => ~Passed(c, n + 1, "verify_iso", "iso")
            BY <3>2, Order
        <3>4. Done(c, n + 1)'
            BY <1>5, <2>4, <3>2, <3>3 DEF CreateIso, Done
        <3>5. QED
            BY <1>0, <2>1, <2>2, <2>4, <3>1, <3>4, AdvanceIInv
    <2>5. QED
        BY <1>5, <2>3, <2>4 DEF CreateIso
<1>6. CASE VerifyIso
    <2>1. At("verify_iso", "iso")
        BY <1>6 DEF VerifyIso
    <2>2. FreshInv' /\ StoreHoldsFinished'
        BY <1>6 DEF IInv, FreshInv, StoreHoldsFinished, VerifyIso
    <2>3. CASE iso.st = "good"
        <3>1. /\ c \in Commands /\ n \in 1..Len(Program[c]) /\ Done(c, n)
              /\ Program[c][n] = <<"verify_iso", "iso">>
              /\ \A p, b : Passed(c, n + 1, p, b) <=> Passed(c, n, p, b) \/ (p = "verify_iso" /\ b = "iso")
            BY <2>1, Here
        <3>2. Done(c, n + 1)'
            BY <1>6, <2>3, <3>1 DEF VerifyIso, Done
        <3>3. QED
            BY <1>6, <1>0, <2>1, <2>2, <2>3, <3>2, AdvanceIInv DEF VerifyIso
    <2>4. CASE iso.st # "good"
        BY <1>6, <1>0, <2>1, <2>2, <2>4, StopIInv DEF VerifyIso, ReturnsErr
    <2>5. QED
        BY <2>3, <2>4
<1>7. CASE NeedStaging
    <2>1. At("need_staging", "rootfs")
        BY <1>7 DEF NeedStaging
    <2>2. cmd \notin Rebuilding /\ cmd # "none"
        <3>1. c \in Commands /\ n \in 1..Len(Program[c])
              /\ Program[c][n] = <<"need_staging", "rootfs">>
            BY <2>1, Here
        <3>2. c \notin Rebuilding
            BY <3>1, Order
        <3>3. QED
            BY <2>1, <3>2
    <2>3. QED
        BY <1>7, <1>0, <2>2, AskingStep DEF NeedStaging
<1>8. CASE BuildQcow2
    <2>1. At("qcow2", "qcow2")
        BY <1>8 DEF BuildQcow2
    <2>2. cmd \notin Rebuilding /\ cmd # "none"
        <3>1. c \in Commands /\ n \in 1..Len(Program[c]) /\ Program[c][n] = <<"qcow2", "qcow2">>
            BY <2>1, Here
        <3>2. c \notin Rebuilding
            BY <3>1, Order
        <3>3. QED
            BY <2>1, <3>2
    <2>3. QED
        BY <1>8, <1>0, <2>2, AskingStep DEF BuildQcow2
<1>9. CASE IfNoIso
    <2>1. At("if_no_iso", "iso")
        BY <1>9 DEF IfNoIso
    <2>2. cmd \notin Rebuilding /\ cmd # "none"
        <3>1. c \in Commands /\ n \in 1..Len(Program[c]) /\ Program[c][n] = <<"if_no_iso", "iso">>
            BY <2>1, Here
        <3>2. c \notin Rebuilding
            BY <3>1, Order
        <3>3. QED
            BY <2>1, <3>2
    <2>3. QED
        BY <1>9, <1>0, <2>2, AskingStep DEF IfNoIso
<1>10. CASE BootIso
    <2>1. At("boot", "iso")
        BY <1>10 DEF BootIso
    <2>2. QED
        BY <1>10, <1>0, <2>1, OtherStep DEF BootIso
<1>11. ASSUME NEW a \in Arts, Restore(a)
      PROVE  IInv'
    <2>1. At("restore", a)
        BY <1>11 DEF Restore
    <2>2. StoreHoldsFinished'
        BY <1>11 DEF IInv, StoreHoldsFinished, Restore
    <2>3. FreshInv'
        <3>1. CASE UNCHANGED <<out, newer>>
            BY <1>11, <3>1 DEF IInv, FreshInv, Restore
        <3>2. ASSUME NEW e \in store[a], Written(a, e.val)
              PROVE  FreshInv'
            BY <1>11, <1>0, <3>2 DEF IInv, FreshInv, Restore, Written, TypeOK
        <3>3. QED
            BY <1>11, <3>1, <3>2 DEF Restore
    <2>4. Done(c, n + 1)'
        <3>1. /\ c \in Commands /\ n \in 1..Len(Program[c]) /\ Done(c, n)
              /\ Program[c][n] = <<"restore", a>>
              /\ \A p, b : Passed(c, n + 1, p, b) <=> Passed(c, n, p, b) \/ (p = "restore" /\ b = a)
            BY <2>1, Here
        <3>2. c \in Rebuilding =>
                ~Passed(c, n + 1, "build", a) /\ ~Passed(c, n + 1, "create_iso", "iso")
            BY <3>1, Order
        <3>3. UNCHANGED <<inputs, staging, hash, kernel, iso, edited, hashLost>>
            BY <1>11 DEF Restore
        <3>4. \A b \in Arts : b # a => out'[b] = out[b]
            BY <1>11, <1>0 DEF Restore, Written, TypeOK
        <3>5. QED
            BY <3>1, <3>2, <3>3, <3>4 DEF Done
    <2>5. QED
        BY <1>11, <1>0, <2>1, <2>2, <2>3, <2>4, AdvanceIInv DEF Restore
<1>12. ASSUME NEW a \in Arts, BuildReads(a)
      PROVE  IInv'
    <2>1. At("build", a) /\ UNCHANGED <<inputs, disk, cmd, ip, result, edited, hashLost>>
          /\ reading' = {inputs[a]}
        BY <1>12 DEF BuildReads
    <2>2. ControlInv' /\ FreshInv' /\ StoreHoldsFinished'
        BY <2>1 DEF IInv, ControlInv, FreshInv, StoreHoldsFinished
    <2>3. ReadingInv'
        <3>1. \A b \in Arts : At("build", b)' => b = a
            BY <2>1
        <3>2. QED
            BY <2>1, <3>1 DEF ReadingInv
    <2>4. DoneInv'
        BY <2>1 DEF IInv, DoneInv, Done, Passed
    <2>5. SuccessIsCurrent' /\ SuccessLeavesImagesUpToDate'
        BY <2>1 DEF IInv, SuccessIsCurrent, SuccessLeavesImagesUpToDate, NeedsRebuild,
           IsoNeedsRebuild
    <2>6. QED
        BY <1>0, <2>2, <2>3, <2>4, <2>5 DEF IInv
<1>13. ASSUME NEW a \in Arts, BuildInitramfs(a)
      PROVE  IInv'
    <2>1. At("build", a) /\ a # "rootfs"
          /\ UNCHANGED <<inputs, staging, hash, store, kernel, iso, qcow2, edited, hashLost>>
        BY <1>13 DEF BuildInitramfs
    <2>2. StoreHoldsFinished'
        BY <2>1 DEF IInv, StoreHoldsFinished
    <2>3. FreshInv'
        <3>1. UNCHANGED <<out, newer>> \/ \E s \in {"broken", "good"}, v \in reading :
                Written(a, [st |-> s, src |-> v])
            BY <1>13 DEF BuildInitramfs
        <3>2. QED
            BY <1>0, <2>1, <3>1 DEF IInv, FreshInv, Written, TypeOK
    <2>4. ASSUME NEW v \in reading, Written(a, [st |-> "good", src |-> v]), Advance(1)
          PROVE  IInv'
        <3>1. /\ c \in Commands /\ n \in 1..Len(Program[c]) /\ Done(c, n)
              /\ Program[c][n] = <<"build", a>>
              /\ \A p, b : Passed(c, n + 1, p, b) <=> Passed(c, n, p, b) \/ (p = "build" /\ b = a)
            BY <2>1, Here
        <3>2. c \in Rebuilding => ~Passed(c, n + 1, "create_iso", "iso")
            BY <3>1, Order
        <3>3. ~edited => v = inputs[a]
            BY <2>1, <2>4 DEF IInv, ReadingInv, None
        <3>4. out'[a] = [st |-> "good", src |-> v] /\ \A b \in Arts : b # a => out'[b] = out[b]
            BY <1>0, <2>4 DEF Written, TypeOK
        <3>5. Done(c, n + 1)'
            BY <2>1, <3>1, <3>2, <3>3, <3>4 DEF Done
        <3>6. QED
            BY <1>0, <2>1, <2>2, <2>3, <2>4, <3>5, AdvanceIInv
    <2>5. ASSUME NEW r \in {"err", "killed"}, Stop(r)
          PROVE  IInv'
        BY <1>0, <2>1, <2>2, <2>3, <2>5, StopIInv
    <2>6. QED
        BY <1>13, <2>4, <2>5 DEF BuildInitramfs, ReturnsErr
<1>14. ASSUME NEW a \in Arts, CacheHash(a)
      PROVE  IInv'
    <2>1. At("cache_hash", a) /\ Advance(1)
          /\ UNCHANGED <<inputs, out, staging, store, kernel, iso, newer, qcow2, edited>>
        BY <1>14 DEF CacheHash
    <2>2. FreshInv' /\ StoreHoldsFinished'
        BY <2>1 DEF IInv, FreshInv, StoreHoldsFinished
    <2>3. Done(c, n + 1)'
        <3>1. /\ c \in Commands /\ n \in 1..Len(Program[c]) /\ Done(c, n)
              /\ Program[c][n] = <<"cache_hash", a>>
              /\ \A p, b : Passed(c, n + 1, p, b) <=> Passed(c, n, p, b) \/ (p = "cache_hash" /\ b = a)
            BY <2>1, Here
        <3>2. hashLost' \/ ( /\ UNCHANGED hashLost /\ hash'[a] = {inputs[a]}
                             /\ \A b \in Arts : b # a => hash'[b] = hash[b])
            BY <1>14, <1>0 DEF CacheHash, TypeOK
        <3>3. QED
            BY <2>1, <3>1, <3>2 DEF Done
    <2>4. QED
        BY <1>0, <2>1, <2>2, <2>3, AdvanceIInv
<1>15. ASSUME NEW a \in Arts, Store(a)
      PROVE  IInv'
    <2>1. At("store", a) /\ Advance(1)
          /\ UNCHANGED <<inputs, out, staging, hash, kernel, iso, newer, qcow2, edited, hashLost>>
        BY <1>15 DEF Store
    <2>2. FreshInv'
        BY <2>1 DEF IInv, FreshInv
    <2>3. /\ c \in Commands /\ n \in 1..Len(Program[c]) /\ Done(c, n)
          /\ Program[c][n] = <<"store", a>>
          /\ \A p, b : Passed(c, n + 1, p, b) <=> Passed(c, n, p, b) \/ (p = "store" /\ b = a)
        BY <2>1, Here
    <2>4. out[a].st = "good"
        BY <2>3, Order DEF Done
    <2>5. StoreHoldsFinished'
        <3>1. CASE UNCHANGED store
            BY <3>1 DEF IInv, StoreHoldsFinished
        <3>2. ASSUME NEW v, store' = [store EXCEPT ![a] =
                                        {e \in @ : e.key # v} \cup {[key |-> v, val |-> out[a]]}]
              PROVE  StoreHoldsFinished'
            <4> SUFFICES ASSUME NEW b \in Arts, NEW e \in store'[b]
                         PROVE  e.val.st = "good"
                BY DEF StoreHoldsFinished
            <4>1. e \in store[b] \/ e = [key |-> v, val |-> out[a]]
                BY <1>0, <3>2 DEF TypeOK
            <4>2. QED
                BY <2>4, <4>1 DEF IInv, StoreHoldsFinished
        <3>3. QED
            BY <1>15, <3>1, <3>2 DEF Store
    <2>6. Done(c, n + 1)'
        BY <2>1, <2>3 DEF Done
    <2>7. QED
        BY <1>0, <2>1, <2>2, <2>5, <2>6, AdvanceIInv
<1>16. ASSUME NEW a \in Arts, Verify(a)
      PROVE  IInv'
    <2>1. At("verify", a)
        BY <1>16 DEF Verify
    <2>2. QED
        BY <1>16, <1>0, <2>1, OtherStep DEF Verify
<1>17. ASSUME NEW a \in Arts, IfStale(a)
      PROVE  IInv'
    <2>1. At("if_stale", a)
        BY <1>17 DEF IfStale
    <2>2. cmd \notin Rebuilding /\ cmd # "none"
        <3>1. c \in Commands /\ n \in 1..Len(Program[c]) /\ Program[c][n] = <<"if_stale", a>>
            BY <2>1, Here
        <3>2. c \notin Rebuilding
            BY <3>1, Order
        <3>3. QED
            BY <2>1, <3>2
    <2>3. QED
        BY <1>17, <1>0, <2>2, AskingStep DEF IfStale
<1>18. ASSUME NEW a \in Arts, IfMissing(a)
      PROVE  IInv'
    <2>1. At("if_missing", a)
        BY <1>18 DEF IfMissing
    <2>2. cmd \notin Rebuilding /\ cmd # "none"
        <3>1. c \in Commands /\ n \in 1..Len(Program[c]) /\ Program[c][n] = <<"if_missing", a>>
            BY <2>1, Here
        <3>2. c \notin Rebuilding
            BY <3>1, Order
        <3>3. QED
            BY <2>1, <3>2
    <2>3. QED
        BY <1>18, <1>0, <2>2, AskingStep DEF IfMissing
<1>19. CASE BuildRootfsFails
    <2>1. FreshInv' /\ StoreHoldsFinished' /\ cmd # "none" /\ Stop("err")
        BY <1>19 DEF BuildRootfsFails, ReturnsErr, IInv, FreshInv, StoreHoldsFinished
    <2>2. QED
        BY <1>0, <2>1, StopIInv
<1>20. CASE BuildRootfsDone
    <2>1. At("build", "rootfs") /\ Advance(1)
          /\ UNCHANGED <<inputs, hash, store, kernel, iso, qcow2, edited, hashLost>>
        BY <1>20 DEF BuildRootfsDone
    <2>2. PICK v \in reading : /\ staging' = [st |-> "good", src |-> v]
                               /\ Written("rootfs", [st |-> "good", src |-> v])
        BY <1>20 DEF BuildRootfsDone
    <2>3. StoreHoldsFinished' /\ FreshInv'
        BY <1>0, <2>1, <2>2 DEF IInv, StoreHoldsFinished, FreshInv, Written, TypeOK
    <2>4. /\ c \in Commands /\ n \in 1..Len(Program[c]) /\ Done(c, n)
          /\ Program[c][n] = <<"build", "rootfs">>
          /\ \A p, b : Passed(c, n + 1, p, b) <=> Passed(c, n, p, b) \/ (p = "build" /\ b = "rootfs")
        BY <2>1, Here
    <2>5. c \in Rebuilding => ~Passed(c, n + 1, "create_iso", "iso")
        BY <2>4, Order
    <2>6. ~edited => v = inputs["rootfs"]
        BY <2>1, <2>2 DEF IInv, ReadingInv, None
    <2>7. out'["rootfs"] = [st |-> "good", src |-> v]
          /\ \A b \in Arts : b # "rootfs" => out'[b] = out[b]
        BY <1>0, <2>2 DEF Written, TypeOK
    <2>8. Done(c, n + 1)'
        BY <2>1, <2>2, <2>4, <2>5, <2>6, <2>7 DEF Done
    <2>9. QED
        BY <1>0, <2>1, <2>3, <2>8, AdvanceIInv
<1>21. CASE BuildRootfsSwapStops
    <2>1. StoreHoldsFinished' /\ cmd # "none"
        BY <1>21 DEF IInv, StoreHoldsFinished, BuildRootfsSwapStops
    <2>2. FreshInv'
        BY <1>21, <1>0 DEF IInv, FreshInv, BuildRootfsSwapStops, TypeOK, Exists, Absent
    <2>3. QED
        BY <1>21, <1>0, <2>1, <2>2, StopIInv DEF BuildRootfsSwapStops, ReturnsErr
<1>22. CASE CleanRootfs
    <2>1. FreshInv' /\ StoreHoldsFinished'
        BY <1>22, <1>0 DEF CleanRootfs, IInv, FreshInv, StoreHoldsFinished, TypeOK, Exists,
           Absent, NoIso
    <2>2. QED
        BY <1>22, <1>0, <2>1, CleanIInv DEF CleanRootfs
<1>23. CASE CleanIso
    <2>1. FreshInv' /\ StoreHoldsFinished'
        BY <1>23, <1>0 DEF CleanIso, IInv, FreshInv, StoreHoldsFinished, TypeOK, Exists, Absent,
           NoIso
    <2>2. QED
        BY <1>23, <1>0, <2>1, CleanIInv DEF CleanIso
<1>24. CASE CleanKernel
    <2>1. FreshInv' /\ StoreHoldsFinished'
        BY <1>24, <1>0 DEF CleanKernel, IInv, FreshInv, StoreHoldsFinished, TypeOK, Exists,
           Absent, NoIso
    <2>2. QED
        BY <1>24, <1>0, <2>1, CleanIInv DEF CleanKernel
<1>25. CASE CleanOutputs
    <2>1. FreshInv' /\ StoreHoldsFinished'
        BY <1>25, <1>0 DEF CleanOutputs, IInv, FreshInv, StoreHoldsFinished, TypeOK, Exists,
           Absent, NoIso
    <2>2. QED
        BY <1>25, <1>0, <2>1, CleanIInv DEF CleanOutputs
<1>26. CASE XtaskBuildsKernel
    <2>1. FreshInv' /\ StoreHoldsFinished' /\ ControlInv' /\ ReadingInv' /\ DoneInv'
        BY <1>26 DEF XtaskBuildsKernel, IInv, FreshInv, StoreHoldsFinished, ControlInv,
           ReadingInv, DoneInv
    <2>2. SuccessIsCurrent' /\ SuccessLeavesImagesUpToDate'
        BY <1>26 DEF XtaskBuildsKernel, IInv, SuccessIsCurrent, SuccessLeavesImagesUpToDate,
           NeedsRebuild,
           IsoNeedsRebuild
    <2>3. QED
        BY <1>0, <2>1, <2>2 DEF IInv
<1>27. ASSUME NEW s \in Edited, Edit(s)
      PROVE  IInv'
    <2>1. edited' /\ UNCHANGED <<disk, control, hashLost>>
        BY <1>27 DEF Edit
    <2>2. FreshInv' /\ StoreHoldsFinished' /\ ControlInv' /\ ReadingInv'
        BY <2>1 DEF IInv, FreshInv, StoreHoldsFinished, ControlInv, ReadingInv
    <2>3. SuccessIsCurrent' /\ SuccessLeavesImagesUpToDate'
        BY <2>1 DEF SuccessIsCurrent, SuccessLeavesImagesUpToDate
    <2>4. DoneInv'
        BY <2>1 DEF IInv, DoneInv, Done, Passed
    <2>5. QED
        BY <1>0, <2>2, <2>3, <2>4 DEF IInv
<1>28. CASE Kill
    <2>1. FreshInv' /\ StoreHoldsFinished'
        BY <1>28 DEF Kill, IInv, FreshInv, StoreHoldsFinished
    <2>2. QED
        BY <1>28, <1>0, <2>1, StopIInv DEF Kill
<1>29. CASE Rest
    <2>1. ControlInv' /\ ReadingInv' /\ FreshInv' /\ StoreHoldsFinished'
        BY <1>29 DEF Rest, IInv, ControlInv, ReadingInv, FreshInv, StoreHoldsFinished
    <2>2. DoneInv'
        BY <1>29 DEF Rest, IInv, DoneInv, Done, Passed
    <2>3. SuccessIsCurrent' /\ SuccessLeavesImagesUpToDate'
        BY <1>29 DEF Rest, IInv, SuccessIsCurrent, SuccessLeavesImagesUpToDate, NeedsRebuild,
           IsoNeedsRebuild
    <2>4. QED
        BY <1>0, <2>1, <2>2, <2>3 DEF IInv
<1>30. CASE UNCHANGED vars
    <2>1. ControlInv' /\ ReadingInv' /\ FreshInv' /\ StoreHoldsFinished'
        BY <1>30 DEF IInv, ControlInv, ReadingInv, FreshInv, StoreHoldsFinished
    <2>2. DoneInv'
        BY <1>30 DEF IInv, DoneInv, Done, Passed
    <2>3. SuccessIsCurrent' /\ SuccessLeavesImagesUpToDate'
        BY <1>30 DEF IInv, SuccessIsCurrent, SuccessLeavesImagesUpToDate, NeedsRebuild,
           IsoNeedsRebuild
    <2>4. QED
        BY <1>0, <2>1, <2>2, <2>3 DEF IInv
<1>31. QED
    BY <1>1, <1>2, <1>3, <1>4, <1>5, <1>6, <1>7, <1>8, <1>9, <1>10, <1>11, <1>12, <1>13, <1>14,
       <1>15, <1>16, <1>17, <1>18, <1>19, <1>20, <1>21, <1>22, <1>23, <1>24, <1>25, <1>26,
       <1>27, <1>28, <1>29, <1>30 DEF Next

(* The invariant holds in every state that the commands can reach.         *)
LEMMA IInvHolds == Spec => []IInv
<1>1. Init => IInv
    BY InitIInv
<1>2. IInv /\ [Next]_vars => IInv'
    BY NextIInv
<1>3. QED
    BY <1>1, <1>2, PTL DEF Spec

(* The artifacts, hash files and the command that runs stay within their   *)
(* types; in particular no command runs past the last of its steps.        *)
THEOREM TypeCorrect == Spec => []TypeOK
<1>1. IInv => TypeOK
    BY DEF IInv
<1>2. QED
    BY <1>1, IInvHolds, PTL

(* try_store_file_from_key puts only finished artifacts into the store,   *)
(* whatever fails or is killed between builder, hash file and store.       *)
THEOREM StoreIsFinished == Spec => []StoreHoldsFinished
<1>1. IInv => StoreHoldsFinished
    BY DEF IInv
<1>2. QED
    BY <1>1, IInvHolds, PTL

(* A full or ISO build that returns Ok, without an edit since its start,  *)
(* leaves artifacts and an ISO of the current inputs.                      *)
THEOREM OkBuildIsCurrent == Spec => []SuccessIsCurrent
<1>1. IInv => SuccessIsCurrent
    BY DEF IInv
<1>2. QED
    BY <1>1, IInvHolds, PTL

(* needs_rebuild of the rootfs and of the two initramfs images, and        *)
(* iso_needs_rebuild, are false after a full or ISO build that returned    *)
(* Ok, without an edit or a lost hash file.                                *)
THEOREM OkImagesUpToDate == Spec => []SuccessLeavesImagesUpToDate
<1>1. IInv => SuccessLeavesImagesUpToDate
    BY DEF IInv
<1>2. QED
    BY <1>1, IInvHolds, PTL

(* An ISO that iso_needs_rebuild takes for fresh holds the rootfs and the  *)
(* live initramfs that are in the output directory.                        *)
THEOREM FreshIsoIsOfParts == Spec => []FreshIsoHoldsParts
<1>1. IInv => FreshIsoHoldsParts
    BY DEF IInv, FreshInv, FreshIsoHoldsParts, IsoNeedsRebuild
<1>2. QED
    BY <1>1, IInvHolds, PTL
=============================================================================
