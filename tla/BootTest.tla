------------------------------ MODULE BootTest ------------------------------
(***************************************************************************)
(* qemu::test_iso (src/qemu.rs): QEMU boots the ISO headless, a thread     *)
(* reads its serial output line by line into a channel, and the main loop  *)
(* looks for success and failure patterns under two timeouts.              *)
(*                                                                         *)
(* What the guest prints is a text, named for the pattern that it matches. *)
(* A line is the set of the texts on it: a prompt stays on its line until  *)
(* something else is printed there.  Time is counted in ticks; a recv that *)
(* times out (100 ms) takes less than one.                                 *)
(***************************************************************************)
EXTENDS Naturals, Sequences

CONSTANTS
    Texts,              \* what the guest may print on a line
    Timeout,            \* the overall timeout of the command line, in ticks
    StallTimeout,       \* the 30 seconds without output, in ticks
    MaxPipe,            \* bound on the lines in the pipe from QEMU
    MaxChannel          \* bound on the lines in the channel

ASSUME TextsAssumption ==
    Texts \subseteq {"uefi", "kernel", "init", "target", "login", "panic", "emergency", "noise",
                     "garbled"}
ASSUME TimeoutAssumption == Timeout \in Nat /\ StallTimeout \in Nat
ASSUME BoundAssumption == MaxPipe \in Nat \ {0} /\ MaxChannel \in Nat \ {0}

VARIABLES
    qemu,               \* the child process
    pipe,               \* lines that QEMU has written and nobody has read
    partial,            \* the text of the line that is not yet ended
    reader,             \* the reader thread
    channel,            \* lines sent and not received
    pc,                 \* the main loop
    total, quiet,       \* ticks since the start and since the last line received
    stage,              \* the last boot stage seen by the main loop
    result,             \* what test_iso returned
    verdict,            \* what the first line that decides the boot says
    reached,            \* the last boot stage on a line of the guest
    garbled             \* has the guest written bytes that are not UTF-8?

guest == <<qemu, pipe, partial, verdict, reached, garbled>>
clocks == <<total, quiet>>
main == <<pc, total, quiet, stage, result>>
vars == <<guest, reader, channel, main>>

\* The texts by the pattern that they match; "init" names init or systemd on a
\* line that decides nothing, "emergency" is a target that is reached, "noise"
\* matches nothing and "garbled" is not UTF-8.
Prompts == {"login"}
Successes == {"login", "target", "emergency"}
Failures == {"panic", "emergency"}
StageOf(t) == CASE t = "uefi" -> 1
                [] t = "kernel" -> 2
                [] t \in {"init", "target", "emergency"} -> 3
                [] OTHER -> 0

Matches(line, patterns) == line \cap patterns # {}
Later(m, line) == CHOOSE n \in {m} \cup {StageOf(t) : t \in line} :
                    \A k \in {m} \cup {StageOf(t) : t \in line} : k <= n
VerdictOn(line) ==
    IF Matches(line, Failures) THEN "failure"
    ELSE IF Matches(line, Successes) THEN "success" ELSE "none"

Results == {"none", "setup_failed", "ok", "failed", "timeout", "stall", "qemu_exited"}
Line == SUBSET (Texts \cup Prompts)
TypeOK ==
    /\ qemu \in {"none", "running", "exited", "killed"}
    /\ pipe \in Seq(Line) /\ Len(pipe) <= MaxPipe
    /\ partial \subseteq Prompts
    /\ reader \in {"none", "reading", "ended"}
    /\ channel \in Seq(Line) /\ Len(channel) <= MaxChannel
    /\ pc \in {"start", "check", "recv", "done"}
    /\ total \in 0..(Timeout + 1) /\ quiet \in 0..(StallTimeout + 1)
    /\ stage \in 0..3 /\ reached \in 0..3
    /\ result \in Results
    /\ verdict \in {"none", "success", "failure"}
    /\ garbled \in BOOLEAN

Init ==
    /\ qemu = "none" /\ reader = "none" /\ pc = "start"
    /\ pipe = <<>> /\ channel = <<>> /\ partial = {}
    /\ total = 0 /\ quiet = 0
    /\ stage = 0 /\ reached = 0
    /\ result = "none" /\ verdict = "none" /\ garbled = FALSE
-----------------------------------------------------------------------------
(* The guest, external: it prints what it likes until QEMU is gone.        *)
Wrote(line) ==
    /\ verdict' = IF verdict = "none" THEN VerdictOn(line) ELSE verdict
    /\ reached' = Later(reached, line)

GuestPrintsLine(t) ==
    /\ qemu = "running" /\ Len(pipe) < MaxPipe
    /\ garbled' = (garbled \/ t = "garbled")
    /\ Wrote(partial \cup {t})
    /\ pipe' = Append(pipe, partial \cup {t})
    /\ partial' = {}
    /\ UNCHANGED <<qemu, reader, channel, pc, total, quiet, stage, result>>

GuestPrompts(t) ==
    /\ qemu = "running"
    /\ partial' = partial \cup {t}
    /\ UNCHANGED <<qemu, pipe, verdict, reached, garbled, reader, channel, main>>

\* The guest powers off or reboots (-no-reboot), or QEMU crashes; the last
\* line need not have an end.
QemuExits ==
    /\ qemu = "running" /\ Len(pipe) < MaxPipe
    /\ qemu' = "exited"
    /\ UNCHANGED garbled
    /\ Wrote(partial)
    /\ pipe' = IF partial = {} THEN pipe ELSE Append(pipe, partial)
    /\ partial' = {}
    /\ UNCHANGED <<reader, channel, pc, total, quiet, stage, result>>
-----------------------------------------------------------------------------
(* The reader thread: the next line goes into the channel, unless the      *)
(* receiver is gone; a line that is not UTF-8 is an error, which ends the  *)
(* iteration like the end of the output does.                              *)
ReaderSends ==
    /\ reader = "reading" /\ pipe # <<>> /\ "garbled" \notin Head(pipe)
    /\ pc # "done" => Len(channel) < MaxChannel
    /\ pipe' = Tail(pipe)
    /\ IF pc = "done"
       THEN reader' = "ended" /\ UNCHANGED channel
       ELSE channel' = Append(channel, Head(pipe)) /\ UNCHANGED reader
    /\ UNCHANGED <<qemu, partial, verdict, reached, garbled, main>>

ReaderEnds ==
    /\ reader = "reading"
    /\ \/ pipe # <<>> /\ "garbled" \in Head(pipe)
       \/ pipe = <<>> /\ qemu # "running"
    /\ reader' = "ended"
    /\ UNCHANGED <<guest, channel, main>>
-----------------------------------------------------------------------------
Return(res) == pc' = "done" /\ result' = res
Kill == qemu' = IF qemu = "running" THEN "killed" ELSE qemu
GuestUnchanged == UNCHANGED <<pipe, partial, verdict, reached, garbled>>

(* Faulty variants of the main loop's steps below, each the bug its name   *)
(* says; none of them is part of the specification.                        *)
CheckStallKeepsQemu ==
    /\ pc = "check" /\ total <= Timeout /\ quiet > StallTimeout
    /\ Return("stall") /\ UNCHANGED qemu
    /\ GuestUnchanged /\ UNCHANGED <<reader, channel, clocks, stage>>

ReceiveSuccessFirst ==
    /\ pc = "recv" /\ channel # <<>>
    /\ LET line == Head(channel)
       IN  /\ stage' = Later(stage, line)
           /\ \/ /\ Matches(line, Successes) /\ Return("ok") /\ Kill
              \/ /\ ~Matches(line, Successes) /\ Matches(line, Failures)
                 /\ Return("failed") /\ Kill
              \/ /\ VerdictOn(line) = "none"
                 /\ pc' = "check" /\ UNCHANGED <<result, qemu>>
    /\ channel' = Tail(channel)
    /\ quiet' = 0
    /\ GuestUnchanged /\ UNCHANGED <<reader, total>>

ReceiveForgetsStage ==
    /\ pc = "recv" /\ channel # <<>>
    /\ LET line == Head(channel)
       IN  /\ stage' = Later(0, line)
           /\ \/ VerdictOn(line) # "none" /\ Kill
                 /\ Return(IF VerdictOn(line) = "failure" THEN "failed" ELSE "ok")
              \/ VerdictOn(line) = "none" /\ pc' = "check" /\ UNCHANGED <<result, qemu>>
    /\ channel' = Tail(channel)
    /\ quiet' = 0
    /\ GuestUnchanged /\ UNCHANGED <<reader, total>>

ReceiveNothingPollsAgain ==
    /\ pc = "recv" /\ channel = <<>> /\ reader = "reading"
    /\ quiet' = 0
    /\ GuestUnchanged /\ UNCHANGED <<qemu, reader, channel, pc, total, stage, result>>

DisconnectedOnceQemuExited ==
    /\ pc = "recv" /\ qemu # "running"
    /\ Return("qemu_exited")
    /\ UNCHANGED <<guest, reader, channel, clocks, stage>>
-----------------------------------------------------------------------------
(* ISO, OVMF and the spawn are needed; then the loop starts.               *)
Spawn ==
    /\ pc = "start"
    /\ \/ Return("setup_failed") /\ UNCHANGED <<qemu, reader>>
       \/ /\ pc' = "check" /\ qemu' = "running" /\ reader' = "reading"
          /\ UNCHANGED result
    /\ GuestUnchanged /\ UNCHANGED <<channel, clocks, stage>>

\* The top of the loop: the overall timeout is looked at before the stall.
CheckTimeout ==
    /\ pc = "check" /\ total > Timeout
    /\ Return("timeout") /\ Kill
    /\ GuestUnchanged /\ UNCHANGED <<reader, channel, clocks, stage>>

CheckStall ==
    /\ pc = "check" /\ total <= Timeout /\ quiet > StallTimeout
    /\ Return("stall") /\ Kill
    /\ GuestUnchanged /\ UNCHANGED <<reader, channel, clocks, stage>>

CheckPasses ==
    /\ pc = "check" /\ total <= Timeout /\ quiet <= StallTimeout
    /\ pc' = "recv"
    /\ UNCHANGED <<guest, reader, channel, clocks, stage, result>>

(* recv_timeout: a line, whose failure patterns are looked at before its   *)
(* success patterns; nothing in time; or the reader thread has ended and   *)
(* the channel is empty.                                                   *)
Receive ==
    /\ pc = "recv" /\ channel # <<>>
    /\ LET line == Head(channel)
       IN  /\ stage' = Later(stage, line)
           /\ \/ /\ Matches(line, Failures) /\ Return("failed") /\ Kill
              \/ /\ ~Matches(line, Failures) /\ Matches(line, Successes)
                 /\ Return("ok") /\ Kill
              \/ /\ ~Matches(line, Failures) /\ ~Matches(line, Successes)
                 /\ pc' = "check" /\ UNCHANGED <<result, qemu>>
    /\ channel' = Tail(channel)
    /\ quiet' = 0
    /\ GuestUnchanged /\ UNCHANGED <<reader, total>>

ReceiveNothing ==
    /\ pc = "recv" /\ channel = <<>> /\ reader = "reading"
    /\ pc' = "check"
    /\ UNCHANGED <<guest, reader, channel, clocks, stage, result>>

Disconnected ==
    /\ pc = "recv" /\ channel = <<>> /\ reader = "ended"
    /\ Return("qemu_exited")
    /\ UNCHANGED <<guest, reader, channel, clocks, stage>>

(* Time passes, also between two steps of the loop; beyond its limit a     *)
(* clock need not be followed.                                             *)
Tick ==
    /\ pc \in {"check", "recv"}
    /\ total <= Timeout \/ quiet <= StallTimeout
    /\ total' = IF total <= Timeout THEN total + 1 ELSE total
    /\ quiet' = IF quiet <= StallTimeout THEN quiet + 1 ELSE quiet
    /\ UNCHANGED <<guest, reader, channel, pc, stage, result>>

MainLoop ==
    \/ Spawn \/ CheckTimeout \/ CheckStall \/ CheckPasses
    \/ Receive \/ ReceiveNothing \/ Disconnected

Next ==
    \/ MainLoop
    \/ \E t \in Texts : GuestPrintsLine(t)
    \/ \E t \in Prompts : GuestPrompts(t)
    \/ QemuExits \/ ReaderSends \/ ReaderEnds
    \/ Tick

Spec == Init /\ [][Next]_vars

(* The main loop waits on nobody for more than 100 ms and time passes.     *)
(* Nothing is asked of the guest or the reader thread.                     *)
FairSpec == Spec /\ WF_vars(MainLoop) /\ WF_vars(Tick)
-----------------------------------------------------------------------------
(* The verdict is the guest's: Ok or BOOT FAILED is what the first line    *)
(* that the guest wrote with a pattern on it says, a failure pattern on it *)
(* having precedence, whatever was printed, queued or read since.          *)
VerdictIsFirst ==
    /\ result = "ok" => verdict = "success"
    /\ result = "failed" => verdict = "failure"

(* No verdict that can be read is lost at the end: when the test reports   *)
(* that QEMU exited, no line of the guest contains a pattern, not even the *)
(* last one, printed without an end, or one still in the pipe when QEMU    *)
(* went.  Only on or behind a line that is not UTF-8, which nobody has     *)
(* read, there may be one.                                                 *)
ExitLosesNoVerdict ==
    result = "qemu_exited" /\ verdict # "none" =>
        \E i \in 1..Len(pipe) : VerdictOn(pipe[i]) = verdict /\ \E j \in 1..i : "garbled" \in pipe[j]

(* No test leaves a QEMU process behind, on any way out, as long as the    *)
(* guest writes UTF-8.                                                     *)
NoQemuLeftBehind == pc = "done" /\ ~garbled => qemu # "running"

(* A stall names the last stage that the guest's output shows: firmware,   *)
(* kernel or init, or none of them; unless output is still on its way.     *)
ReportsStall == result # "stall" /\ result' = "stall"
StallNamesStage ==
    [][ReportsStall /\ pipe = <<>> /\ channel = <<>> => stage = reached]_vars

(* "Returns Err if boot fails or times out": the test comes to an end,     *)
(* also if the guest talks or is silent for ever or the reader hangs.      *)
TestEnds == <>(pc = "done")
=============================================================================
