--------------------------- MODULE BootTestProofs ---------------------------
(* Proofs about BootTest, for every set of texts, every timeout and every  *)
(* bound on the pipe and the channel.                                      *)
EXTENDS BootTest, SequenceTheorems, TLAPS

\* The line i is the first of q with a verdict, which is v.
First(q, i, v) ==
    /\ i \in 1..Len(q) /\ VerdictOn(q[i]) = v
    /\ \A j \in 1..(i - 1) : VerdictOn(q[j]) = "none"
NoVerdict(q) == \A i \in 1..Len(q) : VerdictOn(q[i]) = "none"

(* As long as the main loop runs, the verdict of the guest is on its way:  *)
(* on the first line with a pattern in the channel or, if there is none,   *)
(* in the pipe.                                                            *)
VerdictInv ==
    pc # "done" =>
        /\ verdict = "none" => NoVerdict(channel) /\ NoVerdict(pipe)
        /\ verdict # "none" =>
             \/ \E i \in 1..Len(channel) : First(channel, i, verdict)
             \/ NoVerdict(channel) /\ \E i \in 1..Len(pipe) : First(pipe, i, verdict)

(* What is not UTF-8 stays in the pipe.                                    *)
GarbledInv == garbled <=> \E i \in 1..Len(pipe) : "garbled" \in pipe[i]

(* Why the reader thread has ended, and that QEMU is then gone.            *)
EndInv ==
    /\ pc = "start" => qemu = "none" /\ reader = "none"
    /\ result # "none" => pc = "done"
    /\ result = "qemu_exited" => reader = "ended"
    /\ (pc # "done" \/ result = "qemu_exited") /\ reader = "ended" =>
         IF pipe = <<>> THEN qemu # "running" ELSE "garbled" \in pipe[1]

(* The last stage on a line of the guest is the last one the main loop has *)
(* seen or on a line that is on its way.                                   *)
On(q, n) == \E i \in 1..Len(q) : \E t \in q[i] : StageOf(t) = n
UpTo(q, n) == \A i \in 1..Len(q) : \A t \in q[i] : StageOf(t) <= n
StageInv ==
    pc # "done" =>
        /\ stage <= reached /\ UpTo(channel, reached) /\ UpTo(pipe, reached)
        /\ stage = reached \/ On(channel, reached) \/ On(pipe, reached)

(* The inductive invariant.                                                *)
IInv == TypeOK /\ VerdictInv /\ GarbledInv /\ EndInv /\ StageInv
        /\ VerdictIsFirst /\ ExitLosesNoVerdict /\ NoQemuLeftBehind

USE TextsAssumption, TimeoutAssumption, BoundAssumption
USE DEF vars, guest, clocks, main, Return, Kill, GuestUnchanged, Results

(* A line says success or failure or nothing; an empty one says nothing.   *)
LEMMA Verdicts ==
    /\ \A line : VerdictOn(line) \in {"none", "success", "failure"}
    /\ VerdictOn({}) = "none"
BY DEF VerdictOn, Matches

(* Later is the largest of the stages it is given.                         *)
LEMMA LaterIsMax ==
    ASSUME NEW m \in 0..3, NEW line
    PROVE  /\ Later(m, line) \in 0..3 /\ m <= Later(m, line)
           /\ \A t \in line : StageOf(t) \in 0..3 /\ StageOf(t) <= Later(m, line)
           /\ Later(m, line) = m \/ \E t \in line : StageOf(t) = Later(m, line)
<1> DEFINE S == {m} \cup {StageOf(t) : t \in line}
<1>1. \A t \in line : StageOf(t) \in 0..3
    BY DEF StageOf
<1>2. S \subseteq 0..3 /\ m \in S
    BY <1>1
<1>3. \E n \in S : \A k \in S : k <= n
    <2> HIDE DEF S
    <2>1. CASE 3 \in S
        BY <1>2, <2>1
    <2>2. CASE 3 \notin S /\ 2 \in S
        BY <1>2, <2>2
    <2>3. CASE 3 \notin S /\ 2 \notin S /\ 1 \in S
        BY <1>2, <2>3
    <2>4. CASE 3 \notin S /\ 2 \notin S /\ 1 \notin S
        BY <1>2, <2>4
    <2>5. QED
        BY <2>1, <2>2, <2>3, <2>4
<1>4. Later(m, line) \in S /\ \A k \in S : k <= Later(m, line)
    BY <1>3 DEF Later
<1>5. QED
    BY <1>1, <1>2, <1>4

(* What the lines of a queue say when one more is written to it.           *)
LEMMA AppendLine ==
    ASSUME NEW q \in Seq(Line), NEW l \in Line
    PROVE  LET a == Append(q, l) IN
           /\ a \in Seq(Line) /\ a # <<>> /\ Len(a) = Len(q) + 1 /\ a[Len(q) + 1] = l
           /\ \A i \in 1..Len(q) : a[i] = q[i]
           /\ NoVerdict(q) /\ VerdictOn(l) = "none" => NoVerdict(a)
           /\ \A v : \A i \in 1..Len(q) : First(q, i, v) => First(a, i, v)
           /\ NoVerdict(q) => First(a, Len(q) + 1, VerdictOn(l))
           /\ \A n : UpTo(q, n) /\ (\A t \in l : StageOf(t) <= n) => UpTo(a, n)
           /\ \A n : On(q, n) \/ (\E t \in l : StageOf(t) = n) => On(a, n)
<1> DEFINE a == Append(q, l)
<1>1. a \in Seq(Line) /\ a # <<>> /\ Len(a) = Len(q) + 1 /\ a[Len(q) + 1] = l
      /\ \A i \in 1..Len(q) : a[i] = q[i]
    BY AppendProperties
<1>2. Len(q) \in Nat
    OBVIOUS
<1> HIDE DEF a
<1>3. NoVerdict(q) /\ VerdictOn(l) = "none" => NoVerdict(a)
    BY <1>1, <1>2 DEF NoVerdict
<1>4. \A v : \A i \in 1..Len(q) : First(q, i, v) => First(a, i, v)
    BY <1>1, <1>2 DEF First
<1>5. NoVerdict(q) => First(a, Len(q) + 1, VerdictOn(l))
    BY <1>1, <1>2 DEF First, NoVerdict
<1>6. \A n : UpTo(q, n) /\ (\A t \in l : StageOf(t) <= n) => UpTo(a, n)
    BY <1>1, <1>2 DEF UpTo
<1>7. \A n : On(q, n) \/ (\E t \in l : StageOf(t) = n) => On(a, n)
    BY <1>1, <1>2 DEF On
<1>8. QED
    BY <1>1, <1>3, <1>4, <1>5, <1>6, <1>7 DEF a

(* What the lines of a queue say when the first of them is taken from it.  *)
LEMMA TakeLine ==
    ASSUME NEW q \in Seq(Line), q # <<>>
    PROVE  /\ Head(q) \in Line /\ Head(q) = q[1] /\ Len(q) > 0
           /\ Tail(q) \in Seq(Line) /\ Len(Tail(q)) = Len(q) - 1
           /\ \A i \in 1..Len(Tail(q)) : Tail(q)[i] = q[i + 1]
           /\ NoVerdict(q) => NoVerdict(Tail(q)) /\ VerdictOn(Head(q)) = "none"
           /\ \A v : \A i \in 1..Len(q) : First(q, i, v) /\ i # 1 =>
                /\ VerdictOn(Head(q)) = "none"
                /\ i - 1 \in 1..Len(Tail(q)) /\ First(Tail(q), i - 1, v)
           /\ \A n : UpTo(q, n) => UpTo(Tail(q), n) /\ \A t \in Head(q) : StageOf(t) <= n
           /\ \A n : On(q, n) => On(Tail(q), n) \/ \E t \in Head(q) : StageOf(t) = n
<1> DEFINE r == Tail(q)
<1>1. Head(q) = q[1] /\ Head(q) \in Line /\ Len(q) \in Nat /\ Len(q) > 0
    BY HeadTailProperties, EmptySeq
<1>2. r \in Seq(Line) /\ Len(r) = Len(q) - 1 /\ \A i \in 1..Len(r) : r[i] = q[i + 1]
    BY HeadTailProperties
<1> HIDE DEF r
<1>3. NoVerdict(q) => NoVerdict(r) /\ VerdictOn(Head(q)) = "none"
    BY <1>1, <1>2 DEF NoVerdict
<1>4. ASSUME NEW v, NEW i \in 1..Len(q), First(q, i, v), i # 1
      PROVE  VerdictOn(Head(q)) = "none" /\ i - 1 \in 1..Len(r) /\ First(r, i - 1, v)
    <2>1. i \in Nat /\ i - 1 \in 1..Len(r) /\ r[i - 1] = q[i] /\ 1 \in 1..(i - 1)
        BY <1>1, <1>2, <1>4
    <2>2. \A j \in 1..(i - 1 - 1) : j \in 1..Len(r) /\ j + 1 \in 1..(i - 1)
        BY <1>1, <1>2, <2>1
    <2>3. QED
        BY <1>1, <1>2, <1>4, <2>1, <2>2 DEF First
<1>5. \A n : UpTo(q, n) => UpTo(r, n) /\ \A t \in Head(q) : StageOf(t) <= n
    BY <1>1, <1>2 DEF UpTo
<1>6. \A n : On(q, n) => On(r, n) \/ \E t \in Head(q) : StageOf(t) = n
    <2> SUFFICES ASSUME NEW n, NEW i \in 1..Len(q), NEW t \in q[i], StageOf(t) = n
                 PROVE  On(r, n) \/ \E u \in Head(q) : StageOf(u) = n
        BY DEF On
    <2>1. CASE i = 1
        BY <1>1, <2>1
    <2>2. CASE i # 1
        <3>1. i - 1 \in 1..Len(r) /\ r[i - 1] = q[i]
            BY <1>1, <1>2, <2>2
        <3>2. QED
            BY <3>1 DEF On
    <2>3. QED
        BY <2>1, <2>2
<1>7. QED
    BY <1>1, <1>2, <1>3, <1>4, <1>5, <1>6 DEF r

(* Every step keeps the variables in their types.                          *)
LEMMA NextTypeOK == TypeOK /\ [Next]_vars => TypeOK'
<1> SUFFICES ASSUME TypeOK, [Next]_vars
             PROVE  TypeOK'
    OBVIOUS
<1> USE DEF TypeOK
<1>1. CASE Spawn
    BY <1>1 DEF Spawn
<1>2. CASE CheckTimeout
    BY <1>2 DEF CheckTimeout
<1>3. CASE CheckStall
    BY <1>3 DEF CheckStall
<1>4. CASE CheckPasses
    BY <1>4 DEF CheckPasses
<1>5. CASE Receive
    <2>1. channel' \in Seq(Line) /\ Len(channel') <= MaxChannel
        BY <1>5, TakeLine DEF Receive
    <2>2. stage' \in 0..3
        BY <1>5, LaterIsMax DEF Receive
    <2>3. pc' \in {"check", "done"} /\ result' \in {result, "ok", "failed"}
          /\ qemu' \in {qemu, "killed"}
        BY <1>5 DEF Receive
    <2>4. quiet' \in 0..(StallTimeout + 1)
        BY <1>5 DEF Receive
    <2>5. UNCHANGED <<pipe, partial, verdict, reached, garbled, reader, total>>
        BY <1>5 DEF Receive
    <2>6. QED
        BY <2>1, <2>2, <2>3, <2>4, <2>5
<1>6. CASE ReceiveNothing
    BY <1>6 DEF ReceiveNothing
<1>7. CASE Disconnected
    BY <1>7 DEF Disconnected
<1>8. ASSUME NEW t \in Texts, GuestPrintsLine(t)
      PROVE  TypeOK'
    <2>1. partial \cup {t} \in Line
        BY DEF Line
    <2>2. pipe' \in Seq(Line) /\ Len(pipe') <= MaxPipe
        BY <1>8, <2>1, AppendLine DEF GuestPrintsLine
    <2>3. verdict' \in {"none", "success", "failure"} /\ reached' \in 0..3
        BY <1>8, Verdicts, LaterIsMax DEF GuestPrintsLine, Wrote
    <2>4. garbled' \in BOOLEAN
        BY <1>8 DEF GuestPrintsLine
    <2>5. partial' \subseteq Prompts
        BY <1>8 DEF GuestPrintsLine
    <2>6. UNCHANGED <<qemu, reader, channel, pc, total, quiet, stage, result>>
        BY <1>8 DEF GuestPrintsLine
    <2>7. QED
        BY <2>2, <2>3, <2>4, <2>5, <2>6
<1>9. ASSUME NEW t \in Prompts, GuestPrompts(t)
      PROVE  TypeOK'
    BY <1>9 DEF GuestPrompts
<1>10. CASE QemuExits
    <2>1. partial \in Line
        BY DEF Line
    <2>2. pipe' \in Seq(Line) /\ Len(pipe') <= MaxPipe
        BY <1>10, <2>1, AppendLine DEF QemuExits
    <2>3. verdict' \in {"none", "success", "failure"} /\ reached' \in 0..3
        BY <1>10, Verdicts, LaterIsMax DEF QemuExits, Wrote
    <2>4. QED
        BY <1>10, <2>2, <2>3 DEF QemuExits
<1>11. CASE ReaderSends
    <2>1. pipe' \in Seq(Line) /\ Len(pipe') <= MaxPipe /\ Head(pipe) \in Line
        BY <1>11, TakeLine DEF ReaderSends
    <2>2. channel' \in Seq(Line) /\ Len(channel') <= MaxChannel
        <3>1. CASE UNCHANGED channel
            BY <3>1
        <3>2. CASE channel' = Append(channel, Head(pipe)) /\ Len(channel) < MaxChannel
            <4>1. Append(channel, Head(pipe)) \in Seq(Line)
                  /\ Len(Append(channel, Head(pipe))) = Len(channel) + 1
                BY <2>1, AppendLine
            <4>2. Len(channel) \in Nat
                OBVIOUS
            <4>3. QED
                BY <3>2, <4>1, <4>2
        <3>3. QED
            BY <1>11, <3>1, <3>2 DEF ReaderSends
    <2>3. QED
        BY <1>11, <2>1, <2>2 DEF ReaderSends
<1>12. CASE ReaderEnds
    BY <1>12 DEF ReaderEnds
<1>13. CASE Tick
    BY <1>13 DEF Tick
<1>14. CASE UNCHANGED vars
    BY <1>14
<1>15. QED
    BY <1>1, <1>2, <1>3, <1>4, <1>5, <1>6, <1>7, <1>8, <1>9, <1>10, <1>11, <1>12, <1>13, <1>14
       DEF Next, MainLoop

(* What the initial state establishes.                                     *)
LEMMA InitIInv == Init => IInv
<1> SUFFICES ASSUME Init
             PROVE  IInv
    OBVIOUS
<1>1. <<>> \in Seq(Line) /\ Len(<<>>) = 0
    BY EmptySeq
<1>2. TypeOK
    <2>1. 0 \in 0..(Timeout + 1) /\ 0 \in 0..(StallTimeout + 1) /\ 0 \in 0..3
        OBVIOUS
    <2>2. pipe \in Seq(Line) /\ Len(pipe) <= MaxPipe /\ channel \in Seq(Line)
          /\ Len(channel) <= MaxChannel
        BY <1>1 DEF Init
    <2>3. total \in 0..(Timeout + 1) /\ quiet \in 0..(StallTimeout + 1) /\ stage \in 0..3
          /\ reached \in 0..3
        BY <2>1 DEF Init
    <2>4. partial \subseteq Prompts /\ garbled \in BOOLEAN
        BY DEF Init
    <2>5. /\ qemu \in {"none", "running", "exited", "killed"}
          /\ reader \in {"none", "reading", "ended"}
          /\ pc \in {"start", "check", "recv", "done"}
          /\ result \in Results /\ verdict \in {"none", "success", "failure"}
        BY DEF Init
    <2>6. QED
        BY <2>2, <2>3, <2>4, <2>5 DEF TypeOK
<1>3. VerdictInv /\ GarbledInv /\ EndInv /\ StageInv
    BY <1>1 DEF Init, VerdictInv, NoVerdict, GarbledInv, EndInv, StageInv, UpTo
<1>4. VerdictIsFirst /\ ExitLosesNoVerdict /\ NoQemuLeftBehind
    BY DEF Init, VerdictIsFirst, ExitLosesNoVerdict, NoQemuLeftBehind
<1>5. QED
    BY <1>2, <1>3, <1>4 DEF IInv

(* A line that the guest writes is the first with a verdict if none before *)
(* it had one.  Once the reader is stuck at a line that is not UTF-8, it   *)
(* is behind that line.                                                    *)
LEMMA Written ==
    ASSUME IInv, NEW l \in Line, Wrote(l), pipe' = Append(pipe, l),
           garbled' <=> garbled \/ "garbled" \in l,
           UNCHANGED <<channel, pc, stage, reader, result>>
    PROVE  VerdictInv' /\ GarbledInv' /\ StageInv' /\ VerdictIsFirst'
           /\ (pipe # <<>> \/ result # "qemu_exited" => ExitLosesNoVerdict')
<1>1. /\ pipe \in Seq(Line) /\ Len(pipe) \in Nat /\ reached \in 0..3 /\ stage \in 0..3
      /\ pipe' \in Seq(Line) /\ Len(pipe') = Len(pipe) + 1 /\ pipe'[Len(pipe) + 1] = l
      /\ \A i \in 1..Len(pipe) : pipe'[i] = pipe[i]
    BY AppendLine DEF IInv, TypeOK
<1>2. GarbledInv'
    BY <1>1 DEF IInv, GarbledInv
<1>3. VerdictInv'
    <2> SUFFICES ASSUME pc # "done"
                 PROVE  VerdictInv'
        BY DEF VerdictInv
    <2>1. \A v : \A i \in 1..Len(pipe) : First(pipe, i, v) => First(pipe', i, v)
        BY AppendLine DEF IInv, TypeOK
    <2>2. NoVerdict(pipe) => First(pipe', Len(pipe) + 1, VerdictOn(l))
        BY AppendLine DEF IInv, TypeOK
    <2>3. CASE verdict # "none"
        <3>1. UNCHANGED <<verdict, channel, pc>>
            BY <2>3 DEF Wrote
        <3>2. \/ \E i \in 1..Len(channel) : First(channel, i, verdict)
              \/ NoVerdict(channel) /\ \E i \in 1..Len(pipe) : First(pipe, i, verdict)
            BY <2>3 DEF IInv, VerdictInv
        <3>3. QED
            BY <1>1, <2>1, <2>3, <3>1, <3>2 DEF VerdictInv
    <2>4. CASE verdict = "none"
        <3>1. verdict' = VerdictOn(l) /\ UNCHANGED <<channel, pc>>
            BY <2>4 DEF Wrote
        <3>2. NoVerdict(channel) /\ NoVerdict(pipe)
            BY <2>4 DEF IInv, VerdictInv
        <3>3. CASE VerdictOn(l) = "none"
            <4>1. NoVerdict(pipe')
                BY <3>2, <3>3, AppendLine DEF IInv, TypeOK
            <4>2. QED
                BY <3>1, <3>2, <3>3, <4>1 DEF VerdictInv, NoVerdict
        <3>4. CASE VerdictOn(l) # "none"
            <4>1. First(pipe', Len(pipe) + 1, verdict')
                BY <2>2, <3>1, <3>2
            <4>2. Len(pipe) + 1 \in 1..Len(pipe')
                BY <1>1
            <4>3. QED
                BY <3>1, <3>2, <3>4, <4>1, <4>2 DEF VerdictInv, NoVerdict
        <3>5. QED
            BY <3>3, <3>4
    <2>5. QED
        BY <2>3, <2>4
<1>4. StageInv'
    <2> SUFFICES ASSUME pc # "done"
                 PROVE  StageInv'
        BY DEF StageInv
    <2>1. reached' = Later(reached, l) /\ reached' \in 0..3 /\ reached <= reached'
          /\ (\A t \in l : StageOf(t) <= reached')
          /\ (reached' = reached \/ \E t \in l : StageOf(t) = reached')
        BY <1>1, LaterIsMax DEF Wrote
    <2>2. /\ stage <= reached /\ UpTo(channel, reached) /\ UpTo(pipe, reached)
          /\ stage = reached \/ On(channel, reached) \/ On(pipe, reached)
        BY DEF IInv, StageInv
    <2>3. stage <= reached' /\ UpTo(channel, reached') /\ UpTo(pipe, reached')
        <3>1. \A t : StageOf(t) \in 0..3
            BY DEF StageOf
        <3>2. QED
            BY <1>1, <2>1, <2>2, <3>1 DEF UpTo
    <2>4. UpTo(pipe', reached')
        BY <2>1, <2>3, AppendLine DEF IInv, TypeOK
    <2>5. stage = reached' \/ On(channel, reached') \/ On(pipe', reached')
        BY <2>1, <2>2, AppendLine DEF IInv, TypeOK
    <2>6. QED
        BY <2>3, <2>4, <2>5 DEF StageInv, UpTo, On
<1>5. VerdictIsFirst'
    BY DEF IInv, VerdictIsFirst, Wrote
<1>6. ASSUME pipe # <<>> \/ result # "qemu_exited"
      PROVE  ExitLosesNoVerdict'
    <2> SUFFICES ASSUME result = "qemu_exited", verdict' # "none"
                 PROVE  \E i \in 1..Len(pipe') :
                            VerdictOn(pipe'[i]) = verdict' /\ \E j \in 1..i : "garbled" \in pipe'[j]
        BY DEF ExitLosesNoVerdict
    <2>1. "garbled" \in pipe[1] /\ 1 \in 1..Len(pipe)
        BY <1>1, <1>6, EmptySeq DEF IInv, EndInv
    <2>2. CASE verdict # "none"
        <3>1. verdict' = verdict
            BY <2>2 DEF Wrote
        <3>2. PICK i \in 1..Len(pipe) :
                VerdictOn(pipe[i]) = verdict /\ \E j \in 1..i : "garbled" \in pipe[j]
            BY <2>2 DEF IInv, ExitLosesNoVerdict
        <3>3. QED
            BY <1>1, <3>1, <3>2
    <2>3. CASE verdict = "none"
        <3>1. verdict' = VerdictOn(pipe'[Len(pipe) + 1])
            BY <1>1, <2>3 DEF Wrote
        <3>2. 1 \in 1..(Len(pipe) + 1) /\ "garbled" \in pipe'[1]
            BY <1>1, <2>1
        <3>3. QED
            BY <1>1, <3>1, <3>2
    <2>4. QED
        BY <2>2, <2>3
<1>7. QED
    BY <1>2, <1>3, <1>4, <1>5, <1>6

(* Every step of the guest, the reader thread and the main loop preserves  *)
(* the invariant.                                                          *)
LEMMA NextIInv == IInv /\ [Next]_vars => IInv'
<1> SUFFICES ASSUME IInv, [Next]_vars
             PROVE  IInv'
    OBVIOUS
<1>0. TypeOK'
    BY NextTypeOK DEF IInv
<1> USE DEF IInv, EndInv, VerdictIsFirst, ExitLosesNoVerdict, NoQemuLeftBehind
<1>1. CASE Spawn
    BY <1>0, <1>1 DEF Spawn, VerdictInv, NoVerdict, GarbledInv, StageInv, UpTo, On
<1>2. CASE CheckTimeout
    BY <1>0, <1>2 DEF CheckTimeout, VerdictInv, NoVerdict, GarbledInv, StageInv, UpTo, On
<1>3. CASE CheckStall
    BY <1>0, <1>3 DEF CheckStall, VerdictInv, NoVerdict, GarbledInv, StageInv, UpTo, On
<1>4. CASE CheckPasses
    BY <1>0, <1>4 DEF CheckPasses, VerdictInv, NoVerdict, GarbledInv, StageInv, UpTo, On
<1>5. CASE Receive
    <2>1. channel \in Seq(Line) /\ channel # <<>> /\ pipe \in Seq(Line) /\ pc = "recv"
        BY <1>5 DEF Receive, TypeOK
    <2>2. UNCHANGED <<pipe, partial, verdict, reached, garbled, reader>>
          /\ channel' = Tail(channel)
        BY <1>5 DEF Receive
    <2>3. VerdictOn(Head(channel)) \in {"none", verdict}
        BY <2>1, TakeLine DEF VerdictInv, First
    <2>4. GarbledInv'
        BY <2>2 DEF GarbledInv
    <2>5. CASE VerdictOn(Head(channel)) # "none"
        <3>1. pc' = "done" /\ qemu' # "running"
              /\ result' = IF VerdictOn(Head(channel)) = "failure" THEN "failed" ELSE "ok"
            BY <1>5, <2>5 DEF Receive, VerdictOn
        <3>2. VerdictIsFirst' /\ ExitLosesNoVerdict'
            BY <2>2, <2>3, <2>5, <3>1, Verdicts
        <3>3. QED
            BY <1>0, <2>2, <2>4, <3>1, <3>2 DEF VerdictInv, StageInv
    <2>6. CASE VerdictOn(Head(channel)) = "none"
        <3>1. pc' = "check" /\ UNCHANGED <<result, qemu>> /\ stage' = Later(stage, Head(channel))
            BY <1>5, <2>6 DEF Receive, VerdictOn
        <3>2. VerdictInv'
            <4>1. CASE verdict = "none"
                <5>1. NoVerdict(Tail(channel))
                    BY <2>1, <4>1, TakeLine DEF VerdictInv
                <5>2. QED
                    BY <2>1, <2>2, <4>1, <5>1 DEF VerdictInv, NoVerdict
            <4>2. CASE \E i \in 1..Len(channel) : verdict # "none" /\ First(channel, i, verdict)
                <5>1. PICK i \in 1..Len(channel) : verdict # "none" /\ First(channel, i, verdict)
                    BY <4>2
                <5>2. i # 1
                    BY <2>1, <2>6, <5>1, TakeLine DEF First
                <5>3. i - 1 \in 1..Len(Tail(channel)) /\ First(Tail(channel), i - 1, verdict)
                    BY <2>1, <5>1, <5>2, TakeLine
                <5>4. QED
                    BY <2>2, <5>1, <5>3 DEF VerdictInv
            <4>3. CASE /\ verdict # "none" /\ NoVerdict(channel)
                       /\ \E i \in 1..Len(pipe) : First(pipe, i, verdict)
                <5>1. NoVerdict(Tail(channel))
                    BY <2>1, <4>3, TakeLine
                <5>2. QED
                    BY <2>2, <4>3, <5>1 DEF VerdictInv, NoVerdict, First
            <4>4. QED
                BY <2>1, <4>1, <4>2, <4>3 DEF VerdictInv
        <3>3. StageInv'
            <4>1. /\ stage \in 0..3 /\ reached \in 0..3 /\ stage <= reached
                  /\ UpTo(channel, reached) /\ UpTo(pipe, reached)
                  /\ stage = reached \/ On(channel, reached) \/ On(pipe, reached)
                BY <2>1 DEF StageInv, TypeOK
            <4>2. /\ stage' \in 0..3 /\ stage <= stage'
                  /\ \A t \in Head(channel) : StageOf(t) <= stage'
                  /\ stage' = stage \/ \E t \in Head(channel) : StageOf(t) = stage'
                BY <3>1, <4>1, LaterIsMax
            <4>3. UpTo(Tail(channel), reached) /\ \A t \in Head(channel) : StageOf(t) <= reached
                BY <2>1, <4>1, TakeLine
            <4>4. stage' <= reached
                BY <4>1, <4>2, <4>3
            <4>5. stage' = reached \/ On(Tail(channel), reached) \/ On(pipe, reached)
                BY <2>1, <4>1, <4>2, <4>4, TakeLine
            <4>6. QED
                BY <2>2, <4>1, <4>3, <4>4, <4>5 DEF StageInv, UpTo, On
        <3>4. QED
            BY <1>0, <2>1, <2>2, <2>4, <3>1, <3>2, <3>3
    <2>7. QED
        BY <2>5, <2>6
<1>6. CASE ReceiveNothing
    BY <1>0, <1>6 DEF ReceiveNothing, VerdictInv, NoVerdict, GarbledInv, StageInv, UpTo, On
<1>7. CASE Disconnected
    <2>1. channel = <<>> /\ reader = "ended" /\ pc = "recv" /\ pc' = "done"
          /\ result' = "qemu_exited"
          /\ UNCHANGED <<qemu, pipe, partial, verdict, reached, garbled, channel, reader>>
        BY <1>7 DEF Disconnected
    <2>2. pipe \in Seq(Line) /\ Len(pipe) \in Nat /\ (pipe # <<>> => Len(pipe) > 0)
          /\ Len(<<>>) = 0
        BY EmptySeq DEF TypeOK
    <2>3. IF pipe = <<>> THEN qemu # "running" ELSE "garbled" \in pipe[1]
        BY <2>1
    <2>4. ExitLosesNoVerdict'
        <3>1. CASE verdict = "none"
            BY <2>1, <3>1
        <3>2. CASE verdict # "none"
            <4>1. PICK i \in 1..Len(pipe) : First(pipe, i, verdict)
                BY <2>1, <2>2, <3>2 DEF VerdictInv
            <4>2. 1 \in 1..i /\ "garbled" \in pipe[1] /\ VerdictOn(pipe[i]) = verdict
                BY <2>2, <2>3, <4>1 DEF First
            <4>3. QED
                BY <2>1, <4>1, <4>2
        <3>3. QED
            BY <3>1, <3>2
    <2>5. garbled \/ qemu # "running"
        BY <2>2, <2>3 DEF GarbledInv
    <2>6. QED
        BY <1>0, <2>1, <2>4, <2>5 DEF VerdictInv, GarbledInv, StageInv
<1>8. ASSUME NEW t \in Texts, GuestPrintsLine(t)
      PROVE  IInv'
    <2>1. partial \cup {t} \in Line /\ (t = "garbled" <=> "garbled" \in partial \cup {t})
        BY DEF TypeOK, Line, Prompts
    <2>2. VerdictInv' /\ GarbledInv' /\ StageInv' /\ VerdictIsFirst'
        BY <1>8, <2>1, Written DEF GuestPrintsLine
    <2>3. pipe' # <<>> /\ (pipe # <<>> => pipe'[1] = pipe[1])
        BY <1>8, <2>1, AppendLine, EmptySeq DEF GuestPrintsLine, TypeOK
    <2>4. qemu = "running" /\ UNCHANGED <<qemu, reader, pc, result>> /\ (garbled => garbled')
        BY <1>8 DEF GuestPrintsLine
    <2>5. ExitLosesNoVerdict'
        <3>1. pipe # <<>> \/ result # "qemu_exited"
            BY <2>4
        <3>2. QED
            BY <1>8, <2>1, <3>1, Written DEF GuestPrintsLine
    <2>6. QED
        BY <1>0, <2>2, <2>3, <2>4, <2>5
<1>9. ASSUME NEW t \in Prompts, GuestPrompts(t)
      PROVE  IInv'
    BY <1>0, <1>9 DEF GuestPrompts, VerdictInv, NoVerdict, GarbledInv, StageInv, UpTo, On
<1>10. CASE QemuExits
    <2>1. partial \in Line /\ "garbled" \notin partial
        BY DEF TypeOK, Line, Prompts
    <2>2. qemu' = "exited" /\ UNCHANGED <<garbled, reader, channel, pc, stage, result>>
        BY <1>10 DEF QemuExits
    <2>3. CASE partial # {}
        <3>1. VerdictInv' /\ GarbledInv' /\ StageInv' /\ VerdictIsFirst'
            BY <1>10, <2>1, <2>2, <2>3, Written DEF QemuExits
        <3>2. pipe' # <<>> /\ (pipe # <<>> => pipe'[1] = pipe[1])
            BY <1>10, <2>1, <2>3, AppendLine, EmptySeq DEF QemuExits, TypeOK
        <3>3. qemu = "running"
            BY <1>10 DEF QemuExits
        <3>4. ExitLosesNoVerdict'
            <4>1. pipe # <<>> \/ result # "qemu_exited"
                BY <3>3
            <4>2. QED
                BY <1>10, <2>1, <2>2, <2>3, <4>1, Written DEF QemuExits
        <3>5. QED
            BY <1>0, <2>2, <3>1, <3>2, <3>3, <3>4
    <2>4. CASE partial = {}
        <3>1. UNCHANGED <<pipe, verdict>>
            BY <1>10, <2>4, Verdicts DEF QemuExits, Wrote
        <3>2. UNCHANGED reached
            BY <1>10, <2>4, LaterIsMax DEF QemuExits, Wrote, TypeOK
        <3>3. VerdictInv'
            BY <2>2, <3>1 DEF VerdictInv, NoVerdict, First
        <3>4. GarbledInv'
            BY <2>2, <3>1 DEF GarbledInv
        <3>5. StageInv'
            BY <2>2, <3>1, <3>2 DEF StageInv, UpTo, On
        <3>6. qemu = "running"
            BY <1>10 DEF QemuExits
        <3>7. EndInv' /\ VerdictIsFirst' /\ ExitLosesNoVerdict' /\ NoQemuLeftBehind'
            BY <2>2, <3>1, <3>6
        <3>8. QED
            BY <1>0, <3>3, <3>4, <3>5, <3>7
    <2>5. QED
        BY <2>3, <2>4
<1>11. CASE ReaderSends
    <2>1. /\ pipe \in Seq(Line) /\ pipe # <<>> /\ channel \in Seq(Line) /\ Len(pipe) \in Nat
          /\ "garbled" \notin Head(pipe) /\ pipe' = Tail(pipe)
        BY <1>11 DEF ReaderSends, TypeOK
    <2>2. UNCHANGED <<qemu, partial, verdict, reached, garbled, pc, stage, result>>
        BY <1>11 DEF ReaderSends
    <2>3. GarbledInv'
        <3>1. ASSUME NEW i \in 1..Len(pipe), "garbled" \in pipe[i]
              PROVE  \E k \in 1..Len(Tail(pipe)) : "garbled" \in Tail(pipe)[k]
            <4>1. i # 1
                BY <2>1, <3>1, TakeLine
            <4>2. i - 1 \in 1..Len(Tail(pipe)) /\ Tail(pipe)[i - 1] = pipe[i]
                BY <2>1, <4>1, TakeLine
            <4>3. QED
                BY <3>1, <4>2
        <3>2. ASSUME NEW k \in 1..Len(Tail(pipe)), "garbled" \in Tail(pipe)[k]
              PROVE  \E i \in 1..Len(pipe) : "garbled" \in pipe[i]
            <4>1. k + 1 \in 1..Len(pipe) /\ Tail(pipe)[k] = pipe[k + 1]
                BY <2>1, TakeLine
            <4>2. QED
                BY <3>2, <4>1
        <3>3. QED
            BY <2>1, <2>2, <3>1, <3>2 DEF GarbledInv
    <2>4. CASE pc = "done"
        <3>1. result # "qemu_exited"
            BY <1>11 DEF ReaderSends
        <3>2. QED
            BY <1>0, <2>2, <2>3, <2>4, <3>1 DEF VerdictInv, StageInv
    <2>5. CASE pc # "done"
        <3> DEFINE c == Append(channel, Head(pipe))
        <3>1. channel' = c /\ reader' = "reading"
            BY <1>11, <2>5 DEF ReaderSends
        <3>2. Head(pipe) \in Line /\ Head(pipe) = pipe[1] /\ Len(pipe) > 0
            BY <2>1, TakeLine
        <3>3. VerdictInv'
            <4>1. CASE verdict = "none"
                <5>1. VerdictOn(Head(pipe)) = "none"
                    BY <2>1, <2>5, <4>1, TakeLine DEF VerdictInv
                <5>2. NoVerdict(c)
                    BY <2>1, <2>5, <3>2, <4>1, <5>1, AppendLine DEF VerdictInv
                <5>3. NoVerdict(Tail(pipe))
                    BY <2>1, <2>5, <4>1, TakeLine DEF VerdictInv
                <5>4. QED
                    BY <2>1, <2>2, <3>1, <4>1, <5>2, <5>3 DEF VerdictInv
            <4>2. CASE \E i \in 1..Len(channel) : verdict # "none" /\ First(channel, i, verdict)
                <5>1. PICK i \in 1..Len(channel) : verdict # "none" /\ First(channel, i, verdict)
                    BY <4>2
                <5>2. First(c, i, verdict) /\ i \in 1..Len(c)
                    BY <2>1, <3>2, <5>1, AppendLine
                <5>3. QED
                    BY <2>2, <3>1, <5>1, <5>2 DEF VerdictInv
            <4>3. ASSUME verdict # "none", NoVerdict(channel),
                         NEW i \in 1..Len(pipe), First(pipe, i, verdict)
                  PROVE  VerdictInv'
                <5>1. CASE i = 1
                    <6>1. VerdictOn(Head(pipe)) = verdict
                        BY <3>2, <4>3, <5>1 DEF First
                    <6>2. First(c, Len(channel) + 1, verdict) /\ Len(channel) + 1 \in 1..Len(c)
                        BY <2>1, <3>2, <4>3, <6>1, AppendLine
                    <6>3. QED
                        BY <2>2, <3>1, <4>3, <6>2 DEF VerdictInv
                <5>2. CASE i # 1
                    <6>1. VerdictOn(Head(pipe)) = "none" /\ i - 1 \in 1..Len(Tail(pipe))
                          /\ First(Tail(pipe), i - 1, verdict)
                        BY <2>1, <4>3, <5>2, TakeLine
                    <6>2. NoVerdict(c)
                        BY <2>1, <3>2, <4>3, <6>1, AppendLine
                    <6>3. QED
                        BY <2>1, <2>2, <3>1, <4>3, <6>1, <6>2 DEF VerdictInv
                <5>3. QED
                    BY <5>1, <5>2
            <4>4. QED
                BY <2>5, <4>1, <4>2, <4>3 DEF VerdictInv
        <3>4. StageInv'
            <4>1. /\ stage <= reached /\ UpTo(channel, reached) /\ UpTo(pipe, reached)
                  /\ stage = reached \/ On(channel, reached) \/ On(pipe, reached)
                BY <2>5 DEF StageInv
            <4>2. UpTo(Tail(pipe), reached) /\ UpTo(c, reached)
                BY <2>1, <3>2, <4>1, TakeLine, AppendLine
            <4>3. stage = reached \/ On(c, reached) \/ On(Tail(pipe), reached)
                BY <2>1, <3>2, <4>1, TakeLine, AppendLine
            <4>4. QED
                BY <2>1, <2>2, <3>1, <4>1, <4>2, <4>3 DEF StageInv
        <3>5. pc # "start"
            BY <1>11 DEF ReaderSends
        <3>6. EndInv' /\ VerdictIsFirst' /\ ExitLosesNoVerdict' /\ NoQemuLeftBehind'
            BY <2>2, <2>5, <3>1, <3>5
        <3>7. QED
            BY <1>0, <2>3, <3>3, <3>4, <3>6
    <2>6. QED
        BY <2>4, <2>5
<1>12. CASE ReaderEnds
    <2>1. UNCHANGED <<qemu, pipe, partial, verdict, reached, garbled, channel, pc, stage, result>>
        BY <1>12 DEF ReaderEnds
    <2>2. IF pipe = <<>> THEN qemu # "running" ELSE "garbled" \in pipe[1]
        BY <1>12, TakeLine DEF ReaderEnds, TypeOK
    <2>3. pc # "start" /\ reader' = "ended"
        BY <1>12 DEF ReaderEnds
    <2>4. QED
        BY <1>0, <2>1, <2>2, <2>3 DEF VerdictInv, NoVerdict, GarbledInv, StageInv, UpTo, On
<1>13. CASE Tick
    BY <1>0, <1>13 DEF Tick, VerdictInv, NoVerdict, GarbledInv, StageInv, UpTo, On
<1>14. CASE UNCHANGED vars
    BY <1>14, <1>0 DEF VerdictInv, NoVerdict, First, GarbledInv, StageInv, UpTo, On
<1> HIDE DEF IInv
<1>15. QED
    BY <1>1, <1>2, <1>3, <1>4, <1>5, <1>6, <1>7, <1>8, <1>9, <1>10, <1>11, <1>12, <1>13, <1>14
       DEF Next, MainLoop

(* The invariant holds in every state that test_iso can reach.             *)
LEMMA IInvHolds == Spec => []IInv
<1>1. Init => IInv
    BY InitIInv
<1>2. IInv /\ [Next]_vars => IInv'
    BY NextIInv
<1>3. QED
    BY <1>1, <1>2, PTL DEF Spec

(* The variables of the guest, the reader thread and the loop of test_iso  *)
(* stay within their types.                                                *)
THEOREM TypeCorrect == Spec => []TypeOK
<1>1. IInv => TypeOK
    BY DEF IInv
<1>2. QED
    BY <1>1, IInvHolds, PTL

(* What test_iso returns as Ok or BOOT FAILED is what the first line with  *)
(* a pattern says, however lines are queued between guest and loop.        *)
THEOREM VerdictOfFirstLine == Spec => []VerdictIsFirst
<1>1. IInv => VerdictIsFirst
    BY DEF IInv
<1>2. QED
    BY <1>1, IInvHolds, PTL

(* When test_iso finds the channel disconnected and reports that QEMU has  *)
(* exited, the guest has written no line with a pattern, but for lines     *)
(* that nobody could read.                                                 *)
THEOREM NoVerdictLostAtExit == Spec => []ExitLosesNoVerdict
<1>1. IInv => ExitLosesNoVerdict
    BY DEF IInv
<1>2. QED
    BY <1>1, IInvHolds, PTL

(* On every way out of test_iso the child process is gone, as long as the  *)
(* reader thread was not ended by output that is not UTF-8.                *)
THEOREM QemuIsGone == Spec => []NoQemuLeftBehind
<1>1. IInv => NoQemuLeftBehind
    BY DEF IInv
<1>2. QED
    BY <1>1, IInvHolds, PTL

(* The stage in the error of a stall is the last one that the guest's      *)
(* output shows, when neither pipe nor channel holds a line.               *)
THEOREM StallStage == Spec => StallNamesStage
<1>1. ASSUME IInv, [Next]_vars
      PROVE  [ReportsStall /\ pipe = <<>> /\ channel = <<>> => stage = reached]_vars
    <2> SUFFICES ASSUME ReportsStall, pipe = <<>>, channel = <<>>
                 PROVE  stage = reached
        OBVIOUS
    <2>1. pc = "check"
        BY <1>1 DEF ReportsStall, Next, MainLoop, Spawn, CheckTimeout, CheckStall, CheckPasses,
           Receive,
                    ReceiveNothing, Disconnected, GuestPrintsLine, GuestPrompts, QemuExits, ReaderSends,
                    ReaderEnds, Tick
    <2>2. Len(<<>>) = 0
        BY EmptySeq
    <2>3. QED
        BY <1>1, <2>1, <2>2 DEF IInv, StageInv, On
<1>2. QED
    BY <1>1, IInvHolds, PTL DEF Spec, StallNamesStage
=============================================================================
