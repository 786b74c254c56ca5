-------------------------- MODULE Qm35ProbeProofs --------------------------
(***************************************************************************)
(* Proofs about Qm35Probe: what qm35_probe and qm35_remove promise about   *)
(* the parts of the driver, and what the control calls between them        *)
(* promise about the bus, the interrupt and the power, when one control    *)
(* call is made at a time.                                                 *)
(***************************************************************************)
EXTENDS Qm35Probe, SequenceTheorems, TLAPS

\* Nothing in qm35-spi.c excludes two control calls from each other (the run
\* driver_race); the theorems about them are for one caller at a time.
OneCaller == \A c, d \in Callers : c = d

-----------------------------------------------------------------------------
(***************************************************************************)
(* The control calls.                                                      *)
(***************************************************************************)

\* The places of a call between the state change of hsspi_stop and the one of
\* hsspi_start.
Off == {"fence", "disable", "work", "regulate", "assert", "deassert", "bus",
        "restore", "boot", "enable", "start"}

\* A call in the middle has HSSPI stopped, unless it has yet to stop it.
CallsStop ==
  \A c \in Callers : /\ cpc[c] \in Off => state = "STOPPED"
                     /\ cpc[c] = "stop" => state = "RUNNING"

\* The thread is on the bus only while HSSPI runs, or while hsspi_stop waits.
BusIsOwned ==
  tpc # "idle" =>
    \/ state = "RUNNING"
    \/ \E c \in Callers : cpc[c] = "fence"
    \/ phase = "remove" /\ Step("stopped")

\* The ss_rdy interrupt is disabled at most once, by a call that has stopped
\* HSSPI, and enabled again before the next start.
IrqIsBalanced ==
  /\ rdy_depth \in 0..1
  /\ rdy_depth = 1 =>
       /\ state = "STOPPED"
       /\ \A c \in Callers : cpc[c] \notin {"stop", "fence", "disable", "start"}

\* The system sleeps with HSSPI stopped, and only resume runs.
SleepIsStopped ==
  suspended =>
    /\ state = "STOPPED"
    /\ \A c \in Callers :
         cpc[c] = "idle" \/ (cpc[c] = "boot" /\ op[c] = "resume")

\* Between the exchange of the flag and the switch of the regulators the flag
\* is ahead of the use count; at any other time they agree, but for what the
\* regulators refused to do.
PowerAgrees ==
  /\ (\A c \in Callers : cpc[c] # "regulate") =>
       /\ HasRegulators /\ regulators_enabled /\ ~enable_failed => reg_count >= 1
       /\ reg_count <= (IF HasRegulators /\ regulators_enabled THEN 1 ELSE 0)
                       + disable_fails
  /\ \A c \in Callers : cpc[c] = "regulate" =>
       /\ HasRegulators
       /\ \/ op[c] = "on"  /\ regulators_enabled
             /\ reg_count <= disable_fails
          \/ op[c] = "off" /\ ~regulators_enabled
             /\ reg_count <= 1 + disable_fails

CallInv ==
  CallsStop /\ BusIsOwned /\ IrqIsBalanced /\ SleepIsStopped /\ PowerAgrees

-----------------------------------------------------------------------------
(***************************************************************************)
(* The steps of a probe and of an undoing.                                 *)
(***************************************************************************)

Parts == {"root", "hsspi", "uci", "debug", "test", "coredump", "log",
          "reg_coredump", "reg_log", "irqs", "misc"}

StepNames == Parts \cup {"power_on", "flash", "power_off", "start", "stop",
                         "stopped"}

RemoveSteps == <<"stop", "stopped">> \o UndoSteps

From(steps, k) == SubSeq(steps, k, Len(steps))

\* What qm35_probe has set up when it is at its step k.
UpBefore(k) == {ProbeSteps[i] : i \in 1..(k - 1)} \cap Parts

\* qm35_probe at its step k: what is set up are the steps before, HSSPI runs
\* once they include the start, and the power is on for the download only.
ProbeAt(k) ==
  /\ todo = From(ProbeSteps, k)
  /\ up = UpBefore(k) /\ ops \subseteq up
  /\ state = "RUNNING" =>
       ~HasRegulators /\ \E i \in 1..(k - 1) : ProbeSteps[i] = "start"
  /\ failed = "none" \/ (failed = "flash" /\ ProbeSteps[k] = "power_off")

\* An undoing at its step k: what the steps before have undone is down, apart
\* from a transport that hsspi_deinit refused to end.
UndoneBefore(k) ==
  /\ "reg_log" \in up => k <= 3
  /\ "reg_coredump" \in up => k <= 4
  /\ "log" \in up => k <= 5
  /\ "coredump" \in up => k <= 6
  /\ "test" \in up => k <= 7
  /\ "debug" \in up => k <= 8
  /\ "uci" \in up => k <= 9
  /\ "root" \in up => k <= 8 \/ failed = "hsspi"
  /\ "hsspi" \in up /\ k > 10 => was_open \/ (failed = "misc" /\ ~HasRegulators)

\* The debugfs files outlive the layers that they reach by two or three steps.
DebugAt(k) ==
  "debug" \in up =>
    /\ "log" \in ops => "log" \in up \/ k \in 6..8
    /\ "coredump" \in ops => "coredump" \in up \/ k \in 7..8

UndoAt(k) ==
  /\ todo = From(RemoveSteps, k)
  /\ UndoneBefore(k)
  /\ DebugAt(k)

\* The parts that are set up have the parts that they use.
Ordered ==
  /\ \A d \in Needs : d[1] \in up => d[2] \in up
  /\ state = "RUNNING" => "hsspi" \in up /\ (phase = "unbound" \/ "irqs" \in up)
  /\ open => "hsspi" \in up

PhaseInv ==
  /\ phase \in {"unbound", "probe", "bound", "unwind", "remove"}
  /\ up \subseteq Parts /\ ops \subseteq {"log", "coredump"}
  /\ phase # "bound" => ~suspended /\ \A c \in Callers : cpc[c] = "idle"
  /\ phase \in {"unbound", "probe"} => rdy_depth = 0
  /\ phase = "bound" => up = Parts /\ failed = "none"
  /\ phase = "probe" => ~open /\ \E k \in 1..Len(ProbeSteps) : ProbeAt(k)
  /\ phase = "unwind" =>
       /\ ~open /\ "misc" \notin up
       /\ state = "RUNNING" => failed = "misc" /\ ~HasRegulators
       /\ \E k \in 3..11 : UndoAt(k)
  /\ phase = "remove" =>
       /\ "misc" \notin up /\ failed = "none"
       /\ open => was_open
       /\ "irqs" \in up
       /\ \E k \in 1..11 : UndoAt(k) /\ (state = "RUNNING" => k = 1)
  /\ phase = "unbound" =>
       /\ up \subseteq {"root", "hsspi"} /\ ~regulators_enabled
       /\ "root" \in up => failed = "hsspi"
       /\ "hsspi" \in up \/ state = "RUNNING" =>
            was_open \/ (failed = "misc" /\ ~HasRegulators)

IInv == TypeOK /\ CallInv /\ Ordered /\ PhaseInv

-----------------------------------------------------------------------------
(***************************************************************************)
(* Facts about the sequences of steps.                                     *)
(***************************************************************************)

\* What is left of a sequence of steps at its step k.
LEMMA FromFacts ==
  ASSUME NEW S, NEW s \in Seq(S), NEW k \in 1..Len(s)
  PROVE  /\ From(s, k) \in Seq(S)
         /\ From(s, k) # <<>>
         /\ Head(From(s, k)) = s[k]
         /\ Tail(From(s, k)) = From(s, k + 1)
         /\ Len(From(s, k)) = Len(s) - k + 1
         /\ \A i \in 1..(Len(s) - k + 1) : From(s, k)[i] = s[k + i - 1]
<1>1. /\ From(s, k) \in Seq(S) /\ From(s, k) # <<>>
      /\ Len(From(s, k)) = Len(s) - k + 1
      /\ \A i \in 1..(Len(s) - k + 1) : From(s, k)[i] = s[k + i - 1]
  <2>1. \A i \in k..Len(s) : s[i] \in S
    BY ElementOfSeq, LenProperties
  <2>2. /\ From(s, k) \in Seq(S)
        /\ Len(From(s, k)) = Len(s) - k + 1
        /\ \A i \in 1..(Len(s) - k + 1) : From(s, k)[i] = s[k + i - 1]
    BY <2>1, SubSeqProperties, LenProperties DEF From
  <2> QED
    BY <2>2, EmptySeq, LenProperties
<1>2. /\ Head(From(s, k)) = s[k]
      /\ Tail(From(s, k)) = From(s, k + 1)
  BY HeadTailOfSubSeq, LenProperties DEF From
<1> QED
  BY <1>1, <1>2

\* A concatenation is its first part, then its second.
LEMMA ConcatFacts ==
  ASSUME NEW S, NEW s \in Seq(S), NEW t \in Seq(S)
  PROVE  /\ s \o t \in Seq(S)
         /\ Len(s) \in Nat /\ Len(t) \in Nat
         /\ Len(s \o t) = Len(s) + Len(t)
         /\ \A i \in 1..Len(s) : (s \o t)[i] = s[i]
         /\ \A i \in 1..Len(t) : (s \o t)[Len(s) + i] = t[i]
<1> DEFINE u == s \o t
<1>1. /\ u \in Seq(S) /\ Len(u) = Len(s) + Len(t)
      /\ \A i \in 1..(Len(s) + Len(t)) :
           u[i] = IF i <= Len(s) THEN s[i] ELSE t[i - Len(s)]
  BY ConcatProperties
<1>2. Len(s) \in Nat /\ Len(t) \in Nat
  BY LenProperties
<1> HIDE DEF u
<1>3. \A i \in 1..Len(s) : u[i] = s[i]
  BY <1>1, <1>2
<1>4. \A i \in 1..Len(t) : u[Len(s) + i] = t[i]
  BY <1>1, <1>2
<1> QED
  BY <1>1, <1>2, <1>3, <1>4 DEF u

\* The first ten steps of qm35_probe are the same with and without a download.
LEMMA ProbeStepsAre ==
  /\ ProbeSteps \in Seq(StepNames)
  /\ ProbeSteps[1] = "root"     /\ ProbeSteps[2] = "hsspi"
  /\ ProbeSteps[3] = "uci"      /\ ProbeSteps[4] = "debug"
  /\ ProbeSteps[5] = "test"     /\ ProbeSteps[6] = "coredump"
  /\ ProbeSteps[7] = "log"      /\ ProbeSteps[8] = "reg_coredump"
  /\ ProbeSteps[9] = "reg_log"  /\ ProbeSteps[10] = "irqs"
  /\ \/ /\ Len(ProbeSteps) = 12
        /\ ProbeSteps[11] = "start" /\ ProbeSteps[12] = "misc"
     \/ /\ Len(ProbeSteps) = 15
        /\ ProbeSteps[11] = "power_on" /\ ProbeSteps[12] = "flash"
        /\ ProbeSteps[13] = "power_off"
        /\ ProbeSteps[14] = "start" /\ ProbeSteps[15] = "misc"
<1> DEFINE a == <<"root", "hsspi", "uci", "debug", "test", "coredump", "log",
                  "reg_coredump", "reg_log", "irqs">>
           b == IF flash_on_probe THEN <<"power_on", "flash", "power_off">>
                                  ELSE <<>>
           c == <<"start", "misc">>
<1>1. /\ a \in Seq(StepNames) /\ Len(a) = 10
      /\ a[1] = "root" /\ a[2] = "hsspi" /\ a[3] = "uci" /\ a[4] = "debug"
      /\ a[5] = "test" /\ a[6] = "coredump" /\ a[7] = "log"
      /\ a[8] = "reg_coredump" /\ a[9] = "reg_log" /\ a[10] = "irqs"
  BY DEF StepNames, Parts
<1>2. /\ b \in Seq(StepNames)
      /\ \/ Len(b) = 0
         \/ Len(b) = 3 /\ b[1] = "power_on" /\ b[2] = "flash"
              /\ b[3] = "power_off"
  <2>1. CASE flash_on_probe
    BY <2>1 DEF StepNames, Parts
  <2>2. CASE ~flash_on_probe
    BY <2>2
  <2> QED
    BY <2>1, <2>2
<1>3. c \in Seq(StepNames) /\ Len(c) = 2 /\ c[1] = "start" /\ c[2] = "misc"
  BY DEF StepNames, Parts
<1>4. ProbeSteps = (a \o b) \o c
  BY DEF ProbeSteps
<1> HIDE DEF a, b, c
<1> DEFINE d == a \o b
<1>5. /\ d \in Seq(StepNames) /\ Len(d) = 10 + Len(b)
      /\ \A i \in 1..10 : d[i] = a[i]
      /\ \A i \in 1..Len(b) : d[10 + i] = b[i]
  <2>1. /\ d \in Seq(StepNames) /\ Len(d) = Len(a) + Len(b)
        /\ \A i \in 1..Len(a) : d[i] = a[i]
        /\ \A i \in 1..Len(b) : d[Len(a) + i] = b[i]
    <3>1. a \in Seq(StepNames) /\ b \in Seq(StepNames)
      BY <1>1, <1>2
    <3> QED
      BY <3>1, ConcatFacts, SMT
  <2> QED
    BY <2>1, <1>1
<1> HIDE DEF d
<1>6. /\ d \o c \in Seq(StepNames) /\ Len(d \o c) = Len(d) + 2
      /\ \A i \in 1..Len(d) : (d \o c)[i] = d[i]
      /\ \A i \in 1..2 : (d \o c)[Len(d) + i] = c[i]
  <2>1. /\ d \o c \in Seq(StepNames) /\ Len(d \o c) = Len(d) + Len(c)
        /\ \A i \in 1..Len(d) : (d \o c)[i] = d[i]
        /\ \A i \in 1..Len(c) : (d \o c)[Len(d) + i] = c[i]
    <3>1. d \in Seq(StepNames) /\ c \in Seq(StepNames)
      BY <1>3, <1>5
    <3> QED
      BY <3>1, ConcatFacts, SMT
  <2> QED
    BY <2>1, <1>3
<1>7. ProbeSteps = d \o c
  BY <1>4 DEF d
<1> DEFINE p == ProbeSteps
<1>8. /\ p \in Seq(StepNames) /\ Len(b) \in Nat
      /\ \A i \in 1..10 : p[i] = a[i]
      /\ \A i \in 1..Len(b) : p[10 + i] = b[i]
      /\ Len(p) = 12 + Len(b)
      /\ p[11 + Len(b)] = c[1]
      /\ p[12 + Len(b)] = c[2]
  <2> HIDE DEF p
  <2>1. Len(b) \in Nat
    BY <1>2
  <2>2. p = d \o c
    BY <1>7 DEF p
  <2>3. p \in Seq(StepNames) /\ Len(p) = Len(d) + 2
    BY <2>2, <1>6
  <2>4. /\ \A i \in 1..Len(d) : p[i] = d[i]
        /\ p[Len(d) + 1] = c[1] /\ p[Len(d) + 2] = c[2]
    BY <2>2, <1>6
  <2>5. \A i \in 1..10 : p[i] = a[i]
    BY <2>1, <2>4, <1>5
  <2>6. \A i \in 1..Len(b) : p[10 + i] = b[i]
    BY <2>1, <2>4, <1>5, SMTT(20)
  <2> QED
    BY <2>1, <2>3, <2>4, <2>5, <2>6, <1>5
<1> HIDE DEF p
<1>9. /\ p[1] = "root" /\ p[2] = "hsspi" /\ p[3] = "uci" /\ p[4] = "debug"
      /\ p[5] = "test" /\ p[6] = "coredump" /\ p[7] = "log"
      /\ p[8] = "reg_coredump" /\ p[9] = "reg_log" /\ p[10] = "irqs"
  BY <1>1, <1>8
<1>10. \/ Len(p) = 12 /\ p[11] = "start" /\ p[12] = "misc"
       \/ /\ Len(p) = 15 /\ p[11] = "power_on" /\ p[12] = "flash"
          /\ p[13] = "power_off" /\ p[14] = "start" /\ p[15] = "misc"
  <2>1. CASE Len(b) = 0
    BY <2>1, <1>3, <1>8
  <2>2. CASE Len(b) = 3
    <3>1. b[1] = "power_on" /\ b[2] = "flash" /\ b[3] = "power_off"
      BY <2>2, <1>2
    <3> QED
      BY <2>2, <3>1, <1>3, <1>8
  <2> QED
    BY <2>1, <2>2, <1>2
<1> QED
  BY <1>8, <1>9, <1>10 DEF p

\* The labels of qm35_probe, and qm35_remove, which stops HSSPI first.
LEMMA RemoveStepsAre ==
  /\ UndoSteps \in Seq(StepNames) /\ Len(UndoSteps) = 9
  /\ RemoveSteps \in Seq(StepNames) /\ Len(RemoveSteps) = 11
  /\ RemoveSteps[1] = "stop"     /\ RemoveSteps[2] = "stopped"
  /\ RemoveSteps[3] = "reg_log"  /\ RemoveSteps[4] = "reg_coredump"
  /\ RemoveSteps[5] = "log"      /\ RemoveSteps[6] = "coredump"
  /\ RemoveSteps[7] = "test"     /\ RemoveSteps[8] = "debug"
  /\ RemoveSteps[9] = "uci"      /\ RemoveSteps[10] = "hsspi"
  /\ RemoveSteps[11] = "power_off"
  /\ \A i \in 1..9 : RemoveSteps[i + 2] = UndoSteps[i]
<1>1. UndoSteps \in Seq(StepNames) /\ Len(UndoSteps) = 9
  BY DEF UndoSteps, StepNames, Parts
<1>2. /\ UndoSteps[1] = "reg_log" /\ UndoSteps[2] = "reg_coredump"
      /\ UndoSteps[3] = "log" /\ UndoSteps[4] = "coredump"
      /\ UndoSteps[5] = "test" /\ UndoSteps[6] = "debug"
      /\ UndoSteps[7] = "uci" /\ UndoSteps[8] = "hsspi"
      /\ UndoSteps[9] = "power_off"
  BY DEF UndoSteps
<1> DEFINE a == <<"stop", "stopped">>
<1>3. a \in Seq(StepNames) /\ Len(a) = 2 /\ a[1] = "stop" /\ a[2] = "stopped"
  BY DEF StepNames, Parts
<1>4. RemoveSteps = a \o UndoSteps
  BY DEF RemoveSteps
<1> HIDE DEF a
<1>5. /\ RemoveSteps \in Seq(StepNames) /\ Len(RemoveSteps) = 11
      /\ \A i \in 1..2 : RemoveSteps[i] = a[i]
      /\ \A i \in 1..9 : RemoveSteps[2 + i] = UndoSteps[i]
  <2>1. /\ RemoveSteps \in Seq(StepNames)
        /\ Len(RemoveSteps) = Len(a) + Len(UndoSteps)
        /\ \A i \in 1..Len(a) : RemoveSteps[i] = a[i]
        /\ \A i \in 1..Len(UndoSteps) : RemoveSteps[Len(a) + i] = UndoSteps[i]
    <3>1. a \in Seq(StepNames) /\ UndoSteps \in Seq(StepNames)
      BY <1>1, <1>3
    <3> QED
      BY <3>1, <1>4, ConcatFacts, SMT
  <2> QED
    BY <2>1, <1>1, <1>3
<1>6. RemoveSteps[1] = "stop" /\ RemoveSteps[2] = "stopped"
  BY <1>3, <1>5
<1>7. /\ RemoveSteps[3] = UndoSteps[1] /\ RemoveSteps[4] = UndoSteps[2]
      /\ RemoveSteps[5] = UndoSteps[3] /\ RemoveSteps[6] = UndoSteps[4]
      /\ RemoveSteps[7] = UndoSteps[5] /\ RemoveSteps[8] = UndoSteps[6]
      /\ RemoveSteps[9] = UndoSteps[7] /\ RemoveSteps[10] = UndoSteps[8]
      /\ RemoveSteps[11] = UndoSteps[9]
  BY <1>5
<1>8. \A i \in 1..9 : RemoveSteps[i + 2] = UndoSteps[i]
  BY <1>5
<1> QED
  BY <1>1, <1>2, <1>5, <1>6, <1>7, <1>8

\* A jump to a label leaves the steps of qm35_remove from there on.
LEMMA UndoFromIs ==
  /\ UndoFrom("reg_log") = 1
  /\ UndoFrom("coredump") = 4
  /\ UndoFrom("uci") = 7
  /\ UndoFrom("power_off") = 9
  /\ \A k \in 1..9 :
       SubSeq(UndoSteps, k, Len(UndoSteps)) = From(RemoveSteps, k + 2)
<1>1. \A l \in StepNames, k \in 1..9 :
        UndoSteps[k] = l /\ (\A i \in 1..9 : UndoSteps[i] = l => i = k)
          => UndoFrom(l) = k
  BY RemoveStepsAre DEF UndoFrom
<1>2. /\ UndoFrom("reg_log") = 1 /\ UndoFrom("coredump") = 4
      /\ UndoFrom("uci") = 7 /\ UndoFrom("power_off") = 9
  BY <1>1 DEF UndoSteps, StepNames, Parts
<1>3. ASSUME NEW k \in 1..9
      PROVE  SubSeq(UndoSteps, k, Len(UndoSteps)) = From(RemoveSteps, k + 2)
  <2>1. /\ From(RemoveSteps, k + 2) \in Seq(StepNames)
        /\ Len(From(RemoveSteps, k + 2)) = 10 - k
        /\ \A i \in 1..(10 - k) :
             From(RemoveSteps, k + 2)[i] = RemoveSteps[k + i - 1 + 2]
    <3> DEFINE j == k + 2
    <3>1. RemoveSteps \in Seq(StepNames) /\ j \in 1..Len(RemoveSteps)
      BY RemoveStepsAre
    <3>2. /\ From(RemoveSteps, j) \in Seq(StepNames)
          /\ Len(From(RemoveSteps, j)) = Len(RemoveSteps) - j + 1
          /\ \A i \in 1..(Len(RemoveSteps) - j + 1) :
               From(RemoveSteps, j)[i] = RemoveSteps[j + i - 1]
      BY <3>1, FromFacts, Zenon
    <3> QED
      BY <3>2, RemoveStepsAre
  <2>2. /\ From(UndoSteps, k) \in Seq(StepNames)
        /\ Len(From(UndoSteps, k)) = 10 - k
        /\ \A i \in 1..(10 - k) : From(UndoSteps, k)[i] = UndoSteps[k + i - 1]
    <3>1. UndoSteps \in Seq(StepNames) /\ k \in 1..Len(UndoSteps)
      BY RemoveStepsAre
    <3>2. /\ From(UndoSteps, k) \in Seq(StepNames)
          /\ Len(From(UndoSteps, k)) = Len(UndoSteps) - k + 1
          /\ \A i \in 1..(Len(UndoSteps) - k + 1) :
               From(UndoSteps, k)[i] = UndoSteps[k + i - 1]
      BY <3>1, FromFacts, Zenon
    <3> QED
      BY <3>2, RemoveStepsAre
  <2>3. \A i \in 1..(10 - k) : RemoveSteps[k + i - 1 + 2] = UndoSteps[k + i - 1]
    BY RemoveStepsAre
  <2>4. From(UndoSteps, k) = From(RemoveSteps, k + 2)
    <3> DEFINE r == From(RemoveSteps, k + 2)
               u == From(UndoSteps, k)
    <3>1. /\ r \in Seq(StepNames) /\ u \in Seq(StepNames) /\ Len(u) = Len(r)
          /\ Len(u) = 10 - k
      BY <2>1, <2>2
    <3>2. \A i \in 1..Len(u) : u[i] = r[i]
      BY <2>1, <2>2, <2>3
    <3> QED
      BY <3>1, <3>2, SeqEqual, Zenon
  <2> QED
    BY <2>4 DEF From
<1> QED
  BY <1>2, <1>3

\* Where in the probe a step is.
LEMMA ProbePlace ==
  ASSUME NEW k \in 1..Len(ProbeSteps)
  PROVE  /\ ProbeSteps[k] = "root" => k = 1
         /\ ProbeSteps[k] = "hsspi" => k = 2
         /\ ProbeSteps[k] = "uci" => k = 3
         /\ ProbeSteps[k] = "debug" => k = 4
         /\ ProbeSteps[k] = "test" => k = 5
         /\ ProbeSteps[k] = "coredump" => k = 6
         /\ ProbeSteps[k] = "log" => k = 7
         /\ ProbeSteps[k] = "reg_coredump" => k = 8
         /\ ProbeSteps[k] = "reg_log" => k = 9
         /\ ProbeSteps[k] = "irqs" => k = 10
         /\ ProbeSteps[k] \in {"power_on", "flash", "power_off", "start", "misc"}
              => k > 10
         /\ ProbeSteps[k] \in {"power_on", "power_off"} => k < Len(ProbeSteps) - 1
         /\ ProbeSteps[k] = "start" => k = Len(ProbeSteps) - 1
         /\ ProbeSteps[k] = "misc" <=> k = Len(ProbeSteps)
         /\ ProbeSteps[k] = "flash" =>
              k + 1 \in 1..Len(ProbeSteps) /\ ProbeSteps[k + 1] = "power_off"
<1> DEFINE n == Len(ProbeSteps)
<1>1. n \in {12, 15} /\ k \in 1..n
  BY ProbeStepsAre
<1>2. CASE k <= 10
  <2>1. k \in 1..10 /\ k # n
    <3> HIDE DEF n
    <3> QED
      BY <1>1, <1>2
  <2>2. \/ k = 1 \/ k = 2 \/ k = 3 \/ k = 4 \/ k = 5
        \/ k = 6 \/ k = 7 \/ k = 8 \/ k = 9 \/ k = 10
    BY <2>1
  <2> QED
    BY <2>1, <2>2, ProbeStepsAre
<1>3. CASE k > 10
  <2>1. \/ n = 12 /\ (k = 11 \/ k = 12)
        \/ n = 15 /\ (k = 11 \/ k = 12 \/ k = 13 \/ k = 14 \/ k = 15)
    <3> HIDE DEF n
    <3> QED
      BY <1>1, <1>3
  <2>2. CASE n = 12
    BY <2>1, <2>2, ProbeStepsAre
  <2>3. CASE n = 15
    BY <2>1, <2>3, ProbeStepsAre
  <2> QED
    BY <1>1, <2>2, <2>3
<1> QED
  BY <1>1, <1>2, <1>3

\* A part is up from its step on.
LEMMA UpBeforeIs ==
  ASSUME NEW k \in 1..Len(ProbeSteps)
  PROVE  /\ UpBefore(k) \subseteq Parts
         /\ "root" \in UpBefore(k) <=> k > 1
         /\ "hsspi" \in UpBefore(k) <=> k > 2
         /\ "uci" \in UpBefore(k) <=> k > 3
         /\ "debug" \in UpBefore(k) <=> k > 4
         /\ "test" \in UpBefore(k) <=> k > 5
         /\ "coredump" \in UpBefore(k) <=> k > 6
         /\ "log" \in UpBefore(k) <=> k > 7
         /\ "reg_coredump" \in UpBefore(k) <=> k > 8
         /\ "reg_log" \in UpBefore(k) <=> k > 9
         /\ "irqs" \in UpBefore(k) <=> k > 10
         /\ "misc" \notin UpBefore(k)
<1>1. Len(ProbeSteps) \in {12, 15}
  BY ProbeStepsAre
<1>2. ASSUME NEW x \in Parts
      PROVE  x \in UpBefore(k) <=> \E i \in 1..(k - 1) : ProbeSteps[i] = x
  BY DEF UpBefore
<1>3. \A i \in 1..(k - 1) : i \in 1..Len(ProbeSteps) /\ i # Len(ProbeSteps)
  BY <1>1
<1>4. \A i \in 1..10 : i < k <=> i \in 1..(k - 1)
  BY <1>1
<1>5. /\ "root" \in UpBefore(k) <=> k > 1
      /\ "hsspi" \in UpBefore(k) <=> k > 2
      /\ "uci" \in UpBefore(k) <=> k > 3
      /\ "debug" \in UpBefore(k) <=> k > 4
      /\ "test" \in UpBefore(k) <=> k > 5
  BY <1>1, <1>2, <1>3, <1>4, ProbePlace, ProbeStepsAre DEF Parts
<1>6. /\ "coredump" \in UpBefore(k) <=> k > 6
      /\ "log" \in UpBefore(k) <=> k > 7
      /\ "reg_coredump" \in UpBefore(k) <=> k > 8
      /\ "reg_log" \in UpBefore(k) <=> k > 9
      /\ "irqs" \in UpBefore(k) <=> k > 10
  BY <1>1, <1>2, <1>3, <1>4, ProbePlace, ProbeStepsAre DEF Parts
<1>7. "misc" \notin UpBefore(k)
  BY <1>2, <1>3, ProbePlace DEF Parts
<1>8. UpBefore(k) \subseteq Parts
  BY DEF UpBefore
<1> QED
  BY <1>5, <1>6, <1>7, <1>8

\* The step itself joins what is up, when it sets a part up.
LEMMA UpBeforeNext ==
  ASSUME NEW k \in 1..Len(ProbeSteps)
  PROVE  UpBefore(k + 1) = UpBefore(k) \cup ({ProbeSteps[k]} \cap Parts)
<1>1. Len(ProbeSteps) \in {12, 15}
  BY ProbeStepsAre
<1>2. 1..(k + 1 - 1) = 1..(k - 1) \cup {k}
  BY <1>1
<1> QED
  BY <1>2 DEF UpBefore

\* Where in the undoing a step is.
LEMMA RemovePlace ==
  ASSUME NEW k \in 1..11
  PROVE  /\ RemoveSteps[k] = "stop" <=> k = 1
         /\ RemoveSteps[k] = "stopped" <=> k = 2
         /\ RemoveSteps[k] = "reg_log" <=> k = 3
         /\ RemoveSteps[k] = "reg_coredump" <=> k = 4
         /\ RemoveSteps[k] = "log" <=> k = 5
         /\ RemoveSteps[k] = "coredump" <=> k = 6
         /\ RemoveSteps[k] = "test" <=> k = 7
         /\ RemoveSteps[k] = "debug" <=> k = 8
         /\ RemoveSteps[k] = "uci" <=> k = 9
         /\ RemoveSteps[k] = "hsspi" <=> k = 10
         /\ RemoveSteps[k] = "power_off" <=> k = 11
  BY RemoveStepsAre

-----------------------------------------------------------------------------
(***************************************************************************)
(* The control calls keep their invariant.                                 *)
(***************************************************************************)

\* The types, through every step of a control call.
LEMMA CallKeepsTypes ==
  ASSUME TypeOK, CallInv, OneCaller, NEW c \in Callers, Call(c)
  PROVE  TypeOK'
<1> USE MaxRegFailsAssumption
    DEF TypeOK, CallInv, IrqIsBalanced, PowerAgrees, Ops, CallerPcs,
        DevStates, Goto, callerVars, chipVars, powerVars, countVars
<1>1. CASE \E o \in Ops : qm35_hsspi_stop_check(c, o)
  BY <1>1 DEF qm35_hsspi_stop_check
<1>2. CASE hsspi_stop(c)
  BY <1>2 DEF hsspi_stop
<1>3. CASE hsspi_stop_return(c)
  BY <1>3 DEF hsspi_stop_return
<1>4. CASE qm35_hsspi_stop_disable(c)
  BY <1>4 DEF qm35_hsspi_stop_disable
<1>5. CASE qm35_pm_suspend(c)
  BY <1>5 DEF qm35_pm_suspend
<1>6. CASE qm_firmware_load(c)
  BY <1>6 DEF qm_firmware_load
<1>7. CASE reset_begin(c)
  BY <1>7 DEF reset_begin, HasRegulators
<1>8. CASE qm35_regulators_set(c)
  BY <1>8 DEF qm35_regulators_set, HasRegulators
<1>9. CASE \E ok \in BOOLEAN : qm35_regulator_set_one(c, ok)
  <2>1. PICK ok \in BOOLEAN : qm35_regulator_set_one(c, ok)
    BY <1>9
  <2>2. /\ cpc[c] = "regulate" /\ regulator_switch(op[c] = "on", ok)
        /\ cpc' = [cpc EXCEPT ![c] = "assert"]
        /\ UNCHANGED <<board, state, rdy_depth, chipVars, regulators_enabled,
                       suspended, tpc, op, saved>>
    BY <2>1 DEF qm35_regulator_set_one
  <2>3. CASE op[c] = "on"
    BY <2>2, <2>3 DEF regulator_switch
  <2>4. CASE op[c] # "on"
    BY <2>2, <2>4 DEF regulator_switch
  <2> QED
    BY <2>3, <2>4
<1>10. CASE qm35_reset_nodev(c)
  BY <1>10 DEF qm35_reset_nodev, AfterReset
<1>11. CASE qm35_reset_assert(c)
  BY <1>11 DEF qm35_reset_assert
<1>12. CASE qm35_reset_deassert(c)
  BY <1>12 DEF qm35_reset_deassert, AfterReset
<1>13. CASE qmrom_init_failed(c)
  BY <1>13 DEF qmrom_init_failed
<1>14. CASE qm_firmware_load_return(c)
  BY <1>14 DEF qm_firmware_load_return
<1>15. CASE qm35_hsspi_start_check(c)
  BY <1>15 DEF qm35_hsspi_start_check
<1>16. CASE qm35_hsspi_start_enable(c)
  BY <1>16 DEF qm35_hsspi_start_enable
<1>17. CASE hsspi_start(c)
  BY <1>17 DEF hsspi_start
<1>18. CASE \E again \in BOOLEAN : qmrom_flash_fw(c, again)
  BY <1>18 DEF qmrom_flash_fw
<1> QED
  BY <1>1, <1>2, <1>3, <1>4, <1>5, <1>6, <1>7, <1>8, <1>9, <1>10, <1>11, <1>12,
     <1>13, <1>14, <1>15, <1>16, <1>17, <1>18 DEF Call, CallRuns

\* A call stops HSSPI before its work and starts it after it; the interrupt,
\* the thread and the regulators follow.
LEMMA CallKeepsInv ==
  ASSUME TypeOK, CallInv, OneCaller, NEW c \in Callers, Call(c),
         phase = "bound", phase' = phase
  PROVE  CallInv'
<1> USE DEF TypeOK, CallInv, CallsStop, BusIsOwned, IrqIsBalanced,
            SleepIsStopped, PowerAgrees, OneCaller, Off, Goto, callerVars,
            chipVars, powerVars, countVars, Ops, HasRegulators
<1>1. CASE \E o \in Ops : qm35_hsspi_stop_check(c, o)
  BY <1>1 DEF qm35_hsspi_stop_check
<1>2. CASE hsspi_stop(c)
  BY <1>2 DEF hsspi_stop
<1>3. CASE hsspi_stop_return(c)
  BY <1>3 DEF hsspi_stop_return
<1>4. CASE qm35_hsspi_stop_disable(c)
  BY <1>4 DEF qm35_hsspi_stop_disable
<1>5. CASE qm35_pm_suspend(c)
  BY <1>5 DEF qm35_pm_suspend
<1>6. CASE qm_firmware_load(c)
  BY <1>6 DEF qm_firmware_load
<1>7. CASE reset_begin(c)
  BY <1>7 DEF reset_begin, HasRegulators
<1>8. CASE qm35_regulators_set(c)
  BY <1>8 DEF qm35_regulators_set, HasRegulators
<1>9. CASE \E ok \in BOOLEAN : qm35_regulator_set_one(c, ok)
  <2>1. PICK ok \in BOOLEAN : qm35_regulator_set_one(c, ok)
    BY <1>9
  <2>2. /\ cpc[c] = "regulate" /\ regulator_switch(op[c] = "on", ok)
        /\ cpc' = [cpc EXCEPT ![c] = "assert"]
        /\ UNCHANGED <<board, state, rdy_depth, chipVars, regulators_enabled,
                       suspended, tpc, op, saved>>
    BY <2>1 DEF qm35_regulator_set_one
  <2>3. CASE op[c] = "on"
    BY <2>2, <2>3 DEF regulator_switch
  <2>4. CASE op[c] # "on"
    BY <2>2, <2>4 DEF regulator_switch
  <2> QED
    BY <2>3, <2>4
<1>10. CASE qm35_reset_nodev(c)
  BY <1>10 DEF qm35_reset_nodev, AfterReset
<1>11. CASE qm35_reset_assert(c)
  BY <1>11 DEF qm35_reset_assert
<1>12. CASE qm35_reset_deassert(c)
  BY <1>12 DEF qm35_reset_deassert, AfterReset
<1>13. CASE qmrom_init_failed(c)
  BY <1>13 DEF qmrom_init_failed
<1>14. CASE qm_firmware_load_return(c)
  BY <1>14 DEF qm_firmware_load_return
<1>15. CASE qm35_hsspi_start_check(c)
  BY <1>15 DEF qm35_hsspi_start_check
<1>16. CASE qm35_hsspi_start_enable(c)
  BY <1>16 DEF qm35_hsspi_start_enable
<1>17. CASE hsspi_start(c)
  BY <1>17 DEF hsspi_start
<1>18. CASE \E again \in BOOLEAN : qmrom_flash_fw(c, again)
  BY <1>18 DEF qmrom_flash_fw
<1> QED
  BY <1>1, <1>2, <1>3, <1>4, <1>5, <1>6, <1>7, <1>8, <1>9, <1>10, <1>11, <1>12,
     <1>13, <1>14, <1>15, <1>16, <1>17, <1>18 DEF Call, CallRuns

-----------------------------------------------------------------------------
(***************************************************************************)
(* The other steps: types and calls.                                       *)
(***************************************************************************)

\* The step of a probe or an undoing that is next.
LEMMA ProbeHead ==
  ASSUME PhaseInv, phase = "probe"
  PROVE  \E k \in 1..Len(ProbeSteps) :
           /\ ProbeAt(k)
           /\ todo # <<>> /\ Head(todo) = ProbeSteps[k]
           /\ Tail(todo) = From(ProbeSteps, k + 1)
<1>1. PICK k \in 1..Len(ProbeSteps) : ProbeAt(k)
  BY DEF PhaseInv
<1>2. ProbeSteps \in Seq(StepNames)
  BY ProbeStepsAre
<1>3. /\ From(ProbeSteps, k) # <<>>
      /\ Head(From(ProbeSteps, k)) = ProbeSteps[k]
      /\ Tail(From(ProbeSteps, k)) = From(ProbeSteps, k + 1)
  BY <1>2, FromFacts, Zenon
<1>4. todo = From(ProbeSteps, k)
  BY <1>1 DEF ProbeAt
<1> QED
  BY <1>1, <1>3, <1>4

LEMMA RemoveHead ==
  ASSUME NEW k \in 1..11, UndoAt(k)
  PROVE  /\ todo # <<>> /\ Head(todo) = RemoveSteps[k]
         /\ Tail(todo) = From(RemoveSteps, k + 1)
<1>1. RemoveSteps \in Seq(StepNames) /\ k \in 1..Len(RemoveSteps)
  BY RemoveStepsAre
<1>2. /\ From(RemoveSteps, k) # <<>>
      /\ Head(From(RemoveSteps, k)) = RemoveSteps[k]
      /\ Tail(From(RemoveSteps, k)) = From(RemoveSteps, k + 1)
  BY <1>1, FromFacts, Zenon
<1> QED
  BY <1>2 DEF UndoAt

\* The power of a probe and of a remove, with its types.
LEMMA PowerStep ==
  ASSUME TypeOK, PowerAgrees, NEW on \in BOOLEAN, SetPower(on),
         \A c \in Callers : cpc[c] = "idle", UNCHANGED <<board, cpc, op>>
  PROVE  /\ regulators_enabled' \in BOOLEAN /\ reg_count' \in Nat
         /\ enable_failed' \in BOOLEAN /\ disable_fails' \in 0..MaxRegFails
         /\ PowerAgrees'
<1> USE MaxRegFailsAssumption DEF TypeOK, PowerAgrees, HasRegulators
<1>0. regulators_enabled' = on
  BY DEF SetPower
<1>1. CASE HasRegulators /\ regulators_enabled # on
  <2>1. PICK ok \in BOOLEAN : regulator_switch(on, ok)
    BY <1>1 DEF SetPower
  <2>2. CASE on
    <3>0. ~regulators_enabled
      BY <1>1, <2>2, Zenon
    <3>1. reg_count \in Nat /\ disable_fails \in Nat /\ reg_count <= disable_fails
      <4>1. \A c \in Callers : cpc[c] # "regulate"
        OBVIOUS
      <4>2. reg_count <= (IF HasRegulators /\ regulators_enabled THEN 1 ELSE 0)
                         + disable_fails
        BY <4>1
      <4> QED
        BY <3>0, <4>2
    <3>2. /\ enable_failed' = ~ok /\ disable_fails' = disable_fails
          /\ reg_count' = IF ok THEN reg_count + 1 ELSE reg_count
      BY <2>1, <2>2 DEF regulator_switch
    <3>3. /\ reg_count' \in Nat /\ reg_count' <= 1 + disable_fails'
          /\ ok => reg_count' >= 1
      <4>1. CASE ok
        BY <3>1, <3>2, <4>1
      <4>2. CASE ~ok
        BY <3>1, <3>2, <4>2
      <4> QED
        BY <4>1, <4>2
    <3>4. ~enable_failed' => reg_count' >= 1
      BY <3>2, <3>3, Zenon
    <3>5. regulators_enabled' = TRUE /\ HasRegulators' = HasRegulators
      BY <1>0, <2>2
    <3>6. PowerAgrees'
      BY <1>1, <3>3, <3>4, <3>5
    <3>7. enable_failed' \in BOOLEAN
      BY <3>2
    <3> QED
      BY <3>2, <3>3, <3>5, <3>6, <3>7
  <2>3. CASE ~on
    BY <1>0, <1>1, <2>1, <2>3 DEF regulator_switch
  <2> QED
    BY <2>2, <2>3
<1>2. CASE ~(HasRegulators /\ regulators_enabled # on)
  BY <1>0, <1>2 DEF SetPower, countVars
<1> QED
  BY <1>1, <1>2

LEMMA TypeStep ==
  ASSUME IInv, OneCaller, [ProbeNext]_allVars
  PROVE  TypeOK'
<1> USE DEF IInv, TypeOK, CallInv, PhaseInv, DevStates, driverVars, probeVars,
            callerVars, chipVars, powerVars, countVars
<1>1. CASE qm35_probe
  BY <1>1 DEF qm35_probe
<1>2. CASE probe_init
  BY <1>2 DEF probe_init
<1>3. CASE probe_power
  <2>1. SetPower(Head(todo) = "power_on") /\ (Head(todo) = "power_on") \in BOOLEAN
    BY <1>3 DEF probe_power
  <2>2. /\ regulators_enabled' \in BOOLEAN /\ reg_count' \in Nat
        /\ enable_failed' \in BOOLEAN /\ disable_fails' \in 0..MaxRegFails
    BY <1>3, <2>1, PowerStep DEF probe_power
  <2> QED
    BY <1>3, <2>2 DEF probe_power
<1>4. CASE probe_start
  BY <1>4 DEF probe_start
<1>5. CASE misc_register
  BY <1>5 DEF misc_register
<1>6. CASE \E ok \in BOOLEAN : probe_flash(ok)
  BY <1>6 DEF probe_flash
<1>7. CASE probe_fails
  BY <1>7 DEF probe_fails
<1>8. CASE qm35_remove
  BY <1>8 DEF qm35_remove
<1>9. CASE remove_hsspi_stop
  BY <1>9 DEF remove_hsspi_stop
<1>10. CASE undo_deinit
  BY <1>10 DEF undo_deinit
<1>11. CASE undo_hsspi_deinit
  BY <1>11 DEF undo_hsspi_deinit
<1>12. CASE undo_poweroff
  <2>1. /\ regulators_enabled' \in BOOLEAN /\ reg_count' \in Nat
        /\ enable_failed' \in BOOLEAN /\ disable_fails' \in 0..MaxRegFails
    BY <1>12, PowerStep DEF undo_poweroff
  <2> QED
    BY <1>12, <2>1 DEF undo_poweroff
<1>13. CASE uci_open
  BY <1>13 DEF uci_open
<1>14. CASE uci_release
  BY <1>14 DEF uci_release
<1>15. CASE ControlCall
  BY <1>15, CallKeepsTypes DEF ControlCall
<1>16. CASE DriverThread
  BY <1>16 DEF DriverThread, ThreadBegin, ThreadEnds, ThreadEnd,
               qm35_reset_hook_assert, qm35_reset_hook_deassert
<1>17. CASE DriverIrq
  BY <1>17 DEF DriverIrq, qm35_irq_handler
<1>18. CASE UNCHANGED allVars
  BY <1>18 DEF allVars
<1> QED
  BY <1>1, <1>2, <1>3, <1>4, <1>5, <1>6, <1>7, <1>8, <1>9, <1>10, <1>11, <1>12,
     <1>13, <1>14, <1>15, <1>16, <1>17, <1>18 DEF ProbeNext, Probing, Undoing

\* No call is under way outside of a bound device: only remove, which stops
\* HSSPI, and the thread touch what the invariant of the calls speaks of.
LEMMA CallInvStep ==
  ASSUME IInv, OneCaller, [ProbeNext]_allVars
  PROVE  CallInv'
<1> USE DEF IInv, TypeOK, CallInv, CallsStop, BusIsOwned, IrqIsBalanced,
            SleepIsStopped, PowerAgrees, Off, HasRegulators, driverVars,
            probeVars, callerVars, chipVars, powerVars, countVars
<1>0. phase # "bound" => ~suspended /\ \A c \in Callers : cpc[c] = "idle"
  BY DEF PhaseInv
<1>1. CASE qm35_probe
  BY <1>0, <1>1 DEF qm35_probe, PhaseInv
<1>2. CASE probe_init
  BY <1>0, <1>2 DEF probe_init
<1>3. CASE probe_power
  <2>1. SetPower(Head(todo) = "power_on") /\ (Head(todo) = "power_on") \in BOOLEAN
    BY <1>3 DEF probe_power
  <2>2. PowerAgrees'
    BY <1>0, <1>3, <2>1, PowerStep DEF probe_power
  <2> QED
    BY <1>0, <1>3, <2>2 DEF probe_power
<1>4. CASE probe_start
  BY <1>0, <1>4 DEF probe_start, PhaseInv
<1>5. CASE misc_register
  BY <1>0, <1>5 DEF misc_register
<1>6. CASE \E ok \in BOOLEAN : probe_flash(ok)
  BY <1>0, <1>6 DEF probe_flash
<1>7. CASE probe_fails
  BY <1>0, <1>7 DEF probe_fails
<1>8. CASE qm35_remove
  BY <1>8 DEF qm35_remove
<1>9. CASE remove_hsspi_stop
  <2>1. PICK k \in 1..11 : UndoAt(k)
    BY <1>9 DEF remove_hsspi_stop, PhaseInv
  <2>2. Step("stop") => Step("stopped")'
    <3>1. SUFFICES ASSUME Step("stop") PROVE Step("stopped")'
      OBVIOUS
    <3>2. k = 1
      BY <2>1, <3>1, RemoveHead, RemovePlace DEF Step
    <3>3. todo' = From(RemoveSteps, 2)
      BY <1>9, <2>1, <3>2, RemoveHead DEF remove_hsspi_stop
    <3>4. RemoveSteps \in Seq(StepNames) /\ 2 \in 1..Len(RemoveSteps)
      BY RemoveStepsAre
    <3>5. From(RemoveSteps, 2) # <<>> /\ Head(From(RemoveSteps, 2)) = RemoveSteps[2]
      BY <3>4, FromFacts, SMT
    <3> QED
      BY <3>3, <3>5, RemoveStepsAre DEF Step
  <2> QED
    BY <1>0, <1>9, <2>2 DEF remove_hsspi_stop
<1>10. CASE undo_deinit
  BY <1>0, <1>10 DEF undo_deinit, Step
<1>11. CASE undo_hsspi_deinit
  BY <1>0, <1>11 DEF undo_hsspi_deinit, Step
<1>12. CASE undo_poweroff
  <2>1. PowerAgrees'
    BY <1>0, <1>12, PowerStep DEF undo_poweroff
  <2> QED
    BY <1>0, <1>12, <2>1 DEF undo_poweroff, Step
<1>13. CASE uci_open
  BY <1>13 DEF uci_open, Step
<1>14. CASE uci_release
  BY <1>14 DEF uci_release, Step
<1>15. CASE ControlCall
  BY <1>15, CallKeepsInv DEF ControlCall
<1>16. CASE DriverThread
  BY <1>0, <1>16 DEF DriverThread, ThreadBegin, ThreadEnds, ThreadEnd,
               qm35_reset_hook_assert, qm35_reset_hook_deassert, Step
<1>17. CASE DriverIrq
  BY <1>17 DEF DriverIrq, qm35_irq_handler, Step
<1>18. CASE UNCHANGED allVars
  BY <1>18 DEF allVars, Step
<1> QED
  BY <1>1, <1>2, <1>3, <1>4, <1>5, <1>6, <1>7, <1>8, <1>9, <1>10, <1>11, <1>12,
     <1>13, <1>14, <1>15, <1>16, <1>17, <1>18 DEF ProbeNext, Probing, Undoing

-----------------------------------------------------------------------------
(***************************************************************************)
(* The other steps: the parts that are up.                                 *)
(***************************************************************************)

\* Nothing the phases speak of has changed.
LEMMA PhaseFrame ==
  ASSUME Ordered, PhaseInv,
         UNCHANGED <<flash_on_probe, probeVars, board, state, suspended, cpc,
                     regulators_enabled, rdy_depth>>
  PROVE  Ordered' /\ PhaseInv'
<1> USE DEF probeVars
<1>1. ProbeSteps' = ProbeSteps /\ HasRegulators' = HasRegulators
  BY DEF ProbeSteps, HasRegulators
<1>2. ASSUME NEW k, ProbeAt(k) PROVE ProbeAt(k)'
  BY <1>1, <1>2 DEF ProbeAt, UpBefore
<1>3. ASSUME NEW k, UndoAt(k) PROVE UndoAt(k)'
  BY <1>1, <1>3 DEF UndoAt, UndoneBefore, DebugAt
<1>4. Ordered'
  BY DEF Ordered
<1>5. PhaseInv'
  BY <1>1, <1>2, <1>3 DEF PhaseInv
<1> QED
  BY <1>4, <1>5

\* A step of a probe that sets up its part.
LEMMA ProbeInitStep ==
  ASSUME Ordered, PhaseInv, probe_init
  PROVE  Ordered' /\ PhaseInv'
<1>1. PICK k \in 1..Len(ProbeSteps) :
        /\ ProbeAt(k)
        /\ todo # <<>> /\ Head(todo) = ProbeSteps[k]
        /\ Tail(todo) = From(ProbeSteps, k + 1)
  BY ProbeHead DEF probe_init
<1>2. PICK s \in {"root", "hsspi", "uci", "debug", "test", "coredump", "log",
                  "reg_coredump", "reg_log", "irqs"} :
        /\ Step(s) /\ up' = up \cup {s}
        /\ ops' = ops \cup ({s} \cap {"log", "coredump"})
  BY DEF probe_init
<1>3. s = ProbeSteps[k] /\ s \in Parts /\ todo' = From(ProbeSteps, k + 1)
  BY <1>1, <1>2 DEF Step, Parts, probe_init
<1>4. k + 1 \in 1..Len(ProbeSteps) /\ k \in 1..10
  BY <1>2, <1>3, ProbePlace, ProbeStepsAre, SMTT(20)
<1>5. up = UpBefore(k) /\ up' = UpBefore(k + 1)
  BY <1>1, <1>2, <1>3, UpBeforeNext DEF ProbeAt
<1>6. ProbeSteps' = ProbeSteps /\ UpBefore(k + 1)' = UpBefore(k + 1)
  BY DEF probe_init, ProbeSteps, UpBefore
<1>7. state = "STOPPED" \/ state # "RUNNING"
  BY <1>1, <1>4, ProbePlace DEF ProbeAt
<1>8. UNCHANGED <<state, phase, open, failed, was_open, board, suspended, cpc,
                  regulators_enabled, rdy_depth>>
  BY DEF probe_init, driverVars, powerVars, callerVars
<1>9. ProbeAt(k + 1)'
  BY <1>1, <1>2, <1>3, <1>5, <1>6, <1>7, <1>8 DEF ProbeAt, From
<1>10. Ordered'
  BY <1>4, <1>5, <1>7, <1>8, UpBeforeIs DEF Ordered, PhaseInv, Needs,
     probe_init
<1>11. PhaseInv'
  <2>1. up' \subseteq Parts /\ ops' \subseteq {"log", "coredump"}
    BY <1>2, <1>4, <1>5, UpBeforeIs DEF PhaseInv
  <2>2. \E j \in 1..Len(ProbeSteps)' : ProbeAt(j)'
    BY <1>4, <1>6, <1>9
  <2> QED
    BY <1>8, <2>1, <2>2 DEF PhaseInv, probe_init
<1> QED
  BY <1>10, <1>11

\* flash_on_probe: the power, the download, and its result.
LEMMA ProbePowerStep ==
  ASSUME Ordered, PhaseInv, probe_power
  PROVE  Ordered' /\ PhaseInv'
<1>1. PICK k \in 1..Len(ProbeSteps) :
        /\ ProbeAt(k)
        /\ todo # <<>> /\ Head(todo) = ProbeSteps[k]
        /\ Tail(todo) = From(ProbeSteps, k + 1)
  BY ProbeHead DEF probe_power
<1>2. ProbeSteps[k] \in {"power_on", "power_off"} /\ k > 10
  BY <1>1, ProbePlace DEF probe_power, Step
<1>3. up = UpBefore(k) /\ up' = up
  BY <1>1 DEF ProbeAt, probe_power
<1>4. UNCHANGED <<state, ops, open, failed, was_open, board, suspended, cpc,
                  rdy_depth>>
  BY DEF probe_power, callerVars
<1>5. up \subseteq Parts /\ "misc" \notin up /\ {"hsspi", "irqs"} \subseteq up
  BY <1>2, <1>3, UpBeforeIs
<1>6. Ordered'
  BY <1>3, <1>4, <1>5 DEF Ordered
<1>7. ProbeSteps' = ProbeSteps /\ HasRegulators' = HasRegulators
  BY DEF probe_power, ProbeSteps, HasRegulators
<1>8. k + 1 \in 1..Len(ProbeSteps) /\ state # "RUNNING"
  <2>1. k < Len(ProbeSteps) - 1 /\ Len(ProbeSteps) \in Nat
    BY <1>2, ProbePlace, ProbeStepsAre
  <2>2. \A i \in 1..(k - 1) : i \in 1..Len(ProbeSteps) /\ i # Len(ProbeSteps) - 1
    BY <2>1
  <2>3. \A i \in 1..(k - 1) : ProbeSteps[i] # "start"
    BY <2>2, ProbePlace
  <2> QED
    BY <1>1, <2>1, <2>3 DEF ProbeAt
<1>9. CASE Step("power_off") /\ failed = "flash"
  <2>1. phase' = "unwind" /\ todo' = From(RemoveSteps, 3)
    <3>1. UndoLabel("flash") = "reg_log"
      BY DEF UndoLabel
    <3>2. UndoFrom(UndoLabel("flash")) = 1
      BY <3>1, UndoFromIs
    <3>3. 1 \in 1..9 /\ 1 + 2 = 3
      OBVIOUS
    <3>4. SubSeq(UndoSteps, 1, Len(UndoSteps)) = From(RemoveSteps, 3)
      BY <3>3, UndoFromIs
    <3>5. /\ phase' = "unwind"
          /\ todo' = SubSeq(UndoSteps, UndoFrom(UndoLabel("flash")),
                            Len(UndoSteps))
      BY <1>9 DEF probe_power
    <3> QED
      BY <3>2, <3>4, <3>5
  <2>2. ops' \subseteq up'
    BY <1>1, <1>3, <1>4 DEF ProbeAt
  <2>3. UndoAt(3)'
    BY <2>1, <2>2 DEF UndoAt, UndoneBefore, DebugAt
  <2> QED
    BY <1>3, <1>4, <1>5, <1>6, <1>8, <2>1, <2>3 DEF PhaseInv, probe_power
<1>10. CASE ~(Step("power_off") /\ failed = "flash")
  <2>1. phase' = phase /\ todo' = From(ProbeSteps, k + 1)
    BY <1>1, <1>10 DEF probe_power
  <2>2. failed = "none"
    BY <1>1, <1>10 DEF ProbeAt, Step
  <2>3. up = UpBefore(k + 1) /\ ops \subseteq up
    BY <1>1, <1>2, <1>3, UpBeforeNext DEF Parts, ProbeAt
  <2>4. ProbeAt(k + 1)'
    BY <1>3, <1>4, <1>7, <1>8, <2>1, <2>2, <2>3 DEF ProbeAt, UpBefore, From
  <2>5. \E j \in 1..Len(ProbeSteps)' : ProbeAt(j)'
    BY <1>7, <1>8, <2>4
  <2> QED
    BY <1>3, <1>4, <1>5, <1>6, <2>1, <2>5 DEF PhaseInv, probe_power
<1> QED
  BY <1>9, <1>10

LEMMA ProbeFlashStep ==
  ASSUME Ordered, PhaseInv, NEW ok \in BOOLEAN, probe_flash(ok)
  PROVE  Ordered' /\ PhaseInv'
<1>1. PICK k \in 1..Len(ProbeSteps) :
        /\ ProbeAt(k)
        /\ todo # <<>> /\ Head(todo) = ProbeSteps[k]
        /\ Tail(todo) = From(ProbeSteps, k + 1)
  BY ProbeHead DEF probe_flash
<1>2. ProbeSteps[k] = "flash"
  BY <1>1 DEF probe_flash, Step
<1>3. k + 1 \in 1..Len(ProbeSteps) /\ ProbeSteps[k + 1] = "power_off"
  BY <1>2, ProbePlace
<1>4. UNCHANGED <<state, phase, up, ops, open, was_open, board, suspended, cpc,
                  regulators_enabled, rdy_depth>>
  BY DEF probe_flash, driverVars, powerVars, callerVars
<1>5. ProbeSteps' = ProbeSteps /\ HasRegulators' = HasRegulators
  BY <1>4 DEF probe_flash, ProbeSteps, HasRegulators
<1>6. failed' \in {"none", "flash"}
  BY <1>1, <1>2 DEF ProbeAt, probe_flash
<1>7. up = UpBefore(k + 1) /\ ops \subseteq up
  BY <1>1, <1>2, UpBeforeNext DEF Parts, ProbeAt
<1>8. todo' = From(ProbeSteps, k + 1)
  BY <1>1 DEF probe_flash
<1>9. state = "RUNNING" =>
        ~HasRegulators /\ \E i \in 1..(k + 1 - 1) : ProbeSteps[i] = "start"
  BY <1>1 DEF ProbeAt
<1>10. ProbeAt(k + 1)'
  BY <1>3, <1>4, <1>5, <1>6, <1>7, <1>8, <1>9 DEF ProbeAt, UpBefore, From
<1>11. \E j \in 1..Len(ProbeSteps)' : ProbeAt(j)'
  BY <1>3, <1>5, <1>10
<1> QED
  BY <1>4, <1>11 DEF PhaseInv, Ordered, probe_flash

LEMMA ProbeStartStep ==
  ASSUME Ordered, PhaseInv, probe_start
  PROVE  Ordered' /\ PhaseInv'
<1>1. PICK k \in 1..Len(ProbeSteps) :
        /\ ProbeAt(k)
        /\ todo # <<>> /\ Head(todo) = ProbeSteps[k]
        /\ Tail(todo) = From(ProbeSteps, k + 1)
  BY ProbeHead DEF probe_start
<1>2. ProbeSteps[k] = "start" /\ k > 10
  BY <1>1, ProbePlace DEF probe_start, Step
<1>3. k + 1 \in 1..Len(ProbeSteps) /\ k \in 1..(k + 1 - 1)
  BY <1>2, ProbePlace, ProbeStepsAre
<1>4. UNCHANGED <<phase, up, ops, open, failed, was_open, board, suspended, cpc,
                  regulators_enabled, rdy_depth>>
  BY DEF probe_start, powerVars, callerVars
<1>5. ProbeSteps' = ProbeSteps /\ HasRegulators' = HasRegulators
  BY <1>4 DEF probe_start, ProbeSteps, HasRegulators
<1>6. failed = "none" /\ up = UpBefore(k) /\ ops \subseteq up
  BY <1>1, <1>2 DEF ProbeAt
<1>7. up = UpBefore(k + 1)
  BY <1>2, <1>6, UpBeforeNext DEF Parts
<1>8. todo' = From(ProbeSteps, k + 1)
  BY <1>1 DEF probe_start
<1>9. state' = "RUNNING" => ~HasRegulators
  BY <1>1 DEF ProbeAt, probe_start
<1>10. ProbeAt(k + 1)'
  BY <1>2, <1>3, <1>4, <1>5, <1>6, <1>7, <1>8, <1>9, SMTT(20)
     DEF ProbeAt, UpBefore, From
<1>11. \E j \in 1..Len(ProbeSteps)' : ProbeAt(j)'
  BY <1>3, <1>5, <1>10
<1>12. {"hsspi", "irqs"} \subseteq up
  BY <1>2, <1>6, UpBeforeIs
<1>13. Ordered'
  BY <1>4, <1>12 DEF Ordered
<1> QED
  BY <1>4, <1>11, <1>13 DEF PhaseInv, probe_start

\* The device is bound when everything is set up.
LEMMA MiscStep ==
  ASSUME Ordered, PhaseInv, misc_register
  PROVE  Ordered' /\ PhaseInv'
<1>1. PICK k \in 1..Len(ProbeSteps) :
        /\ ProbeAt(k)
        /\ todo # <<>> /\ Head(todo) = ProbeSteps[k]
        /\ Tail(todo) = From(ProbeSteps, k + 1)
  BY ProbeHead DEF misc_register
<1>2. ProbeSteps[k] = "misc" /\ k > 10
  BY <1>1, ProbePlace DEF misc_register, Step
<1>3. failed = "none" /\ up = UpBefore(k)
  BY <1>1, <1>2 DEF ProbeAt
<1>4. up' = Parts
  <2>1. up \subseteq Parts /\ Parts \ {"misc"} \subseteq up
    BY <1>2, <1>3, UpBeforeIs DEF Parts
  <2> QED
    BY <2>1 DEF misc_register, Parts
<1>5. UNCHANGED <<state, ops, open, failed, was_open, board, suspended, cpc,
                  regulators_enabled, rdy_depth>>
  BY DEF misc_register, driverVars, powerVars, callerVars
<1>6. phase' = "bound"
  BY DEF misc_register
<1>7. Ordered'
  BY <1>4, <1>6 DEF Ordered, Needs, Parts
<1> QED
  BY <1>3, <1>4, <1>5, <1>6, <1>7 DEF PhaseInv

\* A failing step jumps to the label that undoes what is up.
LEMMA ProbeFailsStep ==
  ASSUME Ordered, PhaseInv, probe_fails
  PROVE  Ordered' /\ PhaseInv'
<1>1. PICK k \in 1..Len(ProbeSteps) :
        /\ ProbeAt(k)
        /\ todo # <<>> /\ Head(todo) = ProbeSteps[k]
        /\ Tail(todo) = From(ProbeSteps, k + 1)
  BY ProbeHead DEF probe_fails
<1> DEFINE s == ProbeSteps[k]
<1>2. s \in {"root", "hsspi", "debug", "log", "irqs", "misc"} /\ failed' = s
  BY <1>1 DEF probe_fails, CanFail
<1>3. UNCHANGED <<state, ops, open, was_open, board, suspended, cpc,
                  regulators_enabled, rdy_depth>>
  BY DEF probe_fails, driverVars, powerVars, callerVars
<1>4. phase' = "unwind" /\ phase = "probe"
  BY DEF probe_fails
<1>5. up = UpBefore(k) /\ up' = IF s = "debug" THEN up \ {"root"} ELSE up
  BY <1>1 DEF ProbeAt, probe_fails, Step
<1>6. todo' = SubSeq(UndoSteps, UndoFrom(UndoLabel(s)), Len(UndoSteps))
  BY <1>1 DEF probe_fails
<1>7. HasRegulators' = HasRegulators
  BY <1>3 DEF HasRegulators
<1>8. state = "RUNNING" => s = "misc" /\ ~HasRegulators
  <2>1. SUFFICES ASSUME state = "RUNNING" PROVE s = "misc" /\ ~HasRegulators
    OBVIOUS
  <2>2. PICK i \in 1..(k - 1) : ProbeSteps[i] = "start"
    BY <1>1, <2>1 DEF ProbeAt
  <2>3. i \in 1..Len(ProbeSteps) /\ i < k
    BY ProbeStepsAre
  <2>4. i > 10
    BY <2>2, <2>3, ProbePlace
  <2>5. k > 10
    BY <2>3, <2>4
  <2> QED
    BY <1>1, <1>2, <2>1, <2>5, ProbePlace DEF ProbeAt
<1> HIDE DEF s
<1>9. PICK j \in 3..11 :
        /\ UndoFrom(UndoLabel(s)) = j - 2 /\ j - 2 \in 1..9
        /\ s \in {"root", "hsspi"} => j = 11
        /\ s = "debug" => j = 9
        /\ s = "log" => j = 6
        /\ s \in {"irqs", "misc"} => j = 3
  <2>1. CASE s \in {"root", "hsspi"}
    <3>1. UndoLabel(s) = "power_off"
      BY <2>1 DEF UndoLabel
    <3>2. UndoFrom(UndoLabel(s)) = 11 - 2
      BY <3>1, UndoFromIs
    <3> QED
      BY <2>1, <3>2
  <2>2. CASE s = "debug"
    BY <2>2, UndoFromIs DEF UndoLabel
  <2>3. CASE s = "log"
    BY <2>3, UndoFromIs DEF UndoLabel
  <2>4. CASE s \in {"irqs", "misc"}
    <3>1. UndoLabel(s) = "reg_log"
      BY <2>4 DEF UndoLabel
    <3>2. UndoFrom(UndoLabel(s)) = 3 - 2
      BY <3>1, UndoFromIs
    <3> QED
      BY <2>4, <3>2
  <2> QED
    BY <1>2, <2>1, <2>2, <2>3, <2>4
<1>10. todo' = From(RemoveSteps, j)
  <2>1. SubSeq(UndoSteps, j - 2, Len(UndoSteps)) = From(RemoveSteps, (j - 2) + 2)
    BY <1>9, UndoFromIs
  <2>2. (j - 2) + 2 = j
    OBVIOUS
  <2> QED
    BY <1>6, <1>9, <2>1, <2>2
<1>11. UndoneBefore(j)' /\ "misc" \notin up' /\ up' \subseteq Parts
  <2>1. /\ s = "root" => k = 1
        /\ s = "hsspi" => k = 2
        /\ s = "debug" => k = 4
        /\ s = "log" => k = 7
        /\ s = "irqs" => k = 10
        /\ s = "misc" => k > 10
    BY ProbePlace DEF s
  <2>2. "misc" \notin up' /\ up' \subseteq Parts /\ up' \subseteq UpBefore(k)
    BY <1>5, UpBeforeIs
  <2>3. "root" \in up' => s # "debug"
    BY <1>5
  <2>4. UndoneBefore(j)'
    BY <1>2, <1>9, <2>1, <2>2, <2>3, UpBeforeIs DEF UndoneBefore
  <2> QED
    BY <2>2, <2>4
<1>12. UndoAt(j)'
  <2>1. ops \subseteq up
    BY <1>1 DEF ProbeAt
  <2>2. ops' \subseteq {"log", "coredump"}
    BY <1>3 DEF PhaseInv
  <2>3. DebugAt(j)'
    BY <1>3, <1>5, <2>1, <2>2 DEF DebugAt
  <2> QED
    BY <1>10, <1>11, <2>3 DEF UndoAt, From
<1>13. Ordered'
  <2>1. state = "RUNNING" => {"hsspi", "irqs"} \subseteq up'
    BY <1>2, <1>4, <1>5, <1>8 DEF Ordered
  <2>2. \A d \in Needs : d[2] # "root"
    BY DEF Needs
  <2> QED
    BY <1>3, <1>4, <1>5, <2>1, <2>2 DEF Ordered, PhaseInv
<1> QED
  BY <1>2, <1>3, <1>4, <1>7, <1>8, <1>9, <1>11, <1>12, <1>13 DEF PhaseInv

-----------------------------------------------------------------------------
LEMMA RemoveBeginStep ==
  ASSUME Ordered, PhaseInv, qm35_remove
  PROVE  Ordered' /\ PhaseInv'
<1>1. phase = "bound" /\ phase' = "remove" /\ up = Parts /\ failed = "none"
  BY DEF qm35_remove, PhaseInv
<1>2. UNCHANGED <<state, ops, open, failed, board, suspended, cpc>> /\ was_open' = open
  BY DEF qm35_remove, driverVars, callerVars
<1>3. up' = Parts \ {"misc"}
  BY <1>1 DEF qm35_remove
<1>4. UndoAt(1)'
  <2>1. todo' = RemoveSteps
    BY DEF qm35_remove, RemoveSteps
  <2>2. RemoveSteps = From(RemoveSteps, 1)
    BY RemoveStepsAre, SubSeqFull, Zenon DEF From
  <2>3. DebugAt(1)'
    BY <1>3 DEF DebugAt, Parts
  <2> QED
    BY <2>1, <2>2, <2>3 DEF UndoAt, UndoneBefore, From
<1>5. Ordered'
  BY <1>1, <1>2, <1>3 DEF Ordered, Needs, Parts
<1>6. ~suspended /\ \A c \in Callers : cpc[c] = "idle"
  BY DEF qm35_remove
<1>7. "irqs" \in up'
  BY <1>3 DEF Parts
<1> QED
  BY <1>1, <1>2, <1>3, <1>4, <1>5, <1>6, <1>7 DEF PhaseInv

LEMMA RemoveStopStep ==
  ASSUME Ordered, PhaseInv, remove_hsspi_stop
  PROVE  Ordered' /\ PhaseInv'
<1>1. phase = "remove" /\ phase' = phase
  BY DEF remove_hsspi_stop
<1>2. PICK k \in 1..11 : UndoAt(k) /\ (state = "RUNNING" => k = 1)
  BY <1>1 DEF PhaseInv
<1>3. /\ Head(todo) = RemoveSteps[k]
      /\ Tail(todo) = From(RemoveSteps, k + 1)
  BY <1>2, RemoveHead
<1>4. k \in 1..2 /\ (k = 1 => state' = "STOPPED") /\ (k = 2 => state' = state)
  BY <1>3, RemovePlace, SMTT(20) DEF remove_hsspi_stop, Step
<1>5. state' # "RUNNING" /\ todo' = From(RemoveSteps, k + 1)
  BY <1>2, <1>3, <1>4 DEF remove_hsspi_stop
<1>6. UNCHANGED <<up, ops, open, failed, was_open, board, suspended, cpc>>
  BY DEF remove_hsspi_stop, callerVars
<1>7. UndoAt(k + 1)'
  BY <1>2, <1>4, <1>5, <1>6 DEF UndoAt, UndoneBefore, DebugAt, From
<1>8. Ordered'
  BY <1>5, <1>6 DEF Ordered
<1>9. k + 1 \in 1..11
  BY <1>4
<1> QED
  BY <1>1, <1>5, <1>6, <1>7, <1>8, <1>9 DEF PhaseInv

\* An undoing is at one of its steps, and HSSPI runs only where it was never
\* stopped.
LEMMA UndoHead ==
  ASSUME PhaseInv, phase \in {"unwind", "remove"}
  PROVE  \E k \in 1..11 :
           /\ UndoAt(k)
           /\ todo # <<>> /\ Head(todo) = RemoveSteps[k]
           /\ Tail(todo) = From(RemoveSteps, k + 1)
           /\ phase = "unwind" => k \in 3..11
           /\ phase = "remove" => (state = "RUNNING" => k = 1)
<1>1. CASE phase = "unwind"
  <2>1. PICK k \in 3..11 : UndoAt(k)
    BY <1>1 DEF PhaseInv
  <2>2. k \in 1..11
    OBVIOUS
  <2> QED
    BY <1>1, <2>1, <2>2, RemoveHead
<1>2. CASE phase = "remove"
  <2>1. PICK k \in 1..11 : UndoAt(k) /\ (state = "RUNNING" => k = 1)
    BY <1>2 DEF PhaseInv
  <2> QED
    BY <1>2, <2>1, RemoveHead
<1> QED
  BY <1>1, <1>2

LEMMA UndoDeinitStep ==
  ASSUME Ordered, PhaseInv, undo_deinit
  PROVE  Ordered' /\ PhaseInv'
<1>1. PICK k \in 1..11 :
        /\ UndoAt(k)
        /\ todo # <<>> /\ Head(todo) = RemoveSteps[k]
        /\ Tail(todo) = From(RemoveSteps, k + 1)
        /\ phase = "unwind" => k \in 3..11
        /\ phase = "remove" => (state = "RUNNING" => k = 1)
  BY UndoHead DEF undo_deinit
<1>2. PICK s \in {"reg_log", "reg_coredump", "log", "coredump", "test", "debug",
                  "uci"} :
        /\ Step(s)
        /\ up' = up \ (IF s = "debug" THEN {"debug", "root"} ELSE {s})
  BY DEF undo_deinit
<1>3. s = RemoveSteps[k] /\ k \in 3..9
  BY <1>1, <1>2, RemovePlace DEF Step
<1>4. /\ k = 3 <=> s = "reg_log"
      /\ k = 4 <=> s = "reg_coredump"
      /\ k = 5 <=> s = "log"
      /\ k = 6 <=> s = "coredump"
      /\ k = 7 <=> s = "test"
      /\ k = 8 <=> s = "debug"
      /\ k = 9 <=> s = "uci"
  BY <1>3, RemovePlace
<1>5. UNCHANGED <<state, phase, ops, open, failed, was_open, board, suspended, cpc>>
  BY DEF undo_deinit, driverVars, callerVars
<1>6. todo' = From(RemoveSteps, k + 1) /\ HasRegulators' = HasRegulators
  BY <1>1, <1>5 DEF undo_deinit, HasRegulators
<1>7. /\ up' \subseteq up /\ s \notin up'
      /\ k = 8 => "root" \notin up'
  BY <1>2, <1>4
<1>8. UndoneBefore(k + 1)'
  BY <1>1, <1>3, <1>4, <1>5, <1>7 DEF UndoAt, UndoneBefore
<1>9. UndoAt(k + 1)' /\ k + 1 \in 3..11
  <2>1. DebugAt(k)
    BY <1>1 DEF UndoAt
  <2>2. /\ "log" \in up => "log" \in up' \/ k = 5
        /\ "coredump" \in up => "coredump" \in up' \/ k = 6
        /\ "debug" \in up' => "debug" \in up /\ k # 8
    BY <1>2, <1>4
  <2>3. DebugAt(k + 1)'
    BY <1>3, <1>5, <2>1, <2>2 DEF DebugAt
  <2> QED
    BY <1>3, <1>6, <1>8, <2>3 DEF UndoAt, From
<1>10. Ordered'
  <2>1. /\ s = "log" => "reg_log" \notin up
        /\ s = "coredump" => "reg_coredump" \notin up
        /\ "misc" \notin up
    BY <1>1, <1>4 DEF UndoAt, UndoneBefore, PhaseInv, undo_deinit
  <2>2. \A d \in Needs : d[1] \in up' => d[2] \in up'
    BY <1>2, <2>1 DEF Ordered, Needs
  <2>3. "hsspi" \in up => "hsspi" \in up'
    BY <1>2
  <2>4. "irqs" \in up => "irqs" \in up'
    BY <1>2
  <2> QED
    BY <1>5, <2>2, <2>3, <2>4 DEF Ordered
<1>11. phase \in {"unwind", "remove"} /\ (phase = "remove" => state # "RUNNING")
  BY <1>1, <1>3 DEF undo_deinit
<1>12. "irqs" \in up => "irqs" \in up'
  BY <1>2
<1> QED
  BY <1>5, <1>6, <1>7, <1>9, <1>10, <1>11, <1>12 DEF PhaseInv

\* hsspi_deinit refuses for one of the reasons of UnboundIsUndone only: the
\* layers of the driver are unregistered by then.
LEMMA UndoHsspiStep ==
  ASSUME Ordered, PhaseInv, undo_hsspi_deinit
  PROVE  Ordered' /\ PhaseInv'
<1>1. PICK k \in 1..11 :
        /\ UndoAt(k)
        /\ todo # <<>> /\ Head(todo) = RemoveSteps[k]
        /\ Tail(todo) = From(RemoveSteps, k + 1)
        /\ phase = "unwind" => k \in 3..11
        /\ phase = "remove" => (state = "RUNNING" => k = 1)
  BY UndoHead DEF undo_hsspi_deinit
<1>2. k = 10
  BY <1>1, RemovePlace DEF undo_hsspi_deinit, Step
<1>3. UNCHANGED <<state, phase, ops, open, failed, was_open, board, suspended, cpc>>
  BY DEF undo_hsspi_deinit, driverVars, callerVars
<1>4. todo' = From(RemoveSteps, 11) /\ HasRegulators' = HasRegulators
  BY <1>1, <1>2, <1>3 DEF undo_hsspi_deinit, HasRegulators
<1>5. up \cap {"reg_log", "reg_coredump", "test", "debug", "misc"} = {}
  BY <1>1, <1>2 DEF UndoAt, UndoneBefore, PhaseInv, undo_hsspi_deinit
<1>6. /\ up' \subseteq up
      /\ "irqs" \in up => "irqs" \in up'
      /\ "hsspi" \in up /\ (state = "RUNNING" \/ open) => "hsspi" \in up'
      /\ "hsspi" \in up' => state = "RUNNING" \/ open
  BY <1>5 DEF undo_hsspi_deinit, Refused
<1>7. phase \in {"unwind", "remove"} /\ (phase = "remove" => state # "RUNNING")
  BY <1>1, <1>2 DEF undo_hsspi_deinit
<1>8. "hsspi" \in up' => was_open \/ (failed = "misc" /\ ~HasRegulators)
  BY <1>6, <1>7 DEF PhaseInv
<1>9. UndoneBefore(11)'
  BY <1>1, <1>2, <1>3, <1>4, <1>6, <1>8 DEF UndoAt, UndoneBefore
<1>10. UndoAt(11)'
  BY <1>4, <1>5, <1>6, <1>9 DEF UndoAt, DebugAt, From
<1>11. Ordered'
  BY <1>3, <1>5, <1>6 DEF Ordered, Needs
<1> QED
  BY <1>3, <1>4, <1>6, <1>7, <1>10, <1>11 DEF PhaseInv

LEMMA UndoPowerStep ==
  ASSUME Ordered, PhaseInv, undo_poweroff
  PROVE  Ordered' /\ PhaseInv'
<1>1. PICK k \in 1..11 :
        /\ UndoAt(k)
        /\ todo # <<>> /\ Head(todo) = RemoveSteps[k]
        /\ Tail(todo) = From(RemoveSteps, k + 1)
        /\ phase = "unwind" => k \in 3..11
        /\ phase = "remove" => (state = "RUNNING" => k = 1)
  BY UndoHead DEF undo_poweroff
<1>2. k = 11
  BY <1>1, RemovePlace DEF undo_poweroff, Step
<1>3. UNCHANGED <<state, ops, open, failed, was_open, board, suspended, cpc>>
  BY DEF undo_poweroff, callerVars
<1>4. /\ phase \in {"unwind", "remove"} /\ phase' = "unbound"
      /\ up' = up \ {"irqs"} /\ rdy_depth' = 0 /\ ~regulators_enabled'
      /\ HasRegulators' = HasRegulators
  BY <1>3 DEF undo_poweroff, SetPower, HasRegulators
<1>5. up' \subseteq {"root", "hsspi"}
  BY <1>1, <1>2, <1>4 DEF UndoAt, UndoneBefore, PhaseInv, Parts
<1>6. /\ "root" \in up' => failed = "hsspi"
      /\ "hsspi" \in up' => was_open \/ (failed = "misc" /\ ~HasRegulators)
      /\ state = "RUNNING" => failed = "misc" /\ ~HasRegulators
  BY <1>1, <1>2, <1>4 DEF UndoAt, UndoneBefore, PhaseInv
<1>7. Ordered'
  BY <1>3, <1>4, <1>5 DEF Ordered, Needs
<1> QED
  BY <1>3, <1>4, <1>5, <1>6, <1>7 DEF PhaseInv, Parts

-----------------------------------------------------------------------------
\* Every step keeps the parts in order and undoes what it has to, also when
\* several control calls are made at a time.
LEMMA PhaseStep ==
  ASSUME Ordered, PhaseInv, [ProbeNext]_allVars
  PROVE  Ordered' /\ PhaseInv'
<1>1. CASE qm35_probe
  <2>1. /\ phase = "unbound" /\ phase' = "probe" /\ up = {} /\ up' = {} /\ ops' = {}
        /\ state = "STOPPED" /\ failed' = "none" /\ todo' = ProbeSteps
        /\ UNCHANGED <<flash_on_probe, state, open, board, suspended, cpc,
                       rdy_depth>>
    BY <1>1 DEF qm35_probe, callerVars
  <2>2. ProbeSteps' = ProbeSteps /\ ProbeSteps = From(ProbeSteps, 1)
    BY <2>1, ProbeStepsAre, SubSeqFull, Zenon DEF ProbeSteps, From
  <2>3. UpBefore(1)' = {}
    BY DEF UpBefore
  <2>4. ProbeAt(1)' /\ 1 \in 1..Len(ProbeSteps)'
    BY <2>1, <2>2, <2>3, ProbeStepsAre DEF ProbeAt, From
  <2>5. ~open
    BY <2>1 DEF Ordered
  <2>6. Ordered'
    BY <2>1, <2>5 DEF Ordered
  <2> QED
    BY <2>1, <2>4, <2>5, <2>6 DEF PhaseInv
<1>2. CASE probe_init
  BY <1>2, ProbeInitStep
<1>3. CASE probe_power
  BY <1>3, ProbePowerStep
<1>4. CASE probe_start
  BY <1>4, ProbeStartStep
<1>5. CASE misc_register
  BY <1>5, MiscStep
<1>6. CASE \E ok \in BOOLEAN : probe_flash(ok)
  BY <1>6, ProbeFlashStep
<1>7. CASE probe_fails
  BY <1>7, ProbeFailsStep
<1>8. CASE qm35_remove
  BY <1>8, RemoveBeginStep
<1>9. CASE remove_hsspi_stop
  BY <1>9, RemoveStopStep
<1>10. CASE undo_deinit
  BY <1>10, UndoDeinitStep
<1>11. CASE undo_hsspi_deinit
  BY <1>11, UndoHsspiStep
<1>12. CASE undo_poweroff
  BY <1>12, UndoPowerStep
<1>13. CASE uci_open
  <2>1. UNCHANGED <<phase, todo, up, ops, failed, was_open, state, board, suspended,
                    cpc, regulators_enabled, rdy_depth>>
    BY <1>13 DEF uci_open, driverVars, powerVars, callerVars
  <2>2. phase = "bound" /\ "hsspi" \in up
    <3>1. CASE phase = "probe"
      <4>1. PICK k \in 1..Len(ProbeSteps) : ProbeAt(k)
        BY <3>1 DEF PhaseInv
      <4> QED
        BY <1>13, <4>1, UpBeforeIs DEF uci_open, ProbeAt
    <3>2. CASE phase # "probe"
      BY <1>13, <3>2 DEF uci_open, PhaseInv, Parts
    <3> QED
      BY <3>1, <3>2
  <2> QED
    BY <2>1, <2>2 DEF Ordered, PhaseInv
<1>14. CASE uci_release
  <2>1. UNCHANGED <<flash_on_probe, phase, todo, up, ops, failed, was_open, state,
                    board, suspended, cpc, regulators_enabled, rdy_depth>>
        /\ ~open'
    BY <1>14 DEF uci_release, driverVars, powerVars, callerVars
  <2>2. ProbeSteps' = ProbeSteps /\ HasRegulators' = HasRegulators
    BY <2>1 DEF ProbeSteps, HasRegulators
  <2>3. ASSUME NEW k, ProbeAt(k) PROVE ProbeAt(k)'
    BY <2>1, <2>2, <2>3 DEF ProbeAt, UpBefore
  <2>4. ASSUME NEW k, UndoAt(k) PROVE UndoAt(k)'
    BY <2>1, <2>2, <2>4 DEF UndoAt, UndoneBefore, DebugAt
  <2>5. Ordered'
    BY <2>1 DEF Ordered
  <2> QED
    BY <2>1, <2>2, <2>3, <2>4, <2>5 DEF PhaseInv
<1>15. CASE ControlCall
  <2>1. phase = "bound" /\ UNCHANGED <<phase, up, ops, failed, open>>
    BY <1>15 DEF ControlCall, probeVars
  <2> QED
    BY <2>1 DEF Ordered, PhaseInv, Needs, Parts
<1>16. CASE DriverThread
  <2>1. UNCHANGED <<flash_on_probe, probeVars, board, state, suspended, cpc,
                    regulators_enabled, rdy_depth>>
    BY <1>16 DEF DriverThread, ThreadBegin, ThreadEnds, ThreadEnd, powerVars,
             callerVars, qm35_reset_hook_assert, qm35_reset_hook_deassert
  <2> QED
    BY <2>1, PhaseFrame
<1>17. CASE DriverIrq
  <2>1. UNCHANGED <<flash_on_probe, probeVars, board, state, suspended, cpc,
                    regulators_enabled, rdy_depth>>
    BY <1>17 DEF DriverIrq, qm35_irq_handler, powerVars, callerVars
  <2> QED
    BY <2>1, PhaseFrame
<1>18. CASE UNCHANGED allVars
  <2>1. UNCHANGED <<flash_on_probe, probeVars, board, state, suspended, cpc,
                    regulators_enabled, rdy_depth>>
    BY <1>18 DEF allVars, driverVars, powerVars, callerVars
  <2> QED
    BY <2>1, PhaseFrame
<1> QED
  BY <1>1, <1>2, <1>3, <1>4, <1>5, <1>6, <1>7, <1>8, <1>9, <1>10, <1>11, <1>12,
     <1>13, <1>14, <1>15, <1>16, <1>17, <1>18 DEF ProbeNext, Probing, Undoing

LEMMA ProbeInitInv == ProbeInit => IInv
<1> SUFFICES ASSUME ProbeInit PROVE IInv
  OBVIOUS
<1>1. TypeOK
  <2>1. /\ gpio_reset \in BOOLEAN /\ regulators_enabled \in BOOLEAN
        /\ suspended \in BOOLEAN /\ enable_failed \in BOOLEAN
    BY Zenon DEF ProbeInit
  <2>2. cpc \in [Callers -> CallerPcs] /\ op \in [Callers -> Ops]
    BY DEF ProbeInit, CallerPcs, Ops
  <2>3. saved \in [Callers -> DevStates] /\ dev_state \in DevStates
    BY DEF ProbeInit, DevStates
  <2> QED
    BY <2>1, <2>2, <2>3, MaxRegFailsAssumption DEF ProbeInit, TypeOK
<1>2. CallInv
  BY DEF ProbeInit, CallInv, CallsStop, BusIsOwned, IrqIsBalanced,
         SleepIsStopped, PowerAgrees, Off
<1>3. Ordered /\ PhaseInv
  BY DEF ProbeInit, Ordered, PhaseInv, Needs
<1> QED
  BY <1>1, <1>2, <1>3 DEF IInv

\* The inductive invariant, of every behaviour of ProbeSpec.
LEMMA ProbeInvariant == ASSUME OneCaller PROVE ProbeSpec => []IInv
<1>1. IInv /\ [ProbeNext]_allVars => IInv'
  BY TypeStep, CallInvStep, PhaseStep DEF IInv
<1> QED
  BY ProbeInitInv, <1>1, PTL DEF ProbeSpec

-----------------------------------------------------------------------------
\* Whatever step of qm35_probe fails, and whenever the device is removed, a
\* part is up while its users are: no layer is freed while the thread can call
\* it, the transport never runs without its thread and its interrupts.  The
\* debugfs files are the exception that UsersGoFirst names: they outlive the
\* log and the coredump layer, by the steps up to debug_deinit and no more.
\* This one holds for any number of control calls at a time.
THEOREM PartsAreOrdered == ProbeSpec => []UsersGoFirst
<1>1. ProbeInit => Ordered /\ PhaseInv
  BY ProbeInitInv DEF IInv
<1>2. Ordered /\ PhaseInv /\ [ProbeNext]_allVars => (Ordered /\ PhaseInv)'
  BY PhaseStep
<1>3. ASSUME Ordered, PhaseInv PROVE UsersGoFirst
  <2> SUFFICES ASSUME phase # "unbound", "debug" \in up
               PROVE  /\ \A p \in (ops \ up) :
                           todo # <<>> /\ Head(todo) \in FreedEarly[p]
                      /\ phase \in {"bound", "remove"} => "irqs" \in up
    BY <1>3 DEF Ordered, UsersGoFirst
  <2>1. phase \in {"bound", "remove"} => "irqs" \in up
    BY <1>3 DEF PhaseInv, Parts
  <2>2. CASE phase \in {"probe", "bound"}
    <3>1. ops \subseteq up
      BY <1>3, <2>2 DEF PhaseInv, ProbeAt, Parts
    <3> QED
      BY <2>1, <3>1
  <2>3. CASE phase \in {"unwind", "remove"}
    <3>1. PICK k \in 1..11 : /\ UndoAt(k)
                             /\ todo # <<>> /\ Head(todo) = RemoveSteps[k]
      BY <1>3, <2>3, UndoHead
    <3>2. ASSUME NEW p \in (ops \ up) PROVE Head(todo) \in FreedEarly[p]
      <4>1. \/ p = "log" /\ k \in 6..8
            \/ p = "coredump" /\ k \in 7..8
        BY <1>3, <3>1, <3>2 DEF PhaseInv, UndoAt, DebugAt
      <4>2. Head(todo) = "debug" \/ Head(todo) = "test"
            \/ (p = "log" /\ Head(todo) = "coredump")
        BY <3>1, <4>1, RemoveStepsAre
      <4>3. p = "log" \/ p = "coredump"
        BY <4>1
      <4> QED
        BY <4>2, <4>3 DEF FreedEarly
    <3> QED
      BY <2>1, <3>1, <3>2
  <2> QED
    BY <1>3, <2>2, <2>3 DEF PhaseInv
<1> QED
  BY <1>1, <1>2, <1>3, PTL DEF ProbeSpec

\* After a failed probe or a remove everything is undone, with the exceptions
\* that UnboundIsUndone names and no other.
THEOREM UndoIsWhole ==
  ASSUME OneCaller PROVE ProbeSpec => []UnboundIsUndone
<1>1. IInv => UnboundIsUndone
  BY MaxRegFailsAssumption
     DEF IInv, TypeOK, PhaseInv, CallInv, PowerAgrees, UnboundIsUndone
<1> QED
  BY ProbeInvariant, <1>1, PTL

\* A control call that resets the QM35 or talks to its ROM code has the bus
\* for itself: hsspi_stop has returned, and the thread stays off the bus until
\* hsspi_start.
THEOREM BusIsExclusive ==
  ASSUME OneCaller PROVE ProbeSpec => []QmIsExclusive
<1>1. ASSUME OneCaller, IInv PROVE QmIsExclusive
  <2> SUFFICES ASSUME NEW c \in Callers, cpc[c] \in {"assert", "deassert", "bus"}
               PROVE  tpc = "idle"
    BY DEF QmIsExclusive
  <2>1. phase = "bound"
    BY <1>1 DEF IInv, PhaseInv
  <2>2. state = "STOPPED" /\ \A d \in Callers : cpc[d] # "fence"
    BY <1>1 DEF IInv, CallInv, CallsStop, Off, OneCaller
  <2> QED
    BY <1>1, <2>1, <2>2 DEF IInv, CallInv, BusIsOwned
<1> QED
  BY ProbeInvariant, <1>1, PTL

\* enable_irq and disable_irq of the control calls balance: HSSPI never runs
\* deaf to ss_rdy when no call is under way.
THEOREM StartListens ==
  ASSUME OneCaller PROVE ProbeSpec => []StartedIsListening
<1>1. IInv => StartedIsListening
  BY DEF IInv, CallInv, IrqIsBalanced, StartedIsListening
<1> QED
  BY ProbeInvariant, <1>1, PTL

\* The use count of the regulators follows the flag, through probe, control
\* calls and remove, whichever regulator_enable and regulator_disable fail:
\* what is left of the claim after a failure is what PowerFollowsFlag says.
THEOREM PowerIsFollowed ==
  ASSUME OneCaller PROVE ProbeSpec => []PowerFollowsFlag
<1>1. IInv => PowerFollowsFlag
  BY DEF IInv, CallInv, PowerAgrees, PowerFollowsFlag, Quiet
<1> QED
  BY ProbeInvariant, <1>1, PTL
=============================================================================
