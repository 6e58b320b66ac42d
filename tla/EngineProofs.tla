---------------------------- MODULE EngineProofs ----------------------------
(***************************************************************************)
(* Proofs about the engine's sampling loop, for every period, number of    *)
(* samples, length of a sample and moment of the stop; its table of run    *)
(* times, for any processes, threads and cores and any order of late or    *)
(* lost events; and its count of network traffic, for any flows.           *)
(***************************************************************************)
EXTENDS MCEngine, FiniteSums, TLAPS

(***************************************************************************)
(* THE SAMPLING LOOP.                                                      *)
(***************************************************************************)
Last == Len(starts)

\* The length of k periods.
Span(k) == k * Interval

\* Every sample i <= k was begun k - i periods before t or earlier.
Periods(k, t) ==
    \A i \in 1..Last : i <= k => starts[i] + Span(k - i) <= t

(***************************************************************************)
(* Why the period is never beaten: next_start is a whole number of periods *)
(* after each sample begun, also where it is set to the present because a  *)
(* sample was late, and no sample begins before next_start.  While the     *)
(* sample is under way it still stands for that sample's own due time.     *)
(***************************************************************************)
Paced ==
    /\ \A i \in 1..Last : starts[i] <= clock
    /\ pc \in {"check", "sleep", "nap"} => Periods(Last, nextStart)
    /\ pc \in {"sample", "handle"} => Periods(Last - 1, nextStart)
    /\ pc = "plan" =>
          \A i \in 1..Last : i < Last => starts[i] + Span(Last - i) <= nextStart
    /\ pc = "check" /\ ~stop => nextStart <= clock

\* The first sample begins at next_start or later, the others follow it.
Followed ==
    /\ Last = 0 => n = 0 /\ pc \in {"begin", "check", "done"}
                   /\ (pc = "check" => nextStart <= clock)
    /\ Last # 0 => pc # "begin"
    /\ Last # 0 /\ ~overrun => nextStart <= starts[1] + n * Interval

Pace == TypeOK /\ Paced /\ Followed /\ PeriodNeverBeaten

\* What the loop may still do once it has been told to stop.
Stopping ==
    /\ stop => stoppedAt <= clock
    /\ ~stop => late = 0
    /\ late <= 1
    /\ late = 1 => pc \notin {"sample", "handle"}
    /\ late = 1 => starts[Last] <= stoppedAt
    /\ pc \in {"sample", "handle"} => Last # 0
    /\ pc \in {"sample", "handle"} /\ stop => starts[Last] <= stoppedAt
    /\ pc = "nap" /\ ~stop => wake <= clock + SleepSlice
    /\ PromptStop

----------------------------------------------------------------------------
\* No period, one period more, and any number of them.
LEMMA Spans ==
    /\ Span(0) = 0
    /\ \A k \in Nat : Span(k) \in Nat /\ Span(k + 1) = Span(k) + Interval
BY LoopAssumption, SMT DEF Span

\* The facts about Append that the proofs rest on.
LEMMA Appended ==
    ASSUME starts \in Seq(Nat), NEW t \in Nat, starts' = Append(starts, t)
    PROVE  /\ starts' \in Seq(Nat)
           /\ Last \in Nat
           /\ Last' = Last + 1
           /\ starts'[Last + 1] = t
           /\ \A i \in 1..Last : starts'[i] = starts[i] /\ starts[i] \in Nat
BY DEF Last

\* The types are preserved by every step.
LEMMA TypeStep == TypeOK /\ [Next]_vars => TypeOK'
<1> SUFFICES ASSUME TypeOK, [Next]_vars PROVE TypeOK'
  OBVIOUS
<1> USE LoopAssumption
<1>1. CASE Tick
  BY <1>1 DEF Tick, TypeOK
<1>2. CASE RequestStop
  BY <1>2 DEF RequestStop, TypeOK
<1>3. CASE Begin
  BY <1>3 DEF Begin, TypeOK
<1>4. CASE Check
  <2>1. starts' \in Seq(Nat)
    BY <1>4, Appended DEF Check, TypeOK
  <2> QED
    BY <1>4, <2>1 DEF Check, TypeOK
<1>5. CASE Sampled
  BY <1>5 DEF Sampled, TypeOK
<1>6. CASE Throws
  BY <1>6 DEF Throws, TypeOK
<1>7. CASE Handle
  BY <1>7 DEF Handle, IsLast, TypeOK
<1>8. CASE Plan
  BY <1>8 DEF Plan, TypeOK
<1>9. CASE Sleep
  BY <1>9 DEF Sleep, Earlier, TypeOK
<1>10. CASE Wake
  BY <1>10 DEF Wake, TypeOK
<1>11. CASE UNCHANGED vars
  BY <1>11 DEF vars, TypeOK
<1> QED
  BY <1>1, <1>2, <1>3, <1>4, <1>5, <1>6, <1>7, <1>8, <1>9, <1>10, <1>11 DEF Next

\* A sample begins: it is as many periods after each earlier one as there
\* are samples between them.
LEMMA BeginSample ==
    ASSUME Pace, Check, pc' = "sample"
    PROVE  Paced' /\ Followed' /\ PeriodNeverBeaten'
<1>1. /\ starts \in Seq(Nat) /\ clock \in Nat /\ nextStart \in Nat /\ n \in Nat
      /\ Interval \in Nat
  BY LoopAssumption DEF Pace, TypeOK
<1>2. /\ Last \in Nat /\ Last' = Last + 1 /\ starts'[Last + 1] = clock
      /\ \A i \in 1..Last : starts'[i] = starts[i] /\ starts[i] \in Nat
  <2>1. starts' = Append(starts, clock)
    BY DEF Check
  <2> QED
    BY <1>1, <2>1, Appended
<1>3. /\ clock' = clock /\ nextStart' = nextStart /\ n' = n /\ overrun' = overrun
      /\ ~stop /\ pc = "check"
  BY DEF Check
<1>4. /\ nextStart <= clock
      /\ \A i \in 1..Last : starts[i] + Span(Last - i) <= nextStart
  BY <1>2, <1>3 DEF Pace, Paced, Periods
<1>5. ASSUME NEW i \in 1..Last
      PROVE  starts'[i] + Span(Last' - 1 - i) <= nextStart'
  <2>1. Last' - 1 - i = Last - i
    BY <1>2
  <2> QED
    BY <1>2, <1>3, <1>4, <2>1
<1>6. Paced'
  <2>1. \A i \in 1..(Last + 1) : starts'[i] <= clock'
    <3>1. \A i \in 1..Last : starts[i] <= clock
      BY DEF Pace, Paced
    <3> QED
      BY <1>1, <1>2, <1>3, <3>1
  <2>2. \A i \in 1..(Last + 1) : i <= Last' - 1 =>
           starts'[i] + Span(Last' - 1 - i) <= nextStart'
    BY <1>2, <1>5
  <2> QED
    BY <1>2, <2>1, <2>2 DEF Paced, Periods
<1>7. Followed'
  <2>1. CASE Last = 0
    <3>1. n = 0 /\ n * Interval = 0 /\ starts'[1] = clock
      BY <1>1, <1>2, <2>1 DEF Pace, Followed
    <3> QED
      BY <1>1, <1>2, <1>3, <1>4, <3>1 DEF Followed
  <2>2. CASE Last # 0
    <3>1. starts'[1] = starts[1]
      BY <1>2, <2>2
    <3> QED
      BY <1>1, <1>2, <1>3, <2>2, <3>1 DEF Pace, Followed
  <2> QED
    BY <2>1, <2>2
<1>8. PeriodNeverBeaten'
  <2> SUFFICES ASSUME NEW i \in 1..(Last + 1), NEW j \in 1..(Last + 1), i < j
               PROVE  starts'[i] + Span(j - i - 1) <= starts'[j]
    <3>1. 1..Len(starts') = 1..(Last + 1)
      BY <1>2 DEF Last
    <3> QED
      BY <3>1 DEF PeriodNeverBeaten, Span
  <2>1. i \in 1..Last
    BY <1>2
  <2>2. CASE j = Last + 1
    <3>1. j - i - 1 = Last - i /\ Last - i \in Nat
      BY <1>2, <2>1, <2>2
    <3>2. Span(Last - i) \in Nat /\ starts'[i] \in Nat /\ starts'[i] = starts[i]
      BY <1>2, <2>1, <3>1, Spans
    <3>3. starts[i] + Span(Last - i) <= nextStart /\ nextStart <= clock
      BY <1>4, <2>1
    <3>4. starts'[j] = clock
      BY <1>2, <2>2
    <3> QED
      BY <1>1, <3>1, <3>2, <3>3, <3>4
  <2>3. CASE j # Last + 1
    <3>1. j \in 1..Last /\ starts'[i] = starts[i] /\ starts'[j] = starts[j]
      BY <1>2, <2>1, <2>3
    <3> QED
      BY <2>1, <3>1 DEF Pace, PeriodNeverBeaten, Last, Span
  <2> QED
    BY <2>2, <2>3
<1> QED
  BY <1>6, <1>7, <1>8

\* A sample ends: the next one is due a period later.
LEMMA HandleSample ==
    ASSUME Pace, Handle
    PROVE  Paced' /\ Followed'
<1>1. /\ starts \in Seq(Nat) /\ clock \in Nat /\ nextStart \in Nat /\ n \in Nat
      /\ Interval \in Nat /\ Last \in Nat
      /\ \A i \in 1..Last : starts[i] \in Nat
  BY LoopAssumption DEF Pace, TypeOK, Last
<1>2. starts' = starts /\ Last' = Last /\ clock' = clock /\ stop' = stop /\ overrun' = overrun
      /\ pc = "handle"
  BY DEF Handle, Last
<1>3. CASE pc' = "done"
  <2>1. n' = n /\ nextStart' = nextStart
    BY <1>3 DEF Handle
  <2> QED
    BY <1>2, <1>3, <2>1 DEF Pace, Paced, Followed
<1>4. CASE pc' # "done"
  <2>1. pc' = "plan" /\ nextStart' = nextStart + Interval /\ n' = n + 1
    BY <1>4 DEF Handle
  <2>2. Last # 0
    BY <1>2 DEF Pace, Followed
  <2>3. ASSUME NEW i \in 1..Last, i < Last
        PROVE  starts[i] + Span(Last - i) <= nextStart'
    <3>1. starts[i] + Span(Last - 1 - i) <= nextStart
      BY <1>1, <1>2, <2>3 DEF Pace, Paced, Periods
    <3>2. /\ Last - 1 - i \in Nat /\ Last - i = (Last - 1 - i) + 1
      BY <1>1, <2>3
    <3>3. Span(Last - 1 - i) \in Nat /\ Span(Last - i) = Span(Last - 1 - i) + Interval
      BY <3>2, Spans
    <3> QED
      BY <1>1, <2>1, <3>1, <3>3
  <2>4. Paced'
    BY <1>1, <1>2, <2>1, <2>3 DEF Pace, Paced
  <2>5. Followed'
    <3>1. (n + 1) * Interval = n * Interval + Interval /\ n * Interval \in Int
      BY <1>1, SMT
    <3>2. starts[1] \in Nat
      BY <1>1, <2>2
    <3>3. ~overrun => nextStart <= starts[1] + n * Interval
      BY <2>2 DEF Pace, Followed
    <3>4. ~overrun => nextStart' <= starts[1] + n' * Interval
      BY <1>1, <2>1, <3>1, <3>2, <3>3
    <3> QED
      BY <1>2, <2>1, <2>2, <3>4 DEF Followed
  <2> QED
    BY <2>4, <2>5
<1> QED
  BY <1>3, <1>4

\* The next beginning is planned: what is due lies after the last beginning.
LEMMA PlanNext ==
    ASSUME Pace, Plan
    PROVE  Paced' /\ Followed'
<1>1. /\ starts \in Seq(Nat) /\ clock \in Nat /\ nextStart \in Nat
      /\ Interval \in Nat /\ Last \in Nat
      /\ \A i \in 1..Last : starts[i] \in Nat
  BY LoopAssumption DEF Pace, TypeOK, Last
<1>2. /\ starts' = starts /\ Last' = Last /\ clock' = clock /\ stop' = stop /\ n' = n
      /\ pc = "plan" /\ pc' \in {"check", "sleep"}
      /\ nextStart <= nextStart' /\ clock <= nextStart' /\ nextStart' \in Nat
      /\ pc' = "check" => nextStart' = clock /\ overrun'
      /\ ~overrun' => ~overrun /\ nextStart' = nextStart
  BY <1>1 DEF Plan, Last, Pace, TypeOK
<1>3. ASSUME NEW i \in 1..Last
      PROVE  starts[i] + Span(Last - i) <= nextStart'
  <2>1. CASE i < Last
    <3>1. starts[i] + Span(Last - i) <= nextStart
      BY <1>2, <2>1 DEF Pace, Paced
    <3>2. starts[i] \in Nat /\ Span(Last - i) \in Nat
      <4>1. starts[i] \in Nat /\ Last - i \in Nat
        BY <1>1
      <4> QED
        BY <4>1, Spans
    <3> QED
      BY <1>1, <1>2, <3>1, <3>2
  <2>2. CASE i = Last
    <3>1. Span(Last - i) = 0
      <4>1. Last - i = 0
        BY <1>1, <2>2
      <4> QED
        BY <4>1, Spans
    <3>2. starts[i] <= clock
      BY DEF Pace, Paced
    <3> QED
      BY <1>1, <1>2, <3>1, <3>2
  <2> QED
    BY <1>1, <2>1, <2>2
<1>4. Paced'
  BY <1>1, <1>2, <1>3 DEF Pace, Paced, Periods
<1>5. Followed'
  BY <1>1, <1>2 DEF Pace, Followed
<1> QED
  BY <1>4, <1>5

\* Every step keeps the pace.
LEMMA PaceStep == Pace /\ [Next]_vars => Pace'
<1> SUFFICES ASSUME Pace, [Next]_vars PROVE Pace'
  OBVIOUS
<1>0. TypeOK'
  BY TypeStep DEF Pace
<1>1. starts' = starts => (Last' = Last /\ PeriodNeverBeaten')
  BY DEF Pace, PeriodNeverBeaten, Last
<1>2. /\ clock \in Nat /\ nextStart \in Nat /\ Last \in Nat
      /\ \A i \in 1..Last : starts[i] \in Nat
  BY DEF Pace, TypeOK, Last
<1>3. CASE Tick
  BY <1>0, <1>1, <1>2, <1>3 DEF Tick, Pace, Paced, Periods, Followed
<1>4. CASE RequestStop
  BY <1>0, <1>1, <1>2, <1>4 DEF RequestStop, Pace, Paced, Periods, Followed
<1>5. CASE Begin
  <2>1. Last = 0 /\ n = 0
    BY <1>2, <1>5 DEF Begin, Pace, Followed
  <2> QED
    BY <1>0, <1>1, <1>2, <1>5, <2>1 DEF Begin, Pace, Paced, Periods, Followed
<1>6. CASE Check
  <2>1. CASE pc' = "sample"
    BY <1>0, <1>6, <2>1, BeginSample DEF Pace
  <2>2. CASE pc' # "sample"
    BY <1>0, <1>1, <1>2, <1>6, <2>2 DEF Check, Pace, Paced, Periods, Followed
  <2> QED
    BY <2>1, <2>2
<1>7. CASE Sampled
  BY <1>0, <1>1, <1>2, <1>7 DEF Sampled, Pace, Paced, Periods, Followed
<1>8. CASE Throws
  BY <1>0, <1>1, <1>2, <1>8 DEF Throws, Pace, Paced, Periods, Followed
<1>9. CASE Handle
  <2>1. starts' = starts
    BY <1>9 DEF Handle
  <2> QED
    BY <1>0, <1>1, <1>9, <2>1, HandleSample DEF Pace
<1>10. CASE Plan
  <2>1. starts' = starts
    BY <1>10 DEF Plan
  <2> QED
    BY <1>0, <1>1, <1>10, <2>1, PlanNext DEF Pace
<1>11. CASE Sleep
  BY <1>0, <1>1, <1>2, <1>11 DEF Sleep, Pace, Paced, Periods, Followed
<1>12. CASE Wake
  BY <1>0, <1>1, <1>2, <1>12 DEF Wake, Pace, Paced, Periods, Followed
<1>13. CASE UNCHANGED vars
  BY <1>0, <1>1, <1>2, <1>13 DEF vars, Pace, Paced, Periods, Followed
<1> QED
  BY <1>3, <1>4, <1>5, <1>6, <1>7, <1>8, <1>9, <1>10, <1>11, <1>12, <1>13 DEF Next

\* The loop begins in pace and with nothing handed over.
LEMMA InitPace == Init => Pace /\ Stopping
<1> SUFFICES ASSUME Init PROVE Pace /\ Stopping
  OBVIOUS
<1>1. starts = <<>> /\ Last = 0 /\ 1..Last = {}
  BY DEF Init, Last
<1>2. TypeOK
  <2>1. starts \in Seq(Nat)
    BY <1>1
  <2>2. /\ clock = 0 /\ nextStart = 0 /\ wake = 0 /\ stoppedAt = 0 /\ late = 0 /\ n = 0
        /\ pc = "begin" /\ stop = FALSE /\ error = FALSE /\ overrun = FALSE
    BY DEF Init
  <2>3. Iterations # 0 => n < Iterations
    BY LoopAssumption, <2>2
  <2> QED
    BY <2>1, <2>2, <2>3 DEF TypeOK
<1>3. Paced /\ Followed
  BY <1>1 DEF Init, Paced, Followed, Periods
<1>4. PeriodNeverBeaten
  BY <1>1 DEF PeriodNeverBeaten, Last
<1>5. Stopping
  BY DEF Init, Stopping, PromptStop
<1> QED
  BY <1>2, <1>3, <1>4, <1>5 DEF Pace

\* Every step keeps what holds of a loop that is to stop.
LEMMA StopStep == Pace /\ Stopping /\ [Next]_vars => Stopping'
<1> SUFFICES ASSUME Pace, Stopping, [Next]_vars PROVE Stopping'
  OBVIOUS
<1> USE DEF Stopping, PromptStop
<1>1. /\ clock \in Nat /\ nextStart \in Nat /\ wake \in Nat /\ stoppedAt \in Nat /\ late \in Nat
      /\ SleepSlice \in Nat /\ Last \in Nat /\ starts \in Seq(Nat)
      /\ \A i \in 1..Last : starts[i] \in Nat /\ starts[i] <= clock
      /\ stop \in BOOLEAN
  BY LoopAssumption DEF Pace, TypeOK, Paced, Last
<1>2. starts' = starts => Last' = Last
  BY DEF Last
<1>3. CASE Tick
  BY <1>1, <1>2, <1>3 DEF Tick
<1>4. CASE RequestStop
  <2>1. Last # 0 => starts[Last] <= clock
    BY <1>1
  <2> QED
    BY <1>1, <1>2, <1>4, <2>1 DEF RequestStop
<1>5. CASE Begin
  BY <1>1, <1>2, <1>5 DEF Begin
<1>6. CASE Check
  <2>1. CASE pc' = "sample"
    <3>1. starts' = Append(starts, clock) /\ ~stop
      BY <1>6, <2>1 DEF Check
    <3>2. Last' = Last + 1
      BY <1>1, <3>1, Appended
    <3> QED
      BY <1>1, <1>6, <2>1, <3>1, <3>2 DEF Check
  <2>2. CASE pc' # "sample"
    BY <1>1, <1>2, <1>6, <2>2 DEF Check
  <2> QED
    BY <2>1, <2>2
<1>7. CASE Sampled
  BY <1>1, <1>2, <1>7 DEF Sampled
<1>8. CASE Throws
  BY <1>1, <1>2, <1>8 DEF Throws
<1>9. CASE Handle
  <2>1. late = 0
    BY <1>1, <1>9 DEF Handle
  <2> QED
    BY <1>1, <1>2, <1>9, <2>1 DEF Handle
<1>10. CASE Plan
  BY <1>1, <1>2, <1>10 DEF Plan
<1>11. CASE Sleep
  BY <1>1, <1>2, <1>11 DEF Sleep, Earlier
<1>12. CASE Wake
  BY <1>1, <1>2, <1>12 DEF Wake
<1>13. CASE UNCHANGED vars
  BY <1>1, <1>2, <1>13 DEF vars
<1> QED
  BY <1>3, <1>4, <1>5, <1>6, <1>7, <1>8, <1>9, <1>10, <1>11, <1>12, <1>13 DEF Next

----------------------------------------------------------------------------
(***************************************************************************)
(* The loop's state is well formed, and the last sample is recognised.     *)
(***************************************************************************)
THEOREM LoopTypeCorrect == Spec => []TypeOK
<1>1. Pace => TypeOK
  BY DEF Pace
<1> QED
  BY <1>1, InitPace, PaceStep, PTL DEF Spec

(***************************************************************************)
(* EngineLoop.cpp:79-80 - no burst makes up for missed periods.            *)
(***************************************************************************)
THEOREM NoBurst == Spec => []PeriodNeverBeaten
<1>1. Pace => PeriodNeverBeaten
  BY DEF Pace
<1> QED
  BY <1>1, InitPace, PaceStep, PTL DEF Spec

(***************************************************************************)
(* EngineLoop.cpp:35-37 - without late samples nothing drifts: the k-th    *)
(* sample is due k periods after the first.                                *)
(***************************************************************************)
THEOREM NoDrift == Spec => []FixedPeriod
<1>1. Pace => FixedPeriod
  BY DEF Pace, Followed, FixedPeriod
<1> QED
  BY <1>1, InitPace, PaceStep, PTL DEF Spec

(***************************************************************************)
(* EngineLoop::stop - one sample at most is handed over after a stop, and  *)
(* a sleeping loop notices it after one slice of sleep.                    *)
(***************************************************************************)
THEOREM StopsInTime == Spec => []StopHeeded
<1>1. Stopping => StopHeeded
  BY DEF Stopping, StopHeeded, OneAfterStop, Last
<1> QED
  BY <1>1, InitPace, PaceStep, StopStep, PTL DEF Spec

----------------------------------------------------------------------------
(***************************************************************************)
(* THE TABLE OF RUN TIMES keeps its types, no process is ever said to have *)
(* run on a core for longer than the window, and no time is lost.          *)
(***************************************************************************)
(***************************************************************************)
(* Why the share is in the window: a core's slice under way begins inside  *)
(* the window, and what its processes were given so far lies before it.  A *)
(* late event could move the beginning back, but not behind the core's own *)
(* last event unless that one lies before the window, where nothing has    *)
(* been credited yet.                                                      *)
(***************************************************************************)
SliceInWindow ==
    \A c \in Cores : running[c].since # NoTime =>
        /\ windowStart <= running[c].since
        /\ running[c].since <= Later(lastTs[c], windowStart)
        /\ \A p \in Pids : ticks[<<p, c>>] <= running[c].since - windowStart

NoSliceNoTicks ==
    \A c \in Cores : running[c].since = NoTime => \A p \in Pids : ticks[<<p, c>>] = 0

TableClock ==
    /\ windowStart <= latest
    /\ \A c \in Cores : lastTs[c] <= latest
    /\ ~seen => \A c \in Cores : running[c].since = NoTime

TableInv == TableTypeOK /\ TableClock /\ SliceInWindow /\ NoSliceNoTicks /\ ShareInWindow

----------------------------------------------------------------------------
\* The later of two times.
LEMMA LaterBounds ==
    ASSUME NEW a \in Nat, NEW b \in Nat
    PROVE  Later(a, b) \in Nat /\ a <= Later(a, b) /\ b <= Later(a, b)
BY DEF Later

\* The length credited to a process is a natural number, and no more than
\* what lies between the beginning of the slice and `until'.
LEMMA CreditBounds ==
    ASSUME TableTypeOK, NEW p, NEW c \in Cores, NEW until \in Nat
    PROVE  /\ Credit(p, c, until) \in Nat
           /\ running[c].since = NoTime => Credit(p, c, until) = 0
           /\ running[c].since # NoTime /\ until > running[c].since
                => Credit(p, c, until) <= until - running[c].since
           /\ running[c].since # NoTime /\ until <= running[c].since
                => Credit(p, c, until) = 0
<1>1. running[c].since \in Nat \cup {NoTime}
  BY DEF TableTypeOK, Slice
<1> QED
  BY <1>1, SMT DEF Credit, Length, NoTime

\* The process that a thread is known to belong to.
LEMMA LookupType ==
    ASSUME TableTypeOK, NEW t
    PROVE  Lookup(t) \in Pids \cup {NoPid}
BY DEF TableTypeOK, Lookup

\* The initial state satisfies the invariant.
LEMMA TableInitInv == TableInit => TableInv
<1> SUFFICES ASSUME TableInit PROVE TableInv
  OBVIOUS
<1>1. NoSlice \in Slice
  BY DEF NoSlice, Slice, Idle, NoPid, NoTime
<1>2. TableTypeOK
  BY <1>1 DEF TableInit, TableTypeOK, Times, NoPid
<1>3. \A c \in Cores : running[c].since = NoTime
  BY DEF TableInit, NoSlice
<1>4. TableClock
  BY <1>3 DEF TableInit, TableClock
<1>5. SliceInWindow /\ NoSliceNoTicks
  BY <1>3 DEF TableInit, SliceInWindow, NoSliceNoTicks
<1>6. ShareInWindow
  BY DEF TableInit, ShareInWindow
<1> QED
  BY <1>2, <1>4, <1>5, <1>6 DEF TableInv

\* A context switch preserves the invariant.
LEMMA ContextSwitchInv ==
    ASSUME TableInv, NEW c \in Cores, NEW t \in Tids \cup {Idle}, NEW ts \in 0..MaxTime,
           ContextSwitch(c, t, ts)
    PROVE  TableInv'
<1> USE TableAssumption
<1>1. TableTypeOK /\ ts \in Nat /\ lastTs[c] \in Nat /\ lastTs[c] <= ts
      /\ windowStart \in Nat /\ latest \in Nat /\ seen \in BOOLEAN
  BY DEF TableInv, TableTypeOK, ContextSwitch
<1>2. /\ windowStart' \in Nat /\ latest' \in Nat
      /\ windowStart' <= latest' /\ ts <= latest' /\ latest <= latest'
  BY <1>1 DEF TableInv, TableClock, ContextSwitch, Later
<1> DEFINE start == windowStart'
           slice == Opened(t, ts, start)
<1>3. /\ slice \in Slice /\ slice.since = Later(ts, start)
      /\ slice.since \in Nat /\ slice.since # NoTime
  <2>1. Later(ts, start) \in Nat
    BY <1>1, <1>2 DEF Later
  <2>2. t \in Tids \cup {Idle} /\ Lookup(t) \in Pids \cup {NoPid}
    BY <1>1, LookupType
  <2> QED
    BY <2>1, <2>2, SMT DEF Opened, Slice, NoTime
<1>4. running' = [running EXCEPT ![c] = slice]
  BY DEF ContextSwitch
<1> HIDE DEF slice
<1>5. \A d \in Cores : running'[d] = IF d = c THEN slice ELSE running[d]
  BY <1>1, <1>4 DEF TableTypeOK
<1>6. \A p \in Pids, d \in Cores :
         ticks'[<<p, d>>] = IF d = c THEN ticks[<<p, d>>] + Credit(p, d, ts)
                            ELSE ticks[<<p, d>>]
  BY DEF ContextSwitch
<1>7. \A p \in Pids, d \in Cores : Credit(p, d, ts) \in Nat
  BY <1>1, CreditBounds
<1>8. \A p \in Pids, d \in Cores : ticks[<<p, d>>] \in Nat
  BY <1>1 DEF TableTypeOK, Times
<1>9. TableTypeOK'
  <2>1. running' \in [Cores -> Slice]
    BY <1>1, <1>3, <1>4 DEF TableTypeOK
  <2>2. ticks' \in Times
    <3>1. \A pair \in Pids \X Cores :
             (IF pair[2] = c THEN ticks[pair] + Credit(pair[1], c, ts) ELSE ticks[pair]) \in Nat
      <4>1. \A pair \in Pids \X Cores :
               pair[1] \in Pids /\ pair[2] \in Cores /\ pair = <<pair[1], pair[2]>>
        OBVIOUS
      <4>2. \A pair \in Pids \X Cores : ticks[pair] \in Nat /\ Credit(pair[1], c, ts) \in Nat
        BY <1>7, <1>8, <4>1
      <4> QED
        BY <4>2
    <3> QED
      BY <3>1 DEF ContextSwitch, Times
  <2>3. lastTs' \in [Cores -> Nat]
    BY <1>1 DEF TableTypeOK, ContextSwitch
  <2> QED
    BY <1>1, <1>2, <2>1, <2>2, <2>3 DEF TableTypeOK, ContextSwitch
<1>10. \A d \in Cores : lastTs'[d] = IF d = c THEN ts ELSE lastTs[d]
  BY <1>1 DEF TableTypeOK, ContextSwitch
<1>11. TableClock'
  <2>1. \A d \in Cores : lastTs[d] \in Nat /\ lastTs[d] <= latest
    BY <1>1 DEF TableTypeOK, TableInv, TableClock
  <2>2. \A d \in Cores : lastTs'[d] <= latest'
    BY <1>1, <1>2, <1>10, <2>1
  <2> QED
    BY <1>2, <2>2 DEF TableClock, ContextSwitch
<1>12. windowStart' = windowStart \/ (\A d \in Cores : running[d].since = NoTime)
  BY <1>1 DEF TableInv, TableClock, ContextSwitch
<1>13. SliceInWindow'
  <2> SUFFICES ASSUME NEW d \in Cores, running'[d].since # NoTime
               PROVE  /\ start <= running'[d].since
                      /\ running'[d].since <= Later(lastTs'[d], start)
                      /\ \A p \in Pids : ticks'[<<p, d>>] <= running'[d].since - start
    BY DEF SliceInWindow
  <2>1. CASE d # c
    <3>1. running'[d] = running[d] /\ lastTs'[d] = lastTs[d] /\ windowStart' = windowStart
      BY <1>5, <1>10, <1>12, <2>1
    <3>2. \A p \in Pids : ticks'[<<p, d>>] = ticks[<<p, d>>]
      BY <1>6, <2>1
    <3> QED
      BY <3>1, <3>2 DEF TableInv, SliceInWindow
  <2>2. CASE d = c
    <3>1. running'[d].since = Later(ts, start) /\ lastTs'[d] = ts
      BY <1>3, <1>5, <1>10, <2>2
    <3>2. ASSUME NEW p \in Pids PROVE ticks'[<<p, d>>] <= Later(ts, start) - start
      <4>1. ticks'[<<p, d>>] = ticks[<<p, c>>] + Credit(p, c, ts)
        BY <1>6, <2>2
      <4>2. ticks[<<p, c>>] \in Nat /\ Credit(p, c, ts) \in Nat
        BY <1>7, <1>8
      <4>3. CASE running[c].since = NoTime
        <5>1. ticks[<<p, c>>] = 0 /\ Credit(p, c, ts) = 0
          BY <1>1, <4>3, CreditBounds DEF TableInv, NoSliceNoTicks
        <5>2. 0 <= Later(ts, start) - start
          <6>1. Later(ts, start) \in Nat /\ start <= Later(ts, start)
            BY <1>1, <1>2, LaterBounds
          <6> QED
            BY <1>2, <6>1
        <5>3. ticks'[<<p, d>>] = 0
          BY <4>1, <5>1
        <5> QED
          BY <5>2, <5>3
      <4>4. CASE running[c].since # NoTime
        <5>1. windowStart' = windowStart
          BY <1>12, <4>4
        <5>2. /\ windowStart <= running[c].since
              /\ running[c].since <= Later(lastTs[c], windowStart)
              /\ ticks[<<p, c>>] <= running[c].since - windowStart
              /\ running[c].since \in Nat
          BY <1>1, <4>4, SMT DEF TableInv, SliceInWindow, TableTypeOK, Slice
        <5>3. CASE ts > running[c].since
          <6>1. Credit(p, c, ts) <= ts - running[c].since
            BY <1>1, <4>4, <5>3, CreditBounds
          <6> QED
            BY <1>1, <4>1, <4>2, <5>1, <5>2, <5>3, <6>1, SMT DEF Later
        <5>4. CASE ts <= running[c].since
          <6>1. Credit(p, c, ts) = 0
            BY <1>1, <4>4, <5>4, CreditBounds
          <6> QED
            BY <1>1, <4>1, <4>2, <5>1, <5>2, <5>4, <6>1, SMT DEF Later
        <5> QED
          BY <1>1, <5>2, <5>3, <5>4
      <4> QED
        BY <4>3, <4>4
    <3> QED
      BY <1>1, <1>2, <3>1, <3>2 DEF Later
  <2> QED
    BY <2>1, <2>2
<1>14. NoSliceNoTicks'
  <2> SUFFICES ASSUME NEW d \in Cores, running'[d].since = NoTime, NEW p \in Pids
               PROVE  ticks'[<<p, d>>] = 0
    BY DEF NoSliceNoTicks
  <2> QED
    BY <1>3, <1>5, <1>6 DEF TableInv, NoSliceNoTicks
<1>15. ShareInWindow'
  BY DEF TableInv, ShareInWindow, ContextSwitch
<1> QED
  BY <1>9, <1>11, <1>13, <1>14, <1>15 DEF TableInv

\* Closing a window preserves the invariant, and reports no more than it.
LEMMA DrainInv ==
    ASSUME TableInv, Drain
    PROVE  TableInv'
<1>1. TableTypeOK /\ windowStart \in Nat /\ latest \in Nat /\ windowStart <= latest
  BY DEF TableInv, TableTypeOK, TableClock
<1>2. /\ windowStart' = latest /\ latest' = latest /\ lastTs' = lastTs /\ seen' /\ seen
      /\ pidByTid' = pidByTid
  BY DEF Drain
<1>3. ASSUME NEW c \in Cores
      PROVE  /\ Carried(c) \in Slice
             /\ running'[c] = Carried(c)
             /\ running[c].since = NoTime <=> running'[c].since = NoTime
             /\ running[c].since # NoTime => running'[c].since = latest
  <2>1. running[c] \in Slice /\ running[c].since \in Nat \cup {NoTime}
    BY <1>1 DEF TableTypeOK, Slice
  <2>2. running'[c] = Carried(c)
    BY DEF Drain
  <2>3. CASE running[c].since = NoTime
    BY <2>1, <2>2, <2>3 DEF Carried
  <2>4. CASE running[c].since # NoTime
    <3>1. running[c].since <= latest
      <4>1. running[c].since <= Later(lastTs[c], windowStart) /\ lastTs[c] <= latest
        BY <2>4 DEF TableInv, SliceInWindow, TableClock
      <4>2. lastTs[c] \in Nat
        BY <1>1 DEF TableTypeOK
      <4> QED
        BY <1>1, <2>1, <2>4, <4>1, <4>2, SMT DEF Later
    <3>2. Later(running[c].since, latest) = latest
      BY <1>1, <2>1, <2>4, <3>1, SMT DEF Later
    <3>3. Carried(c) = [running[c] EXCEPT !.since = latest]
      BY <2>4, <3>2, Zenon DEF Carried
    <3>4. Carried(c) \in Slice /\ Carried(c).since = latest
      BY <1>1, <2>1, <3>3, SMT DEF Slice
    <3> QED
      BY <1>1, <2>2, <2>4, <3>4, SMT DEF NoTime
  <2> QED
    BY <2>3, <2>4
<1>4. \A p \in Pids, c \in Cores : ticks'[<<p, c>>] = 0
  BY DEF Drain
<1>5. \A pair \in Pids \X Cores : pair[1] \in Pids /\ pair[2] \in Cores /\ pair = <<pair[1], pair[2]>>
  OBVIOUS
<1>6. ASSUME NEW p \in Pids, NEW c \in Cores
      PROVE  /\ ticks[<<p, c>>] + Credit(p, c, latest) \in Nat
             /\ ticks[<<p, c>>] + Credit(p, c, latest) <= latest - windowStart
  <2>1. ticks[<<p, c>>] \in Nat /\ Credit(p, c, latest) \in Nat
    BY <1>1, CreditBounds DEF TableTypeOK, Times
  <2>2. CASE running[c].since = NoTime
    <3>1. ticks[<<p, c>>] = 0 /\ Credit(p, c, latest) = 0
      BY <1>1, <2>2, CreditBounds DEF TableInv, NoSliceNoTicks
    <3> QED
      BY <1>1, <3>1
  <2>3. CASE running[c].since # NoTime
    <3>1. /\ running[c].since \in Nat
          /\ windowStart <= running[c].since
          /\ running[c].since <= Later(lastTs[c], windowStart)
          /\ ticks[<<p, c>>] <= running[c].since - windowStart
      BY <1>1, <2>3, SMT DEF TableInv, SliceInWindow, TableTypeOK, Slice
    <3>2. lastTs[c] \in Nat /\ lastTs[c] <= latest
      BY <1>1 DEF TableInv, TableClock, TableTypeOK
    <3>3. CASE latest > running[c].since
      <4>1. Credit(p, c, latest) <= latest - running[c].since
        BY <1>1, <2>3, <3>3, CreditBounds
      <4> QED
        BY <1>1, <2>1, <3>1, <4>1
    <3>4. CASE latest <= running[c].since
      <4>1. Credit(p, c, latest) = 0
        BY <1>1, <2>3, <3>4, CreditBounds
      <4> QED
        BY <1>1, <2>1, <3>1, <3>2, <4>1 DEF Later
    <3> QED
      BY <1>1, <3>1, <3>3, <3>4
  <2> QED
    BY <2>2, <2>3
<1>7. Settled \in Times
  BY <1>5, <1>6, Zenon DEF Settled, Times
<1>8. mapping' = [window |-> latest - windowStart, times |-> Settled]
  BY DEF Drain
<1>9. TableTypeOK'
  <2>1. running' \in [Cores -> Slice]
    BY <1>3, Zenon DEF Drain
  <2>2. ticks' \in Times
    BY DEF Drain, Times
  <2>3. mapping' \in [window : Nat, times : Times]
    <3>1. latest - windowStart \in Nat
      BY <1>1
    <3> QED
      BY <1>7, <1>8, <3>1, Zenon
  <2> QED
    BY <1>1, <1>2, <2>1, <2>2, <2>3 DEF TableTypeOK
<1>10. TableClock'
  BY <1>1, <1>2 DEF TableInv, TableClock
<1>11. SliceInWindow'
  BY <1>1, <1>2, <1>3, <1>4 DEF TableInv, TableTypeOK, SliceInWindow, Later
<1>12. NoSliceNoTicks'
  BY <1>4 DEF NoSliceNoTicks
<1>13. ShareInWindow'
  <2> SUFFICES ASSUME NEW p \in Pids, NEW c \in Cores
               PROVE  mapping'.times[<<p, c>>] <= mapping'.window
    BY DEF ShareInWindow
  <2>1. Settled[<<p, c>>] = ticks[<<p, c>>] + Credit(p, c, latest)
    BY DEF Settled
  <2> QED
    BY <1>6, <1>8, <2>1
<1> QED
  BY <1>9, <1>10, <1>11, <1>12, <1>13 DEF TableInv

\* Every step preserves the invariant.
LEMMA TableNextInv == TableInv /\ [TableNext]_allTableVars => TableInv'
<1> SUFFICES ASSUME TableInv, [TableNext]_allTableVars PROVE TableInv'
  OBVIOUS
<1>1. ASSUME NEW p \in Pids, NEW t \in Tids, ThreadStarted(p, t) PROVE TableInv'
  BY <1>1 DEF ThreadStarted, TableInv, TableTypeOK, TableClock, SliceInWindow, NoSliceNoTicks, ShareInWindow
<1>2. ASSUME NEW t \in Tids, ThreadEnded(t) PROVE TableInv'
  BY <1>2 DEF ThreadEnded, TableInv, TableTypeOK, TableClock, SliceInWindow, NoSliceNoTicks, ShareInWindow, NoPid
<1>3. ASSUME NEW c \in Cores, NEW t \in Tids \cup {Idle}, NEW ts \in 0..MaxTime,
             ContextSwitch(c, t, ts)
      PROVE  TableInv'
  BY <1>3, ContextSwitchInv
<1>4. CASE Drain
  BY <1>4, DrainInv
<1>5. CASE UNCHANGED allTableVars
  BY <1>5 DEF allTableVars, tableVars, TableInv, TableTypeOK, TableClock, SliceInWindow, NoSliceNoTicks, ShareInWindow
<1> QED
  BY <1>1, <1>2, <1>3, <1>4, <1>5 DEF TableNext

----------------------------------------------------------------------------
(***************************************************************************)
(* The table is well formed: no time is negative and no window either.     *)
(***************************************************************************)
THEOREM TableTypeCorrect == TableSpec => []TableTypeOK
<1>1. TableInv => TableTypeOK
  BY DEF TableInv
<1> QED
  BY <1>1, TableInitInv, TableNextInv, PTL DEF TableSpec

(***************************************************************************)
(* No drain reports a process to have run on a core longer than its window,*)
(* so the share that core/MeasuredFlows.cpp divides out never exceeds 1.   *)
(***************************************************************************)
THEOREM ShareWithinWindow == TableSpec => []ShareInWindow
<1>1. TableInv => ShareInWindow
  BY DEF TableInv
<1> QED
  BY <1>1, TableInitInv, TableNextInv, PTL DEF TableSpec

----------------------------------------------------------------------------
(***************************************************************************)
(* Why no time is lost: a context switch credits the length of the slice   *)
(* under way to one process or to nobody, and the slice it opens begins    *)
(* where that length ends, although the event may be late.                 *)
(***************************************************************************)
Accounts ==
    /\ Conservation
    /\ began \in [Cores -> Int] /\ nobody \in [Cores -> Nat]
    /\ \A c \in Cores : running[c].since = NoTime => nobody[c] = 0

\* The times of the core by process.
Column(times, c) == [p \in Pids |-> times[<<p, c>>]]

LEMMA GivenIs ==
    ASSUME NEW times, NEW c
    PROVE  \E i : IsSum(i, Column(times, c), Pids) /\ Given(times, c) = i[Pids]
<1>. DEFINE iter[s \in SUBSET Pids] ==
                IF s = {} THEN 0
                ELSE LET x == CHOOSE x \in s : TRUE
                     IN  times[<<x, c>>] + iter[s \ {x}]
            Sums(i) == i = [s \in SUBSET Pids |->
                              IF s = {} THEN 0
                              ELSE times[<<First(s), c>>] + i[s \ {First(s)}]]
<1>1. Given(times, c) = iter[Pids]
  BY DEF Given, MapThenSumSet, MapThenFoldSet
<1>2. iter = CHOOSE i : Sums(i)
  BY DEF First
<1>. HIDE DEF iter
<1>3. \A i : IsSum(i, Column(times, c), Pids) <=> Sums(i)
  <2>1. \A s \in SUBSET Pids : s # {} => Column(times, c)[First(s)] = times[<<First(s), c>>]
    BY FirstFact DEF Column
  <2>2. ASSUME NEW i
        PROVE  [s \in SUBSET Pids |->
                  IF s = {} THEN 0 ELSE Column(times, c)[First(s)] + i[s \ {First(s)}]]
               = [s \in SUBSET Pids |->
                    IF s = {} THEN 0 ELSE times[<<First(s), c>>] + i[s \ {First(s)}]]
    BY <2>1
  <2>. QED  BY <2>2 DEF IsSum
<1>. HIDE DEF Sums
<1>4. \E i : Sums(i)
  BY <1>3, SumExists, TableAssumption
<1>5. Sums(iter)
  BY <1>2, <1>4
<1>. QED  BY <1>1, <1>3, <1>5

LEMMA GivenFacts ==
    ASSUME NEW times \in Times, NEW other \in Times, NEW c \in Cores
    PROVE  /\ Given(times, c) \in Nat
           /\ (\A p \in Pids : times[<<p, c>>] = 0) => Given(times, c) = 0
           /\ (\A p \in Pids : other[<<p, c>>] = times[<<p, c>>])
                => Given(other, c) = Given(times, c)
           /\ \A q \in Pids, d \in Nat :
                (\A p \in Pids : other[<<p, c>>] = times[<<p, c>>] + IF p = q THEN d ELSE 0)
                => Given(other, c) = Given(times, c) + d
<1>. DEFINE f == Column(times, c)
            g == Column(other, c)
<1>1. PICK i : IsSum(i, f, Pids) /\ Given(times, c) = i[Pids]
  BY GivenIs
<1>2. PICK j : IsSum(j, g, Pids) /\ Given(other, c) = j[Pids]
  BY GivenIs
<1>3. \A p \in Pids : /\ f[p] = times[<<p, c>>] /\ f[p] \in Nat
                      /\ g[p] = other[<<p, c>>] /\ g[p] \in Nat
  BY DEF Column, Times
<1>4. IsFiniteSet(Pids)
  BY TableAssumption
<1>. HIDE DEF f, g
<1>5. Given(times, c) \in Nat
  <2>1. \A p \in Pids : f[p] \in Nat
    BY <1>3
  <2>. QED  BY <1>1, <1>4, <2>1, SumNat
<1>6. ASSUME \A p \in Pids : times[<<p, c>>] = 0
      PROVE  Given(times, c) = 0
  <2>1. \A p \in Pids : f[p] = 0
    BY <1>3, <1>6
  <2>. QED  BY <1>1, <1>4, <2>1, SumZero
<1>7. ASSUME NEW q \in Pids, NEW d \in Nat,
             \A p \in Pids : other[<<p, c>>] = times[<<p, c>>] + IF p = q THEN d ELSE 0
      PROVE  Given(other, c) = Given(times, c) + d
  <2>1. ASSUME NEW p \in Pids
        PROVE  f[p] \in Int /\ g[p] = IF p = q THEN f[p] + d ELSE f[p]
    <3>1. g[p] = f[p] + IF p = q THEN d ELSE 0
      BY <1>3, <1>7
    <3>2. f[p] \in Nat
      BY <1>3
    <3>. QED  BY <3>1, <3>2
  <2>2. d \in Int
    OBVIOUS
  <2>3. j[Pids] = i[Pids] + d
    BY <1>1, <1>2, <1>4, <2>1, <2>2, SumChange
  <2>. QED  BY <1>1, <1>2, <2>3
<1>8. ASSUME \A p \in Pids : other[<<p, c>>] = times[<<p, c>>]
      PROVE  Given(other, c) = Given(times, c)
  <2>1. CASE Pids = {}
    BY <1>5, <1>6, <2>1, <1>2, <1>3, <1>4, SumZero
  <2>2. CASE Pids # {}
    <3>1. PICK q \in Pids : TRUE
      BY <2>2
    <3>2. \A p \in Pids : other[<<p, c>>] = times[<<p, c>>] + IF p = q THEN 0 ELSE 0
      BY <1>3, <1>8
    <3>. QED  BY <1>5, <1>7, <3>1, <3>2
  <2>. QED  BY <2>1, <2>2
<1>. QED  BY <1>5, <1>6, <1>7, <1>8

\* The length credited for the core goes to the slice's process, or to nobody.
LEMMA CreditGoes ==
    ASSUME TableTypeOK, NEW c \in Cores, NEW until \in Nat
    PROVE  /\ Length(c, until) \in Nat
           /\ PidOf(running[c]) \in Pids \cup {NoPid} /\ NoPid \notin Pids
           /\ \A p : Credit(p, c, until) = IF p = PidOf(running[c]) THEN Length(c, until) ELSE 0
<1>1. running[c] \in Slice /\ running[c].since \in Nat \cup {NoTime}
  BY DEF TableTypeOK, Slice
<1>2. Length(c, until) \in Nat
  BY <1>1, SMT DEF Length, NoTime
<1>3. NoPid \notin Pids
  BY TableAssumption DEF NoPid
<1>4. Lookup(running[c].tid) \in Pids \cup {NoPid} /\ running[c].pid \in Pids \cup {NoPid}
  BY <1>1, LookupType DEF Slice
<1>. QED  BY <1>2, <1>3, <1>4 DEF PidOf, Credit

LEMMA SwitchAccounts ==
    ASSUME TableInv, TableTypeOK', Accounts, NEW c \in Cores, NEW t \in Tids \cup {Idle},
           NEW ts \in 0..MaxTime, ContextSwitch(c, t, ts)
    PROVE  Accounts'
<1>1. /\ TableTypeOK /\ ts \in Nat /\ lastTs[c] \in Nat /\ lastTs[c] <= ts
      /\ windowStart \in Nat /\ ticks \in Times /\ ticks' \in Times
  BY TableAssumption DEF TableInv, TableTypeOK, ContextSwitch
<1>2. \A p \in Pids, d \in Cores :
         /\ ticks[<<p, d>>] \in Nat
         /\ ticks'[<<p, d>>] = IF d = c THEN ticks[<<p, d>>] + Credit(p, d, ts)
                               ELSE ticks[<<p, d>>]
  BY <1>1 DEF ContextSwitch, Times
<1>. DEFINE l == Length(c, ts)
            q == PidOf(running[c])
            since == running[c].since
            new == Later(ts, windowStart')
<1>3. /\ l \in Nat /\ q \in Pids \cup {NoPid} /\ NoPid \notin Pids
      /\ \A p : Credit(p, c, ts) = IF p = q THEN l ELSE 0
  BY <1>1, CreditGoes
<1>4. /\ windowStart' \in Nat /\ new \in Nat /\ new # NoTime
      /\ running' = [running EXCEPT ![c] = Opened(t, ts, windowStart')]
      /\ running'[c].since = new
      /\ \A d \in Cores \ {c} : running'[d] = running[d]
  <2>1. windowStart' \in Nat /\ running \in [Cores -> Slice]
    BY <1>1 DEF TableTypeOK
  <2>2. new \in Nat
    BY <1>1, <2>1 DEF Later
  <2>3. running' = [running EXCEPT ![c] = Opened(t, ts, windowStart')]
    BY DEF ContextSwitch
  <2>4. Opened(t, ts, windowStart').since = new
    BY DEF Opened
  <2>. HIDE DEF new
  <2>. QED  BY <2>1, <2>2, <2>3, <2>4, SMT DEF NoTime
<1>5. since \in Nat \cup {NoTime}
  BY <1>1 DEF TableTypeOK, Slice
<1>6. since # NoTime => windowStart' = windowStart /\ new = since + l
  <2>1. SUFFICES ASSUME since # NoTime PROVE windowStart' = windowStart /\ new = since + l
    OBVIOUS
  <2>2. windowStart' = windowStart
    BY <2>1 DEF TableInv, TableClock, ContextSwitch
  <2>3. windowStart <= since /\ since <= Later(lastTs[c], windowStart)
    BY <2>1 DEF TableInv, SliceInWindow
  <2>4. l = IF ts > since THEN ts - since ELSE 0
    BY <2>1 DEF Length
  <2>5. since \in Nat
    BY <1>5, <2>1
  <2>. HIDE DEF l, since
  <2>. QED  BY <1>1, <2>2, <2>3, <2>4, <2>5, SMT DEF Later
<1>7. /\ nobody \in [Cores -> Nat] /\ began \in [Cores -> Int]
      /\ nobody' = [nobody EXCEPT ![c] = @ + Credit(NoPid, c, ts)]
      /\ began' = IF since # NoTime THEN began ELSE [began EXCEPT ![c] = running'[c].since]
  BY DEF Accounts, ContextSwitch
<1>. HIDE DEF l, q, since, new
<1>8. /\ nobody'[c] = nobody[c] + (IF q = NoPid THEN l ELSE 0) /\ nobody[c] \in Nat
      /\ nobody' \in [Cores -> Nat]
      /\ \A d \in Cores \ {c} : nobody'[d] = nobody[d]
  BY <1>3, <1>7
<1>9. /\ began' \in [Cores -> Int] /\ began[c] \in Int
      /\ began'[c] = IF since # NoTime THEN began[c] ELSE new
      /\ \A d \in Cores \ {c} : began'[d] = began[d]
  BY <1>4, <1>7
<1>10. \A d \in Cores \ {c} : Given(ticks', d) = Given(ticks, d)
  <2>1. SUFFICES ASSUME NEW d \in Cores \ {c} PROVE Given(ticks', d) = Given(ticks, d)
    OBVIOUS
  <2>2. \A p \in Pids : ticks'[<<p, d>>] = ticks[<<p, d>>]
    BY <1>2
  <2>. QED  BY <1>1, <2>2, GivenFacts
<1>11. /\ Given(ticks, c) \in Nat
       /\ Given(ticks', c) = Given(ticks, c) + IF q = NoPid THEN 0 ELSE l
  <2>1. Given(ticks, c) \in Nat
    BY <1>1, GivenFacts
  <2>2. \A p \in Pids : ticks'[<<p, c>>] = ticks[<<p, c>>] + IF p = q THEN l ELSE 0
    BY <1>2, <1>3
  <2>3. CASE q = NoPid
    <3>1. \A p \in Pids : ticks'[<<p, c>>] = ticks[<<p, c>>]
      BY <1>2, <1>3, <2>2, <2>3
    <3>2. Given(ticks', c) = Given(ticks, c)
      BY <1>1, <3>1, GivenFacts
    <3>. QED  BY <2>1, <2>3, <3>2
  <2>4. CASE q \in Pids
    <3>1. Given(ticks', c) = Given(ticks, c) + l
      BY <1>1, <1>3, <2>2, <2>4, GivenFacts
    <3>. QED  BY <1>3, <2>1, <2>4, <3>1
  <2>. QED  BY <1>3, <2>3, <2>4
<1>12. began'[c] + nobody'[c] + Given(ticks', c) = running'[c].since
  <2>1. CASE since # NoTime
    <3>1. began[c] + nobody[c] + Given(ticks, c) = since
      BY <2>1 DEF Accounts, Conservation, since
    <3>2. since \in Nat
      BY <1>5, <2>1
    <3>. QED  BY <1>3, <1>4, <1>6, <1>8, <1>9, <1>11, <2>1, <3>1, <3>2
  <2>2. CASE since = NoTime
    <3>1. nobody[c] = 0
      BY <2>2 DEF Accounts, since
    <3>2. \A p \in Pids : ticks[<<p, c>>] = 0
      BY <2>2 DEF TableInv, NoSliceNoTicks, since
    <3>3. Given(ticks, c) = 0
      BY <1>1, <3>2, GivenFacts
    <3>4. l = 0
      BY <2>2 DEF Length, l, since
    <3>. QED  BY <1>4, <1>8, <1>9, <1>11, <2>2, <3>1, <3>3, <3>4
  <2>. QED  BY <2>1, <2>2
<1>13. ASSUME NEW d \in Cores
       PROVE  /\ running'[d].since # NoTime =>
                   began'[d] + nobody'[d] + Given(ticks', d) = running'[d].since
              /\ running'[d].since = NoTime => nobody'[d] = 0
  <2>1. CASE d = c
    BY <1>4, <1>12, <2>1
  <2>2. CASE d # c
    BY <1>4, <1>8, <1>9, <1>10, <2>2 DEF Accounts, Conservation
  <2>. QED  BY <2>1, <2>2
<1>. QED  BY <1>8, <1>9, <1>13 DEF Accounts, Conservation

LEMMA DrainAccounts ==
    ASSUME TableInv, TableInv', Accounts, Drain
    PROVE  Accounts'
<1>1. TableTypeOK' /\ latest \in Nat /\ ticks' \in Times
  BY DEF TableInv, TableTypeOK
<1>2. /\ \A p \in Pids, c \in Cores : ticks'[<<p, c>>] = 0
      /\ nobody' = [c \in Cores |-> 0] /\ running' = [c \in Cores |-> Carried(c)]
      /\ began' = [c \in Cores |-> IF running[c].since = NoTime THEN NoTime ELSE latest]
      /\ windowStart' = latest /\ lastTs' = lastTs /\ latest' = latest
  BY DEF Drain
<1>3. ASSUME NEW c \in Cores
      PROVE  /\ Given(ticks', c) = 0
             /\ running'[c].since # NoTime => running[c].since # NoTime
                                              /\ running'[c].since = latest
  <2>1. Given(ticks', c) = 0
    BY <1>1, <1>2, GivenFacts
  <2>2. running'[c] = Carried(c)
    BY <1>2
  <2>3. CASE running[c].since = NoTime
    BY <2>1, <2>2, <2>3 DEF Carried
  <2>4. CASE running[c].since # NoTime
    <3>1. running'[c].since # NoTime =>
             latest <= running'[c].since /\ running'[c].since <= Later(lastTs[c], latest)
      BY <1>2 DEF TableInv, SliceInWindow
    <3>2. lastTs[c] <= latest /\ lastTs[c] \in Nat /\ running'[c].since \in Nat \cup {NoTime}
      BY <1>1, <1>2 DEF TableInv, TableClock, TableTypeOK, Slice
    <3>. QED  BY <1>1, <2>1, <2>4, <3>1, <3>2 DEF Later, NoTime
  <2>. QED  BY <2>3, <2>4
<1>4. began' \in [Cores -> Int] /\ nobody' \in [Cores -> Nat]
  BY <1>1, <1>2 DEF NoTime
<1>5. Conservation'
  <2>1. SUFFICES ASSUME NEW c \in Cores, running'[c].since # NoTime
                 PROVE  began'[c] + nobody'[c] + Given(ticks', c) = running'[c].since
    BY DEF Conservation
  <2>2. began'[c] = latest /\ nobody'[c] = 0
    BY <1>2, <1>3, <2>1
  <2>. QED  BY <1>1, <1>3, <2>1, <2>2
<1>. QED  BY <1>2, <1>4, <1>5 DEF Accounts

LEMMA AccountsStep == TableInv /\ TableInv' /\ Accounts /\ [TableNext]_allTableVars => Accounts'
<1>. SUFFICES ASSUME TableInv, TableInv', Accounts, [TableNext]_allTableVars PROVE Accounts'
  OBVIOUS
<1>1. CASE Drain
  BY <1>1, DrainAccounts
<1>2. ASSUME NEW c \in Cores, NEW t \in Tids \cup {Idle}, NEW ts \in 0..MaxTime,
             ContextSwitch(c, t, ts)
      PROVE  Accounts'
  BY <1>2, SwitchAccounts DEF TableInv
<1>3. CASE \/ \E p \in Pids, t \in Tids : ThreadStarted(p, t)
           \/ \E t \in Tids : ThreadEnded(t)
           \/ UNCHANGED allTableVars
  <2>1. UNCHANGED <<running, ticks, nobody, began>>
    BY <1>3 DEF ThreadStarted, ThreadEnded, allTableVars, tableVars
  <2>. QED  BY <2>1 DEF Accounts, Conservation
<1>. QED  BY <1>1, <1>2, <1>3 DEF TableNext

(***************************************************************************)
(* RunTimeTable.h, drain - whatever the order and loss of events, what the *)
(* processes and nobody were given of a core adds up to the time from the  *)
(* window's beginning to the slice under way: no time is lost or counted   *)
(* twice from one window to the next.                                      *)
(***************************************************************************)
THEOREM NoTimeLost == TableSpec => []Conservation
<1>1. TableInit => Accounts
  <2>1. SUFFICES ASSUME TableInit PROVE Accounts
    OBVIOUS
  <2>2. \A c \in Cores : running[c].since = NoTime
    BY <2>1 DEF TableInit, NoSlice
  <2>3. began \in [Cores -> Int] /\ nobody = [c \in Cores |-> 0]
    BY <2>1 DEF TableInit, NoTime
  <2>. QED  BY <2>2, <2>3 DEF Accounts, Conservation
<1>2. Accounts => Conservation
  BY DEF Accounts
<1>. QED  BY <1>1, <1>2, TableInitInv, TableNextInv, AccountsStep, PTL DEF TableSpec

----------------------------------------------------------------------------
(***************************************************************************)
(* THE NETWORK TRAFFIC.  What is shown was made of the window that was     *)
(* closed last, which has the bytes delivered before it was closed.        *)
(***************************************************************************)
Zero == [d \in Directions |-> 0]

\* The flows of a collector or of a window are those with bytes.
Holds(counts, bytes) ==
    /\ DOMAIN counts = {FlowKey(f) : f \in {f \in NetFlows : bytes[f] # Zero}}
    /\ \A f \in NetFlows : bytes[f] # Zero => counts[FlowKey(f)] = bytes[f]

TrafficInv ==
    /\ fresh \in [NetFlows -> [Directions -> Nat]]
    /\ past \in [NetFlows -> [Directions -> Nat]]
    /\ Holds(flows, fresh)
    /\ window.measured \in BOOLEAN
    /\ IF window.measured THEN Holds(window.flows, past) ELSE DOMAIN window.flows = {}
    /\ DOMAIN listed.tcp \subseteq {f \in NetFlows : f.protocol = "tcp"}
    /\ listed.udp \subseteq NetBinds
    /\ stage = "idle" => view = NetworkView(listed)

\* A flow is known by its key.
LEMMA KeyOfOne ==
    ASSUME NEW f \in NetFlows, NEW g \in NetFlows, FlowKey(f) = FlowKey(g)
    PROVE  f = g
BY TrafficAssumption

LEMMA CountedHolds ==
    ASSUME TrafficInv, NEW f \in NetFlows, NEW d \in Directions, OnEvent(f, d)
    PROVE  Holds(flows', fresh') /\ fresh' \in [NetFlows -> [Directions -> Nat]]
<1>. DEFINE k == FlowKey(f)
            old == IF k \in DOMAIN flows THEN flows[k] ELSE Zero
            new == [fresh[f] EXCEPT ![d] = fresh[f][d] + 1]
            noted == [l \in DOMAIN flows \cup {k} |->
                        IF l \in DOMAIN flows THEN flows[l] ELSE Zero]
<1>1. /\ fresh \in [NetFlows -> [Directions -> Nat]] /\ Holds(flows, fresh)
      /\ fresh[f] \in [Directions -> Nat]
  BY DEF TrafficInv
<1>2. flows' = Counted(noted, k, d) /\ fresh' = Counted(fresh, f, d)
  BY DEF OnEvent, Zero
<1>3. /\ fresh' = [fresh EXCEPT ![f] = new]
      /\ new \in [Directions -> Nat] /\ new # Zero
  <2>1. fresh[f][d] \in Nat /\ new[d] = fresh[f][d] + 1 /\ Zero[d] = 0
    BY <1>1 DEF Zero
  <2>2. new # Zero
    BY <2>1
  <2>. QED  BY <1>1, <1>2, <2>1, <2>2 DEF Counted
<1>4. old = fresh[f]
  <2>1. CASE k \in DOMAIN flows
    <3>1. PICK g \in NetFlows : fresh[g] # Zero /\ FlowKey(g) = k
      BY <1>1, <2>1 DEF Holds
    <3>2. g = f
      BY <3>1, KeyOfOne
    <3>. QED  BY <1>1, <2>1, <3>1, <3>2 DEF Holds
  <2>2. CASE k \notin DOMAIN flows
    BY <1>1, <2>2 DEF Holds
  <2>. QED  BY <2>1, <2>2
<1>5. /\ DOMAIN flows' = DOMAIN flows \cup {k}
      /\ flows'[k] = new
      /\ \A l \in DOMAIN flows \ {k} : flows'[l] = flows[l]
  <2>1. noted[k] = old
    OBVIOUS
  <2>2. DOMAIN noted = DOMAIN flows \cup {k}
        /\ \A l \in DOMAIN flows \ {k} : noted[l] = flows[l]
    OBVIOUS
  <2>. HIDE DEF noted, old
  <2>3. flows' = [noted EXCEPT ![k] = [noted[k] EXCEPT ![d] = noted[k][d] + 1]]
    BY <1>2 DEF Counted
  <2>. HIDE DEF k
  <2>. QED  BY <1>4, <2>1, <2>2, <2>3
<1>. HIDE DEF new
<1>6. /\ fresh'[f] = new /\ \A g \in NetFlows \ {f} : fresh'[g] = fresh[g]
      /\ fresh' \in [NetFlows -> [Directions -> Nat]]
  BY <1>1, <1>3
<1>7. \A g \in NetFlows \ {f} : FlowKey(g) # k
  BY KeyOfOne
<1>8. DOMAIN flows' = {FlowKey(g) : g \in {g \in NetFlows : fresh'[g] # Zero}}
  BY <1>1, <1>3, <1>5, <1>6, <1>7 DEF Holds
<1>9. ASSUME NEW g \in NetFlows, fresh'[g] # Zero
      PROVE  flows'[FlowKey(g)] = fresh'[g]
  <2>1. CASE g = f
    BY <1>5, <1>6, <2>1
  <2>2. CASE g # f
    BY <1>1, <1>5, <1>6, <1>7, <1>9, <2>2 DEF Holds
  <2>. QED  BY <2>1, <2>2
<1>. QED  BY <1>6, <1>8, <1>9 DEF Holds

LEMMA NothingHolds ==
    /\ NoBytes \in [NetFlows -> [Directions -> Nat]]
    /\ \A f \in NetFlows : NoBytes[f] = Zero
    /\ DOMAIN NoTraffic = {} /\ Holds(NoTraffic, NoBytes)
<1>1. \A f \in NetFlows : NoBytes[f] = Zero
  BY DEF NoBytes, Zero
<1>2. NoBytes \in [NetFlows -> [Directions -> Nat]]
  BY DEF NoBytes
<1>3. DOMAIN NoTraffic = {}
  BY DEF NoTraffic
<1>. QED  BY <1>1, <1>2, <1>3 DEF Holds

\* What is shown depends on the scan and on the window only.
LEMMA ViewFact ==
    ASSUME window' = window
    PROVE  \A scan : NetworkView(scan)' = NetworkView(scan)
<1>1. \A f : TcpConnection(f)' = TcpConnection(f)
  BY DEF TcpConnection
<1>2. \A scan, k : UdpConnections(scan, k)' = UdpConnections(scan, k)
  BY DEF UdpConnections
<1>. QED  BY <1>1, <1>2 DEF NetworkView

LEMMA TrafficStep == TrafficInv /\ [TrafficNext]_netVars => TrafficInv'
<1>. SUFFICES ASSUME TrafficInv, [TrafficNext]_netVars PROVE TrafficInv'
  OBVIOUS
<1>1. ASSUME NEW f \in NetFlows, NEW d \in Directions, OnEvent(f, d) PROVE TrafficInv'
  <2>1. Holds(flows', fresh') /\ fresh' \in [NetFlows -> [Directions -> Nat]]
    BY <1>1, CountedHolds
  <2>2. UNCHANGED <<stage, window, listed, view, past>>
    BY <1>1 DEF OnEvent
  <2>. QED  BY <2>1, <2>2, ViewFact DEF TrafficInv
<1>2. CASE TrafficEnds \/ UNCHANGED netVars
  <2>1. UNCHANGED <<flows, stage, window, listed, view, fresh, past>>
    BY <1>2 DEF TrafficEnds, netVars
  <2>. QED  BY <2>1, ViewFact DEF TrafficInv
<1>3. CASE Flush
  <2>1. Unmeasured.measured = FALSE /\ DOMAIN Unmeasured.flows = {}
    BY NothingHolds DEF Unmeasured
  <2>. QED  BY <1>3, <2>1 DEF Flush, TrafficInv
<1>4. CASE CloseWindow
  <2>1. Unmeasured.measured = FALSE /\ DOMAIN Unmeasured.flows = {}
    BY NothingHolds DEF Unmeasured
  <2>2. flows' = NoTraffic /\ past' = fresh /\ fresh' = NoBytes /\ stage' = "drained"
        /\ UNCHANGED listed
    BY <1>4 DEF CloseWindow, Exchanged
  <2>3. /\ window'.measured \in BOOLEAN
        /\ IF window'.measured THEN Holds(window'.flows, fresh) ELSE DOMAIN window'.flows = {}
    <3>1. CASE windowed
      BY <1>4, <3>1 DEF CloseWindow, TrafficInv
    <3>2. CASE ~windowed
      BY <1>4, <2>1, <3>2 DEF CloseWindow
    <3>. QED  BY <3>1, <3>2
  <2>. QED  BY <2>2, <2>3, NothingHolds DEF TrafficInv
<1>5. CASE AggregateTraffic
  <2>1. UNCHANGED <<flows, window, fresh, past>> /\ view' = NetworkView(listed')
    BY <1>5 DEF AggregateTraffic
  <2>2. /\ DOMAIN listed'.tcp \subseteq {f \in NetFlows : f.protocol = "tcp"}
        /\ listed'.udp \subseteq NetBinds
    <3>. DEFINE all == UNION {[rows -> {"active", "inactive"}] :
                                 rows \in SUBSET {f \in NetFlows : f.protocol = "tcp"}}
    <3>1. \A r \in all : DOMAIN r \subseteq {f \in NetFlows : f.protocol = "tcp"}
      OBVIOUS
    <3>. HIDE DEF all
    <3>2. listed' \in [tcp : all, udp : SUBSET NetBinds]
      BY <1>5 DEF AggregateTraffic, Scans, all
    <3>. QED  BY <3>1, <3>2
  <2>. QED  BY <2>1, <2>2, ViewFact DEF TrafficInv
<1>. QED  BY <1>1, <1>2, <1>3, <1>4, <1>5 DEF TrafficNext

\* The connections of the rows of TCP that are shown, and those of a UDP flow.
TcpShown(scan) == {TcpConnection(f) : f \in {f \in DOMAIN scan.tcp : scan.tcp[f] = "active"}}
UdpKeys == {k \in DOMAIN window.flows : k.protocol = "udp"}

LEMMA ViewIs ==
    ASSUME NEW scan, NEW c
    PROVE  c \in NetworkView(scan) <=>
             /\ Foreign(c)
             /\ \/ c \in TcpShown(scan)
                \/ \E k \in UdpKeys : c \in UdpConnections(scan, k)
BY DEF NetworkView, TcpShown, UdpKeys

\* A row of TCP is shown as the flow it is, with the bytes of the window.
LEMMA TcpFact ==
    ASSUME TrafficInv, NEW f \in DOMAIN listed.tcp
    PROVE  /\ f \in NetFlows /\ f.protocol = "tcp"
           /\ FlowKey(TcpConnection(f)) = FlowKey(f)
           /\ TcpConnection(f).protocol = "tcp"
           /\ TcpConnection(f).remote = f.remote
           /\ TcpConnection(f).bytes = IF window.measured THEN {past[f]} ELSE {}
<1>1. f \in NetFlows /\ f.protocol = "tcp"
  BY DEF TrafficInv
<1>. DEFINE b == CASE ~window.measured                  -> {}
                   [] FlowKey(f) \in DOMAIN window.flows -> {window.flows[FlowKey(f)]}
                   [] OTHER                             -> {[d \in Directions |-> 0]}
<1>2. TcpConnection(f) = [protocol |-> "tcp", pid |-> f.pid, local |-> f.local,
                          remote |-> f.remote, bytes |-> b]
  BY DEF TcpConnection, Connection
<1>3. b = IF window.measured THEN {past[f]} ELSE {}
  <2>1. CASE ~window.measured
    <3>1. DOMAIN window.flows = {}
      BY <2>1 DEF TrafficInv
    <3>. QED  BY <2>1, <3>1
  <2>2. CASE window.measured
    <3>1. Holds(window.flows, past)
      BY <2>2 DEF TrafficInv
    <3>2. CASE FlowKey(f) \in DOMAIN window.flows
      <4>1. PICK g \in NetFlows : past[g] # Zero /\ FlowKey(g) = FlowKey(f)
        BY <3>1, <3>2 DEF Holds
      <4>2. g = f
        BY <1>1, <4>1, KeyOfOne
      <4>3. window.flows[FlowKey(f)] = past[f]
        BY <3>1, <4>1, <4>2 DEF Holds
      <4>. QED  BY <2>2, <3>2, <4>3
    <3>3. CASE FlowKey(f) \notin DOMAIN window.flows
      <4>1. past[f] = Zero
        BY <1>1, <3>1, <3>3 DEF Holds
      <4>. QED  BY <2>2, <3>3, <4>1 DEF Zero
    <3>. QED  BY <3>2, <3>3
  <2>. QED  BY <2>1, <2>2
<1>. HIDE DEF b
<1>4. /\ TcpConnection(f).protocol = "tcp" /\ TcpConnection(f).pid = f.pid
      /\ TcpConnection(f).local = f.local /\ TcpConnection(f).remote = f.remote
      /\ TcpConnection(f).bytes = b
  BY <1>2
<1>. HIDE DEF TcpConnection
<1>5. FlowKey(TcpConnection(f)) = FlowKey(f)
  BY <1>1, <1>4 DEF FlowKey
<1>. QED  BY <1>1, <1>3, <1>4, <1>5

\* Two different ends are not one.
LEMMA PairFact ==
    ASSUME NEW a, NEW b, a # b
    PROVE  Cardinality({a, b}) # 1
<1>. DEFINE S == {a}
<1>1. IsFiniteSet(S) /\ Cardinality(S) = 1 /\ b \notin S /\ S \cup {b} = {a, b}
  BY FS_Singleton
<1>. HIDE DEF S
<1>2. Cardinality(S \cup {b}) = Cardinality(S) + 1
  BY <1>1, FS_AddElement
<1>. QED  BY <1>1, <1>2

\* The end a UDP flow's socket is at; the other is the remote one, unless both
\* are of a socket and the address of neither is known.
LEMMA LocalEndFact ==
    ASSUME TrafficInv, NEW f \in NetFlows
    PROVE  /\ \A e \in LocalEnds(listed, FlowKey(f)) : e \in {f.local, f.remote}
           /\ Matches(listed, f.pid, f.local) =>
                \/ LocalEnds(listed, FlowKey(f)) = {f.local}
                \/ /\ LocalEnds(listed, FlowKey(f)) = {}
                   /\ Matches(listed, f.pid, f.remote)
                   /\ f.local[1] \notin LocalAddresses(listed)
<1>. DEFINE k == FlowKey(f)
            matching == {e \in k.ends : Matches(listed, k.pid, e)}
            known == {e \in matching : e[1] \in LocalAddresses(listed)}
            ends == LocalEnds(listed, k)
<1>1. k.ends = {f.local, f.remote} /\ k.pid = f.pid /\ f.local # f.remote
  BY TrafficAssumption DEF FlowKey
<1>2. ends = CASE Cardinality(matching) = 1 -> matching
               [] Cardinality(known) = 1    -> known
               [] OTHER                     -> {}
  BY DEF LocalEnds
<1>3. f.remote[1] \notin LocalAddresses(listed)
  <2>1. \A g \in DOMAIN listed.tcp : g.local[1] # f.remote[1]
    BY TrafficAssumption DEF TrafficInv
  <2>2. \A s \in listed.udp : s[2] # AnyAddress => s[2] # f.remote[1]
    BY TrafficAssumption DEF TrafficInv
  <2>. QED  BY <2>1, <2>2 DEF LocalAddresses
<1>. HIDE DEF k, ends
<1>4. matching \subseteq {f.local, f.remote} /\ known \subseteq {f.local}
  BY <1>1, <1>3
<1>5. \A e \in ends : e \in {f.local, f.remote}
  BY <1>2, <1>4
<1>6. ASSUME Matches(listed, f.pid, f.local)
      PROVE  \/ ends = {f.local}
             \/ /\ ends = {} /\ Matches(listed, f.pid, f.remote)
                /\ f.local[1] \notin LocalAddresses(listed)
  <2>1. f.local \in matching
    BY <1>1, <1>6
  <2>2. CASE Matches(listed, f.pid, f.remote)
    <3>1. matching = {f.local, f.remote}
      BY <1>1, <1>6, <2>2
    <3>. HIDE DEF matching
    <3>2. Cardinality(matching) # 1
      BY <1>1, <3>1, PairFact
    <3>3. CASE f.local[1] \in LocalAddresses(listed)
      <4>1. known = {f.local}
        BY <1>4, <2>1, <3>3
      <4>2. Cardinality(known) = 1
        BY <4>1, FS_Singleton
      <4>. HIDE DEF known
      <4>. QED  BY <1>2, <3>2, <4>1, <4>2
    <3>4. CASE f.local[1] \notin LocalAddresses(listed)
      <4>1. known = {}
        BY <1>4, <3>4
      <4>. HIDE DEF known
      <4>2. Cardinality(known) # 1
        BY <4>1, FS_EmptySet
      <4>3. ends = {}
        BY <1>2, <3>2, <4>2
      <4>. QED  BY <2>2, <3>4, <4>3
    <3>. QED  BY <3>3, <3>4
  <2>3. CASE ~Matches(listed, f.pid, f.remote)
    <3>1. matching = {f.local}
      BY <1>1, <1>4, <2>1, <2>3
    <3>2. known = {} \/ known = {f.local}
      BY <1>4
    <3>. HIDE DEF matching, known
    <3>3. Cardinality(matching) = 1
      BY <3>1, FS_Singleton
    <3>4. Cardinality({}) = 0
      BY FS_EmptySet
    <3>5. Cardinality(known) = 1 => known = {f.local}
      BY <3>2, <3>4
    <3>6. ends = {f.local}
      BY <1>2, <3>1, <3>3, <3>5
    <3>. QED  BY <3>6
  <2>. QED  BY <2>2, <2>3
<1>. QED  BY <1>5, <1>6 DEF k, ends

\* A connection of a UDP flow has the flow's ends and the bytes of the window.
LEMMA UdpFact ==
    ASSUME TrafficInv, NEW k \in UdpKeys
    PROVE  \E f \in NetFlows :
              /\ k = FlowKey(f) /\ f.protocol = "udp" /\ past[f] # Zero /\ window.measured
              /\ \A c \in UdpConnections(listed, k) :
                    /\ FlowKey(c) = k /\ c.protocol = "udp" /\ c.bytes = {past[f]}
                    /\ c.local \in LocalEnds(listed, k)
                    /\ c.local = f.local => c.remote = f.remote
              /\ \A e \in LocalEnds(listed, k) :
                    \E c \in UdpConnections(listed, k) : c.local = e
              /\ \A c, d \in UdpConnections(listed, k) : c.local = d.local => c = d
<1>1. window.measured /\ Holds(window.flows, past)
  BY DEF TrafficInv, UdpKeys
<1>2. PICK f \in NetFlows : past[f] # Zero /\ FlowKey(f) = k
  BY <1>1 DEF Holds, UdpKeys
<1>3. /\ k.protocol = f.protocol /\ k.pid = f.pid /\ k.ends = {f.local, f.remote}
      /\ f.protocol = "udp" /\ f.local # f.remote
      /\ k = [protocol |-> f.protocol, pid |-> f.pid, ends |-> {f.local, f.remote}]
  BY <1>2, TrafficAssumption DEF FlowKey, UdpKeys
<1>4. window.flows[k] = past[f]
  BY <1>1, <1>2 DEF Holds
<1>. DEFINE other(e) == CHOOSE r \in k.ends : r # e
            conn(e) == [protocol |-> "udp", pid |-> k.pid, local |-> e,
                        remote |-> other(e), bytes |-> {past[f]}]
<1>5. UdpConnections(listed, k) = {conn(e) : e \in LocalEnds(listed, k)}
  BY <1>4 DEF UdpConnections, Connection
<1>6. \A e \in LocalEnds(listed, k) : e \in {f.local, f.remote}
  BY <1>2, LocalEndFact
<1>7. /\ other(f.local) = f.remote /\ other(f.remote) = f.local
  BY <1>3
<1>. HIDE DEF other
<1>8. ASSUME NEW e \in LocalEnds(listed, k)
      PROVE  /\ FlowKey(conn(e)) = k /\ conn(e).protocol = "udp"
             /\ conn(e).bytes = {past[f]} /\ conn(e).local = e
             /\ e = f.local => conn(e).remote = f.remote
  <2>1. {e, other(e)} = {f.local, f.remote}
    BY <1>6, <1>7
  <2>2. /\ conn(e).protocol = "udp" /\ conn(e).pid = k.pid /\ conn(e).local = e
        /\ conn(e).remote = other(e) /\ conn(e).bytes = {past[f]}
    OBVIOUS
  <2>. HIDE DEF conn
  <2>3. FlowKey(conn(e)) = k
    BY <1>3, <2>1, <2>2 DEF FlowKey
  <2>. QED  BY <1>7, <2>2, <2>3
<1>. HIDE DEF conn
<1>. DEFINE ends == LocalEnds(listed, k)
            made == UdpConnections(listed, k)
<1>9. made = {conn(e) : e \in ends}
  BY <1>5
<1>. HIDE DEF ends, made
<1>10. \A c \in made : \E e \in ends : c = conn(e)
  BY <1>9
<1>11. \A e \in ends : conn(e) \in made
  BY <1>9
<1>12. \A e \in ends : conn(e).local = e
  BY <1>8 DEF ends
<1>13. \A e \in ends : \E c \in made : c.local = e
  BY <1>11, <1>12
<1>14. \A c, d \in made : c.local = d.local => c = d
  BY <1>10, <1>12
<1>15. ASSUME NEW c \in made
       PROVE  /\ FlowKey(c) = k /\ c.protocol = "udp" /\ c.bytes = {past[f]}
              /\ c.local \in ends
              /\ c.local = f.local => c.remote = f.remote
  <2>1. PICK e \in ends : c = conn(e)
    BY <1>10
  <2>2. /\ FlowKey(conn(e)) = k /\ conn(e).protocol = "udp"
        /\ conn(e).bytes = {past[f]} /\ conn(e).local = e
        /\ e = f.local => conn(e).remote = f.remote
    BY <1>8 DEF ends
  <2>. QED  BY <2>1, <2>2
<1>. QED  BY <1>1, <1>2, <1>3, <1>13, <1>14, <1>15 DEF ends, made

LEMMA AtMostOne ==
    ASSUME NEW S, \A c, d \in S : c = d
    PROVE  Cardinality(S) <= 1
<1>1. CASE S = {}
  BY <1>1, FS_EmptySet
<1>2. CASE S # {}
  <2>1. PICK c : c \in S
    BY <1>2
  <2>2. S = {c}
    BY <2>1
  <2>3. Cardinality({c}) = 1
    BY FS_Singleton
  <2>. QED  BY <2>2, <2>3
<1>. QED  BY <1>1, <1>2

\* What is shown of a flow comes of its own row, or of its own bytes.
LEMMA ShownOwn ==
    ASSUME TrafficInv, stage = "idle", NEW c \in view
    PROVE  \E f \in NetFlows :
              /\ FlowKey(c) = FlowKey(f)
              /\ c.bytes = IF window.measured THEN {past[f]} ELSE {}
              /\ \/ /\ f.protocol = "tcp" /\ f \in DOMAIN listed.tcp
                    /\ c = TcpConnection(f)
                 \/ /\ f.protocol = "udp" /\ FlowKey(f) \in UdpKeys
                    /\ c \in UdpConnections(listed, FlowKey(f))
<1>1. view = NetworkView(listed)
  BY DEF TrafficInv
<1>2. CASE c \in TcpShown(listed)
  <2>1. PICK f \in DOMAIN listed.tcp : c = TcpConnection(f)
    BY <1>2 DEF TcpShown
  <2>. QED  BY <2>1, TcpFact
<1>3. ASSUME NEW k \in UdpKeys, c \in UdpConnections(listed, k)
      PROVE  \E f \in NetFlows :
                /\ FlowKey(c) = FlowKey(f)
                /\ c.bytes = IF window.measured THEN {past[f]} ELSE {}
                /\ f.protocol = "udp" /\ FlowKey(f) \in UdpKeys
                /\ c \in UdpConnections(listed, FlowKey(f))
  <2>1. PICK f \in NetFlows :
              /\ k = FlowKey(f) /\ f.protocol = "udp" /\ window.measured
              /\ FlowKey(c) = k /\ c.bytes = {past[f]}
    BY <1>3, UdpFact
  <2>. QED  BY <1>3, <2>1
<1>. QED  BY <1>1, <1>2, <1>3, ViewIs

LEMMA ListedTcp ==
    ASSUME TrafficInv, stage = "idle", NEW f \in NetFlows, f.protocol = "tcp",
           Listed(f), Foreign(f)
    PROVE  \A c : c \in Shown(f) <=> c = TcpConnection(f)
<1>1. f \in DOMAIN listed.tcp /\ listed.tcp[f] = "active"
  BY DEF Listed
<1>2. FlowKey(TcpConnection(f)) = FlowKey(f) /\ TcpConnection(f).remote = f.remote
  BY <1>1, TcpFact
<1>3. TcpConnection(f) \in view
  <2>1. Foreign(TcpConnection(f))
    BY <1>2 DEF Foreign
  <2>2. TcpConnection(f) \in TcpShown(listed)
    BY <1>1 DEF TcpShown
  <2>3. view = NetworkView(listed)
    BY DEF TrafficInv
  <2>. QED  BY <2>1, <2>2, <2>3, ViewIs
<1>4. ASSUME NEW c \in view, FlowKey(c) = FlowKey(f) PROVE c = TcpConnection(f)
  <2>1. PICK g \in NetFlows :
              /\ FlowKey(c) = FlowKey(g)
              /\ g.protocol = "tcp" => c = TcpConnection(g)
    BY ShownOwn
  <2>2. g = f
    BY <1>4, <2>1, KeyOfOne
  <2>. QED  BY <2>1, <2>2
<1>. DEFINE row == TcpConnection(f)
<1>5. row \in view /\ FlowKey(row) = FlowKey(f)
  BY <1>2, <1>3
<1>6. \A c \in view : FlowKey(c) = FlowKey(f) => c = row
  BY <1>4
<1>. HIDE DEF row
<1>7. \A c : c \in Shown(f) <=> c = row
  BY <1>5, <1>6 DEF Shown
<1>. QED  BY <1>7 DEF row

LEMMA ListedUdp ==
    ASSUME TrafficInv, stage = "idle", NEW f \in NetFlows, f.protocol = "udp",
           Listed(f), Foreign(f)
    PROVE  /\ \A c, d \in Shown(f) : c = d
           /\ \A c \in Shown(f) : c.remote = f.remote
           /\ \/ Shown(f) # {}
              \/ past[f] = NoBytes[f]
              \/ ~window.measured
              \/ /\ Matches(listed, f.pid, f.remote)
                 /\ f.local[1] \notin LocalAddresses(listed)
<1>. DEFINE k == FlowKey(f)
            made == UdpConnections(listed, k)
            ends == LocalEnds(listed, k)
            untold == /\ Matches(listed, f.pid, f.remote)
                      /\ f.local[1] \notin LocalAddresses(listed)
<1>1. \A c \in Shown(f) : k \in UdpKeys /\ c \in made
  <2>. SUFFICES ASSUME NEW c \in Shown(f) PROVE k \in UdpKeys /\ c \in made
    OBVIOUS
  <2>1. c \in view /\ FlowKey(c) = FlowKey(f)
    BY DEF Shown
  <2>2. PICK g \in NetFlows :
              /\ FlowKey(c) = FlowKey(g)
              /\ g.protocol = "udp" => FlowKey(g) \in UdpKeys
                                       /\ c \in UdpConnections(listed, FlowKey(g))
    BY <2>1, ShownOwn
  <2>3. g = f
    BY <2>1, <2>2, KeyOfOne
  <2>. QED  BY <2>2, <2>3
<1>2. ends = {f.local} \/ (ends = {} /\ untold)
  <2>1. Matches(listed, f.pid, f.local)
    BY DEF Listed
  <2>. QED  BY <2>1, LocalEndFact
<1>3. CASE k \notin UdpKeys
  <2>1. past[f] = NoBytes[f] \/ ~window.measured
    <3>1. SUFFICES ASSUME window.measured PROVE past[f] = Zero
      BY NothingHolds
    <3>2. Holds(window.flows, past)
      BY <3>1 DEF TrafficInv
    <3>3. k.protocol = "udp"
      BY DEF FlowKey
    <3>4. k \notin DOMAIN window.flows
      BY <1>3, <3>3 DEF UdpKeys
    <3>. QED  BY <3>2, <3>4 DEF Holds
  <2>. QED  BY <1>1, <1>3, <2>1
<1>4. CASE k \in UdpKeys
  <2>1. PICK g \in NetFlows :
              /\ k = FlowKey(g)
              /\ \A c \in made : /\ FlowKey(c) = k
                                 /\ c.local \in ends
                                 /\ c.local = g.local => c.remote = g.remote
              /\ \A e \in ends : \E c \in made : c.local = e
              /\ \A c, d \in made : c.local = d.local => c = d
    BY <1>4, UdpFact
  <2>2. g = f
    BY <2>1, KeyOfOne
  <2>3. \A c \in made : FlowKey(c) = k /\ c.local = f.local /\ c.remote = f.remote
    BY <1>2, <2>1, <2>2
  <2>4. \A c, d \in made : c = d
    BY <2>1, <2>3
  <2>5. ASSUME ends = {f.local} PROVE Shown(f) # {}
    <3>1. PICK c \in made : c.local = f.local
      BY <2>1, <2>5
    <3>2. Foreign(c) /\ FlowKey(c) = FlowKey(f)
      BY <2>3, <3>1 DEF Foreign
    <3>3. view = NetworkView(listed)
      BY DEF TrafficInv
    <3>4. c \in view
      BY <1>4, <3>1, <3>2, <3>3, ViewIs
    <3>. QED  BY <3>2, <3>4 DEF Shown
  <2>. QED  BY <1>1, <1>2, <2>3, <2>4, <2>5
<1>. QED  BY <1>3, <1>4

LEMMA HonestTraffic == TrafficInv => TrafficHonest
<1>. SUFFICES ASSUME TrafficInv PROVE TrafficHonest
  OBVIOUS
<1>1. BytesKept
  <2>1. Holds(flows, fresh)
    BY DEF TrafficInv
  <2>. QED  BY <2>1, NothingHolds DEF Holds, BytesKept
<1>2. ASSUME stage = "idle", NEW c \in view
      PROVE  \E f \in NetFlows : FlowKey(f) = FlowKey(c)
  BY <1>2, ShownOwn
<1>3. ASSUME stage = "idle", NEW f \in NetFlows, NEW c \in Shown(f)
      PROVE  c.bytes = IF window.measured THEN {past[f]} ELSE {}
  <2>1. c \in view /\ FlowKey(c) = FlowKey(f)
    BY DEF Shown
  <2>2. PICK g \in NetFlows :
              /\ FlowKey(c) = FlowKey(g)
              /\ c.bytes = IF window.measured THEN {past[g]} ELSE {}
    BY <1>3, <2>1, ShownOwn
  <2>3. g = f
    BY <2>1, <2>2, KeyOfOne
  <2>. QED  BY <2>2, <2>3
<1>4. ASSUME stage = "idle", NEW f \in NetFlows, Listed(f), Foreign(f)
      PROVE  /\ Cardinality(Shown(f)) <= 1
             /\ \A c \in Shown(f) : c.remote = f.remote
             /\ \/ Shown(f) # {}
                \/ f.protocol = "udp" /\ past[f] = NoBytes[f]
                \/ f.protocol = "udp" /\ ~window.measured
                \/ /\ Matches(listed, f.pid, f.remote)
                   /\ f.local[1] \notin LocalAddresses(listed)
  <2>1. CASE f.protocol = "tcp"
    <3>1. \A c : c \in Shown(f) <=> c = TcpConnection(f)
      BY <1>4, <2>1, ListedTcp
    <3>2. TcpConnection(f).remote = f.remote
      BY <1>4, <2>1, TcpFact DEF Listed
    <3>3. Cardinality(Shown(f)) <= 1
      BY <3>1, AtMostOne
    <3>. QED  BY <3>1, <3>2, <3>3
  <2>2. CASE f.protocol = "udp"
    <3>1. /\ \A c, d \in Shown(f) : c = d
          /\ \A c \in Shown(f) : c.remote = f.remote
          /\ \/ Shown(f) # {}
             \/ past[f] = NoBytes[f]
             \/ ~window.measured
             \/ /\ Matches(listed, f.pid, f.remote)
                /\ f.local[1] \notin LocalAddresses(listed)
      BY <1>4, <2>2, ListedUdp
    <3>2. Cardinality(Shown(f)) <= 1
      BY <3>1, AtMostOne
    <3>. QED  BY <2>2, <3>1, <3>2
  <2>. QED  BY <1>4, <2>1, <2>2 DEF Listed
<1>. QED  BY <1>1, <1>2, <1>3, <1>4 DEF TrafficHonest

LEMMA TrafficBegins == TrafficInit => TrafficInv
<1>. SUFFICES ASSUME TrafficInit PROVE TrafficInv
  OBVIOUS
<1>1. /\ flows = NoTraffic /\ stage = "idle" /\ window = Unmeasured
      /\ listed = [tcp |-> [f \in {} |-> "active"], udp |-> {}]
      /\ view = {} /\ fresh = NoBytes /\ past = NoBytes
  BY DEF TrafficInit
<1>2. Unmeasured.measured = FALSE /\ DOMAIN Unmeasured.flows = {}
  BY NothingHolds DEF Unmeasured
<1>3. DOMAIN listed.tcp = {} /\ listed.udp = {}
  BY <1>1
<1>4. NetworkView(listed) = {}
  <2>1. TcpShown(listed) = {}
    BY <1>3 DEF TcpShown
  <2>2. UdpKeys = {}
    BY <1>1, <1>2 DEF UdpKeys
  <2>. QED  BY <2>1, <2>2, ViewIs
<1>. QED  BY <1>1, <1>2, <1>3, <1>4, NothingHolds DEF TrafficInv

\* What is shown of a connection is what was counted for it since the last
\* window, each byte in one window, and a listed socket is shown once with the
\* right end as the remote one - whatever is counted, closed and listed between
\* (EtwNetworkCollector.cpp:209-216, NetworkAggregator.cpp:190-205).
THEOREM TrafficStaysHonest == TrafficSpec => []TrafficHonest
<1>1. TrafficInv /\ [TrafficNext]_netVars => TrafficInv'
  BY TrafficStep
<1>. QED  BY <1>1, TrafficBegins, HonestTraffic, PTL DEF TrafficSpec

----------------------------------------------------------------------------
\* A step of the engine is one of each of its parts, two of which rest.
LEMMA EngineSteps ==
    ASSUME [EngineNext]_<<part, vars, allTableVars, netVars>>
    PROVE  [Next]_vars /\ [TableNext]_allTableVars /\ [TrafficNext]_netVars
BY DEF EngineNext

(***************************************************************************)
(* The engine with its loop, its table and its traffic side by side does   *)
(* what each of them does alone, and keeps what each of them keeps.        *)
(***************************************************************************)
THEOREM EngineOfParts ==
    EngineSpec => /\ Spec /\ TableSpec /\ TrafficSpec
                  /\ []PeriodNeverBeaten /\ []StopHeeded
                  /\ []ShareInWindow /\ []Conservation /\ []TrafficHonest
<1>1. EngineInit => Init /\ TableInit /\ TrafficInit
  BY DEF EngineInit
<1>2. [EngineNext]_<<part, vars, allTableVars, netVars>> => [Next]_vars
  BY EngineSteps
<1>3. [EngineNext]_<<part, vars, allTableVars, netVars>> => [TableNext]_allTableVars
  BY EngineSteps
<1>4. [EngineNext]_<<part, vars, allTableVars, netVars>> => [TrafficNext]_netVars
  BY EngineSteps
<1>5. EngineSpec => Spec /\ TableSpec /\ TrafficSpec
  BY <1>1, <1>2, <1>3, <1>4, PTL DEF EngineSpec, Spec, TableSpec, TrafficSpec
<1>. QED  BY <1>5, NoBurst, StopsInTime, ShareWithinWindow, NoTimeLost, TrafficStaysHonest, PTL
=============================================================================
