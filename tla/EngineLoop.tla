----------------------------- MODULE EngineLoop -----------------------------
(***************************************************************************)
(* The sampling loop (engine/src/app/EngineLoop.cpp) against a clock that  *)
(* goes on between any two of its steps: a sample takes as long as it      *)
(* takes, a sleep may overrun, and stop() comes from another thread.       *)
(***************************************************************************)
EXTENDS Integers, Sequences

CONSTANTS Interval,   \* cfg_.interval_ms, in units of the clock
          Iterations, \* cfg_.iterations, 0 for an endless loop
          SleepSlice, \* kSleepSliceMs
          MaxClock    \* bound: the last instant of the clock

ASSUME LoopAssumption ==
    /\ Interval \in Nat /\ Iterations \in Nat /\ MaxClock \in Nat
    /\ SleepSlice \in Nat \ {0}

VARIABLES clock,     \* steady_clock
          pc,        \* where the sampling thread is in run()
          n,         \* samples already handed over
          nextStart, \* next_start
          wake,      \* until when sleep_for sleeps
          stop,      \* stop_requested_
          error,     \* error_ is not empty
          starts,    \* history: when each sample was begun
          stoppedAt, \* history: when stop() was called first
          overrun,   \* history: a sample has lasted longer than its period
          late       \* history: samples handed over after stop()

vars == <<clock, pc, n, nextStart, wake, stop, error,
          starts, stoppedAt, overrun, late>>

Earlier(a, b) == IF a < b THEN a ELSE b

----------------------------------------------------------------------------
Init ==
    /\ clock = 0 /\ pc = "begin" /\ n = 0 /\ nextStart = 0 /\ wake = 0
    /\ stop = FALSE /\ error = FALSE
    /\ starts = <<>> /\ stoppedAt = 0 /\ overrun = FALSE /\ late = 0

Tick ==
    /\ clock < MaxClock
    /\ clock' = clock + 1
    /\ UNCHANGED <<pc, n, nextStart, wake, stop, error, starts, stoppedAt, overrun, late>>

\* stop(), from the signal handler or the end of runServe.
RequestStop ==
    /\ ~stop
    /\ stop' = TRUE
    /\ stoppedAt' = clock
    /\ UNCHANGED <<clock, pc, n, nextStart, wake, error, starts, overrun, late>>

Begin ==
    /\ pc = "begin"
    /\ pc' = "check"
    /\ nextStart' = clock
    /\ UNCHANGED <<clock, n, wake, stop, error, starts, stoppedAt, overrun, late>>

\* Mutant: only the sleep notices the stop.
CheckUnstopped ==
    /\ pc = "check"
    /\ pc' = "sample" /\ starts' = Append(starts, clock)
    /\ UNCHANGED <<clock, n, nextStart, wake, stop, error, stoppedAt, overrun, late>>

\* The head of the loop: end it, or begin a sample.
Check ==
    /\ pc = "check"
    /\ IF stop \/ (Iterations # 0 /\ n >= Iterations)
       THEN pc' = "done" /\ starts' = starts
       ELSE pc' = "sample" /\ starts' = Append(starts, clock)
    /\ UNCHANGED <<clock, n, nextStart, wake, stop, error, stoppedAt, overrun, late>>

\* Drain, read, aggregate and scan; the loop's own state is left alone.
Sampled ==
    /\ pc = "sample"
    /\ pc' = "handle"
    /\ UNCHANGED <<clock, n, nextStart, wake, stop, error, starts, stoppedAt, overrun, late>>

Throws ==
    /\ pc \in {"sample", "handle"}
    /\ pc' = "done"
    /\ error' = TRUE
    /\ UNCHANGED <<clock, n, nextStart, wake, stop, starts, stoppedAt, overrun, late>>

IsLast == Iterations # 0 /\ n + 1 = Iterations

\* handler_(snapshot), and what follows up to reading the clock.
Handle ==
    /\ pc = "handle"
    /\ late' = IF stop THEN late + 1 ELSE late
    /\ IF IsLast
       THEN pc' = "done" /\ UNCHANGED <<n, nextStart>>
       ELSE pc' = "plan" /\ nextStart' = nextStart + Interval /\ n' = n + 1
    /\ UNCHANGED <<clock, wake, stop, error, starts, stoppedAt, overrun>>

\* Mutant: the periods missed are made up for.
PlanCatchingUp ==
    /\ pc = "plan"
    /\ pc' = IF nextStart <= clock THEN "check" ELSE "sleep"
    /\ overrun' = (overrun \/ nextStart <= clock)
    /\ UNCHANGED <<clock, n, nextStart, wake, stop, error, starts, stoppedAt, late>>

Plan ==
    /\ pc = "plan"
    /\ IF nextStart <= clock
       THEN pc' = "check" /\ nextStart' = clock /\ overrun' = TRUE
       ELSE pc' = "sleep" /\ UNCHANGED <<nextStart, overrun>>
    /\ UNCHANGED <<clock, n, wake, stop, error, starts, stoppedAt, late>>

\* The head of the loop in sleepUntil(): the flag and the clock are read at one
\* instant; a thread delayed between the two is one that is delayed after them.
Sleep ==
    /\ pc = "sleep"
    /\ IF stop \/ clock >= nextStart
       THEN pc' = "check" /\ wake' = wake
       ELSE pc' = "nap" /\ wake' = Earlier(nextStart, clock + SleepSlice)
    /\ UNCHANGED <<clock, n, nextStart, stop, error, starts, stoppedAt, overrun, late>>

Wake ==
    /\ pc = "nap" /\ clock >= wake
    /\ pc' = "sleep"
    /\ UNCHANGED <<clock, n, nextStart, wake, stop, error, starts, stoppedAt, overrun, late>>

Next == \/ Tick \/ RequestStop
        \/ Begin \/ Check \/ Sampled \/ Throws \/ Handle \/ Plan \/ Sleep \/ Wake

Spec == Init /\ [][Next]_vars

----------------------------------------------------------------------------
\* The loop's state is well formed: the samples handed over stay below the
\* limit while the loop goes on, so that its last one is always recognised.
TypeOK ==
    /\ clock \in Nat /\ nextStart \in Nat /\ wake \in Nat
    /\ stoppedAt \in Nat /\ late \in Nat /\ n \in Nat
    /\ pc \in {"begin", "check", "sample", "handle", "plan", "sleep", "nap", "done"}
    /\ stop \in BOOLEAN /\ error \in BOOLEAN /\ overrun \in BOOLEAN
    /\ starts \in Seq(Nat)
    /\ Iterations # 0 => n < Iterations

(***************************************************************************)
(* EngineLoop.cpp:79-80 - missed periods are not made up for in a burst:   *)
(* a sample begins at least as many periods after an earlier one as there  *)
(* are samples between them, whatever was late.                            *)
(***************************************************************************)
PeriodNeverBeaten ==
    \A i, j \in 1..Len(starts) :
        i < j => starts[i] + (j - i - 1) * Interval <= starts[j]

(***************************************************************************)
(* EngineLoop.cpp:35-37 - the period counts from the beginning of a sample *)
(* and not from its end: as long as every sample fits into its period, the *)
(* k-th one is due k periods after the first and no later.                 *)
(***************************************************************************)
FixedPeriod ==
    pc \in {"plan", "sleep", "nap"} /\ ~overrun =>
        nextStart <= starts[1] + n * Interval

(***************************************************************************)
(* EngineLoop::stop - no sample is begun once the loop could see the stop, *)
(* and at most the one under way is still handed over.                     *)
(***************************************************************************)
OneAfterStop ==
    /\ late <= 1
    /\ late = 1 => starts[Len(starts)] <= stoppedAt

\* EngineLoop.cpp:17-18 - a stop waits for one slice of sleep at most.
PromptStop == pc = "nap" /\ stop => wake <= stoppedAt + SleepSlice

\* Both: what a caller of stop() may rely on.
StopHeeded == OneAfterStop /\ PromptStop
=============================================================================
