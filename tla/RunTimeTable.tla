---------------------------- MODULE RunTimeTable ----------------------------
(***************************************************************************)
(* The table of run times (engine/src/core/RunTimeTable.cpp) that turns    *)
(* context switches into time per process and core, window after window.   *)
(* The collector's mutex makes each of its calls one step.                 *)
(*                                                                         *)
(* Events of one core arrive in the order of their times.  Between cores   *)
(* the buffers are merged in any order, so an event may be older than the  *)
(* newest one seen, and older than the window.  Any event may be lost.     *)
(***************************************************************************)
EXTENDS Integers, FiniteSets, FiniteSetsExt

CONSTANTS Pids, Tids, Cores, \* processes and threads are positive numbers
          MaxTime            \* bound: times of events

ASSUME TableAssumption ==
    /\ Pids \subseteq Nat \ {0} /\ IsFiniteSet(Pids)
    /\ Tids \subseteq Nat \ {0}
    /\ MaxTime \in Nat

Idle   == 0 \* thread 0 of every core
NoPid  == 0 \* not known, or Idle
NoTime == -1

VARIABLES pidByTid, \* pid_by_tid_, NoPid where there is no entry
          running,  \* running_: the slice under way on each core
          ticks,    \* ticks_
          seen, latest, windowStart,
          mapping,  \* what the last drain returned
          lastTs,   \* history: time of each core's last event
          nobody,   \* history: time of the window credited to no process
          began     \* history: where the window begins for each core

tableVars == <<pidByTid, running, ticks, seen, latest, windowStart, mapping>>
allTableVars == <<tableVars, lastTs, nobody, began>>

Slice == [tid : Tids \cup {Idle}, pid : Pids \cup {NoPid},
          since : Nat \cup {NoTime}]

NoSlice == [tid |-> Idle, pid |-> NoPid, since |-> NoTime]

Later(a, b) == IF a < b THEN b ELSE a

Lookup(t) == IF t \in Tids THEN pidByTid[t] ELSE NoPid

PidOf(slice) == IF Lookup(slice.tid) # NoPid THEN Lookup(slice.tid) ELSE slice.pid

\* credit(): the length of the core's slice up to `until' if it is positive.
Length(c, until) ==
    IF running[c].since # NoTime /\ until > running[c].since
    THEN until - running[c].since ELSE 0

Credit(p, c, until) == IF PidOf(running[c]) = p THEN Length(c, until) ELSE 0

----------------------------------------------------------------------------
ThreadStarted(p, t) ==
    /\ pidByTid' = [pidByTid EXCEPT ![t] = p]
    /\ UNCHANGED <<running, ticks, seen, latest, windowStart, mapping,
                   lastTs, nobody, began>>

ThreadEnded(t) ==
    /\ pidByTid' = [pidByTid EXCEPT ![t] = NoPid]
    /\ UNCHANGED <<running, ticks, seen, latest, windowStart, mapping,
                   lastTs, nobody, began>>

\* Mutant: a late event opens its slice before the window.
OpenedUnclamped(t, ts, start) ==
    [tid |-> t, pid |-> Lookup(t), since |-> ts]

\* The slice that an event at ts opens, not before the window begins.
Opened(t, ts, start) ==
    [tid |-> t, pid |-> Lookup(t), since |-> Later(ts, start)]

ContextSwitch(c, t, ts) ==
    /\ lastTs[c] <= ts
    /\ seen' = TRUE
    /\ windowStart' = IF seen THEN windowStart ELSE ts
    /\ latest' = Later(latest, ts)
    /\ ticks' = [pair \in Pids \X Cores |->
                   IF pair[2] = c THEN ticks[pair] + Credit(pair[1], c, ts) ELSE ticks[pair]]
    /\ running' = [running EXCEPT ![c] = Opened(t, ts, windowStart')]
    /\ lastTs' = [lastTs EXCEPT ![c] = ts]
    /\ nobody' = [nobody EXCEPT ![c] = @ + Credit(NoPid, c, ts)]
    /\ began' = IF running[c].since # NoTime THEN began
                ELSE [began EXCEPT ![c] = running'[c].since]
    /\ UNCHANGED <<pidByTid, mapping>>

\* The ticks once every slice under way is credited up to the newest event.
Settled == [pair \in Pids \X Cores |-> ticks[pair] + Credit(pair[1], pair[2], latest)]

\* Mutant: a slice is credited and carried over as if it were not.
CarriedStale(c) == running[c]

\* The slice under way on the core goes on from the newest event.
Carried(c) ==
    IF running[c].since = NoTime THEN running[c]
    ELSE [running[c] EXCEPT !.since = Later(@, latest)]

Drain ==
    /\ seen
    /\ mapping' = [window |-> latest - windowStart, times |-> Settled]
    /\ ticks' = [pair \in Pids \X Cores |-> 0]
    /\ running' = [c \in Cores |-> Carried(c)]
    /\ windowStart' = latest
    /\ nobody' = [c \in Cores |-> 0]
    /\ began' = [c \in Cores |-> IF running[c].since = NoTime THEN NoTime ELSE latest]
    /\ UNCHANGED <<pidByTid, seen, latest, lastTs>>

TableInit ==
    /\ pidByTid = [t \in Tids |-> NoPid]
    /\ running = [c \in Cores |-> NoSlice]
    /\ ticks = [pair \in Pids \X Cores |-> 0]
    /\ seen = FALSE /\ latest = 0 /\ windowStart = 0
    /\ mapping = [window |-> 0, times |-> ticks]
    /\ lastTs = [c \in Cores |-> 0]
    /\ nobody = [c \in Cores |-> 0]
    /\ began = [c \in Cores |-> NoTime]

TableNext ==
    \/ \E p \in Pids, t \in Tids : ThreadStarted(p, t)
    \/ \E t \in Tids : ThreadEnded(t)
    \/ \E c \in Cores, t \in Tids \cup {Idle}, ts \in 0..MaxTime : ContextSwitch(c, t, ts)
    \/ Drain

TableSpec == TableInit /\ [][TableNext]_allTableVars

----------------------------------------------------------------------------
Times == [Pids \X Cores -> Nat]

\* The table is well formed.
TableTypeOK ==
    /\ pidByTid \in [Tids -> Pids \cup {NoPid}]
    /\ running \in [Cores -> Slice]
    /\ ticks \in Times
    /\ seen \in BOOLEAN /\ latest \in Nat /\ windowStart \in Nat
    /\ mapping \in [window : Nat, times : Times]
    /\ lastTs \in [Cores -> Nat]

(***************************************************************************)
(* No process is reported to have run longer on a core than the window     *)
(* lasts, whatever arrived late, was lost or changed its owner: the share  *)
(* that MeasuredFlows divides out never exceeds 1.                         *)
(***************************************************************************)
ShareInWindow ==
    \A p \in Pids, c \in Cores : mapping.times[<<p, c>>] <= mapping.window

\* What all processes were given of the core.
Given(times, c) == MapThenSumSet(LAMBDA p : times[<<p, c>>], Pids)

(***************************************************************************)
(* RunTimeTable.h, drain - a core's time is neither lost nor counted twice *)
(* from one window to the next: what the processes and nobody were given   *)
(* adds up to the time from the window's beginning to the slice under way. *)
(***************************************************************************)
Conservation ==
    \A c \in Cores : running[c].since # NoTime =>
        began[c] + nobody[c] + Given(ticks, c) = running[c].since
=============================================================================
