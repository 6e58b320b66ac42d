--------------------------- MODULE DataAggregator ---------------------------
(***************************************************************************)
(* What the engine keeps from one sample to the next about processes whose *)
(* numbers are used again: DataAggregator.cpp with CpuDelta.cpp,           *)
(* LifecycleTracker.cpp, and the reader of WindowsSystemReader.cpp.        *)
(*                                                                         *)
(* Between samples processes start, use the processor and end.  The reader *)
(* lists them in one step and opens them one by one: one that has ended    *)
(* meanwhile, or may not be opened, has no times (they are 0).             *)
(***************************************************************************)
EXTENDS GroupBuilder

CONSTANTS Pids, Programs,
          Closed,           \* programs whose processes cannot be opened
          MaxClock, MaxCpu  \* bounds: the system's clock, a process's counter

ASSUME AggregatorAssumption ==
    /\ Pids \subseteq Nat \ {0} /\ IsFiniteSet(Pids)
    /\ Service \in Programs /\ Closed \subseteq Programs
    /\ MaxClock \in Nat /\ MaxCpu \in Nat

NoPid == 0

VARIABLES os,        \* the processes there are: a function on their pids
          clock,     \* the system's time
          \* DataAggregator, CpuDelta and LifecycleTracker
          previous,  \* previous_, a function on the pids it has
          primed,    \* primed_
          startTime, \* start_time_by_pid_
          shown,     \* shown_keys_
          \* the last sample and its snapshot
          sample, cpu, lifecycle, groups,
          \* history
          seen,      \* os as of the last sample
          followed   \* pids with the start a client infers from the lifecycle

machine == <<os, clock>>
aggregator == <<previous, primed, startTime, shown>>
vars == <<machine, aggregator, sample, cpu, lifecycle, groups, seen, followed>>

----------------------------------------------------------------------------
\* The machine.
Start(p, parent, program) ==
    /\ p \notin DOMAIN os /\ clock < MaxClock
    /\ parent \in DOMAIN os \cup {NoPid}
    /\ clock' = clock + 1
    /\ os' = [q \in DOMAIN os \cup {p} |->
                IF q = p THEN [name |-> program, ppid |-> parent,
                               start |-> clock + 1, cpu |-> 0]
                ELSE os[q]]
    /\ UNCHANGED <<aggregator, sample, cpu, lifecycle, groups, seen, followed>>

Exit(p) ==
    /\ p \in DOMAIN os
    /\ os' = [q \in DOMAIN os \ {p} |-> os[q]]
    /\ UNCHANGED <<clock, aggregator, sample, cpu, lifecycle, groups, seen, followed>>

Use(p) ==
    /\ p \in DOMAIN os /\ os[p].cpu < MaxCpu
    /\ os' = [os EXCEPT ![p].cpu = @ + 1]
    /\ UNCHANGED <<clock, aggregator, sample, cpu, lifecycle, groups, seen, followed>>

----------------------------------------------------------------------------
\* read(): those of `dying' end after they were listed and before they are opened.
Read(dying) ==
    [p \in DOMAIN os |->
        IF p \in dying \/ os[p].name \in Closed
        THEN [os[p] EXCEPT !.start = 0, !.cpu = 0] ELSE os[p]]

\* CpuDelta::update: the share since the sample before, in units of the counter.
Update(raw, p, t) ==
    IF /\ p \in DOMAIN previous
       /\ t > previous[p].wall
       /\ raw[p].cpu >= previous[p].cpu
    THEN raw[p].cpu - previous[p].cpu ELSE Unknown

\* Mutant: a pid that is used again is taken for the same process.
RestartedNever(raw) == {}

\* LifecycleTracker::update
Restarted(raw) ==
    {p \in DOMAIN raw \cap DOMAIN startTime : raw[p].start # startTime[p]}

Delta(raw) ==
    IF primed THEN [spawned    |-> (DOMAIN raw \ DOMAIN startTime) \cup Restarted(raw),
                    terminated |-> (DOMAIN startTime \ DOMAIN raw) \cup Restarted(raw)]
    ELSE [spawned |-> {}, terminated |-> {}]

\* Mutant: CpuDelta::forget is not called.
KeptAll(raw) == DOMAIN previous \cup DOMAIN raw

\* CpuDelta::forget for those that have ended, after the update.
Kept(raw) == (DOMAIN previous \cup DOMAIN raw) \ Delta(raw).terminated

\* Mutant: the groups shown before stay in the set.
KeysAdding(raw, chosen) == shown \cup {Key(raw, g) : g \in chosen}

Keys(raw, chosen) == {Key(raw, g) : g \in chosen}

Follow(raw) ==
    LET d == Delta(raw) IN
    IF primed THEN {x \in followed : x[1] \notin d.terminated}
                     \cup {<<p, raw[p].start>> : p \in d.spawned}
    ELSE {<<p, raw[p].start>> : p \in DOMAIN raw}

Aggregate(dying, t) ==
    LET raw == Read(dying)
        share == [p \in DOMAIN raw |-> Update(raw, p, t)]
        chosen == Select(raw, share, shown)
    IN  /\ sample' = [processes |-> raw, t |-> t]
        /\ cpu' = share
        /\ previous' = [p \in Kept(raw) |->
                          IF p \in DOMAIN raw THEN [cpu |-> raw[p].cpu, wall |-> t]
                          ELSE previous[p]]
        /\ lifecycle' = Delta(raw)
        /\ startTime' = [p \in DOMAIN raw |-> raw[p].start]
        /\ primed' = TRUE
        /\ groups' = chosen
        /\ shown' = Keys(raw, chosen)
        /\ os' = [p \in DOMAIN os \ dying |-> os[p]]
        /\ seen' = os
        /\ followed' = Follow(raw)

\* A sample; the system's clock may stand still, or be put back to the last one's.
Sample ==
    /\ clock < MaxClock
    /\ clock' = clock + 1
    /\ \E dying \in SUBSET DOMAIN os, t \in {clock + 1, sample.t} : Aggregate(dying, t)

Nobody == [p \in {} |-> 0]

Init ==
    /\ os = Nobody /\ clock = 0
    /\ previous = Nobody /\ primed = FALSE /\ startTime = Nobody /\ shown = {}
    /\ sample = [processes |-> Nobody, t |-> 0] /\ cpu = Nobody /\ groups = {}
    /\ lifecycle = [spawned |-> {}, terminated |-> {}]
    /\ seen = Nobody /\ followed = {}

Next ==
    \/ \E p \in Pids, parent \in Pids \cup {NoPid}, program \in Programs :
           Start(p, parent, program)
    \/ \E p \in Pids : Exit(p) \/ Use(p)
    \/ Sample

Spec == Init /\ [][Next]_vars

----------------------------------------------------------------------------
Process == [name : Programs, ppid : Pids \cup {NoPid}, start : Nat, cpu : Nat]

Partial(f, S, T) == DOMAIN f \subseteq S /\ f \in [DOMAIN f -> T]

\* What the aggregator keeps is about the processes of the last sample only.
TypeOK ==
    /\ Partial(os, Pids, Process) /\ clock \in Nat
    /\ Partial(sample.processes, Pids, Process) /\ sample.t \in Nat
    /\ cpu \in [DOMAIN sample.processes -> Nat \cup {Unknown}]
    /\ Partial(previous, DOMAIN sample.processes, [cpu : Nat, wall : Nat])
    /\ startTime \in [DOMAIN sample.processes -> Nat]
    /\ primed \in BOOLEAN
    /\ lifecycle.spawned \subseteq Pids /\ lifecycle.terminated \subseteq Pids
    /\ Partial(seen, Pids, Process)

(***************************************************************************)
(* Contract 4.6 - a client that joins at the first sample and then applies *)
(* every lifecycle (ends first, then starts) knows the processes of every  *)
(* sample, a pid that changed hands included.                              *)
(***************************************************************************)
LifecycleReplays ==
    followed = {<<p, sample.processes[p].start>> : p \in DOMAIN sample.processes}

(***************************************************************************)
(* DataAggregator.cpp 45-48 - a process that is new, under a pid nobody    *)
(* had in the sample before, has no share yet; the share of one that goes  *)
(* on is what it used itself since, never that of a predecessor.           *)
(***************************************************************************)
ShareIsOwn ==
    [][Sample => \A p \in DOMAIN cpu' : cpu'[p] # Unknown =>
          /\ p \in lifecycle'.spawned => p \in lifecycle'.terminated
          /\ p \notin lifecycle'.spawned /\ sample'.processes[p].start # 0 =>
                cpu'[p] = os[p].cpu - seen[p].cpu]_vars

(***************************************************************************)
(* GroupBuilder.cpp 79-96 - in any tangle of parents that ended, pids used *)
(* again and times nobody could read, a process counts in one group, whose *)
(* root is one of its members: while no line of namesakes is longer than   *)
(* kMaxParentHops, which the pids of a run never are.                      *)
(***************************************************************************)
CountedOnce ==
    \A g \in Roots(sample.processes) : g \in Members(sample.processes, g)

(***************************************************************************)
(* ProcessFilter.h - a group that was shown in the last snapshot, and whose*)
(* root is still the same process, gives way only to one that scores at    *)
(* least twice as much, or was shown as well.  A program that was started  *)
(* again under the number it had is a new group (contract 5.3): nothing is *)
(* said of its place here.                                                 *)
(***************************************************************************)
KeepsPlace ==
    [][Sample => LET raw == sample'.processes
                     old == {Key(sample.processes, k) : k \in groups}
                 IN  \A g \in Roots(raw) \ groups', h \in groups' :
                        /\ Key(raw, g) \in old /\ Key(raw, h) \notin old
                        /\ g \in DOMAIN seen /\ os[g].start = seen[g].start
                        => Base(raw, cpu', h) >= 2 * Base(raw, cpu', g)]_vars

(***************************************************************************)
(* Contract 4.5, lifecycle.spawned: "processes that were really created".  *)
(* Who is reported as started was not there when the last sample was read. *)
(***************************************************************************)
OnlyRealStarts ==
    [][Sample => \A p \in lifecycle'.spawned \cap DOMAIN seen :
          os[p].start # seen[p].start]_vars
=============================================================================
