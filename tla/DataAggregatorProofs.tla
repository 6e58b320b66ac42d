------------------------ MODULE DataAggregatorProofs ------------------------
(***************************************************************************)
(* For any processes, however their numbers are used again: a client that  *)
(* applies every lifecycle knows the processes of each sample, and a share *)
(* is what the process used itself.  For any tangle of parents: a process  *)
(* counts in one group.  And a group shown keeps its place.                *)
(***************************************************************************)
EXTENDS DataAggregator, FiniteSums

\* What LifecycleTracker and CpuDelta keep is what the last sample said.
Tracked ==
    /\ \A p \in DOMAIN startTime : startTime[p] = sample.processes[p].start
    /\ \A p \in DOMAIN previous : previous[p].cpu = sample.processes[p].cpu
    /\ ~primed => DOMAIN sample.processes = {}

\* A process of the last sample that has times was read as it was.
ReadAsSeen ==
    /\ DOMAIN seen = DOMAIN sample.processes
    /\ \A p \in DOMAIN seen :
          sample.processes[p].start # 0 => sample.processes[p] = seen[p]

Inv == TypeOK /\ Tracked /\ ReadAsSeen /\ LifecycleReplays

----------------------------------------------------------------------------
\* read() lists the processes there are, and leaves out times only.
LEMMA ReadOK ==
    ASSUME Partial(os, Pids, Process), NEW dying \in SUBSET DOMAIN os
    PROVE  /\ DOMAIN Read(dying) = DOMAIN os
           /\ Partial(Read(dying), Pids, Process)
           /\ \A p \in DOMAIN os : Read(dying)[p].start # 0 => Read(dying)[p] = os[p]
<1>1. DOMAIN Read(dying) = DOMAIN os
  BY DEF Read
<1>2. ASSUME NEW p \in DOMAIN os
      PROVE  /\ Read(dying)[p] \in Process
             /\ Read(dying)[p].start # 0 => Read(dying)[p] = os[p]
  <2> DEFINE blank == [os[p] EXCEPT !.start = 0, !.cpu = 0]
  <2>1. os[p] \in Process
    BY DEF Partial
  <2>2. blank \in Process /\ blank.start = 0
    BY <2>1 DEF Process
  <2>3. Read(dying)[p] = blank \/ Read(dying)[p] = os[p]
    BY DEF Read
  <2> QED
    BY <2>1, <2>2, <2>3
<1>3. Read(dying) \in [DOMAIN os -> Process]
  BY <1>2 DEF Read
<1> QED
  BY <1>1, <1>2, <1>3 DEF Partial

\* A share is unknown or a number.
LEMMA ShareOK ==
    ASSUME TypeOK, NEW raw, Partial(raw, Pids, Process), NEW t \in Nat
    PROVE  \A p \in DOMAIN raw : Update(raw, p, t) \in Nat \cup {Unknown}
<1> SUFFICES ASSUME NEW p \in DOMAIN raw PROVE Update(raw, p, t) \in Nat \cup {Unknown}
  OBVIOUS
<1>1. raw[p].cpu \in Nat
  BY DEF Partial, Process
<1>2. CASE p \in DOMAIN previous
  <2>1. previous[p].cpu \in Nat
    BY <1>2 DEF TypeOK, Partial
  <2> QED
    BY <1>1, <2>1 DEF Update, Unknown
<1>3. CASE p \notin DOMAIN previous
  BY <1>3 DEF Update, Unknown
<1> QED
  BY <1>2, <1>3

\* What is forgotten has ended: the pids that are kept are those of the sample.
LEMMA KeptOK ==
    ASSUME Inv, NEW raw
    PROVE  Kept(raw) \subseteq DOMAIN raw
<1>1. DOMAIN previous \subseteq DOMAIN startTime
  BY DEF Inv, TypeOK, Partial
<1>2. ~primed => DOMAIN previous = {}
  BY DEF Inv, TypeOK, Tracked, Partial
<1>3. primed => DOMAIN startTime \ DOMAIN raw \subseteq Delta(raw).terminated
  BY DEF Delta
<1> QED
  BY <1>1, <1>2, <1>3 DEF Kept

\* The client's processes, after a sample.
LEMMA FollowOK ==
    ASSUME Inv, NEW raw
    PROVE  Follow(raw) = {<<p, raw[p].start>> : p \in DOMAIN raw}
<1>1. CASE ~primed
  BY <1>1 DEF Follow
<1>2. CASE primed
  <2> DEFINE gone == (DOMAIN startTime \ DOMAIN raw) \cup Restarted(raw)
             born == (DOMAIN raw \ DOMAIN startTime) \cup Restarted(raw)
  <2>1. Follow(raw) = {x \in followed : x[1] \notin gone}
                        \cup {<<p, raw[p].start>> : p \in born}
    BY <1>2 DEF Follow, Delta
  <2>2. followed = {<<p, startTime[p]>> : p \in DOMAIN startTime}
    BY DEF Inv, TypeOK, Tracked, LifecycleReplays
  <2>3. DOMAIN startTime \ gone = DOMAIN raw \ born
    BY DEF Restarted
  <2>4. \A p \in DOMAIN startTime \ gone : startTime[p] = raw[p].start
    BY DEF Restarted
  <2>5. born \subseteq DOMAIN raw
    BY DEF Restarted
  <2>6. {x \in followed : x[1] \notin gone}
            = {<<p, raw[p].start>> : p \in DOMAIN raw \ born}
    BY <2>2, <2>3, <2>4
  <2> HIDE DEF gone, born
  <2> QED
    BY <2>1, <2>5, <2>6
<1> QED
  BY <1>1, <1>2

----------------------------------------------------------------------------
LEMMA InitInv == Init => Inv
<1> SUFFICES ASSUME Init PROVE Inv
  OBVIOUS
<1>1. DOMAIN Nobody = {} /\ \A T : Nobody \in [{} -> T]
  BY DEF Nobody
<1>2. /\ os = Nobody /\ previous = Nobody /\ startTime = Nobody /\ seen = Nobody
      /\ cpu = Nobody /\ sample.processes = Nobody /\ sample.t = 0 /\ clock = 0
      /\ primed = FALSE /\ followed = {}
      /\ lifecycle.spawned = {} /\ lifecycle.terminated = {}
  BY DEF Init
<1>3. TypeOK
  <2>1. \A S, T : Partial(Nobody, S, T)
    BY <1>1 DEF Partial
  <2>2. /\ Partial(os, Pids, Process) /\ Partial(sample.processes, Pids, Process)
        /\ Partial(previous, DOMAIN sample.processes, [cpu : Nat, wall : Nat])
        /\ Partial(seen, Pids, Process)
    BY <1>2, <2>1
  <2>3. /\ cpu \in [DOMAIN sample.processes -> Nat \cup {Unknown}]
        /\ startTime \in [DOMAIN sample.processes -> Nat]
    <3>1. DOMAIN sample.processes = {}
      BY <1>1, <1>2
    <3>2. Nobody \in [{} -> Nat \cup {Unknown}] /\ Nobody \in [{} -> Nat]
      BY DEF Nobody
    <3> QED
      BY <1>2, <3>1, <3>2
  <2>4. clock \in Nat /\ sample.t \in Nat
    BY <1>2, SMT
  <2>5. /\ primed \in BOOLEAN
        /\ lifecycle.spawned \subseteq Pids /\ lifecycle.terminated \subseteq Pids
    BY <1>2, Zenon
  <2> QED
    BY <2>2, <2>3, <2>4, <2>5 DEF TypeOK
<1>4. Tracked /\ ReadAsSeen /\ LifecycleReplays
  BY <1>1, <1>2 DEF Tracked, ReadAsSeen, LifecycleReplays
<1> QED
  BY <1>3, <1>4 DEF Inv

\* A step of the machine leaves the engine alone.
LEMMA MachineStep ==
    ASSUME Inv, Partial(os', Pids, Process), clock' \in Nat,
           UNCHANGED <<aggregator, sample, cpu, lifecycle, groups, seen, followed>>
    PROVE  Inv'
BY DEF Inv, TypeOK, Tracked, ReadAsSeen, LifecycleReplays, aggregator

LEMMA StartInv ==
    ASSUME Inv, NEW p \in Pids, NEW parent \in Pids \cup {NoPid},
           NEW program \in Programs, Start(p, parent, program)
    PROVE  Inv'
<1> DEFINE new == [name |-> program, ppid |-> parent, start |-> clock + 1, cpu |-> 0]
<1>1. Partial(os, Pids, Process) /\ clock \in Nat
  BY DEF Inv, TypeOK
<1>2. new \in Process
  BY <1>1 DEF Process
<1>3. os' = [q \in DOMAIN os \cup {p} |-> IF q = p THEN new ELSE os[q]] /\ clock' = clock + 1
  BY DEF Start
<1> HIDE DEF new
<1>4. Partial(os', Pids, Process)
  BY <1>1, <1>2, <1>3 DEF Partial
<1> QED
  BY <1>1, <1>3, <1>4, MachineStep DEF Start

LEMMA ExitInv ==
    ASSUME Inv, NEW p \in Pids, Exit(p)
    PROVE  Inv'
<1>1. Partial(os, Pids, Process) /\ clock \in Nat
  BY DEF Inv, TypeOK
<1>2. Partial(os', Pids, Process) /\ clock' = clock
  BY <1>1 DEF Exit, Partial
<1> QED
  BY <1>1, <1>2, MachineStep DEF Exit

LEMMA UseInv ==
    ASSUME Inv, NEW p \in Pids, Use(p)
    PROVE  Inv'
<1>1. Partial(os, Pids, Process) /\ clock \in Nat
  BY DEF Inv, TypeOK
<1>2. p \in DOMAIN os /\ os[p] \in Process
  BY <1>1 DEF Use, Partial
<1>3. [os[p] EXCEPT !.cpu = @ + 1] \in Process
  BY <1>2 DEF Process
<1>4. Partial(os', Pids, Process) /\ clock' = clock
  BY <1>1, <1>2, <1>3 DEF Use, Partial
<1> QED
  BY <1>1, <1>4, MachineStep DEF Use

LEMMA AggregateInv ==
    ASSUME Inv, NEW dying \in SUBSET DOMAIN os, NEW t \in Nat, clock' \in Nat,
           Aggregate(dying, t)
    PROVE  Inv'
<1> DEFINE raw == Read(dying)
<1>1. TypeOK /\ Partial(os, Pids, Process)
  BY DEF Inv, TypeOK
<1>2. /\ DOMAIN raw = DOMAIN os
      /\ Partial(raw, Pids, Process)
      /\ \A p \in DOMAIN os : raw[p].start # 0 => raw[p] = os[p]
  BY <1>1, ReadOK
<1>3. /\ sample' = [processes |-> raw, t |-> t]
      /\ cpu' = [p \in DOMAIN raw |-> Update(raw, p, t)]
      /\ previous' = [p \in Kept(raw) |->
                        IF p \in DOMAIN raw THEN [cpu |-> raw[p].cpu, wall |-> t]
                        ELSE previous[p]]
      /\ lifecycle' = Delta(raw)
      /\ startTime' = [p \in DOMAIN raw |-> raw[p].start]
      /\ primed' = TRUE
      /\ os' = [p \in DOMAIN os \ dying |-> os[p]]
      /\ seen' = os
      /\ followed' = Follow(raw)
  BY DEF Aggregate
<1>4. \A p \in DOMAIN raw : Update(raw, p, t) \in Nat \cup {Unknown}
  BY <1>1, <1>2, ShareOK
<1>5. Kept(raw) \subseteq DOMAIN raw
  BY KeptOK
<1>6. Follow(raw) = {<<p, raw[p].start>> : p \in DOMAIN raw}
  BY FollowOK
<1> HIDE DEF raw
<1>7. sample'.processes = raw /\ sample'.t = t
  BY <1>3
<1>8. \A p \in DOMAIN raw : raw[p].start \in Nat /\ raw[p].cpu \in Nat
  BY <1>2 DEF Partial, Process
<1>9. previous' = [p \in Kept(raw) |-> [cpu |-> raw[p].cpu, wall |-> t]]
  BY <1>3, <1>5
<1>10. TypeOK'
  <2>1. Partial(os', Pids, Process) /\ Partial(seen', Pids, Process)
    BY <1>1, <1>3 DEF Partial
  <2>2. Partial(sample'.processes, Pids, Process) /\ sample'.t \in Nat
    BY <1>2, <1>7
  <2>3. cpu' \in [DOMAIN sample'.processes -> Nat \cup {Unknown}]
    BY <1>3, <1>4, <1>7
  <2>4. Partial(previous', DOMAIN sample'.processes, [cpu : Nat, wall : Nat])
    BY <1>5, <1>7, <1>8, <1>9 DEF Partial
  <2>5. startTime' \in [DOMAIN sample'.processes -> Nat] /\ primed' \in BOOLEAN
    BY <1>3, <1>7, <1>8
  <2>6. DOMAIN startTime \subseteq Pids /\ DOMAIN raw \subseteq Pids
    BY <1>1, <1>2 DEF TypeOK, Partial
  <2>7. lifecycle'.spawned \subseteq Pids /\ lifecycle'.terminated \subseteq Pids
    BY <1>3, <2>6 DEF Delta, Restarted
  <2> QED
    BY <2>1, <2>2, <2>3, <2>4, <2>5, <2>7 DEF TypeOK
<1>11. Tracked'
  BY <1>3, <1>5, <1>7, <1>9 DEF Tracked
<1>12. ReadAsSeen'
  BY <1>2, <1>3, <1>7 DEF ReadAsSeen
<1>13. LifecycleReplays'
  BY <1>3, <1>6, <1>7 DEF LifecycleReplays
<1> QED
  BY <1>10, <1>11, <1>12, <1>13 DEF Inv

LEMMA SampleInv ==
    ASSUME Inv, Sample
    PROVE  Inv'
<1>1. clock \in Nat /\ sample.t \in Nat /\ clock' = clock + 1
  BY DEF Inv, TypeOK, Sample
<1>2. PICK dying \in SUBSET DOMAIN os, t \in {clock + 1, sample.t} : Aggregate(dying, t)
  BY DEF Sample
<1>3. t \in Nat /\ clock' \in Nat
  BY <1>1, <1>2
<1> QED
  BY <1>2, <1>3, AggregateInv

LEMMA NextInv == Inv /\ [Next]_vars => Inv'
<1> SUFFICES ASSUME Inv, [Next]_vars PROVE Inv'
  OBVIOUS
<1>1. CASE UNCHANGED vars
  BY <1>1 DEF vars, machine, aggregator, Inv, TypeOK, Tracked, ReadAsSeen, LifecycleReplays
<1>2. CASE Next
  BY <1>2, StartInv, ExitInv, UseInv, SampleInv DEF Next
<1> QED
  BY <1>1, <1>2

----------------------------------------------------------------------------
(***************************************************************************)
(* What the aggregator keeps is about the processes of the last sample and *)
(* does not grow with the pids that were ever seen.                        *)
(***************************************************************************)
THEOREM AggregatorTypeCorrect == Spec => []TypeOK
<1>1. Inv => TypeOK
  BY DEF Inv
<1> QED
  BY <1>1, InitInv, NextInv, PTL DEF Spec

(***************************************************************************)
(* Contract 4.6 - the lifecycles tell a client everything about which      *)
(* processes there are, for any number of pids and any reuse of them.      *)
(***************************************************************************)
THEOREM Replays == Spec => []LifecycleReplays
<1>1. Inv => LifecycleReplays
  BY DEF Inv
<1> QED
  BY <1>1, InitInv, NextInv, PTL DEF Spec

\* One sample's shares.
LEMMA OwnShare ==
    ASSUME Inv, Sample, NEW p \in DOMAIN cpu', cpu'[p] # Unknown
    PROVE  /\ p \in lifecycle'.spawned => p \in lifecycle'.terminated
           /\ p \notin lifecycle'.spawned /\ sample'.processes[p].start # 0 =>
                 cpu'[p] = os[p].cpu - seen[p].cpu
<1>1. PICK dying \in SUBSET DOMAIN os, t \in {clock + 1, sample.t} : Aggregate(dying, t)
  BY DEF Sample
<1> DEFINE raw == Read(dying)
<1>2. /\ DOMAIN raw = DOMAIN os
      /\ \A q \in DOMAIN os : raw[q].start # 0 => raw[q] = os[q]
  BY ReadOK DEF Inv, TypeOK
<1>3. /\ sample' = [processes |-> raw, t |-> t]
      /\ cpu' = [q \in DOMAIN raw |-> Update(raw, q, t)]
      /\ lifecycle' = Delta(raw)
  BY <1>1 DEF Aggregate
<1> HIDE DEF raw
<1>4. /\ p \in DOMAIN raw /\ p \in DOMAIN previous
      /\ cpu'[p] = raw[p].cpu - previous[p].cpu
  BY <1>3 DEF Update
<1>5. p \in DOMAIN sample.processes /\ p \in DOMAIN startTime /\ primed
  BY <1>4 DEF Inv, TypeOK, Tracked, Partial
<1>6. p \in lifecycle'.spawned => p \in lifecycle'.terminated
  BY <1>3, <1>5 DEF Delta
<1>7. ASSUME p \notin lifecycle'.spawned, sample'.processes[p].start # 0
      PROVE  cpu'[p] = os[p].cpu - seen[p].cpu
  <2>1. raw[p].start # 0 /\ raw[p] = os[p]
    BY <1>2, <1>3, <1>4, <1>7
  <2>2. startTime[p] = raw[p].start
    BY <1>3, <1>4, <1>5, <1>7 DEF Delta, Restarted
  <2>3. sample.processes[p] = seen[p]
    BY <1>5, <2>1, <2>2 DEF Inv, Tracked, ReadAsSeen
  <2>4. previous[p].cpu = seen[p].cpu
    BY <1>4, <2>3 DEF Inv, Tracked
  <2> QED
    BY <1>4, <2>1, <2>4
<1> QED
  BY <1>6, <1>7

(***************************************************************************)
(* No process is ever shown with the share of a predecessor that had its   *)
(* number in an earlier sample.                                            *)
(***************************************************************************)
THEOREM SharesAreOwn == Spec => ShareIsOwn
<1> DEFINE Own == Sample => \A p \in DOMAIN cpu' : cpu'[p] # Unknown =>
        /\ p \in lifecycle'.spawned => p \in lifecycle'.terminated
        /\ p \notin lifecycle'.spawned /\ sample'.processes[p].start # 0 =>
              cpu'[p] = os[p].cpu - seen[p].cpu
<1>1. Inv => Own
  BY OwnShare
<1> HIDE DEF Own
<1>2. Spec => []Inv
  BY InitInv, NextInv, PTL DEF Spec
<1>3. Spec => [][Own]_vars
  BY <1>1, <1>2, PTL
<1> QED
  BY <1>3 DEF Own, ShareIsOwn

----------------------------------------------------------------------------
(***************************************************************************)
(* THE CLIMB.  Where resolveRoot ends: at a member of the group, and of    *)
(* the one group unless the hops are used up on the way.                   *)
(***************************************************************************)
IsClimb(at, raw, p) ==
    at = [n \in 0..MaxHops |-> IF n = 0 THEN p ELSE Up(raw, at[n - 1])]

Climbs(at, raw, p) ==
    at[0] = p /\ \A n \in 1..MaxHops : at[n] = Up(raw, at[n - 1])

Repeats(at, n) == at[n] \in {at[m] : m \in 0..n - 1}

Ends(at, n) ==
    /\ n \in 0..MaxHops
    /\ n = MaxHops \/ Repeats(at, n)
    /\ \A k \in 0..n - 1 : ~Repeats(at, k)

\* The hops are used up and no process was met twice.
Cut(at) == \A n \in 0..MaxHops : ~Repeats(at, n)

LEMMA ClimbStep ==
    ASSUME NEW raw, NEW p, NEW at, IsClimb(at, raw, p)
    PROVE  Climbs(at, raw, p)
<1>1. \A n \in 0..MaxHops : at[n] = IF n = 0 THEN p ELSE Up(raw, at[n - 1])
  <2>. DEFINE next(i) == [n \in 0..MaxHops |-> IF n = 0 THEN p ELSE Up(raw, i[n - 1])]
  <2>1. \A i : \A n \in 0..MaxHops : next(i)[n] = IF n = 0 THEN p ELSE Up(raw, i[n - 1])
    OBVIOUS
  <2>2. at = next(at)
    BY DEF IsClimb
  <2>. HIDE DEF next
  <2>. QED  BY <2>1, <2>2
<1>2. MaxHops \in Nat
  BY GroupAssumption
<1>. QED  BY <1>1, <1>2 DEF Climbs

LEMMA ClimbExists ==
    ASSUME NEW raw, NEW p
    PROVE  \E at : IsClimb(at, raw, p)
<1>. DEFINE Upto(i, n) == /\ i = [k \in 0..MaxHops |-> i[k]]
                          /\ i[0] = p
                          /\ \A k \in 1..n : i[k] = Up(raw, i[k - 1])
            Has(n) == \E i : Upto(i, n)
            T == {n \in 0..MaxHops : ~Has(n)}
<1>1. MaxHops \in Nat
  BY GroupAssumption
<1>2. Has(0)
  <2>1. Upto([k \in 0..MaxHops |-> p], 0)
    BY <1>1
  <2>. QED  BY <2>1
<1>3. ASSUME NEW n \in Nat, n + 1 \in 0..MaxHops, Has(n)
      PROVE  Has(n + 1)
  <2>1. PICK i : Upto(i, n)
    BY <1>3
  <2>. DEFINE j == [k \in 0..MaxHops |-> IF k = n + 1 THEN Up(raw, i[n]) ELSE i[k]]
  <2>2. j[n + 1] = Up(raw, i[n]) /\ \A k \in 0..n : j[k] = i[k]
    BY <1>1, <1>3
  <2>3. j = [k \in 0..MaxHops |-> j[k]]
    OBVIOUS
  <2>. HIDE DEF j
  <2>4. Upto(j, n + 1)
    <3>1. j[0] = p
      <4>1. i[0] = p
        BY <2>1, Zenon
      <4>2. 0 \in 0..n
        OBVIOUS
      <4>. QED  BY <2>2, <4>1, <4>2
    <3>2. ASSUME NEW k \in 1..(n + 1) PROVE j[k] = Up(raw, j[k - 1])
      <4>1. k \in Nat /\ k - 1 \in 0..n
        OBVIOUS
      <4>2. j[k - 1] = i[k - 1]
        BY <2>2, <4>1
      <4>3. CASE k = n + 1
        <5>1. k - 1 = n
          BY <4>3
        <5>. QED  BY <2>2, <4>2, <4>3, <5>1
      <4>4. CASE k # n + 1
        <5>1. k \in 1..n /\ k \in 0..n
          BY <4>1, <4>4
        <5>2. i[k] = Up(raw, i[k - 1])
          BY <2>1, <5>1
        <5>. QED  BY <2>2, <4>2, <5>1, <5>2
      <4>. QED  BY <4>3, <4>4
    <3>. QED  BY <2>3, <3>1, <3>2
  <2>. QED  BY <2>4
<1>. HIDE DEF Has
<1>4. Has(MaxHops)
  <2>1. SUFFICES ASSUME T # {} PROVE FALSE
    BY <1>1
  <2>2. PICK n \in T : \A m \in T : n <= m
    <3>1. T \in SUBSET Nat
      BY <1>1
    <3>. HIDE DEF T
    <3>. QED  BY <2>1, <3>1, LeastNat
  <2>3. n \in Nat /\ n <= MaxHops /\ ~Has(n) /\ n # 0
    BY <1>1, <1>2, <2>2
  <2>4. n - 1 \in 0..MaxHops /\ n - 1 \in Nat /\ n - 1 \notin T
    BY <1>1, <2>2, <2>3
  <2>5. Has(n - 1) /\ (n - 1) + 1 = n
    BY <2>3, <2>4
  <2>6. (n - 1) + 1 \in 0..MaxHops
    BY <1>1, <2>3
  <2>7. Has((n - 1) + 1)
    BY <1>3, <2>4, <2>5, <2>6
  <2>. QED  BY <2>3, <2>5, <2>7
<1>5. PICK i : Upto(i, MaxHops)
  BY <1>4 DEF Has
<1>6. \A k \in 0..MaxHops : i[k] = IF k = 0 THEN p ELSE Up(raw, i[k - 1])
  <2>1. i[0] = p /\ \A k \in 1..MaxHops : i[k] = Up(raw, i[k - 1])
    BY <1>5, Zenon
  <2>2. \A k \in 0..MaxHops : k = 0 \/ k \in 1..MaxHops
    BY <1>1
  <2>. QED  BY <2>1, <2>2
<1>7. IsClimb(i, raw, p)
  <2>1. [k \in 0..MaxHops |-> i[k]]
          = [k \in 0..MaxHops |-> IF k = 0 THEN p ELSE Up(raw, i[k - 1])]
    BY <1>6
  <2>2. i = [k \in 0..MaxHops |-> i[k]]
    BY <1>5
  <2>3. i = [k \in 0..MaxHops |-> IF k = 0 THEN p ELSE Up(raw, i[k - 1])]
    BY <2>1, <2>2, Zenon
  <2>. QED  BY <2>3 DEF IsClimb
<1>. QED  BY <1>7

\* The climb stays among the processes that are grouped.
LEMMA ClimbIn ==
    ASSUME NEW raw, NEW p \in Grouped(raw), NEW at, IsClimb(at, raw, p)
    PROVE  \A n \in 0..MaxHops : at[n] \in Grouped(raw)
<1>. DEFINE T == {n \in 0..MaxHops : at[n] \notin Grouped(raw)}
<1>1. SUFFICES ASSUME T # {} PROVE FALSE
  OBVIOUS
<1>2. PICK n \in T : \A m \in T : n <= m
  <2>1. T \in SUBSET Nat
    OBVIOUS
  <2>. HIDE DEF T
  <2>. QED  BY <1>1, <2>1, LeastNat
<1>3. Climbs(at, raw, p) /\ MaxHops \in Nat
  BY ClimbStep, GroupAssumption
<1>4. n \in 1..MaxHops /\ n - 1 \in 0..MaxHops
  BY <1>2, <1>3 DEF Climbs
<1>5. at[n - 1] \in Grouped(raw) /\ at[n] = Up(raw, at[n - 1])
  BY <1>2, <1>3, <1>4 DEF Climbs
<1>. QED  BY <1>2, <1>5 DEF Up

\* There is a place where the climb ends, and one only.
LEMMA EndFact ==
    ASSUME NEW at
    PROVE  /\ \E n : Ends(at, n)
           /\ \A m, n : Ends(at, m) /\ Ends(at, n) => m = n
<1>. DEFINE T == {n \in 0..MaxHops : n = MaxHops \/ Repeats(at, n)}
<1>1. MaxHops \in T /\ T \in SUBSET Nat
  BY GroupAssumption
<1>2. PICK n \in T : \A m \in T : n <= m
  <2>. HIDE DEF T
  <2>. QED  BY <1>1, LeastNat
<1>3. Ends(at, n)
  <2>1. n \in 0..MaxHops /\ (n = MaxHops \/ Repeats(at, n))
    BY <1>2
  <2>2. ASSUME NEW k \in 0..n - 1 PROVE ~Repeats(at, k)
    <3>1. k \in 0..MaxHops /\ ~(n <= k)
      BY <2>1, GroupAssumption
    <3>2. k \notin T
      BY <1>2, <3>1
    <3>. QED  BY <3>1, <3>2
  <2>. QED  BY <2>1, <2>2 DEF Ends
<1>4. ASSUME NEW m, NEW l, Ends(at, m), Ends(at, l), m # l PROVE FALSE
  <2>1. m \in 0..MaxHops /\ l \in 0..MaxHops /\ MaxHops \in Nat
    BY <1>4, GroupAssumption DEF Ends
  <2>2. CASE m < l
    BY <1>4, <2>1, <2>2 DEF Ends
  <2>3. CASE l < m
    BY <1>4, <2>1, <2>3 DEF Ends
  <2>. QED  BY <1>4, <2>1, <2>2, <2>3
<1>. QED  BY <1>3, <1>4

LEMMA RootIs ==
    ASSUME NEW raw, NEW p
    PROVE  \E at, n : IsClimb(at, raw, p) /\ Ends(at, n) /\ Root(raw, p) = at[n]
<1>. DEFINE way[n \in 0..MaxHops] == IF n = 0 THEN p ELSE Up(raw, way[n - 1])
<1>1. Root(raw, p) = way[CHOOSE n \in 0..MaxHops :
                            /\ n = MaxHops \/ way[n] \in {way[m] : m \in 0..n - 1}
                            /\ \A k \in 0..n - 1 : way[k] \notin {way[m] : m \in 0..k - 1}]
  BY DEF Root
<1>2. way = CHOOSE i : IsClimb(i, raw, p)
  BY DEF IsClimb
<1>. HIDE DEF way
<1>3. IsClimb(way, raw, p)
  BY <1>2, ClimbExists
<1>4. Root(raw, p) = way[CHOOSE n \in 0..MaxHops :
                            /\ n = MaxHops \/ Repeats(way, n)
                            /\ \A k \in 0..n - 1 : ~Repeats(way, k)]
  BY <1>1 DEF Repeats
<1>. DEFINE last == CHOOSE n \in 0..MaxHops :
                       /\ n = MaxHops \/ Repeats(way, n)
                       /\ \A k \in 0..n - 1 : ~Repeats(way, k)
<1>5. Ends(way, last)
  <2>1. \E n \in 0..MaxHops : /\ n = MaxHops \/ Repeats(way, n)
                              /\ \A k \in 0..n - 1 : ~Repeats(way, k)
    BY EndFact DEF Ends
  <2>2. /\ last \in 0..MaxHops
        /\ last = MaxHops \/ Repeats(way, last)
        /\ \A k \in 0..last - 1 : ~Repeats(way, k)
    BY <2>1
  <2>. HIDE DEF last
  <2>. QED  BY <2>2 DEF Ends
<1>. QED  BY <1>3, <1>4, <1>5

\* A root is a process of a group.
LEMMA RootIn ==
    ASSUME NEW raw, NEW p \in Grouped(raw)
    PROVE  Root(raw, p) \in Grouped(raw)
<1>1. PICK at, n : IsClimb(at, raw, p) /\ Ends(at, n) /\ Root(raw, p) = at[n]
  BY RootIs
<1>. QED  BY <1>1, ClimbIn DEF Ends

\* A climb from a place of another climb goes the same way.
LEMMA ClimbOn ==
    ASSUME NEW raw, NEW p, NEW at, IsClimb(at, raw, p),
           NEW m \in 0..MaxHops, NEW bt, IsClimb(bt, raw, at[m])
    PROVE  \A k \in 0..MaxHops - m : bt[k] = at[m + k]
<1>. DEFINE T == {k \in 0..MaxHops - m : bt[k] # at[m + k]}
<1>1. SUFFICES ASSUME T # {} PROVE FALSE
  OBVIOUS
<1>2. PICK k \in T : \A l \in T : k <= l
  <2>1. T \in SUBSET Nat
    OBVIOUS
  <2>. HIDE DEF T
  <2>. QED  BY <1>1, <2>1, LeastNat
<1>3. Climbs(at, raw, p) /\ Climbs(bt, raw, at[m]) /\ MaxHops \in Nat
  BY ClimbStep, GroupAssumption
<1>4. k \in 0..MaxHops - m /\ bt[k] # at[m + k]
  BY <1>2
<1>5. k # 0
  BY <1>3, <1>4 DEF Climbs
<1>6. /\ k \in 1..MaxHops /\ m + k \in 1..MaxHops
      /\ k - 1 \in 0..MaxHops - m /\ ~(k <= k - 1) /\ (m + k) - 1 = m + (k - 1)
  BY <1>3, <1>4, <1>5
<1>7. bt[k - 1] = at[m + (k - 1)]
  BY <1>2, <1>6
<1>8. bt[k] = Up(raw, bt[k - 1]) /\ at[m + k] = Up(raw, at[(m + k) - 1])
  BY <1>3, <1>6 DEF Climbs
<1>. QED  BY <1>4, <1>6, <1>7, <1>8

\* The climb from p ends before the hops are used up.
Reached(raw, p) == \A at : IsClimb(at, raw, p) => ~Cut(at)

\* The root of a root is the root itself: if its climb goes on, it is in a
\* cycle, and the climb from where a cycle was met first ends there again.
LEMMA RootStays ==
    ASSUME NEW raw, NEW p \in Grouped(raw), Reached(raw, p)
    PROVE  Root(raw, Root(raw, p)) = Root(raw, p)
<1>1. PICK at, n : IsClimb(at, raw, p) /\ Ends(at, n) /\ Root(raw, p) = at[n]
  BY RootIs
<1>2. n \in 0..MaxHops /\ MaxHops \in Nat /\ \A k \in 0..n - 1 : ~Repeats(at, k)
  BY <1>1, GroupAssumption DEF Ends
<1>3. Repeats(at, n)
  <2>1. CASE n = MaxHops
    <3>1. PICK k \in 0..MaxHops : Repeats(at, k)
      BY <1>1 DEF Reached, Cut
    <3>2. k = n \/ k \in 0..n - 1
      BY <1>2, <2>1
    <3>. QED  BY <1>2, <3>1, <3>2
  <2>2. CASE n # MaxHops
    BY <1>1, <2>2 DEF Ends
  <2>. QED  BY <2>1, <2>2
<1>4. PICK m \in 0..n - 1 : at[n] = at[m]
  BY <1>3 DEF Repeats
<1>5. /\ m \in 0..MaxHops /\ n - m \in 1..MaxHops /\ m + (n - m) = n
      /\ n - m \in 0..MaxHops - m
  BY <1>2, <1>4
<1>6. PICK bt, l : IsClimb(bt, raw, at[m]) /\ Ends(bt, l) /\ Root(raw, at[m]) = bt[l]
  BY RootIs
<1>7. \A k \in 0..MaxHops - m : bt[k] = at[m + k]
  BY <1>1, <1>5, <1>6, ClimbOn
<1>8. bt[n - m] = at[n] /\ bt[0] = at[m]
  <2>1. bt[n - m] = at[n]
    BY <1>5, <1>7
  <2>2. bt[0] = at[m]
    BY <1>6, ClimbStep DEF Climbs
  <2>. QED  BY <2>1, <2>2
<1>9. Ends(bt, n - m)
  <2>1. Repeats(bt, n - m)
    <3>1. 0 \in 0..(n - m) - 1
      BY <1>5
    <3>. QED  BY <1>4, <1>8, <3>1 DEF Repeats
  <2>2. ASSUME NEW k \in 0..(n - m) - 1, Repeats(bt, k) PROVE FALSE
    <3>1. PICK j \in 0..k - 1 : bt[k] = bt[j]
      BY <2>2 DEF Repeats
    <3>2. /\ k \in 0..MaxHops - m /\ j \in 0..MaxHops - m
          /\ m + k \in 0..n - 1 /\ m + j \in 0..(m + k) - 1
      BY <1>2, <1>5, <2>2, <3>1
    <3>3. at[m + k] = at[m + j]
      BY <1>7, <3>1, <3>2
    <3>4. Repeats(at, m + k)
      BY <3>2, <3>3 DEF Repeats
    <3>. QED  BY <1>2, <3>2, <3>4
  <2>3. n - m \in 0..MaxHops
    BY <1>2, <1>5
  <2>. QED  BY <2>1, <2>2, <2>3 DEF Ends
<1>10. l = n - m
  BY <1>6, <1>9, EndFact
<1>. QED  BY <1>1, <1>4, <1>6, <1>8, <1>10

\* The processes of a program.
Namesakes(raw, p) == {q \in Grouped(raw) : raw[q].name = raw[p].name}

\* The climb stays among the namesakes of where it began.
LEMMA ClimbNamed ==
    ASSUME NEW raw, NEW p \in Grouped(raw), NEW at, IsClimb(at, raw, p)
    PROVE  \A n \in 0..MaxHops : at[n] \in Namesakes(raw, p)
<1>. DEFINE T == {n \in 0..MaxHops : raw[at[n]].name # raw[p].name}
<1>1. SUFFICES ASSUME T # {} PROVE FALSE
  BY ClimbIn DEF Namesakes
<1>2. PICK n \in T : \A m \in T : n <= m
  <2>1. T \in SUBSET Nat
    OBVIOUS
  <2>. HIDE DEF T
  <2>. QED  BY <1>1, <2>1, LeastNat
<1>3. Climbs(at, raw, p) /\ MaxHops \in Nat
  BY ClimbStep, GroupAssumption
<1>4. n \in 1..MaxHops /\ n - 1 \in 0..MaxHops
  BY <1>2, <1>3 DEF Climbs
<1>5. raw[at[n - 1]].name = raw[p].name /\ at[n] = Up(raw, at[n - 1])
  BY <1>2, <1>3, <1>4 DEF Climbs
<1>. QED  BY <1>2, <1>5 DEF Up

\* No more namesakes than hops: every climb among them ends before the hops are
\* used up.
LEMMA FewReached ==
    ASSUME NEW raw, DOMAIN raw \subseteq Pids, NEW p \in Grouped(raw),
           Cardinality(Namesakes(raw, p)) <= MaxHops
    PROVE  Reached(raw, p)
<1>. DEFINE same == Namesakes(raw, p)
<1>. SUFFICES ASSUME NEW at, IsClimb(at, raw, p) PROVE ~Cut(at)
  BY DEF Reached
<1>1. MaxHops \in Nat /\ IsFiniteSet(same) /\ Cardinality(same) \in Nat
  <2>1. same \subseteq Pids
    BY DEF Namesakes, Grouped
  <2>. HIDE DEF same
  <2>. QED  BY <2>1, GroupAssumption, AggregatorAssumption, FS_Subset, FS_CardinalityType
<1>2. at \in [0..MaxHops -> same]
  <2>1. \A n \in 0..MaxHops : at[n] \in same
    BY ClimbNamed
  <2>2. \E f : at = [n \in 0..MaxHops |-> f[n]]
    <3>. DEFINE f == [n \in 0..MaxHops |-> IF n = 0 THEN p ELSE Up(raw, at[n - 1])]
    <3>1. f = [n \in 0..MaxHops |-> f[n]]
      OBVIOUS
    <3>2. at = f
      BY DEF IsClimb
    <3>. HIDE DEF f
    <3>. QED  BY <3>1, <3>2
  <2>. HIDE DEF same
  <2>. QED  BY <2>1, <2>2
<1>3. IsFiniteSet(0..MaxHops) /\ Cardinality(0..MaxHops) = MaxHops + 1
  BY <1>1, FS_Interval
<1>4. PICK x \in 0..MaxHops, y \in 0..MaxHops : x # y /\ at[x] = at[y]
  <2>1. Cardinality(same) <= MaxHops
    OBVIOUS
  <2>. HIDE DEF same
  <2>. QED  BY <1>1, <1>2, <1>3, <2>1, FS_PigeonHole
<1>5. CASE x < y
  <2>1. x \in 0..y - 1
    BY <1>5
  <2>. QED  BY <1>4, <2>1 DEF Cut, Repeats
<1>6. CASE y < x
  <2>1. y \in 0..x - 1
    BY <1>6
  <2>. QED  BY <1>4, <2>1 DEF Cut, Repeats
<1>. QED  BY <1>4, <1>5, <1>6

\* No line of ancestors is so long that the hops are used up.
WithinHops == \A p \in Grouped(sample.processes) : Reached(sample.processes, p)

LEMMA CountedWithin == WithinHops => CountedOnce
<1>. SUFFICES ASSUME WithinHops, NEW g \in Roots(sample.processes)
              PROVE  g \in Members(sample.processes, g)
  BY DEF CountedOnce
<1>1. PICK p \in Grouped(sample.processes) : g = Root(sample.processes, p)
  BY DEF Roots
<1>2. Root(sample.processes, g) = g
  BY <1>1, RootStays DEF WithinHops
<1>3. g \in Grouped(sample.processes)
  BY <1>1, RootIn
<1>. QED  BY <1>2, <1>3 DEF Members

\* In any tangle of parents a process counts in one group, whose root is one of
\* its members, as long as no climb uses up kMaxParentHops (GroupBuilder.cpp
\* 79-96): beyond that the root would itself be counted in another group.
THEOREM CountsOnce == Spec => [](WithinHops => CountedOnce)
  BY CountedWithin, PTL

\* A group is led by one of its members, whatever the other programs do, if its
\* program has no more processes than kMaxParentHops.
LedByMember ==
    LET raw == sample.processes
    IN  \A g \in Roots(raw) :
           Cardinality(Namesakes(raw, g)) <= MaxHops => g \in Members(raw, g)

LEMMA FewLedByMember == Inv => LedByMember
<1>. SUFFICES ASSUME Inv, NEW g \in Roots(sample.processes),
                     Cardinality(Namesakes(sample.processes, g)) <= MaxHops
              PROVE  g \in Members(sample.processes, g)
  BY DEF LedByMember
<1>. DEFINE raw == sample.processes
<1>1. DOMAIN raw \subseteq Pids
  BY DEF Inv, TypeOK, Partial
<1>. HIDE DEF raw
<1>2. PICK p \in Grouped(raw) : g = Root(raw, p)
  BY DEF Roots, raw
<1>3. g \in Namesakes(raw, p)
  <2>1. PICK at, n : IsClimb(at, raw, p) /\ Ends(at, n) /\ Root(raw, p) = at[n]
    BY RootIs
  <2>. QED  BY <1>2, <2>1, ClimbNamed DEF Ends
<1>4. Namesakes(raw, p) = Namesakes(raw, g)
  BY <1>3 DEF Namesakes
<1>5. Cardinality(Namesakes(raw, p)) <= MaxHops
  BY <1>4 DEF raw
<1>6. Root(raw, g) = g
  BY <1>1, <1>2, <1>5, FewReached, RootStays
<1>7. g \in Grouped(raw)
  BY <1>2, RootIn
<1>. QED  BY <1>6, <1>7 DEF Members, raw

\* In every sample, of any number of processes: a group whose program has no
\* more of them than kMaxParentHops is led by one of its members
\* (GroupBuilder.cpp 79-96).
THEOREM SmallGroupsLed == Spec => []LedByMember
  BY FewLedByMember, InitInv, NextInv, PTL DEF Spec

----------------------------------------------------------------------------
(***************************************************************************)
(* THE GROUPS THAT ARE SHOWN.  All that is ahead of one group is ahead of  *)
(* every other that scores less.                                           *)
(***************************************************************************)
Share(cpu1, known) == MapThenSumSet(LAMBDA p : cpu1[p], known)

LEMMA ShareIs ==
    ASSUME NEW cpu1, NEW known, IsFiniteSet(known)
    PROVE  \E i : IsSum(i, cpu1, known) /\ Share(cpu1, known) = i[known]
<1>. DEFINE iter[s \in SUBSET known] ==
                IF s = {} THEN 0
                ELSE LET x == CHOOSE x \in s : TRUE
                     IN  cpu1[x] + iter[s \ {x}]
<1>1. Share(cpu1, known) = iter[known]
  BY DEF Share, MapThenSumSet, MapThenFoldSet
<1>2. iter = CHOOSE i : IsSum(i, cpu1, known)
  BY DEF IsSum, First
<1>. HIDE DEF iter
<1>3. IsSum(iter, cpu1, known)
  BY <1>2, SumExists
<1>. QED  BY <1>1, <1>3

\* What a group scores is a number.
LEMMA ScoreType ==
    ASSUME NEW raw, IsFiniteSet(DOMAIN raw),
           NEW cpu1 \in [DOMAIN raw -> Int], NEW g \in Roots(raw)
    PROVE  Base(raw, cpu1, g) \in Int
<1>1. g \in DOMAIN raw
  <2>1. PICK p \in Grouped(raw) : g = Root(raw, p)
    BY DEF Roots
  <2>. QED  BY <2>1, RootIn DEF Grouped
<1>2. Members(raw, g) \subseteq DOMAIN raw
  BY DEF Members, Grouped
<1>3. IsFiniteSet(Members(raw, g)) /\ Cardinality(Members(raw, g)) \in Nat
  BY <1>2, FS_Subset, FS_CardinalityType
<1>. DEFINE known == {p \in Members(raw, g) \cup {g} : cpu1[p] # Unknown}
            share == GroupCpu(raw, cpu1, g)
<1>4. share \in Int
  <2>1. known \subseteq DOMAIN raw
    BY <1>1, <1>2
  <2>2. share = IF known = {} THEN Unknown ELSE Share(cpu1, known)
    BY DEF GroupCpu, Share
  <2>. HIDE DEF known, share
  <2>3. IsFiniteSet(known)
    BY <2>1, FS_Subset
  <2>4. PICK i : IsSum(i, cpu1, known) /\ Share(cpu1, known) = i[known]
    BY <2>3, ShareIs
  <2>5. \A p \in known : cpu1[p] \in Int
    BY <2>1
  <2>6. i[known] \in Int
    BY <2>3, <2>4, <2>5, SumInt
  <2>. QED  BY <2>2, <2>4, <2>6 DEF Unknown
<1>. DEFINE size == Cardinality(Members(raw, g))
            weight == IF raw[g].name \in UserPrograms THEN 3 ELSE 2
            score == size + IF share = Unknown THEN 0 ELSE 2 * share
<1>5. Base(raw, cpu1, g) = score * weight
  BY DEF Base
<1>6. size \in Int /\ weight \in Int
  BY <1>3
<1>. HIDE DEF size, weight, share
<1>7. score \in Int
  BY <1>4, <1>6
<1>. HIDE DEF score
<1>. QED  BY <1>5, <1>6, <1>7

\* A group that was shown is left out for one that was not only if that scores
\* at least twice as much.
LEMMA SelectKeeps ==
    ASSUME NEW raw, IsFiniteSet(DOMAIN raw), NEW cpu1 \in [DOMAIN raw -> Int], NEW old,
           NEW g \in Roots(raw), g \notin Select(raw, cpu1, old),
           NEW h \in Select(raw, cpu1, old),
           Key(raw, g) \in old, Key(raw, h) \notin old
    PROVE  Base(raw, cpu1, h) >= 2 * Base(raw, cpu1, g)
<1>. DEFINE S(x) == Score(raw, cpu1, old, x)
            ahead(x) == {r \in Roots(raw) : Ahead(raw, cpu1, old, r, x)}
<1>1. h \in Roots(raw)
  BY DEF Select
<1>2. \A x \in Roots(raw) : Base(raw, cpu1, x) \in Int
  BY ScoreType
<1>3. \A x \in Roots(raw) : S(x) \in Int
  BY <1>2 DEF Score
<1>4. S(g) = 2 * Base(raw, cpu1, g) /\ S(h) = Base(raw, cpu1, h)
  BY <1>1, <1>2 DEF Score
<1>5. SUFFICES ASSUME S(g) > S(h) PROVE FALSE
  BY <1>1, <1>2, <1>3, <1>4
<1>6. \A x, y : Ahead(raw, cpu1, old, x, y) => S(x) > S(y) \/ S(x) = S(y)
  BY DEF Ahead
<1>7. \A x, y : S(x) > S(y) => Ahead(raw, cpu1, old, x, y)
  BY DEF Ahead
<1>. HIDE DEF S
<1>8. ahead(g) \subseteq ahead(h)
  <2>. SUFFICES ASSUME NEW r \in Roots(raw), Ahead(raw, cpu1, old, r, g)
                PROVE  Ahead(raw, cpu1, old, r, h)
    OBVIOUS
  <2>1. S(r) > S(h)
    BY <1>1, <1>3, <1>5, <1>6
  <2>. QED  BY <1>7, <2>1
<1>9. IsFiniteSet(ahead(h))
  <2>1. Roots(raw) \subseteq DOMAIN raw
    BY RootIn DEF Roots, Grouped
  <2>2. ahead(h) \subseteq DOMAIN raw
    BY <2>1
  <2>. HIDE DEF ahead
  <2>. QED  BY <2>2, FS_Subset
<1>10. Cardinality(ahead(h)) < MaxGroups /\ ~(Cardinality(ahead(g)) < MaxGroups)
  BY DEF Select
<1>. HIDE DEF ahead
<1>11. /\ Cardinality(ahead(g)) <= Cardinality(ahead(h))
       /\ Cardinality(ahead(g)) \in Nat /\ Cardinality(ahead(h)) \in Nat
  BY <1>8, <1>9, FS_Subset, FS_CardinalityType
<1>. QED  BY <1>10, <1>11, GroupAssumption

\* shown_keys_ has the groups of the last snapshot.
ShownOfLast == shown = {Key(sample.processes, k) : k \in groups}

Place ==
    Sample => LET raw == sample'.processes
                  old == {Key(sample.processes, k) : k \in groups}
              IN  \A g \in Roots(raw) \ groups', h \in groups' :
                     /\ Key(raw, g) \in old /\ Key(raw, h) \notin old
                     /\ g \in DOMAIN seen /\ os[g].start = seen[g].start
                     => Base(raw, cpu', h) >= 2 * Base(raw, cpu', g)

LEMMA ShownStep == ShownOfLast /\ [Next]_vars => ShownOfLast'
<1>. SUFFICES ASSUME ShownOfLast, [Next]_vars PROVE ShownOfLast'
  OBVIOUS
<1>1. CASE Sample
  <2>1. PICK dying \in SUBSET DOMAIN os, t \in {clock + 1, sample.t} : Aggregate(dying, t)
    BY <1>1 DEF Sample
  <2>. DEFINE raw == Read(dying)
              chosen == Select(raw, [p \in DOMAIN raw |-> Update(raw, p, t)], shown)
  <2>2. shown' = Keys(raw, chosen) /\ groups' = chosen
        /\ sample' = [processes |-> raw, t |-> t]
    BY <2>1 DEF Aggregate
  <2>. HIDE DEF raw, chosen
  <2>. QED  BY <2>2 DEF Keys, ShownOfLast
<1>2. CASE UNCHANGED <<shown, sample, groups>>
  BY <1>2 DEF ShownOfLast
<1>. QED  BY <1>1, <1>2 DEF Next, Start, Exit, Use, vars, aggregator

LEMMA PlaceKept == Inv /\ ShownOfLast => Place
<1>. SUFFICES ASSUME Inv, ShownOfLast, Sample,
                     NEW g \in Roots(sample'.processes) \ groups', NEW h \in groups',
                     Key(sample'.processes, g) \in shown,
                     Key(sample'.processes, h) \notin shown
              PROVE  Base(sample'.processes, cpu', h) >= 2 * Base(sample'.processes, cpu', g)
  BY DEF Place, ShownOfLast
<1>1. PICK dying \in SUBSET DOMAIN os, t \in {clock + 1, sample.t} : Aggregate(dying, t)
  BY DEF Sample
<1>. DEFINE raw == Read(dying)
            share == [p \in DOMAIN raw |-> Update(raw, p, t)]
<1>2. /\ sample'.processes = raw /\ cpu' = share
      /\ groups' = Select(raw, share, shown)
  BY <1>1 DEF Aggregate
<1>3. DOMAIN raw = DOMAIN os /\ Partial(raw, Pids, Process) /\ DOMAIN os \subseteq Pids
  BY ReadOK DEF Inv, TypeOK, Partial
<1>4. IsFiniteSet(DOMAIN raw)
  BY <1>3, FS_Subset, AggregatorAssumption
<1>5. share \in [DOMAIN raw -> Int]
  <2>1. t \in Nat
    BY DEF Inv, TypeOK
  <2>2. \A p \in DOMAIN raw : Update(raw, p, t) \in Nat \cup {Unknown}
    BY <1>3, <2>1, ShareOK DEF Inv
  <2>3. \A p \in DOMAIN raw : Update(raw, p, t) \in Int
    BY <2>2 DEF Unknown
  <2>. QED  BY <2>3
<1>. HIDE DEF raw, share
<1>. QED  BY <1>2, <1>4, <1>5, SelectKeeps

(***************************************************************************)
(* ProcessFilter.h - for any number of processes and of places, a group    *)
(* that is shown, and whose root is still the same process, gives way to a *)
(* newcomer only if that scores twice as much.                             *)
(***************************************************************************)
THEOREM PlaceIsKept == Spec => KeepsPlace
<1>1. Init => ShownOfLast
  BY DEF Init, ShownOfLast
<1>2. Spec => [](Inv /\ ShownOfLast)
  BY <1>1, ShownStep, InitInv, NextInv, PTL DEF Spec
<1>3. Inv /\ ShownOfLast => Place
  BY PlaceKept
<1>. HIDE DEF Place
<1>4. Spec => [][Place]_vars
  BY <1>2, <1>3, PTL
<1>. QED  BY <1>4 DEF Place, KeepsPlace
=============================================================================
