----------------------------- MODULE Lifecycle -----------------------------
(***************************************************************************)
(* How snapshots become events (web/src/visual/lifecycleEvents.ts).  A     *)
(* snapshot has a number, groups (from a group's key to its root's pid and *)
(* its other members) and the pids that came and went.  Keys are the root  *)
(* pids: one program, the case in which a pid used again brings a former   *)
(* key back.                                                               *)
(***************************************************************************)
EXTENDS Naturals, Functions

CONSTANT SPAWN_WINDOW_SNAPSHOTS

ASSUME WindowAssumption == SPAWN_WINDOW_SNAPSHOTS \in Nat

Nothing == [p \in {} |-> 0]

\* lastSeq is 0 before the first snapshot.
NewConsumer == [lastSeq |-> 0, previous |-> Nothing, recentSpawns |-> Nothing]

PidsOf(snapshot) ==
    DOMAIN snapshot.groups
      \cup UNION {snapshot.groups[k].children : k \in DOMAIN snapshot.groups}

MembershipOf(snapshot) ==
    [p \in PidsOf(snapshot) |->
        LET k == CHOOSE k \in DOMAIN snapshot.groups :
                     p = k \/ p \in snapshot.groups[k].children
        IN  [key |-> k, isRoot |-> p = k]]

KeysOf(membership) == {membership[p].key : p \in DOMAIN membership}

\* Mutant: a spawn is remembered until its group appears.
SpawnsForever(c, snapshot) ==
    [p \in DOMAIN c.recentSpawns \cup snapshot.spawned |->
        IF p \in snapshot.spawned THEN snapshot.seq ELSE c.recentSpawns[p]]

\* The spawns of the last snapshots, those of processes not shown included.
Spawns(c, snapshot) ==
    LET noted == [p \in DOMAIN c.recentSpawns \cup snapshot.spawned |->
                     IF p \in snapshot.spawned THEN snapshot.seq
                     ELSE c.recentSpawns[p]]
    IN  Restrict(noted, {p \in DOMAIN noted :
                            noted[p] + SPAWN_WINDOW_SNAPSHOTS >= snapshot.seq})

Event(kind, key, pid) == [kind |-> kind, key |-> key, pid |-> pid]

\* Groups that were not listed before and whose root came of late.
BornGroups(c, snapshot) ==
    {k \in DOMAIN snapshot.groups :
        k \notin KeysOf(c.previous) /\ k \in DOMAIN Spawns(c, snapshot)}

BornChildren(snapshot) ==
    LET current == MembershipOf(snapshot) IN
    {Event("child-born", current[p].key, p) :
        p \in {p \in snapshot.spawned \cap DOMAIN current : ~current[p].isRoot}}

\* Who ended is found in the snapshot consumed before.
Died(c, snapshot) ==
    {Event(IF c.previous[p].isRoot THEN "group-died" ELSE "child-died",
           c.previous[p].key, p) :
        p \in snapshot.terminated \cap DOMAIN c.previous}

\* consume() of a snapshot: a number seen before gives nothing, the first
\* snapshot is the baseline, a creation is told once.
Consume(c, snapshot) ==
    LET first == c.lastSeq = 0
        born == IF first THEN {} ELSE BornGroups(c, snapshot)
        spawns == IF first THEN c.recentSpawns ELSE Spawns(c, snapshot)
        told == {Event("group-born", k, k) : k \in born}
                  \cup BornChildren(snapshot) \cup Died(c, snapshot)
    IN  IF snapshot.seq = c.lastSeq THEN [consumer |-> c, events |-> {}]
        ELSE [consumer |-> [lastSeq |-> snapshot.seq,
                            previous |-> MembershipOf(snapshot),
                            recentSpawns |-> Restrict(spawns, DOMAIN spawns \ born)],
              events |-> IF first THEN {} ELSE told]
=============================================================================
