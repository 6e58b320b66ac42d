--------------------------- MODULE Interpolator ---------------------------
(***************************************************************************)
(* What is shown between two snapshots (web/src/state/interpolator.ts) and *)
(* the dashboard's timer that samples it into React's state                *)
(* (useInterpolated.ts); the scene samples it in its frames.  previous and *)
(* current are the store's (see SnapshotStore).                            *)
(*                                                                         *)
(* A snapshot is a function from its groups to their members' figures.  A  *)
(* member with the group's own key is the group itself; a core, and the    *)
(* system, is a group without children.                                    *)
(***************************************************************************)
EXTENDS Integers

CONSTANTS SampleGroups, \* keys of groups
          SampleChild,  \* pid of a child
          Figures,      \* what is measured, multiples of IntervalMs
          IntervalMs,   \* the store's intervalMs, in steps
          MaxLate       \* bound: steps after a snapshot that are told apart

Unknown == 0 - 1  \* null

ASSUME SampleAssumption ==
    /\ SampleChild \notin SampleGroups
    /\ Figures \subseteq Nat /\ {IntervalMs, MaxLate} \subseteq Nat

VARIABLES
    previous, current, \* of the store
    follows,           \* current.seq is previous.seq + 1
    elapsed,           \* now - arrivedAt
    frame,             \* of useInterpolated
    stale              \* the store has changed since

sampleVars == <<previous, current, follows, elapsed, frame, stale>>

NoSnapshots == [k \in {} |-> 0] \* null; a snapshot has a core at least

\* A snapshot lists groups, and the child with one of them or none; what is
\* known of a group is known (its memory), of a child it may not be (its cpu).
\* What is known of a snapshot's members is taken to be alike.
SnapshotOf(groups, parent, own, known) ==
    [k \in groups |-> [m \in {k} \cup {c \in {SampleChild} : k = parent} |->
                         IF m = k \/ known THEN own ELSE Unknown]]

Snapshots ==
    {SnapshotOf(groups, parent, own, known) :
        groups \in SUBSET SampleGroups \ {{}}, parent \in SampleGroups \cup {SampleChild},
        own \in Figures, known \in BOOLEAN}

SampleInit ==
    /\ previous = NoSnapshots /\ current = NoSnapshots /\ frame = NoSnapshots
    /\ follows = FALSE /\ elapsed = 0 /\ stale = FALSE

----------------------------------------------------------------------------
(***************************************************************************)
(* sample().                                                               *)
(***************************************************************************)
\* Between a figure and one that is not known there is nothing.
LerpNullable(from, to, late) ==
    IF Unknown \in {from, to} \/ late >= IntervalMs THEN to
    ELSE from + ((to - from) * late) \div IntervalMs

\* Mutant: a child's figure is looked up by its pid alone.
PriorAnywhere(before, key, member) ==
    IF \E k \in DOMAIN before : member \in DOMAIN before[k]
    THEN before[CHOOSE k \in DOMAIN before : member \in DOMAIN before[k]][member]
    ELSE Unknown

\* The figure of the same member of the same group.
Prior(before, key, member) ==
    IF key \in DOMAIN before /\ member \in DOMAIN before[key]
    THEN before[key][member] ELSE Unknown

\* After a gap, or when the time is up, what is shown is current.
Sample(late) ==
    LET before == IF follows THEN previous ELSE NoSnapshots
    IN  [k \in DOMAIN current |->
            [m \in DOMAIN current[k] |->
                LerpNullable(Prior(before, k, m), current[k][m], late)]]

----------------------------------------------------------------------------
(***************************************************************************)
(* The store and the timer.                                                *)
(***************************************************************************)
\* pushSnapshot; another may have been missed before it.
SampleArrive ==
    /\ \E next \in Snapshots, inSeq \in BOOLEAN :
          /\ inSeq => current # NoSnapshots
          /\ previous' = current /\ current' = next
          /\ follows' = inSeq
    /\ elapsed' = 0 /\ stale' = TRUE
    /\ UNCHANGED frame

\* A new session, or another version of the protocol.
SampleClear ==
    /\ current # NoSnapshots
    /\ previous' = NoSnapshots /\ current' = NoSnapshots /\ follows' = FALSE
    /\ elapsed' = 0 /\ stale' = TRUE
    /\ UNCHANGED frame

SampleTick ==
    \E late \in elapsed..MaxLate :
       /\ elapsed' = late
       /\ frame' = Sample(late) /\ stale' = FALSE
       /\ UNCHANGED <<previous, current, follows>>

SampleNext == SampleArrive \/ SampleClear \/ SampleTick

SampleSpec == SampleInit /\ [][SampleNext]_sampleVars

----------------------------------------------------------------------------
(***************************************************************************)
(* Properties.                                                             *)
(***************************************************************************)
SampleTypeOK ==
    /\ {previous, current} \subseteq Snapshots \cup {NoSnapshots}
    /\ {follows, stale} \subseteq BOOLEAN /\ elapsed \in 0..MaxLate
    /\ DOMAIN frame \subseteq SampleGroups

Off(x, y) == IF x > y THEN x - y ELSE y - x

\* The last frame shows the members of the snapshot, what is known of each,
\* and of that a figure between what was last known of the same process in the
\* same group and what is known now.
Faithful ==
    /\ DOMAIN frame = DOMAIN current
    /\ \A k \in DOMAIN current :
       /\ DOMAIN frame[k] = DOMAIN current[k]
       /\ \A m \in DOMAIN current[k] :
             LET to == current[k][m]
                 known == /\ follows /\ k \in DOMAIN previous
                          /\ m \in DOMAIN previous[k] /\ previous[k][m] # Unknown
             IN  /\ frame[k][m] = Unknown <=> to = Unknown
                 /\ ~known \/ elapsed >= IntervalMs => frame[k][m] = to
                 /\ known /\ to # Unknown =>
                       Off(frame[k][m], previous[k][m]) + Off(frame[k][m], to)
                          = Off(previous[k][m], to)

\* From frame to frame of the same snapshot the figures approach it.
Approaches ==
    \A k \in DOMAIN current : \A m \in DOMAIN current[k] :
       current[k][m] # Unknown =>
          Off(frame'[k][m], current[k][m]) <= Off(frame[k][m], current[k][m])

(***************************************************************************)
(* Whatever comes between snapshots, gaps, new sessions, processes that    *)
(* change groups or cannot be measured: no frame shows a figure that is    *)
(* not between two of the same process, nor one that runs backwards. What  *)
(* is the same process is told by its key, as in the code: a number used   *)
(* again by the same program is not told apart.                            *)
(***************************************************************************)
SampleHonest ==
    /\ [](~stale => Faithful)
    /\ [][~stale /\ ~stale' => Approaches]_sampleVars
=============================================================================
