----------------------------- MODULE BurstPool -----------------------------
(***************************************************************************)
(* Bursts of particles: the pool they share (web/src/visual/bursts.ts),    *)
(* the burst a frame of SceneRoot makes of an event (burstFor, with the    *)
(* calls of its frame) and the frame that draws them (Particles.tsx).      *)
(*                                                                         *)
(* A burst follows its body while there is one and ends where it saw it    *)
(* last.  onScene, the keys of the tracker's entries, and the events are   *)
(* SceneRoot's: an event may be of a group that is there no more.          *)
(***************************************************************************)
EXTENDS Naturals, Sequences, SequencesExt

CONSTANTS Bodies,        \* keys of groups
          NoBody,
          POOL_CAPACITY,
          Particles,     \* of each kind of burst, its number of particles
          Duration,      \* of each kind, in steps
          MaxTold        \* bound: events of a frame

Kinds == {"group-born", "group-died", "child-born", "child-died"}
Events == [kind : Kinds, key : Bodies]

ASSUME BurstAssumption ==
    /\ NoBody \notin Bodies /\ {POOL_CAPACITY, MaxTold} \subseteq Nat
    /\ Particles \in [Kinds -> Nat] /\ Duration \in [Kinds -> Nat \ {0}]

VARIABLES
    pool,      \* the bursts, the oldest first
    onScene,   \* groups on the scene, and in the layout after a frame
    told,      \* events of the last frame
    stored,    \* session of the store, one or the other
    framed,    \* session the last frame saw
    burstStep  \* steps between the last frame and the one before

burstVars == <<pool, onScene, told, stored, framed, burstStep>>

\* center: whether lastCenter is known.  session is only for the properties.
Burst == [anchor : {"group", "satellite"}, key : Bodies, count : Nat, left : Nat,
          center : BOOLEAN, session : BOOLEAN]

BurstInit == /\ pool = <<>> /\ onScene = {} /\ told = <<>>
             /\ stored = FALSE /\ framed = FALSE /\ burstStep = 0

----------------------------------------------------------------------------
(***************************************************************************)
(* The pool.                                                               *)
(***************************************************************************)
Used(bursts) ==
    LET sum[i \in 0..Len(bursts)] == IF i = 0 THEN 0 ELSE sum[i - 1] + bursts[i].count
    IN  sum[Len(bursts)]

From(bursts, i) == SubSeq(bursts, i, Len(bursts))

\* Mutant: one burst at most gives way.
AddedForOne(bursts, b) ==
    Append(IF Used(bursts) + b.count > POOL_CAPACITY /\ bursts # <<>>
           THEN Tail(bursts) ELSE bursts, b)

\* The oldest give way one by one until there is room.
Added(bursts, b) ==
    LET Fits(i) == Used(From(bursts, i)) + b.count <= POOL_CAPACITY
        first == CHOOSE i \in 1..Len(bursts) + 1 :
                    /\ Fits(i) \/ i = Len(bursts) + 1
                    /\ \A j \in 1..i - 1 : ~Fits(j)
    IN  Append(From(bursts, first), b)

\* Those that are not over.
Active(bursts) ==
    LET live[i \in 0..Len(bursts)] ==
          IF i = 0 THEN <<>>
          ELSE IF bursts[i].left > 0 THEN Append(live[i - 1], bursts[i]) ELSE live[i - 1]
    IN  live[Len(bursts)]

Aged(bursts, step) ==
    [i \in DOMAIN bursts |->
        [bursts[i] EXCEPT !.left = IF @ > step THEN @ - step ELSE 0]]

----------------------------------------------------------------------------
(***************************************************************************)
(* The frame.                                                              *)
(***************************************************************************)
CountOf(kind) == IF Particles[kind] < POOL_CAPACITY THEN Particles[kind]
                 ELSE POOL_CAPACITY

\* The burst of an event.  The birth and the end of a child are where its
\* satellite is, if its group is in focus.
BurstFor(event, focusKey) ==
    [anchor |-> IF event.kind \in {"child-born", "child-died"} /\ focusKey = event.key
                THEN "satellite" ELSE "group",
     key |-> event.key, count |-> CountOf(event.kind), left |-> Duration[event.kind],
     center |-> FALSE, session |-> stored]

\* One after the other, of the groups that are there.
WithBursts(bursts, news, there, focusKey) ==
    LET pools[n \in 0..Len(news)] ==
          IF n = 0 THEN bursts
          ELSE IF news[n].key \in there
               THEN Added(pools[n - 1], BurstFor(news[n], focusKey)) ELSE pools[n - 1]
    IN  pools[Len(news)]

\* centerOf: the place of the group (that of its satellite is near it), or
\* where it was seen last.
Centered(bursts, places) ==
    [i \in DOMAIN bursts |->
        [bursts[i] EXCEPT !.center = @ \/ bursts[i].key \in places]]

\* A frame with a snapshot.  A change of session empties the pool, though no
\* frame saw an empty store.  The layout has stepped when the particles are
\* drawn: it has the places of all that is there.
BurstFrame ==
    \E there \in SUBSET Bodies, news \in BoundedSeq(Events, MaxTold),
       focusKey \in Bodies \cup {NoBody}, step \in 0..1 :
       LET kept == IF stored = framed THEN Aged(pool, step) ELSE <<>>
           bursts == WithBursts(kept, news, there, focusKey)
       IN  /\ pool' = Centered(Active(bursts), there)
           /\ onScene' = there /\ told' = news
           /\ framed' = stored /\ burstStep' = step
           /\ UNCHANGED stored

\* A frame without one.
BurstEmptyFrame ==
    /\ pool' = <<>> /\ onScene' = {} /\ told' = <<>>
    /\ framed' = stored /\ burstStep' = 0
    /\ UNCHANGED stored

\* The next engine run's hello and snapshot replace the former's.
BurstSession ==
    /\ stored = framed
    /\ stored' = ~stored
    /\ UNCHANGED <<pool, onScene, told, framed, burstStep>>

BurstNext == BurstFrame \/ BurstEmptyFrame \/ BurstSession

BurstSpec == BurstInit /\ [][BurstNext]_burstVars

----------------------------------------------------------------------------
(***************************************************************************)
(* Properties.                                                             *)
(***************************************************************************)
BurstTypeOK ==
    /\ pool \in Seq(Burst) /\ onScene \subseteq Bodies
    /\ told \in BoundedSeq(Events, MaxTold)
    /\ {stored, framed} \subseteq BOOLEAN /\ burstStep \in 0..1

\* There is room for every particle, a place for every burst, and no burst of
\* a session before the frame's.
BurstsHaveRoom ==
    /\ Used(pool) <= POOL_CAPACITY
    /\ \A i \in DOMAIN pool : pool[i].center /\ pool[i].session = framed

Measures(bursts) ==
    [i \in DOMAIN bursts |-> [count |-> bursts[i].count, left |-> bursts[i].left]]

\* The bursts and what the events add to them, if all of it fits.
AllBursts(bursts, news, there) ==
    LET all[n \in 0..Len(news)] ==
          IF n = 0 THEN Measures(bursts)
          ELSE IF news[n].key \in there
               THEN Append(all[n - 1], [count |-> CountOf(news[n].kind),
                                        left |-> Duration[news[n].kind]])
               ELSE all[n - 1]
    IN  all[Len(news)]

\* A frame leaves the longest end of what was there and what it added that
\* fits; what is over since the last frame still takes its room.
OldestGivesWay ==
    LET all == AllBursts(Aged(pool, burstStep'), told', onScene')
    IN  \E i \in 1..Len(all) + 1 :
           /\ Measures(pool') = Active(From(all, i))
           /\ i > 1 => Used(From(all, i - 1)) > POOL_CAPACITY

(***************************************************************************)
(* The bursts never outgrow the buffer of the particles, each has a body   *)
(* it is drawn around or remembers, and is of this session; one ends       *)
(* before its time only if it and what came after it do not fit.           *)
(***************************************************************************)
BurstsOrderly ==
    [][/\ BurstsHaveRoom'
       /\ stored' = stored /\ stored = framed /\ ~BurstEmptyFrame
             => OldestGivesWay]_burstVars
=============================================================================
