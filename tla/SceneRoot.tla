----------------------------- MODULE SceneRoot -----------------------------
(***************************************************************************)
(* The frame loop of the scene (web/src/scene/SceneRoot.tsx) with the      *)
(* tracker of what is shown, the events it tells and the focus it keeps,   *)
(* against an engine whose snapshots arrive at any rate: several frames    *)
(* see the same snapshot, or none sees it, or a restarted engine's first   *)
(* snapshot is there before a frame saw the empty store.                   *)
(*                                                                         *)
(* world is what the engine sees.  Its fields are not sent, except through *)
(* the snapshots; the properties compare the scene with them.              *)
(***************************************************************************)
EXTENDS Presence, Lifecycle, FiniteSets

CONSTANTS Pids,        \* pids in use
          MaxLives,    \* bound: processes that use the same pid
          MaxSeq,      \* bound: snapshots of the first engine run, half for the next
          MaxSessions  \* bound: engine runs

Null == "null" \* no key, no process

ASSUME SceneAssumption ==
    /\ Null \notin Pids
    /\ {MaxLives, MaxSeq, MaxSessions} \subseteq Nat

VARIABLES
    world,       \* of each pid: the life it is in, its group, how it was told
    session,     \* of the store
    snapshot,    \* current of the store
    lastSession, \* the session the last frame saw
    consumer,    \* the LifecycleConsumer
    presence,    \* the PresenceTracker
    events,      \* of the last frame
    focusedKey,  \* the focus store
    nodeIds,     \* the node list handed to React
    mounted,     \* the nodes React has mounted
    dtSec        \* how long after the frame before it the last frame was

store  == <<session, snapshot>>
scene  == <<lastSession, consumer, presence, events, nodeIds, dtSec>>
vars   == <<world, store, scene, focusedKey, mounted>>

NoSnapshot == [seq |-> 0, groups |-> Nothing, spawned |-> {}, terminated |-> {}]

\* age: snapshots since the one that reported the process, up to one more
\* than the window, also of one never reported.  told: events told of it.
Unreported == SPAWN_WINDOW_SNAPSHOTS + 1
Dead(life) == [life |-> life, root |-> Null, age |-> Unreported, told |-> {}]

Living(w) == {p \in Pids : w[p].root # Null}
Roots(w) == {p \in Pids : w[p].root = p}
MembersOf(w, root) == {p \in Pids : w[p].root = root}

\* The groups of a snapshot; life is that of the root, as ppid, start and
\* figures are of one process.
GroupsOf(w, shown) ==
    [k \in shown |-> [life |-> w[k].life, children |-> MembersOf(w, k) \ {k}]]

Init ==
    /\ world = [p \in Pids |-> Dead(0)]
    /\ session = 0
    /\ snapshot = NoSnapshot
    /\ lastSession = 0
    /\ consumer = NewConsumer
    /\ presence = NewTracker
    /\ events = {}
    /\ focusedKey = Null
    /\ nodeIds = {}
    /\ mounted = {}
    /\ dtSec = 0

----------------------------------------------------------------------------
(***************************************************************************)
(* The engine.  Between two snapshots processes end and start, also one    *)
(* with the pid of one that ended.  A process is of its parent's group,    *)
(* and on its own, or with others of the group, once the root has ended.   *)
(***************************************************************************)
NextRoots(ended, started) ==
    LET live == (Living(world) \ ended) \cup started
        Orphan(p) == p \notin started /\ world[p].root \in ended
    IN  {r \in [Pids -> Pids \cup {Null}] :
            \A p \in Pids :
               /\ r[p] = Null <=> p \notin live
               /\ p \in live => r[r[p]] = r[p]
               /\ p \in live \ started =>
                     IF Orphan(p)
                     THEN Orphan(r[p]) /\ world[r[p]].root = world[p].root
                     ELSE r[p] = world[p].root}

NextWorld(root, ended, started, reported) ==
    [p \in Pids |->
        IF root[p] = Null THEN Dead(world[p].life)
        ELSE IF p \in started
        THEN [life |-> world[p].life + 1, root |-> root[p], told |-> {},
              age |-> IF reported THEN 0 ELSE Unreported]
        ELSE [world[p] EXCEPT !.root = root[p],
                              !.age = IF @ < Unreported THEN @ + 1 ELSE @]]

\* The next snapshot.  The first one of a run reports nobody; which of the
\* groups are listed is up to their ranks.
Arrive ==
    /\ session > 0
    /\ snapshot.seq < MaxSeq \div session
    /\ \E ended \in SUBSET Living(world) :
       \E started \in SUBSET {p \in Pids \ (Living(world) \ ended) :
                                 world[p].life < MaxLives} :
       \E root \in NextRoots(ended, started) :
          LET reported == snapshot.seq > 0
              w == NextWorld(root, ended, started, reported)
          IN  /\ world' = w
              /\ \E shown \in SUBSET Roots(w) :
                    snapshot' = [seq |-> snapshot.seq + 1,
                                 groups |-> GroupsOf(w, shown),
                                 spawned |-> IF reported THEN started ELSE {},
                                 terminated |-> IF reported THEN ended ELSE {}]
    /\ UNCHANGED <<session, scene, focusedKey, mounted>>

\* The hello of a new engine run: the store is emptied.
NewSession ==
    /\ session < MaxSessions
    /\ session' = session + 1
    /\ snapshot' = NoSnapshot
    /\ world' = [p \in Pids |-> [world[p] EXCEPT !.age = Unreported]]
    /\ UNCHANGED <<scene, focusedKey, mounted>>

----------------------------------------------------------------------------
(***************************************************************************)
(* The frame.                                                              *)
(***************************************************************************)
KeysDied(told) == {e.key : e \in {e \in told : e.kind = "group-died"}}
KeysBorn(told) == {e.key : e \in {e \in told : e.kind = "group-born"}}

\* Mutant: the focus goes when the body has gone, not when it leaves.
FocusKept(focus, t) == IF focus \in DOMAIN t.items THEN focus ELSE Null

\* The focus after a frame that left the tracker as t.
FocusLeft(focus, t) ==
    IF focus = Null \/ focus \notin DOMAIN t.items THEN Null
    ELSE IF IsLeaving(t.items[focus].phase) THEN Null ELSE focus

\* The list is rebuilt when the version has moved.
Show(t) ==
    /\ presence' = [t EXCEPT !.version = 0]
    /\ nodeIds' = IF t.version = 0 THEN nodeIds ELSE DOMAIN t.items

\* A frame that finds the store empty.
EmptyFrame(t) ==
    /\ consumer' = NewConsumer
    /\ events' = {}
    /\ focusedKey' = FocusLeft(focusedKey, t)
    /\ Show(t)
    /\ UNCHANGED world

\* What the properties remember of a frame: which events were told.
Remember(told) ==
    world' = [p \in Pids |->
        [world[p] EXCEPT !.told =
            @ \cup {e.kind : e \in {e \in told : e.pid = p /\ e.kind \in
                                       {"group-born", "child-born"}}}]]

\* A frame that draws the store's snapshot with the consumer and the tracker
\* it found, or with those emptied for a new session.
DrawWith(c, t, focus, step) ==
    LET result == Consume(c, snapshot)
        next == Update(t, snapshot.groups, KeysBorn(result.events),
                       KeysDied(result.events), step)
    IN  /\ consumer' = result.consumer
        /\ events' = result.events
        /\ focusedKey' = FocusLeft(focus, next)
        /\ Show(next)
        /\ Remember(result.events)

\* Mutant: a change of session is noticed in an empty store only.
DrawUnnoticed(step) == DrawWith(consumer, presence, focusedKey, step)

Draw(step) ==
    IF session = lastSession
    THEN DrawWith(consumer, presence, focusedKey, step)
    ELSE DrawWith(NewConsumer, Reset(presence), Null, step)

Frame ==
    \E step \in 0..Full :
       /\ dtSec' = step
       /\ lastSession' = session
       /\ IF snapshot = NoSnapshot THEN EmptyFrame(Reset(presence)) ELSE Draw(step)
       /\ UNCHANGED <<store, mounted>>

\* React mounts the nodes of the list it was given.
Commit ==
    /\ mounted # nodeIds
    /\ mounted' = nodeIds
    /\ UNCHANGED <<world, store, scene, focusedKey>>

\* A click on a node that is mounted; one that leaves does not take it.
Click(k) ==
    /\ k \in mounted
    /\ ~(k \in DOMAIN presence.items /\ IsLeaving(presence.items[k].phase))
    /\ focusedKey' = IF focusedKey = k THEN Null ELSE k
    /\ UNCHANGED <<world, store, scene, mounted>>

Next == \/ Arrive \/ NewSession \/ Frame \/ Commit
        \/ \E k \in Pids : Click(k)

Spec == Init /\ [][Next]_vars

----------------------------------------------------------------------------
(***************************************************************************)
(* Properties.                                                             *)
(***************************************************************************)
Value == [life : 1..MaxLives, children : SUBSET Pids]

TypeOK ==
    /\ \A p \in Pids : /\ world[p].life \in 0..MaxLives
                       /\ world[p].root \in Pids \cup {Null}
                       /\ world[p].age \in 0..Unreported
    /\ DOMAIN presence.items \subseteq Pids
    /\ \A k \in DOMAIN presence.items :
          presence.items[k] \in [phase : Phase, progress : 0..Full, value : Value]
    /\ DOMAIN consumer.previous \subseteq Pids
    /\ DOMAIN consumer.recentSpawns \subseteq Pids
    /\ consumer.lastSeq \in 0..MaxSeq
    /\ focusedKey \in Pids \cup {Null}
    /\ nodeIds \subseteq Pids /\ mounted \subseteq Pids

Items == presence.items
Staying == {k \in DOMAIN Items : ~IsLeaving(Items[k].phase)}

(***************************************************************************)
(* The tracker and the consumer, updated by separate calls, agree on what  *)
(* the scene shows: what does not leave is what the last snapshot drawn    *)
(* lists, and the nodes handed to React are all of the entries, although   *)
(* they are listed anew only when the version moves; with the types.       *)
(***************************************************************************)
OnStage ==
    /\ TypeOK
    /\ Staying = KeysOf(consumer.previous)
    /\ nodeIds = DOMAIN Items

\* A body collapses only because the process it stood for has ended: neither
\* because its pid is in use again nor because it fell out of the ranks.
CollapseIsReal ==
    \A k \in DOMAIN Items :
       Items[k].phase = "collapsing" =>
          \/ world[k].root = Null
          \/ world[k].life > Items[k].value.life

Told(kind) == {e.pid : e \in {e \in events' : e.kind = kind}}

\* A group is said to be born only when its root was reported as new within
\* the window, in this session, and once for each process.
BornIsReal ==
    \A p \in Told("group-born") : /\ world[p].age <= SPAWN_WINDOW_SNAPSHOTS
                                 /\ "group-born" \notin world[p].told

\* Of a group that leaves the scene it is told whether it died, if frames have
\* seen the snapshots before and after.
DeathIsShown ==
    /\ session = lastSession
    /\ consumer.lastSeq > 0 /\ snapshot.seq = consumer.lastSeq + 1
    => \A k \in (Staying \ DOMAIN snapshot.groups) \cap DOMAIN Items' :
          (k \in snapshot.terminated) <=> (Items'[k].phase = "collapsing")

(***************************************************************************)
(* What the scene tells of births and deaths happened to the processes it  *)
(* tells it of, whatever snapshots the frames missed or saw several times, *)
(* and whatever pids are used again.                                       *)
(***************************************************************************)
EventsTrue ==
    /\ []CollapseIsReal
    /\ [][Frame => BornIsReal /\ DeathIsShown]_vars

(***************************************************************************)
(* However phases cut each other short, a body's opacity does not jump: it *)
(* changes by no more than the time that passed, except that a process     *)
(* with the key of a collapsing one is a new body.                         *)
(***************************************************************************)
OpacityContinuous ==
    [][Frame /\ session = lastSession /\ snapshot # NoSnapshot /\ presence.initialized
       => \A k \in DOMAIN Items \cup DOMAIN Items' :
             LET before == IF k \in DOMAIN Items THEN Opacity(Items[k]) ELSE 0
                 after == IF k \in DOMAIN Items' THEN Opacity(Items'[k]) ELSE 0
             IN  \/ after <= before + dtSec' /\ before <= after + dtSec'
                 \/ k \in DOMAIN Items /\ Items[k].phase = "collapsing"
                      /\ k \in DOMAIN snapshot.groups /\ after = 0]_vars

(***************************************************************************)
(* After a frame the focus is on a body that stays, though a click may     *)
(* have put it on a node whose body was already gone.                      *)
(***************************************************************************)
FocusStays == [][Frame => focusedKey' \in {Null} \cup Staying']_vars
=============================================================================
