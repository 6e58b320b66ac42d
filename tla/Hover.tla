------------------------------- MODULE Hover -------------------------------
(***************************************************************************)
(* What the pointer is on: the handlers of the bodies, the satellites, the *)
(* cores and the star (web/src/scene/ProcessNode.tsx, SatelliteNode.tsx,   *)
(* CoreOrb.tsx, SystemStar.tsx), the hover SceneRoot keeps and mirrors for *)
(* the frames (HoverFrame of sceneContext.ts), and the tooltip that frames *)
(* fill (Tooltip.tsx).  With it, the cores: the orbs React mounts          *)
(* (CoreRing.tsx) and the sparks in a buffer of their number               *)
(* (CoreSparks.tsx, visual/coreSparks.ts).                                 *)
(*                                                                         *)
(* Four clocks: the store's snapshots, the frames, React's commits, and    *)
(* the effects of a commit, which React runs in a task of their own: frames*)
(* and events may come between a commit and its effects.                   *)
(***************************************************************************)
EXTENDS Integers

CONSTANTS HoverGroups, \* keys of groups
          HoverMoons,  \* pids of children with a satellite
          MaxCores,    \* bound: cores of a machine
          SPARKS_PER_CORE

ASSUME HoverAssumption ==
    /\ HoverGroups \cap HoverMoons = {}
    /\ {MaxCores, SPARKS_PER_CORE} \subseteq Nat

Hovered(kind, ids) == [kind : {kind}, id : ids]

NotHovered == [kind |-> "none", id |-> 0]
Star       == [kind |-> "system", id |-> 0]

VARIABLES
    storeCores, \* cores of the store's snapshot, 0 without one
    things,     \* what the last frame found or left: bodies, satellites, cores
    tree,       \* what React has mounted of them
    pointer,    \* what the pointer is on, as far as its events go
    hovered,    \* SceneRoot's state
    hover,      \* HoverFrame
    tooltip,    \* its target, and what it tells of: nothing unless it is displayed
    orbs,       \* orbs that are visible
    sparks,     \* sparks drawn
    passive     \* effects of the last commit are still to be run

hoverVars == <<storeCores, things, tree, pointer, hovered, hover, tooltip, orbs, sparks,
               passive>>

HoverInit ==
    /\ storeCores = 0
    /\ things = [bodies |-> [k \in HoverGroups |-> "absent"], moons |-> {}, cores |-> 0]
    /\ tree = [keys |-> {}, moons |-> {}, count |-> 0]
    /\ pointer = NotHovered /\ hovered = NotHovered /\ hover = NotHovered
    /\ tooltip = [target |-> NotHovered, text |-> NotHovered]
    /\ orbs = {} /\ sparks = 0 /\ passive = FALSE

Mounted(t) == Hovered("group", t.keys) \cup Hovered("satellite", t.moons)
                 \cup Hovered("core", 0..t.count - 1) \cup {Star}

----------------------------------------------------------------------------
(***************************************************************************)
(* The pointer.                                                            *)
(***************************************************************************)
PointerOver(x) ==
    /\ x # pointer
    /\ pointer' = x /\ hovered' = x
    /\ UNCHANGED <<storeCores, things, tree, hover, tooltip, orbs, sparks, passive>>

PointerOut ==
    /\ pointer # NotHovered
    /\ pointer' = NotHovered
    /\ hovered' = IF hovered = pointer THEN NotHovered ELSE hovered
    /\ UNCHANGED <<storeCores, things, tree, hover, tooltip, orbs, sparks, passive>>

----------------------------------------------------------------------------
(***************************************************************************)
(* React.                                                                  *)
(***************************************************************************)
Wanted == [keys |-> {k \in HoverGroups : things.bodies[k] # "absent"},
           moons |-> things.moons, count |-> storeCores]

\* liveHovered.
Live(x, keys) == IF x.kind = "group" /\ x.id \notin keys THEN NotHovered ELSE x

\* Mutant: a core that is unmounted stays hovered.
CleanedNever(x, count) == x

\* The cleanup of a core's orb.
Cleaned(x, count) == IF x.kind = "core" /\ x.id >= count THEN NotHovered ELSE x

\* SceneRoot renders the hover; Satellites, CoreRing and CoreSparks render with
\* it or on their own.  The effects of a commit are run before the next render.
\* An object that is unmounted under the pointer gives no onPointerOut.  Sparks
\* of another number of cores get another buffer, with nothing in it.
HoverCommit ==
    /\ ~passive /\ passive' = TRUE
    /\ \E t \in [keys : {tree.keys, Wanted.keys}, moons : {tree.moons, Wanted.moons},
                 count : {tree.count, Wanted.count}],
          live \in {tooltip.target, Live(hovered, tree.keys), Live(hovered, Wanted.keys)} :
       /\ live = Live(hovered, t.keys) \/ (t.keys = tree.keys /\ live = tooltip.target)
       /\ t # tree \/ live # tooltip.target
       /\ tree' = t
       /\ tooltip' = [tooltip EXCEPT
             !.target = live,
             !.text = IF NotHovered \in {tooltip.target, live} THEN NotHovered ELSE @]
       /\ pointer' = IF pointer \in Mounted(t) THEN pointer ELSE NotHovered
       /\ orbs' = {i \in orbs : i < t.count}
       /\ sparks' = IF t.count = tree.count THEN sparks ELSE 0
    /\ UNCHANGED <<storeCores, things, hovered, hover>>

\* The effects: the orbs that went let go of the hover, and SceneRoot mirrors
\* what it rendered; what the orbs let go of is mirrored after the next render.
HoverEffects ==
    /\ passive /\ passive' = FALSE
    /\ hovered' = Cleaned(hovered, tree.count)
    /\ hover' = tooltip.target
    /\ UNCHANGED <<storeCores, things, tree, pointer, tooltip, orbs, sparks>>

----------------------------------------------------------------------------
(***************************************************************************)
(* A snapshot, and a frame.                                                *)
(***************************************************************************)
StoreCores ==
    /\ storeCores' \in 0..MaxCores \ {storeCores}
    /\ UNCHANGED <<things, tree, pointer, hovered, hover, tooltip, orbs, sparks, passive>>

\* labelFor: what is there to tell of; a body that leaves has old figures.
There(x, t) ==
    CASE x.kind = "system"    -> t.cores > 0
      [] x.kind = "core"      -> x.id < t.cores
      [] x.kind = "satellite" -> x.id \in t.moons
      [] x.kind = "group"     -> t.bodies[x.id] = "staying"
      [] OTHER                -> FALSE

\* useFrame of Tooltip; until its box is mounted it does nothing.
Told(t) ==
    IF tooltip.target = NotHovered THEN tooltip
    ELSE [tooltip EXCEPT !.text = IF There(tooltip.target, t) THEN tooltip.target
                                                               ELSE NotHovered]

\* The cores that have sparks: of the snapshot, as far as the buffer goes.
Lit(cores, count) == IF cores < count THEN cores ELSE count

\* Bodies come and go with the tracker (SceneRoot), satellites with theirs;
\* without a snapshot there are none.  What is drawn is of the tree the last
\* commit left.
HoverFrame ==
    \E next \in [bodies : [HoverGroups -> {"absent", "staying", "leaving"}],
                 moons : SUBSET HoverMoons, cores : {storeCores}],
       load \in 0..SPARKS_PER_CORE :
       /\ storeCores = 0 => /\ next.moons = {}
                            /\ \A k \in HoverGroups : next.bodies[k] = "absent"
       /\ things' = next
       /\ orbs' = {i \in 0..tree.count - 1 : i < storeCores}
       /\ sparks' = load * Lit(storeCores, tree.count)
       /\ tooltip' \in {Told(next)} \cup (IF tooltip.text = NotHovered THEN {tooltip} ELSE {})
       /\ UNCHANGED <<storeCores, tree, pointer, hovered, hover, passive>>

HoverNext == \/ \E x \in Mounted(tree) : PointerOver(x)
             \/ PointerOut \/ HoverCommit \/ HoverEffects \/ StoreCores \/ HoverFrame

HoverSpec == HoverInit /\ [][HoverNext]_hoverVars

----------------------------------------------------------------------------
(***************************************************************************)
(* Properties.                                                             *)
(***************************************************************************)
Targets == Hovered("group", HoverGroups) \cup Hovered("satellite", HoverMoons)
              \cup Hovered("core", 0..MaxCores - 1) \cup {Star, NotHovered}

HoverTypeOK ==
    /\ {storeCores, things.cores, tree.count} \subseteq 0..MaxCores
    /\ passive \in BOOLEAN
    /\ {pointer, hovered, hover, tooltip.target, tooltip.text} \subseteq Targets
    /\ tree.keys \subseteq HoverGroups /\ tree.moons \subseteq HoverMoons
    /\ sparks \in 0..MaxCores * SPARKS_PER_CORE

\* React has nothing left to do for the hover: the last commit's effects are
\* run, and SceneRoot would render what it rendered last.
CaughtUp == ~passive /\ tooltip.target = Live(hovered, tree.keys)

(***************************************************************************)
(* Whichever of store, frame and tree is behind the others: a tooltip that *)
(* is displayed tells of what is there; lines are lit up for a group or a  *)
(* core that is mounted, but for the frames until React has caught up      *)
(* (between a commit and its effects, and until SceneRoot renders what the *)
(* effects let go of); a hover outlives what was under the pointer only if *)
(* that was a group or a satellite; an orb is visible only for a core of   *)
(* the frame; and the sparks fit into their buffer.                        *)
(***************************************************************************)
HoverHonest ==
    /\ tooltip.text # NotHovered => There(tooltip.text, things)
    /\ CaughtUp /\ hover.kind \in {"group", "core"} => hover \in Mounted(tree)
    /\ ~passive /\ hovered.kind = "core" => hovered.id < tree.count
    /\ ~passive /\ hovered \notin {pointer, NotHovered}
          => hovered.kind \in {"group", "satellite"}
    /\ \A i \in orbs : i < things.cores /\ i < tree.count
    /\ sparks <= tree.count * SPARKS_PER_CORE
=============================================================================
