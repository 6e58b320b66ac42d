---------------------------- MODULE OrbitLayout ----------------------------
(***************************************************************************)
(* Where the bodies are: the plan of the orbits (web/src/visual/solar.ts), *)
(* the layout that glides the bodies to their orbits (layout.ts) from the  *)
(* sizes a frame gives it (layoutNodesFrom of frameCache.ts) and the lines *)
(* of the orbits (web/src/scene/OrbitRings.tsx).                           *)
(*                                                                         *)
(* Distances are whole tenths of a unit of the scene.  Angles are left     *)
(* out: what is on an orbit is spaced evenly, in the order of the keys.    *)
(***************************************************************************)
EXTENDS Integers, Sequences, SequencesExt, FiniteSets, FiniteSetsExt

CONSTANTS OrbitKeys,     \* keys of groups, numbers: their order matters
          Sizes,         \* radii of bodies (radiusFor)
          STAR_RADIUS, STAR_GAP, ARC_GAP, RING_GAP,
          RADIUS_DEADBAND, \* one part of so many
          OUTSIDE_MARGIN,
          Reach,         \* MAX_GLIDE_SPEED * MAX_DT, what a frame moves a body at most
          MAX_RINGS

ASSUME OrbitAssumption ==
    /\ OrbitKeys \subseteq Nat /\ Sizes \subseteq Nat \ {0}
    /\ IsFiniteSet(OrbitKeys) /\ RADIUS_DEADBAND \in Nat \ {0}
    /\ {STAR_RADIUS, STAR_GAP, ARC_GAP, RING_GAP, OUTSIDE_MARGIN, Reach, MAX_RINGS}
          \subseteq Nat

VARIABLES
    distance,    \* of each body, its distance from the star
    layoutRadii, \* of each body, the radius the plan uses
    plan,        \* the rings, the innermost first
    ringLines,   \* radii of the lines drawn
    sizes        \* of each body, its radius on the scene

orbitVars == <<distance, layoutRadii, plan, ringLines, sizes>>

OrbitInit == /\ distance = [k \in {} |-> 0] /\ layoutRadii = [k \in {} |-> 0]
             /\ plan = <<>> /\ ringLines = <<>> /\ sizes = [k \in {} |-> 0]

----------------------------------------------------------------------------
(***************************************************************************)
(* planOrbits: the largest first, each ring until the next has no room.    *)
(***************************************************************************)
\* 2 pi FILL, in sevenths.
Girth == 33

ByRadiusThenKey(a, b, radii) ==
    \/ radii[a] > radii[b]
    \/ radii[a] = radii[b] /\ a < b

Need(radius) == 2 * radius + ARC_GAP

\* The radius of the ring that begins with a body of radius first.
Outside(rings, first) ==
    IF rings = <<>> THEN STAR_RADIUS + STAR_GAP + first
    ELSE Last(rings).radius + Last(rings).maxBodyRadius + RING_GAP + first

NoRoom(ring, radius) == 7 * (ring.used + Need(radius)) > Girth * ring.radius

Joins(ring, key, radius) ==
    [ring EXCEPT !.keys = @ \cup {key}, !.used = @ + Need(radius)]

Placed(rings, key, radius) ==
    IF rings = <<>> \/ NoRoom(Last(rings), radius)
    THEN Append(rings, [radius |-> Outside(rings, radius), keys |-> {key},
                        maxBodyRadius |-> radius, used |-> Need(radius)])
    ELSE [rings EXCEPT ![Len(rings)] = Joins(@, key, radius)]

PlanOrbits(radii) ==
    LET least == [s \in SUBSET DOMAIN radii |->
                    CHOOSE k \in s : \A l \in s \ {k} : ByRadiusThenKey(l, k, radii)]
        rings[s \in SUBSET DOMAIN radii] ==
            IF s = {} THEN <<>>
            ELSE Placed(rings[s \ {least[s]}], least[s], radii[least[s]])
    IN  rings[DOMAIN radii]

OuterRadius(rings) == IF rings = <<>> THEN STAR_RADIUS
                      ELSE Last(rings).radius + Last(rings).maxBodyRadius

RingOf(rings, key) == CHOOSE i \in DOMAIN rings : key \in rings[i].keys

----------------------------------------------------------------------------
(***************************************************************************)
(* The frame.                                                              *)
(***************************************************************************)
Apart(a, b) == IF a > b THEN a - b ELSE b - a

\* Mutant: every change of size is followed.
HeldNever(nodes) == nodes

\* A radius is held until the size is further from it than the dead band.
Held(nodes) ==
    [k \in DOMAIN nodes |->
        IF /\ k \in DOMAIN layoutRadii
           /\ RADIUS_DEADBAND * Apart(nodes[k], layoutRadii[k]) <= layoutRadii[k]
        THEN layoutRadii[k] ELSE nodes[k]]

\* How near a body may come to its ring in a frame; the smoothing takes it
\* there or less far.
Nearest(from, to) == IF Apart(from, to) <= Reach THEN to
                     ELSE IF from < to THEN from + Reach ELSE from - Reach

\* The first bodies are where they belong; later ones come in from outside.
StartDistance(rings, ring) ==
    IF DOMAIN distance = {} THEN ring.radius
    ELSE Max({OuterRadius(plan), OuterRadius(rings)}) + OUTSIDE_MARGIN

\* step(); moves: whether time has passed since the last frame.
LayoutStep(nodes, moves) ==
    LET radii == Held(nodes)
        rings == PlanOrbits(radii)
        ring == [k \in DOMAIN nodes |-> rings[RingOf(rings, k)]]
    IN  /\ layoutRadii' = radii
        /\ plan' = rings
        /\ distance' = [k \in DOMAIN nodes |->
              IF k \notin DOMAIN distance THEN StartDistance(rings, ring[k])
              ELSE IF moves THEN Nearest(distance[k], ring[k].radius)
              ELSE distance[k]]

\* The lines follow with the same smoothing and no limit; of a new ring the
\* line is where the ring is.
LinesAfter(rings, moves) ==
    LET shown == SubSeq(rings, 1, Min({Len(rings), MAX_RINGS}))
    IN  [i \in DOMAIN shown |-> IF moves \/ i \notin DOMAIN ringLines
                                THEN shown[i].radius ELSE ringLines[i]]

\* The bodies of a frame and their sizes are those of the tracker's entries.
OrbitFrame ==
    \E there \in SUBSET OrbitKeys, moves \in BOOLEAN :
    \E nodes \in [there -> Sizes] :
       /\ LayoutStep(nodes, moves)
       /\ ringLines' = LinesAfter(PlanOrbits(Held(nodes)), moves)
       /\ sizes' = nodes

OrbitSpec == OrbitInit /\ [][OrbitFrame]_orbitVars

----------------------------------------------------------------------------
(***************************************************************************)
(* Properties.                                                             *)
(***************************************************************************)
OrbitTypeOK ==
    /\ DOMAIN distance = DOMAIN layoutRadii
    /\ DOMAIN distance \subseteq OrbitKeys
    /\ \A k \in DOMAIN layoutRadii : layoutRadii[k] \in Sizes /\ distance[k] \in Nat
    /\ Len(ringLines) = Min({Len(plan), MAX_RINGS})

Center(k) == plan[RingOf(plan, k)].radius

\* On its orbit nothing touches what is on another, nor the star, as large as
\* it is drawn: the radii of the plan may be a dead band off.
OrbitsApart ==
    LET off(k) == layoutRadii[k] \div RADIUS_DEADBAND IN
    \A k \in DOMAIN sizes :
       /\ Apart(sizes[k], layoutRadii[k]) <= off(k)
       /\ Center(k) - sizes[k] >= STAR_RADIUS + STAR_GAP - off(k)
       /\ \A l \in DOMAIN sizes :
             Center(k) < Center(l) =>
                Center(l) - sizes[l] >= Center(k) + sizes[k] + RING_GAP - off(k) - off(l)

\* What is on an orbit has room there, and a larger body is not further out.
OrbitsFilled ==
    \A k \in DOMAIN layoutRadii :
       LET mates == plan[RingOf(plan, k)].keys
       IN  /\ \/ mates = {k}
              \/ 7 * MapThenSumSet(LAMBDA l : Need(layoutRadii[l]), mates)
                    <= Girth * Center(k)
           /\ \A l \in DOMAIN layoutRadii :
                 layoutRadii[k] > layoutRadii[l] => Center(k) <= Center(l)

\* While the bodies are the same ones and none's size leaves the band around
\* what the plan has for it, the plan stays.
PlanHeld ==
    /\ DOMAIN sizes' = DOMAIN sizes
    /\ \A k \in DOMAIN sizes :
          RADIUS_DEADBAND * Apart(sizes'[k], layoutRadii[k]) <= layoutRadii[k]
    => plan' = plan

\* A body never jumps, never turns away from its orbit and never passes it; a
\* new one among others is outside all orbits.
BodiesGlide ==
    \A k \in DOMAIN distance' :
       IF k \in DOMAIN distance
       THEN /\ Apart(distance[k], distance'[k]) <= Reach
            /\ Apart(distance[k], Center(k)')
                  = Apart(distance[k], distance'[k]) + Apart(distance'[k], Center(k)')
       ELSE DOMAIN distance # {} =>
               \A i \in DOMAIN plan' :
                  distance'[k] >= plan'[i].radius + plan'[i].maxBodyRadius + OUTSIDE_MARGIN

(***************************************************************************)
(* Whatever comes, goes, grows and shrinks: the orbits are apart, none     *)
(* overfull and the largest bodies inside, small changes of size move      *)
(* nothing, and no body jumps towards or away from the star.               *)
(***************************************************************************)
OrbitsSteady ==
    /\ [](OrbitsApart /\ OrbitsFilled)
    /\ [][PlanHeld /\ BodiesGlide]_orbitVars
=============================================================================
