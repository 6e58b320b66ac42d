----------------------------- MODULE FlowLines -----------------------------
(***************************************************************************)
(* The lines from groups to cores: their tracker                           *)
(* (web/src/visual/flowTracker.ts) and the frame that updates it and draws *)
(* them (web/src/scene/FlowStreams.tsx).                                   *)
(*                                                                         *)
(* A frame finds a snapshot or none; which groups are on the scene and     *)
(* which cores the snapshot has changes from frame to frame, also when a   *)
(* restarted engine's snapshot takes the place of the last one unseen.     *)
(*                                                                         *)
(* Brightness runs from 0 to Bright and time in steps in which a line that *)
(* is gone loses 1; one that is there gains FadeIn.                        *)
(***************************************************************************)
EXTENDS Naturals, FiniteSets, Functions

CONSTANTS Edges,      \* the lines there can be, <<group, core>> (edgeKey)
          MAX_EDGES,
          Bright,     \* full brightness: steps of AFTERGLOW_SEC
          FadeIn,     \* brightness gained in one step
          Weights,    \* weights of a flow, times 10
          MaxStep     \* bound: steps between two frames

ASSUME FlowAssumption ==
    /\ IsFiniteSet(Edges)
    /\ MAX_EDGES \in Nat /\ {Bright, FadeIn} \subseteq Nat \ {0}
    /\ Weights \subseteq Nat /\ MaxStep \in Nat

VARIABLES
    lines,   \* the tracker's items
    phases,  \* the lines whose particles have a phase
    drawn,   \* of each line on the screen, its particles
    given,   \* the flows of groups on the scene the last frame was given
    flowStep \* steps since the frame before it

flowVars == <<lines, phases, drawn, given, flowStep>>

FlowGroups == {e[1] : e \in Edges}
FlowCores == {e[2] : e \in Edges}
NoLines == [k \in {} |-> 0]

FlowInit == /\ lines = NoLines /\ phases = {} /\ drawn = NoLines
            /\ given = {} /\ flowStep = 0

----------------------------------------------------------------------------
(***************************************************************************)
(* The tracker.                                                            *)
(***************************************************************************)
EdgeStrength(e) == e.weight * e.intensity

\* The lines that are given take the flow's weight, the others keep theirs.
Noted(flows) ==
    [k \in DOMAIN lines \cup DOMAIN flows |->
        IF k \in DOMAIN flows
        THEN [weight |-> flows[k], present |-> TRUE,
              intensity |-> IF k \in DOMAIN lines THEN lines[k].intensity ELSE 0]
        ELSE [lines[k] EXCEPT !.present = FALSE]]

Shine(e, step) ==
    LET up == e.intensity + FadeIn * step
        down == IF e.intensity > step THEN e.intensity - step ELSE 0
    IN  [e EXCEPT !.intensity = IF ~e.present THEN down
                                ELSE IF up < Bright THEN up ELSE Bright]

\* The lines of groups on the scene, brighter or fainter; what is dark goes.
Shone(noted, live, step) ==
    LET s == [k \in {k \in DOMAIN noted : k[1] \in live} |-> Shine(noted[k], step)]
    IN  Restrict(s, {k \in DOMAIN s : s[k].present \/ s[k].intensity > 0})

\* The order in which lines are given up.
Before(e, f) == \/ ~e.present /\ f.present
                \/ e.present = f.present /\ EdgeStrength(e) < EdgeStrength(f)

\* Mutant: the weakest ones go, fading or not.
TrimmedByStrength(s) ==
    {kept \in SUBSET DOMAIN s :
        /\ Cardinality(kept) = IF Cardinality(DOMAIN s) < MAX_EDGES
                               THEN Cardinality(DOMAIN s) ELSE MAX_EDGES
        /\ \A k \in kept, l \in DOMAIN s \ kept :
              EdgeStrength(s[l]) <= EdgeStrength(s[k])}

\* What may stay of too many: of equals, the order of the Map decides.
Trimmed(s) ==
    {kept \in SUBSET DOMAIN s :
        /\ Cardinality(kept) = IF Cardinality(DOMAIN s) < MAX_EDGES
                               THEN Cardinality(DOMAIN s) ELSE MAX_EDGES
        /\ \A k \in kept, l \in DOMAIN s \ kept : ~Before(s[k], s[l])}

----------------------------------------------------------------------------
(***************************************************************************)
(* The frame.                                                              *)
(***************************************************************************)
\* One particle for each 1/30 of strength, 12 at most; here for each tenth
\* of the weight of a bright line, so that a dark line has none.
ParticleCount(strength) == (strength + Bright - 1) \div Bright

\* Mutant: the phase of a line that has gone is kept.
DrawLinesKept(next, cores) ==
    LET shown == {k \in DOMAIN next : k[2] \in cores} IN
    /\ drawn' = [k \in shown |-> ParticleCount(EdgeStrength(next[k]))]
    /\ phases' = phases \cup shown

\* A line is drawn when its core is in the snapshot; it stays in the tracker
\* either way.  The layout has a place for every group on the scene.
DrawLines(next, cores) ==
    LET shown == {k \in DOMAIN next : k[2] \in cores} IN
    /\ drawn' = [k \in shown |-> ParticleCount(EdgeStrength(next[k]))]
    /\ phases' = (phases \cap DOMAIN next) \cup shown

\* useFrame of FlowStreams without a snapshot.
FlowEmptyFrame ==
    /\ lines' = NoLines /\ phases' = {} /\ drawn' = NoLines
    /\ given' = {} /\ flowStep' = 0

\* What a snapshot's flows can be.  A flow is of a group of its snapshot, and
\* SceneRoot's frame, which comes first, has put those on the scene.
Flows(live) == UNION {[E -> Weights] : E \in SUBSET {k \in Edges : k[1] \in live}}

\* A snapshot has a core at least.
FlowFrame ==
    \E live \in SUBSET FlowGroups, cores \in SUBSET FlowCores \ {{}},
       step \in 0..MaxStep :
    \E flows \in Flows(live) :
       /\ flowStep' = step
       /\ given' = DOMAIN flows
       /\ LET s == Shone(Noted(flows), live, step) IN
          \E kept \in Trimmed(s) :
             /\ lines' = Restrict(s, kept)
             /\ DrawLines(Restrict(s, kept), cores)

FlowNext == FlowFrame \/ FlowEmptyFrame

FlowSpec == FlowInit /\ [][FlowNext]_flowVars

----------------------------------------------------------------------------
(***************************************************************************)
(* Properties.                                                             *)
(***************************************************************************)
Edge == [weight : Weights, intensity : 0..Bright, present : BOOLEAN]

FlowTypeOK ==
    /\ DOMAIN lines \subseteq Edges
    /\ \A k \in DOMAIN lines : lines[k] \in Edge
    /\ DOMAIN drawn \subseteq phases /\ phases \subseteq DOMAIN lines
    /\ given \subseteq Edges /\ flowStep \in 0..MaxStep

\* A flow the frame was given is left out only when as many as there is room
\* for, all of them given too, are shown.
GivenLinesShown ==
    given \ DOMAIN lines # {} =>
       /\ Cardinality(DOMAIN lines) = MAX_EDGES
       /\ DOMAIN lines \subseteq given

Glow(l, k) == IF k \in DOMAIN l THEN l[k].intensity ELSE 0

\* What remains of a line after a frame is as bright as its fading or
\* brightening lets it be; a line ends dark unless room is short or its group
\* has left the scene, which then has no lines at all.
LineContinues(k) ==
    \/ /\ Glow(lines', k) <= Glow(lines, k) + FadeIn * flowStep'
       /\ Glow(lines, k) <= Glow(lines', k) + flowStep'
    \/ /\ k \notin DOMAIN lines'
       /\ \/ Cardinality(DOMAIN lines') = MAX_EDGES
          \/ \A l \in DOMAIN lines' : l[1] # k[1]

(***************************************************************************)
(* However the hot cores change from snapshot to snapshot: a flow that is  *)
(* there never gives way to an afterglow, and a line that comes and goes   *)
(* brightens and fades from where it was.                                  *)
(***************************************************************************)
LinesSteady ==
    [][/\ GivenLinesShown'
       /\ ~FlowEmptyFrame => \A k \in Edges : LineContinues(k)]_flowVars
=============================================================================
