---------------------------- MODULE BodyLabels ----------------------------
(***************************************************************************)
(* The names of the bodies of the innermost orbit: which ones may have one *)
(* (labelKeys of web/src/visual/labels.ts), which of those that would      *)
(* overlap are shown (visual/labelPlacement.ts) and the component that     *)
(* writes them to the page every frame (web/src/scene/BodyLabels.tsx).     *)
(*                                                                         *)
(* The list goes through React, the rest does not: a frame may find a name *)
(* of its list without a box, and boxes of names that are on the list no   *)
(* more.                                                                   *)
(***************************************************************************)
EXTENDS Naturals, FiniteSets, FiniteSetsExt

CONSTANTS Names,     \* keys of groups, numbers: their order matters
          MAX_LABELS

ASSUME LabelAssumption == Names \subseteq Nat /\ IsFiniteSet(Names) /\ MAX_LABELS \in Nat

VARIABLES
    list,      \* the names of the last frame, also the last given to React
    anchors,   \* names with an anchor in the scene
    boxes,     \* those of them with a box on the page
    displayed, \* boxes that are displayed
    shown,     \* names the component takes for visible
    placed     \* of the last frame: the names it placed, which of them would overlap

labelVars == <<list, anchors, boxes, displayed, shown, placed>>

Nobody == [names |-> {}, clash |-> {}]

LabelInit == /\ list = {} /\ anchors = {} /\ boxes = {}
             /\ displayed = {} /\ shown = {} /\ placed = Nobody

----------------------------------------------------------------------------
(***************************************************************************)
(* React.                                                                  *)
(***************************************************************************)
\* The labels of the list are mounted, the others go, box and all.
LabelCommit ==
    /\ anchors # list
    /\ anchors' = list
    /\ boxes' = boxes \cap list
    /\ displayed' = displayed \cap list
    /\ UNCHANGED <<list, shown, placed>>

\* The box of a new label, a root of its own (Html), comes later: not
\* displayed.
BoxMounted(k) ==
    /\ k \in anchors \ boxes
    /\ boxes' = boxes \cup {k}
    /\ UNCHANGED <<list, anchors, displayed, shown, placed>>

----------------------------------------------------------------------------
(***************************************************************************)
(* The frame.                                                              *)
(***************************************************************************)
Pairs(s) == kSubset(2, s)

\* The names of the inner ring, in the order of the keys, as many as allowed.
LabelKeys(ring) ==
    {k \in ring : Cardinality({l \in ring : l < k}) < MAX_LABELS}

\* What is visible first, then the larger, then by key.
Precedes(a, b, visible, big) ==
    IF (a \in visible) # (b \in visible) THEN a \in visible
    ELSE IF (a \in big) # (b \in big) THEN a \in big
    ELSE a < b

Joined(accepted, k, clash) ==
    IF \E l \in accepted : {k, l} \in clash THEN accepted ELSE accepted \cup {k}

\* placeLabels: one after the other, if it clashes with none accepted.
PlaceLabels(names, visible, big, clash) ==
    LET last == [s \in SUBSET names |->
                   CHOOSE k \in s : \A l \in s \ {k} : Precedes(l, k, visible, big)]
        accepted[s \in SUBSET names] ==
            IF s = {} THEN {} ELSE Joined(accepted[s \ {last[s]}], last[s], clash)
    IN  accepted[names]

\* Mutant: a name that is on the list no more is not forgotten.
RememberedAll(s, next) == s

Remembered(s, next) == s \cap next

\* useFrame of BodyLabels.  names: those with a box that are to be placed, not
\* hidden because they leave, are in focus, hovered or behind the camera.
\* ahead: whether the star is in front of the camera.
LabelFrame ==
    \E ring \in SUBSET Names :
       LET next == LabelKeys(ring)
           ready == next \cap boxes
       IN  \E names \in SUBSET ready, ahead \in BOOLEAN :
           \E big \in SUBSET names, clash \in SUBSET Pairs(names) :
              LET visible == IF ahead THEN PlaceLabels(names, shown, big, clash) ELSE {}
              IN  /\ list' = next
                  /\ displayed' = (displayed \ ready) \cup visible
                  /\ shown' = Remembered(shown \ ready, next) \cup visible
                  /\ placed' = IF ahead THEN [names |-> names, clash |-> clash] ELSE Nobody
                  /\ UNCHANGED <<anchors, boxes>>

LabelNext == LabelCommit \/ LabelFrame \/ \E k \in Names : BoxMounted(k)

LabelSpec == LabelInit /\ [][LabelNext]_labelVars

----------------------------------------------------------------------------
(***************************************************************************)
(* Properties.                                                             *)
(***************************************************************************)
LabelTypeOK ==
    /\ boxes \subseteq anchors /\ anchors \subseteq Names /\ list \subseteq Names
    /\ displayed \subseteq boxes /\ shown \subseteq Names
    /\ placed.names \subseteq Names /\ placed.clash \subseteq Pairs(placed.names)

\* What the component takes for visible is what the page displays of the list;
\* of that no two overlap, and what is not displayed overlaps something.
LabelsClear ==
    /\ shown = displayed \cap list
    /\ \A c \in placed.clash : ~(c \subseteq shown)
    /\ \A k \in placed.names \ shown :
          \E l \in shown : {k, l} \in placed.clash

\* A name that was visible is put aside only by one that was, too.
VisibleStays ==
    \A k \in (shown \cap placed'.names) \ shown' :
       \E l \in shown \cap shown' : {k, l} \in placed'.clash

(***************************************************************************)
(* The names never overlap and do not flicker, though React mounts them    *)
(* late and bodies come, go and move from frame to frame.                  *)
(***************************************************************************)
LabelsCalm == [][LabelsClear' /\ VisibleStays]_labelVars
=============================================================================
