----------------------------- MODULE FocusView -----------------------------
(***************************************************************************)
(* The focus of the scene: the store the clicks write                      *)
(* (web/src/scene/focusStore.ts), the camera's transition between foci     *)
(* (CameraRig.tsx, FocusFrame of sceneContext.ts), the satellites of the   *)
(* focused group (Satellites.tsx) and the depth of field, which is there   *)
(* only around a focus (useDepthOfFieldActive of PostEffects.tsx).         *)
(*                                                                         *)
(* Four clocks drive them: the user's clicks, React's commits, the ticks   *)
(* of the GSAP tween and the frames.  focusGroups is what a frame of       *)
(* SceneRoot leaves: the groups on the scene, staying or leaving, with the *)
(* children each has.                                                      *)
(***************************************************************************)
EXTENDS Presence

CONSTANTS FocusGroups,   \* keys of groups
          FocusChildren, \* pids of children
          MaxClicks      \* bound: clicks of the user

NoGroup == "no group"

ASSUME FocusAssumption == NoGroup \notin FocusGroups /\ MaxClicks \in Nat

VARIABLES
    focusGroups, \* of each group: absent, staying or leaving, and its children
    focusedKey,  \* focusStore
    rendered,    \* the focus React has committed
    focus,       \* FocusFrame
    tween,       \* the object GSAP moves, and where the animation takes it
    satellites,  \* the tracker, its owner and the list handed to React
    depth,       \* release and timer of useDepthOfFieldActive
    focusClicks  \* clicks so far

focusVars == <<focusGroups, focusedKey, rendered, focus, tween, satellites, depth,
               focusClicks>>

\* t and weight are 0, 1 or, Between, somewhere on the way.
Between == 1
Whole   == 2

FocusFrame == [key : FocusGroups \cup {NoGroup}, previousKey : FocusGroups \cup {NoGroup},
               t : 0..Whole, weight : 0..Whole]

FocusGroup == [phase : {"absent", "staying", "leaving"}, children : SUBSET FocusChildren]

\* version -1 of the code: nothing is shown.
FocusInit ==
    /\ focusGroups = [k \in FocusGroups |-> [phase |-> "absent", children |-> {}]]
    /\ focusedKey = NoGroup
    /\ rendered = NoGroup
    /\ focus = [key |-> NoGroup, previousKey |-> NoGroup, t |-> Whole, weight |-> 0]
    /\ tween = [t |-> Whole, weight |-> 0, target |-> 0, running |-> FALSE]
    /\ satellites = [owner |-> NoGroup, tracker |-> NewTracker, shown |-> {}]
    /\ depth = [release |-> 0, timer |-> FALSE]
    /\ focusClicks = 0

----------------------------------------------------------------------------
(***************************************************************************)
(* The user.                                                               *)
(***************************************************************************)
\* A click on a node; toggle() of the store.  (SceneRoot has the click on a
\* node that is mounted still when its group is gone.)
ClickNode(k) ==
    /\ focusClicks < MaxClicks
    /\ focusGroups[k].phase = "staying"
    /\ focusedKey' = IF focusedKey = k THEN NoGroup ELSE k
    /\ focusClicks' = focusClicks + 1
    /\ UNCHANGED <<focusGroups, rendered, focus, tween, satellites, depth>>

\* A click beside the bodies or on the star, Escape, the panel's button.
FocusClear ==
    /\ focusedKey # NoGroup
    /\ focusedKey' = NoGroup
    /\ UNCHANGED <<focusGroups, rendered, focus, tween, satellites, depth, focusClicks>>

----------------------------------------------------------------------------
(***************************************************************************)
(* A commit of React with a changed focus.                                 *)
(***************************************************************************)
\* begin()
Begin(f, key) == [f EXCEPT !.previousKey = f.key, !.key = key]

\* Mutant: no focus any more is taken for no focus yet.
TransitionInOnly ==
    IF focusedKey = NoGroup
    THEN tween' = [tween EXCEPT !.running = FALSE] /\ focus' = focus
    ELSE /\ focus' = Begin(focus, focusedKey)
         /\ tween' = [t |-> 0, weight |-> tween.weight, running |-> TRUE,
                      target |-> Whole]

\* The effect of CameraRig: the animation under way is killed, a new one
\* starts from where it was.
Transition ==
    IF focusedKey = NoGroup /\ focus.key = NoGroup
    THEN tween' = [tween EXCEPT !.running = FALSE] /\ focus' = focus
    ELSE /\ focus' = Begin(focus, focusedKey)
         /\ tween' = [t |-> 0, weight |-> tween.weight, running |-> TRUE,
                      target |-> IF focusedKey = NoGroup THEN 0 ELSE Whole]

\* useDepthOfFieldActive: every release has a number, and a timer of its own.
Release ==
    depth' = IF focusedKey = NoGroup
             THEN [release |-> depth.release + 1, timer |-> TRUE] ELSE depth

FocusCommit ==
    /\ rendered # focusedKey
    /\ rendered' = focusedKey
    /\ Transition
    /\ Release
    /\ UNCHANGED <<focusGroups, focusedKey, satellites, focusClicks>>

DepthTimer ==
    /\ depth.timer
    /\ depth' = [release |-> 0, timer |-> FALSE]
    /\ UNCHANGED <<focusGroups, focusedKey, rendered, focus, tween, satellites, focusClicks>>

DepthActive == rendered # NoGroup \/ depth.release > 0

----------------------------------------------------------------------------
(***************************************************************************)
(* GSAP moves t and weight.                                                *)
(***************************************************************************)
TweenTick ==
    /\ tween.running
    /\ \E t \in tween.t..Whole :
          /\ t > 0
          /\ tween' = [tween EXCEPT
                !.t = t,
                !.weight = CASE t = Whole       -> tween.target
                             [] @ = tween.target -> @
                             [] OTHER           -> Between,
                !.running = t < Whole]
    /\ UNCHANGED <<focusGroups, focusedKey, rendered, focus, satellites, depth, focusClicks>>

----------------------------------------------------------------------------
(***************************************************************************)
(* A frame.                                                                *)
(***************************************************************************)
\* What SceneRoot may make of a group in a frame; leaving, it keeps the
\* children it had.
MayBecome(before, after) ==
    /\ before.phase = "absent" => after.phase # "leaving"
    /\ after.phase = "absent" => after.children = {}
    /\ after.phase = "leaving" => after.children = before.children

\* The focus store after SceneRoot: a focus that leaves is cleared.
FocusAfter(next) ==
    IF focusedKey # NoGroup /\ next[focusedKey].phase = "staying"
    THEN focusedKey ELSE NoGroup

\* The group the satellites turn around.
OwnerOf(f) == IF f.key # NoGroup THEN f.key
              ELSE IF f.weight > 0 THEN f.previousKey ELSE NoGroup

\* Mutant: the children of a new owner join those of the last one.
OwnedTogether(s, owner) == [s EXCEPT !.owner = owner]

\* The satellites begin anew with a new owner.
OwnedBy(s, owner) ==
    IF owner = s.owner THEN s
    ELSE [s EXCEPT !.owner = owner, !.tracker = Reset(@)]

\* Satellites.tsx: without a group to turn around, nothing is drawn and the
\* tracker rests.  A child's value stands for the parent it was drawn with.
SatellitesAfter(s, next, born, died, step) ==
    IF s.owner = NoGroup \/ (s.owner \in FocusGroups /\ next[s.owner].phase = "absent")
    THEN [s EXCEPT !.shown = {}, !.tracker.version = 1]
    ELSE LET input == [c \in next[s.owner].children |-> s.owner]
             t == Update(s.tracker, input, born, died, step)
         IN  [s EXCEPT !.tracker = [t EXCEPT !.version = 0],
                       !.shown = IF t.version = 0 THEN @ ELSE DOMAIN t.items]

NextGroups ==
    {next \in [FocusGroups -> FocusGroup] :
        /\ \A k \in FocusGroups : MayBecome(focusGroups[k], next[k])
        /\ \A k, m \in FocusGroups : k = m \/ next[k].children \cap next[m].children = {}}

FocusStep ==
    \E next \in NextGroups, step \in 1..Full :
       LET f == [focus EXCEPT !.t = tween.t, !.weight = tween.weight]
           s == OwnedBy(satellites, OwnerOf(f))
           before == IF s.owner = NoGroup THEN {} ELSE focusGroups[s.owner].children
           after == IF s.owner = NoGroup THEN {} ELSE next[s.owner].children
       IN  /\ focusGroups' = next
           /\ focusedKey' = FocusAfter(next)
           /\ focus' = f
           /\ \E born \in SUBSET (after \ before), died \in SUBSET (before \ after) :
                 satellites' = SatellitesAfter(s, next, born, died, step)
           /\ UNCHANGED <<rendered, tween, depth, focusClicks>>

FocusNext == \/ \E k \in FocusGroups : ClickNode(k)
             \/ FocusClear \/ FocusCommit \/ DepthTimer \/ TweenTick \/ FocusStep

\* The browser runs the tween, the timer, the commits and the frames of a
\* page in view.
FocusSpec == /\ FocusInit /\ [][FocusNext]_focusVars
             /\ WF_focusVars(FocusCommit) /\ WF_focusVars(DepthTimer)
             /\ WF_focusVars(TweenTick /\ tween'.t = Whole) /\ WF_focusVars(FocusStep)

----------------------------------------------------------------------------
(***************************************************************************)
(* Properties.                                                             *)
(***************************************************************************)
FocusTypeOK ==
    /\ focusGroups \in [FocusGroups -> FocusGroup]
    /\ {focusedKey, rendered, satellites.owner} \subseteq FocusGroups \cup {NoGroup}
    /\ focus \in FocusFrame
    /\ tween.t \in 0..Whole /\ tween.weight \in 0..Whole
    /\ DOMAIN satellites.tracker.items \subseteq FocusChildren
    /\ depth.release \in 0..MaxClicks + 1

Moons == satellites.tracker.items

(***************************************************************************)
(* The satellites React is given are those of the tracker; all of them,    *)
(* those that leave too, are of the one group they turn around, and those  *)
(* that stay are its children: none is left over from another focus.       *)
(***************************************************************************)
MoonsOfOwner ==
    satellites.shown # {} =>
       /\ satellites.shown = DOMAIN Moons
       /\ \A c \in DOMAIN Moons : Moons[c].value = satellites.owner
       /\ {c \in DOMAIN Moons : ~IsLeaving(Moons[c].phase)}
             = focusGroups[satellites.owner].children

Settled ==
    /\ focus.key = focusedKey
    /\ focus.t = Whole
    /\ focus.weight = IF focusedKey = NoGroup THEN 0 ELSE Whole
    /\ satellites.owner = focusedKey
    /\ DepthActive <=> focusedKey # NoGroup

(***************************************************************************)
(* When the user has done, the transition ends: the camera arrives, the    *)
(* satellites are those of the focus, and the depth of field is there if   *)
(* and only if there is a focus.                                           *)
(***************************************************************************)
Settles == <>[]Settled
=============================================================================
