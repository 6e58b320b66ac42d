---------------------------- MODULE MCVisuals ----------------------------
(***************************************************************************)
(* The parts of the page that share no variable, each on its own: a        *)
(* behaviour picks one part and only that part moves.                      *)
(***************************************************************************)
EXTENDS FocusView, FlowLines, BurstPool, OrbitLayout, BodyLabels, Interpolator, Hover

CONSTANTS g1, g2 \* keys of groups

VARIABLE part

Lines == {<<g1, 0>>, <<g1, 1>>, <<g2, 0>>}
ParticlesOf == [k \in Kinds |-> CASE k = "group-born" -> 2
                                  [] k = "group-died" -> 3
                                  [] OTHER            -> 1]
DurationOf == [k \in Kinds |-> IF k = "group-born" THEN 2 ELSE 1]

Parts == {"focus", "flows", "bursts", "orbits", "labels", "sample", "hover"}

VisualsInit ==
    /\ part \in Parts
    /\ FocusInit /\ FlowInit /\ BurstInit /\ OrbitInit /\ LabelInit /\ SampleInit /\ HoverInit

VisualsNext ==
    /\ UNCHANGED part
    /\ \/ /\ part = "focus" /\ FocusNext
          /\ UNCHANGED <<flowVars, burstVars, orbitVars, labelVars, sampleVars, hoverVars>>
       \/ /\ part = "flows" /\ FlowNext
          /\ UNCHANGED <<focusVars, burstVars, orbitVars, labelVars, sampleVars, hoverVars>>
       \/ /\ part = "bursts" /\ BurstNext
          /\ UNCHANGED <<focusVars, flowVars, orbitVars, labelVars, sampleVars, hoverVars>>
       \/ /\ part = "orbits" /\ OrbitFrame
          /\ UNCHANGED <<focusVars, flowVars, burstVars, labelVars, sampleVars, hoverVars>>
       \/ /\ part = "labels" /\ LabelNext
          /\ UNCHANGED <<focusVars, flowVars, burstVars, orbitVars, sampleVars, hoverVars>>
       \/ /\ part = "sample" /\ SampleNext
          /\ UNCHANGED <<focusVars, flowVars, burstVars, orbitVars, labelVars, hoverVars>>
       \/ /\ part = "hover" /\ HoverNext
          /\ UNCHANGED <<focusVars, flowVars, burstVars, orbitVars, labelVars, sampleVars>>

visualsVars == <<part, focusVars, flowVars, burstVars, orbitVars, labelVars, sampleVars,
                 hoverVars>>

\* The fairness of FocusSpec.
VisualsSpec ==
    /\ VisualsInit /\ [][VisualsNext]_visualsVars
    /\ WF_focusVars(part = "focus" /\ FocusCommit)
    /\ WF_focusVars(part = "focus" /\ DepthTimer)
    /\ WF_focusVars(part = "focus" /\ TweenTick /\ tween'.t = Whole)
    /\ WF_focusVars(part = "focus" /\ FocusStep)

(***************************************************************************)
(* The variables of every part keep their types.                           *)
(***************************************************************************)
VisualsTypeOK ==
    /\ part \in Parts
    /\ FocusTypeOK /\ FlowTypeOK /\ BurstTypeOK /\ OrbitTypeOK /\ LabelTypeOK
    /\ SampleTypeOK /\ HoverTypeOK
==========================================================================
