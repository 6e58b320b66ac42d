---------------------------- MODULE MCSceneRoot ----------------------------
(* Small instances of the scene's frame loop for TLC. *)
EXTENDS SceneRoot, TLC

Symmetry == Permutations(Pids)

\* The events and the length of the last frame are not read by a later step.
View == <<world, store, lastSession, consumer, presence, focusedKey, nodeIds,
          mounted>>
=============================================================================
