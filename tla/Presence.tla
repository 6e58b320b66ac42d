------------------------------ MODULE Presence ------------------------------
(***************************************************************************)
(* What is on the scene (web/src/visual/presence.ts): a tracker of entries *)
(* that appear, stay and leave, as operators from a tracker to a tracker.  *)
(* The scene keeps one for the groups, the satellites one for children.    *)
(*                                                                         *)
(* An entry's progress runs from 0 to Full within its phase; a call says   *)
(* by how much it goes on, in place of the clock.  The phases take the     *)
(* same time here.  A collapsing entry at p shows 1 - p^2; the model takes *)
(* the level next to it, so that both ways of leaving show Full - p.       *)
(***************************************************************************)
EXTENDS Naturals, Functions

CONSTANT Full \* the progress at which a phase is over

ASSUME FullAssumption == Full \in Nat \ {0}

Phase == {"forming", "fading-in", "present", "fading-out", "collapsing"}

IsLeaving(phase) == phase \in {"fading-out", "collapsing"}

\* The items by key, whether the first input was seen, and version: how far
\* the membership count is ahead of what its user last showed.
NewTracker == [items |-> [k \in {} |-> 0], initialized |-> FALSE, version |-> 1]

Opacity(e) == CASE e.phase = "present"  -> Full
                [] IsLeaving(e.phase)   -> Full - e.progress
                [] OTHER                -> e.progress

Entry(phase, progress, value) ==
    [phase |-> phase, progress |-> progress, value |-> value]

\* Time passes for an entry whose phase stays.
Continue(e, step) ==
    IF e.phase = "present" THEN e
    ELSE [e EXCEPT !.progress = IF @ + step < Full THEN @ + step ELSE Full]

\* Mutant: what comes back while it fades starts in the dark.
ReturnDark(e, value, step) ==
    IF IsLeaving(e.phase) THEN Entry("fading-in", 0, value)
    ELSE [Continue(e, step) EXCEPT !.value = value]

\* An entry that is in the input: what was fading goes on from its opacity,
\* what was collapsing is a new one of that key.
Return(e, value, step) ==
    CASE e.phase = "fading-out" -> Entry("fading-in", Opacity(e), value)
      [] e.phase = "collapsing" -> Entry("fading-in", 0, value)
      [] OTHER                  -> [Continue(e, step) EXCEPT !.value = value]

\* An entry that is not: it begins to leave at its opacity, value frozen.
Leave(e, died, step) ==
    IF IsLeaving(e.phase) THEN Continue(e, step)
    ELSE Entry(IF died THEN "collapsing" ELSE "fading-out",
               Full - Opacity(e), e.value)

Settle(e) == IF e.progress = Full /\ ~IsLeaving(e.phase)
             THEN [e EXCEPT !.phase = "present"] ELSE e

Over(e) == e.progress = Full /\ IsLeaving(e.phase)

\* update(): `input' is a function from keys to values.  What is there at
\* the first input is not new.
Update(t, input, born, died, step) ==
    LET first == [k \in DOMAIN input |-> Entry("present", Full, input[k])]
        moved == [k \in DOMAIN t.items \cup DOMAIN input |->
                    IF k \notin DOMAIN input
                    THEN Leave(t.items[k], k \in died, step)
                    ELSE IF k \in DOMAIN t.items
                    THEN Settle(Return(t.items[k], input[k], step))
                    ELSE Entry(IF k \in born THEN "forming" ELSE "fading-in",
                               0, input[k])]
        items == IF t.initialized
                 THEN Restrict(moved, {k \in DOMAIN moved : ~Over(moved[k])})
                 ELSE first
        ended == IF t.initialized THEN DOMAIN moved \ DOMAIN items ELSE {}
        added == DOMAIN items \ DOMAIN t.items
    IN  [items |-> items, initialized |-> TRUE,
         version |-> IF ended \cup added = {} THEN t.version ELSE 1]

\* reset(): an empty tracker does not ask for a new list.
Reset(t) ==
    [items |-> [k \in {} |-> 0], initialized |-> FALSE,
     version |-> IF DOMAIN t.items = {} THEN t.version ELSE 1]
=============================================================================
