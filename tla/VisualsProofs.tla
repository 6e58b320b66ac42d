--------------------------- MODULE VisualsProofs ---------------------------
(***************************************************************************)
(* Parts of the page, each on its own and for any groups, members, edges   *)
(* and cores: what the pointer is told of is there, whichever of the       *)
(* store, the frames and React is behind; satellites are of one group;     *)
(* the lines of flows brighten, fade and give way as they should; a figure *)
(* shown is one between two of the same process; names never overlap;      *)
(* bursts fit into their buffer and the oldest give way; orbits stay       *)
(* apart, sorted by size and where they are. The page with all parts side  *)
(* by side does what each does alone and keeps the types of their          *)
(* variables.                                                              *)
(***************************************************************************)
EXTENDS MCVisuals, FiniteSums, SequenceTheorems

(***************************************************************************)
(* Hover.                                                                  *)
(***************************************************************************)
\* A tooltip that is displayed has a target: the box is there only with one.
\* Once the effects of a commit are run, the frames' hover is what it rendered.
\* Only the orbs that went leave a hover to those effects.
LeftHovered(x) == x.kind \in {"group", "satellite"}
                    \/ (x.kind = "core" /\ x.id >= tree.count)

HoverInv == HoverTypeOK /\ HoverHonest
            /\ (tooltip.text # NotHovered => tooltip.target # NotHovered)
            /\ (~passive => hover = tooltip.target)
            /\ (hovered \notin {pointer, NotHovered} => LeftHovered(hovered))
            /\ tooltip = [target |-> tooltip.target, text |-> tooltip.text]
            /\ things = [bodies |-> things.bodies, moons |-> things.moons,
                         cores |-> things.cores]
            /\ things.moons \subseteq HoverMoons

\* Sparks of as many cores as the buffer was made for fit into it.
LEMMA SparksFit ==
    ASSUME NEW a \in Nat, NEW b \in Nat, NEW c \in Nat, NEW d \in Nat, a <= c, b <= d
    PROVE  a * b \in Nat /\ a * b <= d * c
<1>1. a * b <= c * b /\ b * c <= d * c
  BY Z3
<1>. QED  BY <1>1

LEMMA TargetKinds ==
    ASSUME NEW x \in Targets
    PROVE  /\ x.kind = "none" <=> x = NotHovered
           /\ x.kind = "system" <=> x = Star
           /\ x.kind \in {"none", "system", "group", "satellite", "core"}
           /\ x.kind = "group" => x.id \in HoverGroups
           /\ x.kind = "satellite" => x.id \in HoverMoons
           /\ x.kind = "core" => x.id \in 0..MaxCores - 1
BY DEF Targets, Hovered, NotHovered, Star

\* What React would render, if it let go of the cores that went, is mounted.
LEMMA LiveMounted ==
    ASSUME NEW h \in Targets, NEW t, t.count \in 0..MaxCores,
           h.kind = "core" => h.id < t.count
    PROVE  Live(h, t.keys).kind \in {"group", "core"} => Live(h, t.keys) \in Mounted(t)
BY HoverAssumption DEF Live, Mounted, Targets, Hovered, NotHovered, Star

LEMMA HoverInitInv == HoverInit => HoverInv
<1>. SUFFICES ASSUME HoverInit PROVE HoverInv
  OBVIOUS
<1>1. HoverTypeOK
  <2>1. MaxCores * SPARKS_PER_CORE \in Nat
    BY SparksFit, HoverAssumption
  <2>2. passive \in BOOLEAN
    BY Zenon DEF HoverInit
  <2>. QED  BY <2>1, <2>2, HoverAssumption DEF HoverInit, HoverTypeOK, Targets, NotHovered
<1>2. HoverHonest
  BY HoverAssumption DEF HoverInit, HoverHonest, NotHovered
<1>. QED  BY <1>1, <1>2 DEF HoverInit, HoverInv

LEMMA PointerStep ==
    ASSUME HoverInv, \/ \E x \in Mounted(tree) : PointerOver(x)
                     \/ PointerOut
    PROVE  HoverInv'
<1>1. UNCHANGED <<storeCores, things, tree, hover, tooltip, orbs, sparks, passive>>
  BY DEF PointerOver, PointerOut
<1>2. /\ {pointer', hovered'} \subseteq Targets
      /\ ~passive /\ hovered'.kind = "core" => hovered'.id < tree.count
      /\ ~passive /\ hovered' \notin {pointer', NotHovered}
            => hovered'.kind \in {"group", "satellite"}
      /\ hovered' \notin {pointer', NotHovered} => LeftHovered(hovered')
  <2>1. CASE \E x \in Mounted(tree) : PointerOver(x)
    BY <2>1, HoverAssumption
       DEF PointerOver, HoverInv, HoverTypeOK, Mounted, Hovered, Targets, Star
  <2>2. CASE PointerOut
    BY <2>2 DEF PointerOut, HoverInv, HoverTypeOK, HoverHonest, Targets, NotHovered
  <2>. QED  BY <2>1, <2>2
<1>3. CaughtUp' /\ hover'.kind \in {"group", "core"} => hover' \in Mounted(tree')
  <2>. SUFFICES ASSUME CaughtUp' PROVE hover'.kind \in {"group", "core"}
                                          => hover' \in Mounted(tree')
    OBVIOUS
  <2>1. ~passive /\ hover' = Live(hovered', tree'.keys)
    BY <1>1 DEF CaughtUp, HoverInv
  <2>2. hovered' \in Targets /\ tree'.count \in 0..MaxCores
    BY <1>1, <1>2 DEF HoverInv, HoverTypeOK
  <2>. QED  BY <1>1, <1>2, <2>1, <2>2, LiveMounted
<1>. QED  BY <1>1, <1>2, <1>3 DEF HoverInv, HoverTypeOK, HoverHonest, There, LeftHovered

LEMMA CommitStep ==
    ASSUME HoverInv, HoverCommit
    PROVE  HoverInv'
<1>1. /\ storeCores \in 0..MaxCores /\ tree.count \in 0..MaxCores /\ MaxCores \in Nat
      /\ {hovered, hover, pointer, tooltip.target, tooltip.text, NotHovered} \subseteq Targets
      /\ sparks \in 0..MaxCores * SPARKS_PER_CORE
      /\ tree.keys \subseteq HoverGroups /\ tree.moons \subseteq HoverMoons
      /\ things.moons \subseteq HoverMoons
      /\ tooltip = [target |-> tooltip.target, text |-> tooltip.text]
      /\ tooltip.text # NotHovered => There(tooltip.text, things)
      /\ sparks <= tree.count * SPARKS_PER_CORE
      /\ \A i \in orbs : i < things.cores
  BY HoverAssumption DEF HoverInv, HoverTypeOK, HoverHonest, Targets
<1>2. PICK t \in [keys : {tree.keys, Wanted.keys}, moons : {tree.moons, Wanted.moons},
                  count : {tree.count, Wanted.count}],
           live \in {tooltip.target, Live(hovered, tree.keys), Live(hovered, Wanted.keys)} :
         /\ tree' = t
         /\ tooltip' = [tooltip EXCEPT
               !.target = live,
               !.text = IF NotHovered \in {tooltip.target, live} THEN NotHovered ELSE @]
         /\ pointer' = IF pointer \in Mounted(t) THEN pointer ELSE NotHovered
         /\ orbs' = {i \in orbs : i < t.count}
         /\ sparks' = IF t.count = tree.count THEN sparks ELSE 0
  BY DEF HoverCommit
<1>3. UNCHANGED <<storeCores, things, hovered, hover>> /\ passive' = TRUE
  BY DEF HoverCommit
<1>4. /\ tree'.keys \subseteq HoverGroups /\ tree'.moons \subseteq HoverMoons
      /\ tree'.count \in 0..MaxCores
  <2>1. /\ Wanted.keys \subseteq HoverGroups /\ Wanted.moons = things.moons
        /\ Wanted.count = storeCores
    BY DEF Wanted
  <2>. HIDE DEF Wanted
  <2>. QED  BY <1>1, <1>2, <2>1
<1>5. live \in Targets
  <2>1. \A keys : Live(hovered, keys) \in Targets
    BY <1>1 DEF Live
  <2>. QED  BY <1>1, <1>2, <2>1
<1>6. /\ {tooltip'.target, tooltip'.text} \subseteq Targets
      /\ tooltip' = [target |-> tooltip'.target, text |-> tooltip'.text]
      /\ tooltip'.text # NotHovered => /\ tooltip'.target # NotHovered
                                       /\ There(tooltip'.text, things')
  <2>. DEFINE text == IF NotHovered \in {tooltip.target, live} THEN NotHovered
                                                              ELSE tooltip.text
  <2>1. text \in Targets /\ (text # NotHovered => text = tooltip.text /\ live # NotHovered)
    BY <1>1
  <2>2. tooltip' = [tooltip EXCEPT !.target = live, !.text = text]
    BY <1>2
  <2>. HIDE DEF text
  <2>3. tooltip' = [target |-> live, text |-> text]
    BY <1>1, <2>2
  <2>4. tooltip'.target = live /\ tooltip'.text = text
    BY <2>3
  <2>. QED  BY <1>1, <1>3, <1>5, <2>1, <2>3, <2>4
<1>7. pointer' \in Targets
      /\ (hovered' \notin {pointer', NotHovered} => LeftHovered(hovered)')
  <2>1. pointer' = pointer \/ (pointer' = NotHovered /\ pointer \notin Mounted(t))
    BY <1>2
  <2>2. Star \in Mounted(t) /\ \A x \in Targets : x.kind = "core" /\ x.id < t.count
                                                     => x \in Mounted(t)
    <3>1. t.count \in Int
      BY <1>2, <1>4
    <3>. QED  BY <1>1, <3>1, HoverAssumption DEF Mounted, Hovered, Targets, NotHovered, Star
  <2>3. CASE hovered = pointer /\ pointer \notin Mounted(t)
    <3>1. hovered.kind = "core" => hovered.id \in Int
      BY <1>1 DEF Targets, Hovered, NotHovered, Star
    <3>2. t.count \in Int
      BY <1>2, <1>4
    <3>. QED  BY <1>1, <1>2, <1>3, <2>1, <2>2, <2>3, <3>1, <3>2, TargetKinds DEF LeftHovered
  <2>4. CASE hovered \notin {pointer, NotHovered}
    <3>1. ~passive => hovered.kind \in {"group", "satellite"}
      BY <2>4 DEF HoverInv, HoverHonest
    <3>2. ~passive
      BY DEF HoverCommit
    <3>. QED  BY <1>1, <1>3, <2>1, <3>1, <3>2 DEF LeftHovered
  <2>. QED  BY <1>1, <1>3, <2>1, <2>3, <2>4
<1>8. /\ \A i \in orbs' : i < things'.cores /\ i < tree'.count
      /\ sparks' \in 0..MaxCores * SPARKS_PER_CORE
      /\ sparks' <= tree'.count * SPARKS_PER_CORE
  <2>1. 0 <= tree'.count * SPARKS_PER_CORE /\ 0 <= MaxCores * SPARKS_PER_CORE
        /\ MaxCores * SPARKS_PER_CORE \in Int
    BY <1>1, <1>4, SparksFit, HoverAssumption
  <2>2. (sparks' = sparks /\ tree'.count = tree.count) \/ sparks' = 0
    BY <1>2
  <2>. QED  BY <1>1, <1>2, <1>3, <2>1, <2>2
<1>9. HoverTypeOK'
  BY <1>1, <1>3, <1>4, <1>6, <1>7, <1>8 DEF HoverInv, HoverTypeOK
<1>10. HoverHonest'
  BY <1>3, <1>6, <1>8 DEF HoverHonest, CaughtUp
<1>. QED  BY <1>1, <1>3, <1>6, <1>7, <1>9, <1>10 DEF HoverInv

\* After the effects only what can still be told of, or mounted, is hovered: a
\* core that went is let go of, and a star never goes.
LEMMA EffectsStep ==
    ASSUME HoverInv, HoverEffects
    PROVE  HoverInv'
<1>1. /\ UNCHANGED <<storeCores, things, tree, pointer, tooltip, orbs, sparks>>
      /\ passive' = FALSE /\ hover' = tooltip.target
      /\ hovered' = Cleaned(hovered, tree.count)
  BY DEF HoverEffects
<1>2. /\ {hovered, pointer, tooltip.target, NotHovered} \subseteq Targets
      /\ tree.count \in 0..MaxCores /\ MaxCores \in Nat
  BY HoverAssumption DEF HoverInv, HoverTypeOK, Targets
<1>3. hovered' \in Targets /\ (hovered'.kind = "core" => hovered'.id < tree'.count)
  BY <1>1, <1>2, TargetKinds DEF Cleaned, Targets, NotHovered
<1>4. hovered' \notin {pointer', NotHovered} => hovered'.kind \in {"group", "satellite"}
  <2>1. hovered' = NotHovered
        \/ (hovered' = hovered /\ ~(hovered.kind = "core" /\ hovered.id >= tree.count))
    BY <1>1 DEF Cleaned
  <2>2. hovered \notin {pointer, NotHovered} => LeftHovered(hovered)
    BY DEF HoverInv
  <2>. QED  BY <1>1, <2>1, <2>2 DEF LeftHovered
<1>5. CaughtUp' /\ hover'.kind \in {"group", "core"} => hover' \in Mounted(tree')
  <2>. SUFFICES ASSUME CaughtUp' PROVE hover'.kind \in {"group", "core"}
                                          => hover' \in Mounted(tree')
    OBVIOUS
  <2>1. hover' = Live(hovered', tree'.keys)
    BY <1>1 DEF CaughtUp
  <2>2. tree'.count \in 0..MaxCores
    BY <1>1, <1>2
  <2>. QED  BY <1>3, <2>1, <2>2, LiveMounted
<1>6. HoverTypeOK' /\ HoverHonest'
  BY <1>1, <1>2, <1>3, <1>4, <1>5 DEF HoverInv, HoverTypeOK, HoverHonest, There
<1>. QED  BY <1>1, <1>4, <1>6 DEF HoverInv, LeftHovered

LEMMA HoverFrameStep ==
    ASSUME HoverInv, HoverFrame
    PROVE  HoverInv'
<1>1. PICK next \in [bodies : [HoverGroups -> {"absent", "staying", "leaving"}],
                     moons : SUBSET HoverMoons, cores : {storeCores}],
           load \in 0..SPARKS_PER_CORE :
         /\ things' = next
         /\ orbs' = {i \in 0..tree.count - 1 : i < storeCores}
         /\ sparks' = load * Lit(storeCores, tree.count)
         /\ tooltip' \in {Told(next)} \cup (IF tooltip.text = NotHovered THEN {tooltip} ELSE {})
         /\ UNCHANGED <<storeCores, tree, pointer, hovered, hover, passive>>
  BY DEF HoverFrame
<1>2. /\ storeCores \in 0..MaxCores /\ tree.count \in 0..MaxCores /\ MaxCores \in Nat
      /\ SPARKS_PER_CORE \in Nat
  BY HoverAssumption DEF HoverInv, HoverTypeOK
<1>3. /\ things' = [bodies |-> things'.bodies, moons |-> things'.moons,
                    cores |-> things'.cores]
      /\ things'.cores = storeCores /\ things'.moons \subseteq HoverMoons
  BY <1>1
<1>4. /\ sparks' \in 0..MaxCores * SPARKS_PER_CORE
      /\ sparks' <= tree.count * SPARKS_PER_CORE
  <2>. DEFINE lit == Lit(storeCores, tree.count)
  <2>1. lit \in Nat /\ lit <= tree.count /\ lit <= MaxCores
    BY <1>2 DEF Lit
  <2>2. load \in Nat /\ load <= SPARKS_PER_CORE /\ sparks' = load * lit
    BY <1>1, <1>2
  <2>. HIDE DEF lit
  <2>3. /\ load * lit \in Nat /\ load * lit <= tree.count * SPARKS_PER_CORE
        /\ load * lit <= MaxCores * SPARKS_PER_CORE
    BY <1>2, <2>1, <2>2, SparksFit
  <2>4. MaxCores * SPARKS_PER_CORE \in Nat
    BY <1>2, SparksFit
  <2>. QED  BY <2>2, <2>3, <2>4
<1>5. /\ tooltip' = [target |-> tooltip'.target, text |-> tooltip'.text]
      /\ {tooltip'.target, tooltip'.text} \subseteq Targets
      /\ tooltip'.target = tooltip.target
      /\ tooltip'.text # NotHovered => /\ tooltip.target # NotHovered
                                       /\ There(tooltip'.text, things')
  <2>1. /\ tooltip = [target |-> tooltip.target, text |-> tooltip.text]
        /\ {tooltip.target, tooltip.text, NotHovered} \subseteq Targets
        /\ tooltip.text # NotHovered => tooltip.target # NotHovered
    BY DEF HoverInv, HoverTypeOK, Targets
  <2>2. CASE tooltip' = tooltip /\ (tooltip.text = NotHovered \/ tooltip.target = NotHovered)
    BY <2>1, <2>2
  <2>3. CASE tooltip.target # NotHovered /\ tooltip' = Told(next)
    <3>. DEFINE text == IF There(tooltip.target, next) THEN tooltip.target ELSE NotHovered
    <3>1. tooltip' = [tooltip EXCEPT !.text = text]
      BY <2>3 DEF Told
    <3>2. text \in Targets /\ (text # NotHovered => There(text, next))
      BY <2>1
    <3>. HIDE DEF text
    <3>3. tooltip' = [target |-> tooltip.target, text |-> text]
      BY <2>1, <3>1
    <3>4. tooltip'.target = tooltip.target /\ tooltip'.text = text
      BY <3>3
    <3>. QED  BY <1>1, <2>1, <2>3, <3>2, <3>3, <3>4
  <2>. QED  BY <1>1, <2>2, <2>3 DEF Told
<1>6. \A i \in orbs' : i < things'.cores /\ i < tree'.count
  BY <1>1, <1>2, <1>3
<1>. QED
  BY <1>1, <1>2, <1>3, <1>4, <1>5, <1>6
     DEF HoverInv, HoverTypeOK, HoverHonest, CaughtUp, LeftHovered

LEMMA HoverNextInv ==
    ASSUME HoverInv, [HoverNext]_hoverVars
    PROVE  HoverInv'
<1>1. CASE StoreCores
  BY <1>1 DEF StoreCores, HoverInv, HoverTypeOK, HoverHonest, There, CaughtUp, LeftHovered
<1>2. CASE UNCHANGED hoverVars
  BY <1>2 DEF hoverVars, HoverInv, HoverTypeOK, HoverHonest, There, CaughtUp, LeftHovered
<1>. QED
  BY <1>1, <1>2, PointerStep, CommitStep, EffectsStep, HoverFrameStep DEF HoverNext

(***************************************************************************)
(* For any groups, satellites and cores, whichever of store, frame, tree   *)
(* and effects is behind the others: a tooltip that is displayed tells of  *)
(* what is there, what is drawn is of a core that is mounted, and so are   *)
(* the group or the core the lines are lit up for once React has caught up.*)
(***************************************************************************)
THEOREM TooltipTellsOfWhatIsThere == HoverSpec => []HoverHonest
<1>1. HoverInv => HoverHonest
  BY DEF HoverInv
<1>. QED  BY <1>1, HoverInitInv, HoverNextInv, PTL DEF HoverSpec

----------------------------------------------------------------------------
(***************************************************************************)
(* Presence: the entries of a tracker.                                     *)
(***************************************************************************)
EntryOf(V) == [phase : Phase, progress : 0..Full, value : V]

\* An entry in the input stays, with the input's value.
LEMMA ReturnFact ==
    ASSUME NEW V, NEW e \in EntryOf(V), NEW v \in V, NEW step \in 0..Full
    PROVE  LET r == Settle(Return(e, v, step))
           IN  r \in EntryOf(V) /\ ~IsLeaving(r.phase) /\ r.value = v
<1>. DEFINE r == Return(e, v, step)
<1>1. r \in EntryOf(V) /\ ~IsLeaving(r.phase) /\ r.value = v
  <2>1. CASE e.phase = "fading-out"
    BY <2>1, FullAssumption DEF EntryOf, Return, Entry, Opacity, IsLeaving, Phase
  <2>2. CASE e.phase = "collapsing"
    BY <2>2, FullAssumption DEF EntryOf, Return, Entry, IsLeaving, Phase
  <2>3. CASE e.phase \notin {"fading-out", "collapsing"}
    <3>. DEFINE c == Continue(e, step)
    <3>1. c \in EntryOf(V) /\ c.phase = e.phase
      BY <2>3, FullAssumption DEF EntryOf, Continue, Phase
    <3>2. r = [c EXCEPT !.value = v]
      BY <2>3 DEF Return
    <3>. HIDE DEF c, r
    <3>. QED  BY <2>3, <3>1, <3>2 DEF EntryOf, IsLeaving
  <2>. QED  BY <2>1, <2>2, <2>3
<1>. HIDE DEF r
<1>2. Settle(r) \in EntryOf(V) /\ ~IsLeaving(Settle(r).phase) /\ Settle(r).value = v
  BY <1>1 DEF Settle, EntryOf, IsLeaving, Phase
<1>. QED  BY <1>2 DEF r

\* An entry that is not leaves, with the value it had.
LEMMA LeaveFact ==
    ASSUME NEW V, NEW e \in EntryOf(V), NEW died \in BOOLEAN, NEW step \in 0..Full
    PROVE  LET l == Leave(e, died, step)
           IN  l \in EntryOf(V) /\ IsLeaving(l.phase) /\ l.value = e.value
<1>1. CASE IsLeaving(e.phase)
  BY <1>1, FullAssumption DEF Leave, Continue, EntryOf, IsLeaving, Phase
<1>2. CASE ~IsLeaving(e.phase)
  <2>1. Opacity(e) \in 0..Full
    BY <1>2, FullAssumption DEF Opacity, EntryOf, Phase, IsLeaving
  <2>. QED  BY <1>2, <2>1, FullAssumption DEF Leave, Entry, EntryOf, IsLeaving, Phase
<1>. QED  BY <1>1, <1>2

Tracker(S, V) ==
    {t \in [items : UNION {[D -> EntryOf(V)] : D \in SUBSET S},
            initialized : BOOLEAN, version : 0..1] :
        ~t.initialized => DOMAIN t.items = {}}

\* The items of a tracker and its count of changes, after an update.
Updated(u, t, D, input) ==
    /\ u.initialized
    /\ D = {k \in DOMAIN u.items : ~IsLeaving(u.items[k].phase)}
    /\ \A k \in DOMAIN u.items :
          u.items[k].value \in {t.items[l].value : l \in DOMAIN t.items} \cup {input[l] : l \in D}
    /\ u.version = 1 \/ (u.version = t.version /\ DOMAIN u.items = DOMAIN t.items)

LEMMA UpdateFact ==
    ASSUME NEW S, NEW V, NEW t \in Tracker(S, V), NEW D \in SUBSET S,
           NEW input \in [D -> V], NEW born, NEW died, NEW step \in 0..Full
    PROVE  /\ Update(t, input, born, died, step) \in Tracker(S, V)
           /\ Updated(Update(t, input, born, died, step), t, D, input)
<1>. DEFINE first == [k \in DOMAIN input |-> Entry("present", Full, input[k])]
            moved == [k \in DOMAIN t.items \cup DOMAIN input |->
                        IF k \notin DOMAIN input
                        THEN Leave(t.items[k], k \in died, step)
                        ELSE IF k \in DOMAIN t.items
                        THEN Settle(Return(t.items[k], input[k], step))
                        ELSE Entry(IF k \in born THEN "forming" ELSE "fading-in",
                                   0, input[k])]
            kept == {k \in DOMAIN moved : ~Over(moved[k])}
            items == IF t.initialized THEN Restrict(moved, kept) ELSE first
            ended == IF t.initialized THEN DOMAIN moved \ DOMAIN items ELSE {}
            added == DOMAIN items \ DOMAIN t.items
            u == Update(t, input, born, died, step)
<1>1. u = [items |-> items, initialized |-> TRUE,
           version |-> IF ended \cup added = {} THEN t.version ELSE 1]
  BY DEF Update
<1>2. /\ DOMAIN t.items \in SUBSET S /\ \A k \in DOMAIN t.items : t.items[k] \in EntryOf(V)
      /\ t.version \in 0..1 /\ t.initialized \in BOOLEAN
      /\ ~t.initialized => DOMAIN t.items = {}
      /\ DOMAIN input = D /\ \A k \in D : input[k] \in V
  BY DEF Tracker
<1>3. DOMAIN moved = DOMAIN t.items \cup D
  BY <1>2
<1>4. ASSUME NEW k \in D
      PROVE  moved[k] \in EntryOf(V) /\ ~IsLeaving(moved[k].phase) /\ moved[k].value = input[k]
  <2>1. CASE k \in DOMAIN t.items
    <3>1. moved[k] = Settle(Return(t.items[k], input[k], step))
      BY <1>2, <2>1
    <3>. QED  BY <1>2, <2>1, <3>1, ReturnFact
  <2>2. CASE k \notin DOMAIN t.items
    <3>1. moved[k] = Entry(IF k \in born THEN "forming" ELSE "fading-in", 0, input[k])
      BY <1>2, <2>2
    <3>. QED  BY <1>2, <3>1, FullAssumption DEF Entry, EntryOf, IsLeaving, Phase
  <2>. QED  BY <2>1, <2>2
<1>5. ASSUME NEW k \in DOMAIN t.items \ D
      PROVE  /\ moved[k] \in EntryOf(V) /\ IsLeaving(moved[k].phase)
             /\ moved[k].value = t.items[k].value
  <2>1. moved[k] = Leave(t.items[k], k \in died, step)
    BY <1>2
  <2>2. (k \in died) \in BOOLEAN
    OBVIOUS
  <2>. QED  BY <1>2, <2>1, <2>2, LeaveFact
<1>6. ASSUME NEW k \in D
      PROVE  first[k] \in EntryOf(V) /\ ~IsLeaving(first[k].phase) /\ first[k].value = input[k]
  BY <1>2, FullAssumption DEF Entry, EntryOf, IsLeaving, Phase
<1>7. DOMAIN first = D
  BY <1>2
<1>. HIDE DEF moved, first
<1>8. /\ D \subseteq DOMAIN items /\ DOMAIN items \subseteq DOMAIN t.items \cup D
      /\ DOMAIN items \in SUBSET S /\ items \in [DOMAIN items -> EntryOf(V)]
      /\ \A k \in DOMAIN items : ~IsLeaving(items[k].phase) <=> k \in D
      /\ \A k \in DOMAIN items : items[k].value = IF k \in D THEN input[k] ELSE t.items[k].value
      /\ ended \cup added = {} => DOMAIN items = DOMAIN t.items
  <2>1. CASE ~t.initialized
    <3>1. items = first
      BY <2>1
    <3>2. first = [k \in D |-> first[k]]
      BY <1>7 DEF first
    <3>. QED  BY <1>2, <1>6, <1>7, <2>1, <3>1, <3>2
  <2>2. CASE t.initialized
    <3>1. items = [k \in kept |-> moved[k]]
      BY <2>2 DEF Restrict
    <3>2. D \subseteq kept
      BY <1>3, <1>4 DEF Over
    <3>3. kept \subseteq DOMAIN t.items \cup D
      BY <1>3
    <3>4. \A k \in kept : /\ moved[k] \in EntryOf(V) /\ (~IsLeaving(moved[k].phase) <=> k \in D)
                          /\ moved[k].value = IF k \in D THEN input[k] ELSE t.items[k].value
      BY <1>4, <1>5, <3>3
    <3>5. ended = DOMAIN moved \ kept
      BY <2>2, <3>1
    <3>. HIDE DEF kept
    <3>6. DOMAIN items = kept /\ \A k \in kept : items[k] = moved[k]
      BY <3>1
    <3>. HIDE DEF items, ended
    <3>. QED  BY <1>2, <1>3, <3>1, <3>2, <3>3, <3>4, <3>5, <3>6
  <2>. QED  BY <1>2, <2>1, <2>2
<1>9. /\ u.items = items /\ u.initialized = TRUE
      /\ u.version = IF ended \cup added = {} THEN t.version ELSE 1
  BY <1>1
<1>. HIDE DEF u, items, ended, added
<1>10. u \in Tracker(S, V)
  <2>1. items \in UNION {[E -> EntryOf(V)] : E \in SUBSET S}
    BY <1>8
  <2>2. u.version \in 0..1
    BY <1>2, <1>9
  <2>3. u = [items |-> items, initialized |-> TRUE, version |-> u.version]
    BY <1>1, <1>9
  <2>. DEFINE I == UNION {[E -> EntryOf(V)] : E \in SUBSET S}
  <2>4. items \in I
    BY <2>1
  <2>5. Tracker(S, V) = {r \in [items : I, initialized : BOOLEAN, version : 0..1] :
                            ~r.initialized => DOMAIN r.items = {}}
    BY DEF Tracker
  <2>. HIDE DEF I
  <2>. QED  BY <2>2, <2>3, <2>4, <2>5
<1>11. \A k \in DOMAIN u.items : u.items[k].value \in {t.items[l].value : l \in DOMAIN t.items}
                                                    \cup {input[l] : l \in D}
  BY <1>8, <1>9
<1>12. D = {k \in DOMAIN u.items : ~IsLeaving(u.items[k].phase)}
  BY <1>8, <1>9
<1>13. u.version = 1 \/ (u.version = t.version /\ DOMAIN u.items = DOMAIN t.items)
  BY <1>8, <1>9
<1>14. Updated(u, t, D, input)
  BY <1>9, <1>11, <1>12, <1>13 DEF Updated
<1>. QED  BY <1>10, <1>14 DEF u

----------------------------------------------------------------------------
(***************************************************************************)
(* The focus and its satellites.                                           *)
(***************************************************************************)
Focusable == FocusGroups \cup {NoGroup}

FocusTypes ==
    /\ focusGroups \in [FocusGroups -> FocusGroup]
    /\ focusedKey \in Focusable /\ rendered \in Focusable
    /\ focus \in FocusFrame
    /\ tween \in [t : 0..Whole, weight : 0..Whole, target : {0, Whole}, running : BOOLEAN]

Satellites == [owner : Focusable, tracker : Tracker(FocusChildren, FocusGroups),
               shown : SUBSET FocusChildren]

\* All that the tracker holds is of the owner, also while nothing is shown; and
\* if the membership has not changed, the list handed to React is the tracker's.
Owned(s) ==
    /\ s \in Satellites
    /\ \A c \in DOMAIN s.tracker.items : s.tracker.items[c].value = s.owner
    /\ s.tracker.version = 0 => s.shown = DOMAIN s.tracker.items

FocusInv == FocusTypes /\ Owned(satellites) /\ MoonsOfOwner

LEMMA EmptyTracker ==
    ASSUME NEW S, NEW V, NEW none \in [{} -> EntryOf(V)], NEW v \in 0..1
    PROVE  [items |-> none, initialized |-> FALSE, version |-> v] \in Tracker(S, V)
<1>. DEFINE I == UNION {[D -> EntryOf(V)] : D \in SUBSET S}
<1>1. none \in I /\ DOMAIN none = {}
  OBVIOUS
<1>2. Tracker(S, V) = {r \in [items : I, initialized : BOOLEAN, version : 0..1] :
                          ~r.initialized => DOMAIN r.items = {}}
  BY DEF Tracker
<1>. HIDE DEF I
<1>. QED  BY <1>1, <1>2

LEMMA FocusInitInv == FocusInit => FocusInv
<1>. SUFFICES ASSUME FocusInit PROVE FocusInv
  OBVIOUS
<1>1. FocusTypes
  BY DEF FocusInit, FocusTypes, Focusable, FocusGroup, FocusFrame, Whole
<1>. DEFINE none == [k \in {} |-> 0]
<1>2. /\ satellites.owner = NoGroup /\ satellites.shown = {}
      /\ satellites.tracker = [items |-> none, initialized |-> FALSE, version |-> 1]
      /\ satellites = [owner |-> NoGroup, tracker |-> satellites.tracker, shown |-> {}]
  BY DEF FocusInit, NewTracker
<1>3. DOMAIN none = {} /\ none \in [{} -> EntryOf(FocusGroups)]
  OBVIOUS
<1>. HIDE DEF none
<1>4. satellites.tracker \in Tracker(FocusChildren, FocusGroups)
  <2>1. 1 \in 0..1
    OBVIOUS
  <2>2. [items |-> none, initialized |-> FALSE, version |-> 1]
            \in Tracker(FocusChildren, FocusGroups)
    BY <1>3, <2>1, EmptyTracker
  <2>. QED  BY <1>2, <2>2, Zenon
<1>5. satellites \in Satellites
  <2>1. NoGroup \in Focusable /\ {} \in SUBSET FocusChildren
    BY DEF Focusable
  <2>. QED  BY <1>2, <1>4, <2>1 DEF Satellites
<1>6. satellites.tracker.items = none /\ satellites.tracker.version = 1
  BY <1>2
<1>7. Owned(satellites)
  BY <1>3, <1>5, <1>6 DEF Owned
<1>. QED  BY <1>1, <1>2, <1>7 DEF FocusInv, MoonsOfOwner

LEMMA OwnedFact ==
    ASSUME NEW s, Owned(s), NEW o \in Focusable
    PROVE  Owned(OwnedBy(s, o)) /\ OwnedBy(s, o).owner = o
<1>1. CASE o = s.owner
  BY <1>1 DEF OwnedBy
<1>2. CASE o # s.owner
  <2>. DEFINE none == [k \in {} |-> 0]
              r == Reset(s.tracker)
  <2>1. r = [items |-> none, initialized |-> FALSE,
             version |-> IF DOMAIN s.tracker.items = {} THEN s.tracker.version ELSE 1]
    BY DEF Reset
  <2>2. DOMAIN none = {} /\ none \in [{} -> EntryOf(FocusGroups)]
    OBVIOUS
  <2>. HIDE DEF none
  <2>3. s.tracker.version \in 0..1
    BY DEF Owned, Satellites, Tracker
  <2>4. r \in Tracker(FocusChildren, FocusGroups)
    <3>1. (IF DOMAIN s.tracker.items = {} THEN s.tracker.version ELSE 1) \in 0..1
      BY <2>3
    <3>. QED  BY <2>1, <2>2, <3>1, EmptyTracker, Zenon
  <2>5. OwnedBy(s, o) = [s EXCEPT !.owner = o, !.tracker = r]
    BY <1>2 DEF OwnedBy
  <2>6. r.version = 0 => s.shown = {} /\ DOMAIN r.items = {}
    BY <2>1, <2>2 DEF Owned
  <2>7. DOMAIN r.items = {}
    BY <2>1, <2>2
  <2>. HIDE DEF r
  <2>8. OwnedBy(s, o) = [owner |-> o, tracker |-> r, shown |-> s.shown]
    BY <2>5 DEF Owned, Satellites
  <2>9. OwnedBy(s, o) \in Satellites
    BY <2>4, <2>8 DEF Owned, Satellites
  <2>10. /\ OwnedBy(s, o).tracker = r /\ OwnedBy(s, o).shown = s.shown
         /\ OwnedBy(s, o).owner = o
    BY <2>8
  <2>. QED  BY <2>6, <2>7, <2>9, <2>10 DEF Owned
<1>. QED  BY <1>1, <1>2

\* A frame of the satellites.
LEMMA SatellitesFact ==
    ASSUME NEW s, Owned(s), NEW next \in [FocusGroups -> FocusGroup],
           NEW born, NEW died, NEW step \in 1..Full
    PROVE  LET r == SatellitesAfter(s, next, born, died, step) IN
           /\ Owned(r) /\ r.owner = s.owner
           /\ r.shown # {} =>
                /\ r.shown = DOMAIN r.tracker.items
                /\ {c \in DOMAIN r.tracker.items : ~IsLeaving(r.tracker.items[c].phase)}
                      = next[r.owner].children
<1>. DEFINE r == SatellitesAfter(s, next, born, died, step)
<1>1. CASE s.owner = NoGroup \/ (s.owner \in FocusGroups /\ next[s.owner].phase = "absent")
  <2>1. r = [s EXCEPT !.shown = {}, !.tracker.version = 1]
    BY <1>1 DEF SatellitesAfter
  <2>. DEFINE t == [s.tracker EXCEPT !.version = 1]
  <2>2. s.tracker \in Tracker(FocusChildren, FocusGroups)
    BY DEF Owned, Satellites
  <2>3. t \in Tracker(FocusChildren, FocusGroups) /\ t.items = s.tracker.items /\ t.version = 1
    BY <2>2 DEF Tracker
  <2>4. r = [owner |-> s.owner, tracker |-> t, shown |-> {}]
    BY <2>1 DEF Owned, Satellites
  <2>. HIDE DEF r, t
  <2>. QED  BY <2>3, <2>4 DEF Owned, Satellites, r
<1>2. CASE ~(s.owner = NoGroup \/ (s.owner \in FocusGroups /\ next[s.owner].phase = "absent"))
  <2>. DEFINE D == next[s.owner].children
              input == [c \in D |-> s.owner]
              u == Update(s.tracker, input, born, died, step)
              t == [u EXCEPT !.version = 0]
              kept == IF u.version = 0 THEN s.shown ELSE DOMAIN u.items
  <2>1. s.owner \in FocusGroups /\ D \in SUBSET FocusChildren
    BY <1>2 DEF Owned, Satellites, Focusable, FocusGroup
  <2>2. input \in [D -> FocusGroups] /\ \A c \in D : input[c] = s.owner
    BY <2>1
  <2>3. s.tracker \in Tracker(FocusChildren, FocusGroups) /\ step \in 0..Full
    BY FullAssumption DEF Owned, Satellites
  <2>. HIDE DEF D, input
  <2>4a. u \in Tracker(FocusChildren, FocusGroups) /\ Updated(u, s.tracker, D, input)
    BY <2>1, <2>2, <2>3, UpdateFact
  <2>. HIDE DEF u
  <2>4. /\ u \in Tracker(FocusChildren, FocusGroups)
        /\ D = {k \in DOMAIN u.items : ~IsLeaving(u.items[k].phase)}
        /\ \A k \in DOMAIN u.items :
              u.items[k].value \in {s.tracker.items[l].value : l \in DOMAIN s.tracker.items}
                                      \cup {input[l] : l \in D}
        /\ u.version = 1 \/ (u.version = s.tracker.version
                               /\ DOMAIN u.items = DOMAIN s.tracker.items)
    BY <2>4a DEF Updated
  <2>5. \A k \in DOMAIN u.items : u.items[k].value = s.owner
    BY <2>2, <2>4 DEF Owned
  <2>6. t \in Tracker(FocusChildren, FocusGroups) /\ t.items = u.items /\ t.version = 0
    BY <2>4 DEF Tracker
  <2>7. kept = DOMAIN u.items /\ kept \in SUBSET FocusChildren
    <3>1. DOMAIN u.items \in SUBSET FocusChildren
      BY <2>4 DEF Tracker
    <3>2. u.version = 0 => s.shown = DOMAIN u.items
      BY <2>4 DEF Owned
    <3>. QED  BY <3>1, <3>2
  <2>8. r = [s EXCEPT !.tracker = t, !.shown = kept]
    BY <1>2, Zenon DEF SatellitesAfter, D, input, u
  <2>. HIDE DEF r, t, kept
  <2>9. r = [owner |-> s.owner, tracker |-> t, shown |-> kept]
    BY <2>8 DEF Owned, Satellites
  <2>10. r \in Satellites
    BY <2>1, <2>6, <2>7, <2>9 DEF Satellites, Focusable
  <2>11. r.shown = DOMAIN r.tracker.items /\ r.owner = s.owner
         /\ r.tracker.items = u.items
    BY <2>6, <2>7, <2>9
  <2>12. {c \in DOMAIN r.tracker.items : ~IsLeaving(r.tracker.items[c].phase)}
            = next[r.owner].children
    BY <2>4, <2>11 DEF D
  <2>. QED  BY <2>5, <2>10, <2>11, <2>12 DEF Owned, r
<1>. QED  BY <1>1, <1>2

LEMMA FocusStepKeeps ==
    ASSUME FocusInv, FocusStep
    PROVE  FocusInv'
<1>1. PICK next \in NextGroups, step \in 1..Full :
        LET f == [focus EXCEPT !.t = tween.t, !.weight = tween.weight]
            s == OwnedBy(satellites, OwnerOf(f))
            before == IF s.owner = NoGroup THEN {} ELSE focusGroups[s.owner].children
            after == IF s.owner = NoGroup THEN {} ELSE next[s.owner].children
        IN  /\ focusGroups' = next
            /\ focusedKey' = FocusAfter(next)
            /\ focus' = f
            /\ \E born \in SUBSET (after \ before), died \in SUBSET (before \ after) :
                  satellites' = SatellitesAfter(s, next, born, died, step)
            /\ UNCHANGED <<rendered, tween, depth, focusClicks>>
  BY Zenon DEF FocusStep
<1>. DEFINE f == [focus EXCEPT !.t = tween.t, !.weight = tween.weight]
            s == OwnedBy(satellites, OwnerOf(f))
<1>2. /\ focusGroups' = next /\ focusedKey' = FocusAfter(next) /\ focus' = f
      /\ rendered' = rendered /\ tween' = tween
      /\ \E born, died : satellites' = SatellitesAfter(s, next, born, died, step)
  BY <1>1
<1>3. next \in [FocusGroups -> FocusGroup]
  BY DEF NextGroups
<1>4. f \in FocusFrame
  BY DEF FocusInv, FocusTypes, FocusFrame
<1>5. FocusTypes'
  BY <1>2, <1>3, <1>4 DEF FocusInv, FocusTypes, FocusAfter, Focusable
<1>6. OwnerOf(f) \in Focusable
  BY <1>4 DEF OwnerOf, FocusFrame, Focusable
<1>. HIDE DEF f
<1>7. Owned(s)
  BY <1>6, OwnedFact DEF FocusInv
<1>. HIDE DEF s
<1>8. Owned(satellites')
      /\ (satellites'.shown # {} =>
            /\ satellites'.shown = DOMAIN satellites'.tracker.items
            /\ {c \in DOMAIN satellites'.tracker.items :
                    ~IsLeaving(satellites'.tracker.items[c].phase)}
                  = next[satellites'.owner].children)
  BY <1>2, <1>3, <1>7, SatellitesFact
<1>9. MoonsOfOwner'
  BY <1>2, <1>8 DEF MoonsOfOwner, Moons, Owned
<1>10. Owned(satellites)'
  BY <1>8 DEF Owned
<1>. QED  BY <1>5, <1>9, <1>10 DEF FocusInv

LEMMA FocusNextInv ==
    ASSUME FocusInv, [FocusNext]_focusVars
    PROVE  FocusInv'
<1>1. CASE FocusStep
  BY <1>1, FocusStepKeeps
<1>2. CASE (\E k \in FocusGroups : ClickNode(k)) \/ FocusClear \/ FocusCommit
           \/ DepthTimer \/ TweenTick \/ UNCHANGED focusVars
  <2>1. focusGroups' = focusGroups /\ satellites' = satellites
    BY <1>2 DEF ClickNode, FocusClear, FocusCommit, DepthTimer, TweenTick, focusVars
  <2>2. FocusTypes'
    <3>1. CASE \E k \in FocusGroups : ClickNode(k)
      BY <3>1 DEF ClickNode, FocusInv, FocusTypes, Focusable
    <3>2. CASE FocusClear
      BY <3>2 DEF FocusClear, FocusInv, FocusTypes, Focusable
    <3>3. CASE FocusCommit
      <4>1. tween' \in [t : 0..Whole, weight : 0..Whole, target : {0, Whole},
                        running : BOOLEAN]
        <5>1. tween.weight \in 0..Whole /\ 0 \in 0..Whole
          BY DEF FocusInv, FocusTypes, Whole
        <5>2. \/ tween' = [tween EXCEPT !.running = FALSE]
              \/ \E target \in {0, Whole} :
                   tween' = [t |-> 0, weight |-> tween.weight, running |-> TRUE,
                             target |-> target]
          BY <3>3 DEF FocusCommit, Transition
        <5>3. tween \in [t : 0..Whole, weight : 0..Whole, target : {0, Whole},
                         running : BOOLEAN]
          BY DEF FocusInv, FocusTypes
        <5>4. [tween EXCEPT !.running = FALSE]
                  \in [t : 0..Whole, weight : 0..Whole, target : {0, Whole},
                      running : BOOLEAN]
          BY <5>3
        <5>5. ASSUME NEW target \in {0, Whole}
              PROVE  [t |-> 0, weight |-> tween.weight, running |-> TRUE,
                      target |-> target]
                        \in [t : 0..Whole, weight : 0..Whole, target : {0, Whole},
                            running : BOOLEAN]
          BY <5>1
        <5>. QED  BY <5>2, <5>4, <5>5
      <4>2. focus' \in FocusFrame
        BY <3>3 DEF FocusCommit, Transition, Begin, FocusInv, FocusTypes, FocusFrame, Focusable
      <4>. QED  BY <3>3, <4>1, <4>2 DEF FocusCommit, FocusInv, FocusTypes
    <3>4. CASE DepthTimer
      BY <3>4 DEF DepthTimer, FocusInv, FocusTypes
    <3>5. CASE TweenTick
      <4>1. PICK t \in tween.t..Whole :
              tween' = [tween EXCEPT
                !.t = t,
                !.weight = CASE t = Whole       -> tween.target
                             [] @ = tween.target -> @
                             [] OTHER           -> Between,
                !.running = t < Whole]
        BY <3>5 DEF TweenTick
      <4>2. tween' \in [t : 0..Whole, weight : 0..Whole, target : {0, Whole},
                        running : BOOLEAN]
        <5>1. t \in 0..Whole /\ (t < Whole) \in BOOLEAN
          BY DEF FocusInv, FocusTypes, Whole
        <5>. DEFINE w == CASE t = Whole       -> tween.target
                           [] tween.weight = tween.target -> tween.weight
                           [] OTHER           -> Between
        <5>2. w \in 0..Whole
          BY DEF FocusInv, FocusTypes, Whole, Between
        <5>3. tween' = [tween EXCEPT !.t = t, !.weight = w, !.running = t < Whole]
          BY <4>1
        <5>. HIDE DEF w
        <5>. QED  BY <5>1, <5>2, <5>3 DEF FocusInv, FocusTypes
      <4>. QED  BY <3>5, <4>2 DEF TweenTick, FocusInv, FocusTypes
    <3>6. CASE UNCHANGED focusVars
      BY <3>6 DEF focusVars, FocusInv, FocusTypes
    <3>. QED  BY <1>2, <3>1, <3>2, <3>3, <3>4, <3>5, <3>6
  <2>. QED  BY <2>1, <2>2 DEF FocusInv, MoonsOfOwner, Moons, Owned
<1>. QED  BY <1>1, <1>2 DEF FocusNext

(***************************************************************************)
(* For any groups and children, however clicks, commits, the tween and the *)
(* frames follow each other: the satellites are those of the one group     *)
(* they turn around; none is left over from another focus.                 *)
(***************************************************************************)
THEOREM SatellitesOfOneGroup == FocusSpec => []MoonsOfOwner
<1>1. FocusInv => MoonsOfOwner
  BY DEF FocusInv
<1>. QED  BY <1>1, FocusInitInv, FocusNextInv, PTL DEF FocusSpec

----------------------------------------------------------------------------
(***************************************************************************)
(* The lines of the flows.  What a frame makes of a line follows from what *)
(* it was; which lines stay follows from their number and their order.     *)
(***************************************************************************)
LinesInv == /\ DOMAIN lines \subseteq Edges
            /\ \A k \in DOMAIN lines : lines[k] \in Edge

LEMMA ShineFact ==
    ASSUME NEW e \in Edge, NEW step \in 0..MaxStep
    PROVE  /\ Shine(e, step) \in Edge
           /\ Shine(e, step).present = e.present
           /\ Shine(e, step).intensity <= e.intensity + FadeIn * step
           /\ e.intensity <= Shine(e, step).intensity + step
           /\ ~e.present /\ Shine(e, step).intensity = 0 => e.intensity <= step
<1>. DEFINE gain == FadeIn * step
            up == e.intensity + gain
            down == IF e.intensity > step THEN e.intensity - step ELSE 0
            new == IF ~e.present THEN down ELSE IF up < Bright THEN up ELSE Bright
<1>1. /\ e.weight \in Weights /\ e.intensity \in 0..Bright /\ e.present \in BOOLEAN
      /\ Bright \in Nat /\ step \in Nat
  BY FlowAssumption DEF Edge
<1>2. gain \in Nat
  BY FlowAssumption
<1>3. Shine(e, step) = [e EXCEPT !.intensity = new]
  BY DEF Shine
<1>. HIDE DEF gain
<1>4. /\ new \in 0..Bright /\ new <= e.intensity + gain /\ e.intensity <= new + step
      /\ ~e.present /\ new = 0 => e.intensity <= step
  BY <1>1, <1>2
<1>. HIDE DEF new
<1>5. /\ Shine(e, step).intensity = new /\ Shine(e, step).present = e.present
      /\ Shine(e, step) \in Edge
  BY <1>1, <1>3, <1>4 DEF Edge
<1>. QED  BY <1>4, <1>5 DEF gain

\* The lines the flows give are there, with the brightness they had.
LEMMA NotedFact ==
    ASSUME LinesInv, NEW flows, DOMAIN flows \subseteq Edges,
           \A k \in DOMAIN flows : flows[k] \in Weights
    PROVE  /\ DOMAIN Noted(flows) = DOMAIN lines \cup DOMAIN flows
           /\ \A k \in DOMAIN Noted(flows) :
                 /\ Noted(flows)[k] \in Edge
                 /\ Noted(flows)[k].present <=> k \in DOMAIN flows
                 /\ Noted(flows)[k].intensity = Glow(lines, k)
<1>1. DOMAIN Noted(flows) = DOMAIN lines \cup DOMAIN flows
  BY DEF Noted
<1>2. ASSUME NEW k \in DOMAIN Noted(flows)
      PROVE  /\ Noted(flows)[k] \in Edge
             /\ Noted(flows)[k].present <=> k \in DOMAIN flows
             /\ Noted(flows)[k].intensity = Glow(lines, k)
  <2>1. CASE k \in DOMAIN flows
    <3>1. Noted(flows)[k] = [weight |-> flows[k], present |-> TRUE,
                             intensity |-> Glow(lines, k)]
      BY <2>1 DEF Noted, Glow
    <3>2. Glow(lines, k) \in 0..Bright
      BY FlowAssumption DEF Glow, LinesInv, Edge
    <3>3. flows[k] \in Weights
      BY <2>1
    <3>. QED  BY <2>1, <3>1, <3>2, <3>3 DEF Edge
  <2>2. CASE k \notin DOMAIN flows
    <3>1. k \in DOMAIN lines /\ lines[k] \in Edge
      BY <1>1, <2>2 DEF LinesInv
    <3>2. Noted(flows)[k] = [lines[k] EXCEPT !.present = FALSE]
      BY <1>1, <2>2 DEF Noted
    <3>. QED  BY <2>2, <3>1, <3>2 DEF Edge, Glow
  <2>. QED  BY <2>1, <2>2
<1>. QED  BY <1>1, <1>2

\* What is left out of too many: there is no room for more, and nothing that
\* is there is given up for an afterglow.
LEMMA TrimmedFact ==
    ASSUME NEW s, IsFiniteSet(DOMAIN s), NEW kept \in Trimmed(s), kept # DOMAIN s
    PROVE  /\ Cardinality(kept) = MAX_EDGES
           /\ \A k \in kept, l \in DOMAIN s \ kept :
                 s[k].present \in BOOLEAN /\ s[l].present = TRUE => s[k].present
<1>1. /\ kept \subseteq DOMAIN s
      /\ Cardinality(kept) = IF Cardinality(DOMAIN s) < MAX_EDGES
                             THEN Cardinality(DOMAIN s) ELSE MAX_EDGES
      /\ \A k \in kept, l \in DOMAIN s \ kept : ~Before(s[k], s[l])
  BY DEF Trimmed
<1>2. Cardinality(kept) # Cardinality(DOMAIN s)
  BY <1>1, FS_Subset
<1>. QED  BY <1>1, <1>2 DEF Before

\* One frame, with the lines s before some are given up.
LEMMA LinesFrame ==
    ASSUME LinesInv,
           NEW live \in SUBSET FlowGroups, NEW step \in 0..MaxStep,
           NEW flows, DOMAIN flows \subseteq {k \in Edges : k[1] \in live},
           \A k \in DOMAIN flows : flows[k] \in Weights,
           flowStep' = step, given' = DOMAIN flows,
           NEW kept \in Trimmed(Shone(Noted(flows), live, step)),
           lines' = Restrict(Shone(Noted(flows), live, step), kept)
    PROVE  /\ LinesInv' /\ GivenLinesShown' /\ \A k \in Edges : LineContinues(k)
<1>. DEFINE noted == Noted(flows)
            near == {k \in DOMAIN noted : k[1] \in live}
            lit == [k \in near |-> Shine(noted[k], step)]
            bright == {k \in DOMAIN lit : lit[k].present \/ lit[k].intensity > 0}
            s == Shone(noted, live, step)
<1>1. /\ DOMAIN noted = DOMAIN lines \cup DOMAIN flows /\ DOMAIN noted \subseteq Edges
      /\ \A k \in DOMAIN noted :
            /\ noted[k] \in Edge
            /\ noted[k].present <=> k \in DOMAIN flows
            /\ noted[k].intensity = Glow(lines, k)
  BY NotedFact DEF LinesInv
<1>. HIDE DEF noted
<1>2. \A k \in DOMAIN noted :
         /\ Shine(noted[k], step) \in Edge
         /\ Shine(noted[k], step).present <=> k \in DOMAIN flows
         /\ Shine(noted[k], step).intensity <= Glow(lines, k) + FadeIn * step
         /\ Glow(lines, k) <= Shine(noted[k], step).intensity + step
         /\ k \notin DOMAIN flows /\ Shine(noted[k], step).intensity = 0
               => Glow(lines, k) <= step
  BY <1>1, ShineFact
<1>3. s = [k \in bright |-> lit[k]]
  BY DEF Shone, Restrict
<1>4. /\ DOMAIN s = bright
      /\ \A k \in DOMAIN s : k \in near /\ s[k] = Shine(noted[k], step)
  BY <1>3
<1>5. \A k \in near : k \in DOMAIN s \/ (k \notin DOMAIN flows
                                         /\ ~(Shine(noted[k], step).intensity > 0))
  BY <1>2, <1>4
<1>. HIDE DEF s, lit, bright
<1>6. kept \subseteq DOMAIN s /\ DOMAIN lines' = kept
      /\ \A k \in kept : lines'[k] = Shine(noted[k], step) /\ k \in near
  BY <1>4 DEF Trimmed, Restrict, s, noted
<1>7. kept # DOMAIN s =>
        /\ Cardinality(kept) = MAX_EDGES
        /\ \A k \in kept, l \in DOMAIN s \ kept : l \in DOMAIN flows => k \in DOMAIN flows
  <2>. SUFFICES ASSUME kept # DOMAIN s
                PROVE  /\ Cardinality(kept) = MAX_EDGES
                       /\ \A k \in kept, l \in DOMAIN s \ kept :
                             l \in DOMAIN flows => k \in DOMAIN flows
    OBVIOUS
  <2>1. IsFiniteSet(DOMAIN s)
    <3>1. DOMAIN s \subseteq Edges
      BY <1>1, <1>4
    <3>. QED  BY <3>1, FS_Subset, FlowAssumption
  <2>2. kept \in Trimmed(s)
    BY DEF s, noted
  <2>3. /\ Cardinality(kept) = MAX_EDGES
        /\ \A k \in kept, l \in DOMAIN s \ kept :
              s[k].present \in BOOLEAN /\ s[l].present = TRUE => s[k].present
    BY <2>1, <2>2, TrimmedFact
  <2>4. \A k \in DOMAIN s : s[k].present \in BOOLEAN
                            /\ (s[k].present <=> k \in DOMAIN flows)
    BY <1>2, <1>4 DEF Edge
  <2>. QED  BY <1>6, <2>3, <2>4
<1>8. LinesInv'
  BY <1>1, <1>2, <1>6 DEF LinesInv
<1>9. GivenLinesShown'
  <2>1. DOMAIN flows \subseteq DOMAIN s
    BY <1>1, <1>5
  <2>. QED  BY <1>6, <1>7, <2>1 DEF GivenLinesShown
<1>10. ASSUME NEW k \in Edges PROVE LineContinues(k)
  <2>. DEFINE was == Glow(lines, k)
              is == Glow(lines', k)
              gain == FadeIn * step
  <2>1. was \in Nat /\ gain \in Nat /\ step \in Nat
    BY FlowAssumption DEF Glow, LinesInv, Edge
  <2>2. CASE k \in kept
    BY <1>2, <1>6, <2>2 DEF LineContinues, Glow
  <2>3. CASE k \in DOMAIN s \ kept
    BY <1>6, <1>7, <2>3 DEF LineContinues
  <2>4. CASE k \in DOMAIN noted \ near
    BY <1>6, <2>4 DEF LineContinues
  <2>5. CASE k \in near \ DOMAIN s
    <3>1. is = 0
      BY <1>6, <2>5 DEF Glow
    <3>2. was <= step
      <4>1. k \in DOMAIN noted /\ k \notin DOMAIN flows
            /\ ~(Shine(noted[k], step).intensity > 0)
        BY <1>5, <2>5
      <4>2. Shine(noted[k], step).intensity \in Nat
        BY <1>2, <4>1, FlowAssumption DEF Edge
      <4>3. Shine(noted[k], step).intensity = 0
        BY <4>1, <4>2
      <4>. QED  BY <1>2, <4>1, <4>3
    <3>3. is <= was + gain /\ was <= is + step
      BY <2>1, <3>1, <3>2
    <3>. QED  BY <3>3 DEF LineContinues
  <2>6. CASE k \notin DOMAIN noted
    <3>1. was = 0 /\ is = 0
      BY <1>1, <1>6, <2>6 DEF Glow
    <3>2. is <= was + gain /\ was <= is + step
      BY <2>1, <3>1
    <3>. QED  BY <3>2 DEF LineContinues
  <2>. QED  BY <1>6, <2>2, <2>3, <2>4, <2>5, <2>6
<1>. QED  BY <1>8, <1>9, <1>10

Steady == GivenLinesShown' /\ (~FlowEmptyFrame => \A k \in Edges : LineContinues(k))

LEMMA LinesStep == LinesInv /\ FlowNext => LinesInv' /\ Steady
<1>. SUFFICES ASSUME LinesInv, FlowNext PROVE LinesInv' /\ Steady
  OBVIOUS
<1>1. CASE FlowFrame
  <2>1. PICK live \in SUBSET FlowGroups, cores \in SUBSET FlowCores \ {{}},
             step \in 0..MaxStep :
        \E flows \in Flows(live) :
           /\ flowStep' = step /\ given' = DOMAIN flows
           /\ \E kept \in Trimmed(Shone(Noted(flows), live, step)) :
                 lines' = Restrict(Shone(Noted(flows), live, step), kept)
    BY <1>1 DEF FlowFrame
  <2>2. PICK flows \in Flows(live) :
           /\ flowStep' = step /\ given' = DOMAIN flows
           /\ \E kept \in Trimmed(Shone(Noted(flows), live, step)) :
                 lines' = Restrict(Shone(Noted(flows), live, step), kept)
    BY <2>1
  <2>3. PICK kept \in Trimmed(Shone(Noted(flows), live, step)) :
                 lines' = Restrict(Shone(Noted(flows), live, step), kept)
    BY <2>2
  <2>4. /\ DOMAIN flows \subseteq {k \in Edges : k[1] \in live}
        /\ \A k \in DOMAIN flows : flows[k] \in Weights
    BY DEF Flows
  <2>5. LinesInv' /\ GivenLinesShown' /\ \A k \in Edges : LineContinues(k)
    BY <2>2, <2>3, <2>4, LinesFrame
  <2>. QED  BY <2>5 DEF Steady
<1>2. CASE FlowEmptyFrame
  <2>1. DOMAIN NoLines = {}
    BY DEF NoLines
  <2>2. lines' = NoLines /\ given' = {}
    BY <1>2 DEF FlowEmptyFrame
  <2>. QED  BY <1>2, <2>1, <2>2 DEF Steady, LinesInv, GivenLinesShown
<1>. QED  BY <1>1, <1>2 DEF FlowNext

(***************************************************************************)
(* flowTracker.ts, FlowStreams.tsx - with any number of flows, cores and   *)
(* lines: a flow that is there never gives way to an afterglow, and no     *)
(* line jumps.                                                             *)
(***************************************************************************)
THEOREM LinesStaySteady == FlowSpec => LinesSteady
<1>1. FlowInit => LinesInv
  <2>1. DOMAIN NoLines = {}
    BY DEF NoLines
  <2>. QED  BY <2>1 DEF FlowInit, LinesInv
<1>2. LinesInv /\ [FlowNext]_flowVars => LinesInv'
  <2>1. LinesInv /\ UNCHANGED flowVars => LinesInv'
    BY DEF LinesInv, flowVars
  <2>. QED  BY <2>1, LinesStep
<1>3. LinesInv /\ [FlowNext]_flowVars
        => [/\ GivenLinesShown'
            /\ ~FlowEmptyFrame => \A k \in Edges : LineContinues(k)]_flowVars
  BY LinesStep DEF Steady
<1>. QED  BY <1>1, <1>2, <1>3, PTL DEF FlowSpec, LinesSteady

----------------------------------------------------------------------------
(***************************************************************************)
(* What is shown between two snapshots: the figure of a moment, and from   *)
(* one moment to the next.                                                 *)
(***************************************************************************)
\* Whole parts keep the order.
LEMMA DivMonotone ==
    ASSUME NEW x \in Int, NEW y \in Int, x <= y, NEW n \in Nat, n > 0
    PROVE  x \div n \in Int /\ x \div n <= y \div n
OBVIOUS

LEMMA DivExact ==
    ASSUME NEW d \in Int, NEW n \in Nat, n > 0
    PROVE  (d * n) \div n = d /\ 0 \div n = 0
<1>1. 0 \div n = 0
  OBVIOUS
<1>2. (d * n) \div n = d
  BY Z3
<1>. QED  BY <1>1, <1>2

LEMMA Products ==
    ASSUME NEW d \in Int, NEW a \in Nat, NEW b \in Nat, a <= b
    PROVE  /\ d * a \in Int
           /\ d >= 0 => d * a <= d * b
           /\ d < 0 => d * b <= d * a
<1>1. d * a \in Int
  OBVIOUS
<1>2. d >= 0 => d * a <= d * b
  BY Z3
<1>3. d < 0 => d * b <= d * a
  BY Z3
<1>. QED  BY <1>1, <1>2, <1>3

\* What of a difference d has passed after so long.
Passed(d, late) == (d * late) \div IntervalMs

LEMMA PassedFact ==
    ASSUME NEW d \in Int, NEW late \in Nat, NEW more \in Nat,
           late <= more, more < IntervalMs
    PROVE  /\ Passed(d, late) \in Int /\ Passed(d, more) \in Int
           /\ d >= 0 => /\ 0 <= Passed(d, late)
                        /\ Passed(d, late) <= Passed(d, more)
                        /\ Passed(d, more) <= d
           /\ d < 0 => /\ Passed(d, late) <= 0
                       /\ Passed(d, more) <= Passed(d, late)
                       /\ d <= Passed(d, more)
<1>. DEFINE n == IntervalMs
            a == d * late
            b == d * more
            c == d * n
            z == d * 0
<1>1. n \in Nat /\ n > 0
  BY SampleAssumption
<1>2. /\ a \in Int /\ b \in Int /\ c \in Int /\ z = 0
      /\ d >= 0 => 0 <= a /\ a <= b /\ b <= c
      /\ d < 0 => a <= 0 /\ b <= a /\ c <= b
  <2>1. z = 0 /\ c \in Int
    BY <1>1
  <2>2. a \in Int /\ (d >= 0 => a <= b) /\ (d < 0 => b <= a)
    BY Products
  <2>3. b \in Int /\ (d >= 0 => b <= c) /\ (d < 0 => c <= b)
    BY <1>1, Products
  <2>4. (d >= 0 => z <= a) /\ (d < 0 => a <= z)
    BY Products
  <2>. QED  BY <2>1, <2>2, <2>3, <2>4
<1>3. c \div n = d /\ 0 \div n = 0
  BY <1>1, DivExact
<1>4. Passed(d, late) = a \div n /\ Passed(d, more) = b \div n
  BY DEF Passed
<1>. HIDE DEF n, a, b, c
<1>5. CASE d >= 0
  <2>1. 0 \div n <= a \div n /\ a \div n <= b \div n /\ b \div n <= c \div n
        /\ a \div n \in Int /\ b \div n \in Int
    BY <1>1, <1>2, <1>5, DivMonotone
  <2>. QED  BY <1>3, <1>4, <1>5, <2>1
<1>6. CASE d < 0
  <2>1. a \div n <= 0 \div n /\ b \div n <= a \div n /\ c \div n <= b \div n
        /\ a \div n \in Int /\ b \div n \in Int
    BY <1>1, <1>2, <1>6, DivMonotone
  <2>. QED  BY <1>3, <1>4, <1>6, <2>1
<1>. QED  BY <1>5, <1>6

Measured == Nat \cup {Unknown}

\* What is shown of a figure at one moment and at a later one.
LEMMA LerpFact ==
    ASSUME NEW from \in Measured, NEW to \in Measured,
           NEW late \in Nat, NEW more \in Nat, late <= more
    PROVE  /\ LerpNullable(from, to, late) = Unknown <=> to = Unknown
           /\ from = Unknown \/ late >= IntervalMs => LerpNullable(from, to, late) = to
           /\ from # Unknown /\ to # Unknown =>
                 Off(LerpNullable(from, to, late), from) + Off(LerpNullable(from, to, late), to)
                    = Off(from, to)
           /\ to # Unknown => Off(LerpNullable(from, to, more), to)
                                 <= Off(LerpNullable(from, to, late), to)
<1>. DEFINE d == to - from
            l == LerpNullable(from, to, late)
            m == LerpNullable(from, to, more)
            p == Passed(d, late)
            q == Passed(d, more)
<1>. SUFFICES /\ l = Unknown <=> to = Unknown
              /\ from = Unknown \/ late >= IntervalMs => l = to
              /\ from # Unknown /\ to # Unknown =>
                    Off(l, from) + Off(l, to) = Off(from, to)
              /\ to # Unknown => Off(m, to) <= Off(l, to)
  OBVIOUS
<1>1. IntervalMs \in Nat
  BY SampleAssumption
<1>2. CASE Unknown \in {from, to}
  <2>1. l = to /\ m = to
    BY <1>2 DEF LerpNullable
  <2>. HIDE DEF l, m
  <2>2. Off(to, to) = 0 /\ Off(m, to) = Off(l, to)
        /\ (to # Unknown => Off(m, to) = 0 /\ Off(l, to) = 0)
    <3>1. to \in Int
      BY DEF Measured, Unknown
    <3>. QED  BY <2>1, <3>1 DEF Off
  <2>. QED  BY <1>2, <2>1, <2>2
<1>3. CASE Unknown \notin {from, to}
  <2>1. from \in Nat /\ to \in Nat /\ d \in Int
    BY <1>3 DEF Measured
  <2>2. /\ l = IF late >= IntervalMs THEN to ELSE from + p
        /\ m = IF more >= IntervalMs THEN to ELSE from + q
    BY <1>3 DEF LerpNullable, Passed
  <2>3. late < IntervalMs => /\ p \in Int
                             /\ d >= 0 => 0 <= p /\ p <= d
                             /\ d < 0 => p <= 0 /\ d <= p
    BY <1>1, <2>1, PassedFact
  <2>4. more < IntervalMs => /\ q \in Int
                             /\ d >= 0 => p <= q /\ q <= d
                             /\ d < 0 => q <= p /\ d <= q
    BY <1>1, <2>1, PassedFact
  <2>. HIDE DEF l, m, p, q
  <2>5. CASE late >= IntervalMs
    <3>1. l = to /\ m = to
      BY <1>1, <2>2, <2>5
    <3>. QED  BY <2>1, <2>5, <3>1 DEF Unknown, Off
  <2>6. CASE late < IntervalMs
    <3>1. l = from + p /\ p \in Int /\ (d >= 0 => 0 <= p /\ p <= d)
          /\ (d < 0 => p <= 0 /\ d <= p)
      BY <1>1, <2>2, <2>3, <2>6
    <3>2. /\ l # Unknown /\ to # Unknown /\ from # Unknown
          /\ Off(l, from) + Off(l, to) = Off(from, to)
      BY <2>1, <3>1 DEF Unknown, Off
    <3>3. Off(m, to) <= Off(l, to)
      <4>1. CASE more >= IntervalMs
        <5>1. m = to
          BY <2>2, <4>1
        <5>. QED  BY <2>1, <3>1, <5>1 DEF Off
      <4>2. CASE more < IntervalMs
        <5>1. m = from + q /\ q \in Int /\ (d >= 0 => p <= q /\ q <= d)
              /\ (d < 0 => q <= p /\ d <= q)
          BY <1>1, <2>2, <2>4, <4>2
        <5>. QED  BY <2>1, <3>1, <5>1 DEF Off
      <4>. QED  BY <1>1, <4>1, <4>2
    <3>. QED  BY <1>1, <2>6, <3>2, <3>3
  <2>. QED  BY <1>1, <2>5, <2>6
<1>. QED  BY <1>2, <1>3

\* The figures of a snapshot.
Valued(s) == \A k \in DOMAIN s : \A m \in DOMAIN s[k] : s[k][m] \in Measured

LEMMA SnapshotsValued == \A s \in Snapshots : Valued(s)
<1>. SUFFICES ASSUME NEW s \in Snapshots PROVE Valued(s)
  OBVIOUS
<1>1. PICK groups \in SUBSET SampleGroups \ {{}},
           parent \in SampleGroups \cup {SampleChild},
           own \in Figures, known \in BOOLEAN :
        s = SnapshotOf(groups, parent, own, known)
  BY DEF Snapshots
<1>2. own \in Measured /\ Unknown \in Measured
  BY SampleAssumption DEF Measured
<1>. DEFINE members(k) == {k} \cup {c \in {SampleChild} : k = parent}
            figure(k, m) == IF m = k \/ known THEN own ELSE Unknown
<1>3. s = [k \in groups |-> [m \in members(k) |-> figure(k, m)]]
  BY <1>1 DEF SnapshotOf
<1>4. \A k, m : figure(k, m) \in Measured
  BY <1>2
<1>. HIDE DEF members, figure
<1>5. \A k \in groups : s[k] = [m \in members(k) |-> figure(k, m)]
  BY <1>3
<1>6. \A k \in groups : \A m \in members(k) : s[k][m] = figure(k, m)
  BY <1>5
<1>7. DOMAIN s = groups /\ \A k \in groups : DOMAIN s[k] = members(k)
  BY <1>3, <1>5
<1>. QED  BY <1>4, <1>6, <1>7 DEF Valued

FramesInv ==
    /\ Valued(previous) /\ Valued(current) /\ elapsed \in Nat
    /\ ~stale => frame = Sample(elapsed)

Basis == IF follows THEN previous ELSE NoSnapshots

\* A figure of a frame.
LEMMA SampleFact ==
    ASSUME Valued(previous), Valued(current), NEW late,
           NEW k \in DOMAIN current, NEW m \in DOMAIN current[k]
    PROVE  /\ Sample(late)[k][m] = LerpNullable(Prior(Basis, k, m), current[k][m], late)
           /\ Prior(Basis, k, m) \in Measured /\ current[k][m] \in Measured
           /\ LET known == /\ follows /\ k \in DOMAIN previous
                           /\ m \in DOMAIN previous[k] /\ previous[k][m] # Unknown
              IN  /\ ~known => Prior(Basis, k, m) = Unknown
                  /\ known => Prior(Basis, k, m) # Unknown
                              /\ Prior(Basis, k, m) = previous[k][m]
<1>1. Sample(late)[k][m] = LerpNullable(Prior(Basis, k, m), current[k][m], late)
  BY DEF Sample, Basis
<1>2. DOMAIN NoSnapshots = {} /\ Unknown \in Measured
  BY DEF NoSnapshots, Measured
<1>3. CASE follows
  BY <1>1, <1>2, <1>3 DEF Basis, Prior, Valued
<1>4. CASE ~follows
  BY <1>1, <1>2, <1>4 DEF Basis, Prior, Valued
<1>. QED  BY <1>3, <1>4

LEMMA SampleShape ==
    ASSUME NEW late
    PROVE  /\ DOMAIN Sample(late) = DOMAIN current
           /\ \A k \in DOMAIN current : DOMAIN Sample(late)[k] = DOMAIN current[k]
BY DEF Sample

LEMMA FaithfulFrames == FramesInv => (~stale => Faithful)
<1>. SUFFICES ASSUME FramesInv, ~stale PROVE Faithful
  OBVIOUS
<1>1. Valued(previous) /\ Valued(current) /\ elapsed \in Nat /\ frame = Sample(elapsed)
  BY DEF FramesInv
<1>2. ASSUME NEW k \in DOMAIN current, NEW m \in DOMAIN current[k]
      PROVE  LET to == current[k][m]
                 known == /\ follows /\ k \in DOMAIN previous
                          /\ m \in DOMAIN previous[k] /\ previous[k][m] # Unknown
             IN  /\ frame[k][m] = Unknown <=> to = Unknown
                 /\ ~known \/ elapsed >= IntervalMs => frame[k][m] = to
                 /\ known /\ to # Unknown =>
                       Off(frame[k][m], previous[k][m]) + Off(frame[k][m], to)
                          = Off(previous[k][m], to)
  <2>. DEFINE to == current[k][m]
              from == Prior(Basis, k, m)
              known == /\ follows /\ k \in DOMAIN previous
                       /\ m \in DOMAIN previous[k] /\ previous[k][m] # Unknown
              l == LerpNullable(from, to, elapsed)
  <2>1. /\ frame[k][m] = l /\ from \in Measured /\ to \in Measured
        /\ ~known => from = Unknown
        /\ known => from # Unknown /\ from = previous[k][m]
    BY <1>1, SampleFact
  <2>. HIDE DEF to, from, known
  <2>2. elapsed <= elapsed
    BY <1>1
  <2>3. /\ l = Unknown <=> to = Unknown
        /\ from = Unknown \/ elapsed >= IntervalMs => l = to
        /\ from # Unknown /\ to # Unknown => Off(l, from) + Off(l, to) = Off(from, to)
    BY <1>1, <2>1, <2>2, LerpFact
  <2>. HIDE DEF l
  <2>4. /\ frame[k][m] = Unknown <=> to = Unknown
        /\ ~known \/ elapsed >= IntervalMs => frame[k][m] = to
        /\ known /\ to # Unknown =>
              Off(frame[k][m], previous[k][m]) + Off(frame[k][m], to)
                 = Off(previous[k][m], to)
    BY <2>1, <2>3
  <2>. QED  BY <2>4 DEF to, known
<1>. QED  BY <1>1, <1>2, SampleShape DEF Faithful

LEMMA FramesApproach ==
    FramesInv /\ [SampleNext]_sampleVars => (~stale /\ ~stale' => Approaches)
<1>. SUFFICES ASSUME FramesInv, [SampleNext]_sampleVars, ~stale, ~stale'
              PROVE  Approaches
  OBVIOUS
<1>1. Valued(previous) /\ Valued(current) /\ elapsed \in Nat /\ frame = Sample(elapsed)
  BY DEF FramesInv
<1>2. \E late \in Nat : elapsed <= late /\ frame' = Sample(late)
  <2>1. CASE SampleTick
    <3>1. PICK late \in elapsed..MaxLate : frame' = Sample(late)
      BY <2>1 DEF SampleTick
    <3>2. late \in Nat /\ elapsed <= late
      BY <1>1, SampleAssumption
    <3>. QED  BY <3>1, <3>2
  <2>2. CASE UNCHANGED sampleVars
    BY <1>1, <2>2 DEF sampleVars
  <2>. QED  BY <2>1, <2>2 DEF SampleNext, SampleArrive, SampleClear
<1>3. PICK late \in Nat : elapsed <= late /\ frame' = Sample(late)
  BY <1>2
<1>4. ASSUME NEW k \in DOMAIN current, NEW m \in DOMAIN current[k],
             current[k][m] # Unknown
      PROVE  Off(frame'[k][m], current[k][m]) <= Off(frame[k][m], current[k][m])
  <2>. DEFINE to == current[k][m]
              from == Prior(Basis, k, m)
  <2>1. /\ frame[k][m] = LerpNullable(from, to, elapsed)
        /\ from \in Measured /\ to \in Measured
    BY <1>1, SampleFact
  <2>2. frame'[k][m] = LerpNullable(from, to, late)
    BY <1>1, <1>3, SampleFact
  <2>. HIDE DEF from
  <2>3. Off(LerpNullable(from, to, late), to) <= Off(LerpNullable(from, to, elapsed), to)
    BY <1>1, <1>3, <1>4, <2>1, LerpFact
  <2>. QED  BY <2>1, <2>2, <2>3
<1>. QED  BY <1>4 DEF Approaches

LEMMA FramesInit == SampleInit => FramesInv
<1>. SUFFICES ASSUME SampleInit PROVE FramesInv
  OBVIOUS
<1>1. previous = NoSnapshots /\ current = NoSnapshots /\ frame = NoSnapshots /\ elapsed = 0
  BY DEF SampleInit
<1>2. Valued(NoSnapshots)
  BY DEF NoSnapshots, Valued
<1>3. Sample(0) = NoSnapshots
  BY <1>1 DEF Sample, NoSnapshots
<1>. QED  BY <1>1, <1>2, <1>3 DEF FramesInv

LEMMA FramesStep == FramesInv /\ [SampleNext]_sampleVars => FramesInv'
<1>. SUFFICES ASSUME FramesInv, [SampleNext]_sampleVars PROVE FramesInv'
  OBVIOUS
<1>1. CASE SampleArrive
  BY <1>1, SnapshotsValued DEF SampleArrive, FramesInv
<1>2. CASE SampleClear
  <2>1. Valued(NoSnapshots)
    BY DEF NoSnapshots, Valued
  <2>. QED  BY <1>2, <2>1 DEF SampleClear, FramesInv
<1>3. CASE SampleTick
  <2>1. PICK late \in elapsed..MaxLate : elapsed' = late /\ frame' = Sample(late)
    BY <1>3 DEF SampleTick
  <2>2. UNCHANGED <<previous, current, follows>>
    BY <1>3 DEF SampleTick
  <2>3. Sample(late)' = Sample(late)
    BY <2>2 DEF Sample
  <2>4. late \in Nat
    BY <2>1, SampleAssumption DEF FramesInv
  <2>5. frame' = Sample(elapsed)'
    BY <2>1, <2>2 DEF Sample
  <2>. QED  BY <2>1, <2>2, <2>4, <2>5 DEF FramesInv
<1>4. CASE UNCHANGED sampleVars
  <2>1. Sample(elapsed)' = Sample(elapsed)
    BY <1>4 DEF Sample, sampleVars
  <2>. QED  BY <1>4, <2>1 DEF FramesInv, sampleVars
<1>. QED  BY <1>1, <1>2, <1>3, <1>4 DEF SampleNext

(***************************************************************************)
(* interpolator.ts - whatever comes between snapshots and whatever the     *)
(* figures: no frame shows one that is not between two of the same process *)
(* in the same group, by their keys, nor one that runs backwards.          *)
(***************************************************************************)
THEOREM FramesStayHonest == SampleSpec => SampleHonest
<1>1. SampleSpec => [](~stale => Faithful)
  BY FramesInit, FramesStep, FaithfulFrames, PTL DEF SampleSpec
<1>2. FramesInv /\ [SampleNext]_sampleVars => [~stale /\ ~stale' => Approaches]_sampleVars
  BY FramesApproach
<1>3. SampleSpec => [][~stale /\ ~stale' => Approaches]_sampleVars
  BY <1>2, FramesInit, FramesStep, PTL DEF SampleSpec
<1>. QED  BY <1>1, <1>3, PTL DEF SampleHonest

----------------------------------------------------------------------------
(***************************************************************************)
(* Labels.                                                                 *)
(***************************************************************************)
\* Of two names one precedes the other, and the order is transitive.
LEMMA PrecedesOrder ==
    ASSUME NEW visible, NEW big, NEW a \in Nat, NEW b \in Nat
    PROVE  /\ ~Precedes(a, a, visible, big)
           /\ a # b => Precedes(a, b, visible, big) \/ Precedes(b, a, visible, big)
BY DEF Precedes

LEMMA PrecedesTransitive ==
    ASSUME NEW visible, NEW big, NEW a \in Nat, NEW b \in Nat, NEW c \in Nat,
           Precedes(a, b, visible, big), Precedes(b, c, visible, big)
    PROVE  Precedes(a, c, visible, big)
BY DEF Precedes

\* Names are numbers.
Numbered(s) == s \subseteq Nat

\* The name that all others of s precede.
IsLast(k, s, visible, big) == k \in s /\ \A l \in s \ {k} : Precedes(l, k, visible, big)

LEMMA LastExists ==
    ASSUME NEW visible, NEW big, NEW s, IsFiniteSet(s), s # {}, Numbered(s)
    PROVE  \E k \in s : IsLast(k, s, visible, big)
<1>. DEFINE R == {p \in s \X s : Precedes(p[1], p[2], visible, big)}
<1>1. \A a, b \in s : <<a, b>> \in R <=> Precedes(a, b, visible, big)
  OBVIOUS
<1>. HIDE DEF R
<1>2. \A a, b \in s : <<a, a>> \notin R /\ (a # b => <<a, b>> \in R \/ <<b, a>> \in R)
  BY <1>1, PrecedesOrder DEF Numbered
<1>3. \A a, b, c \in s : <<a, b>> \in R /\ <<b, c>> \in R => <<a, c>> \in R
  BY <1>1, PrecedesTransitive DEF Numbered
<1>4. OrderOn(s, R)
  BY <1>2, <1>3 DEF OrderOn
<1>5. \E k \in s : \A l \in s \ {k} : <<l, k>> \in R
  BY <1>4, LastOfOrder
<1>. QED  BY <1>1, <1>5 DEF IsLast

----------------------------------------------------------------------------
\* accepted places the names of every subset of names, the last one at last.
LastOf(names, visible, big) ==
    [s \in SUBSET names |-> CHOOSE k \in s : \A l \in s \ {k} : Precedes(l, k, visible, big)]

Places(accepted, names, last, clash) ==
    accepted = [s \in SUBSET names |->
                  IF s = {} THEN {} ELSE Joined(accepted[s \ {last[s]}], last[s], clash)]

LEMMA LastFact ==
    ASSUME NEW visible, NEW big, NEW names, IsFiniteSet(names), Numbered(names),
           NEW s \in SUBSET names, s # {}
    PROVE  /\ IsLast(LastOf(names, visible, big)[s], s, visible, big)
           /\ LastOf(names, visible, big)[s] \in s
           /\ s \ {LastOf(names, visible, big)[s]} \in SUBSET names
<1>1. \E k \in s : IsLast(k, s, visible, big)
  <2>1. Numbered(s) /\ IsFiniteSet(s)
    BY FS_Subset DEF Numbered
  <2>. QED  BY <2>1, LastExists
<1>2. LastOf(names, visible, big)[s]
         = CHOOSE k \in s : \A l \in s \ {k} : Precedes(l, k, visible, big)
  BY DEF LastOf
<1>. QED  BY <1>1, <1>2 DEF IsLast

\* The names can be placed, however many.
LEMMA PlacesExists ==
    ASSUME NEW names, IsFiniteSet(names), NEW last, NEW clash,
           \A s \in SUBSET names : s # {} => last[s] \in s
    PROVE  \E accepted : Places(accepted, names, last, clash)
<1>. DEFINE V == SUBSET names
            none == {}
            G == [p \in V \X names |-> Joined(p[1], p[2], clash)]
<1>1. G \in [V \X names -> V] /\ none \in V
  BY DEF Joined
<1>2. \A a \in V, k \in names : G[<<a, k>>] = Joined(a, k, clash)
  OBVIOUS
<1>. HIDE DEF G, V, none
<1>3. PICK f \in [SUBSET names -> V] : TakesLast(f, none, G, last, names)
  BY <1>1, SubsetRecursion
<1>4. ASSUME NEW s \in SUBSET names
      PROVE  f[s] = IF s = {} THEN {} ELSE Joined(f[s \ {last[s]}], last[s], clash)
  <2>1. f[s] = IF s = {} THEN none ELSE G[<<f[s \ {last[s]}], last[s]>>]
    BY <1>3 DEF TakesLast
  <2>2. ASSUME s # {} PROVE G[<<f[s \ {last[s]}], last[s]>>]
                             = Joined(f[s \ {last[s]}], last[s], clash)
    <3>1. last[s] \in names /\ s \ {last[s]} \in SUBSET names
      BY <2>2
    <3>. QED  BY <1>2, <1>3, <3>1
  <2>. QED  BY <2>1, <2>2 DEF none
<1>5. Places(f, names, last, clash)
  <2>1. f = [s \in SUBSET names |-> f[s]]
    BY <1>3
  <2>2. [s \in SUBSET names |-> f[s]]
          = [s \in SUBSET names |->
               IF s = {} THEN {} ELSE Joined(f[s \ {last[s]}], last[s], clash)]
    BY <1>4
  <2>. QED  BY <2>1, <2>2 DEF Places
<1>. QED  BY <1>5

LEMMA PlacesStep ==
    ASSUME NEW names, NEW last, NEW clash, NEW accepted, Places(accepted, names, last, clash),
           NEW s \in SUBSET names
    PROVE  accepted[s] = IF s = {} THEN {} ELSE Joined(accepted[s \ {last[s]}], last[s], clash)
<1>. DEFINE place == [t \in SUBSET names |->
                        IF t = {} THEN {} ELSE Joined(accepted[t \ {last[t]}], last[t], clash)]
<1>1. accepted = place
  BY DEF Places
<1>2. place[s] = IF s = {} THEN {} ELSE Joined(accepted[s \ {last[s]}], last[s], clash)
  OBVIOUS
<1>. HIDE DEF place
<1>3. accepted[s] = place[s]
  BY <1>1
<1>. QED  BY <1>2, <1>3

LEMMA PlaceLabelsFact ==
    ASSUME NEW visible, NEW big, NEW clash, NEW names, IsFiniteSet(names), Numbered(names)
    PROVE  \E accepted : /\ Places(accepted, names, LastOf(names, visible, big), clash)
                         /\ PlaceLabels(names, visible, big, clash) = accepted[names]
<1>. DEFINE last == LastOf(names, visible, big)
            all == CHOOSE accepted : Places(accepted, names, last, clash)
<1>1. \E accepted : Places(accepted, names, last, clash)
  <2>1. \A s \in SUBSET names : s # {} => last[s] \in s
    BY LastFact
  <2>. HIDE DEF last
  <2>. QED  BY <2>1, PlacesExists
<1>2. Places(all, names, last, clash)
  BY <1>1
<1>3. PlaceLabels(names, visible, big, clash) = all[names]
  BY DEF PlaceLabels, LastOf, Places
<1>. QED  BY <1>2, <1>3

\* Of s those in a are placed: no two of them clash, and each of the others
\* clashes with one that precedes it.
WellPlaced(a, s, visible, big, clash) ==
    /\ a \subseteq s
    /\ \A k, l \in a : k # l => {k, l} \notin clash
    /\ \A k \in s \ a : \E l \in a : {k, l} \in clash /\ Precedes(l, k, visible, big)

LEMMA JoinedWell ==
    ASSUME NEW visible, NEW big, NEW clash, NEW s, NEW a, NEW k, IsLast(k, s, visible, big),
           WellPlaced(a, s \ {k}, visible, big, clash)
    PROVE  WellPlaced(Joined(a, k, clash), s, visible, big, clash)
<1>1. CASE \E l \in a : {k, l} \in clash
  <2>1. Joined(a, k, clash) = a
    BY <1>1 DEF Joined
  <2>2. \A l \in a : Precedes(l, k, visible, big)
    BY DEF WellPlaced, IsLast
  <2>3. WellPlaced(a, s, visible, big, clash)
    <3>1. a \subseteq s
      BY DEF WellPlaced
    <3>2. ASSUME NEW m \in s \ a
          PROVE  \E l \in a : {m, l} \in clash /\ Precedes(l, m, visible, big)
      <4>1. CASE m = k
        BY <1>1, <2>2, <4>1
      <4>2. CASE m # k
        BY <3>2, <4>2 DEF WellPlaced
      <4>. QED  BY <4>1, <4>2
    <3>. QED  BY <3>1, <3>2 DEF WellPlaced
  <2>. QED  BY <2>1, <2>3
<1>2. CASE ~\E l \in a : {k, l} \in clash
  <2>1. Joined(a, k, clash) = a \cup {k}
    BY <1>2 DEF Joined
  <2>2. \A l \in a : {k, l} \notin clash /\ {l, k} = {k, l}
    BY <1>2
  <2>3. \A m, l \in a \cup {k} : m # l => {m, l} \notin clash
    BY <2>2 DEF WellPlaced
  <2>. QED  BY <2>1, <2>3 DEF WellPlaced, IsLast
<1>. QED  BY <1>1, <1>2

\* placeLabels keeps what precedes: nothing it places overlaps, and what it
\* leaves out overlaps something placed before it.
LEMMA PlaceLabelsWell ==
    ASSUME NEW visible, NEW big, NEW clash, NEW names, IsFiniteSet(names), Numbered(names)
    PROVE  WellPlaced(PlaceLabels(names, visible, big, clash), names, visible, big, clash)
<1>. DEFINE last == LastOf(names, visible, big)
<1>1. PICK accepted : /\ Places(accepted, names, last, clash)
                      /\ PlaceLabels(names, visible, big, clash) = accepted[names]
  BY PlaceLabelsFact
<1>2. \A s \in SUBSET names : s # {} => /\ IsLast(last[s], s, visible, big)
                                        /\ last[s] \in s /\ s \ {last[s]} \in SUBSET names
  BY LastFact
<1>. HIDE DEF last
<1>3. \A s \in SUBSET names :
         accepted[s] = IF s = {} THEN {} ELSE Joined(accepted[s \ {last[s]}], last[s], clash)
  <2>1. Places(accepted, names, last, clash)
    BY <1>1
  <2>2. SUFFICES ASSUME NEW s \in SUBSET names
                 PROVE  accepted[s] = IF s = {} THEN {}
                                      ELSE Joined(accepted[s \ {last[s]}], last[s], clash)
    OBVIOUS
  <2>. QED  BY <2>1, PlacesStep
<1>. DEFINE Well(s) == WellPlaced(accepted[s], s, visible, big, clash)
            T == {s \in SUBSET names : ~Well(s)}
<1>4. T = {}
  <2>1. SUFFICES ASSUME T # {} PROVE FALSE
    OBVIOUS
  <2>2. PICK s \in T : \A t \in T : t \subseteq s => t = s
    <3>1. T \in SUBSET (SUBSET names)
      OBVIOUS
    <3>2. \A X \in SUBSET (SUBSET names) :
             X # {} => \E s \in X : \A t \in X : t \subseteq s => t = s
      BY LeastSubset
    <3>. HIDE DEF T
    <3>. QED  BY <2>1, <3>1, <3>2
  <2>3. s \in SUBSET names /\ ~Well(s)
    BY <2>2
  <2>4. s # {}
    BY <1>3, <2>3 DEF WellPlaced
  <2>5. Well(s \ {last[s]})
    <3>1. s \ {last[s]} \in SUBSET names /\ s \ {last[s]} \subseteq s /\ s \ {last[s]} # s
      BY <1>2, <2>3, <2>4
    <3>. HIDE DEF Well
    <3>. QED  BY <2>2, <3>1
  <2>6. accepted[s] = Joined(accepted[s \ {last[s]}], last[s], clash)
    BY <1>3, <2>3, <2>4
  <2>7. IsLast(last[s], s, visible, big)
    BY <1>2, <2>3, <2>4
  <2>8. Well(s)
    BY <2>5, <2>6, <2>7, JoinedWell
  <2>. QED  BY <2>3, <2>8
<1>5. Well(names)
  BY <1>4
<1>. QED  BY <1>1, <1>5

----------------------------------------------------------------------------
LabelInv == LabelTypeOK /\ LabelsClear

LEMMA TwoOfPair ==
    ASSUME NEW s, IsFiniteSet(s), NEW c \in Pairs(s)
    PROVE  \E k, l \in c : k # l /\ c = {k, l} /\ c \subseteq s
<1>1. c \subseteq s /\ Cardinality(c) = 2
  BY DEF Pairs, kSubset
<1>2. IsFiniteSet(c)
  BY <1>1, FS_Subset
<1>3. c # {}
  BY <1>1, FS_EmptySet
<1>4. PICK k \in c : TRUE
  BY <1>3
<1>5. IsFiniteSet(c \ {k}) /\ Cardinality(c \ {k}) = 1
  BY <1>1, <1>2, FS_RemoveElement
<1>6. PICK l : c \ {k} = {l}
  BY <1>5, FS_Singleton
<1>. QED  BY <1>1, <1>6

\* With the names in a shown, what LabelsClear and VisibleStays say of them.
KeptClear(a, names, visible, clash) ==
    /\ a \subseteq names
    /\ \A c \in clash : ~(c \subseteq a)
    /\ \A k \in names \ a : \E l \in a : {k, l} \in clash
    /\ \A k \in (visible \cap names) \ a : \E l \in visible \cap a : {k, l} \in clash

\* Of the names that are placed none overlaps another, and one that was
\* visible makes room only for one that was, too.
LEMMA PlacedClear ==
    ASSUME NEW visible, NEW big, NEW names, IsFiniteSet(names),
           NEW clash, clash \subseteq Pairs(names), NEW a, WellPlaced(a, names, visible, big, clash)
    PROVE  KeptClear(a, names, visible, clash)
<1>1. ASSUME NEW c \in clash, c \subseteq a PROVE FALSE
  <2>1. PICK k, l \in c : k # l /\ c = {k, l} /\ c \subseteq names
    BY TwoOfPair
  <2>. QED  BY <1>1, <2>1 DEF WellPlaced
<1>2. ASSUME NEW k \in (visible \cap names) \ a
      PROVE  \E l \in visible \cap a : {k, l} \in clash
  <2>1. PICK l \in a : {k, l} \in clash /\ Precedes(l, k, visible, big)
    BY <1>2 DEF WellPlaced
  <2>2. l \in visible
    BY <1>2, <2>1 DEF Precedes
  <2>. QED  BY <2>1, <2>2
<1>. QED  BY <1>1, <1>2 DEF WellPlaced, KeptClear

LEMMA LabelInitInv == LabelInit => LabelInv
BY DEF LabelInit, LabelInv, LabelTypeOK, LabelsClear, Nobody

LEMMA LabelCommitStep ==
    ASSUME LabelInv, LabelCommit
    PROVE  LabelInv' /\ VisibleStays
BY DEF LabelInv, LabelCommit, LabelTypeOK, LabelsClear, VisibleStays

LEMMA BoxMountedStep ==
    ASSUME LabelInv, NEW k \in Names, BoxMounted(k)
    PROVE  LabelInv' /\ VisibleStays
BY DEF LabelInv, BoxMounted, LabelTypeOK, LabelsClear, VisibleStays

\* A frame that places these names of the list next.
Shows(next, names, ahead, big, clash) ==
    LET ready == next \cap boxes
        visible == IF ahead THEN PlaceLabels(names, shown, big, clash) ELSE {}
    IN  /\ list' = next
        /\ displayed' = (displayed \ ready) \cup visible
        /\ shown' = Remembered(shown \ ready, next) \cup visible
        /\ placed' = IF ahead THEN [names |-> names, clash |-> clash] ELSE Nobody
        /\ UNCHANGED <<anchors, boxes>>

\* What was displayed of the list is what the frame hides first: after it the
\* names displayed of the new list are those it places.
LEMMA LabelFrameStep ==
    ASSUME LabelInv, LabelFrame
    PROVE  LabelInv' /\ VisibleStays
<1>1. PICK ring \in SUBSET Names : \E names \in SUBSET (LabelKeys(ring) \cap boxes) :
         \E ahead \in BOOLEAN, big \in SUBSET names, clash \in SUBSET Pairs(names) :
           Shows(LabelKeys(ring), names, ahead, big, clash)
  BY DEF LabelFrame, Shows
<1>2. PICK names \in SUBSET (LabelKeys(ring) \cap boxes) :
         \E ahead \in BOOLEAN, big \in SUBSET names, clash \in SUBSET Pairs(names) :
           Shows(LabelKeys(ring), names, ahead, big, clash)
  BY <1>1
<1>3. PICK ahead \in BOOLEAN, big \in SUBSET names, clash \in SUBSET Pairs(names) :
           Shows(LabelKeys(ring), names, ahead, big, clash)
  BY <1>2
<1>. DEFINE next == LabelKeys(ring)
            visible == IF ahead THEN PlaceLabels(names, shown, big, clash) ELSE {}
<1>4. next \subseteq Names
  BY DEF LabelKeys
<1>5. names \in SUBSET Names /\ names \subseteq next \cap boxes
  BY <1>4
<1>6. IsFiniteSet(names) /\ Numbered(names)
  BY <1>5, LabelAssumption, FS_Subset DEF Numbered
<1>7. WellPlaced(PlaceLabels(names, shown, big, clash), names, shown, big, clash)
  BY <1>6, PlaceLabelsWell
<1>8. KeptClear(PlaceLabels(names, shown, big, clash), names, shown, clash)
  BY <1>6, <1>7, PlacedClear
<1>9. visible \subseteq names
  BY <1>8 DEF KeptClear
<1>10. /\ list' = next /\ displayed' = (displayed \ (next \cap boxes)) \cup visible
       /\ shown' = Remembered(shown \ (next \cap boxes), next) \cup visible
       /\ placed' = IF ahead THEN [names |-> names, clash |-> clash] ELSE Nobody
       /\ anchors' = anchors /\ boxes' = boxes
  BY <1>3 DEF Shows
<1>11. ahead => visible = PlaceLabels(names, shown, big, clash)
  OBVIOUS
<1>. HIDE DEF next, visible
<1>12. shown' = visible /\ shown' = displayed' \cap list'
  BY <1>5, <1>9, <1>10 DEF Remembered, LabelInv, LabelTypeOK, LabelsClear
<1>13. LabelTypeOK'
  BY <1>4, <1>5, <1>9, <1>10, <1>12 DEF LabelInv, LabelTypeOK, Nobody
<1>14. CASE ahead
  <2>1. placed'.names = names /\ placed'.clash = clash /\ KeptClear(shown', names, shown, clash)
    BY <1>8, <1>10, <1>11, <1>12, <1>14
  <2>. QED  BY <1>12, <1>13, <2>1 DEF LabelInv, LabelsClear, VisibleStays, KeptClear
<1>15. CASE ~ahead
  <2>1. placed'.names = {} /\ placed'.clash = {}
    BY <1>10, <1>15 DEF Nobody
  <2>. QED  BY <1>12, <1>13, <2>1 DEF LabelInv, LabelsClear, VisibleStays
<1>. QED  BY <1>14, <1>15

LEMMA LabelNextInv ==
    ASSUME LabelInv, [LabelNext]_labelVars
    PROVE  LabelInv' /\ [LabelsClear' /\ VisibleStays]_labelVars
<1>1. CASE LabelCommit
  BY <1>1, LabelCommitStep DEF LabelInv
<1>2. CASE LabelFrame
  BY <1>2, LabelFrameStep DEF LabelInv
<1>3. CASE \E k \in Names : BoxMounted(k)
  BY <1>3, BoxMountedStep DEF LabelInv
<1>4. CASE UNCHANGED labelVars
  BY <1>4 DEF LabelInv, LabelTypeOK, LabelsClear, labelVars
<1>. QED  BY <1>1, <1>2, <1>3, <1>4 DEF LabelNext

\* Names of bodies never overlap, what is left out overlaps something shown,
\* and one that was visible is put aside only by one that was, too, whatever
\* React mounts late and however the bodies move: useFrame of BodyLabels.tsx,
\* placeLabels of labelPlacement.ts.
THEOREM LabelsStayCalm == LabelSpec => LabelsCalm
BY LabelInitInv, LabelNextInv, PTL DEF LabelSpec, LabelsCalm

----------------------------------------------------------------------------
(***************************************************************************)
(* Bursts.                                                                 *)
(***************************************************************************)
\* What has a count and a time left: a burst, and the measure of one.
Measure == [count : Nat, left : Nat]
Counted(S) == \A b \in S : b.count \in Nat /\ b.left \in Nat

LEMMA CountedFact == Counted(Burst) /\ Counted(Measure)
BY DEF Counted, Burst, Measure

\* The ends of a sequence.
LEMMA FromFact ==
    ASSUME NEW S, NEW s \in Seq(S), NEW i \in 1..Len(s) + 1
    PROVE  /\ From(s, i) \in Seq(S) /\ Len(From(s, i)) = Len(s) + 1 - i
           /\ \A j \in 1..Len(s) + 1 - i : From(s, i)[j] = s[i + j - 1]
<1>1. Len(s) \in Nat /\ \A j \in i..Len(s) : s[j] \in S
  BY LenProperties, ElementOfSeq
<1>2. /\ SubSeq(s, i, Len(s)) \in Seq(S)
      /\ Len(SubSeq(s, i, Len(s))) = IF i <= Len(s) THEN Len(s) - i + 1 ELSE 0
      /\ \A j \in 1..Len(s) - i + 1 : SubSeq(s, i, Len(s))[j] = s[i + j - 1]
  BY <1>1, SubSeqProperties
<1>. QED  BY <1>1, <1>2 DEF From

LEMMA FromAll ==
    ASSUME NEW S, NEW s \in Seq(S)
    PROVE  From(s, 1) = s
BY SubSeqFull DEF From

LEMMA FromFrom ==
    ASSUME NEW S, NEW s \in Seq(S), NEW i \in 1..Len(s) + 1, NEW j \in 1..Len(s) + 2 - i
    PROVE  From(From(s, i), j) = From(s, i + j - 1) /\ i + j - 1 \in 1..Len(s) + 1
<1>1. Len(s) \in Nat /\ i + j - 1 \in 1..Len(s) + 1
  BY LenProperties
<1>2. /\ From(s, i) \in Seq(S) /\ Len(From(s, i)) = Len(s) + 1 - i
      /\ \A k \in 1..Len(s) + 1 - i : From(s, i)[k] = s[i + k - 1]
  BY FromFact
<1>3. j \in 1..Len(From(s, i)) + 1
  BY <1>1, <1>2
<1>. DEFINE t == From(s, i)
            u == From(t, j)
            v == From(s, i + j - 1)
<1>4. /\ u \in Seq(S) /\ Len(u) = Len(t) + 1 - j
      /\ \A k \in 1..Len(t) + 1 - j : u[k] = t[j + k - 1]
  BY <1>2, <1>3, FromFact
<1>5. /\ v \in Seq(S) /\ Len(v) = Len(s) + 1 - (i + j - 1)
      /\ \A k \in 1..Len(s) + 1 - (i + j - 1) : v[k] = s[(i + j - 1) + k - 1]
  BY <1>1, FromFact
<1>. HIDE DEF t, u, v
<1>6. Len(t) = Len(s) + 1 - i /\ \A k \in 1..Len(s) + 1 - i : t[k] = s[i + k - 1]
  BY <1>2 DEF t
<1>7. Len(u) = Len(v)
  BY <1>1, <1>4, <1>5, <1>6
<1>8. ASSUME NEW k \in 1..Len(u) PROVE u[k] = v[k]
  <2>1. u[k] = t[j + k - 1] /\ v[k] = s[(i + j - 1) + k - 1]
    BY <1>1, <1>4, <1>5, <1>6
  <2>2. j + k - 1 \in 1..Len(s) + 1 - i /\ i + (j + k - 1) - 1 = (i + j - 1) + k - 1
    BY <1>1, <1>4, <1>6
  <2>. QED  BY <1>6, <2>1, <2>2
<1>9. u = v
  BY <1>4, <1>5, <1>7, <1>8, SeqEqual
<1>. QED  BY <1>1, <1>9 DEF t, u, v

LEMMA FromAppend ==
    ASSUME NEW S, NEW s \in Seq(S), NEW b \in S, NEW i \in 1..Len(s) + 1
    PROVE  From(Append(s, b), i) = Append(From(s, i), b)
<1>. DEFINE t == Append(s, b)
            f == From(s, i)
            u == From(t, i)
            v == Append(f, b)
<1>1. Len(s) \in Nat
  BY LenProperties
<1>2. /\ t \in Seq(S) /\ Len(t) = Len(s) + 1
      /\ \A j \in 1..Len(s) : t[j] = s[j]
      /\ t[Len(s) + 1] = b
  BY AppendProperties
<1>3. /\ f \in Seq(S) /\ Len(f) = Len(s) + 1 - i
      /\ \A j \in 1..Len(s) + 1 - i : f[j] = s[i + j - 1]
  BY FromFact
<1>. HIDE DEF t, f
<1>4. i \in 1..Len(t) + 1
  BY <1>1, <1>2
<1>5. /\ u \in Seq(S) /\ Len(u) = Len(t) + 1 - i
      /\ \A j \in 1..Len(t) + 1 - i : u[j] = t[i + j - 1]
  BY <1>2, <1>4, FromFact
<1>6. /\ v \in Seq(S) /\ Len(v) = Len(f) + 1
      /\ \A j \in 1..Len(f) : v[j] = f[j]
      /\ v[Len(f) + 1] = b
  BY <1>3, AppendProperties
<1>. HIDE DEF u, v
<1>7. Len(u) = Len(v)
  BY <1>1, <1>2, <1>3, <1>5, <1>6
<1>8. ASSUME NEW j \in 1..Len(u) PROVE u[j] = v[j]
  <2>1. u[j] = t[i + j - 1]
    BY <1>5
  <2>2. CASE j <= Len(f)
    <3>1. j \in 1..Len(f) /\ i + j - 1 \in 1..Len(s)
      BY <1>1, <1>3, <2>2
    <3>. QED  BY <1>2, <1>3, <1>6, <2>1, <3>1
  <2>3. CASE j = Len(f) + 1
    <3>1. i + j - 1 = Len(s) + 1
      BY <1>1, <1>3, <2>3
    <3>. QED  BY <1>2, <1>6, <2>1, <2>3, <3>1
  <2>. QED  BY <1>1, <1>2, <1>3, <1>5, <2>2, <2>3
<1>9. u = v
  BY <1>5, <1>6, <1>7, <1>8, SeqEqual
<1>. QED  BY <1>9 DEF t, f, u, v

----------------------------------------------------------------------------
\* f sums up the counts of s.
Tally(f, s) == /\ f[0] = 0 /\ \A i \in 1..Len(s) : f[i] = f[i - 1] + s[i].count
               /\ \A i \in 0..Len(s) : f[i] \in Nat

SumsUp(f, s) ==
    f = [i \in 0..Len(s) |-> IF i = 0 THEN 0 ELSE f[i - 1] + s[i].count]

LEMMA SumsUpTally ==
    ASSUME NEW S, Counted(S), NEW s \in Seq(S), NEW f, SumsUp(f, s)
    PROVE  Tally(f, s)
<1>1. Len(s) \in Nat /\ \A i \in 1..Len(s) : s[i].count \in Nat
  BY LenProperties, ElementOfSeq DEF Counted
<1>. DEFINE h == [i \in 0..Len(s) |-> IF i = 0 THEN 0 ELSE f[i - 1] + s[i].count]
<1>2. f = h
  BY DEF SumsUp
<1>3. h[0] = 0 /\ \A i \in 1..Len(s) : h[i] = f[i - 1] + s[i].count
  BY <1>1
<1>. HIDE DEF h
<1>4. f[0] = 0 /\ \A i \in 1..Len(s) : f[i] = f[i - 1] + s[i].count
  BY <1>2, <1>3
<1>. DEFINE P == {i \in 0..Len(s) : f[i] \in Nat}
<1>5. 0 \in P /\ \A i \in 0..Len(s) - 1 : i \in P => i + 1 \in P
  <2>1. ASSUME NEW i \in 0..Len(s) - 1, f[i] \in Nat PROVE f[i + 1] \in Nat /\ i + 1 \in 0..Len(s)
    <3>1. i + 1 \in 1..Len(s) /\ (i + 1) - 1 = i
      BY <1>1
    <3>. QED  BY <1>1, <1>4, <2>1, <3>1
  <2>. QED  BY <1>1, <1>4, <2>1
<1>6. \A i \in 0..Len(s) : i \in P
  <2>. HIDE DEF P
  <2>. QED  BY <1>1, <1>5, UpTo
<1>. QED  BY <1>4, <1>6 DEF Tally

LEMMA UsedFact ==
    ASSUME NEW S, Counted(S), NEW s \in Seq(S)
    PROVE  \E f : Tally(f, s) /\ Used(s) = f[Len(s)]
<1>1. Len(s) \in Nat /\ \A i \in 1..Len(s) : s[i].count \in Nat
  BY LenProperties, ElementOfSeq DEF Counted
<1>. DEFINE G == [p \in (1..Len(s)) \X Nat |-> p[2] + s[p[1]].count]
            all == CHOOSE f : SumsUp(f, s)
<1>2. G \in [(1..Len(s)) \X Nat -> Nat]
  BY <1>1
<1>3. \A i \in 1..Len(s), m \in Nat : G[<<i, m>>] = m + s[i].count
  OBVIOUS
<1>. HIDE DEF G
<1>4. PICK f \in [0..Len(s) -> Nat] : Recurs(f, 0, G, Len(s))
  <2>1. 0 \in Nat
    OBVIOUS
  <2>. QED  BY <1>1, <1>2, <2>1, RecursionExists
<1>5. ASSUME NEW i \in 1..Len(s) PROVE f[i] = f[i - 1] + s[i].count
  <2>1. i - 1 \in 0..Len(s)
    BY <1>1
  <2>2. f[i - 1] \in Nat
    BY <2>1
  <2>. QED  BY <1>3, <1>4, <2>2 DEF Recurs
<1>6. SumsUp(f, s)
  <2>1. f[0] = 0
    BY <1>4 DEF Recurs
  <2>2. \A i \in 0..Len(s) : f[i] = IF i = 0 THEN 0 ELSE f[i - 1] + s[i].count
    BY <1>1, <1>5, <2>1
  <2>. QED  BY <2>2 DEF SumsUp
<1>7. SumsUp(all, s)
  BY <1>6
<1>8. Used(s) = all[Len(s)]
  BY DEF Used, SumsUp
<1>. HIDE DEF all
<1>. QED  BY <1>7, <1>8, SumsUpTally

\* Equal counts have equal sums.
LEMMA TallySame ==
    ASSUME NEW f, NEW g, NEW s, NEW t, Tally(f, s), Tally(g, t),
           NEW n, n \in Nat, Len(s) \in Nat, Len(t) \in Nat, n <= Len(s), n <= Len(t),
           \A i \in 1..n : s[i].count = t[i].count
    PROVE  f[n] = g[n]
<1>. DEFINE P == {i \in 0..n : f[i] = g[i]}
<1>1. 0 \in P
  BY DEF Tally
<1>2. ASSUME NEW i \in 0..n - 1, i \in P PROVE i + 1 \in P
  <2>1. i + 1 \in 1..n /\ i + 1 \in 1..Len(s) /\ i + 1 \in 1..Len(t) /\ (i + 1) - 1 = i
    BY <1>2
  <2>2. f[i + 1] = f[i] + s[i + 1].count /\ g[i + 1] = g[i] + t[i + 1].count
    BY <2>1 DEF Tally
  <2>. QED  BY <1>2, <2>1, <2>2
<1>3. n \in 0..n
  OBVIOUS
<1>4. n \in P
  <2>. HIDE DEF P
  <2>. QED  BY <1>1, <1>2, <1>3, UpTo
<1>. QED  BY <1>4

LEMMA UsedType ==
    ASSUME NEW S, Counted(S), NEW s \in Seq(S)
    PROVE  Used(s) \in Nat
<1>1. Len(s) \in Nat
  BY LenProperties
<1>. QED  BY <1>1, UsedFact DEF Tally

LEMMA UsedSame ==
    ASSUME NEW S, Counted(S), NEW T, Counted(T), NEW s \in Seq(S), NEW t \in Seq(T),
           Len(s) = Len(t), \A i \in 1..Len(s) : s[i].count = t[i].count
    PROVE  Used(s) = Used(t)
<1>1. Len(s) \in Nat /\ Len(t) \in Nat
  BY LenProperties
<1>2. PICK f : Tally(f, s) /\ Used(s) = f[Len(s)]
  BY UsedFact
<1>3. PICK g : Tally(g, t) /\ Used(t) = g[Len(t)]
  BY UsedFact
<1>4. f[Len(s)] = g[Len(s)]
  <2>1. Len(s) <= Len(s) /\ Len(s) <= Len(t)
    BY <1>1
  <2>. QED  BY <1>1, <1>2, <1>3, <2>1, TallySame
<1>. QED  BY <1>2, <1>3, <1>4

LEMMA UsedEmpty == Used(<<>>) = 0
<1>1. <<>> \in Seq(Measure) /\ Len(<<>>) = 0
  OBVIOUS
<1>2. PICK f : Tally(f, <<>>) /\ Used(<<>>) = f[Len(<<>>)]
  BY <1>1, CountedFact, UsedFact
<1>. QED  BY <1>1, <1>2 DEF Tally

LEMMA UsedAppend ==
    ASSUME NEW S, Counted(S), NEW s \in Seq(S), NEW b \in S
    PROVE  Used(Append(s, b)) = Used(s) + b.count
<1>. DEFINE t == Append(s, b)
<1>1. /\ t \in Seq(S) /\ Len(t) = Len(s) + 1 /\ Len(s) \in Nat
      /\ \A j \in 1..Len(s) : t[j] = s[j]
      /\ t[Len(s) + 1] = b
  BY AppendProperties, LenProperties
<1>. HIDE DEF t
<1>2. PICK f : Tally(f, s) /\ Used(s) = f[Len(s)]
  BY UsedFact
<1>3. PICK g : Tally(g, t) /\ Used(t) = g[Len(t)]
  BY <1>1, UsedFact
<1>4. f[Len(s)] = g[Len(s)]
  <2>1. Len(s) <= Len(s) /\ Len(s) <= Len(t) /\ Len(t) \in Nat
    BY <1>1
  <2>2. \A i \in 1..Len(s) : s[i].count = t[i].count
    BY <1>1
  <2>. QED  BY <1>1, <1>2, <1>3, <2>1, <2>2, TallySame
<1>5. Len(s) + 1 \in 1..Len(t) /\ (Len(s) + 1) - 1 = Len(s)
  BY <1>1
<1>6. g[Len(s) + 1] = g[Len(s)] + t[Len(s) + 1].count
  BY <1>3, <1>5 DEF Tally
<1>. QED  BY <1>1, <1>2, <1>3, <1>4, <1>6 DEF t

----------------------------------------------------------------------------
LEMMA MeasuresFact ==
    ASSUME NEW S, Counted(S), NEW s \in Seq(S)
    PROVE  /\ Measures(s) \in Seq(Measure) /\ Len(Measures(s)) = Len(s)
           /\ \A i \in 1..Len(s) : Measures(s)[i] = [count |-> s[i].count, left |-> s[i].left]
<1>1. Len(s) \in Nat /\ DOMAIN s = 1..Len(s) /\ \A i \in 1..Len(s) : s[i] \in S
  BY LenProperties, ElementOfSeq
<1>2. Measures(s) = [i \in 1..Len(s) |-> [count |-> s[i].count, left |-> s[i].left]]
  BY <1>1 DEF Measures
<1>3. \A i \in 1..Len(s) : [count |-> s[i].count, left |-> s[i].left] \in Measure
  BY <1>1 DEF Counted, Measure
<1>. QED  BY <1>1, <1>2, <1>3

LEMMA MeasuresAppend ==
    ASSUME NEW S, Counted(S), NEW s \in Seq(S), NEW b \in S
    PROVE  Measures(Append(s, b)) = Append(Measures(s), [count |-> b.count, left |-> b.left])
<1>. DEFINE t == Append(s, b)
            m == [count |-> b.count, left |-> b.left]
            u == Measures(t)
            v == Append(Measures(s), m)
<1>1. /\ t \in Seq(S) /\ Len(t) = Len(s) + 1 /\ Len(s) \in Nat
      /\ \A j \in 1..Len(s) : t[j] = s[j]
      /\ t[Len(s) + 1] = b
  BY AppendProperties, LenProperties
<1>2. m \in Measure
  BY DEF Counted, Measure
<1>. HIDE DEF t
<1>3. /\ Measures(s) \in Seq(Measure) /\ Len(Measures(s)) = Len(s)
      /\ \A i \in 1..Len(s) : Measures(s)[i] = [count |-> s[i].count, left |-> s[i].left]
  BY MeasuresFact
<1>4. /\ u \in Seq(Measure) /\ Len(u) = Len(t)
      /\ \A i \in 1..Len(t) : u[i] = [count |-> t[i].count, left |-> t[i].left]
  BY <1>1, MeasuresFact
<1>. HIDE DEF m
<1>5. /\ v \in Seq(Measure) /\ Len(v) = Len(s) + 1
      /\ \A i \in 1..Len(s) : v[i] = Measures(s)[i]
      /\ v[Len(s) + 1] = m
  BY <1>2, <1>3, AppendProperties
<1>. HIDE DEF u, v
<1>6. ASSUME NEW i \in 1..Len(u) PROVE u[i] = v[i]
  <2>1. CASE i = Len(s) + 1
    BY <1>1, <1>4, <1>5, <2>1 DEF m
  <2>2. CASE i # Len(s) + 1
    <3>1. i \in 1..Len(s)
      BY <1>1, <1>4, <2>2
    <3>. QED  BY <1>1, <1>3, <1>4, <1>5, <3>1
  <2>. QED  BY <2>1, <2>2
<1>7. Len(u) = Len(v)
  BY <1>1, <1>4, <1>5
<1>8. u = v
  BY <1>4, <1>5, <1>6, <1>7, SeqEqual
<1>. QED  BY <1>8 DEF t, m, u, v

LEMMA MeasuresFrom ==
    ASSUME NEW S, Counted(S), NEW s \in Seq(S), NEW i \in 1..Len(s) + 1
    PROVE  Measures(From(s, i)) = From(Measures(s), i)
<1>. DEFINE t == From(s, i)
            m == Measures(s)
            u == Measures(t)
            v == From(m, i)
<1>1. /\ t \in Seq(S) /\ Len(t) = Len(s) + 1 - i /\ Len(s) \in Nat
      /\ \A j \in 1..Len(s) + 1 - i : t[j] = s[i + j - 1]
  BY FromFact, LenProperties
<1>2. /\ m \in Seq(Measure) /\ Len(m) = Len(s)
      /\ \A j \in 1..Len(s) : m[j] = [count |-> s[j].count, left |-> s[j].left]
  BY MeasuresFact
<1>. HIDE DEF t, m
<1>3. /\ u \in Seq(Measure) /\ Len(u) = Len(t)
      /\ \A j \in 1..Len(t) : u[j] = [count |-> t[j].count, left |-> t[j].left]
  BY <1>1, MeasuresFact
<1>4. i \in 1..Len(m) + 1
  BY <1>2
<1>5. /\ v \in Seq(Measure) /\ Len(v) = Len(m) + 1 - i
      /\ \A j \in 1..Len(m) + 1 - i : v[j] = m[i + j - 1]
  <2>1. m \in Seq(Measure)
    BY <1>2
  <2>. QED  BY <1>4, <2>1, FromFact
<1>. HIDE DEF u, v
<1>6. ASSUME NEW j \in 1..Len(u) PROVE u[j] = v[j]
  <2>1. /\ j \in 1..Len(t) /\ j \in 1..Len(s) + 1 - i /\ j \in 1..Len(m) + 1 - i
        /\ i + j - 1 \in 1..Len(s)
    BY <1>1, <1>2, <1>3
  <2>. QED  BY <1>1, <1>2, <1>3, <1>5, <2>1
<1>7. Len(u) = Len(v)
  BY <1>1, <1>2, <1>3, <1>5
<1>8. u = v
  BY <1>3, <1>5, <1>6, <1>7, SeqEqual
<1>. QED  BY <1>8 DEF t, m, u, v

LEMMA MeasuresUsed ==
    ASSUME NEW S, Counted(S), NEW s \in Seq(S)
    PROVE  Used(Measures(s)) = Used(s)
<1>1. /\ Measures(s) \in Seq(Measure) /\ Len(Measures(s)) = Len(s)
      /\ \A i \in 1..Len(s) : Measures(s)[i] = [count |-> s[i].count, left |-> s[i].left]
  BY MeasuresFact
<1>2. ASSUME NEW i \in 1..Len(s) PROVE s[i].count = Measures(s)[i].count
  <2>1. Measures(s)[i] = [count |-> s[i].count, left |-> s[i].left]
    BY <1>1
  <2>. QED  BY <2>1
<1>. HIDE DEF Measures
<1>3. Len(s) = Len(Measures(s))
  BY <1>1
<1>4. Used(s) = Used(Measures(s))
  BY <1>1, <1>2, <1>3, CountedFact, UsedSame
<1>. QED  BY <1>4

----------------------------------------------------------------------------
\* f has what lives of every beginning of s.
Filters(f, s) ==
    f = [i \in 0..Len(s) |->
           IF i = 0 THEN <<>>
           ELSE IF s[i].left > 0 THEN Append(f[i - 1], s[i]) ELSE f[i - 1]]

Lives(f, s, S) ==
    /\ f[0] = <<>> /\ \A i \in 0..Len(s) : f[i] \in Seq(S)
    /\ \A i \in 1..Len(s) : f[i] = IF s[i].left > 0 THEN Append(f[i - 1], s[i]) ELSE f[i - 1]

LEMMA FiltersLives ==
    ASSUME NEW S, NEW s \in Seq(S), NEW f, Filters(f, s)
    PROVE  Lives(f, s, S)
<1>1. Len(s) \in Nat /\ \A i \in 1..Len(s) : s[i] \in S
  BY LenProperties, ElementOfSeq
<1>. DEFINE h == [i \in 0..Len(s) |->
                    IF i = 0 THEN <<>>
                    ELSE IF s[i].left > 0 THEN Append(f[i - 1], s[i]) ELSE f[i - 1]]
<1>2. f = h
  BY DEF Filters
<1>3. /\ h[0] = <<>>
      /\ \A i \in 1..Len(s) : h[i] = IF s[i].left > 0 THEN Append(f[i - 1], s[i]) ELSE f[i - 1]
  BY <1>1
<1>. HIDE DEF h
<1>4. /\ f[0] = <<>>
      /\ \A i \in 1..Len(s) : f[i] = IF s[i].left > 0 THEN Append(f[i - 1], s[i]) ELSE f[i - 1]
  BY <1>2, <1>3
<1>. DEFINE P == {i \in 0..Len(s) : f[i] \in Seq(S)}
<1>5. 0 \in P
  <2>1. <<>> \in Seq(S) /\ 0 \in 0..Len(s)
    BY <1>1
  <2>. QED  BY <1>4, <2>1
<1>6. ASSUME NEW i \in 0..Len(s) - 1, i \in P PROVE i + 1 \in P
  <2>1. i + 1 \in 1..Len(s) /\ (i + 1) - 1 = i
    BY <1>1
  <2>2. f[i + 1] = IF s[i + 1].left > 0 THEN Append(f[i], s[i + 1]) ELSE f[i]
    BY <1>4, <2>1
  <2>3. f[i] \in Seq(S) /\ Append(f[i], s[i + 1]) \in Seq(S)
    <3>1. f[i] \in Seq(S) /\ s[i + 1] \in S
      BY <1>1, <1>6, <2>1
    <3>. QED  BY <3>1, AppendProperties
  <2>4. f[i + 1] \in Seq(S) /\ i + 1 \in 0..Len(s)
    BY <1>1, <2>1, <2>2, <2>3
  <2>. QED  BY <2>4
<1>7. \A i \in 0..Len(s) : i \in P
  <2>. HIDE DEF P
  <2>. QED  BY <1>1, <1>5, <1>6, UpTo
<1>. QED  BY <1>4, <1>7 DEF Lives

LEMMA ActiveFact ==
    ASSUME NEW S, NEW s \in Seq(S)
    PROVE  \E f : Lives(f, s, S) /\ Active(s) = f[Len(s)]
<1>1. Len(s) \in Nat /\ \A i \in 1..Len(s) : s[i] \in S
  BY LenProperties, ElementOfSeq
<1>. DEFINE n == Len(s)
            V == Seq(S)
            G == [p \in (1..n) \X V |->
                    IF s[p[1]].left > 0 THEN Append(p[2], s[p[1]]) ELSE p[2]]
            all == CHOOSE f : Filters(f, s)
<1>2. G \in [(1..n) \X V -> V]
  <2>1. ASSUME NEW i \in 1..n, NEW v \in V PROVE Append(v, s[i]) \in V
    BY <1>1, <2>1, AppendProperties
  <2>. QED  BY <2>1
<1>3. \A i \in 1..n, v \in V :
         G[<<i, v>>] = IF s[i].left > 0 THEN Append(v, s[i]) ELSE v
  OBVIOUS
<1>4. <<>> \in V
  OBVIOUS
<1>. HIDE DEF G, V
<1>5. PICK f \in [0..n -> V] : Recurs(f, <<>>, G, n)
  BY <1>1, <1>2, <1>4, RecursionExists
<1>6. ASSUME NEW i \in 1..n
      PROVE  f[i] = IF s[i].left > 0 THEN Append(f[i - 1], s[i]) ELSE f[i - 1]
  <2>1. i - 1 \in 0..n
    BY <1>1
  <2>2. f[i - 1] \in V
    BY <2>1
  <2>. QED  BY <1>3, <1>5, <2>2 DEF Recurs
<1>7. Filters(f, s)
  <2>1. f[0] = <<>>
    BY <1>5 DEF Recurs
  <2>2. \A i \in 0..n : f[i] = IF i = 0 THEN <<>>
                               ELSE IF s[i].left > 0 THEN Append(f[i - 1], s[i]) ELSE f[i - 1]
    <3>1. \A i \in 0..n : i = 0 \/ i \in 1..n
      BY <1>1
    <3>. QED  BY <1>6, <2>1, <3>1, Zenon
  <2>. QED  BY <2>2 DEF Filters
<1>8. Filters(all, s)
  BY <1>7
<1>9. Active(s) = all[Len(s)]
  BY DEF Active, Filters
<1>. HIDE DEF all
<1>. QED  BY <1>8, <1>9, FiltersLives

LEMMA ActiveType ==
    ASSUME NEW S, NEW s \in Seq(S)
    PROVE  Active(s) \in Seq(S)
<1>1. Len(s) \in Nat
  BY LenProperties
<1>. QED  BY <1>1, ActiveFact DEF Lives

\* What is over makes room.
LEMMA ActiveUsed ==
    ASSUME NEW S, Counted(S), NEW s \in Seq(S)
    PROVE  Used(Active(s)) <= Used(s)
<1>1. Len(s) \in Nat /\ \A i \in 1..Len(s) : s[i] \in S /\ s[i].count \in Nat
  BY LenProperties, ElementOfSeq DEF Counted
<1>2. PICK f : Lives(f, s, S) /\ Active(s) = f[Len(s)]
  BY ActiveFact
<1>3. PICK g : Tally(g, s) /\ Used(s) = g[Len(s)]
  BY UsedFact
<1>. DEFINE P == {i \in 0..Len(s) : Used(f[i]) <= g[i]}
<1>4. 0 \in P
  BY <1>1, <1>2, <1>3, UsedEmpty DEF Lives, Tally
<1>5. ASSUME NEW i \in 0..Len(s) - 1, i \in P PROVE i + 1 \in P
  <2>1. i + 1 \in 1..Len(s) /\ i + 1 \in 0..Len(s) /\ (i + 1) - 1 = i /\ i \in 0..Len(s)
    BY <1>1
  <2>2. /\ f[i + 1] = IF s[i + 1].left > 0 THEN Append(f[i], s[i + 1]) ELSE f[i]
        /\ g[i + 1] = g[i] + s[i + 1].count /\ f[i] \in Seq(S) /\ g[i] \in Nat
    BY <1>2, <1>3, <2>1 DEF Lives, Tally
  <2>3. Used(f[i]) \in Nat
    BY <2>2, UsedType
  <2>4. s[i + 1] \in S /\ s[i + 1].count \in Nat
    BY <1>1, <2>1
  <2>5. Used(Append(f[i], s[i + 1])) = Used(f[i]) + s[i + 1].count
    BY <2>2, <2>4, UsedAppend
  <2>6. Used(f[i]) <= g[i]
    BY <1>5
  <2>. QED  BY <2>1, <2>2, <2>3, <2>4, <2>5, <2>6
<1>6. Len(s) \in P
  <2>1. Len(s) \in 0..Len(s)
    BY <1>1
  <2>. HIDE DEF P
  <2>. QED  BY <1>1, <1>4, <1>5, <2>1, UpTo
<1>. QED  BY <1>2, <1>3, <1>6

LEMMA ActiveMeasures ==
    ASSUME NEW S, Counted(S), NEW s \in Seq(S)
    PROVE  Measures(Active(s)) = Active(Measures(s))
<1>. DEFINE m == Measures(s)
<1>1. Len(s) \in Nat /\ \A i \in 1..Len(s) : s[i] \in S
  BY LenProperties, ElementOfSeq
<1>2. /\ m \in Seq(Measure) /\ Len(m) = Len(s)
      /\ \A i \in 1..Len(s) : m[i] = [count |-> s[i].count, left |-> s[i].left]
  BY MeasuresFact
<1>. HIDE DEF m
<1>3. PICK f : Lives(f, s, S) /\ Active(s) = f[Len(s)]
  BY ActiveFact
<1>4. PICK g : Lives(g, m, Measure) /\ Active(m) = g[Len(m)]
  BY <1>2, ActiveFact
<1>. DEFINE P == {i \in 0..Len(s) : Measures(f[i]) = g[i]}
<1>5. 0 \in P
  <2>1. Measures(<<>>) = <<>>
    BY DEF Measures
  <2>. QED  BY <1>1, <1>3, <1>4, <2>1 DEF Lives
<1>6. ASSUME NEW i \in 0..Len(s) - 1, i \in P PROVE i + 1 \in P
  <2>1. i + 1 \in 1..Len(s) /\ i + 1 \in 0..Len(s) /\ (i + 1) - 1 = i /\ i \in 0..Len(s)
    BY <1>1
  <2>2. /\ f[i + 1] = IF s[i + 1].left > 0 THEN Append(f[i], s[i + 1]) ELSE f[i]
        /\ g[i + 1] = IF m[i + 1].left > 0 THEN Append(g[i], m[i + 1]) ELSE g[i]
        /\ f[i] \in Seq(S)
    BY <1>2, <1>3, <1>4, <2>1 DEF Lives
  <2>3. m[i + 1] = [count |-> s[i + 1].count, left |-> s[i + 1].left] /\ s[i + 1] \in S
    BY <1>1, <1>2, <2>1
  <2>4. Measures(Append(f[i], s[i + 1])) = Append(Measures(f[i]), m[i + 1])
    BY <2>2, <2>3, MeasuresAppend
  <2>5. m[i + 1].left = s[i + 1].left /\ Measures(f[i]) = g[i]
    BY <1>6, <2>3
  <2>. QED  BY <2>1, <2>2, <2>4, <2>5
<1>7. Len(s) \in P
  <2>1. Len(s) \in 0..Len(s)
    BY <1>1
  <2>. HIDE DEF P
  <2>. QED  BY <1>1, <1>5, <1>6, <2>1, UpTo
<1>8. Measures(Active(s)) = Active(m)
  BY <1>2, <1>3, <1>4, <1>7
<1>. QED  BY <1>8 DEF m

----------------------------------------------------------------------------
\* The oldest give way until there is room, and no longer.
LEMMA AddedFact ==
    ASSUME BurstAssumption, NEW S, Counted(S), NEW s \in Seq(S), NEW b \in S
    PROVE  \E i \in 1..Len(s) + 1 :
              /\ Added(s, b) = Append(From(s, i), b)
              /\ Used(From(s, i)) + b.count <= POOL_CAPACITY \/ i = Len(s) + 1
              /\ i > 1 => Used(From(s, i - 1)) + b.count > POOL_CAPACITY
<1>. DEFINE Fits(i) == Used(From(s, i)) + b.count <= POOL_CAPACITY
            Ends(i) == Fits(i) \/ i = Len(s) + 1
            Is(i) == Ends(i) /\ \A j \in 1..i - 1 : ~Fits(j)
            T == {i \in 1..Len(s) + 1 : Ends(i)}
            first == CHOOSE i \in 1..Len(s) + 1 : Is(i)
<1>1. Len(s) \in Nat
  BY LenProperties
<1>2. Added(s, b) = Append(From(s, first), b)
  BY DEF Added
<1>3. \A i \in 1..Len(s) + 1 : Used(From(s, i)) \in Nat
  BY FromFact, UsedType
<1>4. b.count \in Nat /\ POOL_CAPACITY \in Nat
  BY BurstAssumption DEF Counted
<1>5. PICK i \in T : \A j \in T : i <= j
  <2>1. T \in SUBSET Nat
    BY <1>1
  <2>2. Len(s) + 1 \in T
    BY <1>1
  <2>. HIDE DEF T
  <2>. QED  BY <2>1, <2>2, LeastNat
<1>6. i \in 1..Len(s) + 1 /\ Is(i)
  <2>1. i \in 1..Len(s) + 1 /\ Ends(i)
    BY <1>5
  <2>2. ASSUME NEW j \in 1..i - 1 PROVE ~Fits(j)
    <3>1. j \in 1..Len(s) + 1 /\ ~(i <= j)
      BY <1>1, <2>1
    <3>. QED  BY <1>5, <3>1
  <2>. QED  BY <2>1, <2>2
<1>. HIDE DEF Is
<1>7. first \in 1..Len(s) + 1 /\ Is(first)
  BY <1>6
<1>. USE DEF Is
<1>. HIDE DEF first
<1>8. first > 1 => Used(From(s, first - 1)) + b.count > POOL_CAPACITY
  <2>1. SUFFICES ASSUME first > 1
                 PROVE  Used(From(s, first - 1)) + b.count > POOL_CAPACITY
    OBVIOUS
  <2>2. first - 1 \in 1..first - 1 /\ first - 1 \in 1..Len(s) + 1
    BY <1>1, <1>7, <2>1
  <2>3. ~Fits(first - 1)
    BY <1>7, <2>2
  <2>. QED  BY <1>3, <1>4, <2>2, <2>3
<1>. QED  BY <1>2, <1>7, <1>8

\* The bursts of the store's session that are drawn or will be.
Ours(there) == {b \in Burst : b.session = stored /\ (b.center \/ b.key \in there)}

LEMMA OursFact ==
    ASSUME BurstAssumption, stored \in BOOLEAN, NEW there, NEW focusKey,
           NEW e \in Events, e.key \in there
    PROVE  /\ BurstFor(e, focusKey) \in Ours(there)
           /\ BurstFor(e, focusKey).count = CountOf(e.kind)
           /\ BurstFor(e, focusKey).left = Duration[e.kind]
           /\ CountOf(e.kind) <= POOL_CAPACITY /\ CountOf(e.kind) \in Nat
           /\ [count |-> CountOf(e.kind), left |-> Duration[e.kind]] \in Measure
<1>1. e.kind \in Kinds /\ e.key \in Bodies
  BY DEF Events
<1>2. Particles[e.kind] \in Nat /\ Duration[e.kind] \in Nat /\ POOL_CAPACITY \in Nat
  BY <1>1, BurstAssumption
<1>3. CountOf(e.kind) <= POOL_CAPACITY /\ CountOf(e.kind) \in Nat
  BY <1>2 DEF CountOf
<1>. QED  BY <1>1, <1>2, <1>3 DEF BurstFor, Ours, Burst, Measure

----------------------------------------------------------------------------
\* The pools after every event, and all there would be without a limit.
Pools(f, bursts, news, there, focusKey) ==
    f = [n \in 0..Len(news) |->
           IF n = 0 THEN bursts
           ELSE IF news[n].key \in there
                THEN Added(f[n - 1], BurstFor(news[n], focusKey)) ELSE f[n - 1]]

Alls(f, bursts, news, there) ==
    f = [n \in 0..Len(news) |->
           IF n = 0 THEN Measures(bursts)
           ELSE IF news[n].key \in there
                THEN Append(f[n - 1], [count |-> CountOf(news[n].kind),
                                       left |-> Duration[news[n].kind]])
                ELSE f[n - 1]]

LEMMA PoolsExist ==
    ASSUME BurstAssumption, stored \in BOOLEAN, NEW there, NEW focusKey, NEW news \in Seq(Events),
           NEW bursts \in Seq(Ours(there))
    PROVE  \E f : Pools(f, bursts, news, there, focusKey)
<1>1. Len(news) \in Nat /\ \A i \in 1..Len(news) : news[i] \in Events
  BY LenProperties, ElementOfSeq
<1>. DEFINE n == Len(news)
            V == Seq(Ours(there))
            G == [p \in (1..n) \X V |->
                    IF news[p[1]].key \in there
                    THEN Added(p[2], BurstFor(news[p[1]], focusKey)) ELSE p[2]]
<1>2. G \in [(1..n) \X V -> V]
  <2>1. ASSUME NEW i \in 1..n, NEW v \in V, news[i].key \in there
        PROVE  Added(v, BurstFor(news[i], focusKey)) \in V
    <3>. DEFINE b == BurstFor(news[i], focusKey)
                S == Ours(there)
    <3>1. b \in S
      BY <1>1, <2>1, OursFact
    <3>2. Counted(S)
      BY CountedFact DEF Counted, Ours
    <3>. HIDE DEF b, S
    <3>3. v \in Seq(S)
      BY DEF S
    <3>4. PICK j \in 1..Len(v) + 1 : Added(v, b) = Append(From(v, j), b)
      BY <3>1, <3>2, <3>3, AddedFact
    <3>5. From(v, j) \in Seq(S)
      BY <3>3, FromFact
    <3>6. Append(From(v, j), b) \in Seq(S)
      BY <3>1, <3>5, AppendProperties
    <3>. QED  BY <3>4, <3>6 DEF b, S
  <2>. QED  BY <2>1
<1>3. \A i \in 1..n, v \in V :
         G[<<i, v>>] = IF news[i].key \in there
                       THEN Added(v, BurstFor(news[i], focusKey)) ELSE v
  OBVIOUS
<1>. HIDE DEF G, V
<1>4. bursts \in V
  BY DEF V
<1>5. PICK f \in [0..n -> V] : Recurs(f, bursts, G, n)
  BY <1>1, <1>2, <1>4, RecursionExists
<1>6. ASSUME NEW i \in 1..n
      PROVE  f[i] = IF news[i].key \in there
                    THEN Added(f[i - 1], BurstFor(news[i], focusKey)) ELSE f[i - 1]
  <2>1. i - 1 \in 0..n
    BY <1>1
  <2>2. f[i - 1] \in V
    BY <2>1
  <2>. QED  BY <1>3, <1>5, <2>2 DEF Recurs
<1>7. Pools(f, bursts, news, there, focusKey)
  <2>1. f[0] = bursts
    BY <1>5 DEF Recurs
  <2>2. \A i \in 0..n :
           f[i] = IF i = 0 THEN bursts
                  ELSE IF news[i].key \in there
                       THEN Added(f[i - 1], BurstFor(news[i], focusKey)) ELSE f[i - 1]
    <3>1. \A i \in 0..n : i = 0 \/ i \in 1..n
      BY <1>1
    <3>2. \A i \in 1..n : i # 0
      BY <1>1
    <3>. QED  BY <1>6, <2>1, <3>1, <3>2, Zenon
  <2>. QED  BY <2>2 DEF Pools
<1>. QED  BY <1>7

LEMMA AllsExist ==
    ASSUME BurstAssumption, stored \in BOOLEAN, NEW there, NEW news \in Seq(Events),
           NEW bursts, Measures(bursts) \in Seq(Measure)
    PROVE  \E f : Alls(f, bursts, news, there)
<1>1. Len(news) \in Nat /\ \A i \in 1..Len(news) : news[i] \in Events
  BY LenProperties, ElementOfSeq
<1>. DEFINE n == Len(news)
            V == Seq(Measure)
            new(i) == [count |-> CountOf(news[i].kind), left |-> Duration[news[i].kind]]
            G == [p \in (1..n) \X V |->
                    IF news[p[1]].key \in there THEN Append(p[2], new(p[1])) ELSE p[2]]
<1>2. G \in [(1..n) \X V -> V]
  <2>1. ASSUME NEW i \in 1..n, NEW v \in V, news[i].key \in there
        PROVE  Append(v, new(i)) \in V
    <3>1. new(i) \in Measure
      BY <1>1, <2>1, OursFact
    <3>. HIDE DEF new
    <3>. QED  BY <3>1, AppendProperties
  <2>. HIDE DEF new
  <2>. QED  BY <2>1
<1>. HIDE DEF new
<1>3. \A i \in 1..n, v \in V :
         G[<<i, v>>] = IF news[i].key \in there THEN Append(v, new(i)) ELSE v
  OBVIOUS
<1>. HIDE DEF G, V
<1>4. Measures(bursts) \in V
  BY DEF V
<1>5. PICK f \in [0..n -> V] : Recurs(f, Measures(bursts), G, n)
  BY <1>1, <1>2, <1>4, RecursionExists
<1>6. ASSUME NEW i \in 1..n
      PROVE  f[i] = IF news[i].key \in there THEN Append(f[i - 1], new(i)) ELSE f[i - 1]
  <2>1. i - 1 \in 0..n
    BY <1>1
  <2>2. f[i - 1] \in V
    BY <2>1
  <2>. QED  BY <1>3, <1>5, <2>2 DEF Recurs
<1>7. Alls(f, bursts, news, there)
  <2>1. f[0] = Measures(bursts)
    BY <1>5 DEF Recurs
  <2>2. \A i \in 0..n :
           f[i] = IF i = 0 THEN Measures(bursts)
                  ELSE IF news[i].key \in there THEN Append(f[i - 1], new(i)) ELSE f[i - 1]
    <3>1. \A i \in 0..n : i = 0 \/ i \in 1..n
      BY <1>1
    <3>2. \A i \in 1..n : i # 0
      BY <1>1
    <3>. QED  BY <1>6, <2>1, <3>1, <3>2, Zenon
  <2>. QED  BY <2>2 DEF Alls, new
<1>. QED  BY <1>7

----------------------------------------------------------------------------
\* p is the longest end of a that fits.
LongestEnd(p, a) ==
    /\ Used(p) <= POOL_CAPACITY
    /\ \E i \in 1..Len(a) + 1 :
          /\ Measures(p) = From(a, i)
          /\ i > 1 => Used(From(a, i - 1)) > POOL_CAPACITY

LEMMA LongestStep ==
    ASSUME BurstAssumption, NEW S, Counted(S), NEW p \in Seq(S), NEW b \in S,
           b.count <= POOL_CAPACITY, NEW a \in Seq(Measure), LongestEnd(p, a)
    PROVE  /\ Added(p, b) \in Seq(S)
           /\ LongestEnd(Added(p, b), Append(a, [count |-> b.count, left |-> b.left]))
<1>. DEFINE m == [count |-> b.count, left |-> b.left]
            c == Append(a, m)
<1>1. m \in Measure /\ m.count = b.count /\ b.count \in Nat /\ POOL_CAPACITY \in Nat
  BY BurstAssumption DEF Counted, Measure
<1>. HIDE DEF m
<1>2. /\ Len(p) \in Nat /\ Len(a) \in Nat
      /\ c \in Seq(Measure) /\ Len(c) = Len(a) + 1
  BY <1>1, LenProperties, AppendProperties
<1>. HIDE DEF c
<1>3. PICK i \in 1..Len(a) + 1 : /\ Measures(p) = From(a, i)
                                 /\ i > 1 => Used(From(a, i - 1)) > POOL_CAPACITY
  BY DEF LongestEnd
<1>4. PICK j \in 1..Len(p) + 1 :
         /\ Added(p, b) = Append(From(p, j), b)
         /\ Used(From(p, j)) + b.count <= POOL_CAPACITY \/ j = Len(p) + 1
         /\ j > 1 => Used(From(p, j - 1)) + b.count > POOL_CAPACITY
  BY AddedFact
<1>5. Len(p) = Len(a) + 1 - i
  <2>1. Len(Measures(p)) = Len(p)
    BY MeasuresFact
  <2>2. Len(From(a, i)) = Len(a) + 1 - i
    BY FromFact
  <2>. QED  BY <1>3, <2>1, <2>2
\* An end of what fits is an end of all.
<1>6. ASSUME NEW l \in 1..Len(p) + 1
      PROVE  /\ Measures(From(p, l)) = From(a, i + l - 1)
             /\ i + l - 1 \in 1..Len(a) + 1
             /\ Used(From(p, l)) = Used(From(a, i + l - 1)) /\ Used(From(p, l)) \in Nat
             /\ From(p, l) \in Seq(S)
  <2>1. l \in 1..Len(a) + 2 - i
    BY <1>2, <1>5
  <2>2. From(From(a, i), l) = From(a, i + l - 1) /\ i + l - 1 \in 1..Len(a) + 1
    BY <2>1, FromFrom
  <2>3. Measures(From(p, l)) = From(Measures(p), l)
    BY MeasuresFrom
  <2>4. From(p, l) \in Seq(S)
    BY FromFact
  <2>5. Used(Measures(From(p, l))) = Used(From(p, l)) /\ Used(From(p, l)) \in Nat
    BY <2>4, MeasuresUsed, UsedType
  <2>. QED  BY <1>3, <2>2, <2>3, <2>4, <2>5
<1>7. ASSUME NEW k \in 1..Len(a) + 1
      PROVE  /\ From(c, k) = Append(From(a, k), m)
             /\ Used(From(c, k)) = Used(From(a, k)) + b.count
             /\ Used(From(a, k)) \in Nat
  <2>1. From(c, k) = Append(From(a, k), m)
    BY <1>1, FromAppend DEF c
  <2>2. From(a, k) \in Seq(Measure)
    BY FromFact
  <2>3. Used(Append(From(a, k), m)) = Used(From(a, k)) + m.count /\ Used(From(a, k)) \in Nat
    BY <1>1, <2>2, CountedFact, UsedAppend, UsedType
  <2>. QED  BY <1>1, <2>1, <2>3
<1>. DEFINE k == i + j - 1
            q == Added(p, b)
<1>8. q \in Seq(S)
  <2>1. From(p, j) \in Seq(S)
    BY <1>6
  <2>2. Append(From(p, j), b) \in Seq(S)
    BY <2>1, AppendProperties
  <2>. QED  BY <1>4, <2>2
<1>9. Measures(q) = From(c, k)
  <2>1. From(p, j) \in Seq(S) /\ Measures(From(p, j)) = From(a, k) /\ k \in 1..Len(a) + 1
    BY <1>6
  <2>2. Measures(Append(From(p, j), b)) = Append(Measures(From(p, j)), m)
    BY <2>1, MeasuresAppend DEF m
  <2>. HIDE DEF k, q
  <2>3. From(c, k) = Append(From(a, k), m)
    BY <1>7, <2>1
  <2>4. Measures(q) = Measures(Append(From(p, j), b))
    BY <1>4 DEF q
  <2>. QED  BY <2>1, <2>2, <2>3, <2>4
<1>10. Used(q) <= POOL_CAPACITY
  <2>1. From(p, j) \in Seq(S) /\ Used(From(p, j)) \in Nat
    BY <1>6
  <2>2. Used(Append(From(p, j), b)) = Used(From(p, j)) + b.count
    BY <2>1, UsedAppend
  <2>3. CASE j = Len(p) + 1
    <3>1. Len(From(p, j)) = 0
      <4>1. p \in Seq(S) /\ Len(p) \in Nat
        BY <1>2
      <4>2. j \in 1..Len(p) + 1
        BY <2>3, <4>1
      <4>3. Len(From(p, j)) = Len(p) + 1 - j
        BY <4>1, <4>2, FromFact
      <4>. QED  BY <2>3, <4>1, <4>3
    <3>2. From(p, j) = <<>>
      BY <2>1, <3>1, EmptySeq
    <3>3. Used(From(p, j)) = 0
      BY <3>2, UsedEmpty
    <3>. QED  BY <1>1, <1>4, <2>2, <3>3
  <2>. QED  BY <1>4, <2>2, <2>3
<1>11. k > 1 => Used(From(c, k - 1)) > POOL_CAPACITY
  <2>1. CASE j > 1
    <3>1. j - 1 \in 1..Len(p) + 1 /\ i + (j - 1) - 1 = k - 1
      BY <1>2, <2>1
    <3>2. Used(From(p, j - 1)) = Used(From(a, k - 1)) /\ k - 1 \in 1..Len(a) + 1
      BY <1>6, <3>1
    <3>3. Used(From(c, k - 1)) = Used(From(a, k - 1)) + b.count
      BY <1>7, <3>2
    <3>. QED  BY <1>4, <2>1, <3>2, <3>3
  <2>2. CASE j = 1
    <3>1. k = i
      BY <2>2
    <3>2. SUFFICES ASSUME i > 1 PROVE Used(From(c, i - 1)) > POOL_CAPACITY
      BY <3>1
    <3>3. i - 1 \in 1..Len(a) + 1
      BY <1>2, <3>2
    <3>4. Used(From(c, i - 1)) = Used(From(a, i - 1)) + b.count /\ Used(From(a, i - 1)) \in Nat
      BY <1>7, <3>3
    <3>. QED  BY <1>1, <1>3, <3>2, <3>4
  <2>. QED  BY <1>2, <2>1, <2>2
<1>12. k \in 1..Len(c) + 1
  <2>1. k \in 1..Len(a) + 1
    BY <1>6
  <2>. HIDE DEF k
  <2>. QED  BY <1>2, <2>1
<1>13. LongestEnd(q, c)
  <2>. HIDE DEF q, k
  <2>. QED  BY <1>9, <1>10, <1>11, <1>12 DEF LongestEnd
<1>. QED  BY <1>8, <1>13 DEF c, m

\* So is what a frame's events make of what was there.
LEMMA WithBurstsFact ==
    ASSUME BurstAssumption, stored \in BOOLEAN, NEW there, NEW focusKey, NEW news \in Seq(Events),
           NEW bursts \in Seq(Ours(there)), Used(bursts) <= POOL_CAPACITY
    PROVE  /\ WithBursts(bursts, news, there, focusKey) \in Seq(Ours(there))
           /\ LongestEnd(WithBursts(bursts, news, there, focusKey), AllBursts(bursts, news, there))
           /\ AllBursts(bursts, news, there) \in Seq(Measure)
<1>. DEFINE n == Len(news)
            S == Ours(there)
            IsPools(x) == Pools(x, bursts, news, there, focusKey)
            IsAlls(x) == Alls(x, bursts, news, there)
            f == CHOOSE x : IsPools(x)
            g == CHOOSE x : IsAlls(x)
            new(i) == [count |-> CountOf(news[i].kind), left |-> Duration[news[i].kind]]
<1>1. n \in Nat /\ \A i \in 1..n : news[i] \in Events
  BY LenProperties, ElementOfSeq
<1>2. Counted(S)
  BY CountedFact DEF Counted, Ours
<1>3. Measures(bursts) \in Seq(Measure) /\ Len(Measures(bursts)) = Len(bursts)
  <2>. HIDE DEF S
  <2>1. bursts \in Seq(S)
    BY DEF S
  <2>. QED  BY <1>2, <2>1, MeasuresFact
<1>4. Pools(f, bursts, news, there, focusKey)
  <2>1. \E x : IsPools(x)
    BY PoolsExist
  <2>. HIDE DEF IsPools
  <2>2. IsPools(f)
    BY <2>1
  <2>. QED  BY <2>2 DEF IsPools
<1>5. Alls(g, bursts, news, there)
  <2>1. \E x : IsAlls(x)
    BY <1>3, AllsExist
  <2>. HIDE DEF IsAlls
  <2>2. IsAlls(g)
    BY <2>1
  <2>. QED  BY <2>2 DEF IsAlls
<1>6. WithBursts(bursts, news, there, focusKey) = f[n]
  BY DEF WithBursts, Pools
<1>7. AllBursts(bursts, news, there) = g[n]
  BY DEF AllBursts, Alls
<1>. HIDE DEF f, g
<1>8. /\ f[0] = bursts
      /\ \A i \in 1..n : f[i] = IF news[i].key \in there
                                THEN Added(f[i - 1], BurstFor(news[i], focusKey)) ELSE f[i - 1]
  <2>. DEFINE h == [i \in 0..n |->
                      IF i = 0 THEN bursts
                      ELSE IF news[i].key \in there
                           THEN Added(f[i - 1], BurstFor(news[i], focusKey)) ELSE f[i - 1]]
  <2>1. f = h
    BY <1>4 DEF Pools
  <2>2. /\ h[0] = bursts
        /\ \A i \in 1..n : h[i] = IF news[i].key \in there
                                  THEN Added(f[i - 1], BurstFor(news[i], focusKey)) ELSE f[i - 1]
    BY <1>1
  <2>. HIDE DEF h
  <2>. QED  BY <2>1, <2>2
<1>9. /\ g[0] = Measures(bursts)
      /\ \A i \in 1..n : g[i] = IF news[i].key \in there
                                THEN Append(g[i - 1], new(i)) ELSE g[i - 1]
  <2>. DEFINE h == [i \in 0..n |->
                      IF i = 0 THEN Measures(bursts)
                      ELSE IF news[i].key \in there THEN Append(g[i - 1], new(i)) ELSE g[i - 1]]
  <2>1. g = h
    BY <1>5 DEF Alls
  <2>. HIDE DEF new
  <2>2. /\ h[0] = Measures(bursts)
        /\ \A i \in 1..n : h[i] = IF news[i].key \in there
                                  THEN Append(g[i - 1], new(i)) ELSE g[i - 1]
    BY <1>1
  <2>. HIDE DEF h
  <2>. QED  BY <2>1, <2>2
<1>. DEFINE Good(i) == f[i] \in Seq(S) /\ g[i] \in Seq(Measure) /\ LongestEnd(f[i], g[i])
            P == {i \in 0..n : Good(i)}
<1>10. Good(0)
  <2>1. LongestEnd(bursts, Measures(bursts))
    <3>1. From(Measures(bursts), 1) = Measures(bursts)
      BY <1>3, FromAll
    <3>2. 1 \in 1..Len(Measures(bursts)) + 1 /\ ~(1 > 1)
      BY <1>3, LenProperties
    <3>. HIDE DEF S
    <3>. QED  BY <3>1, <3>2 DEF LongestEnd
  <2>. QED  BY <1>3, <1>8, <1>9, <2>1
<1>11. ASSUME NEW i \in 0..n - 1, Good(i) PROVE Good(i + 1)
  <2>. DEFINE b == BurstFor(news[i + 1], focusKey)
  <2>1. i + 1 \in 1..n /\ (i + 1) - 1 = i /\ news[i + 1] \in Events
    BY <1>1
  <2>2. CASE news[i + 1].key \in there
    <3>1. /\ b \in S /\ b.count <= POOL_CAPACITY
          /\ new(i + 1) = [count |-> b.count, left |-> b.left] /\ new(i + 1) \in Measure
      <4>. DEFINE e == news[i + 1]
      <4>1. e \in Events /\ e.key \in there
        BY <2>1, <2>2
      <4>. HIDE DEF e
      <4>2. /\ BurstFor(e, focusKey) \in Ours(there)
            /\ BurstFor(e, focusKey).count = CountOf(e.kind)
            /\ BurstFor(e, focusKey).left = Duration[e.kind]
            /\ CountOf(e.kind) <= POOL_CAPACITY
            /\ [count |-> CountOf(e.kind), left |-> Duration[e.kind]] \in Measure
        BY <4>1, OursFact
      <4>. QED  BY <4>2 DEF e
    <3>2. f[i + 1] = Added(f[i], b)
      BY <1>8, <2>1, <2>2
    <3>3. g[i + 1] = Append(g[i], new(i + 1))
      BY <1>9, <2>1, <2>2
    <3>. HIDE DEF b, S, new
    <3>4. g[i + 1] \in Seq(Measure)
      BY <1>11, <3>1, <3>3, AppendProperties
    <3>5. /\ Added(f[i], b) \in Seq(S)
          /\ LongestEnd(Added(f[i], b), Append(g[i], [count |-> b.count, left |-> b.left]))
      BY <1>2, <1>11, <3>1, LongestStep
    <3>. QED  BY <3>1, <3>2, <3>3, <3>4, <3>5
  <2>3. CASE news[i + 1].key \notin there
    <3>1. f[i + 1] = f[i] /\ g[i + 1] = g[i]
      BY <1>8, <1>9, <2>1, <2>3
    <3>. QED  BY <1>11, <3>1
  <2>. QED  BY <2>2, <2>3
<1>12. Good(n)
  <2>. HIDE DEF Good
  <2>1. 0 \in P /\ n \in 0..n
    BY <1>1, <1>10
  <2>2. \A i \in 0..n - 1 : i \in P => i + 1 \in P
    BY <1>1, <1>11
  <2>. HIDE DEF P
  <2>3. n \in P
    BY <1>1, <2>1, <2>2, UpTo
  <2>. QED  BY <2>3 DEF P
<1>. QED  BY <1>6, <1>7, <1>12

----------------------------------------------------------------------------
\* Bursts of the session x that are drawn.
Drawn(x) == {b \in Burst : b.center /\ b.session = x}

BurstInv == BurstTypeOK /\ BurstsHaveRoom

LEMMA DrawnPool ==
    ASSUME NEW s, NEW x, s \in Seq(Drawn(x))
    PROVE  s \in Seq(Burst) /\ \A i \in DOMAIN s : s[i].center /\ s[i].session = x
<1>1. DOMAIN s = 1..Len(s) /\ \A i \in 1..Len(s) : s[i] \in Drawn(x)
  BY LenProperties, ElementOfSeq
<1>2. s \in Seq(Burst)
  <2>1. Drawn(x) \subseteq Burst
    BY DEF Drawn
  <2>. QED  BY <2>1, SeqMonotonic
<1>. QED  BY <1>1, <1>2 DEF Drawn

LEMMA PoolDrawn ==
    ASSUME NEW s, NEW x, s \in Seq(Burst), \A i \in DOMAIN s : s[i].center /\ s[i].session = x
    PROVE  s \in Seq(Drawn(x))
<1>1. Len(s) \in Nat /\ s \in [1..Len(s) -> Burst] /\ DOMAIN s = 1..Len(s)
  BY LenProperties
<1>2. \A i \in 1..Len(s) : s[i] \in Drawn(x)
  BY <1>1 DEF Drawn
<1>3. s \in [1..Len(s) -> Drawn(x)]
  BY <1>1, <1>2
<1>. QED  BY <1>1, <1>3, SeqDef

\* Time passes for the bursts of this session.
LEMMA AgedFact ==
    ASSUME NEW s \in Seq(Drawn(stored)), NEW step \in 0..1, NEW there
    PROVE  /\ Aged(s, step) \in Seq(Ours(there))
           /\ Used(Aged(s, step)) = Used(s)
<1>. DEFINE a == Aged(s, step)
            older(b) == [b EXCEPT !.left = IF b.left > step THEN b.left - step ELSE 0]
<1>1. Len(s) \in Nat /\ DOMAIN s = 1..Len(s) /\ \A i \in 1..Len(s) : s[i] \in Drawn(stored)
  BY LenProperties, ElementOfSeq
<1>2. ASSUME NEW b \in Drawn(stored) PROVE older(b) \in Ours(there) /\ older(b).count = b.count
  BY DEF Drawn, Ours, Burst
<1>3. a = [i \in 1..Len(s) |-> older(s[i])]
  BY <1>1 DEF Aged
<1>. HIDE DEF older, a
<1>4. a \in Seq(Ours(there)) /\ Len(a) = Len(s) /\ \A i \in 1..Len(s) : s[i].count = a[i].count
  BY <1>1, <1>2, <1>3
<1>5. Counted(Drawn(stored)) /\ Counted(Ours(there))
  BY CountedFact DEF Counted, Drawn, Ours
<1>6. Used(s) = Used(a)
  BY <1>4, <1>5, UsedSame
<1>. QED  BY <1>4, <1>6 DEF a

\* What is drawn of a body that is there has its place.
LEMMA CenteredFact ==
    ASSUME NEW there, NEW s \in Seq(Ours(there))
    PROVE  /\ Centered(s, there) \in Seq(Drawn(stored))
           /\ Measures(Centered(s, there)) = Measures(s)
           /\ Used(Centered(s, there)) = Used(s)
<1>. DEFINE c == Centered(s, there)
            centered(b) == [b EXCEPT !.center = b.center \/ b.key \in there]
<1>1. Len(s) \in Nat /\ DOMAIN s = 1..Len(s) /\ \A i \in 1..Len(s) : s[i] \in Ours(there)
  BY LenProperties, ElementOfSeq
<1>2. ASSUME NEW b \in Ours(there)
      PROVE  /\ centered(b) \in Drawn(stored)
             /\ centered(b).count = b.count /\ centered(b).left = b.left
  <2>1. (b.center \/ b.key \in there) = TRUE /\ b \in Burst /\ b.session = stored
    BY DEF Ours, Burst
  <2>2. centered(b) = [b EXCEPT !.center = TRUE]
    BY <2>1
  <2>. HIDE DEF centered
  <2>. QED  BY <2>1, <2>2 DEF Drawn, Burst
<1>3. c = [i \in 1..Len(s) |-> centered(s[i])]
  BY <1>1 DEF Centered
<1>. HIDE DEF centered, c
<1>4. /\ c \in Seq(Drawn(stored)) /\ Len(c) = Len(s) /\ DOMAIN c = 1..Len(s)
      /\ \A i \in 1..Len(s) : c[i].count = s[i].count /\ c[i].left = s[i].left
  BY <1>1, <1>2, <1>3
<1>5. Counted(Drawn(stored)) /\ Counted(Ours(there))
  BY CountedFact DEF Counted, Drawn, Ours
<1>6. Used(c) = Used(s)
  BY <1>4, <1>5, UsedSame
<1>7. Measures(c) = Measures(s)
  BY <1>1, <1>4 DEF Measures
<1>. QED  BY <1>4, <1>6, <1>7 DEF c

LEMMA BurstInitInv == BurstInit => BurstInv
<1>1. BurstInit => pool = <<>> /\ Used(pool) = 0 /\ POOL_CAPACITY \in Nat
  BY UsedEmpty, BurstAssumption DEF BurstInit
<1>2. BurstInit => told \in BoundedSeq(Events, MaxTold)
  BY BurstAssumption DEF BurstInit, BoundedSeq, SeqOf
<1>3. BurstInit => BurstTypeOK
  <2>1. <<>> \in Seq(Burst) /\ 0 \in 0..1
    OBVIOUS
  <2>2. BurstInit => {stored, framed} \subseteq BOOLEAN /\ onScene \subseteq Bodies
    BY DEF BurstInit
  <2>3. BurstInit => pool = <<>> /\ burstStep = 0
    BY DEF BurstInit
  <2>. QED  BY <1>2, <2>1, <2>2, <2>3, Zenon DEF BurstTypeOK
<1>4. BurstInit => BurstsHaveRoom
  <2>1. DOMAIN <<>> = {}
    OBVIOUS
  <2>. QED  BY <1>1, <2>1 DEF BurstsHaveRoom
<1>. QED  BY <1>3, <1>4 DEF BurstInv

LEMMA BurstFrameStep ==
    ASSUME BurstInv, BurstFrame
    PROVE  BurstInv' /\ (stored = framed => OldestGivesWay)
<1>1. PICK there \in SUBSET Bodies, news \in BoundedSeq(Events, MaxTold),
           focusKey \in Bodies \cup {NoBody}, step \in 0..1 :
         LET kept == IF stored = framed THEN Aged(pool, step) ELSE <<>>
             bursts == WithBursts(kept, news, there, focusKey)
         IN  /\ pool' = Centered(Active(bursts), there)
             /\ onScene' = there /\ told' = news
             /\ framed' = stored /\ burstStep' = step
             /\ UNCHANGED stored
  BY DEF BurstFrame
<1>. DEFINE kept == IF stored = framed THEN Aged(pool, step) ELSE <<>>
            bursts == WithBursts(kept, news, there, focusKey)
            all == AllBursts(kept, news, there)
            live == Active(bursts)
            S == Ours(there)
<1>2. /\ pool' = Centered(live, there) /\ onScene' = there /\ told' = news
      /\ framed' = stored /\ burstStep' = step /\ stored' = stored
  BY <1>1
<1>3. /\ stored \in BOOLEAN /\ framed \in BOOLEAN /\ POOL_CAPACITY \in Nat
      /\ Used(pool) <= POOL_CAPACITY /\ pool \in Seq(Drawn(framed))
  BY BurstAssumption, PoolDrawn DEF BurstInv, BurstTypeOK, BurstsHaveRoom
<1>4. news \in Seq(Events)
  BY DEF BoundedSeq, SeqOf
<1>5. kept \in Seq(S) /\ Used(kept) <= POOL_CAPACITY
  <2>1. CASE stored = framed
    <3>1. pool \in Seq(Drawn(stored))
      BY <1>3, <2>1
    <3>. QED  BY <1>3, <2>1, <3>1, AgedFact
  <2>2. CASE stored # framed
    BY <1>3, <2>2, UsedEmpty
  <2>. QED  BY <2>1, <2>2
<1>. HIDE DEF kept
<1>6. bursts \in Seq(S) /\ LongestEnd(bursts, all) /\ all \in Seq(Measure)
  BY <1>3, <1>4, <1>5, BurstAssumption, WithBurstsFact
<1>7. Counted(S)
  BY CountedFact DEF Counted, Ours
<1>. HIDE DEF bursts, all
<1>8. live \in Seq(S) /\ Used(live) <= Used(bursts) /\ Measures(live) = Active(Measures(bursts))
  <2>. HIDE DEF S
  <2>. QED  BY <1>6, <1>7, ActiveType, ActiveUsed, ActiveMeasures
<1>9. Used(live) \in Nat /\ Used(bursts) \in Nat
  <2>. HIDE DEF S, live
  <2>. QED  BY <1>6, <1>7, <1>8, UsedType
<1>. HIDE DEF live
<1>10. /\ pool' \in Seq(Drawn(stored)) /\ Measures(pool') = Active(Measures(bursts))
       /\ Used(pool') = Used(live)
  BY <1>2, <1>8, CenteredFact
<1>11. BurstInv'
  <2>1. Used(pool') <= POOL_CAPACITY
    BY <1>3, <1>6, <1>8, <1>9, <1>10 DEF LongestEnd
  <2>2. pool' \in Seq(Burst) /\ \A i \in DOMAIN pool' : pool'[i].center /\ pool'[i].session = stored
    BY <1>10, DrawnPool
  <2>3. Used(pool)' = Used(pool')
    BY DEF Used
  <2>. QED  BY <1>2, <1>3, <2>1, <2>2, <2>3 DEF BurstInv, BurstTypeOK, BurstsHaveRoom
<1>12. ASSUME stored = framed PROVE OldestGivesWay
  <2>1. AllBursts(Aged(pool, burstStep'), told', onScene') = all
    BY <1>2, <1>12 DEF all, kept
  <2>2. PICK i \in 1..Len(all) + 1 :
           /\ Measures(bursts) = From(all, i)
           /\ i > 1 => Used(From(all, i - 1)) > POOL_CAPACITY
    BY <1>6 DEF LongestEnd
  <2>3. Measures(pool') = Active(From(all, i))
    BY <1>10, <2>2
  <2>. QED  BY <2>1, <2>2, <2>3 DEF OldestGivesWay
<1>. QED  BY <1>11, <1>12

LEMMA BurstEmptyFrameStep ==
    ASSUME BurstInv, BurstEmptyFrame
    PROVE  BurstInv'
<1>1. pool' = <<>> /\ told' = <<>> /\ Used(<<>>) = 0 /\ POOL_CAPACITY \in Nat
  BY UsedEmpty, BurstAssumption DEF BurstEmptyFrame
<1>2. told' \in BoundedSeq(Events, MaxTold)
  BY <1>1, BurstAssumption DEF BoundedSeq, SeqOf
<1>3. Used(pool') <= POOL_CAPACITY
  BY <1>1
<1>4. pool' \in Seq(Burst) /\ \A i \in DOMAIN pool' : FALSE
  BY <1>1
<1>5. Used(pool)' = Used(pool')
  BY DEF Used
<1>. QED  BY <1>2, <1>3, <1>4, <1>5
       DEF BurstEmptyFrame, BurstInv, BurstTypeOK, BurstsHaveRoom

LEMMA BurstSessionStep ==
    ASSUME BurstInv, BurstSession
    PROVE  BurstInv' /\ stored' # stored
<1>1. /\ stored' = ~stored /\ stored \in BOOLEAN
      /\ UNCHANGED <<pool, onScene, told, framed, burstStep>>
  BY DEF BurstInv, BurstTypeOK, BurstSession
<1>2. Used(pool)' = Used(pool)
  BY <1>1 DEF Used
<1>. QED  BY <1>1, <1>2 DEF BurstInv, BurstTypeOK, BurstsHaveRoom

BurstPromise ==
    /\ BurstsHaveRoom'
    /\ stored' = stored /\ stored = framed /\ ~BurstEmptyFrame => OldestGivesWay

LEMMA BurstNextInv ==
    ASSUME BurstInv, [BurstNext]_burstVars
    PROVE  BurstInv' /\ [BurstPromise]_burstVars
<1>1. CASE BurstFrame
  BY <1>1, BurstFrameStep DEF BurstInv, BurstPromise
<1>2. CASE BurstEmptyFrame
  BY <1>2, BurstEmptyFrameStep DEF BurstInv, BurstPromise
<1>3. CASE BurstSession
  BY <1>3, BurstSessionStep DEF BurstInv, BurstPromise
<1>4. CASE UNCHANGED burstVars
  <2>1. Used(pool)' = Used(pool)
    BY <1>4 DEF Used, burstVars
  <2>. QED  BY <1>4, <2>1 DEF BurstInv, BurstTypeOK, BurstsHaveRoom, burstVars
<1>. QED  BY <1>1, <1>2, <1>3, <1>4 DEF BurstNext

\* The bursts never outgrow the buffer of the particles, each has a body it is
\* drawn around or remembers and is of this session, and one ends before its
\* time only if it and what came after it do not fit: BurstPool.add and the
\* frames of SceneRoot.tsx and Particles.tsx that call it.
THEOREM BurstsStayOrderly == BurstSpec => BurstsOrderly
BY BurstInitInv, BurstNextInv, PTL DEF BurstSpec, BurstsOrderly, BurstPromise

----------------------------------------------------------------------------
(***************************************************************************)
(* Orbits: the plan.                                                       *)
(***************************************************************************)
Ring == [radius : Nat, keys : SUBSET OrbitKeys, maxBodyRadius : Nat, used : Nat]

Sized(radii) == DOMAIN radii \subseteq OrbitKeys /\ \A k \in DOMAIN radii : radii[k] \in Sizes

\* i has the room that is needed by every subset of the bodies.
Room(i, radii) ==
    /\ i[{}] = 0
    /\ \A t \in SUBSET DOMAIN radii :
          i[t] \in Nat /\ \A k \in t : i[t] = i[t \ {k}] + Need(radii[k])

\* The body of s that comes after all others.
Smallest(k, s, radii) == k \in s /\ \A l \in s \ {k} : ByRadiusThenKey(l, k, radii)

\* A ring has bodies of s, none larger than it knows, and room for them unless
\* it is one; the star is apart.
RingWell(ring, s, radii, i) ==
    /\ ring.keys # {} /\ ring.keys \subseteq s
    /\ \A k \in ring.keys : radii[k] <= ring.maxBodyRadius
    /\ ring.used = i[ring.keys]
    /\ (\E k \in s : ring.keys = {k}) \/ 7 * ring.used <= Girth * ring.radius
    /\ ring.radius >= STAR_RADIUS + STAR_GAP + ring.maxBodyRadius

\* Of two rings the outer one is apart from the inner one and has the smaller
\* bodies.
Outward(inner, outer, radii) ==
    /\ outer.radius >= inner.radius + inner.maxBodyRadius + RING_GAP + outer.maxBodyRadius
    /\ \A k \in inner.keys, l \in outer.keys : k # l /\ radii[k] >= radii[l]

WellPlanned(rings, s, radii, i) ==
    /\ rings \in Seq(Ring)
    /\ \A j \in 1..Len(rings) : RingWell(rings[j], s, radii, i)
    /\ \A j, m \in 1..Len(rings) : j < m => Outward(rings[j], rings[m], radii)
    /\ \A k \in s : \E j \in 1..Len(rings) : k \in rings[j].keys

LEMMA ConstantsNat ==
    /\ STAR_RADIUS \in Nat /\ STAR_GAP \in Nat /\ ARC_GAP \in Nat /\ RING_GAP \in Nat
    /\ OUTSIDE_MARGIN \in Nat /\ Reach \in Nat /\ MAX_RINGS \in Nat
    /\ RADIUS_DEADBAND \in Nat /\ RADIUS_DEADBAND > 0
    /\ OrbitKeys \subseteq Nat /\ IsFiniteSet(OrbitKeys) /\ Sizes \subseteq Nat
BY OrbitAssumption

LEMMA SizedFact ==
    ASSUME NEW radii, Sized(radii)
    PROVE  /\ \A k \in DOMAIN radii : /\ k \in OrbitKeys /\ k \in Nat /\ radii[k] \in Nat
                                      /\ Need(radii[k]) \in Nat
           /\ IsFiniteSet(DOMAIN radii)
<1>1. IsFiniteSet(DOMAIN radii)
  BY ConstantsNat, FS_Subset DEF Sized
<1>2. ASSUME NEW k \in DOMAIN radii
      PROVE  k \in OrbitKeys /\ k \in Nat /\ radii[k] \in Nat /\ Need(radii[k]) \in Nat
  <2>1. k \in OrbitKeys /\ k \in Nat /\ radii[k] \in Nat /\ ARC_GAP \in Nat
    BY ConstantsNat DEF Sized
  <2>. QED  BY <2>1 DEF Need
<1>. QED  BY <1>1, <1>2

LEMMA JoinsFact ==
    ASSUME NEW ring \in Ring, NEW k \in OrbitKeys, NEW r, Need(r) \in Nat
    PROVE  /\ Joins(ring, k, r) \in Ring
           /\ Joins(ring, k, r).radius = ring.radius
           /\ Joins(ring, k, r).keys = ring.keys \cup {k}
           /\ Joins(ring, k, r).maxBodyRadius = ring.maxBodyRadius
           /\ Joins(ring, k, r).used = ring.used + Need(r)
<1>. DEFINE keys == ring.keys \cup {k}
            used == ring.used + Need(r)
<1>1. keys \in SUBSET OrbitKeys /\ used \in Nat
  BY DEF Ring
<1>2. Joins(ring, k, r) = [ring EXCEPT !.keys = keys, !.used = used]
  BY DEF Joins
<1>. HIDE DEF keys, used
<1>3. /\ Joins(ring, k, r) \in Ring
      /\ Joins(ring, k, r).radius = ring.radius
      /\ Joins(ring, k, r).keys = keys
      /\ Joins(ring, k, r).maxBodyRadius = ring.maxBodyRadius
      /\ Joins(ring, k, r).used = used
  BY <1>1, <1>2 DEF Ring
<1>. QED  BY <1>3 DEF keys, used

LEMMA PlacedType ==
    ASSUME NEW rings \in Seq(Ring), NEW k \in OrbitKeys, NEW r \in Nat
    PROVE  /\ Outside(rings, r) \in Nat
           /\ [radius |-> Outside(rings, r), keys |-> {k}, maxBodyRadius |-> r,
               used |-> Need(r)] \in Ring
           /\ Placed(rings, k, r) \in Seq(Ring)
<1>. DEFINE n == Len(rings)
            new == [radius |-> Outside(rings, r), keys |-> {k}, maxBodyRadius |-> r,
                    used |-> Need(r)]
            last == Joins(rings[n], k, r)
            added == [rings EXCEPT ![n] = last]
<1>1. n \in Nat /\ DOMAIN rings = 1..n /\ \A j \in 1..n : rings[j] \in Ring
  BY LenProperties, ElementOfSeq
<1>2. rings # <<>> => n \in 1..n /\ Last(rings) = rings[n] /\ rings[n] \in Ring
  <2>1. rings # <<>> => n # 0
    BY EmptySeq
  <2>. QED  BY <1>1, <2>1 DEF Last
<1>3. Outside(rings, r) \in Nat /\ Need(r) \in Nat
  BY <1>2, ConstantsNat DEF Outside, Need, Ring
<1>4. new \in Ring
  BY <1>3 DEF Ring
<1>5. rings # <<>> => added \in Seq(Ring)
  <2>1. SUFFICES ASSUME rings # <<>> PROVE added \in Seq(Ring)
    OBVIOUS
  <2>2. k \in OrbitKeys /\ rings[n] \in Ring /\ Need(r) \in Nat
    BY <1>2, <1>3, <2>1
  <2>3. last \in Ring
    BY <2>2, JoinsFact
  <2>. HIDE DEF last
  <2>. QED  BY <1>2, <2>1, <2>3, ExceptSeq
<1>6. Append(rings, new) \in Seq(Ring)
  <2>. HIDE DEF new
  <2>. QED  BY <1>4, AppendProperties
<1>7. Placed(rings, k, r) = Append(rings, new) \/ (rings # <<>> /\ Placed(rings, k, r) = added)
  BY DEF Placed
<1>. QED  BY <1>3, <1>4, <1>5, <1>6, <1>7

\* A body too many begins a ring outside the others.
LEMMA NewRingWell ==
    ASSUME NEW radii, Sized(radii), NEW i, Room(i, radii),
           NEW s, s \subseteq DOMAIN radii, NEW k, Smallest(k, s, radii),
           NEW rings, WellPlanned(rings, s \ {k}, radii, i)
    PROVE  WellPlanned(Append(rings, [radius |-> Outside(rings, radii[k]), keys |-> {k},
                                      maxBodyRadius |-> radii[k], used |-> Need(radii[k])]),
                       s, radii, i)
<1>. DEFINE n == Len(rings)
            new == [radius |-> Outside(rings, radii[k]), keys |-> {k},
                    maxBodyRadius |-> radii[k], used |-> Need(radii[k])]
            after == Append(rings, new)
<1>1. /\ k \in s /\ k \in DOMAIN radii /\ k \in OrbitKeys /\ radii[k] \in Nat
      /\ \A l \in s : l \in DOMAIN radii /\ radii[l] \in Nat
      /\ \A l \in s \ {k} : radii[l] >= radii[k]
  <2>1. \A l \in s : l \in DOMAIN radii /\ l \in OrbitKeys /\ radii[l] \in Nat
    BY SizedFact
  <2>. QED  BY <2>1 DEF Smallest, ByRadiusThenKey
<1>2. /\ rings \in Seq(Ring) /\ n \in Nat /\ \A j \in 1..n : rings[j] \in Ring
      /\ \A j \in 1..n : RingWell(rings[j], s \ {k}, radii, i)
      /\ \A j, m \in 1..n : j < m => Outward(rings[j], rings[m], radii)
      /\ \A l \in s \ {k} : \E j \in 1..n : l \in rings[j].keys
  BY LenProperties, ElementOfSeq DEF WellPlanned
<1>3. /\ new \in Ring /\ new.keys = {k} /\ new.maxBodyRadius = radii[k]
      /\ new.used = Need(radii[k]) /\ new.radius = Outside(rings, radii[k])
  BY <1>1, <1>2, PlacedType
<1>. HIDE DEF new
<1>4. /\ after \in Seq(Ring) /\ Len(after) = n + 1
      /\ \A j \in 1..n : after[j] = rings[j]
      /\ after[n + 1] = new
  BY <1>2, <1>3, AppendProperties
<1>. HIDE DEF after
<1>5. \A j \in 1..n : RingWell(rings[j], s, radii, i)
  BY <1>2 DEF RingWell
<1>6. \/ rings = <<>> /\ n = 0 /\ new.radius = STAR_RADIUS + STAR_GAP + radii[k]
      \/ /\ n \in 1..n /\ rings[n] \in Ring
         /\ new.radius = rings[n].radius + rings[n].maxBodyRadius + RING_GAP + radii[k]
  <2>1. rings = <<>> \/ n # 0
    BY <1>2, EmptySeq
  <2>2. CASE rings = <<>>
    BY <1>3, <2>2, EmptySeq DEF Outside
  <2>3. CASE rings # <<>>
    <3>1. n \in 1..n
      BY <1>2, <2>1, <2>3
    <3>. QED  BY <1>2, <1>3, <2>3, <3>1 DEF Outside, Last
  <2>. QED  BY <2>2, <2>3
<1>7. RingWell(new, s, radii, i)
  <2>1. new.used = i[new.keys]
    <3>1. {k} \in SUBSET DOMAIN radii /\ {k} \ {k} = {}
      BY <1>1
    <3>2. i[{k}] = i[{}] + Need(radii[k]) /\ i[{}] = 0
      BY <3>1 DEF Room
    <3>3. Need(radii[k]) \in Nat
      BY <1>1, SizedFact
    <3>. QED  BY <1>3, <3>2, <3>3
  <2>2. new.radius >= STAR_RADIUS + STAR_GAP + new.maxBodyRadius
    <3>1. STAR_RADIUS \in Nat /\ STAR_GAP \in Nat /\ RING_GAP \in Nat /\ radii[k] \in Nat
      BY <1>1, ConstantsNat
    <3>2. CASE n = 0 /\ new.radius = STAR_RADIUS + STAR_GAP + radii[k]
      BY <1>3, <3>1, <3>2
    <3>3. CASE /\ n \in 1..n /\ rings[n] \in Ring
               /\ new.radius = rings[n].radius + rings[n].maxBodyRadius + RING_GAP + radii[k]
      <4>1. /\ rings[n].radius \in Nat /\ rings[n].maxBodyRadius \in Nat
            /\ rings[n].radius >= STAR_RADIUS + STAR_GAP + rings[n].maxBodyRadius
        BY <1>5, <3>3 DEF RingWell, Ring
      <4>. QED  BY <1>3, <3>1, <3>3, <4>1
    <3>. QED  BY <1>6, <3>2, <3>3
  <2>3. new.keys # {} /\ new.keys \subseteq s /\ \E l \in s : new.keys = {l}
    BY <1>1, <1>3
  <2>4. \A l \in new.keys : radii[l] <= new.maxBodyRadius
    BY <1>1, <1>3
  <2>. QED  BY <2>1, <2>2, <2>3, <2>4 DEF RingWell
<1>8. ASSUME NEW j \in 1..n PROVE Outward(rings[j], new, radii)
  <2>1. n \in 1..n /\ rings[n] \in Ring /\ rings[j] \in Ring
        /\ new.radius = rings[n].radius + rings[n].maxBodyRadius + RING_GAP + radii[k]
    BY <1>2, <1>6, <1>8
  <2>2. /\ rings[n].radius \in Nat /\ rings[n].maxBodyRadius \in Nat
        /\ rings[j].radius \in Nat /\ rings[j].maxBodyRadius \in Nat
        /\ RING_GAP \in Nat /\ radii[k] \in Nat
    BY <1>1, <2>1, ConstantsNat DEF Ring
  <2>3. j = n \/ rings[n].radius >= rings[j].radius + rings[j].maxBodyRadius + RING_GAP
                                      + rings[n].maxBodyRadius
    BY <1>2, <1>8, <2>1 DEF Outward
  <2>4. new.radius >= rings[j].radius + rings[j].maxBodyRadius + RING_GAP + new.maxBodyRadius
    BY <1>3, <2>1, <2>2, <2>3
  <2>5. rings[j].keys \subseteq s \ {k}
    BY <1>2, <1>8 DEF RingWell
  <2>6. \A l \in rings[j].keys, m \in new.keys : l # m /\ radii[l] >= radii[m]
    BY <1>1, <1>3, <2>5
  <2>. QED  BY <2>4, <2>6 DEF Outward
<1>9. \A j \in 1..n + 1 : j \in 1..n \/ j = n + 1
  BY <1>2
<1>10. \A j \in 1..Len(after) : RingWell(after[j], s, radii, i)
  BY <1>4, <1>5, <1>7, <1>9
<1>11. \A j, m \in 1..Len(after) : j < m => Outward(after[j], after[m], radii)
  <2>1. SUFFICES ASSUME NEW j \in 1..n + 1, NEW m \in 1..n + 1, j < m
                 PROVE  Outward(after[j], after[m], radii)
    BY <1>4
  <2>2. j \in 1..n
    BY <1>2, <2>1
  <2>3. CASE m \in 1..n
    BY <1>2, <1>4, <2>1, <2>2, <2>3
  <2>4. CASE m = n + 1
    BY <1>4, <1>8, <2>2, <2>4
  <2>. QED  BY <1>9, <2>3, <2>4
<1>12. \A l \in s : \E j \in 1..Len(after) : l \in after[j].keys
  <2>1. ASSUME NEW l \in s, l # k PROVE \E j \in 1..Len(after) : l \in after[j].keys
    <3>1. PICK j \in 1..n : l \in rings[j].keys
      BY <1>2, <2>1
    <3>2. j \in 1..n + 1 /\ after[j] = rings[j]
      BY <1>2, <1>4, <3>1
    <3>. QED  BY <1>4, <3>1, <3>2
  <2>2. n + 1 \in 1..Len(after) /\ k \in after[n + 1].keys
    BY <1>2, <1>3, <1>4
  <2>. QED  BY <2>1, <2>2
<1>13. WellPlanned(after, s, radii, i)
  BY <1>4, <1>10, <1>11, <1>12 DEF WellPlanned
<1>. QED  BY <1>13 DEF after, new

\* A body that has room joins the outermost ring.
LEMMA JoinedRingWell ==
    ASSUME NEW radii, Sized(radii), NEW i, Room(i, radii),
           NEW s, s \subseteq DOMAIN radii, NEW k, Smallest(k, s, radii),
           NEW rings, rings # <<>>, WellPlanned(rings, s \ {k}, radii, i),
           ~NoRoom(Last(rings), radii[k])
    PROVE  WellPlanned([rings EXCEPT ![Len(rings)] = Joins(rings[Len(rings)], k, radii[k])],
                       s, radii, i)
<1>. DEFINE n == Len(rings)
            ring == Joins(rings[n], k, radii[k])
            after == [rings EXCEPT ![n] = ring]
<1>1. /\ k \in s /\ k \in DOMAIN radii /\ k \in OrbitKeys /\ radii[k] \in Nat
      /\ \A l \in s : l \in DOMAIN radii /\ radii[l] \in Nat
      /\ \A l \in s \ {k} : radii[l] >= radii[k]
  <2>1. \A l \in s : l \in DOMAIN radii /\ l \in OrbitKeys /\ radii[l] \in Nat
    BY SizedFact
  <2>. QED  BY <2>1 DEF Smallest, ByRadiusThenKey
<1>2. /\ rings \in Seq(Ring) /\ n \in Nat /\ \A j \in 1..n : rings[j] \in Ring
      /\ \A j \in 1..n : RingWell(rings[j], s \ {k}, radii, i)
      /\ \A j, m \in 1..n : j < m => Outward(rings[j], rings[m], radii)
      /\ \A l \in s \ {k} : \E j \in 1..n : l \in rings[j].keys
  BY LenProperties, ElementOfSeq DEF WellPlanned
<1>3. n \in 1..n /\ rings[n] \in Ring /\ Last(rings) = rings[n]
  <2>1. n # 0
    BY <1>2, EmptySeq
  <2>. QED  BY <1>2, <2>1 DEF Last
<1>4. Need(radii[k]) \in Nat
  BY <1>1, SizedFact
<1>5. /\ ring \in Ring /\ ring.radius = rings[n].radius
      /\ ring.keys = rings[n].keys \cup {k}
      /\ ring.maxBodyRadius = rings[n].maxBodyRadius
      /\ ring.used = rings[n].used + Need(radii[k])
  BY <1>1, <1>3, <1>4, JoinsFact
<1>. HIDE DEF ring
<1>6. /\ after \in Seq(Ring) /\ Len(after) = n
      /\ \A j \in 1..n : after[j] = IF j = n THEN ring ELSE rings[j]
  BY <1>2, <1>3, <1>5, ExceptSeq
<1>. HIDE DEF after
<1>7. \A j \in 1..n : RingWell(rings[j], s, radii, i)
  BY <1>2 DEF RingWell
<1>8. /\ rings[n].keys # {} /\ rings[n].keys \subseteq s \ {k}
      /\ \A l \in rings[n].keys : radii[l] <= rings[n].maxBodyRadius
      /\ rings[n].used = i[rings[n].keys]
      /\ rings[n].radius >= STAR_RADIUS + STAR_GAP + rings[n].maxBodyRadius
      /\ rings[n].radius \in Nat /\ rings[n].maxBodyRadius \in Nat /\ rings[n].used \in Nat
  BY <1>2, <1>3 DEF RingWell, Ring
<1>9. RingWell(ring, s, radii, i)
  <2>1. ring.used = i[ring.keys]
    <3>1. ring.keys \in SUBSET DOMAIN radii /\ k \in ring.keys /\ ring.keys \ {k} = rings[n].keys
      BY <1>1, <1>5, <1>8
    <3>2. i[ring.keys] = i[ring.keys \ {k}] + Need(radii[k])
      BY <3>1 DEF Room
    <3>. QED  BY <1>5, <1>8, <3>1, <3>2
  <2>2. \A l \in ring.keys : radii[l] <= ring.maxBodyRadius
    <3>1. PICK l \in rings[n].keys : l \in s \ {k}
      BY <1>8
    <3>2. radii[l] \in Nat /\ radii[l] >= radii[k] /\ radii[l] <= rings[n].maxBodyRadius
      BY <1>1, <1>8, <3>1
    <3>3. radii[k] <= rings[n].maxBodyRadius
      BY <1>1, <1>8, <3>2
    <3>. QED  BY <1>5, <1>8, <3>3
  <2>3. 7 * ring.used <= Girth * ring.radius
    <3>1. ~(7 * (rings[n].used + Need(radii[k])) > Girth * rings[n].radius)
      BY <1>3 DEF NoRoom
    <3>. QED  BY <1>4, <1>5, <1>8, <3>1 DEF Girth
  <2>4. ring.keys # {} /\ ring.keys \subseteq s
    BY <1>1, <1>5, <1>8
  <2>. QED  BY <1>5, <1>8, <2>1, <2>2, <2>3, <2>4 DEF RingWell
<1>10. ASSUME NEW j \in 1..n, j < n PROVE Outward(rings[j], ring, radii)
  <2>1. Outward(rings[j], rings[n], radii)
    BY <1>2, <1>3, <1>10
  <2>2. rings[j].keys \subseteq s \ {k}
    BY <1>2, <1>10 DEF RingWell
  <2>3. \A l \in rings[j].keys : l # k /\ radii[l] >= radii[k]
    BY <1>1, <2>2
  <2>. QED  BY <1>5, <2>1, <2>3 DEF Outward
<1>11. \A j \in 1..Len(after) : RingWell(after[j], s, radii, i)
  BY <1>6, <1>7, <1>9
<1>12. \A j, m \in 1..Len(after) : j < m => Outward(after[j], after[m], radii)
  <2>1. SUFFICES ASSUME NEW j \in 1..n, NEW m \in 1..n, j < m
                 PROVE  Outward(after[j], after[m], radii)
    BY <1>6
  <2>2. j # n /\ j < n /\ after[j] = rings[j]
    BY <1>2, <1>6, <2>1
  <2>3. CASE m # n
    BY <1>2, <1>6, <2>1, <2>2, <2>3
  <2>4. CASE m = n
    BY <1>6, <1>10, <2>2, <2>4
  <2>. QED  BY <2>3, <2>4
<1>13. \A l \in s : \E j \in 1..Len(after) : l \in after[j].keys
  <2>1. ASSUME NEW l \in s, l # k PROVE \E j \in 1..Len(after) : l \in after[j].keys
    <3>1. PICK j \in 1..n : l \in rings[j].keys
      BY <1>2, <2>1
    <3>2. l \in after[j].keys
      BY <1>5, <1>6, <3>1
    <3>. QED  BY <1>6, <3>1, <3>2
  <2>2. n \in 1..Len(after) /\ k \in after[n].keys
    BY <1>3, <1>5, <1>6
  <2>. QED  BY <2>1, <2>2
<1>14. WellPlanned(after, s, radii, i)
  BY <1>6, <1>11, <1>12, <1>13 DEF WellPlanned
<1>. QED  BY <1>14 DEF after, ring

LEMMA PlacedWell ==
    ASSUME NEW radii, Sized(radii), NEW i, Room(i, radii),
           NEW s, s \subseteq DOMAIN radii, NEW k, Smallest(k, s, radii),
           NEW rings, WellPlanned(rings, s \ {k}, radii, i)
    PROVE  WellPlanned(Placed(rings, k, radii[k]), s, radii, i)
<1>1. CASE rings = <<>> \/ NoRoom(Last(rings), radii[k])
  <2>1. Placed(rings, k, radii[k])
          = Append(rings, [radius |-> Outside(rings, radii[k]), keys |-> {k},
                           maxBodyRadius |-> radii[k], used |-> Need(radii[k])])
    BY <1>1 DEF Placed
  <2>. QED  BY <2>1, NewRingWell
<1>2. CASE ~(rings = <<>> \/ NoRoom(Last(rings), radii[k]))
  <2>1. Placed(rings, k, radii[k])
          = [rings EXCEPT ![Len(rings)] = Joins(rings[Len(rings)], k, radii[k])]
    BY <1>2 DEF Placed
  <2>. QED  BY <1>2, <2>1, JoinedRingWell
<1>. QED  BY <1>1, <1>2

\* Of two bodies one ranks before the other, and the order is transitive.
LEMMA SmallestExists ==
    ASSUME NEW radii, Sized(radii), NEW s, s \subseteq DOMAIN radii, s # {}
    PROVE  \E k \in s : Smallest(k, s, radii)
<1>. DEFINE R == {p \in s \X s : ByRadiusThenKey(p[1], p[2], radii)}
<1>1. \A k \in s : k \in Nat /\ radii[k] \in Nat
  BY SizedFact
<1>2. \A a, b \in s : <<a, b>> \in R <=> ByRadiusThenKey(a, b, radii)
  OBVIOUS
<1>. HIDE DEF R
<1>3. \A a, b \in s : <<a, a>> \notin R /\ (a # b => <<a, b>> \in R \/ <<b, a>> \in R)
  <2>1. SUFFICES ASSUME NEW a \in s, NEW b \in s
                 PROVE  /\ ~ByRadiusThenKey(a, a, radii)
                        /\ a # b => ByRadiusThenKey(a, b, radii) \/ ByRadiusThenKey(b, a, radii)
    BY <1>2
  <2>2. a \in Nat /\ b \in Nat /\ radii[a] \in Nat /\ radii[b] \in Nat
    BY <1>1
  <2>. QED  BY <2>2 DEF ByRadiusThenKey
<1>4. \A a, b, c \in s : <<a, b>> \in R /\ <<b, c>> \in R => <<a, c>> \in R
  <2>1. SUFFICES ASSUME NEW a \in s, NEW b \in s, NEW c \in s,
                        ByRadiusThenKey(a, b, radii), ByRadiusThenKey(b, c, radii)
                 PROVE  ByRadiusThenKey(a, c, radii)
    BY <1>2
  <2>2. /\ a \in Nat /\ b \in Nat /\ c \in Nat
        /\ radii[a] \in Nat /\ radii[b] \in Nat /\ radii[c] \in Nat
    BY <1>1
  <2>. QED  BY <2>1, <2>2 DEF ByRadiusThenKey
<1>5. IsFiniteSet(s)
  BY SizedFact, FS_Subset
<1>6. OrderOn(s, R)
  BY <1>3, <1>4 DEF OrderOn
<1>7. \E k \in s : \A l \in s \ {k} : <<l, k>> \in R
  BY <1>5, <1>6, LastOfOrder
<1>. QED  BY <1>2, <1>7 DEF Smallest

\* rings are those of every subset of the bodies, the smallest body placed last.
LeastOf(radii) ==
    [s \in SUBSET DOMAIN radii |->
        CHOOSE k \in s : \A l \in s \ {k} : ByRadiusThenKey(l, k, radii)]

RingsOf(rings, radii, least) ==
    rings = [s \in SUBSET DOMAIN radii |->
                IF s = {} THEN <<>>
                ELSE Placed(rings[s \ {least[s]}], least[s], radii[least[s]])]

LEMMA LeastOfFact ==
    ASSUME NEW radii, Sized(radii), NEW s \in SUBSET DOMAIN radii, s # {}
    PROVE  Smallest(LeastOf(radii)[s], s, radii) /\ LeastOf(radii)[s] \in s
<1>1. \E k \in s : Smallest(k, s, radii)
  BY SmallestExists
<1>2. LeastOf(radii)[s] = CHOOSE k \in s : \A l \in s \ {k} : ByRadiusThenKey(l, k, radii)
  BY DEF LeastOf
<1>. QED  BY <1>1, <1>2 DEF Smallest

LEMMA RingsExist ==
    ASSUME NEW radii, Sized(radii)
    PROVE  \E rings : RingsOf(rings, radii, LeastOf(radii))
<1>. DEFINE S == DOMAIN radii
            last == LeastOf(radii)
            G == [p \in Seq(Ring) \X S |-> Placed(p[1], p[2], radii[p[2]])]
            V == Seq(Ring)
            none == <<>>
<1>1. IsFiniteSet(S) /\ \A k \in S : k \in OrbitKeys /\ radii[k] \in Nat
  BY SizedFact
<1>2. \A s \in SUBSET S : s # {} => last[s] \in s
  BY LeastOfFact
<1>3. G \in [V \X S -> V]
  <2>1. ASSUME NEW rings \in Seq(Ring), NEW k \in S PROVE Placed(rings, k, radii[k]) \in Seq(Ring)
    BY <1>1, PlacedType
  <2>. QED  BY <2>1
<1>4. none \in V
  BY EmptySeq
<1>5. \A rings \in V, k \in S : G[<<rings, k>>] = Placed(rings, k, radii[k])
  OBVIOUS
<1>. HIDE DEF G, V, none, last, S
<1>6. PICK f \in [SUBSET S -> V] : TakesLast(f, none, G, last, S)
  BY <1>1, <1>2, <1>3, <1>4, SubsetRecursion
<1>7. ASSUME NEW s \in SUBSET S
      PROVE  f[s] = IF s = {} THEN none
                    ELSE Placed(f[s \ {last[s]}], last[s], radii[last[s]])
  <2>1. f[s] = IF s = {} THEN none ELSE G[<<f[s \ {last[s]}], last[s]>>]
    BY <1>6 DEF TakesLast
  <2>2. s # {} => last[s] \in S /\ f[s \ {last[s]}] \in V
    BY <1>2, <1>6
  <2>. QED  BY <1>5, <2>1, <2>2
<1>8. f = [s \in SUBSET S |-> f[s]]
  OBVIOUS
<1>9. f = [s \in SUBSET S |-> IF s = {} THEN none
                               ELSE Placed(f[s \ {last[s]}], last[s], radii[last[s]])]
  BY <1>7, <1>8
<1>10. RingsOf(f, radii, last)
  BY <1>9 DEF RingsOf, S, none
<1>. QED  BY <1>10 DEF last

OneMore(rings, s, radii, least) ==
    rings[s] = IF s = {} THEN <<>>
               ELSE Placed(rings[s \ {least[s]}], least[s], radii[least[s]])

LEMMA RingsStep ==
    ASSUME NEW rings, NEW radii, NEW least, RingsOf(rings, radii, least),
           NEW s, s \subseteq DOMAIN radii
    PROVE  OneMore(rings, s, radii, least)
<1>. DEFINE all == [t \in SUBSET DOMAIN radii |->
                      IF t = {} THEN <<>>
                      ELSE Placed(rings[t \ {least[t]}], least[t], radii[least[t]])]
<1>1. rings = all
  BY DEF RingsOf
<1>2. all[s] = IF s = {} THEN <<>>
               ELSE Placed(rings[s \ {least[s]}], least[s], radii[least[s]])
  OBVIOUS
<1>. HIDE DEF all
<1>3. rings[s] = all[s]
  BY <1>1
<1>. QED  BY <1>2, <1>3 DEF OneMore

LEMMA RoomExists ==
    ASSUME NEW radii, Sized(radii)
    PROVE  \E i : /\ Room(i, radii)
                  /\ IsSum(i, [k \in DOMAIN radii |-> Need(radii[k])], DOMAIN radii)
<1>. DEFINE S == DOMAIN radii
            f == [k \in S |-> Need(radii[k])]
<1>1. IsFiniteSet(S) /\ \A k \in S : f[k] \in Nat /\ f[k] = Need(radii[k])
  BY SizedFact
<1>. HIDE DEF f, S
<1>2. PICK i : IsSum(i, f, S)
  BY <1>1, SumExists
<1>3. \A t \in SUBSET S : i[t] \in Nat /\ \A k \in t : i[t] = i[t \ {k}] + f[k]
  BY <1>1, <1>2, SumWithout
<1>4. i[{}] = 0
  <2>1. Adds(i, f, S)
    BY <1>2, SumStep
  <2>. QED  BY <2>1 DEF Adds
<1>5. \A t \in SUBSET S : i[t] \in Nat /\ \A k \in t : i[t] = i[t \ {k}] + Need(radii[k])
  <2>1. ASSUME NEW t \in SUBSET S, NEW k \in t PROVE i[t] = i[t \ {k}] + Need(radii[k])
    BY <1>1, <1>3
  <2>. QED  BY <1>3, <2>1
<1>6. Room(i, radii)
  BY <1>4, <1>5 DEF Room, S
<1>. QED  BY <1>2, <1>6 DEF f, S

LEMMA PlanOrbitsFact ==
    ASSUME NEW radii, Sized(radii)
    PROVE  \E rings : /\ RingsOf(rings, radii, LeastOf(radii))
                      /\ PlanOrbits(radii) = rings[DOMAIN radii]
<1>. DEFINE least == LeastOf(radii)
            all == CHOOSE rings : RingsOf(rings, radii, least)
<1>1. \E rings : RingsOf(rings, radii, least)
  BY RingsExist
<1>2. RingsOf(all, radii, least)
  BY <1>1
<1>3. PlanOrbits(radii) = all[DOMAIN radii]
  BY DEF PlanOrbits, LeastOf, RingsOf
<1>. QED  BY <1>2, <1>3

\* planOrbits plans well.
LEMMA PlanOrbitsWell ==
    ASSUME NEW radii, Sized(radii), NEW i, Room(i, radii)
    PROVE  WellPlanned(PlanOrbits(radii), DOMAIN radii, radii, i)
<1>. DEFINE least == LeastOf(radii)
            S == DOMAIN radii
<1>1. PICK all : RingsOf(all, radii, least) /\ PlanOrbits(radii) = all[S]
  BY PlanOrbitsFact
<1>2. RingsOf(all, radii, least)
  BY <1>1
<1>3. PlanOrbits(radii) = all[S]
  BY <1>1
<1>4. \A s \in SUBSET S : s # {} => Smallest(least[s], s, radii) /\ least[s] \in s
  BY LeastOfFact
<1>5. IsFiniteSet(S)
  BY SizedFact
<1>. HIDE DEF least
<1>6. \A s : s \subseteq S => OneMore(all, s, radii, least)
  BY <1>2, RingsStep
<1>. DEFINE Well(s) == WellPlanned(all[s], s, radii, i)
            T == {s \in SUBSET S : ~Well(s)}
<1>7. T = {}
  <2>1. SUFFICES ASSUME T # {} PROVE FALSE
    OBVIOUS
  <2>2. PICK s \in T : \A t \in T : t \subseteq s => t = s
    <3>1. T \in SUBSET (SUBSET S)
      OBVIOUS
    <3>. HIDE DEF T, S
    <3>. QED  BY <1>5, <2>1, <3>1, LeastSubset
  <2>3. s \in SUBSET S /\ ~Well(s)
    BY <2>2
  <2>4. s # {}
    <3>1. WellPlanned(<<>>, {}, radii, i)
      <4>1. <<>> \in Seq(Ring) /\ Len(<<>>) = 0
        BY EmptySeq
      <4>2. 1..Len(<<>>) = {}
        BY <4>1
      <4>. QED  BY <4>1, <4>2 DEF WellPlanned
    <3>. QED  BY <1>6, <2>3, <3>1 DEF OneMore
  <2>5. least[s] \in s /\ Smallest(least[s], s, radii)
    BY <1>4, <2>3, <2>4
  <2>6. Well(s \ {least[s]})
    <3>1. s \ {least[s]} \in SUBSET S /\ s \ {least[s]} \subseteq s /\ s \ {least[s]} # s
      BY <2>3, <2>5
    <3>. HIDE DEF Well
    <3>. QED  BY <2>2, <3>1
  <2>7. all[s] = Placed(all[s \ {least[s]}], least[s], radii[least[s]])
    BY <1>6, <2>3, <2>4 DEF OneMore
  <2>8. Well(s)
    BY <2>3, <2>5, <2>6, <2>7, PlacedWell
  <2>. QED  BY <2>3, <2>8
<1>8. Well(S)
  BY <1>7
<1>. QED  BY <1>3, <1>8 DEF S

\* What the bodies of a ring need is what the rings were filled by.
Needed(radii, M) == MapThenSumSet(LAMBDA l : Need(radii[l]), M)

SumsNeed(i, radii, M) ==
    i = [s \in SUBSET M |->
            IF s = {} THEN 0 ELSE Need(radii[First(s)]) + i[s \ {First(s)}]]

LEMMA SumsNeedFact ==
    ASSUME NEW radii, NEW M, M \subseteq DOMAIN radii, NEW i
    PROVE  SumsNeed(i, radii, M) <=> IsSum(i, [k \in DOMAIN radii |-> Need(radii[k])], M)
<1>. DEFINE f == [k \in DOMAIN radii |-> Need(radii[k])]
            a == [s \in SUBSET M |-> IF s = {} THEN 0
                                     ELSE Need(radii[First(s)]) + i[s \ {First(s)}]]
            b == [s \in SUBSET M |-> IF s = {} THEN 0 ELSE f[First(s)] + i[s \ {First(s)}]]
<1>1. \A s \in SUBSET M : s # {} => f[First(s)] = Need(radii[First(s)])
  BY FirstFact
<1>. HIDE DEF f
<1>2. a = b
  BY <1>1
<1>. QED  BY <1>2 DEF SumsNeed, IsSum, f

LEMMA NeededFact ==
    ASSUME NEW radii, Sized(radii), NEW i,
           IsSum(i, [k \in DOMAIN radii |-> Need(radii[k])], DOMAIN radii),
           NEW M, M \subseteq DOMAIN radii
    PROVE  Needed(radii, M) = i[M]
<1>. DEFINE f == [k \in DOMAIN radii |-> Need(radii[k])]
            iter[s \in SUBSET M] == IF s = {} THEN 0
                                    ELSE LET x == CHOOSE x \in s : TRUE
                                         IN  Need(radii[x]) + iter[s \ {x}]
            S == DOMAIN radii
<1>1. Needed(radii, M) = iter[M]
  BY DEF Needed, MapThenSumSet, MapThenFoldSet
<1>2. iter = CHOOSE j : SumsNeed(j, radii, M)
  BY DEF SumsNeed, First
<1>. HIDE DEF iter
<1>3. IsFiniteSet(S) /\ IsFiniteSet(M)
  BY SizedFact, FS_Subset
<1>4. \E j : SumsNeed(j, radii, M)
  <2>1. \E j : IsSum(j, f, M)
    <3>. HIDE DEF f
    <3>. QED  BY <1>3, SumExists
  <2>. QED  BY <2>1, SumsNeedFact
<1>5. SumsNeed(iter, radii, M)
  BY <1>2, <1>4
<1>6. IsSum(iter, f, M) /\ IsSum(i, f, S)
  BY <1>5, SumsNeedFact
<1>. HIDE DEF f, S
<1>7. M \subseteq S
  BY DEF S
<1>8. iter[M] = i[M]
  BY <1>3, <1>6, <1>7, SumWithin
<1>. QED  BY <1>1, <1>8

----------------------------------------------------------------------------
(***************************************************************************)
(* Orbits: the frame.                                                      *)
(***************************************************************************)
\* A size that the radius of the plan stands for.
InBand(size, radius) == Apart(size, radius) <= radius \div RADIUS_DEADBAND

OrbitInv ==
    /\ layoutRadii \in [DOMAIN layoutRadii -> Sizes] /\ DOMAIN layoutRadii \subseteq OrbitKeys
    /\ DOMAIN distance = DOMAIN layoutRadii /\ DOMAIN sizes = DOMAIN layoutRadii
    /\ \A k \in DOMAIN layoutRadii : /\ distance[k] \in Nat
                                     /\ sizes[k] \in Nat /\ InBand(sizes[k], layoutRadii[k])
    /\ plan = PlanOrbits(layoutRadii)
    /\ Len(ringLines) = Min({Len(plan), MAX_RINGS})

\* Every body has its ring.
LEMMA RingOfFact ==
    ASSUME NEW radii, NEW i, NEW rings, WellPlanned(rings, DOMAIN radii, radii, i),
           NEW k \in DOMAIN radii
    PROVE  /\ RingOf(rings, k) \in 1..Len(rings) /\ k \in rings[RingOf(rings, k)].keys
           /\ rings[RingOf(rings, k)] \in Ring
<1>1. /\ DOMAIN rings = 1..Len(rings) /\ \A j \in 1..Len(rings) : rings[j] \in Ring
      /\ \E j \in 1..Len(rings) : k \in rings[j].keys
  BY LenProperties, ElementOfSeq DEF WellPlanned
<1>. QED  BY <1>1 DEF RingOf

LEMMA BandFact ==
    ASSUME NEW size \in Nat, NEW radius \in Nat, InBand(size, radius)
    PROVE  /\ radius \div RADIUS_DEADBAND \in Nat
           /\ size <= radius + (radius \div RADIUS_DEADBAND)
<1>1. RADIUS_DEADBAND \in Nat /\ RADIUS_DEADBAND > 0
  BY ConstantsNat
<1>. DEFINE off == radius \div RADIUS_DEADBAND
<1>2. off \in Nat
  BY <1>1
<1>. HIDE DEF off
<1>3. Apart(size, radius) <= off
  BY DEF InBand, off
<1>4. size <= radius + off
  BY <1>2, <1>3 DEF Apart
<1>. QED  BY <1>2, <1>4 DEF off

LEMMA OrbitsWell ==
    ASSUME OrbitInv
    PROVE  OrbitsApart /\ OrbitsFilled
<1>. DEFINE D == DOMAIN layoutRadii
            r(k) == layoutRadii[k]
            off(k) == layoutRadii[k] \div RADIUS_DEADBAND
            ring(k) == plan[RingOf(plan, k)]
<1>1. Sized(layoutRadii) /\ DOMAIN sizes = D /\ plan = PlanOrbits(layoutRadii)
  BY DEF OrbitInv, Sized
<1>2. PICK i : /\ Room(i, layoutRadii)
               /\ IsSum(i, [k \in D |-> Need(layoutRadii[k])], D)
  BY <1>1, RoomExists
<1>3. WellPlanned(plan, D, layoutRadii, i)
  BY <1>1, <1>2, PlanOrbitsWell
<1>4. ASSUME NEW k \in D
      PROVE  /\ r(k) \in Nat /\ off(k) \in Nat /\ sizes[k] \in Nat
             /\ sizes[k] <= r(k) + off(k) /\ Apart(sizes[k], r(k)) <= off(k)
  <2>1. r(k) \in Nat /\ sizes[k] \in Nat /\ InBand(sizes[k], r(k))
    BY <1>1, SizedFact DEF OrbitInv
  <2>. QED  BY <2>1, BandFact DEF InBand
<1>5. ASSUME NEW k \in D
      PROVE  /\ RingOf(plan, k) \in 1..Len(plan) /\ k \in ring(k).keys /\ ring(k) \in Ring
             /\ RingWell(ring(k), D, layoutRadii, i)
             /\ ring(k).radius \in Nat /\ ring(k).maxBodyRadius \in Nat
             /\ Center(k) = ring(k).radius
             /\ r(k) <= ring(k).maxBodyRadius
             /\ Center(k) >= STAR_RADIUS + STAR_GAP + ring(k).maxBodyRadius
  <2>1. RingOf(plan, k) \in 1..Len(plan) /\ k \in ring(k).keys /\ ring(k) \in Ring
    BY <1>3, RingOfFact
  <2>2. RingWell(ring(k), D, layoutRadii, i)
    BY <1>3, <2>1 DEF WellPlanned
  <2>. QED  BY <2>1, <2>2 DEF RingWell, Ring, Center
<1>6. Len(plan) \in Nat
  BY <1>3, LenProperties DEF WellPlanned
<1>7. ASSUME NEW k \in D, NEW l \in D, RingOf(plan, k) < RingOf(plan, l)
      PROVE  /\ Center(l) >= Center(k) + ring(k).maxBodyRadius + RING_GAP
                               + ring(l).maxBodyRadius
             /\ r(k) >= r(l)
  <2>1. Outward(ring(k), ring(l), layoutRadii)
    BY <1>3, <1>5, <1>7 DEF WellPlanned
  <2>. QED  BY <1>5, <2>1 DEF Outward
<1>8. STAR_RADIUS \in Nat /\ STAR_GAP \in Nat /\ RING_GAP \in Nat
  BY ConstantsNat
<1>9. \A k, l \in D : \/ RingOf(plan, k) < RingOf(plan, l) \/ RingOf(plan, l) < RingOf(plan, k)
                      \/ RingOf(plan, k) = RingOf(plan, l)
  BY <1>5, <1>6
<1>10. ASSUME NEW k \in D, NEW l \in D
       PROVE  r(k) > r(l) => Center(k) <= Center(l)
  <2>1. CASE RingOf(plan, k) < RingOf(plan, l)
    BY <1>5, <1>7, <1>8, <2>1
  <2>2. CASE RingOf(plan, l) < RingOf(plan, k)
    BY <1>4, <1>7, <2>2
  <2>3. CASE RingOf(plan, k) = RingOf(plan, l)
    BY <1>5, <2>3
  <2>. QED  BY <1>9, <2>1, <2>2, <2>3
<1>11. ASSUME NEW k \in D, NEW l \in D, Center(k) < Center(l)
       PROVE  RingOf(plan, k) < RingOf(plan, l)
  <2>1. CASE RingOf(plan, l) < RingOf(plan, k)
    BY <1>5, <1>7, <1>8, <1>11, <2>1
  <2>2. CASE RingOf(plan, k) = RingOf(plan, l)
    BY <1>5, <1>11, <2>2
  <2>. QED  BY <1>9, <2>1, <2>2
<1>. HIDE DEF r, off, ring
<1>12. OrbitsApart
  <2>1. ASSUME NEW k \in D
        PROVE  /\ Apart(sizes[k], r(k)) <= off(k)
               /\ Center(k) - sizes[k] >= STAR_RADIUS + STAR_GAP - off(k)
    <3>1. /\ r(k) \in Nat /\ off(k) \in Nat /\ sizes[k] \in Nat
          /\ sizes[k] <= r(k) + off(k) /\ Apart(sizes[k], r(k)) <= off(k)
      BY <1>4
    <3>2. /\ Center(k) \in Nat /\ ring(k).maxBodyRadius \in Nat /\ r(k) <= ring(k).maxBodyRadius
          /\ Center(k) >= STAR_RADIUS + STAR_GAP + ring(k).maxBodyRadius
      BY <1>5
    <3>. QED  BY <1>8, <3>1, <3>2
  <2>2. ASSUME NEW k \in D, NEW l \in D, Center(k) < Center(l)
        PROVE  Center(l) - sizes[l] >= Center(k) + sizes[k] + RING_GAP - off(k) - off(l)
    <3>1. Center(l) >= Center(k) + ring(k).maxBodyRadius + RING_GAP + ring(l).maxBodyRadius
      BY <1>7, <1>11, <2>2
    <3>2. ASSUME NEW m \in D
          PROVE  /\ Center(m) \in Nat /\ ring(m).maxBodyRadius \in Nat /\ off(m) \in Nat
                 /\ sizes[m] \in Nat /\ sizes[m] <= ring(m).maxBodyRadius + off(m)
      <4>1. r(m) \in Nat /\ sizes[m] <= r(m) + off(m) /\ r(m) <= ring(m).maxBodyRadius
        BY <1>4, <1>5
      <4>. QED  BY <1>4, <1>5, <4>1
    <3>3. /\ Center(k) \in Nat /\ ring(k).maxBodyRadius \in Nat /\ off(k) \in Nat
          /\ sizes[k] \in Nat /\ sizes[k] <= ring(k).maxBodyRadius + off(k)
          /\ Center(l) \in Nat /\ ring(l).maxBodyRadius \in Nat /\ off(l) \in Nat
          /\ sizes[l] \in Nat /\ sizes[l] <= ring(l).maxBodyRadius + off(l)
      BY <3>2
    <3>. QED  BY <1>8, <3>1, <3>3
  <2>. QED  BY <1>1, <2>1, <2>2 DEF OrbitsApart, off, r
<1>13. OrbitsFilled
  <2>1. ASSUME NEW k \in D
        PROVE  \/ ring(k).keys = {k}
               \/ 7 * Needed(layoutRadii, ring(k).keys) <= Girth * Center(k)
    <3>1. RingWell(ring(k), D, layoutRadii, i) /\ k \in ring(k).keys
          /\ Center(k) = ring(k).radius
      BY <1>5
    <3>2. Needed(layoutRadii, ring(k).keys) = i[ring(k).keys]
      BY <1>1, <1>2, <3>1, NeededFact DEF RingWell
    <3>. QED  BY <3>1, <3>2 DEF RingWell
  <2>. QED  BY <1>10, <2>1 DEF OrbitsFilled, Needed, ring, r
<1>. QED  BY <1>12, <1>13

LEMMA MinFact ==
    ASSUME NEW a \in Nat, NEW b \in Nat
    PROVE  Min({a, b}) = (IF a <= b THEN a ELSE b)
<1>. DEFINE least == IF a <= b THEN a ELSE b
            P(x) == x \in {a, b} /\ \A y \in {a, b} : x <= y
<1>1. P(least)
  OBVIOUS
<1>2. \A x : P(x) => x = least
  OBVIOUS
<1>. HIDE DEF least
<1>3. P(CHOOSE x \in {a, b} : \A y \in {a, b} : x <= y)
  BY <1>1
<1>4. P(Min({a, b}))
  BY <1>3 DEF Min
<1>. HIDE DEF P
<1>5. Min({a, b}) = least
  BY <1>2, <1>4
<1>. QED  BY <1>5 DEF least

LEMMA MaxFact ==
    ASSUME NEW a \in Nat, NEW b \in Nat
    PROVE  Max({a, b}) \in Nat /\ Max({a, b}) >= a /\ Max({a, b}) >= b
<1>. DEFINE P(x) == x \in {a, b} /\ \A y \in {a, b} : x >= y
<1>1. P(IF a <= b THEN b ELSE a)
  OBVIOUS
<1>2. P(CHOOSE x \in {a, b} : \A y \in {a, b} : x >= y)
  BY <1>1
<1>3. P(Max({a, b}))
  BY <1>2 DEF Max
<1>. QED  BY <1>3

\* The way to an orbit: never more than the reach, never past the orbit.
LEMMA NearestFact ==
    ASSUME NEW from \in Nat, NEW to \in Nat
    PROVE  /\ Nearest(from, to) \in Nat
           /\ Apart(from, Nearest(from, to)) <= Reach
           /\ Apart(from, to) = Apart(from, Nearest(from, to)) + Apart(Nearest(from, to), to)
<1>1. Reach \in Nat
  BY ConstantsNat
<1>2. CASE Apart(from, to) <= Reach
  <2>1. Nearest(from, to) = to
    BY <1>2 DEF Nearest
  <2>. QED  BY <1>2, <2>1 DEF Apart
<1>3. CASE ~(Apart(from, to) <= Reach) /\ from < to
  <2>1. Nearest(from, to) = from + Reach /\ to - from > Reach /\ Apart(from, to) = to - from
    BY <1>1, <1>3 DEF Nearest, Apart
  <2>2. /\ Apart(from, from + Reach) = Reach /\ Apart(from + Reach, to) = to - (from + Reach)
    BY <1>1, <2>1 DEF Apart
  <2>. QED  BY <1>1, <2>1, <2>2
<1>4. CASE ~(Apart(from, to) <= Reach) /\ ~(from < to)
  <2>1. Nearest(from, to) = from - Reach /\ from - to > Reach /\ Apart(from, to) = from - to
    BY <1>1, <1>4 DEF Nearest, Apart
  <2>2. /\ Apart(from, from - Reach) = Reach /\ Apart(from - Reach, to) = (from - Reach) - to
    BY <1>1, <2>1 DEF Apart
  <2>. QED  BY <1>1, <2>1, <2>2
<1>. QED  BY <1>2, <1>3, <1>4

LEMMA WholeParts ==
    ASSUME NEW a \in Nat, NEW b \in Nat, NEW n \in Nat, n > 0, n * a <= b
    PROVE  a <= b \div n
<1>1. n * a \in Int /\ (n * a) \div n <= b \div n
  BY DivMonotone
<1>2. (a * n) \div n = a
  BY DivExact
<1>3. n * a = a * n
  OBVIOUS
<1>. QED  BY <1>1, <1>2, <1>3

\* Every size is within the band of what the plan has for it.
LEMMA HeldFact ==
    ASSUME OrbitInv, NEW there, there \subseteq OrbitKeys, NEW nodes \in [there -> Sizes]
    PROVE  /\ Held(nodes) \in [there -> Sizes]
           /\ \A k \in there : nodes[k] \in Nat /\ InBand(nodes[k], Held(nodes)[k])
<1>1. Sized(layoutRadii) /\ RADIUS_DEADBAND \in Nat /\ RADIUS_DEADBAND > 0
  BY ConstantsNat DEF OrbitInv, Sized
<1>. DEFINE held(k) == /\ k \in DOMAIN layoutRadii
                       /\ RADIUS_DEADBAND * Apart(nodes[k], layoutRadii[k]) <= layoutRadii[k]
<1>2. Held(nodes) = [k \in there |-> IF held(k) THEN layoutRadii[k] ELSE nodes[k]]
  BY DEF Held
<1>3. ASSUME NEW k \in there
      PROVE  /\ nodes[k] \in Nat /\ Held(nodes)[k] \in Sizes
             /\ InBand(nodes[k], Held(nodes)[k])
  <2>1. nodes[k] \in Sizes /\ nodes[k] \in Nat
    BY ConstantsNat
  <2>2. CASE held(k)
    <3>1. Held(nodes)[k] = layoutRadii[k] /\ layoutRadii[k] \in Nat /\ layoutRadii[k] \in Sizes
      BY <1>1, <1>2, <2>2, SizedFact DEF Sized
    <3>2. Apart(nodes[k], layoutRadii[k]) \in Nat
      BY <2>1, <3>1 DEF Apart
    <3>3. Apart(nodes[k], layoutRadii[k]) <= layoutRadii[k] \div RADIUS_DEADBAND
      BY <1>1, <2>2, <3>1, <3>2, WholeParts
    <3>. QED  BY <2>1, <3>1, <3>3 DEF InBand
  <2>3. CASE ~held(k)
    <3>1. Held(nodes)[k] = nodes[k]
      BY <1>2, <2>3
    <3>2. Apart(nodes[k], nodes[k]) = 0 /\ nodes[k] \div RADIUS_DEADBAND \in Nat
      BY <1>1, <2>1 DEF Apart
    <3>. QED  BY <2>1, <3>1, <3>2 DEF InBand
  <2>. QED  BY <2>2, <2>3
<1>4. Held(nodes) \in [there -> Sizes]
  <2>1. \A k \in there : Held(nodes)[k] \in Sizes
    BY <1>3
  <2>. HIDE DEF held
  <2>. QED  BY <1>2, <2>1
<1>. QED  BY <1>3, <1>4

\* Nothing is further out than what is outside.
LEMMA OuterFact ==
    ASSUME NEW rings, NEW s, NEW radii, NEW i, WellPlanned(rings, s, radii, i)
    PROVE  /\ OuterRadius(rings) \in Nat
           /\ \A j \in DOMAIN rings : /\ rings[j] \in Ring
                 /\ OuterRadius(rings) >= rings[j].radius + rings[j].maxBodyRadius
<1>. DEFINE n == Len(rings)
<1>1. /\ rings \in Seq(Ring) /\ n \in Nat /\ DOMAIN rings = 1..n
      /\ \A j \in 1..n : rings[j] \in Ring
      /\ \A j, m \in 1..n : j < m => Outward(rings[j], rings[m], radii)
  BY LenProperties, ElementOfSeq DEF WellPlanned
<1>2. CASE rings = <<>>
  <2>1. OuterRadius(rings) = STAR_RADIUS /\ n = 0
    BY <1>2, EmptySeq DEF OuterRadius
  <2>. QED  BY <1>1, <2>1, ConstantsNat
<1>3. CASE rings # <<>>
  <2>1. n # 0
    BY <1>1, <1>3, EmptySeq
  <2>2. n \in 1..n /\ rings[n] \in Ring
        /\ OuterRadius(rings) = rings[n].radius + rings[n].maxBodyRadius
    BY <1>1, <1>3, <2>1 DEF OuterRadius, Last
  <2>3. rings[n].radius \in Nat /\ rings[n].maxBodyRadius \in Nat
    BY <2>2 DEF Ring
  <2>4. ASSUME NEW j \in 1..n
        PROVE  OuterRadius(rings) >= rings[j].radius + rings[j].maxBodyRadius
    <3>1. rings[j].radius \in Nat /\ rings[j].maxBodyRadius \in Nat /\ RING_GAP \in Nat
      <4>1. rings[j] \in Ring /\ RING_GAP \in Nat
        BY <1>1, ConstantsNat
      <4>. QED  BY <4>1 DEF Ring
    <3>2. j = n \/ j < n
      <4>1. n \in Nat
        BY <1>1
      <4>. QED  BY <4>1
    <3>3. j < n => rings[n].radius >= rings[j].radius + rings[j].maxBodyRadius + RING_GAP
                                        + rings[n].maxBodyRadius
      <4>1. j < n => Outward(rings[j], rings[n], radii)
        BY <1>1, <2>2
      <4>. QED  BY <4>1 DEF Outward
    <3>. QED  BY <2>2, <2>3, <3>1, <3>2, <3>3
  <2>. QED  BY <1>1, <2>2, <2>3, <2>4
<1>. QED  BY <1>2, <1>3

LEMMA LinesFact ==
    ASSUME NEW rings, NEW s, NEW radii, NEW i, WellPlanned(rings, s, radii, i), NEW moves
    PROVE  Len(LinesAfter(rings, moves)) = Min({Len(rings), MAX_RINGS})
<1>. DEFINE m == Min({Len(rings), MAX_RINGS})
            inner == SubSeq(rings, 1, m)
<1>1. Len(rings) \in Nat /\ \A j \in 1..Len(rings) : rings[j] \in Ring
  BY LenProperties, ElementOfSeq DEF WellPlanned
<1>2. m \in Nat /\ m <= Len(rings)
  BY <1>1, ConstantsNat, MinFact
<1>. HIDE DEF m
<1>3. inner \in Seq(Ring) /\ Len(inner) = m
  <2>1. \A j \in 1..m : rings[j] \in Ring
    BY <1>1, <1>2
  <2>2. inner \in Seq(Ring) /\ Len(inner) = IF 1 <= m THEN m - 1 + 1 ELSE 0
    BY <1>2, <2>1, SubSeqProperties
  <2>. HIDE DEF inner
  <2>. QED  BY <1>2, <2>2
<1>4. DOMAIN inner = 1..m
  BY <1>3, LenProperties
<1>5. LinesAfter(rings, moves)
        = [j \in DOMAIN inner |-> IF moves \/ j \notin DOMAIN ringLines
                                  THEN inner[j].radius ELSE ringLines[j]]
  BY DEF LinesAfter, m
<1>. HIDE DEF inner
<1>6. Len(LinesAfter(rings, moves)) = m
  BY <1>2, <1>4, <1>5
<1>. QED  BY <1>6 DEF m

LEMMA OrbitInitInv == OrbitInit => OrbitInv
<1>. SUFFICES ASSUME OrbitInit PROVE OrbitInv
  OBVIOUS
<1>. DEFINE none == [k \in {} |-> 0]
<1>1. distance = none /\ layoutRadii = none /\ sizes = none /\ plan = <<>> /\ ringLines = <<>>
  BY DEF OrbitInit
<1>2. DOMAIN none = {} /\ none \in [{} -> Sizes] /\ Sized(none)
  BY DEF Sized
<1>. HIDE DEF none
<1>3. PlanOrbits(none) = <<>>
  <2>1. PICK all : RingsOf(all, none, LeastOf(none)) /\ PlanOrbits(none) = all[DOMAIN none]
    BY <1>2, PlanOrbitsFact
  <2>2. OneMore(all, {}, none, LeastOf(none))
    BY <2>1, RingsStep
  <2>. QED  BY <1>2, <2>1, <2>2 DEF OneMore
<1>4. Len(ringLines) = Min({Len(plan), MAX_RINGS})
  <2>1. Len(<<>>) = 0 /\ 0 \in Nat /\ MAX_RINGS \in Nat
    BY EmptySeq, ConstantsNat
  <2>2. Min({0, MAX_RINGS}) = 0
    BY <2>1, MinFact
  <2>. QED  BY <1>1, <2>1, <2>2
<1>. QED  BY <1>1, <1>2, <1>3, <1>4 DEF OrbitInv

\* The bodies after a frame are where the layout takes them.
LEMMA LayoutFact ==
    ASSUME OrbitInv, NEW there, there \subseteq OrbitKeys, NEW nodes \in [there -> Sizes],
           NEW moves \in BOOLEAN, LayoutStep(nodes, moves)
    PROVE  /\ layoutRadii' = Held(nodes) /\ plan' = PlanOrbits(layoutRadii')
           /\ DOMAIN layoutRadii' = there /\ DOMAIN distance' = there
           /\ \A k \in there : distance'[k] \in Nat
           /\ BodiesGlide
<1>. DEFINE radii == Held(nodes)
            rings == PlanOrbits(radii)
            ring(k) == rings[RingOf(rings, k)]
            start(k) == StartDistance(rings, ring(k))
<1>1. radii \in [there -> Sizes] /\ DOMAIN radii = there
  BY HeldFact
<1>2. Sized(radii) /\ Sized(layoutRadii) /\ plan = PlanOrbits(layoutRadii)
  BY <1>1 DEF Sized, OrbitInv
<1>. HIDE DEF radii
<1>3. PICK i : WellPlanned(rings, there, radii, i)
  BY <1>1, <1>2, RoomExists, PlanOrbitsWell
<1>4. PICK h : WellPlanned(plan, DOMAIN layoutRadii, layoutRadii, h)
  BY <1>2, RoomExists, PlanOrbitsWell
<1>5. /\ layoutRadii' = radii /\ plan' = rings
      /\ distance' = [k \in there |->
            IF k \notin DOMAIN distance
            THEN StartDistance(rings, [l \in there |-> ring(l)][k])
            ELSE IF moves THEN Nearest(distance[k], [l \in there |-> ring(l)][k].radius)
            ELSE distance[k]]
  BY DEF LayoutStep, radii
<1>. HIDE DEF rings
<1>6. ASSUME NEW k \in there
      PROVE  /\ RingOf(rings, k) \in 1..Len(rings) /\ ring(k) \in Ring /\ ring(k).radius \in Nat
             /\ Center(k)' = ring(k).radius
             /\ distance'[k] = IF k \notin DOMAIN distance THEN start(k)
                               ELSE IF moves THEN Nearest(distance[k], ring(k).radius)
                               ELSE distance[k]
  <2>1. RingOf(rings, k) \in 1..Len(rings) /\ ring(k) \in Ring
    BY <1>1, <1>3, RingOfFact
  <2>2. Center(k)' = ring(k).radius
    BY <1>5 DEF Center
  <2>3. [l \in there |-> ring(l)][k] = ring(k)
    OBVIOUS
  <2>. HIDE DEF ring
  <2>. QED  BY <1>5, <2>1, <2>2, <2>3 DEF Ring
<1>7. OuterRadius(rings) \in Nat /\ OuterRadius(plan) \in Nat /\ OUTSIDE_MARGIN \in Nat
  BY <1>3, <1>4, OuterFact, ConstantsNat
<1>8. ASSUME NEW k \in there
      PROVE  /\ start(k) \in Nat
             /\ DOMAIN distance # {} => start(k) >= OuterRadius(rings) + OUTSIDE_MARGIN
  <2>1. CASE DOMAIN distance = {}
    BY <1>6, <2>1 DEF StartDistance
  <2>2. CASE DOMAIN distance # {}
    <3>. DEFINE outer == Max({OuterRadius(plan), OuterRadius(rings)})
    <3>1. outer \in Nat /\ outer >= OuterRadius(rings)
      BY <1>7, MaxFact
    <3>2. start(k) = outer + OUTSIDE_MARGIN
      BY <2>2 DEF StartDistance
    <3>. HIDE DEF outer, start
    <3>. QED  BY <1>7, <3>1, <3>2
  <2>. QED  BY <2>1, <2>2
<1>. HIDE DEF ring, start
<1>9. \A k \in DOMAIN distance : distance[k] \in Nat
  BY DEF OrbitInv
<1>10. ASSUME NEW k \in there, k \in DOMAIN distance
       PROVE  /\ distance'[k] \in Nat
              /\ Apart(distance[k], distance'[k]) <= Reach
              /\ Apart(distance[k], Center(k)')
                    = Apart(distance[k], distance'[k]) + Apart(distance'[k], Center(k)')
  <2>1. distance[k] \in Nat /\ ring(k).radius \in Nat /\ Center(k)' = ring(k).radius
    BY <1>6, <1>9, <1>10
  <2>2. CASE moves
    <3>1. distance'[k] = Nearest(distance[k], ring(k).radius)
      BY <1>6, <1>10, <2>2
    <3>. QED  BY <2>1, <3>1, NearestFact
  <2>3. CASE ~moves
    <3>1. distance'[k] = distance[k]
      BY <1>6, <1>10, <2>3
    <3>2. Apart(distance[k], distance[k]) = 0 /\ Reach \in Nat
          /\ Apart(distance[k], ring(k).radius) \in Nat
      BY <2>1, ConstantsNat DEF Apart
    <3>. QED  BY <2>1, <3>1, <3>2
  <2>. QED  BY <2>2, <2>3
<1>11. ASSUME NEW k \in there, k \notin DOMAIN distance
       PROVE  /\ distance'[k] \in Nat
              /\ DOMAIN distance # {} =>
                    \A j \in DOMAIN rings :
                       distance'[k] >= rings[j].radius + rings[j].maxBodyRadius + OUTSIDE_MARGIN
  <2>1. distance'[k] = start(k) /\ start(k) \in Nat
    BY <1>6, <1>8, <1>11
  <2>2. ASSUME DOMAIN distance # {}, NEW j \in DOMAIN rings
        PROVE  distance'[k] >= rings[j].radius + rings[j].maxBodyRadius + OUTSIDE_MARGIN
    <3>1. start(k) >= OuterRadius(rings) + OUTSIDE_MARGIN
      BY <1>8, <2>2
    <3>2. rings[j] \in Ring /\ OuterRadius(rings) >= rings[j].radius + rings[j].maxBodyRadius
      BY <1>3, <2>2, OuterFact
    <3>3. rings[j].radius \in Nat /\ rings[j].maxBodyRadius \in Nat
      BY <3>2 DEF Ring
    <3>. QED  BY <1>7, <2>1, <3>1, <3>2, <3>3
  <2>. QED  BY <2>1, <2>2
<1>12. DOMAIN distance' = there
  BY <1>5
<1>13. BodiesGlide
  BY <1>5, <1>10, <1>11, <1>12 DEF BodiesGlide
<1>14. \A k \in there : distance'[k] \in Nat
  BY <1>10, <1>11
<1>. QED  BY <1>1, <1>5, <1>12, <1>13, <1>14 DEF radii, rings

LEMMA OrbitFrameStep ==
    ASSUME OrbitInv, OrbitFrame
    PROVE  OrbitInv' /\ PlanHeld /\ BodiesGlide
<1>1. PICK there \in SUBSET OrbitKeys, moves \in BOOLEAN :
      \E nodes \in [there -> Sizes] :
         /\ LayoutStep(nodes, moves)
         /\ ringLines' = LinesAfter(PlanOrbits(Held(nodes)), moves)
         /\ sizes' = nodes
  BY DEF OrbitFrame
<1>2. PICK nodes \in [there -> Sizes] :
         /\ LayoutStep(nodes, moves)
         /\ ringLines' = LinesAfter(PlanOrbits(Held(nodes)), moves)
         /\ sizes' = nodes
  BY <1>1
<1>3. there \subseteq OrbitKeys
  OBVIOUS
<1>4. /\ layoutRadii' = Held(nodes) /\ plan' = PlanOrbits(layoutRadii')
      /\ DOMAIN layoutRadii' = there /\ DOMAIN distance' = there
      /\ \A k \in there : distance'[k] \in Nat
      /\ BodiesGlide
  BY <1>2, <1>3, LayoutFact
<1>5. /\ Held(nodes) \in [there -> Sizes]
      /\ \A k \in there : nodes[k] \in Nat /\ InBand(nodes[k], Held(nodes)[k])
  BY <1>3, HeldFact
<1>6. Len(ringLines') = Min({Len(plan'), MAX_RINGS})
  <2>1. Sized(Held(nodes)) /\ DOMAIN Held(nodes) = there
    BY <1>3, <1>5 DEF Sized
  <2>2. \E i : WellPlanned(PlanOrbits(Held(nodes)), there, Held(nodes), i)
    BY <2>1, RoomExists, PlanOrbitsWell
  <2>3. ringLines' = LinesAfter(plan', moves) /\ plan' = PlanOrbits(Held(nodes))
    BY <1>2, <1>4
  <2>. QED  BY <2>2, <2>3, LinesFact
<1>7. OrbitInv'
  <2>1. \A k \in there : InBand(sizes'[k], layoutRadii'[k]) /\ sizes'[k] \in Nat
    BY <1>2, <1>4, <1>5
  <2>2. DOMAIN sizes' = there
    BY <1>2
  <2>3. layoutRadii' \in [DOMAIN layoutRadii' -> Sizes]
    BY <1>4, <1>5
  <2>. QED  BY <1>3, <1>4, <1>6, <2>1, <2>2, <2>3 DEF OrbitInv, InBand
<1>8. PlanHeld
  <2>1. SUFFICES ASSUME DOMAIN sizes' = DOMAIN sizes,
                        \A k \in DOMAIN sizes :
                           RADIUS_DEADBAND * Apart(sizes'[k], layoutRadii[k]) <= layoutRadii[k]
                 PROVE  plan' = plan
    BY DEF PlanHeld
  <2>2. DOMAIN sizes = DOMAIN layoutRadii /\ sizes' = nodes /\ DOMAIN nodes = DOMAIN layoutRadii
    BY <1>2, <2>1 DEF OrbitInv
  <2>3. Held(nodes) = [k \in DOMAIN layoutRadii |-> layoutRadii[k]]
    BY <2>1, <2>2 DEF Held
  <2>4. layoutRadii = [k \in DOMAIN layoutRadii |-> layoutRadii[k]]
    BY DEF OrbitInv
  <2>5. Held(nodes) = layoutRadii
    BY <2>3, <2>4
  <2>. QED  BY <1>4, <2>5 DEF OrbitInv
<1>. QED  BY <1>4, <1>7, <1>8

LEMMA OrbitNextInv ==
    ASSUME OrbitInv, [OrbitFrame]_orbitVars
    PROVE  OrbitInv' /\ [PlanHeld /\ BodiesGlide]_orbitVars
<1>1. CASE OrbitFrame
  BY <1>1, OrbitFrameStep
<1>2. CASE UNCHANGED orbitVars
  BY <1>2 DEF OrbitInv, orbitVars, InBand, Apart
<1>. QED  BY <1>1, <1>2

(***************************************************************************)
(* For any bodies, sizes and gaps: the orbits stay apart, none overfull and*)
(* the largest bodies inside, a change of size within the band moves       *)
(* nothing, and no body jumps or passes its orbit (solar.ts, layout.ts,    *)
(* OrbitRings.tsx).                                                        *)
(***************************************************************************)
THEOREM OrbitsStaySteady == OrbitSpec => OrbitsSteady
BY OrbitInitInv, OrbitNextInv, OrbitsWell, PTL DEF OrbitSpec, OrbitsSteady

----------------------------------------------------------------------------
(***************************************************************************)
(* The page: each part keeps its types, and only one of them moves.        *)
(***************************************************************************)
\* A release is counted only after a click: the user has focused a group since
\* the last one, or the count has begun anew.
FocusCounts ==
    /\ depth.release \in Nat /\ focusClicks \in 0..MaxClicks
    /\ depth.release + (IF rendered # NoGroup \/ focusedKey # NoGroup THEN 1 ELSE 0)
          <= focusClicks

LEMMA FocusCountsInit == FocusInit => FocusCounts
BY FocusAssumption DEF FocusInit, FocusCounts

LEMMA FocusCountsStep ==
    ASSUME FocusCounts, [FocusNext]_focusVars
    PROVE  FocusCounts'
<1>1. ASSUME NEW k \in FocusGroups, ClickNode(k) PROVE FocusCounts'
  <2>1. /\ focusClicks < MaxClicks /\ focusClicks' = focusClicks + 1
        /\ rendered' = rendered /\ depth' = depth
    BY <1>1 DEF ClickNode
  <2>2. focusClicks \in Nat /\ MaxClicks \in Nat /\ depth.release \in Nat
        /\ depth.release <= focusClicks
    BY FocusAssumption DEF FocusCounts
  <2>. QED  BY <2>1, <2>2 DEF FocusCounts
<1>2. CASE FocusClear
  BY <1>2, FocusAssumption DEF FocusClear, FocusCounts
<1>3. CASE FocusCommit
  <2>1. /\ rendered # focusedKey /\ rendered' = focusedKey /\ focusedKey' = focusedKey
        /\ focusClicks' = focusClicks
        /\ depth' = IF focusedKey = NoGroup
                    THEN [release |-> depth.release + 1, timer |-> TRUE] ELSE depth
    BY <1>3 DEF FocusCommit, Release
  <2>2. CASE focusedKey = NoGroup
    <3>1. depth'.release = depth.release + 1 /\ rendered # NoGroup
      BY <2>1, <2>2
    <3>. QED  BY <2>1, <2>2, <3>1, FocusAssumption DEF FocusCounts
  <2>3. CASE focusedKey # NoGroup
    BY <2>1, <2>3, FocusAssumption DEF FocusCounts
  <2>. QED  BY <2>2, <2>3
<1>4. CASE DepthTimer
  <2>1. depth'.release = 0 /\ rendered' = rendered /\ focusedKey' = focusedKey
        /\ focusClicks' = focusClicks
    BY <1>4 DEF DepthTimer
  <2>. QED  BY <2>1, FocusAssumption DEF FocusCounts
<1>5. CASE TweenTick \/ UNCHANGED focusVars
  BY <1>5 DEF TweenTick, focusVars, FocusCounts
<1>6. CASE FocusStep
  <2>1. \E next \in NextGroups : focusedKey' = FocusAfter(next) /\ rendered' = rendered
                                 /\ depth' = depth /\ focusClicks' = focusClicks
    BY <1>6 DEF FocusStep
  <2>2. /\ focusedKey' = focusedKey \/ focusedKey' = NoGroup
        /\ rendered' = rendered /\ depth' = depth /\ focusClicks' = focusClicks
    BY <2>1 DEF FocusAfter
  <2>. QED  BY <2>2, FocusAssumption DEF FocusCounts
<1>. QED  BY <1>1, <1>2, <1>3, <1>4, <1>5, <1>6 DEF FocusNext

LEMMA FocusTyped == FocusInv /\ FocusCounts => FocusTypeOK
<1>. SUFFICES ASSUME FocusInv, FocusCounts PROVE FocusTypeOK
  OBVIOUS
<1>1. /\ focusGroups \in [FocusGroups -> FocusGroup] /\ focus \in FocusFrame
      /\ focusedKey \in Focusable /\ rendered \in Focusable
      /\ tween.t \in 0..Whole /\ tween.weight \in 0..Whole
  BY DEF FocusInv, FocusTypes
<1>2. satellites.owner \in Focusable /\ DOMAIN satellites.tracker.items \subseteq FocusChildren
  <2>1. satellites.tracker \in Tracker(FocusChildren, FocusGroups)
    BY DEF FocusInv, Owned, Satellites
  <2>. QED  BY <2>1 DEF FocusInv, Owned, Satellites, Tracker
<1>3. depth.release \in 0..MaxClicks + 1
  BY FocusAssumption DEF FocusCounts
<1>. QED  BY <1>1, <1>2, <1>3 DEF FocusTypeOK, Focusable

LEMMA FlowTyped == FlowInit => FlowTypeOK
<1>1. DOMAIN NoLines = {} /\ 0 \in 0..MaxStep
  BY FlowAssumption DEF NoLines
<1>. QED  BY <1>1 DEF FlowInit, FlowTypeOK

LEMMA FlowTypeStep ==
    ASSUME FlowTypeOK, [FlowNext]_flowVars
    PROVE  FlowTypeOK'
<1>1. CASE FlowFrame
  <2>1. LinesInv'
    BY <1>1, LinesStep DEF FlowNext, FlowTypeOK, LinesInv
  <2>2. PICK live \in SUBSET FlowGroups, cores \in SUBSET FlowCores \ {{}},
             step \in 0..MaxStep :
        \E flows \in Flows(live) :
           /\ flowStep' = step /\ given' = DOMAIN flows
           /\ \E kept \in Trimmed(Shone(Noted(flows), live, step)) :
                 /\ lines' = Restrict(Shone(Noted(flows), live, step), kept)
                 /\ DrawLines(Restrict(Shone(Noted(flows), live, step), kept), cores)
    BY <1>1 DEF FlowFrame
  <2>3. given' \subseteq Edges /\ flowStep' \in 0..MaxStep
    <3>1. PICK flows \in Flows(live) : flowStep' = step /\ given' = DOMAIN flows
      BY <2>2
    <3>2. DOMAIN flows \subseteq Edges
      BY DEF Flows
    <3>. QED  BY <3>1, <3>2
  <2>4. DrawLines(lines', cores)
    BY <2>2
  <2>5. DOMAIN drawn' \subseteq phases' /\ phases' \subseteq DOMAIN lines'
    BY <2>4 DEF DrawLines
  <2>. QED  BY <2>1, <2>3, <2>5 DEF FlowTypeOK, LinesInv
<1>2. CASE FlowEmptyFrame
  <2>1. DOMAIN NoLines = {} /\ 0 \in 0..MaxStep
    BY FlowAssumption DEF NoLines
  <2>2. lines' = NoLines /\ phases' = {} /\ drawn' = NoLines /\ given' = {} /\ flowStep' = 0
    BY <1>2 DEF FlowEmptyFrame
  <2>. QED  BY <2>1, <2>2 DEF FlowTypeOK
<1>3. CASE UNCHANGED flowVars
  BY <1>3 DEF flowVars, FlowTypeOK
<1>. QED  BY <1>1, <1>2, <1>3 DEF FlowNext

LEMMA SampleTyped == SampleInit => SampleTypeOK
<1>1. DOMAIN NoSnapshots = {} /\ 0 \in 0..MaxLate
  BY SampleAssumption DEF NoSnapshots
<1>. QED  BY <1>1 DEF SampleInit, SampleTypeOK

LEMMA SampleTypeStep ==
    ASSUME SampleTypeOK, [SampleNext]_sampleVars
    PROVE  SampleTypeOK'
<1>1. 0 \in 0..MaxLate
  BY SampleAssumption
<1>2. CASE SampleArrive
  BY <1>1, <1>2 DEF SampleArrive, SampleTypeOK
<1>3. CASE SampleClear
  BY <1>1, <1>3 DEF SampleClear, SampleTypeOK
<1>4. CASE SampleTick
  <2>1. PICK late \in elapsed..MaxLate :
           /\ elapsed' = late /\ frame' = Sample(late) /\ stale' = FALSE
           /\ UNCHANGED <<previous, current, follows>>
    BY <1>4 DEF SampleTick
  <2>2. late \in 0..MaxLate
    BY SampleAssumption DEF SampleTypeOK
  <2>3. DOMAIN frame' = DOMAIN current
    BY <2>1 DEF Sample
  <2>4. DOMAIN current \subseteq SampleGroups
    <3>1. current \in Snapshots \/ current = NoSnapshots
      BY DEF SampleTypeOK
    <3>2. \A s \in Snapshots : DOMAIN s \subseteq SampleGroups
      BY DEF Snapshots, SnapshotOf
    <3>. QED  BY <3>1, <3>2 DEF NoSnapshots
  <2>. QED  BY <2>1, <2>2, <2>3, <2>4 DEF SampleTypeOK
<1>5. CASE UNCHANGED sampleVars
  BY <1>5 DEF sampleVars, SampleTypeOK
<1>. QED  BY <1>2, <1>3, <1>4, <1>5 DEF SampleNext

LEMMA OrbitTyped == OrbitInv => OrbitTypeOK
BY DEF OrbitInv, OrbitTypeOK

\* A step of the page is one of every part, most of which rest.
LEMMA PartSteps ==
    ASSUME [VisualsNext]_visualsVars
    PROVE  /\ part' = part
           /\ [FocusNext]_focusVars /\ [FlowNext]_flowVars /\ [BurstNext]_burstVars
           /\ [OrbitFrame]_orbitVars /\ [LabelNext]_labelVars /\ [SampleNext]_sampleVars
           /\ [HoverNext]_hoverVars
BY DEF VisualsNext, visualsVars

(***************************************************************************)
(* The page with its parts side by side does what each of them does alone: *)
(* what is proved of a part holds of the page, whatever moves beside it.   *)
(***************************************************************************)
THEOREM PageOfParts ==
    VisualsSpec => /\ FlowSpec /\ BurstSpec /\ OrbitSpec /\ LabelSpec /\ SampleSpec /\ HoverSpec
                   /\ []MoonsOfOwner
<1>1. VisualsInit => /\ FocusInit /\ FlowInit /\ BurstInit /\ OrbitInit /\ LabelInit
                     /\ SampleInit /\ HoverInit
  BY DEF VisualsInit
<1>2. [VisualsNext]_visualsVars => [FlowNext]_flowVars
  BY PartSteps
<1>3. [VisualsNext]_visualsVars => [BurstNext]_burstVars
  BY PartSteps
<1>4. [VisualsNext]_visualsVars => [OrbitFrame]_orbitVars
  BY PartSteps
<1>5. [VisualsNext]_visualsVars => [LabelNext]_labelVars
  BY PartSteps
<1>6. [VisualsNext]_visualsVars => [SampleNext]_sampleVars
  BY PartSteps
<1>7. [VisualsNext]_visualsVars => [HoverNext]_hoverVars
  BY PartSteps
<1>8. FocusInv /\ [VisualsNext]_visualsVars => FocusInv'
  BY PartSteps, FocusNextInv
<1>9. FocusInv => MoonsOfOwner
  BY DEF FocusInv
<1>. QED  BY <1>1, <1>2, <1>3, <1>4, <1>5, <1>6, <1>7, <1>8, <1>9, FocusInitInv, PTL
          DEF VisualsSpec, FlowSpec, BurstSpec, OrbitSpec, LabelSpec, SampleSpec, HoverSpec

\* What is true of the variables of all parts.
PageInv == /\ part \in Parts
           /\ FocusInv /\ FocusCounts /\ FlowTypeOK /\ BurstInv /\ OrbitInv /\ LabelInv
           /\ SampleTypeOK /\ HoverInv

(***************************************************************************)
(* The variables of every part of the page keep their types, whatever the  *)
(* constants: no release of the depth of field is counted without a click, *)
(* particles are drawn only of lines the tracker has, and so on.           *)
(***************************************************************************)
THEOREM PageTypes == VisualsSpec => []VisualsTypeOK
<1>1. VisualsInit => PageInv
  BY FocusInitInv, FocusCountsInit, FlowTyped, BurstInitInv, OrbitInitInv, LabelInitInv,
     SampleTyped, HoverInitInv
     DEF VisualsInit, PageInv
<1>2. ASSUME PageInv, [VisualsNext]_visualsVars PROVE PageInv'
  <2>1. part' = part
    BY <1>2, PartSteps
  <2>2. FocusInv' /\ FocusCounts'
    BY <1>2, PartSteps, FocusNextInv, FocusCountsStep DEF PageInv
  <2>3. FlowTypeOK'
    BY <1>2, PartSteps, FlowTypeStep DEF PageInv
  <2>4. BurstInv'
    BY <1>2, PartSteps, BurstNextInv DEF PageInv
  <2>5. OrbitInv'
    BY <1>2, PartSteps, OrbitNextInv DEF PageInv
  <2>6. LabelInv'
    BY <1>2, PartSteps, LabelNextInv DEF PageInv
  <2>7. SampleTypeOK'
    BY <1>2, PartSteps, SampleTypeStep DEF PageInv
  <2>8. HoverInv'
    BY <1>2, PartSteps, HoverNextInv DEF PageInv
  <2>. QED  BY <1>2, <2>1, <2>2, <2>3, <2>4, <2>5, <2>6, <2>7, <2>8 DEF PageInv
<1>3. PageInv => VisualsTypeOK
  BY FocusTyped, OrbitTyped
     DEF PageInv, VisualsTypeOK, BurstInv, LabelInv, HoverInv
<1>. QED  BY <1>1, <1>2, <1>3, PTL DEF VisualsSpec

(***************************************************************************)
(* So the page keeps what its parts promise: lines and orbits that move    *)
(* steadily, bursts in order, calm labels, frames between the snapshots    *)
(* they show, a tooltip of what is there and satellites of one group.      *)
(***************************************************************************)
THEOREM PageKeepsPromises ==
    VisualsSpec => /\ LinesSteady /\ BurstsOrderly /\ OrbitsSteady /\ LabelsCalm /\ SampleHonest
                   /\ []HoverHonest /\ []MoonsOfOwner
<1>. QED  BY PageOfParts, LinesStaySteady, BurstsStayOrderly, OrbitsStaySteady, LabelsStayCalm,
             FramesStayHonest, TooltipTellsOfWhatIsThere, PTL

----------------------------------------------------------------------------
(***************************************************************************)
(* The camera at rest.  React has the focus, the tween and the timer have  *)
(* ended, and the last frame saw it all.                                   *)
(***************************************************************************)
FocusAtRest ==
    /\ rendered = focusedKey /\ ~tween.running /\ ~depth.timer
    /\ focus.t = tween.t /\ focus.weight = tween.weight
    /\ satellites.owner = OwnerOf(focus)

RestIsSettled == FocusAtRest => Settled

\* The camera goes to the focus of the last commit, and a release that is
\* counted has its timer.
CameraInv ==
    /\ focus.key = rendered
    /\ tween.target = IF rendered = NoGroup THEN 0 ELSE Whole
    /\ ~tween.running => tween.t = Whole /\ tween.weight = tween.target
    /\ depth.release \in Nat /\ (depth.release > 0 => depth.timer)

LEMMA CameraStep ==
    ASSUME FocusInv, CameraInv, [FocusNext]_focusVars
    PROVE  CameraInv'
<1>1. /\ focus \in FocusFrame
      /\ tween \in [t : 0..Whole, weight : 0..Whole, target : {0, Whole}, running : BOOLEAN]
  BY DEF FocusInv, FocusTypes
<1>2. CASE (\E k \in FocusGroups : ClickNode(k)) \/ FocusClear \/ UNCHANGED focusVars
  <2>1. UNCHANGED <<focus, rendered, tween, depth>>
    BY <1>2 DEF ClickNode, FocusClear, focusVars
  <2>. QED  BY <2>1 DEF CameraInv
<1>3. CASE FocusCommit
  <2>1. /\ rendered' = focusedKey /\ focus.key # focusedKey
        /\ focus' = Begin(focus, focusedKey)
        /\ tween' = [t |-> 0, weight |-> tween.weight, running |-> TRUE,
                     target |-> IF focusedKey = NoGroup THEN 0 ELSE Whole]
    BY <1>3 DEF FocusCommit, Transition, CameraInv
  <2>2. focus'.key = focusedKey
    BY <1>1, <2>1 DEF Begin, FocusFrame
  <2>3. depth'.release \in Nat /\ (depth'.release > 0 => depth'.timer)
    BY <1>3 DEF FocusCommit, Release, CameraInv
  <2>. QED  BY <1>1, <2>1, <2>2, <2>3 DEF CameraInv
<1>4. CASE DepthTimer
  BY <1>1, <1>4 DEF DepthTimer, CameraInv
<1>5. CASE TweenTick
  <2>1. /\ tween'.target = tween.target
        /\ ~tween'.running => tween'.t = Whole /\ tween'.weight = tween'.target
    <3>1. PICK t \in tween.t..Whole :
             tween' = [tween EXCEPT
                !.t = t,
                !.weight = CASE t = Whole              -> tween.target
                             [] tween.weight = tween.target -> tween.weight
                             [] OTHER                  -> Between,
                !.running = t < Whole]
      BY <1>5 DEF TweenTick
    <3>2. t \in 0..Whole /\ (~(t < Whole) => t = Whole)
      BY <1>1 DEF Whole
    <3>. DEFINE w == CASE t = Whole              -> tween.target
                       [] tween.weight = tween.target -> tween.weight
                       [] OTHER                  -> Between
    <3>3. w \in 0..Whole /\ (t = Whole => w = tween.target)
      <4>1. CASE t = Whole
        BY <1>1, <4>1 DEF Whole
      <4>2. CASE t # Whole
        BY <1>1, <4>2 DEF Whole, Between
      <4>. QED  BY <4>1, <4>2
    <3>4. tween' = [tween EXCEPT !.t = t, !.weight = w, !.running = t < Whole]
      BY <3>1
    <3>. HIDE DEF w
    <3>. QED  BY <1>1, <3>2, <3>3, <3>4
  <2>. QED  BY <1>1, <1>5, <2>1 DEF TweenTick, CameraInv
<1>6. CASE FocusStep
  <2>1. /\ focus' = [focus EXCEPT !.t = tween.t, !.weight = tween.weight]
        /\ UNCHANGED <<rendered, tween, depth>>
    BY <1>6 DEF FocusStep
  <2>2. focus'.key = focus.key
    BY <1>1, <2>1 DEF CameraInv, FocusFrame
  <2>. QED  BY <1>1, <2>1, <2>2 DEF CameraInv
<1>. QED  BY <1>2, <1>3, <1>4, <1>5, <1>6 DEF FocusNext

(***************************************************************************)
(* CameraRig.tsx:47-84 - however clicks, commits, frames and groups that   *)
(* vanish meet: where the page comes to rest, the camera has arrived, the  *)
(* satellites are those of the focus and the depth of field goes with it.  *)
(***************************************************************************)
THEOREM CameraArrives == VisualsSpec => []RestIsSettled
<1>1. VisualsInit => FocusInv /\ CameraInv
  <2>1. FocusInit => CameraInv
    BY DEF FocusInit, CameraInv, Whole
  <2>. QED  BY <2>1, FocusInitInv DEF VisualsInit
<1>2. FocusInv /\ CameraInv /\ [VisualsNext]_visualsVars => (FocusInv /\ CameraInv)'
  BY PartSteps, FocusNextInv, CameraStep
<1>3. CameraInv => RestIsSettled
  <2>. SUFFICES ASSUME CameraInv, FocusAtRest PROVE Settled
    BY DEF RestIsSettled
  <2>1. /\ focus.key = focusedKey /\ focus.t = Whole /\ rendered = focusedKey
        /\ focus.weight = (IF focusedKey = NoGroup THEN 0 ELSE Whole)
        /\ depth.release \in Nat /\ ~(depth.release > 0)
    BY DEF CameraInv, FocusAtRest
  <2>2. satellites.owner = focusedKey
    BY <2>1 DEF FocusAtRest, OwnerOf
  <2>. QED  BY <2>1, <2>2 DEF Settled, DepthActive
<1>. QED  BY <1>1, <1>2, <1>3, PTL DEF VisualsSpec
=============================================================================
