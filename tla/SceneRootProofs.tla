-------------------------- MODULE SceneRootProofs --------------------------
(***************************************************************************)
(* For any pids, engine runs and snapshots, whichever of them the frames   *)
(* see: the tracker and the consumer agree, the focus is on a body that    *)
(* stays, no opacity jumps, and what is told of births and deaths has      *)
(* happened.                                                               *)
(***************************************************************************)
EXTENDS SceneRoot, TLAPS

----------------------------------------------------------------------------
(***************************************************************************)
(* The entries of the tracker.                                             *)
(***************************************************************************)
Body == [phase : Phase, progress : 0..Full, value : Value]

Near(x, y, step) == x <= y + step /\ y <= x + step

LEMMA OpacityFact ==
    ASSUME NEW e \in Body
    PROVE  Opacity(e) \in 0..Full
BY FullAssumption DEF Opacity, Body, Phase, IsLeaving

\* An entry whose phase goes on.
LEMMA Continued ==
    ASSUME NEW e \in Body, NEW step \in 0..Full
    PROVE  LET c == Continue(e, step)
           IN  /\ c \in Body /\ c.phase = e.phase /\ c.value = e.value
               /\ Near(Opacity(c), Opacity(e), step)
               /\ IsLeaving(e.phase) /\ c.progress = Full => Opacity(e) <= step
<1>. DEFINE p == IF e.progress + step < Full THEN e.progress + step ELSE Full
            c == Continue(e, step)
<1>1. CASE e.phase = "present"
  BY <1>1, OpacityFact, FullAssumption DEF Continue, Near, Body, IsLeaving
<1>2. CASE e.phase # "present"
  <2>1. p \in 0..Full /\ e.progress \in 0..Full
    BY FullAssumption DEF Body
  <2>2. c = [e EXCEPT !.progress = p]
    BY <1>2 DEF Continue
  <2>. HIDE DEF c
  <2>3. c \in Body /\ c.phase = e.phase /\ c.value = e.value /\ c.progress = p
    BY <2>1, <2>2 DEF Body
  <2>4. \/ IsLeaving(e.phase) /\ Opacity(c) = Full - p /\ Opacity(e) = Full - e.progress
        \/ ~IsLeaving(e.phase) /\ Opacity(c) = p /\ Opacity(e) = e.progress
    BY <1>2, <2>3 DEF Opacity
  <2>. QED  BY <2>1, <2>3, <2>4, FullAssumption DEF Near, c
<1>. QED  BY <1>1, <1>2

\* An entry in the input stays, with the input's value.
LEMMA Returned ==
    ASSUME NEW e \in Body, NEW v \in Value, NEW step \in 0..Full
    PROVE  LET r == Settle(Return(e, v, step))
           IN  /\ r \in Body /\ ~IsLeaving(r.phase) /\ r.value = v
               /\ \/ Near(Opacity(r), Opacity(e), step)
                  \/ e.phase = "collapsing" /\ Opacity(r) = 0
<1>. DEFINE r == Return(e, v, step)
<1>1. /\ r \in Body /\ ~IsLeaving(r.phase) /\ r.value = v
      /\ \/ Near(Opacity(r), Opacity(e), step)
         \/ e.phase = "collapsing" /\ r.progress = 0 /\ r.phase = "fading-in"
  <2>1. CASE e.phase = "fading-out"
    <3>1. r = [phase |-> "fading-in", progress |-> Opacity(e), value |-> v]
      BY <2>1 DEF Return, Entry
    <3>2. Opacity(r) = Opacity(e)
      BY <3>1 DEF Opacity, IsLeaving
    <3>. QED  BY <3>1, <3>2, OpacityFact, FullAssumption DEF Body, Phase, IsLeaving, Near
  <2>2. CASE e.phase = "collapsing"
    BY <2>2, FullAssumption DEF Return, Entry, Body, Phase, IsLeaving
  <2>3. CASE e.phase \notin {"fading-out", "collapsing"}
    <3>. DEFINE c == Continue(e, step)
    <3>1. c \in Body /\ c.phase = e.phase /\ Near(Opacity(c), Opacity(e), step)
      BY Continued
    <3>2. r = [c EXCEPT !.value = v]
      BY <2>3 DEF Return
    <3>. HIDE DEF c, r
    <3>3. r \in Body /\ r.phase = c.phase /\ r.progress = c.progress /\ r.value = v
      BY <3>1, <3>2 DEF Body
    <3>4. Opacity(r) = Opacity(c)
      BY <3>3 DEF Opacity
    <3>. QED  BY <2>3, <3>1, <3>3, <3>4 DEF IsLeaving
  <2>. QED  BY <2>1, <2>2, <2>3
<1>. HIDE DEF r
<1>2. /\ Settle(r) \in Body /\ ~IsLeaving(Settle(r).phase) /\ Settle(r).value = v
      /\ Opacity(Settle(r)) = Opacity(r)
  <2>1. CASE r.progress = Full
    <3>1. Settle(r) = [r EXCEPT !.phase = "present"]
      BY <1>1, <2>1 DEF Settle
    <3>2. Settle(r) = [phase |-> "present", progress |-> Full, value |-> v]
      BY <1>1, <2>1, <3>1 DEF Body
    <3>3. Opacity(Settle(r)) = Full
      <4>1. Settle(r).phase = "present"
        BY <3>2
      <4>2. \A x : x.phase = "present" => Opacity(x) = Full
        BY DEF Opacity, IsLeaving
      <4>. QED  BY <4>1, <4>2, Zenon
    <3>4. Opacity(r) = Full
      BY <1>1, <2>1 DEF Opacity
    <3>. QED  BY <3>2, <3>3, <3>4, FullAssumption, <1>1 DEF Body, Phase, IsLeaving
  <2>2. CASE r.progress # Full
    BY <1>1, <2>2 DEF Settle
  <2>. QED  BY <2>1, <2>2
<1>3. r.progress = 0 /\ r.phase = "fading-in" => Opacity(r) = 0
  BY DEF Opacity, IsLeaving
<1>. QED  BY <1>1, <1>2, <1>3 DEF r

\* An entry that is not leaves, with the value it had.
LEMMA Departed ==
    ASSUME NEW e \in Body, NEW died \in BOOLEAN, NEW step \in 0..Full
    PROVE  LET l == Leave(e, died, step)
           IN  /\ l \in Body /\ IsLeaving(l.phase) /\ l.value = e.value
               /\ Near(Opacity(l), Opacity(e), step)
               /\ Over(l) => Opacity(e) <= step
               /\ l.phase = "collapsing" <=> IF IsLeaving(e.phase) THEN e.phase = "collapsing"
                                             ELSE died
<1>1. CASE IsLeaving(e.phase)
  BY <1>1, Continued DEF Leave, Over
<1>2. CASE ~IsLeaving(e.phase)
  <2>. DEFINE o == Opacity(e)
              l == Leave(e, died, step)
  <2>1. o \in 0..Full
    BY OpacityFact
  <2>. HIDE DEF o
  <2>2. l = [phase |-> IF died THEN "collapsing" ELSE "fading-out",
             progress |-> Full - o, value |-> e.value]
    BY <1>2 DEF Leave, Entry, o
  <2>3. Full - o \in 0..Full /\ Full - (Full - o) = o
    BY <2>1, FullAssumption
  <2>. HIDE DEF l
  <2>4. l \in Body /\ IsLeaving(l.phase) /\ l.value = e.value /\ l.progress = Full - o
        /\ (l.phase = "collapsing" <=> died)
    BY <2>2, <2>3 DEF Body, Phase, IsLeaving
  <2>5. Opacity(l) = o
    BY <2>3, <2>4 DEF Opacity, IsLeaving
  <2>6. Over(l) => o = 0
    BY <2>1, <2>4, FullAssumption DEF Over
  <2>. QED  BY <1>2, <2>1, <2>4, <2>5, <2>6 DEF Near, o, l
<1>. QED  BY <1>1, <1>2

----------------------------------------------------------------------------
(***************************************************************************)
(* The tracker.                                                            *)
(***************************************************************************)
IsTracker(t) ==
    /\ t = [items |-> t.items, initialized |-> t.initialized, version |-> t.version]
    /\ DOMAIN t.items \subseteq Pids /\ t.items \in [DOMAIN t.items -> Body]
    /\ t.initialized \in BOOLEAN /\ (~t.initialized => DOMAIN t.items = {})

\* What an update makes of t: who is in the input stays, the others leave until
\* they are over, and the version tells whether the membership has changed.
Updated(u, t, input, died, step) ==
    /\ DOMAIN input \subseteq DOMAIN u.items
    /\ DOMAIN u.items \subseteq DOMAIN input \cup DOMAIN t.items
    /\ \A k \in DOMAIN input :
          /\ ~IsLeaving(u.items[k].phase) /\ u.items[k].value = input[k]
          /\ t.initialized =>
               IF k \in DOMAIN t.items
               THEN \/ Near(Opacity(u.items[k]), Opacity(t.items[k]), step)
                    \/ t.items[k].phase = "collapsing" /\ Opacity(u.items[k]) = 0
               ELSE Opacity(u.items[k]) = 0
    /\ \A k \in DOMAIN t.items \ DOMAIN input :
          LET l == Leave(t.items[k], k \in died, step)
          IN  IF k \in DOMAIN u.items THEN u.items[k] = l ELSE Over(l)
    /\ u.version = 1 \/ (u.version = t.version /\ DOMAIN u.items = DOMAIN t.items)

LEMMA UpdateFact ==
    ASSUME NEW t, IsTracker(t), NEW input, DOMAIN input \subseteq Pids,
           \A k \in DOMAIN input : input[k] \in Value,
           NEW born, NEW died, NEW step \in 0..Full
    PROVE  /\ IsTracker(Update(t, input, born, died, step))
           /\ Updated(Update(t, input, born, died, step), t, input, died, step)
<1>. DEFINE D == DOMAIN input
            T == DOMAIN t.items
            first == [k \in DOMAIN input |-> Entry("present", Full, input[k])]
            moved == [k \in DOMAIN t.items \cup DOMAIN input |->
                        IF k \notin DOMAIN input
                        THEN Leave(t.items[k], k \in died, step)
                        ELSE IF k \in DOMAIN t.items
                        THEN Settle(Return(t.items[k], input[k], step))
                        ELSE Entry(IF k \in born THEN "forming" ELSE "fading-in",
                                   0, input[k])]
            kept == {k \in DOMAIN moved : ~Over(moved[k])}
            items == IF t.initialized THEN Restrict(moved, kept) ELSE first
            ended == IF t.initialized THEN DOMAIN moved \ DOMAIN items ELSE {}
            added == DOMAIN items \ DOMAIN t.items
            version == IF ended \cup added = {} THEN t.version ELSE 1
            u == Update(t, input, born, died, step)
<1>1. u = [items |-> items, initialized |-> TRUE, version |-> version]
  BY DEF Update
<1>2. /\ T \subseteq Pids /\ \A k \in T : t.items[k] \in Body
      /\ t.initialized \in BOOLEAN /\ (~t.initialized => T = {})
      /\ D \subseteq Pids
  BY DEF IsTracker
<1>3. DOMAIN moved = T \cup D
  OBVIOUS
<1>4. ASSUME NEW k \in D
      PROVE  /\ moved[k] \in Body /\ ~IsLeaving(moved[k].phase) /\ moved[k].value = input[k]
             /\ IF k \in T
                THEN \/ Near(Opacity(moved[k]), Opacity(t.items[k]), step)
                     \/ t.items[k].phase = "collapsing" /\ Opacity(moved[k]) = 0
                ELSE Opacity(moved[k]) = 0
  <2>1. CASE k \in T
    <3>1. moved[k] = Settle(Return(t.items[k], input[k], step))
      BY <2>1
    <3>. QED  BY <1>2, <2>1, <3>1, Returned
  <2>2. CASE k \notin T
    <3>1. moved[k] = [phase |-> IF k \in born THEN "forming" ELSE "fading-in",
                      progress |-> 0, value |-> input[k]]
      BY <2>2 DEF Entry
    <3>2. moved[k].phase \in {"forming", "fading-in"} /\ moved[k].progress = 0
      BY <3>1
    <3>. HIDE DEF moved
    <3>3. Opacity(moved[k]) = 0
      BY <3>2 DEF Opacity, IsLeaving
    <3>. QED  BY <2>2, <3>1, <3>2, <3>3, FullAssumption DEF Body, IsLeaving, Phase
  <2>. QED  BY <2>1, <2>2
<1>5. ASSUME NEW k \in T \ D
      PROVE  moved[k] = Leave(t.items[k], k \in died, step) /\ moved[k] \in Body
  <2>1. moved[k] = Leave(t.items[k], k \in died, step)
    OBVIOUS
  <2>2. (k \in died) \in BOOLEAN
    OBVIOUS
  <2>. QED  BY <1>2, <2>1, <2>2, Departed
<1>6. /\ DOMAIN first = D
      /\ \A k \in D : first[k] \in Body /\ ~IsLeaving(first[k].phase)
                      /\ first[k].value = input[k]
  BY FullAssumption DEF Entry, Body, IsLeaving, Phase
<1>. HIDE DEF moved, first
<1>7. /\ D \subseteq DOMAIN items /\ DOMAIN items \subseteq D \cup T
      /\ items \in [DOMAIN items -> Body]
  <2>1. CASE ~t.initialized
    <3>1. items = first
      BY <2>1
    <3>2. first = [k \in D |-> first[k]]
      BY <1>6 DEF first
    <3>. QED  BY <1>6, <3>1, <3>2
  <2>2. CASE t.initialized
    <3>1. items = [k \in kept |-> moved[k]]
      BY <2>2 DEF Restrict
    <3>2. D \subseteq kept /\ kept \subseteq D \cup T
      BY <1>3, <1>4 DEF Over
    <3>3. \A k \in kept : moved[k] \in Body
      BY <1>4, <1>5, <3>2
    <3>. HIDE DEF kept
    <3>. QED  BY <3>1, <3>2, <3>3
  <2>. QED  BY <1>2, <2>1, <2>2
<1>8. t.initialized =>
        /\ \A k \in DOMAIN items : items[k] = moved[k]
        /\ \A k \in (D \cup T) \ DOMAIN items : Over(moved[k])
        /\ ended = DOMAIN moved \ DOMAIN items
  BY <1>3 DEF Restrict
<1>9. version = 1 \/ (version = t.version /\ DOMAIN items = T)
  BY <1>2, <1>3, <1>7
<1>10. u.items = items /\ u.initialized = TRUE /\ u.version = version
       /\ u = [items |-> u.items, initialized |-> u.initialized, version |-> u.version]
  BY <1>1
<1>11. ~t.initialized => items = first
  OBVIOUS
<1>. HIDE DEF items, version, ended, u
<1>12. IsTracker(u)
  BY <1>2, <1>7, <1>10 DEF IsTracker
<1>13. Updated(u, t, input, died, step)
  <2>1. ASSUME NEW k \in D
        PROVE  /\ ~IsLeaving(u.items[k].phase) /\ u.items[k].value = input[k]
               /\ t.initialized =>
                    IF k \in T
                    THEN \/ Near(Opacity(u.items[k]), Opacity(t.items[k]), step)
                         \/ t.items[k].phase = "collapsing" /\ Opacity(u.items[k]) = 0
                    ELSE Opacity(u.items[k]) = 0
    <3>1. CASE t.initialized
      BY <1>4, <1>7, <1>8, <1>10, <3>1
    <3>2. CASE ~t.initialized
      BY <1>6, <1>10, <1>11, <3>2
    <3>. QED  BY <1>2, <3>1, <3>2
  <2>2. ASSUME NEW k \in T \ D
        PROVE  LET l == Leave(t.items[k], k \in died, step)
               IN  IF k \in DOMAIN u.items THEN u.items[k] = l ELSE Over(l)
    <3>1. t.initialized
      BY <1>2
    <3>. QED  BY <1>5, <1>8, <1>10, <3>1
  <2>. QED  BY <1>7, <1>9, <1>10, <2>1, <2>2 DEF Updated
<1>. QED  BY <1>12, <1>13 DEF u

LEMMA ResetFact ==
    ASSUME NEW t, IsTracker(t)
    PROVE  /\ IsTracker(Reset(t)) /\ DOMAIN Reset(t).items = {}
           /\ ~Reset(t).initialized
           /\ Reset(t).version = 1 \/ (Reset(t).version = t.version /\ DOMAIN t.items = {})
<1>. DEFINE none == [k \in {} |-> 0]
            v == IF DOMAIN t.items = {} THEN t.version ELSE 1
<1>1. Reset(t) = [items |-> none, initialized |-> FALSE, version |-> v]
  BY DEF Reset
<1>2. DOMAIN none = {} /\ none \in [{} -> Body]
  OBVIOUS
<1>3. v = 1 \/ (v = t.version /\ DOMAIN t.items = {})
  OBVIOUS
<1>. HIDE DEF none, v
<1>4. Reset(t).items = none /\ Reset(t).initialized = FALSE /\ Reset(t).version = v
  BY <1>1
<1>. QED  BY <1>1, <1>2, <1>3, <1>4 DEF IsTracker

----------------------------------------------------------------------------
(***************************************************************************)
(* The processes.                                                          *)
(***************************************************************************)
Lives == [life : 0..MaxLives, root : Pids \cup {Null}, age : 0..Unreported,
          told : SUBSET {"group-born", "child-born"}]

IsWorld(w) == /\ w \in [Pids -> Lives]
              /\ \A p \in Pids : w[p].root # Null => w[p].life >= 1

\* The process p of w has ended in v.
Ended(w, v, p) == v[p].root = Null \/ v[p].life > w[p].life

\* What may come of a process between two snapshots.
Passed(w, v, ended, started, reported) ==
    /\ \A p \in Pids : w[p].life <= v[p].life /\ v[p].told \subseteq w[p].told
    /\ \A p \in Pids : p \in ended \/ w[p].root = Null => Ended(w, v, p)
    /\ \A p \in started : /\ v[p].root # Null /\ v[p].told = {}
                          /\ reported => v[p].age = 0
    /\ \A p \in Pids \ started : v[p].root # Null => w[p].root # Null
                                                    /\ v[p].age <= w[p].age + 1

LEMMA WorldStep ==
    ASSUME IsWorld(world), NEW ended \in SUBSET Living(world),
           NEW started \in SUBSET {p \in Pids \ (Living(world) \ ended) :
                                      world[p].life < MaxLives},
           NEW root \in NextRoots(ended, started), NEW reported \in BOOLEAN
    PROVE  /\ IsWorld(NextWorld(root, ended, started, reported))
           /\ Passed(world, NextWorld(root, ended, started, reported),
                     ended, started, reported)
<1>. DEFINE w == NextWorld(root, ended, started, reported)
            live == (Living(world) \ ended) \cup started
<1>1. /\ root \in [Pids -> Pids \cup {Null}]
      /\ \A p \in Pids : root[p] = Null <=> p \notin live
  BY DEF NextRoots
<1>2. MaxLives \in Nat /\ Unreported \in Nat \ {0} /\ Null \notin Pids
  BY SceneAssumption, WindowAssumption DEF Unreported
<1>3. ASSUME NEW p \in Pids
      PROVE  /\ w[p] \in Lives /\ w[p].root = root[p]
             /\ w[p].root # Null => w[p].life >= 1
             /\ world[p].life <= w[p].life /\ w[p].told \subseteq world[p].told
             /\ p \in ended \/ world[p].root = Null => Ended(world, w, p)
             /\ p \in started => /\ w[p].root # Null /\ w[p].told = {}
                                 /\ reported => w[p].age = 0
             /\ p \notin started /\ w[p].root # Null
                  => world[p].root # Null /\ w[p].age <= world[p].age + 1
  <2>1. world[p] \in Lives /\ (world[p].root # Null => world[p].life >= 1)
    BY DEF IsWorld
  <2>2. p \in Living(world) <=> world[p].root # Null
    BY DEF Living
  <2>3. CASE root[p] = Null
    <3>1. w[p] = Dead(world[p].life)
      BY <2>3 DEF NextWorld
    <3>2. w[p] = [life |-> world[p].life, root |-> Null, age |-> Unreported, told |-> {}]
      BY <3>1 DEF Dead
    <3>3. p \notin started
      BY <1>1, <2>3
    <3>. HIDE DEF w
    <3>. QED  BY <1>2, <2>1, <2>3, <3>2, <3>3 DEF Lives, Ended
  <2>4. CASE root[p] # Null /\ p \in started
    <3>1. w[p] = [life |-> world[p].life + 1, root |-> root[p], told |-> {},
                  age |-> IF reported THEN 0 ELSE Unreported]
      BY <2>4 DEF NextWorld
    <3>2. world[p].life + 1 \in 0..MaxLives /\ world[p].life + 1 >= 1
          /\ world[p].life < world[p].life + 1
      <4>1. world[p].life \in 0..MaxLives
        BY <2>1 DEF Lives
      <4>2. world[p].life < MaxLives
        BY <2>4
      <4>. QED  BY <1>2, <4>1, <4>2
    <3>3. (IF reported THEN 0 ELSE Unreported) \in 0..Unreported
      BY <1>2
    <3>. HIDE DEF w
    <3>. QED  BY <1>1, <1>2, <2>1, <2>4, <3>1, <3>2, <3>3 DEF Lives, Ended
  <2>5. CASE root[p] # Null /\ p \notin started
    <3>. DEFINE older == IF world[p].age < Unreported THEN world[p].age + 1
                         ELSE world[p].age
    <3>1. w[p] = [world[p] EXCEPT !.root = root[p], !.age = older]
      BY <2>5 DEF NextWorld
    <3>2. older \in 0..Unreported /\ older <= world[p].age + 1
      BY <1>2, <2>1 DEF Lives
    <3>3. p \in Living(world) /\ p \notin ended
      BY <1>1, <2>5
    <3>. HIDE DEF w, older
    <3>4. w[p] = [life |-> world[p].life, root |-> root[p], age |-> older,
                  told |-> world[p].told]
      BY <2>1, <3>1 DEF Lives
    <3>5. w[p] \in Lives
      BY <1>1, <2>1, <3>2, <3>4 DEF Lives
    <3>. QED  BY <2>1, <2>2, <2>5, <3>2, <3>3, <3>4, <3>5 DEF Lives
  <2>. QED  BY <2>3, <2>4, <2>5
<1>4. w \in [Pids -> Lives]
  BY <1>3 DEF NextWorld
<1>5. started \subseteq Pids
  OBVIOUS
<1>. HIDE DEF w
<1>. QED  BY <1>3, <1>4, <1>5 DEF IsWorld, Passed, w

\* A frame notes what it told and changes nothing else of the world.
LEMMA RememberFact ==
    ASSUME IsWorld(world), NEW told, Remember(told)
    PROVE  /\ IsWorld(world')
           /\ \A p \in Pids : /\ world'[p].life = world[p].life
                              /\ world'[p].root = world[p].root
                              /\ world'[p].age = world[p].age
                              /\ "group-born" \in world'[p].told =>
                                   \/ "group-born" \in world[p].told
                                   \/ \E e \in told : e.pid = p /\ e.kind = "group-born"
<1>. DEFINE news(p) == {e.kind : e \in {e \in told : e.pid = p /\ e.kind \in
                                             {"group-born", "child-born"}}}
<1>1. \A p \in Pids : world'[p] = [world[p] EXCEPT !.told = world[p].told \cup news(p)]
  BY DEF Remember
<1>2. ASSUME NEW p \in Pids
      PROVE  /\ world'[p] \in Lives
             /\ world'[p].life = world[p].life /\ world'[p].root = world[p].root
             /\ world'[p].age = world[p].age /\ world'[p].told = world[p].told \cup news(p)
  <2>1. world[p] \in Lives
    BY DEF IsWorld
  <2>2. news(p) \subseteq {"group-born", "child-born"}
    OBVIOUS
  <2>. DEFINE t == world[p].told \cup news(p)
  <2>3. t \subseteq {"group-born", "child-born"}
    BY <2>1, <2>2 DEF Lives
  <2>4. world'[p] = [world[p] EXCEPT !.told = t]
    BY <1>1
  <2>. HIDE DEF news, t
  <2>5. world'[p] = [life |-> world[p].life, root |-> world[p].root,
                     age |-> world[p].age, told |-> t]
    BY <2>1, <2>4 DEF Lives
  <2>6. world'[p] \in Lives
    BY <2>1, <2>3, <2>5 DEF Lives
  <2>. QED  BY <2>5, <2>6 DEF t
<1>3. world' \in [Pids -> Lives]
  BY <1>2 DEF Remember
<1>4. \A p \in Pids : "group-born" \in news(p) =>
                        \E e \in told : e.pid = p /\ e.kind = "group-born"
  OBVIOUS
<1>. HIDE DEF news
<1>. QED  BY <1>2, <1>3, <1>4 DEF IsWorld

----------------------------------------------------------------------------
(***************************************************************************)
(* The consumer.                                                           *)
(***************************************************************************)
\* Every member is of a group, whose root is a member and has its own pid as key.
IsMembership(m) ==
    /\ DOMAIN m \subseteq Pids
    /\ \A p \in DOMAIN m : /\ m[p].isRoot <=> m[p].key = p
                           /\ m[p].key \in DOMAIN m /\ m[m[p].key].key = m[p].key

IsSnapshot(s) ==
    /\ s = [seq |-> s.seq, groups |-> s.groups, spawned |-> s.spawned,
            terminated |-> s.terminated]
    /\ s.seq \in 0..MaxSeq /\ (s.seq = 0 => s = NoSnapshot)
    /\ DOMAIN s.groups \subseteq Pids /\ \A k \in DOMAIN s.groups : s.groups[k] \in Value
    /\ \A j, k \in DOMAIN s.groups : j \notin s.groups[k].children
    /\ s.spawned \subseteq Pids /\ s.terminated \subseteq Pids

IsConsumer(c) ==
    /\ c = [lastSeq |-> c.lastSeq, previous |-> c.previous, recentSpawns |-> c.recentSpawns]
    /\ c.lastSeq \in 0..MaxSeq /\ IsMembership(c.previous)
    /\ DOMAIN c.recentSpawns \subseteq Pids
    /\ \A p \in DOMAIN c.recentSpawns : c.recentSpawns[p] \in 1..c.lastSeq

LEMMA MembershipFact ==
    ASSUME NEW s, IsSnapshot(s)
    PROVE  IsMembership(MembershipOf(s)) /\ KeysOf(MembershipOf(s)) = DOMAIN s.groups
<1>. DEFINE m == MembershipOf(s)
            keyOf(p) == CHOOSE k \in DOMAIN s.groups : p = k \/ p \in s.groups[k].children
<1>1. DOMAIN m = PidsOf(s) /\ DOMAIN s.groups \subseteq PidsOf(s)
  BY DEF MembershipOf, PidsOf
<1>2. \A p \in PidsOf(s) : m[p].key = keyOf(p) /\ (m[p].isRoot <=> p = keyOf(p))
  BY DEF MembershipOf
<1>3. ASSUME NEW p \in PidsOf(s)
      PROVE  keyOf(p) \in DOMAIN s.groups /\ (p = keyOf(p) \/ p \in s.groups[keyOf(p)].children)
  <2>1. \E k \in DOMAIN s.groups : p = k \/ p \in s.groups[k].children
    BY DEF PidsOf
  <2>. QED  BY <2>1
<1>4. \A k \in DOMAIN s.groups : keyOf(k) = k
  <2>1. SUFFICES ASSUME NEW k \in DOMAIN s.groups PROVE keyOf(k) = k
    OBVIOUS
  <2>2. k \in PidsOf(s)
    BY <1>1
  <2>. HIDE DEF keyOf
  <2>. QED  BY <1>3, <2>2 DEF IsSnapshot
<1>5. PidsOf(s) \subseteq Pids
  BY DEF PidsOf, IsSnapshot, Value
<1>. HIDE DEF m, keyOf
<1>6. IsMembership(m)
  BY <1>1, <1>2, <1>3, <1>4, <1>5 DEF IsMembership
<1>7. KeysOf(m) = DOMAIN s.groups
  BY <1>1, <1>2, <1>3, <1>4 DEF KeysOf
<1>. QED  BY <1>6, <1>7 DEF m

\* What a consumer c makes of a snapshot it has not seen.
Consumed(r, c, s) ==
    /\ KeysOf(r.consumer.previous) = DOMAIN s.groups
    /\ \A p \in DOMAIN r.consumer.recentSpawns :
          /\ \/ p \in s.spawned /\ r.consumer.recentSpawns[p] = s.seq
             \/ /\ p \in DOMAIN c.recentSpawns
                /\ r.consumer.recentSpawns[p] = c.recentSpawns[p]
          /\ ~\E e \in r.events : e.pid = p /\ e.kind = "group-born"
    /\ \A e \in r.events : e.kind = "group-born" =>
          /\ e.pid \in DOMAIN s.groups /\ c.lastSeq # 0
          /\ \/ e.pid \in s.spawned
             \/ /\ e.pid \in DOMAIN c.recentSpawns
                /\ c.recentSpawns[e.pid] + SPAWN_WINDOW_SNAPSHOTS >= s.seq
    /\ IF c.lastSeq = 0 THEN r.events = {} /\ DOMAIN r.consumer.recentSpawns = {}
       ELSE KeysDied(r.events) = KeysOf(c.previous) \cap s.terminated

LEMMA DiedFact ==
    ASSUME NEW c, IsConsumer(c), NEW s
    PROVE  KeysDied(Died(c, s)) = KeysOf(c.previous) \cap s.terminated
           /\ \A e \in Died(c, s) : e.kind \in {"group-died", "child-died"}
<1>1. \A e \in Died(c, s) : \E p \in s.terminated \cap DOMAIN c.previous :
         e.kind = (IF c.previous[p].isRoot THEN "group-died" ELSE "child-died")
         /\ e.key = c.previous[p].key
  BY DEF Died, Event
<1>2. ASSUME NEW p \in s.terminated \cap DOMAIN c.previous
      PROVE  \E e \in Died(c, s) :
                e.kind = (IF c.previous[p].isRoot THEN "group-died" ELSE "child-died")
                /\ e.key = c.previous[p].key
  <2>. DEFINE e == Event(IF c.previous[p].isRoot THEN "group-died" ELSE "child-died",
                         c.previous[p].key, p)
  <2>1. e \in Died(c, s)
    BY DEF Died
  <2>2. e.kind = (IF c.previous[p].isRoot THEN "group-died" ELSE "child-died")
        /\ e.key = c.previous[p].key
    BY DEF Event
  <2>. QED  BY <2>1, <2>2, Zenon
<1>3. \A k \in KeysOf(c.previous) : /\ k \in DOMAIN c.previous /\ c.previous[k].key = k
                                    /\ c.previous[k].isRoot
  BY DEF KeysOf, IsConsumer, IsMembership
<1>4. \A p \in DOMAIN c.previous : c.previous[p].isRoot =>
         c.previous[p].key = p /\ p \in KeysOf(c.previous)
  BY DEF KeysOf, IsConsumer, IsMembership
<1>5. KeysDied(Died(c, s)) \subseteq KeysOf(c.previous) \cap s.terminated
  BY <1>1, <1>4 DEF KeysDied
<1>6. KeysOf(c.previous) \cap s.terminated \subseteq KeysDied(Died(c, s))
  BY <1>2, <1>3 DEF KeysDied
<1>. QED  BY <1>1, <1>5, <1>6

LEMMA SpawnsFact ==
    ASSUME NEW c, IsConsumer(c), NEW s, IsSnapshot(s)
    PROVE  /\ DOMAIN Spawns(c, s) \subseteq Pids
           /\ \A p \in DOMAIN Spawns(c, s) :
                \/ p \in s.spawned /\ Spawns(c, s)[p] = s.seq
                \/ /\ p \in DOMAIN c.recentSpawns
                   /\ Spawns(c, s)[p] = c.recentSpawns[p]
                   /\ c.recentSpawns[p] + SPAWN_WINDOW_SNAPSHOTS >= s.seq
<1>. DEFINE noted == [p \in DOMAIN c.recentSpawns \cup s.spawned |->
                        IF p \in s.spawned THEN s.seq ELSE c.recentSpawns[p]]
            late == {p \in DOMAIN noted :
                        noted[p] + SPAWN_WINDOW_SNAPSHOTS >= s.seq}
<1>1. Spawns(c, s) = [p \in late |-> noted[p]]
  BY DEF Spawns, Restrict
<1>2. \A p \in late : /\ p \in DOMAIN c.recentSpawns \cup s.spawned
                      /\ noted[p] = IF p \in s.spawned THEN s.seq ELSE c.recentSpawns[p]
                      /\ noted[p] + SPAWN_WINDOW_SNAPSHOTS >= s.seq
  OBVIOUS
<1>. HIDE DEF noted, late
<1>3. DOMAIN Spawns(c, s) = late /\ \A p \in late : Spawns(c, s)[p] = noted[p]
  BY <1>1
<1>. QED  BY <1>2, <1>3 DEF IsConsumer, IsSnapshot

LEMMA ConsumeFact ==
    ASSUME NEW c, IsConsumer(c), NEW s, IsSnapshot(s), s.seq > 0, c.lastSeq <= s.seq
    PROVE  /\ IsConsumer(Consume(c, s).consumer) /\ Consume(c, s).consumer.lastSeq = s.seq
           /\ IF s.seq = c.lastSeq
              THEN Consume(c, s).consumer = c /\ Consume(c, s).events = {}
              ELSE Consumed(Consume(c, s), c, s)
<1>. DEFINE first == c.lastSeq = 0
            born == IF first THEN {} ELSE BornGroups(c, s)
            spawns == IF first THEN c.recentSpawns ELSE Spawns(c, s)
            children == BornChildren(s)
            died == Died(c, s)
            births == {Event("group-born", k, k) : k \in born}
            told == births \cup children \cup died
            recent == Restrict(spawns, DOMAIN spawns \ born)
            r == Consume(c, s)
            n == s.seq
<1>1. CASE n = c.lastSeq
  <2>1. r = [consumer |-> c, events |-> {}]
    BY <1>1 DEF Consume
  <2>. QED  BY <1>1, <2>1
<1>2. CASE n # c.lastSeq
  <2>1. r = [consumer |-> [lastSeq |-> n, previous |-> MembershipOf(s),
                           recentSpawns |-> recent],
             events |-> IF first THEN {} ELSE told]
    BY <1>2 DEF Consume
  <2>2. /\ n \in 1..MaxSeq /\ c.lastSeq \in 0..MaxSeq /\ MaxSeq \in Nat
        /\ SPAWN_WINDOW_SNAPSHOTS \in Nat
    BY SceneAssumption, WindowAssumption DEF IsSnapshot, IsConsumer
  <2>3. DOMAIN recent = DOMAIN spawns \ born /\ \A p \in DOMAIN recent : recent[p] = spawns[p]
    BY DEF Restrict
  <2>4. /\ DOMAIN spawns \subseteq Pids
        /\ \A p \in DOMAIN spawns :
              \/ p \in s.spawned /\ spawns[p] = n
              \/ /\ p \in DOMAIN c.recentSpawns /\ spawns[p] = c.recentSpawns[p]
                 /\ first \/ c.recentSpawns[p] + SPAWN_WINDOW_SNAPSHOTS >= n
    BY SpawnsFact DEF IsConsumer
  <2>5. ~first => \A k \in born : k \in DOMAIN spawns /\ k \in DOMAIN s.groups
    BY DEF BornGroups
  <2>6. first => born = {}
    OBVIOUS
  <2>7. \A e \in children : e.kind = "child-born"
    BY DEF BornChildren, Event
  <2>8. /\ \A e \in births : e.kind = "group-born" /\ e.pid = e.key /\ e.key \in born
    BY DEF Event
  <2>9. /\ KeysDied(died) = KeysOf(c.previous) \cap s.terminated
        /\ \A e \in died : e.kind \in {"group-died", "child-died"}
    BY DiedFact
  <2>. HIDE DEF born, spawns, recent, children, died, births
  <2>10. /\ r.consumer.lastSeq = n /\ r.consumer.previous = MembershipOf(s)
         /\ r.consumer.recentSpawns = recent
         /\ r.consumer = [lastSeq |-> n, previous |-> MembershipOf(s),
                          recentSpawns |-> recent]
         /\ r.events = IF first THEN {} ELSE told
    BY <2>1
  <2>11. \A p \in DOMAIN recent : recent[p] \in 1..n
    BY <2>2, <2>3, <2>4 DEF IsConsumer
  <2>. HIDE DEF r, n
  <2>12. IsConsumer(r.consumer)
    <3>1. DOMAIN recent \subseteq Pids
      BY <2>3, <2>4
    <3>. QED  BY <2>2, <2>10, <2>11, <3>1, MembershipFact DEF IsConsumer
  <2>13. KeysDied(told) = KeysDied(died)
    BY <2>7, <2>8 DEF KeysDied
  <2>14. \A e \in told : e.kind = "group-born" => e \in births
    BY <2>7, <2>9
  <2>15. Consumed(r, c, s)
    <3>1. KeysOf(r.consumer.previous) = DOMAIN s.groups
      BY <2>10, MembershipFact
    <3>2. \A p \in DOMAIN recent : ~\E e \in r.events : e.pid = p /\ e.kind = "group-born"
      BY <2>3, <2>8, <2>10, <2>14
    <3>3. \A e \in r.events : e.kind = "group-born" =>
            ~first /\ e.pid \in DOMAIN s.groups /\ e.pid \in DOMAIN spawns
      BY <2>5, <2>8, <2>10, <2>14
    <3>4. IF first THEN r.events = {} /\ DOMAIN r.consumer.recentSpawns = {}
          ELSE KeysDied(r.events) = KeysOf(c.previous) \cap s.terminated
      <4>1. first => DOMAIN recent = {}
        BY <2>3 DEF spawns, IsConsumer
      <4>. QED  BY <2>9, <2>10, <2>13, <4>1
    <3>. QED  BY <2>3, <2>4, <2>10, <3>1, <3>2, <3>3, <3>4 DEF Consumed, n
  <2>. QED  BY <1>2, <2>10, <2>12, <2>15 DEF r, n
<1>. QED  BY <1>1, <1>2

----------------------------------------------------------------------------
(***************************************************************************)
(* The inductive invariant.                                                *)
(***************************************************************************)
\* The world is never behind the snapshot, nor the store's session behind the
\* scene's.
StoreInv ==
    /\ session \in Nat /\ lastSession \in Nat /\ lastSession <= session
    /\ IsWorld(world) /\ IsSnapshot(snapshot)
    /\ \A k \in DOMAIN snapshot.groups : /\ snapshot.groups[k].life <= world[k].life
                                         /\ world[k].root # Null
    /\ \A p \in snapshot.spawned : world[p].root # Null /\ world[p].age = 0

StageInv ==
    /\ IsTracker(presence) /\ IsConsumer(consumer)
    /\ Staying = KeysOf(consumer.previous)
    /\ nodeIds = DOMAIN Items
    /\ \A k \in DOMAIN Items : Items[k].value.life <= world[k].life
    /\ CollapseIsReal
    /\ focusedKey \in Pids \cup {Null} /\ mounted \subseteq Pids

\* What a consumer knows of the session it is in: a spawn it remembers is as
\* old as it believes and was not told of; and of what the store's snapshot
\* says and it has not seen nothing was told, and no body has it as its value.
Knows(c, items) ==
    /\ c.lastSeq <= snapshot.seq
    /\ c.lastSeq = snapshot.seq /\ snapshot.seq > 0
          => KeysOf(c.previous) = DOMAIN snapshot.groups
    /\ \A p \in DOMAIN c.recentSpawns :
          /\ world[p].root # Null => world[p].age + c.recentSpawns[p] <= snapshot.seq
          /\ "group-born" \notin world[p].told
    /\ 0 < c.lastSeq /\ c.lastSeq < snapshot.seq =>
          /\ \A p \in snapshot.spawned : "group-born" \notin world[p].told
          /\ \A k \in snapshot.terminated \cap DOMAIN items :
                world[k].root = Null \/ world[k].life > items[k].value.life

SceneInv == StoreInv /\ StageInv /\ (session = lastSession => Knows(consumer, Items))

LEMMA EmptyFacts ==
    /\ IsSnapshot(NoSnapshot)
    /\ IsConsumer(NewConsumer) /\ KeysOf(NewConsumer.previous) = {}
    /\ NewConsumer.lastSeq = 0 /\ DOMAIN NewConsumer.recentSpawns = {}
    /\ IsTracker(NewTracker) /\ DOMAIN NewTracker.items = {}
<1>1. DOMAIN Nothing = {}
  BY DEF Nothing
<1>2. MaxSeq \in Nat
  BY SceneAssumption
<1>3. IsSnapshot(NoSnapshot)
  BY <1>1, <1>2 DEF IsSnapshot, NoSnapshot
<1>4. /\ NewConsumer.previous = Nothing /\ NewConsumer.recentSpawns = Nothing
      /\ NewConsumer.lastSeq = 0
      /\ NewConsumer = [lastSeq |-> 0, previous |-> Nothing, recentSpawns |-> Nothing]
  BY DEF NewConsumer
<1>5. IsConsumer(NewConsumer) /\ KeysOf(NewConsumer.previous) = {}
  BY <1>1, <1>2, <1>4 DEF IsConsumer, IsMembership, KeysOf
<1>. DEFINE none == [k \in {} |-> 0]
<1>6. DOMAIN none = {} /\ none \in [{} -> Body]
  OBVIOUS
<1>7. NewTracker = [items |-> none, initialized |-> FALSE, version |-> 1]
  BY DEF NewTracker
<1>. HIDE DEF none
<1>8. NewTracker.items = none /\ NewTracker.initialized = FALSE /\ NewTracker.version = 1
  BY <1>7
<1>9. IsTracker(NewTracker)
  BY <1>6, <1>7, <1>8 DEF IsTracker
<1>. QED  BY <1>1, <1>3, <1>4, <1>5, <1>6, <1>8, <1>9

LEMMA SceneInitInv ==
    ASSUME Init
    PROVE  SceneInv
<1>1. /\ world = [p \in Pids |-> Dead(0)] /\ session = 0 /\ lastSession = 0
      /\ snapshot = NoSnapshot /\ consumer = NewConsumer /\ presence = NewTracker
      /\ focusedKey = Null /\ nodeIds = {} /\ mounted = {}
  BY DEF Init
<1>2. IsWorld(world)
  <2>1. [life |-> 0, root |-> Null, age |-> Unreported, told |-> {}] \in Lives
    BY SceneAssumption, WindowAssumption DEF Lives, Unreported
  <2>. QED  BY <1>1, <2>1 DEF IsWorld, Dead
<1>3. DOMAIN NoSnapshot.groups = {} /\ NoSnapshot.spawned = {} /\ NoSnapshot.seq = 0
  BY DEF NoSnapshot, Nothing
<1>4. StoreInv
  BY <1>1, <1>2, <1>3, EmptyFacts DEF StoreInv
<1>5. StageInv
  BY <1>1, EmptyFacts DEF StageInv, Staying, Items, CollapseIsReal
<1>6. Knows(consumer, Items)
  BY <1>1, <1>3, EmptyFacts DEF Knows
<1>. QED  BY <1>4, <1>5, <1>6 DEF SceneInv

\* The engine's next snapshot.
LEMMA ArriveStep ==
    ASSUME SceneInv, Arrive
    PROVE  SceneInv'
<1>. DEFINE reported == snapshot.seq > 0
<1>1. PICK ended \in SUBSET Living(world) :
      \E started \in SUBSET {p \in Pids \ (Living(world) \ ended) :
                                world[p].life < MaxLives} :
      \E root \in NextRoots(ended, started) :
         /\ world' = NextWorld(root, ended, started, reported)
         /\ \E shown \in SUBSET Roots(world') :
               snapshot' = [seq |-> snapshot.seq + 1,
                            groups |-> GroupsOf(world', shown),
                            spawned |-> IF reported THEN started ELSE {},
                            terminated |-> IF reported THEN ended ELSE {}]
  BY DEF Arrive
<1>2. PICK started \in SUBSET {p \in Pids \ (Living(world) \ ended) :
                                  world[p].life < MaxLives} :
      \E root \in NextRoots(ended, started) :
         /\ world' = NextWorld(root, ended, started, reported)
         /\ \E shown \in SUBSET Roots(world') :
               snapshot' = [seq |-> snapshot.seq + 1,
                            groups |-> GroupsOf(world', shown),
                            spawned |-> IF reported THEN started ELSE {},
                            terminated |-> IF reported THEN ended ELSE {}]
  BY <1>1
<1>3. PICK shown \in SUBSET Roots(world') :
         snapshot' = [seq |-> snapshot.seq + 1,
                      groups |-> GroupsOf(world', shown),
                      spawned |-> IF reported THEN started ELSE {},
                      terminated |-> IF reported THEN ended ELSE {}]
  BY <1>2
<1>4. /\ session > 0 /\ snapshot.seq < MaxSeq \div session
      /\ UNCHANGED <<session, lastSession, consumer, presence, nodeIds, focusedKey, mounted>>
  BY DEF Arrive, scene
<1>5. IsWorld(world') /\ Passed(world, world', ended, started, reported)
  <2>1. IsWorld(world) /\ reported \in BOOLEAN
    BY DEF SceneInv, StoreInv
  <2>. HIDE DEF reported
  <2>. QED  BY <1>2, <2>1, WorldStep
<1>6. /\ snapshot.seq \in Nat /\ snapshot.seq + 1 \in 1..MaxSeq
      /\ snapshot'.seq = snapshot.seq + 1
  <2>1. snapshot.seq \in Nat /\ session \in Nat \ {0} /\ MaxSeq \in Nat
    BY <1>4, SceneAssumption DEF SceneInv, StoreInv, IsSnapshot
  <2>2. \A m \in Nat, s \in Nat \ {0} : m \div s <= m /\ m \div s \in Nat
    OBVIOUS
  <2>3. MaxSeq \div session <= MaxSeq /\ MaxSeq \div session \in Nat
    BY <2>1, <2>2
  <2>. QED  BY <1>3, <1>4, <2>1, <2>3
<1>7. /\ DOMAIN snapshot'.groups = shown /\ shown \subseteq Pids
      /\ \A k \in shown : /\ world'[k].root = k
                          /\ snapshot'.groups[k].life = world'[k].life
                          /\ snapshot'.groups[k].children = {p \in Pids : world'[p].root = k} \ {k}
  BY <1>3 DEF GroupsOf, MembersOf, Roots
<1>8. /\ \A p \in snapshot'.spawned : p \in started /\ reported
      /\ \A p \in snapshot'.terminated : p \in ended
      /\ snapshot' = [seq |-> snapshot'.seq, groups |-> snapshot'.groups,
                     spawned |-> snapshot'.spawned, terminated |-> snapshot'.terminated]
  <2>. DEFINE new == IF reported THEN started ELSE {}
              old == IF reported THEN ended ELSE {}
  <2>1. snapshot' = [seq |-> snapshot.seq + 1, groups |-> GroupsOf(world', shown),
                     spawned |-> new, terminated |-> old]
    BY <1>3
  <2>2. (\A p \in new : p \in started /\ reported) /\ \A p \in old : p \in ended
    OBVIOUS
  <2>. HIDE DEF new, old
  <2>. QED  BY <2>1, <2>2
<1>9. started \subseteq Pids /\ ended \subseteq Pids
  BY DEF Living
<1>10. IsSnapshot(snapshot')
  <2>1. ASSUME NEW k \in shown
        PROVE  snapshot'.groups[k] \in Value
    <3>1. k # Null /\ world'[k].life \in 1..MaxLives
      BY <1>5, <1>7, SceneAssumption DEF IsWorld, Lives
    <3>2. snapshot'.groups[k] = [life |-> world'[k].life,
                                 children |-> {p \in Pids : world'[p].root = k} \ {k}]
      BY <1>3, <1>7 DEF GroupsOf, MembersOf
    <3>. QED  BY <3>1, <3>2 DEF Value
  <2>2. \A j, k \in shown : j \notin snapshot'.groups[k].children
    BY <1>7
  <2>4. snapshot'.seq \in 0..MaxSeq /\ snapshot'.seq # 0
    BY <1>6
  <2>5. snapshot'.spawned \subseteq Pids /\ snapshot'.terminated \subseteq Pids
    BY <1>8, <1>9
  <2>. QED  BY <1>7, <1>8, <2>1, <2>2, <2>4, <2>5 DEF IsSnapshot
<1>11. StoreInv'
  <2>1. ASSUME NEW k \in shown
        PROVE  snapshot'.groups[k].life <= world'[k].life /\ world'[k].root # Null
    <3>1. world'[k].life \in 0..MaxLives
      BY <1>5, <1>7 DEF IsWorld, Lives
    <3>. QED  BY <1>7, <3>1, SceneAssumption
  <2>2. \A p \in snapshot'.spawned : world'[p].root # Null /\ world'[p].age = 0
    BY <1>5, <1>8 DEF Passed
  <2>. QED  BY <1>4, <1>5, <1>7, <1>10, <2>1, <2>2 DEF SceneInv, StoreInv
<1>12. ASSUME NEW k \in DOMAIN Items
       PROVE  /\ k \in Pids /\ Items[k].value.life \in Nat /\ world[k].life \in Nat
              /\ world'[k].life \in Nat /\ world[k].life <= world'[k].life
              /\ Items[k].value.life <= world[k].life
  <2>1. k \in Pids /\ Items[k] \in Body
    BY DEF SceneInv, StageInv, IsTracker, Items
  <2>2. Items[k].value.life \in Nat
    BY <2>1 DEF Body, Value
  <2>3. world[k].life \in Nat /\ world'[k].life \in Nat
    BY <1>5, <2>1 DEF SceneInv, StoreInv, IsWorld, Lives
  <2>. QED  BY <1>5, <2>1, <2>2, <2>3 DEF Passed, SceneInv, StageInv
<1>13. StageInv'
  <2>1. CollapseIsReal'
    <3>1. ASSUME NEW k \in DOMAIN Items, Items[k].phase = "collapsing"
          PROVE  world'[k].root = Null \/ world'[k].life > Items[k].value.life
      <4>1. world[k].root = Null \/ world[k].life > Items[k].value.life
        BY <3>1 DEF SceneInv, StageInv, CollapseIsReal
      <4>2. world[k].root = Null => Ended(world, world', k)
        BY <1>5, <1>12 DEF Passed
      <4>. QED  BY <1>12, <4>1, <4>2 DEF Ended
    <3>. QED  BY <1>4, <3>1 DEF CollapseIsReal, Items
  <2>2. \A k \in DOMAIN Items : Items[k].value.life <= world'[k].life
    BY <1>12
  <2>. QED  BY <1>4, <2>1, <2>2 DEF SceneInv, StageInv, Staying, Items
<1>14. ASSUME session = lastSession
       PROVE  Knows(consumer, Items)'
  <2>1. Knows(consumer, Items)
    BY <1>14 DEF SceneInv
  <2>2. IsConsumer(consumer) /\ consumer.lastSeq \in Nat
    BY DEF SceneInv, StageInv, IsConsumer
  <2>3. consumer.lastSeq < snapshot'.seq
    BY <1>6, <2>1, <2>2 DEF Knows
  <2>4. ASSUME NEW p \in DOMAIN consumer.recentSpawns
        PROVE  /\ world'[p].root # Null
                    => world'[p].age + consumer.recentSpawns[p] <= snapshot'.seq
               /\ "group-born" \notin world'[p].told
    <3>1. p \in Pids /\ consumer.recentSpawns[p] \in 1..consumer.lastSeq
      BY <2>2 DEF IsConsumer
    <3>2. "group-born" \notin world'[p].told
      BY <1>5, <2>1, <3>1 DEF Passed, Knows
    <3>3. world'[p].age \in Nat /\ world[p].age \in Nat
      BY <1>5, <3>1 DEF SceneInv, StoreInv, IsWorld, Lives
    <3>4. CASE p \in started
      <4>1. reported
        <5>1. consumer.lastSeq <= snapshot.seq
          BY <2>1 DEF Knows
        <5>. QED  BY <1>6, <2>2, <3>1, <5>1
      <4>2. world'[p].age = 0
        <5>. HIDE DEF reported
        <5>. QED  BY <1>5, <3>4, <4>1 DEF Passed
      <4>3. consumer.recentSpawns[p] <= snapshot'.seq
        BY <1>6, <2>2, <2>3, <3>1
      <4>. QED  BY <3>1, <3>2, <4>2, <4>3
    <3>5. CASE p \notin started
      <4>1. world'[p].root # Null => world[p].root # Null /\ world'[p].age <= world[p].age + 1
        BY <1>5, <3>1, <3>5 DEF Passed
      <4>. QED  BY <1>6, <2>1, <2>2, <3>1, <3>2, <3>3, <4>1 DEF Knows
    <3>. QED  BY <3>4, <3>5
  <2>5. \A p \in snapshot'.spawned : "group-born" \notin world'[p].told
    BY <1>5, <1>8 DEF Passed
  <2>6. ASSUME NEW k \in snapshot'.terminated \cap DOMAIN Items
        PROVE  world'[k].root = Null \/ world'[k].life > Items[k].value.life
    <3>1. Ended(world, world', k)
      BY <1>5, <1>8, <1>12 DEF Passed
    <3>. QED  BY <1>12, <3>1 DEF Ended
  <2>7. consumer.lastSeq <= snapshot'.seq /\ consumer.lastSeq # snapshot'.seq
    BY <1>6, <2>2, <2>3
  <2>8. consumer' = consumer /\ Items' = Items
    BY <1>4 DEF Items
  <2>. QED  BY <2>4, <2>5, <2>6, <2>7, <2>8 DEF Knows
<1>. QED  BY <1>4, <1>11, <1>13, <1>14 DEF SceneInv

\* The next engine run: nothing the consumer knows is of it.
LEMMA NewSessionStep ==
    ASSUME SceneInv, NewSession
    PROVE  SceneInv'
<1>1. /\ session' = session + 1 /\ snapshot' = NoSnapshot
      /\ world' = [p \in Pids |-> [world[p] EXCEPT !.age = Unreported]]
      /\ UNCHANGED <<lastSession, consumer, presence, nodeIds, focusedKey, mounted>>
  BY DEF NewSession, scene
<1>2. IsWorld(world') /\ \A p \in Pids : /\ world'[p].root = world[p].root
                                         /\ world'[p].life = world[p].life
  <2>1. ASSUME NEW p \in Pids
        PROVE  /\ world'[p] \in Lives /\ world'[p].root = world[p].root
               /\ world'[p].life = world[p].life
    <3>1. Unreported \in 0..Unreported
      BY WindowAssumption DEF Unreported
    <3>2. world[p] \in Lives
      BY DEF SceneInv, StoreInv, IsWorld
    <3>3. world'[p] = [world[p] EXCEPT !.age = Unreported]
      BY <1>1
    <3>. QED  BY <3>1, <3>2, <3>3 DEF Lives
  <2>2. world' \in [Pids -> Lives]
    BY <1>1, <2>1
  <2>. QED  BY <2>1, <2>2 DEF IsWorld, SceneInv, StoreInv
<1>3. StoreInv'
  <2>1. DOMAIN snapshot'.groups = {} /\ snapshot'.spawned = {}
    BY <1>1 DEF NoSnapshot, Nothing
  <2>2. session' \in Nat /\ lastSession' \in Nat /\ lastSession' <= session'
    BY <1>1 DEF SceneInv, StoreInv
  <2>3. IsSnapshot(snapshot')
    BY <1>1, EmptyFacts
  <2>. QED  BY <1>2, <2>1, <2>2, <2>3 DEF StoreInv
<1>4. StageInv'
  <2>1. DOMAIN Items \subseteq Pids
    BY DEF SceneInv, StageInv, IsTracker, Items
  <2>. QED  BY <1>1, <1>2, <2>1 DEF SceneInv, StageInv, Staying, Items, CollapseIsReal
<1>5. session' # lastSession'
  BY <1>1 DEF SceneInv, StoreInv
<1>. QED  BY <1>3, <1>4, <1>5 DEF SceneInv

LEMMA ShowFact ==
    ASSUME NEW t, IsTracker(t), Show(t), t.version # 0 \/ nodeIds = DOMAIN t.items
    PROVE  /\ IsTracker(presence') /\ presence'.items = t.items
           /\ presence'.initialized = t.initialized /\ nodeIds' = DOMAIN t.items
<1>1. presence' = [t EXCEPT !.version = 0]
      /\ nodeIds' = IF t.version = 0 THEN nodeIds ELSE DOMAIN t.items
  BY DEF Show
<1>2. presence' = [items |-> t.items, initialized |-> t.initialized, version |-> 0]
  BY <1>1 DEF IsTracker
<1>3. presence'.items = t.items /\ presence'.initialized = t.initialized
      /\ presence'.version = 0
  BY <1>2
<1>. QED  BY <1>1, <1>2, <1>3 DEF IsTracker

\* A frame with the store empty.
LEMMA EmptyFrameStep ==
    ASSUME SceneInv, EmptyFrame(Reset(presence)), UNCHANGED <<store, mounted>>,
           snapshot = NoSnapshot, lastSession' = session
    PROVE  SceneInv'
<1>. DEFINE t == Reset(presence)
<1>1. /\ consumer' = NewConsumer /\ focusedKey' = FocusLeft(focusedKey, t) /\ Show(t)
      /\ UNCHANGED <<world, session, snapshot, mounted>>
  BY DEF EmptyFrame, store
<1>2. /\ IsTracker(t) /\ DOMAIN t.items = {}
      /\ t.version = 1 \/ (t.version = presence.version /\ DOMAIN Items = {})
  BY ResetFact DEF SceneInv, StageInv, Items
<1>3. t.version # 0 \/ nodeIds = DOMAIN t.items
  BY <1>2 DEF SceneInv, StageInv
<1>. HIDE DEF t
<1>4. IsTracker(presence') /\ Items' = t.items /\ nodeIds' = DOMAIN t.items
  BY <1>1, <1>2, <1>3, ShowFact DEF Items
<1>5. StoreInv'
  BY <1>1 DEF SceneInv, StoreInv
<1>6. focusedKey' \in Pids \cup {Null}
  BY <1>1 DEF FocusLeft, SceneInv, StageInv
<1>7. StageInv'
  BY <1>1, <1>2, <1>4, <1>6, EmptyFacts
     DEF SceneInv, StageInv, Staying, CollapseIsReal
<1>8. Knows(consumer, Items)'
  <2>1. snapshot'.seq = 0
    BY <1>1 DEF NoSnapshot
  <2>. QED  BY <1>1, <2>1, EmptyFacts DEF Knows
<1>. QED  BY <1>5, <1>7, <1>8 DEF SceneInv

\* With what a frame may begin to draw: what the last one left, or nothing.
Ready(c, t) ==
    /\ IsConsumer(c) /\ IsTracker(t) /\ Knows(c, t.items)
    /\ \A k \in DOMAIN t.items : k \in DOMAIN Items /\ t.items[k] = Items[k]
    /\ t.version # 0 \/ nodeIds = DOMAIN t.items

LEMMA DrawReady ==
    ASSUME SceneInv, NEW step, Draw(step), snapshot # NoSnapshot
    PROVE  /\ snapshot.seq > 0
           /\ \E c, t, f : Ready(c, t) /\ f \in Pids \cup {Null} /\ DrawWith(c, t, f, step)
<1>1. snapshot.seq \in Nat /\ snapshot.seq > 0
  BY DEF SceneInv, StoreInv, IsSnapshot
<1>2. CASE session = lastSession
  <2>1. Ready(consumer, presence)
    BY <1>2 DEF SceneInv, StageInv, Ready, Items
  <2>. QED  BY <1>1, <1>2, <2>1 DEF Draw, SceneInv, StageInv
<1>3. CASE session # lastSession
  <2>. DEFINE t == Reset(presence)
  <2>1. /\ IsTracker(t) /\ DOMAIN t.items = {}
        /\ t.version = 1 \/ (t.version = presence.version /\ DOMAIN Items = {})
    BY ResetFact DEF SceneInv, StageInv, Items
  <2>2. Knows(NewConsumer, t.items)
    BY <1>1, EmptyFacts DEF Knows
  <2>3. t.version # 0 \/ nodeIds = DOMAIN t.items
    BY <2>1 DEF SceneInv, StageInv
  <2>. HIDE DEF t
  <2>4. Ready(NewConsumer, t)
    BY <2>1, <2>2, <2>3, EmptyFacts DEF Ready
  <2>5. DrawWith(NewConsumer, t, Null, step)
    BY <1>3 DEF Draw, t
  <2>. QED  BY <1>1, <2>4, <2>5
<1>. QED  BY <1>2, <1>3

LEMMA DrawStep ==
    ASSUME SceneInv, NEW c, NEW t, NEW f \in Pids \cup {Null}, NEW step \in 0..Full,
           Ready(c, t), DrawWith(c, t, f, step), snapshot.seq > 0,
           UNCHANGED <<store, mounted>>, lastSession' = session
    PROVE  SceneInv'
<1>. DEFINE result == Consume(c, snapshot)
            born == KeysBorn(result.events)
            died == KeysDied(result.events)
            next == Update(t, snapshot.groups, born, died, step)
            groups == snapshot.groups
<1>1. /\ consumer' = result.consumer /\ focusedKey' = FocusLeft(f, next)
      /\ Show(next) /\ Remember(result.events)
      /\ UNCHANGED <<session, snapshot, mounted>>
  BY DEF DrawWith, store
<1>2. /\ IsSnapshot(snapshot) /\ IsWorld(world) /\ IsConsumer(c) /\ IsTracker(t)
      /\ c.lastSeq <= snapshot.seq /\ DOMAIN groups \subseteq Pids
      /\ \A k \in DOMAIN groups : groups[k] \in Value
  BY DEF SceneInv, StoreInv, Ready, Knows, IsSnapshot
<1>3. /\ IsConsumer(result.consumer) /\ result.consumer.lastSeq = snapshot.seq
      /\ IF snapshot.seq = c.lastSeq THEN result.consumer = c /\ result.events = {}
         ELSE Consumed(result, c, snapshot)
  BY <1>2, ConsumeFact
<1>4. IsTracker(next) /\ Updated(next, t, groups, died, step)
  BY <1>2, UpdateFact
<1>5. /\ IsWorld(world')
      /\ \A p \in Pids : /\ world'[p].life = world[p].life
                         /\ world'[p].root = world[p].root
                         /\ world'[p].age = world[p].age
                         /\ "group-born" \in world'[p].told =>
                              \/ "group-born" \in world[p].told
                              \/ \E e \in result.events : e.pid = p /\ e.kind = "group-born"
  BY <1>1, <1>2, RememberFact
<1>6. snapshot.seq = c.lastSeq => died = {}
  BY <1>3 DEF KeysDied
<1>7. snapshot.seq # c.lastSeq =>
        /\ c.lastSeq # 0 => \A k \in died : k \in snapshot.terminated
        /\ c.lastSeq = 0 => died = {}
  BY <1>3 DEF Consumed, KeysDied
<1>. HIDE DEF result, next, born, died
<1>8. next.version # 0 \/ nodeIds = DOMAIN next.items
  BY <1>4 DEF Updated, Ready
<1>9. IsTracker(presence') /\ Items' = next.items /\ nodeIds' = DOMAIN next.items
  BY <1>1, <1>4, <1>8, ShowFact DEF Items
<1>10. StoreInv'
  BY <1>1, <1>2, <1>5 DEF SceneInv, StoreInv, IsSnapshot
<1>11. KeysOf(result.consumer.previous) = DOMAIN groups
  BY <1>2, <1>3 DEF Consumed, Ready, Knows
<1>12. ASSUME NEW k \in DOMAIN next.items
       PROVE  /\ ~IsLeaving(next.items[k].phase) <=> k \in DOMAIN groups
              /\ next.items[k].value.life <= world[k].life
              /\ next.items[k].phase = "collapsing" =>
                   world[k].root = Null \/ world[k].life > next.items[k].value.life
  <2>1. CASE k \in DOMAIN groups
    <3>1. ~IsLeaving(next.items[k].phase) /\ next.items[k].value = groups[k]
      BY <1>4, <2>1 DEF Updated
    <3>. QED  BY <2>1, <3>1 DEF IsLeaving, SceneInv, StoreInv
  <2>2. CASE k \notin DOMAIN groups
    <3>. DEFINE e == t.items[k]
                l == Leave(e, k \in died, step)
    <3>1. k \in DOMAIN t.items
      BY <1>4, <2>2 DEF Updated
    <3>2. next.items[k] = l
      BY <1>4, <2>2, <3>1 DEF Updated
    <3>3. e \in Body /\ k \in DOMAIN Items /\ e = Items[k]
      BY <1>2, <3>1 DEF Ready, IsTracker
    <3>. HIDE DEF e
    <3>4. /\ IsLeaving(l.phase) /\ l.value = e.value
          /\ l.phase = "collapsing" <=> IF IsLeaving(e.phase) THEN e.phase = "collapsing"
                                        ELSE k \in died
      <4>. DEFINE b == k \in died
      <4>1. b \in BOOLEAN /\ (b <=> k \in died) /\ l = Leave(e, b, step)
        OBVIOUS
      <4>. HIDE DEF b
      <4>2. step \in 0..Full
        OBVIOUS
      <4>3. /\ IsLeaving(Leave(e, b, step).phase)
            /\ Leave(e, b, step).value = e.value
            /\ Leave(e, b, step).phase = "collapsing" <=>
                  IF IsLeaving(e.phase) THEN e.phase = "collapsing" ELSE b
        BY <3>3, <4>1, <4>2, Departed
      <4>. HIDE DEF l
      <4>. QED  BY <4>1, <4>3
    <3>. HIDE DEF l
    <3>5. e.value.life <= world[k].life
      BY <3>3 DEF SceneInv, StageInv
    <3>6. e.phase = "collapsing" => world[k].root = Null \/ world[k].life > e.value.life
      BY <3>3 DEF SceneInv, StageInv, CollapseIsReal
    <3>7. k \in died => world[k].root = Null \/ world[k].life > e.value.life
      <4>1. SUFFICES ASSUME k \in died
                     PROVE  world[k].root = Null \/ world[k].life > e.value.life
        OBVIOUS
      <4>2. c.lastSeq \in Nat /\ snapshot.seq \in Nat
        BY <1>2 DEF IsConsumer, IsSnapshot
      <4>3. 0 < c.lastSeq /\ c.lastSeq < snapshot.seq /\ k \in snapshot.terminated
        BY <1>2, <1>6, <1>7, <4>1, <4>2
      <4>4. Knows(c, t.items)
        BY DEF Ready
      <4>. QED  BY <3>1, <4>3, <4>4 DEF Knows, e
    <3>. QED  BY <2>2, <3>2, <3>4, <3>5, <3>6, <3>7
  <2>. QED  BY <2>1, <2>2
<1>13. DOMAIN groups \subseteq DOMAIN next.items /\ DOMAIN next.items \subseteq Pids
  BY <1>4 DEF Updated, IsTracker
<1>14. focusedKey' \in Pids \cup {Null}
  BY <1>1 DEF FocusLeft
<1>15. StageInv'
  <2>1. Staying' = KeysOf(consumer'.previous)
    BY <1>1, <1>9, <1>11, <1>12, <1>13 DEF Staying
  <2>2. CollapseIsReal'
    BY <1>5, <1>9, <1>12, <1>13 DEF CollapseIsReal
  <2>3. \A k \in DOMAIN next.items : next.items[k].value.life <= world'[k].life
    BY <1>5, <1>12, <1>13
  <2>. QED  BY <1>1, <1>3, <1>9, <1>14, <2>1, <2>2, <2>3 DEF SceneInv, StageInv
<1>16. Knows(consumer, Items)'
  <2>1. ASSUME NEW p \in DOMAIN result.consumer.recentSpawns
        PROVE  /\ world'[p].root # Null =>
                    world'[p].age + result.consumer.recentSpawns[p] <= snapshot.seq
               /\ "group-born" \notin world'[p].told
    <3>1. p \in Pids
      BY <1>3 DEF IsConsumer
    <3>2. CASE snapshot.seq = c.lastSeq
      BY <1>3, <1>5, <3>1, <3>2 DEF Ready, Knows
    <3>3. CASE snapshot.seq # c.lastSeq
      <4>1. /\ c.lastSeq # 0
            /\ ~\E e \in result.events : e.pid = p /\ e.kind = "group-born"
            /\ \/ p \in snapshot.spawned /\ result.consumer.recentSpawns[p] = snapshot.seq
               \/ /\ p \in DOMAIN c.recentSpawns
                  /\ result.consumer.recentSpawns[p] = c.recentSpawns[p]
        BY <1>3, <3>3 DEF Consumed
      <4>2. Knows(c, t.items)
        BY DEF Ready
      <4>3. 0 < c.lastSeq /\ c.lastSeq < snapshot.seq /\ snapshot.seq \in Nat
        BY <1>2, <3>3, <4>1 DEF IsConsumer, IsSnapshot
      <4>4. CASE p \in snapshot.spawned /\ result.consumer.recentSpawns[p] = snapshot.seq
        <5>1. "group-born" \notin world[p].told
          BY <4>2, <4>3, <4>4 DEF Knows
        <5>2. world[p].age = 0
          BY <4>4 DEF SceneInv, StoreInv
        <5>. QED  BY <1>5, <3>1, <4>1, <4>3, <4>4, <5>1, <5>2
      <4>5. CASE /\ p \in DOMAIN c.recentSpawns
                 /\ result.consumer.recentSpawns[p] = c.recentSpawns[p]
        BY <1>5, <3>1, <4>1, <4>2, <4>5 DEF Knows
      <4>. QED  BY <4>1, <4>4, <4>5
    <3>. QED  BY <3>2, <3>3
  <2>2. snapshot.seq \in Nat
    BY <1>2 DEF IsSnapshot
  <2>. QED  BY <1>1, <1>3, <1>11, <2>1, <2>2 DEF Knows
<1>. QED  BY <1>10, <1>15, <1>16 DEF SceneInv

LEMMA SceneNextInv ==
    ASSUME SceneInv, [Next]_vars
    PROVE  SceneInv'
<1>1. CASE Frame
  <2>1. PICK step \in 0..Full :
          /\ lastSession' = session
          /\ IF snapshot = NoSnapshot THEN EmptyFrame(Reset(presence)) ELSE Draw(step)
          /\ UNCHANGED <<store, mounted>>
    BY <1>1 DEF Frame
  <2>2. CASE snapshot = NoSnapshot
    BY <2>1, <2>2, EmptyFrameStep
  <2>3. CASE snapshot # NoSnapshot
    <3>1. PICK c, t, f : Ready(c, t) /\ f \in Pids \cup {Null} /\ DrawWith(c, t, f, step)
      BY <2>1, <2>3, DrawReady
    <3>2. snapshot.seq > 0
      BY <2>1, <2>3, DrawReady
    <3>. QED  BY <2>1, <3>1, <3>2, DrawStep
  <2>. QED  BY <2>2, <2>3
<1>2. CASE Commit \/ (\E k \in Pids : Click(k)) \/ UNCHANGED vars
  <2>1. /\ UNCHANGED <<world, session, snapshot, lastSession, consumer, presence, nodeIds>>
        /\ focusedKey' \in Pids \cup {Null} /\ mounted' \subseteq Pids
    BY <1>2 DEF Commit, Click, vars, store, scene, SceneInv, StageInv, IsTracker, Items
  <2>. QED
    BY <2>1 DEF SceneInv, StoreInv, StageInv, Knows, Staying, Items, CollapseIsReal
<1>. QED  BY <1>1, <1>2, ArriveStep, NewSessionStep DEF Next

----------------------------------------------------------------------------
(***************************************************************************)
(* What a frame does, for the properties of its step.                      *)
(***************************************************************************)
\* A frame that drew with c, t and f left the tracker with the items of u.
Drew(c, t, f, u, step) ==
    /\ Updated(u, t, snapshot.groups, KeysDied(events'), step)
    /\ Items' = u.items /\ DOMAIN u.items \subseteq Pids
    /\ focusedKey' = FocusLeft(f, u)
    /\ IF snapshot.seq = c.lastSeq THEN events' = {}
       ELSE \E r : Consumed(r, c, snapshot) /\ events' = r.events

LEMMA DrewFact ==
    ASSUME SceneInv, NEW c, NEW t, NEW f, NEW step \in 0..Full,
           Ready(c, t), DrawWith(c, t, f, step), snapshot.seq > 0
    PROVE  \E u : Drew(c, t, f, u, step)
<1>. DEFINE result == Consume(c, snapshot)
            u == Update(t, snapshot.groups, KeysBorn(result.events),
                        KeysDied(result.events), step)
<1>1. focusedKey' = FocusLeft(f, u) /\ events' = result.events /\ Show(u)
  BY DEF DrawWith
<1>2. /\ IsSnapshot(snapshot) /\ IsConsumer(c) /\ IsTracker(t)
      /\ c.lastSeq <= snapshot.seq /\ DOMAIN snapshot.groups \subseteq Pids
      /\ \A k \in DOMAIN snapshot.groups : snapshot.groups[k] \in Value
  BY DEF SceneInv, StoreInv, Ready, Knows, IsSnapshot
<1>3. IF snapshot.seq = c.lastSeq THEN result.events = {} ELSE Consumed(result, c, snapshot)
  BY <1>2, ConsumeFact
<1>4. IsTracker(u) /\ Updated(u, t, snapshot.groups, KeysDied(result.events), step)
  BY <1>2, UpdateFact
<1>. HIDE DEF result, u
<1>5. u.version # 0 \/ nodeIds = DOMAIN u.items
  BY <1>4 DEF Updated, Ready
<1>6. Items' = u.items
  BY <1>1, <1>4, <1>5, ShowFact DEF Items
<1>7. Drew(c, t, f, u, step)
  BY <1>1, <1>3, <1>4, <1>6 DEF Drew, IsTracker
<1>. QED  BY <1>7

\* A frame of the session it knows goes on from what the last one left.
LEMMA GoesOn ==
    ASSUME SceneInv, Frame, session = lastSession, snapshot # NoSnapshot
    PROVE  /\ dtSec' \in 0..Full
           /\ \E u : Drew(consumer, presence, focusedKey, u, dtSec')
<1>1. PICK step \in 0..Full : dtSec' = step /\ Draw(step)
  BY DEF Frame
<1>2. DrawWith(consumer, presence, focusedKey, step) /\ snapshot.seq > 0
  BY <1>1, DrawReady DEF Draw
<1>3. Ready(consumer, presence)
  BY DEF SceneInv, StageInv, Ready, Items
<1>. QED  BY <1>1, <1>2, <1>3, DrewFact

\* Any frame: it finds the store empty, or draws.
LEMMA FrameFact ==
    ASSUME SceneInv, Frame
    PROVE  \/ events' = {} /\ focusedKey' = Null
           \/ \E c, t, f, u, step : Ready(c, t) /\ Drew(c, t, f, u, step)
<1>1. PICK step \in 0..Full :
        IF snapshot = NoSnapshot THEN EmptyFrame(Reset(presence)) ELSE Draw(step)
  BY DEF Frame
<1>2. CASE snapshot = NoSnapshot
  <2>1. DOMAIN Reset(presence).items = {}
    BY ResetFact DEF SceneInv, StageInv
  <2>. QED  BY <1>1, <1>2, <2>1 DEF EmptyFrame, FocusLeft
<1>3. CASE snapshot # NoSnapshot
  <2>1. PICK c, t, f : Ready(c, t) /\ DrawWith(c, t, f, step)
    BY <1>1, <1>3, DrawReady
  <2>2. snapshot.seq > 0
    BY <1>1, <1>3, DrawReady
  <2>3. \E u : Drew(c, t, f, u, step)
    BY <2>1, <2>2, DrewFact
  <2>. QED  BY <2>1, <2>3
<1>. QED  BY <1>2, <1>3

----------------------------------------------------------------------------
(***************************************************************************)
(* The theorems.                                                           *)
(***************************************************************************)
\* The tracker and the consumer agree on what the scene shows, the nodes handed
\* to React are all of the tracker's entries, and every part has its type.
THEOREM StageAgrees == Spec => []OnStage
<1>1. Init => SceneInv
  BY SceneInitInv
<1>2. SceneInv /\ [Next]_vars => SceneInv'
  BY SceneNextInv
<1>3. SceneInv => OnStage
  <2>1. SUFFICES ASSUME SceneInv PROVE OnStage
    OBVIOUS
  <2>2. \A p \in Pids : /\ world[p].life \in 0..MaxLives
                        /\ world[p].root \in Pids \cup {Null}
                        /\ world[p].age \in 0..Unreported
    BY <2>1 DEF SceneInv, StoreInv, IsWorld, Lives
  <2>3. /\ DOMAIN Items \subseteq Pids
        /\ \A k \in DOMAIN Items : Items[k] \in Body
    BY <2>1 DEF SceneInv, StageInv, IsTracker, Items
  <2>4. /\ DOMAIN consumer.previous \subseteq Pids
        /\ DOMAIN consumer.recentSpawns \subseteq Pids /\ consumer.lastSeq \in 0..MaxSeq
    BY <2>1 DEF SceneInv, StageInv, IsConsumer, IsMembership
  <2>5. nodeIds = DOMAIN Items /\ Staying = KeysOf(consumer.previous)
        /\ focusedKey \in Pids \cup {Null} /\ mounted \subseteq Pids
    BY <2>1 DEF SceneInv, StageInv
  <2>. QED  BY <2>2, <2>3, <2>4, <2>5 DEF OnStage, TypeOK, Items, Body
<1>. QED  BY <1>1, <1>2, <1>3, PTL DEF Spec

\* After a frame the focus is on a body that stays, wherever clicks, snapshots
\* and engine runs before it have put it.
THEOREM FocusOnWhatStays == Spec => FocusStays
<1>1. Init => SceneInv
  BY SceneInitInv
<1>2. SceneInv /\ [Next]_vars => SceneInv'
  BY SceneNextInv
<1>3. SceneInv /\ [Next]_vars => [Frame => focusedKey' \in {Null} \cup Staying']_vars
  <2>1. SUFFICES ASSUME SceneInv, Frame PROVE focusedKey' \in {Null} \cup Staying'
    OBVIOUS
  <2>2. CASE focusedKey' = Null
    BY <2>2
  <2>3. CASE \E c, t, f, u, step : Drew(c, t, f, u, step)
    BY <2>3 DEF Drew, FocusLeft, Staying
  <2>. QED  BY <2>1, <2>2, <2>3, FrameFact
<1>. QED  BY <1>1, <1>2, <1>3, PTL DEF Spec, FocusStays

\* No frame makes the opacity of a body jump, except that what has the key of a
\* collapsing one is a new body.
THEOREM NoJump == Spec => OpacityContinuous
<1>1. Init => SceneInv
  BY SceneInitInv
<1>2. SceneInv /\ [Next]_vars => SceneInv'
  BY SceneNextInv
<1>. DEFINE before(k) == IF k \in DOMAIN Items THEN Opacity(Items[k]) ELSE 0
            after(k) == IF k \in DOMAIN Items' THEN Opacity(Items'[k]) ELSE 0
<1>3. ASSUME SceneInv, Frame, session = lastSession, snapshot # NoSnapshot,
             presence.initialized, NEW k \in DOMAIN Items \cup DOMAIN Items'
      PROVE  \/ after(k) <= before(k) + dtSec' /\ before(k) <= after(k) + dtSec'
             \/ k \in DOMAIN Items /\ Items[k].phase = "collapsing"
                  /\ k \in DOMAIN snapshot.groups /\ after(k) = 0
  <2>1. dtSec' \in 0..Full
    BY <1>3, GoesOn
  <2>2. PICK u : Drew(consumer, presence, focusedKey, u, dtSec')
    BY <1>3, GoesOn
  <2>3. /\ Updated(u, presence, snapshot.groups, KeysDied(events'), dtSec')
        /\ Items' = u.items
    BY <2>2 DEF Drew
  <2>4. \A j \in DOMAIN Items : Items[j] \in Body
    BY <1>3 DEF SceneInv, StageInv, IsTracker, Items
  <2>5. CASE k \in DOMAIN snapshot.groups
    <3>1. k \in DOMAIN Items' /\ after(k) = Opacity(Items'[k])
      BY <2>3, <2>5 DEF Updated
    <3>2. CASE k \in DOMAIN Items
      <4>1. \/ Near(after(k), before(k), dtSec')
            \/ Items[k].phase = "collapsing" /\ after(k) = 0
        BY <1>3, <2>3, <2>5, <3>1, <3>2 DEF Updated, Items
      <4>. QED  BY <2>5, <3>2, <4>1 DEF Near
    <3>3. CASE k \notin DOMAIN Items
      <4>1. after(k) = 0 /\ before(k) = 0
        BY <1>3, <2>3, <2>5, <3>1, <3>3 DEF Updated, Items
      <4>. QED  BY <2>1, <4>1, FullAssumption
    <3>. QED  BY <3>2, <3>3
  <2>6. CASE k \notin DOMAIN snapshot.groups
    <3>1. k \in DOMAIN Items
      BY <1>3, <2>3, <2>6 DEF Updated, Items
    <3>. DEFINE e == Items[k]
                b == k \in KeysDied(events')
                l == Leave(e, b, dtSec')
    <3>2. IF k \in DOMAIN Items' THEN Items'[k] = l ELSE Over(l)
      BY <2>3, <2>6, <3>1 DEF Updated, Items
    <3>3. e \in Body /\ b \in BOOLEAN /\ before(k) = Opacity(e)
      BY <2>4, <3>1
    <3>. HIDE DEF e, b
    <3>4. Near(Opacity(l), Opacity(e), dtSec') /\ (Over(l) => Opacity(e) <= dtSec')
      BY <2>1, <3>3, Departed
    <3>5. Opacity(e) \in 0..Full
      BY <3>3, OpacityFact
    <3>. HIDE DEF l
    <3>6. CASE k \in DOMAIN Items'
      BY <3>2, <3>3, <3>4, <3>6 DEF Near
    <3>7. CASE k \notin DOMAIN Items'
      <4>1. after(k) = 0 /\ before(k) <= dtSec'
        BY <3>2, <3>3, <3>4, <3>7
      <4>. QED  BY <2>1, <3>3, <3>5, <4>1, FullAssumption
    <3>. QED  BY <3>6, <3>7
  <2>. QED  BY <2>5, <2>6
<1>4. SceneInv =>
        [Frame /\ session = lastSession /\ snapshot # NoSnapshot /\ presence.initialized
         => \A k \in DOMAIN Items \cup DOMAIN Items' :
               \/ after(k) <= before(k) + dtSec' /\ before(k) <= after(k) + dtSec'
               \/ k \in DOMAIN Items /\ Items[k].phase = "collapsing"
                    /\ k \in DOMAIN snapshot.groups /\ after(k) = 0]_vars
  BY <1>3
<1>. QED  BY <1>1, <1>2, <1>4, PTL DEF Spec, OpacityContinuous

\* What is told of births and deaths happened to the processes it is told of,
\* whatever snapshots the frames missed and whatever pids are used again.
THEOREM ToldWhatHappened == Spec => EventsTrue
<1>1. Init => SceneInv
  BY SceneInitInv
<1>2. SceneInv /\ [Next]_vars => SceneInv'
  BY SceneNextInv
<1>3. SceneInv => CollapseIsReal
  BY DEF SceneInv, StageInv
<1>4. ASSUME SceneInv, Frame, NEW p \in Told("group-born")
      PROVE  world[p].age <= SPAWN_WINDOW_SNAPSHOTS /\ "group-born" \notin world[p].told
  <2>1. PICK e \in events' : e.kind = "group-born" /\ e.pid = p
    BY DEF Told
  <2>2. PICK c, t, f, u, step : Ready(c, t) /\ Drew(c, t, f, u, step)
    BY <1>4, <2>1, FrameFact
  <2>3. snapshot.seq # c.lastSeq /\ \E r : Consumed(r, c, snapshot) /\ events' = r.events
    BY <2>1, <2>2 DEF Drew
  <2>4. /\ p \in DOMAIN snapshot.groups /\ c.lastSeq # 0
        /\ \/ p \in snapshot.spawned
           \/ /\ p \in DOMAIN c.recentSpawns
              /\ c.recentSpawns[p] + SPAWN_WINDOW_SNAPSHOTS >= snapshot.seq
    BY <2>1, <2>3 DEF Consumed
  <2>5. Knows(c, t.items) /\ IsConsumer(c)
    BY <2>2 DEF Ready
  <2>6. /\ snapshot.seq \in Nat /\ c.lastSeq \in Nat
        /\ 0 < c.lastSeq /\ c.lastSeq < snapshot.seq
    BY <1>4, <2>3, <2>4, <2>5 DEF Knows, IsConsumer, SceneInv, StoreInv, IsSnapshot
  <2>7. p \in Pids /\ world[p].root # Null /\ world[p].age \in Nat
        /\ SPAWN_WINDOW_SNAPSHOTS \in Nat
    BY <1>4, <2>4, WindowAssumption DEF SceneInv, StoreInv, IsSnapshot, IsWorld, Lives
  <2>8. CASE p \in snapshot.spawned
    <3>1. world[p].age = 0
      BY <1>4, <2>8 DEF SceneInv, StoreInv
    <3>2. "group-born" \notin world[p].told
      BY <2>5, <2>6, <2>8 DEF Knows
    <3>. QED  BY <2>7, <3>1, <3>2
  <2>9. CASE /\ p \in DOMAIN c.recentSpawns
             /\ c.recentSpawns[p] + SPAWN_WINDOW_SNAPSHOTS >= snapshot.seq
    <3>1. /\ world[p].age + c.recentSpawns[p] <= snapshot.seq
          /\ "group-born" \notin world[p].told
      BY <2>5, <2>7, <2>9 DEF Knows
    <3>2. c.recentSpawns[p] \in Nat
      BY <2>5, <2>6, <2>9 DEF IsConsumer
    <3>. QED  BY <2>6, <2>7, <2>9, <3>1, <3>2
  <2>. QED  BY <2>4, <2>8, <2>9
<1>5. ASSUME SceneInv, Frame, session = lastSession, consumer.lastSeq > 0,
             snapshot.seq = consumer.lastSeq + 1,
             NEW k \in (Staying \ DOMAIN snapshot.groups) \cap DOMAIN Items'
      PROVE  (k \in snapshot.terminated) <=> (Items'[k].phase = "collapsing")
  <2>1. consumer.lastSeq \in Nat
    BY <1>5 DEF SceneInv, StageInv, IsConsumer
  <2>2. snapshot # NoSnapshot /\ snapshot.seq # consumer.lastSeq
    BY <1>5, <2>1 DEF NoSnapshot
  <2>3. dtSec' \in 0..Full
    BY <1>5, <2>2, GoesOn
  <2>4. PICK u : Drew(consumer, presence, focusedKey, u, dtSec')
    BY <1>5, <2>2, GoesOn
  <2>5. KeysDied(events') = KeysOf(consumer.previous) \cap snapshot.terminated
    BY <1>5, <2>1, <2>2, <2>4 DEF Drew, Consumed
  <2>. DEFINE e == Items[k]
              b == k \in KeysDied(events')
              l == Leave(e, b, dtSec')
  <2>6. k \in DOMAIN Items /\ e \in Body /\ ~IsLeaving(e.phase) /\ b \in BOOLEAN
    BY <1>5 DEF SceneInv, StageInv, IsTracker, Items, Staying
  <2>7. Items'[k] = l
    BY <1>5, <2>4, <2>6 DEF Drew, Updated, Items
  <2>8. b <=> k \in snapshot.terminated
    BY <1>5, <2>5 DEF SceneInv, StageInv
  <2>. HIDE DEF e, b
  <2>9. l.phase = "collapsing" <=> b
    BY <2>3, <2>6, Departed
  <2>. HIDE DEF l
  <2>. QED  BY <2>7, <2>8, <2>9
<1>6. SceneInv /\ [Next]_vars => [Frame => BornIsReal /\ DeathIsShown]_vars
  BY <1>4, <1>5 DEF BornIsReal, DeathIsShown
<1>. QED  BY <1>1, <1>2, <1>3, <1>6, PTL DEF Spec, EventsTrue
=============================================================================
