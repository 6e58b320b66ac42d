---------------------------- MODULE GroupBuilder ----------------------------
(***************************************************************************)
(* Which processes make up a group (engine/src/core/GroupBuilder.cpp) and  *)
(* which groups are shown (engine/src/core/ProcessFilter.cpp).  `raw' is   *)
(* what the reader found, a function from pids to processes.               *)
(*                                                                         *)
(* A process has one unit of memory, and a unit of its counter scores as   *)
(* much as two of memory.  Scores are doubled, so that the account's bonus *)
(* of 1.5 is a whole number.                                               *)
(***************************************************************************)
EXTENDS Integers, FiniteSets, FiniteSetsExt

CONSTANTS Service,      \* the program of ambient services, svchost.exe
          UserPrograms, \* programs of a user's session
          MaxHops,      \* kMaxParentHops
          MaxGroups     \* max_groups

ASSUME GroupAssumption == MaxHops \in Nat /\ MaxGroups \in Nat

Grouped(raw) == {p \in DOMAIN raw : raw[p].name # Service}

----------------------------------------------------------------------------
\* One turn of resolveRoot's loop: the parent, or where the climb ends.
Up(raw, p) ==
    LET parent == raw[p].ppid
    IN  IF /\ parent \in Grouped(raw)
           /\ raw[parent].name = raw[p].name
           /\ raw[parent].start <= raw[p].start
        THEN parent ELSE p

\* Mutant: the climb goes on in a cycle until the hops are used up.
RootUnvisited(raw, p) ==
    LET at[n \in 0..MaxHops] == IF n = 0 THEN p ELSE Up(raw, at[n - 1])
    IN  at[MaxHops]

\* The climb ends where it was before (visited), or after MaxHops turns.
Root(raw, p) ==
    LET at[n \in 0..MaxHops] == IF n = 0 THEN p ELSE Up(raw, at[n - 1])
        last == CHOOSE n \in 0..MaxHops :
                    /\ n = MaxHops \/ at[n] \in {at[m] : m \in 0..n - 1}
                    /\ \A k \in 0..n - 1 : at[k] \notin {at[m] : m \in 0..k - 1}
    IN  at[last]

Members(raw, root) == {p \in Grouped(raw) : Root(raw, p) = root}

\* name and root pid
Key(raw, root) == <<raw[root].name, root>>

Roots(raw) == {Root(raw, p) : p \in Grouped(raw)}

----------------------------------------------------------------------------
Unknown == -1 \* a share that was not measured

\* The sum of what is known of the root and the children; unknown if nothing is.
GroupCpu(raw, cpu, root) ==
    LET known == {p \in Members(raw, root) \cup {root} : cpu[p] # Unknown}
    IN  IF known = {} THEN Unknown
        ELSE MapThenSumSet(LAMBDA p : cpu[p], known)

\* What a group scores before the bonus of those shown last time.
Base(raw, cpu, root) ==
    LET share == GroupCpu(raw, cpu, root)
    IN  (Cardinality(Members(raw, root)) + IF share = Unknown THEN 0 ELSE 2 * share)
          * IF raw[root].name \in UserPrograms THEN 3 ELSE 2

Score(raw, cpu, shown, root) ==
    Base(raw, cpu, root) * IF Key(raw, root) \in shown THEN 2 ELSE 1

\* A stable sort: of equal scores, the one the reader listed first.
Ahead(raw, cpu, shown, a, b) ==
    LET sa == Score(raw, cpu, shown, a)
        sb == Score(raw, cpu, shown, b)
    IN  sa > sb \/ (sa = sb /\ Min(Members(raw, a)) < Min(Members(raw, b)))

Select(raw, cpu, shown) ==
    {g \in Roots(raw) :
        Cardinality({h \in Roots(raw) : Ahead(raw, cpu, shown, h, g)}) < MaxGroups}
=============================================================================
