---------------------------- MODULE SnapshotFeed ----------------------------
(***************************************************************************)
(* What the transport promises, without queues or sockets: the engine      *)
(* publishes snapshots 1, 2, 3...; a viewer tunes in, sees some of the     *)
(* published snapshots, each newer than the one before, and leaves for     *)
(* good.  Snapshots may be skipped (a slow viewer is given the newest, not *)
(* a backlog), never invented, repeated or reordered.                      *)
(***************************************************************************)
EXTENDS Integers

CONSTANTS Viewers, MaxPublished

VARIABLES published, \* number of the newest published snapshot
          presence,  \* each viewer: "away", "tuned" or "left"
          seen       \* the snapshot each viewer saw last, 0 if none

feedVars == <<published, presence, seen>>

FeedInit ==
    /\ published = 0
    /\ presence = [v \in Viewers |-> "away"]
    /\ seen = [v \in Viewers |-> 0]

Publish ==
    /\ published < MaxPublished
    /\ published' = published + 1
    /\ UNCHANGED <<presence, seen>>

TuneIn(v) ==
    /\ presence[v] = "away"
    /\ presence' = [presence EXCEPT ![v] = "tuned"]
    /\ UNCHANGED <<published, seen>>

\* Viewers leave, tuned in or not; the engine's end makes many leave at once.
Leave(gone) ==
    /\ presence' = [v \in Viewers |-> IF v \in gone THEN "left" ELSE presence[v]]
    /\ UNCHANGED <<published, seen>>

\* A newer snapshot reaches a viewer; the last one may arrive as it leaves.
See(v) ==
    /\ presence[v] # "away"
    /\ \E n \in (seen[v] + 1) .. published : seen' = [seen EXCEPT ![v] = n]
    /\ UNCHANGED <<published, presence>>

FeedNext ==
    \/ Publish
    \/ \E gone \in SUBSET Viewers : Leave(gone)
    \/ \E v \in Viewers : TuneIn(v) \/ See(v)

FeedSpec == FeedInit /\ [][FeedNext]_feedVars
=============================================================================
