--------------------------- MODULE SnapshotStore ---------------------------
(***************************************************************************)
(* The dashboard's store (web/src/state/snapshotStore.ts) and the callback *)
(* of web/src/stream/useSystemStream.ts that feeds it, as operators from a *)
(* store to a store.  An engine run (its hello's session) is a number from *)
(* 1, a snapshot is the pair of its engine run and its seq; t tells the    *)
(* runs apart in the code.                                                 *)
(***************************************************************************)
EXTENDS Integers, Sequences

CONSTANT LogLimit \* LIFECYCLE_LOG_LIMIT

ASSUME LogLimitAssumption == LogLimit \in Nat \ {0}

None == [run |-> 0, seq |-> 0] \* no snapshot
NoRun == 0                     \* no session, no hello

Snapshot == [run : Nat \ {0}, seq : Nat \ {0}]

States == {"connecting", "open", "closed", "version-mismatch"}

StreamStatus == [state : States, hello : Nat, invalid : Nat]

InitialStatus == [state |-> "closed", hello |-> NoRun, invalid |-> 0]

Store == [previous : Snapshot \cup {None}, current : Snapshot \cup {None},
          log : Seq(Snapshot), session : Nat, interval : Nat,
          status : StreamStatus]

\* reset(), also the initial state.  Interval 0 is the default of 1000 ms.
Reset == [previous |-> None, current |-> None, log |-> <<>>,
          session |-> NoRun, interval |-> 0, status |-> InitialStatus]

Latest(log) == IF Len(log) > LogLimit THEN Tail(log) ELSE log

\* Every snapshot brings its lifecycle events into the log, once.
PushSnapshot(store, snap) ==
    IF store.current = snap THEN store
    ELSE [store EXCEPT !.previous = store.current, !.current = snap,
                       !.log = Latest(Append(store.log, snap))]

ClearSnapshots(store) ==
    [store EXCEPT !.previous = None, !.current = None, !.log = <<>>]

\* Mutant: the new session is recorded, the data of the old one stays.
BeginSessionKeeping(store, run) == [store EXCEPT !.session = run]

BeginSession(store, run) ==
    IF store.session = run THEN store
    ELSE [ClearSnapshots(store) EXCEPT !.session = run]

\* onStatus of the hook: a hello begins its session, a version mismatch
\* discards the data.  The interval is that of the hello's engine run.
OnStatus(store, status) ==
    LET s == [store EXCEPT !.status = status]
        h == IF status.hello = NoRun THEN s
             ELSE BeginSession([s EXCEPT !.interval = status.hello], status.hello)
    IN  IF status.state = "version-mismatch" THEN ClearSnapshots(h) ELSE h
=============================================================================
