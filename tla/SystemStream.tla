---------------------------- MODULE SystemStream ----------------------------
(***************************************************************************)
(* The browser side of the transport: SystemStream with its reconnection   *)
(* (web/src/stream/SystemStream.ts), the hook that ties it to a component  *)
(* (useSystemStream.ts) and the store it feeds.  Everything runs on the    *)
(* page's one thread; an event of a socket waits in that socket's queue    *)
(* and may be delivered long after the socket was dropped.                 *)
(*                                                                         *)
(* The engine is what SnapshotFeed promises of it: on a connection one     *)
(* hello, then snapshots with rising numbers, none older than the newest   *)
(* one at the time of the connection.  It may stop, crash and come back as *)
(* a new run, also one with another protocol version.                      *)
(***************************************************************************)
EXTENDS SnapshotStore

CONSTANTS Sockets,      \* socket objects that may exist at the same time
          MaxMounts,    \* bound: mounts of the hook (StrictMode mounts twice)
          MaxRuns,      \* bound: engine runs
          MaxSnapshots, \* bound: snapshots of one run
          MaxFaults,    \* bound: lost connections, invalid frames, restarts,
                        \* early acceptances
          MaxQueue      \* bound: events waiting at one socket

ASSUME StreamAssumption ==
    {MaxMounts, MaxRuns, MaxSnapshots, MaxFaults, MaxQueue} \subseteq Nat

CLEAN_RETRY_MS   == 2000
BACKOFF_START_MS == 500
BACKOFF_MAX_MS   == 8000

NoSocket == "no socket"
ASSUME SocketAssumption == NoSocket \notin Sockets

VARIABLES mounted, \* the mount of the hook that is active, 0 if none
          mounts,  \* mounts so far
          streams, \* the SystemStream object of each mount
          sockets, \* every socket object
          store,   \* the snapshot store
          engine,  \* the engine at the other end; early: one accepted too early
          faults   \* faults so far

vars == <<mounted, mounts, streams, sockets, store, engine, faults>>

Mounts == 1..MaxMounts

\* The delays of timers before jitter; 0 is no timer.
Delays == {0, CLEAN_RETRY_MS} \cup {BACKOFF_START_MS * k : k \in {1, 2, 4, 8, 16}}

Stream == [status : StreamStatus, socket : Sockets \cup {NoSocket},
           timer : Delays, backoff : Delays \ {0}, stopped : BOOLEAN]

NewStream == [status |-> InitialStatus, socket |-> NoSocket, timer |-> 0,
              backoff |-> BACKOFF_START_MS, stopped |-> FALSE]

(***************************************************************************)
(* A socket: unused, connecting, live (accepted by engine run `run', which *)
(* has sent it snapshots up to `sent'), being closed by close(), or dead   *)
(* with its last events still waiting.                                     *)
(***************************************************************************)
Event == [kind : {"open", "version", "invalid"}]
           \cup [kind : {"hello"}, run : Nat \ {0}]
           \cup [kind : {"snapshot"}, snap : Snapshot]
           \cup [kind : {"close"}, code : {1000, 1006}]

Socket == [phase : {"unused", "connecting", "live", "closing", "dead"},
           owner : Nat, run : Nat, sent : Nat, events : Seq(Event)]

UnusedSocket == [phase |-> "unused", owner |-> 0, run |-> 0, sent |-> 0,
                 events |-> <<>>]

Opened     == [kind |-> "open"]
Greeting(n) == [kind |-> "hello", run |-> n]
Wrong      == [kind |-> "version"]
Invalid    == [kind |-> "invalid"]
Frame(n, k) == [kind |-> "snapshot", snap |-> [run |-> n, seq |-> k]]
Closed(c)  == [kind |-> "close", code |-> c]

Free == {s \in Sockets : sockets[s].phase = "unused"}

\* close() on a socket, none included.
CloseSocket(all, s) ==
    IF s \in Sockets /\ all[s].phase \in {"connecting", "live"}
    THEN [all EXCEPT ![s].phase = "closing"] ELSE all

----------------------------------------------------------------------------
(***************************************************************************)
(* The functions of SystemStream, for the stream of mount m.               *)
(***************************************************************************)

\* connect() with the objects left by what ran before it in the same call.
Connect(m, r, all) ==
    LET status == [r.status EXCEPT !.state = "connecting"] IN
    \E s \in {s \in Sockets : all[s].phase = "unused"} :
       /\ sockets' = [all EXCEPT ![s] = [UnusedSocket EXCEPT
                                            !.phase = "connecting", !.owner = m]]
       /\ streams' = [streams EXCEPT ![m] = [r EXCEPT !.status = status,
                                                      !.socket = s]]
       /\ store' = OnStatus(store, status)

\* Mutant: start() leaves a pending reconnection timer alone.
StartWithTimer(m) ==
    Connect(m, [streams[m] EXCEPT !.stopped = FALSE],
            CloseSocket(sockets, streams[m].socket))

\* start(): cancel the timer, drop the socket, connect.
Start(m) ==
    Connect(m, [streams[m] EXCEPT !.stopped = FALSE, !.timer = 0],
            CloseSocket(sockets, streams[m].socket))

\* stop(), apart from closing the socket.
Stopped(r) ==
    [r EXCEPT !.stopped = TRUE, !.backoff = BACKOFF_START_MS, !.timer = 0,
              !.socket = NoSocket]

Emit(m, r) ==
    /\ streams' = [streams EXCEPT ![m] = r]
    /\ store' = OnStatus(store, r.status)

OnOpen(m) ==
    Emit(m, [streams[m] EXCEPT !.backoff = BACKOFF_START_MS,
                               !.status.state = "open"])

OnVersionMismatch(m) ==
    Emit(m, [streams[m] EXCEPT !.status.state = "version-mismatch",
                               !.socket = NoSocket])

OnInvalid(m) == Emit(m, [streams[m] EXCEPT !.status.invalid = @ + 1])

OnHello(m, run) == Emit(m, [streams[m] EXCEPT !.status.hello = run])

OnSnapshot(snap) == store' = PushSnapshot(store, snap) /\ UNCHANGED streams

\* Mutant: a close that was not clean is not followed by another attempt.
HandleCloseClean(m, code) ==
    LET r == [streams[m] EXCEPT !.socket = NoSocket, !.status.state = "closed",
                                !.status.hello = NoRun]
    IN  IF code = 1000 THEN Emit(m, [r EXCEPT !.timer = CLEAN_RETRY_MS])
        ELSE Emit(m, r)

\* The end of the current connection: forget its hello, set the timer.
HandleClose(m, code) ==
    LET r == [streams[m] EXCEPT !.socket = NoSocket, !.status.state = "closed",
                                !.status.hello = NoRun]
        next == IF 2 * r.backoff < BACKOFF_MAX_MS THEN 2 * r.backoff
                                                  ELSE BACKOFF_MAX_MS
    IN  IF code = 1000
        THEN Emit(m, [r EXCEPT !.timer = CLEAN_RETRY_MS])
        ELSE Emit(m, [r EXCEPT !.timer = r.backoff, !.backoff = next])

\* Mutant: every event counts, whichever socket it comes from.
IsCurrentAlways(m, s) == TRUE

\* The handlers' test whether the socket is still the stream's own.
IsCurrent(m, s) == streams[m].socket = s

\* The second test, of handleMessage and handleClose only.
Ended(m) == streams[m].stopped \/ streams[m].status.state = "version-mismatch"

----------------------------------------------------------------------------
(***************************************************************************)
(* Steps of the page.                                                      *)
(***************************************************************************)

\* The effect of the hook: a new stream for an emptied store.
Mount ==
    /\ mounted = 0
    /\ mounts < MaxMounts
    /\ mounts' = mounts + 1
    /\ mounted' = mounts'
    /\ LET m == mounts + 1
           status == [InitialStatus EXCEPT !.state = "connecting"] IN
       \E s \in Free :
          /\ sockets' = [sockets EXCEPT ![s] = [UnusedSocket EXCEPT
                            !.phase = "connecting", !.owner = m]]
          /\ streams' = [streams EXCEPT ![m] = [NewStream EXCEPT
                            !.status = status, !.socket = s]]
          /\ store' = OnStatus(Reset, status)
    /\ UNCHANGED <<engine, faults>>

\* The cleanup of the hook.
Unmount ==
    /\ mounted # 0
    /\ mounted' = 0
    /\ streams' = [streams EXCEPT ![mounted] = Stopped(@)]
    /\ sockets' = CloseSocket(sockets, streams[mounted].socket)
    /\ UNCHANGED <<mounts, store, engine, faults>>

\* start() on a stream that has been started before.
Restart ==
    /\ mounted # 0
    /\ faults < MaxFaults
    /\ faults' = faults + 1
    /\ Start(mounted)
    /\ UNCHANGED <<mounted, mounts, engine>>

\* A reconnection timer fires.
TimerFires(m) ==
    /\ streams[m].timer # 0
    /\ IF streams[m].stopped
       THEN /\ streams' = [streams EXCEPT ![m].timer = 0]
            /\ UNCHANGED <<sockets, store>>
       ELSE Connect(m, [streams[m] EXCEPT !.timer = 0], sockets)
    /\ UNCHANGED <<mounted, mounts, engine, faults>>

\* The next event of a socket is delivered to the handlers that connect()
\* installed.  A dead socket without events is gone.
Deliver(s) ==
    /\ sockets[s].events # <<>>
    /\ LET e == Head(sockets[s].events)
           m == sockets[s].owner
           rest == Tail(sockets[s].events)
           after == [sockets EXCEPT ![s] =
                       IF @.phase = "dead" /\ rest = <<>> THEN UnusedSocket
                       ELSE [@ EXCEPT !.events = rest]] IN
       /\ sockets' = IF e.kind = "version" /\ IsCurrent(m, s) /\ ~Ended(m)
                     THEN CloseSocket(after, s) ELSE after
       /\ IF ~IsCurrent(m, s) \/ (e.kind # "open" /\ Ended(m))
          THEN UNCHANGED <<streams, store>>
          ELSE CASE e.kind = "open"     -> OnOpen(m)
                 [] e.kind = "version"  -> OnVersionMismatch(m)
                 [] e.kind = "invalid"  -> OnInvalid(m)
                 [] e.kind = "hello"    -> OnHello(m, e.run)
                 [] e.kind = "snapshot" -> OnSnapshot(e.snap)
                 [] e.kind = "close"    -> HandleClose(m, e.code)
    /\ UNCHANGED <<mounted, mounts, engine, faults>>

----------------------------------------------------------------------------
(***************************************************************************)
(* The browser's network and the engine.                                   *)
(***************************************************************************)
Room(s) == Len(sockets[s].events) < MaxQueue

Die(s, code) == [sockets[s] EXCEPT !.phase = "dead",
                                   !.events = Append(@, Closed(code))]

\* The engine accepts: hello, then from its newest snapshot on.
Accept(s) ==
    /\ sockets[s].phase = "connecting"
    /\ engine.up
    /\ sockets' = [sockets EXCEPT ![s].phase = "live", ![s].run = engine.run,
          ![s].sent = IF engine.published = 0 THEN 0 ELSE engine.published - 1,
          ![s].events = IF engine.compatible THEN <<Opened, Greeting(engine.run)>>
                        ELSE <<Opened, Wrong>>]
    /\ UNCHANGED <<mounted, mounts, streams, store, engine, faults>>

\* The same before the engine posted its hello: the session gets none.
AcceptEarly(s) ==
    /\ sockets[s].phase = "connecting"
    /\ engine.up
    /\ engine.published = 0
    /\ sockets' = [sockets EXCEPT ![s].phase = "live", ![s].run = engine.run,
                                  ![s].events = <<Opened>>]
    /\ engine' = [engine EXCEPT !.early = TRUE]
    /\ faults < MaxFaults
    /\ faults' = faults + 1
    /\ UNCHANGED <<mounted, mounts, streams, store>>

\* Nobody listens, or the connection attempt fails.
Refuse(s) ==
    /\ sockets[s].phase = "connecting"
    /\ IF engine.up THEN faults < MaxFaults /\ faults' = faults + 1
                    ELSE UNCHANGED faults
    /\ sockets' = [sockets EXCEPT ![s] = Die(s, 1006)]
    /\ UNCHANGED <<mounted, mounts, streams, store, engine>>

\* A snapshot newer than the last arrives; a slow reader misses some.
Send(s) ==
    /\ sockets[s].phase = "live" /\ Room(s)
    /\ \E k \in (sockets[s].sent + 1) .. engine.published :
          sockets' = [sockets EXCEPT
             ![s].sent = k,
             ![s].events = Append(@, IF engine.compatible
                                     THEN Frame(engine.run, k) ELSE Wrong)]
    /\ UNCHANGED <<mounted, mounts, streams, store, engine, faults>>

SendInvalid(s) ==
    /\ sockets[s].phase = "live" /\ Room(s)
    /\ faults < MaxFaults
    /\ faults' = faults + 1
    /\ sockets' = [sockets EXCEPT ![s].events = Append(@, Invalid)]
    /\ UNCHANGED <<mounted, mounts, streams, store, engine>>

\* The connection is lost (idle timeout, reset).
Lose(s) ==
    /\ sockets[s].phase = "live" /\ Room(s)
    /\ faults < MaxFaults
    /\ faults' = faults + 1
    /\ sockets' = [sockets EXCEPT ![s] = Die(s, 1006)]
    /\ UNCHANGED <<mounted, mounts, streams, store, engine>>

\* What close() began ends; what had arrived before may still be delivered.
CloseEnds(s) ==
    /\ sockets[s].phase = "closing"
    /\ sockets' = [sockets EXCEPT ![s] = Die(s, 1006)]
    /\ UNCHANGED <<mounted, mounts, streams, store, engine, faults>>

EngineStarts ==
    /\ ~engine.up
    /\ engine.run < MaxRuns
    /\ \E ok \in BOOLEAN :
          engine' = [engine EXCEPT !.up = TRUE, !.run = @ + 1, !.published = 0,
                                   !.compatible = ok]
    /\ UNCHANGED <<mounted, mounts, streams, sockets, store, faults>>

Publish ==
    /\ engine.up
    /\ engine.published < MaxSnapshots
    /\ engine' = [engine EXCEPT !.published = @ + 1]
    /\ UNCHANGED <<mounted, mounts, streams, sockets, store, faults>>

\* The engine shuts down (1000) or dies (1006), and its connections with it.
EngineEnds(code) ==
    /\ engine.up
    /\ engine.run < MaxRuns
    /\ engine' = [engine EXCEPT !.up = FALSE]
    /\ sockets' = [s \in Sockets |-> IF sockets[s].phase = "live"
                                     THEN Die(s, code) ELSE sockets[s]]
    /\ UNCHANGED <<mounted, mounts, streams, store, faults>>

----------------------------------------------------------------------------
Init ==
    /\ mounted = 0
    /\ mounts = 0
    /\ streams = [m \in Mounts |-> NewStream]
    /\ sockets = [s \in Sockets |-> UnusedSocket]
    /\ store = Reset
    /\ engine = [up |-> FALSE, run |-> 0, published |-> 0, compatible |-> TRUE,
                 early |-> FALSE]
    /\ faults = 0

Page == \/ Mount \/ Unmount \/ Restart
        \/ \E m \in Mounts : TimerFires(m)
        \/ \E s \in Sockets : Deliver(s)

Network ==
    \/ \E s \in Sockets : \/ Accept(s) \/ AcceptEarly(s) \/ Refuse(s) \/ Send(s)
                          \/ SendInvalid(s) \/ Lose(s) \/ CloseEnds(s)
    \/ EngineStarts \/ Publish
    \/ \E code \in {1000, 1006} : EngineEnds(code)

Next == Page \/ Network

Spec == Init /\ [][Next]_vars

(***************************************************************************)
(* Timers fire, events are delivered, a connection attempt ends, close()   *)
(* ends, and a session of a running engine gets a snapshot: the engine     *)
(* broadcasts in every interval, of which MaxSnapshots is only the bound.  *)
(***************************************************************************)
Fairness ==
    /\ \A m \in Mounts : WF_vars(TimerFires(m))
    /\ \A s \in Sockets :
         /\ WF_vars(Deliver(s))
         /\ WF_vars(Accept(s) \/ Refuse(s))
         /\ WF_vars(Send(s))
         /\ WF_vars(CloseEnds(s))

FairSpec == Spec /\ Fairness
----------------------------------------------------------------------------
\* The page's objects are well formed.
TypeOK ==
    /\ mounted \in 0..MaxMounts /\ mounts \in 0..MaxMounts
    /\ streams \in [Mounts -> Stream]
    /\ sockets \in [Sockets -> Socket]
    /\ store \in Store
    /\ engine \in [up : BOOLEAN, run : Nat, published : Nat, compatible : BOOLEAN,
                  early : BOOLEAN]
    /\ faults \in 0..MaxFaults

\* A socket that is connecting or open is the one its mounted stream knows, and
\* a pending timer, which would make another, excludes it.
AtMostOne ==
    /\ \A s \in Sockets : sockets[s].phase \in {"connecting", "live"}
          => mounted = sockets[s].owner /\ streams[mounted].socket = s
    /\ \A m \in Mounts : streams[m].timer # 0
          => m = mounted /\ streams[m].socket = NoSocket

\* A mounted stream has a socket that is still to report, or a timer, unless
\* the protocol version ended it.
NeverIdle ==
    mounted # 0 =>
        LET r == streams[mounted] IN
        \/ r.timer # 0
        \/ r.status.state = "version-mismatch"
        \/ r.socket # NoSocket /\ (\/ sockets[r.socket].phase \in {"connecting", "live"}
                                  \/ sockets[r.socket].events # <<>>)

(***************************************************************************)
(* SystemStream.ts:60-65 - whatever timers, stops and late events come: a  *)
(* mounted stream never has a second connection and is never at a dead     *)
(* end; and the page's objects are well formed.                            *)
(***************************************************************************)
OneConnection == TypeOK /\ AtMostOne /\ NeverIdle

\* The data are of one engine run, the one whose hello was seen.
OneEngineInStore ==
    /\ store.current # None => store.current.run = store.session
    /\ store.previous # None => /\ store.previous.run = store.session
                                /\ store.previous.seq < store.current.seq
    /\ \A i \in 1..Len(store.log) : store.log[i].run = store.session

\* A snapshot sent again after a reconnect enters the log only once, and the
\* log keeps the order of the snapshots (snapshotStore.ts:67-69).
LogInOrder ==
    \A i, j \in 1..Len(store.log) : i < j => store.log[i].seq < store.log[j].seq

\* With an incompatible engine nothing is shown (useSystemStream.ts:55-56).
BlankOnMismatch ==
    store.status.state = "version-mismatch"
        => store.current = None /\ store.previous = None /\ store.log = <<>>

(***************************************************************************)
(* useSystemStream.ts:51-56 - with late events and reconnections in        *)
(* between, neither interpolation nor the lifecycle log mixes two engines  *)
(* or tells anything twice, and the data of an incompatible engine's       *)
(* predecessor do not stay on the page; provided that every engine has its *)
(* hello when it accepts the page (see EnginesApart).                      *)
(***************************************************************************)
StoreHonest ==
    /\ ~engine.early => OneEngineInStore /\ LogInOrder
    /\ BlankOnMismatch

\* Time does not run backwards on the page: within one session the shown
\* snapshot is only replaced by a newer one, unless the page is remounted.
ShownMonotone ==
    [][store'.current.run = store.current.run
          => store'.current.seq >= store.current.seq]_vars

(***************************************************************************)
(* Contract 7.2 - the page finds its way back: when the engine stays up    *)
(* and the page stays mounted, the page ends up showing its newest         *)
(* snapshot, whatever was lost, refused or restarted before.               *)
(***************************************************************************)
Watching == /\ mounted # 0 /\ engine.up /\ engine.compatible
            /\ streams[mounted].status.state # "version-mismatch"

UpToDate == /\ mounted # 0
            /\ streams[mounted].status.state = "open"
            /\ engine.published > 0 =>
                  store.current = [run |-> engine.run, seq |-> engine.published]

Recovers == <>[]Watching => <>[]UpToDate

(***************************************************************************)
(* snapshotStore.ts:103-105 - a restarted engine's data never meets that   *)
(* of the run before it in the store.                                      *)
(***************************************************************************)
EnginesApart == store.previous # None => store.previous.run = store.current.run
=============================================================================
