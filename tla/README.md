# Pulse Universe in TLA+

Pulse Universe shows what a Windows machine is doing as a small universe. An
engine (C++, `engine/`) samples processes, cores and connections and broadcasts
a snapshot a second over a WebSocket; a page (TypeScript, `web/`) keeps the last
two snapshots, interpolates between them and draws groups of processes as bodies.

This directory holds a model of that program: TLA+ modules that follow the code,
TLC configurations for small instances, and proofs for TLAPS. `PROJECT.json`
lists runs, mutants (a plausible bug for every property), the source lines of
every definition, the hazards and the theorems.

## The system and its parts

| Part | State | Operations | Meets |
|---|---|---|---|
| `WebSocketServer` | the strand's queue, sessions with their write slots, `hello_`, `latest_`, `stopped_` | accept, handshake, send, write, close, `broadcast`, `stop` | clients over TCP; `ServeApp` by posted tasks |
| `ServeApp` (`runServe`) | main thread, sampling thread, signal set, error | bind, hello, run, join; sample, stop | posts to the server; runs `EngineLoop` |
| `EngineLoop` | next start, stop flag, error | `run`, `stop` | collectors, aggregator, snapshot handler |
| `RunTimeTable` | thread to process, slice per core, ticks | `threadStarted`, `threadEnded`, `contextSwitch`, `drain` | ETW consumer thread and sampling thread, under a mutex |
| ETW collectors and `main` | kernel session, named mutex, consumer thread, console handler | `start`, destructor, `stopSessionByName`, handlers | other engine processes, through the kernel |
| `DataAggregator`, `LifecycleTracker`, `CpuDelta`, `GroupBuilder`, `ProcessFilter` | last counters and start times per pid, groups shown | `aggregate` | reader's samples, snapshot |
| network aggregation | bytes per flow of the open window | `onEvent`, `drain`, `aggregateNetwork` | ETW consumer thread, connection scan |
| `SystemStream`, `useSystemStream` | socket, timer, backoff, status | start, stop, socket events, retry | browser's sockets; the store |
| `snapshotStore` | previous and current snapshot, session, lifecycle log | push, clear, begin session | the stream; every drawing component |
| frame loop (`SceneRoot`) | lifecycle consumer, presence tracker, focus, list of nodes | one update per frame; React's commits, clicks | the store, read once per frame; every part below |
| focus view | committed focus, tween, satellites' tracker, timer of the depth of field | clicks, commits, ticks, frames | tracker of groups |
| flow lines, bursts, orbits | tracked edges; the pool; held radii, distances | one update per frame | groups on the scene, events, snapshot |
| labels, hover, tooltip, cores | what is mounted, what is displayed, what the pointer is on | frames, commits, pointer events | React's tree, which is behind the frames |
| interpolation | nothing of its own; the dashboard's last frame | `sample`, a timer | the store's two snapshots |

What is hard about it: four threads and the kernel in one engine (main, which
runs the io_context; sampling; two consumers), several engines on one machine,
clients that are slow, silent or gone, a page whose sockets report late and
whose engine is restarted under it, process and thread numbers that are used
again, events that arrive out of order, and a scene in which the store, the
frames, React's commits, pointer events and timers each see a different moment.

## The modules

| Module | Follows | Composes |
|---|---|---|
| `SnapshotFeed` | what `WebSocketServer.h` promises: published snapshots, each viewer sees them in order | |
| `WebSocketServer` | `WebSocketServer.cpp` | refines `SnapshotFeed` |
| `ServeApp` | `ServeApp.cpp` | extends `WebSocketServer` and refines it |
| `SnapshotStore` | `snapshotStore.ts` | |
| `SystemStream` | `SystemStream.ts`, `useSystemStream.ts`, one engine after another | extends `SnapshotStore` |
| `RunTimeTable` | `RunTimeTable.cpp` | |
| `EngineLoop` | `EngineLoop.cpp` | |
| `EtwSession` | `EtwSchedulerCollector.cpp`, `EtwNetworkCollector.cpp`, the handlers of `main.cpp` | |
| `GroupBuilder` | `GroupBuilder.cpp`, `ProcessFilter.cpp`, as operators | |
| `DataAggregator` | `DataAggregator.cpp`, `CpuDelta.cpp`, `LifecycleTracker.cpp`, the order of `WindowsSystemReader::read` | extends `GroupBuilder` |
| `NetworkTraffic` | `onEvent` and `drain` of `EtwNetworkCollector.cpp`, `FlowKey.cpp`, `NetworkAggregator.cpp` | |
| `MCEngine` | `RunTimeTable`, `EngineLoop` and `NetworkTraffic`, one of which moves in a behaviour | extends the three |
| `Presence`, `Lifecycle` | `presence.ts`, `lifecycleEvents.ts`, as operators | |
| `SceneRoot`, `MCSceneRoot` | the frame of `SceneRoot.tsx`, against an engine | extends `Presence`, `Lifecycle` |
| `FocusView` | `focusStore.ts`, `CameraRig.tsx`, `Satellites.tsx`, `useDepthOfFieldActive` of `PostEffects.tsx` | extends `Presence` |
| `FlowLines` | `flowTracker.ts`, `FlowStreams.tsx` | |
| `BurstPool` | `bursts.ts`, `Particles.tsx`, `burstFor` of `SceneRoot.tsx` | |
| `OrbitLayout` | `solar.ts`, `layout.ts`, `OrbitRings.tsx` | |
| `BodyLabels` | `labels.ts`, `labelPlacement.ts`, `BodyLabels.tsx` | |
| `Interpolator` | `interpolator.ts`, `useInterpolated.ts` | |
| `Hover` | `sceneContext.ts`, `Tooltip.tsx`, the pointer handlers, `CoreOrb.tsx`, `CoreSparks.tsx` | |
| `MCVisuals` | the seven before this, one of which moves in a behaviour | extends the seven |
| `FiniteSums` | induction and sums over finite sets, for the proofs | |
| `ServerProofs`, `EngineProofs`, `EtwSessionProofs`, `DataAggregatorProofs`, `SystemStreamProofs`, `SceneRootProofs`, `VisualsProofs` | the theorems about the modules they extend | |

**WebSocketServer.** `queue` is what the io_context has still to run on the one
thread that calls `run()`. A connection's session (`ses[c]`) has a stage
(handshake, `ws`, a plain reply, over), its flags, and its slots as frames:
`first_` (hello), `pending_`, `sending_`; 0 is an empty slot, 1 the hello, then
the snapshots in the order of their numbers. Every completion handler is an
action and ends with the whole handler's effect, `doWrite`, `doClose` and
`removeSession` included. What a peer has received (`last`, `greeted`) is a
history. HTTP replies, their files and headers are one action that ends the session.

**ServeApp.** `main`, `sampler` and `signal` are the places of the three threads
of control. Tasks of the signal set and of the last `cancel` share the server's
queue, and `ImplementsServer` shows that, these set aside, the server is used
within its interface. `NoWork` is the condition under which `run()` returns.

**SystemStream, SnapshotStore.** A mount of the hook makes a stream; React's
strict mode mounts twice. A socket keeps its undelivered events, also after the
stream let go of it. The engine is up or down, of some run, compatible or not.
It may accept a page before `setHello`
(`ServeApp.cpp:51-64`, see below). Such an acceptance counts against the bound on
faults and is remembered in `engine.early`; `StoreHonest` speaks of the others.

**RunTimeTable.** The collector's mutex makes a call one step. Events of one core
come in order, between cores in any order. Thread 0 is Idle; a process of 0 is
nobody, as in the code. `nobody`, `began` and `lastTs` are histories.

**EngineLoop.** A clock that goes on between any two steps; `Sampled` stands for
the drain, the read, the aggregation and the scan, which leave the loop's own
variables alone. `starts`, `stoppedAt`, `late` and `overrun` are histories.
`Sleep` reads the flag and the clock at one instant (`EngineLoop.cpp:102-103`): a
thread held up between the two sleeps as if it were held up after both.

**EtwSession.** One kernel session of the name, and a mutex that exists as long
as a process has a handle of it. `pc` follows `start()`, `runServe` and the
destructor, `ctrl` the console's thread, `consumer` the thread in `ProcessTrace`.
`Network` tells the two collectors apart: the network one enables a provider,
and its handler is taken back before the destructor runs.

**DataAggregator, GroupBuilder.** `os` is the machine: processes start, use the
processor and end between any two samples, and their numbers are used again.
`Sample` is `read()` and `aggregate()`. The reader lists processes at once and
opens them one by one, so that some of them (`dying`) end in between and are
read with times of 0, as are those of programs that may not be opened
(`Closed`). Shares, starts, and the groups shown are kept as in the code, as
functions on pids. `followed` is a client that applies every lifecycle. Memory
is one unit per process; the reader lists processes in the order of their pids.
Left out: a pid listed twice in one sample, and one that ends and is handed to
another process between being listed and being opened.

**NetworkTraffic.** Three moments: the consumer's thread counts an event
(`OnEvent`), the sampling thread flushes, closes the window and exchanges the
flows, and a scan later the aggregation matches what was counted with the sockets
there are by then. `fresh` and `past` are histories of the bytes delivered. A key
has no direction, as `makeFlowKey` orders the ends, so the end that is local is
told from the scan. `TrafficHonest` speaks of sockets that are still listed: the
end of one that is closed may be guessed wrong, when another socket of the process
has the remote's port, for a single match is not compared with the machine's
addresses. Left out: a window's length in seconds (it is read before the lock, which
shifts bytes by the wait for it), and the machine's traffic with itself over an
address that is not loopback, which is counted under one key and shown at both ends.

**SceneRoot, Presence, Lifecycle.** `world` is the processes as they are: a pid has
lives, and a life a group. Snapshots of it arrive at any rate; a frame takes the one
in the store, which it may have seen before, or none. `Frame` is the whole of
`useFrame`: consumer, tracker, focus, list of nodes. `Commit` is React mounting
what the list said, so that a click may meet a node whose body has gone. A
collapsing body shows `1 - p^2`; the model takes `1 - p` for it, in `Full` steps.

**FocusView.** Clicks write the store, a commit starts the transition and the timer,
the tween moves on its own, and a frame copies it and gives the satellites their
owner: the focus, or while it fades the one before. A tween's value is 0, whole, or
between.

**FlowLines, BurstPool, OrbitLayout.** What a frame is given (groups there, flows,
cores, events, sizes) is any that the tracker and the snapshot allow. Where the code
breaks ties by the order of a `Map` the model takes any. Brightness and time are
steps; the girth of an orbit is 33/7 of its radius (`2 pi FILL`); a body comes as near
to its orbit as one frame lets it, or not at all when no time has passed: the code
goes part of the way (`layout.ts:95`), up to the same limit. Only the way to and from
the star is modelled, not the turn around it. "None overfull" says that the bodies of
an orbit fit on it, not that no further one would.

**BodyLabels, Hover.** What React has mounted is a variable of its own, which a
commit brings up to date; frames read and write what is mounted. Which names
overlap and what the pointer meets is any. An object unmounted under the pointer
sends no `onPointerOut`.

`Hover` keeps a commit and its effects apart (`HoverCommit`, `HoverEffects`, with
`passive` between them): `SceneRoot` renders in answer to a frame or a pointer event,
and React runs the effects of such a commit in a later task, before the next render.
In between, and until `SceneRoot` has rendered what an orb's cleanup let go of, frames
read the hover of something that is no longer mounted and may light up lines for it;
`HoverHonest` says that it ends when React has caught up. Cores, satellites and the
list of bodies are brought up to date together or apart. In `FocusView` the commit and
the effect of `CameraRig` are one step: the focus store is an external store to React,
a change of which is rendered synchronously with the effects run at once.

**Interpolator.** A snapshot is figures per group and member; a figure between two
is a whole number. `follows` says whether the two snapshots are consecutive. A group
and a member are their keys: a number used again by the same program is the same
process here, as it is in the code.

## What is checked

| Run | Question | Bounds |
|---|---|---|
| `server` | one outgoing operation per stream, a stable buffer, no leaked session, the feed is implemented; delivery and draining under fairness | 2 connections, 3 snapshots, 1 stop (2 in `serve`) |
| `serve` | `run()` returns only after the cleanup and failures are not lost, who connects after `setHello` gets it first, the server's interface is kept, no deadlock, the process ends | 2 connections, 1 snapshot (and endless samples), Ctrl+C any time |
| `serve_newcomer` | *finding*: a client's first snapshot is the latest one | 1 connection, 2 snapshots |
| `stream` | one connection, no dead end, the store never mixes engines, repeats log entries or goes back, and the page comes back to a running engine | 2 mounts, 2 engine runs of 2 snapshots, 1 fault or early acceptance, 2 sockets with 2 late events each |
| `stream_early` | *finding*: the store keeps two engine runs apart | 1 mount, 2 runs, 1 socket |
| `engine` | loop: no burst, prompt stop; table: shares never exceed the window, no time lost or counted twice; traffic: every byte in one window, and with the right connection | 4 samples of period 3, slices of 2, 14 instants; 2 processes, 1 thread and Idle, 2 cores, times up to 3; 4 flows of a process, 4 sockets, 2 bytes |
| `etw` | a live engine keeps its session, none is left behind, windows are taken from a live consumer, the destructor ends | 3 engines, 1 without rights, any number of crashes and launches |
| `etw_handler` | *finding*: the same for the scheduler's session | 2 engines |
| `aggregator` | the lifecycles account for every process, shares are a process's own, one group each, shown groups keep their place while their root is the same process | 2 pids, 3 programs, 5 instants (starts and samples), counters up to 1, 1 group shown |
| `aggregator_exit` | *finding*: only real starts are reported | the same |
| `scene` | tracker and consumer agree, births and deaths told are real, opacity does not jump, the focus is on a body that stays | 2 pids of 2 lives, engine runs of 4 and 2 snapshots, phases of 2 steps |
| `visuals` | focus, camera and satellites settle; satellites have one owner; a flow is not given up for an afterglow; bursts fit and the oldest give way; orbits are apart and small changes move nothing; names neither overlap nor flicker; a figure is between two of one process; the tooltip tells of what is there | see `Visuals.cfg`: 2 groups and a child, 2 clicks; 3 lines for 2 places; a pool of 4, bursts of 1 to 3; 2 bodies of 3 sizes; 4 names for 3 labels; 2 snapshots and 2 steps; 1 group, 1 satellite, 2 cores |

`engine` and `visuals` hold parts that share no variable. A behaviour picks one and
only that moves, so each part is checked as if alone and the run costs their sum.

Why the bounds suffice. A session's slots hold three frames at most, so three
snapshots and a hello fill them and overtake one another; sessions do not
interact but through the listener, which two show. Two cores are what it takes
for events to overtake one another. Three engines are an owner, one that died
and one that looks. Two mounts and two engine runs are one change of each; a
third repeats the second. Two pids are enough for one to be handed on, for a
cycle of parents and for a newcomer against a shown group; five instants are two
starts and three samples, or three starts and two samples. A UDP
flow with one port at both ends, one with two and one to a near address give every
outcome of the matching: one end, both, none. Two lives of a pid are one reuse, and four snapshots let a frame
miss two within the window of spawns. A trimmed line takes one more line than there
is room for, and a burst that needs two to give way takes a pool of one more than it.
Three sizes are one inside the dead band of another and one outside. Three labels
for four names let one be left out of the list and three overlap in a chain.

Fairness. `io_context::run` takes every handler in turn; a websocket write, a
handshake and a close end by the stream's timeouts
(`WebSocketServer.cpp`, `stream_base::timeout::suggested`); an operation on a
socket that was closed here fails. Clients are given none: they may be silent
for ever. In `SystemStream` timers fire, events are delivered and an engine that
is up goes on sending. In `EtwSession` threads that can go on do, and
`ProcessTrace` returns once its session or its handle is closed; no engine has
to end or die. In `FocusView` a page in view runs its commits, timers, ticks and
frames, and a tween reaches its end; the user may click or not. `StopDrains` and `ShutdownCompletes` are about those who wait.

`CHECK_DEADLOCK FALSE` stands where the system may come to rest: a stopped
server, a page that was unmounted, a loop that has ended, a machine without
processes whose clock is at its bound, traffic at the bound of its bytes.

## Findings

1. `serve_newcomer`. `onAccept` gives a session the latest snapshot when TCP
   accepts it; broadcasts during its handshake pass it by. The page starts with
   a snapshot a period older than the design says, which the next one mends.
2. `stream_early`. The server listens before the hello is set; a page that comes
   back within that gap gets snapshots of the new run without the hello that
   clears the store, so two runs are interpolated into one another. Once
   `setHello` is posted the gap is closed (`HelloFirstOnceSet` in `serve`).
3. `etw_handler`. `onConsoleControl` is never taken back. A Ctrl+C after the
   reader is gone stops the session of another engine by name. The network
   handler is taken back, and for it the property is proved.
4. `aggregator_exit`. A process that ends between being listed and being opened
   is read with a start of 0 and reported as ended and started, and a sample
   later as ended again. The contract promises real starts only.

More places where code and text part, or where a reader may be surprised,
without a run of their own. A share
may span two processes for the one sample in which a number changes hands
(`ShareIsOwn` leaves it out). A program started again under the number of its
predecessor keeps its key and with it the incumbents' bonus, which the contract
(5.3) excludes: `KeepsPlace` speaks of groups whose root is still the same process,
and claims nothing of a program started again. A chain of more than 32 processes of one name is cut, its lower
part led by a process that counts in the upper one; `CountedOnce` holds up to
that limit. In the scene: bursts that are over take room until the next frame draws
(`add` comes before `active`), so one under way may give way to them; the lines of
orbits follow without the bodies' limits on time and speed, though `OrbitRings.tsx:16-17`
says they move with them; the ring's room is shared by need and places by count, so
that two large neighbours may overlap; a hover on a body or a satellite outlives it,
as only cores clean up, and comes back with the key; a change of focus within a
transition swaps what is dimmed at once; and the camera's last step is left out when
`onComplete` comes before the frame.

## What is proved

Of the 40 properties the passing runs check, 34 are theorems, which hold for every
value of the constants: all but the six about what must happen in the end, which are
below. A module's header says what its constants may be.

`ServerProofs`. `TypeCorrect`, `OneOutgoing`, `InOrder`, `NoLeak`, `BufferKept` and
`ServerImplementsFeed` hold for any number of connections, snapshots and stops. The
inductive invariant joins the type with what a session's flags say of its
operations: a write is outstanding exactly while `sending_` is full, a close only
without a write, everything that is open has a read outstanding. The frames' order
needs the queue as well: posted broadcasts are increasing and newer than `latest_`.
The refinement maps each handler to a step of the feed or to a stutter.

About `runServe` above it: `OrderlyReturn`, from the fact that once the signal was
handled the server is stopped or a stop is in the queue, so that an empty queue means
a stopped server; `HelloComesFirst`, from the queue's order, in which an accepted
connection that is not early stands behind the hello until the server has it; and
`ServeImplementsServer`. The server's queue is the process's without the tasks of the
application (`ServerTasks`): a task posted or taken is one of the server's or changes
nothing for it. Its one hypothesis, `MaxStops >= 2`, is the model's bound on stops;
`StopsInv` shows that the process makes two at most.

Of the end: `StopNeedsNoClient`, after a stop every operation a session has under way
is one that ends without its client, as its socket is closed or it has a timeout
(`NeedsNoClient`); a session that is not listed yet, or no longer, has lost its socket or
closes with the next end of an operation. `ShutdownNeedsNobody`: once the sampler has
posted its last task, `run()` has a task to take, an operation that ends by itself or no
work, since the stop and the cancelling of the signals are, until they are done, in
the queue.

`EngineProofs`. `LoopTypeCorrect`, `NoBurst`, `NoDrift`, `StopsInTime`: the deadline
is at least a period after the last start until the clock reaches it, so that any
stretch of samples takes its periods. `TableTypeCorrect`, `ShareWithinWindow`: the
credited ticks of a process never exceed the distance from the window's start to the
slice's beginning, which is never before the window and never after the newest event.
`NoTimeLost`: the same distance is the sum of what all processes and nobody were
given. `TrafficStaysHonest`: the bytes counted of a flow are those of the window, as
`BytesKept` says, and a socket that is listed is shown once at most, which is a lemma
about the ends that `LocalEnds` finds and the order of a key's ends. `EngineOfParts`
carries all this over to `MCEngine`, in which the three stand side by side.

`EtwSessionProofs`. `StartsAfresh`, `NetworkSessionKept`, `NothingLeftOver`: at most one
engine is past the mutex, a handler exists only between registration and removal, the
session belongs to whoever is past `StartTrace`, and whoever leaves without stopping
it has died (`left`). `NetworkSessionKept` is about the network collector, as the
scheduler's lets another engine's handler stop it (finding 3).

`DataAggregatorProofs`. `AggregatorTypeCorrect`, `Replays`, `SharesAreOwn`: what the
trackers keep is what the last sample said, and a process that has times in it was
read as it was; a lifecycle then turns one sample's processes into the next one's,
and a difference of counters is that of one process. `CountsOnce`: a climb that ends
before `kMaxParentHops` ends at a process from which the climb ends at once or in the
same circle, so that the root of a root is itself. The condition is the code's limit:
beyond it the claim is false (see above). `SmallGroupsLed` has no condition on climbs:
a climb stays among the processes of one name, so a program of no more of them than
hops meets one twice before these are used up, however many processes the machine has.
`PlaceIsKept`: the groups chosen are the best of all, and the bonus of an incumbent
doubles its score; it is about groups whose root has not been started again.

`SystemStreamProofs`. `ConnectionKept`: only the mounted stream has a timer or a
socket, never both, and that socket is its own and has still something to report.
`StoreStaysHonest`, `TimeMonotone`: the events waiting at a socket are of one engine
run, the hello before the snapshots and these in their order, a close the last; and the
mounted stream's socket has no snapshot older than the one shown, nor one of another
session before a hello. `StoreStaysHonest` has the reservation of the run: no early
acceptance. `RestShowsNewest`: an open connection of the page that was sent the newest
snapshot has it still on its way, or the page shows it and no hello that would clear the
store comes after it; and the page says "open" or is still to be told (`Told`). So where
nothing is on its way any more, the page is up to date, whatever went wrong before.

`SceneRootProofs`. `StageAgrees`, `FocusOnWhatStays`, `NoJump`, `ToldWhatHappened`: what
the consumer saw last and the tracker's entries that stay have the same keys; an
entry's phase moves by the time passed and turns round where it is; the store's
snapshot is never ahead of the world. A consumer knows of the session it is in that a
spawn it remembers is as old as it believes and was not told of, and that a process
reported ended has gone or lives a later life than its body (`Knows`).

`VisualsProofs`: the parts of the page one by one, then side by side. `TooltipTellsOfWhatIsThere`: a
tooltip displayed has a target; once the effects of a commit are run, the frames' hover
is what that commit rendered, and only a core that went leaves a hover to its effects
(`LeftHovered`), so that with nothing left to render or run the hover is mounted.
`SatellitesOfOneGroup`: all that the tracker holds is of its owner, also while nothing
is shown, and as long as its version is 0 the list handed to React is the tracker's.
`LinesStaySteady`: what a frame makes of a line follows from what it was, and which
lines stay from their number and order. `FramesStayHonest`: of a difference passes, by a
division rounded down, no more than all and never less than before.
`LabelsStayCalm`: a finite set of names has a last one in `placeLabels`' order, so that
they can be placed one after the other; no two placed overlap, and each name left out
overlaps one that precedes it, hence a visible one if it was visible (`WellPlaced`).
What the component takes for visible is what the page displays of the list, whatever
React mounts or removes between two frames.
`BurstsStayOrderly`: after each event of a frame the pool is the longest end, of all
bursts so far, that fits into the buffer (`LongestEnd`); a burst added makes the new one
an end of the old one, and dropping the bursts that are over commutes with it.
`OrbitsStaySteady`: what `planOrbits` has made of any set of bodies, the smallest placed
last, is well planned (`WellPlanned`): a ring has room for its bodies or only one, no
ring touches the next, and no body is larger than one further in. A radius held is
within the dead band of the size (`InBand`), hence bodies as large as they are drawn are
apart by the gap less their bands, and radii that are held make the same plan.
`PageOfParts`: `MCVisuals`, in which the parts stand side by side, implements each part's
own specification, so that what is proved of a part holds of the page (of the focus, whose
fairness is the page's, `MoonsOfOwner`). `PageTypes`, the types of all variables, needs
one fact more than types: each release of the depth of field that is counted had a click
before it (`FocusCounts`). `PageKeepsPromises` draws the sum: the page keeps what its parts
promise. `CameraArrives`: the tween goes to the focus of the last commit and a release that
is counted has its timer (`CameraInv`), so that where no commit, tween, timer or frame is
due any more, the camera, the satellites and the depth of field agree on the focus.

`FiniteSums` has what these need of induction: a set of natural numbers has a least
element, a family of finite sets a smallest. From it follow, for functions and sets in
place of the operators that the library's theorems of induction have for parameters and
that cannot be used here: that a recursive function over the numbers up to n, or over
the subsets of a finite set, exists (`RecursionExists`, `SubsetRecursion`) and is what
its definition says; that what holds at 0 and is handed on holds up to n (`UpTo`); and that a
finite set in order has a last element (`LastOfOrder`). With them the sum of a function
over a finite set (`MapThenSumSet`), the climb to a root, the server's part of a queue,
the placing of names and of orbits and the pool's additions are reasoned about step by step.

Assumed: the `ASSUME`s on constants, which TLC evaluates (pids, edges, names and
bodies are finite sets, as lists of processes are; the dead band is not 0); that Boost.Asio, Beast, React, browsers and
Windows behave as their actions (marked external in the map) say.
`SetConsoleCtrlHandler` is taken to wait for a handler that is running.

Only model-checked. Liveness and everything under fairness, which the provers do not
reason about: `BroadcastDelivered`, `StopDrains`, `ShutdownCompletes`, `Recovers`,
`DestructorEnds`, `Settles`. What they need of every state is proved, as far as it is
a matter of safety; what is left to TLC is that the steps are taken. For `Settles`,
`Recovers`, `StopDrains` and `ShutdownCompletes` that is what rest looks like and that
nobody waits for what need not come: `CameraArrives`, `RestShowsNewest`,
`StopNeedsNoClient`, `ShutdownNeedsNobody`. For `BroadcastDelivered` it is that what is open
or posted has an operation outstanding (`NoLeak`); for `Recovers` also that a mounted page
is at no dead end (`ConnectionKept`).
The findings, as counterexamples.

## Not modelled

Functions of their input, without state, whose order of calls is in the modules
above: decoding of ETW records and of addresses, the Windows readers and the scan
(calls that read tables), the estimate of flows (floating point), ranking and
truncation of the network's view (`NetworkSnapshot.cpp`), sums and rates of
`NetworkAggregator.cpp`, JSON, static files, the command line and the printed
tables. Positions, angles, poses, colours, curves and shaders are floating-point
drawing: no property here tells two of them apart. Panels and tables of the
dashboard and the shell render what they are given.

## Plan

Every safety property that a run checks is proved; liveness stays with TLC. What is left
to model are the sums and rates of `NetworkAggregator.cpp` and the length of a window in
seconds. Two hazards have no property, though their steps are modelled. A thread's number
used again while a slice of its former thread is under way (`RunTimeTable.cpp:18`): the
slice is credited to the new thread's process, as `pidOf` asks the table first. A pid used
again whose counter is not below its predecessor's (`CpuDelta.cpp:13`): the share spans
two processes for a sample, as said above. What should hold there is for the contract to say.
