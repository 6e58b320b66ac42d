------------------------------ MODULE ServeApp ------------------------------
(***************************************************************************)
(* runServe (engine/src/app/ServeApp.cpp): the life of one engine process. *)
(* The main thread sets up and runs the io_context, the sampler thread     *)
(* runs EngineLoop and broadcasts, Ctrl+C stops both.  The server and its  *)
(* queue are those of WebSocketServer; the application posts two tasks of  *)
(* its own, the signal handler and the cancellation of its wait.           *)
(***************************************************************************)
EXTENDS WebSocketServer

CONSTANT Limits \* EngineLoopConfig::iterations of the runs that have a limit

VARIABLES main,     \* where the main thread is in runServe
          sampler,  \* where the sampler thread is
          stopRequested, \* EngineLoop::stop_requested_
          failed,   \* EngineLoop::error_ is not empty
          signal,   \* the signal_set's wait: unarmed, armed, queued, over
          exitCode, \* ServeResult::exit_code
          early     \* connections made before setHello was posted

threadVars == <<main, sampler, stopRequested, failed, signal, exitCode>>
appVars    == <<threadVars, early>>
serveVars  == <<serverVars, appVars>>

SignalTask == [kind |-> "signal"]
CancelTask == [kind |-> "cancel"]

NoExit == -1

----------------------------------------------------------------------------
(* The main thread.                                                        *)

\* The server's constructor throws: the port is taken.
BindFails ==
    /\ main = "bind"
    /\ main' = "done"
    /\ exitCode' = 2
    /\ UNCHANGED <<serverVars, sampler, stopRequested, failed, signal, early>>

\* The constructor listens and starts accepting; on_listening is called.
Bind ==
    /\ main = "bind"
    /\ main' = "hello"
    /\ UNCHANGED <<serverVars, sampler, stopRequested, failed, signal,
                   exitCode, early>>

PostHello ==
    /\ main = "hello"
    /\ SetHello
    /\ main' = "spawn"
    /\ UNCHANGED <<sampler, stopRequested, failed, signal, exitCode, early>>

\* signal_set::async_wait, then the sampler thread.
Spawn ==
    /\ main = "spawn"
    /\ main' = "run"
    /\ sampler' = "check"
    /\ signal' = "armed"
    /\ UNCHANGED <<serverVars, stopRequested, failed, exitCode, early>>

\* Mutant: the sampler ends with ioc.stop(), which leaves queued work behind.
NoWorkAfterIocStop == sampler = "done"

\* io_context::run() returns when no work is left; loop.stop() follows.
NoWork ==
    /\ queue = <<>>
    /\ ~accepting
    /\ signal \in {"unarmed", "over"}
    /\ \A c \in Connections : ~Busy(ses[c])

RunReturns ==
    /\ main = "run"
    /\ NoWork
    /\ main' = "join"
    /\ stopRequested' = TRUE
    /\ UNCHANGED <<serverVars, sampler, failed, signal, exitCode, early>>

\* sampler.join(), then loop.error() decides the exit code.
Join ==
    /\ main = "join"
    /\ sampler = "done"
    /\ main' = "done"
    /\ exitCode' = IF failed THEN 1 ELSE 0
    /\ UNCHANGED <<serverVars, sampler, stopRequested, failed, signal, early>>

----------------------------------------------------------------------------
(* The sampler thread: EngineLoop::run, then the end of the server.        *)

\* The head of the loop reads stop_requested_.
CheckStop ==
    /\ sampler = "check"
    /\ sampler' = IF stopRequested THEN "stop" ELSE "sample"
    /\ UNCHANGED <<serverVars, main, stopRequested, failed, signal, exitCode,
                   early>>

\* A sample is taken and its snapshot broadcast; the last one ends the loop.
\* Whether this run has a limit shows only here.
Sample ==
    /\ sampler = "sample"
    /\ Broadcast
    /\ \/ posted'.frames \in Limits /\ sampler' = "stop"
       \/ sampler' = "check"
    /\ UNCHANGED <<main, stopRequested, failed, signal, exitCode, early>>

\* The bound on snapshots reached without a limit: the loop keeps running
\* and its further samples are left out.
SampleIdle ==
    /\ sampler = "sample"
    /\ posted.frames = MaxBroadcasts
    /\ sampler' = "check"
    /\ UNCHANGED <<serverVars, main, stopRequested, failed, signal, exitCode,
                   early>>

\* Drain, read, aggregate or scan threw: run() keeps the message and returns.
SampleThrows ==
    /\ sampler = "sample"
    /\ failed' = TRUE
    /\ sampler' = "stop"
    /\ UNCHANGED <<serverVars, main, stopRequested, signal, exitCode, early>>

PostStop ==
    /\ sampler = "stop"
    /\ Stop
    /\ sampler' = "cancel"
    /\ UNCHANGED <<main, stopRequested, failed, signal, exitCode, early>>

\* Mutant: the sampler does not cancel the wait for signals.
PostNoCancel ==
    /\ sampler = "cancel"
    /\ sampler' = "done"
    /\ UNCHANGED <<serverVars, main, stopRequested, failed, signal, exitCode,
                   early>>

PostCancel ==
    /\ sampler = "cancel"
    /\ queue' = Append(queue, CancelTask)
    /\ sampler' = "done"
    /\ UNCHANGED <<accepting, sessions, ses, hello, latest, stopped, posted,
                   main, stopRequested, failed, signal, exitCode, early>>

----------------------------------------------------------------------------
(* The io_context, driven by the main thread.                              *)

\* Ctrl+C completes the wait.
CtrlC ==
    /\ signal = "armed"
    /\ signal' = "queued"
    /\ queue' = Append(queue, SignalTask)
    /\ UNCHANGED <<accepting, sessions, ses, hello, latest, stopped, posted,
                   main, sampler, stopRequested, failed, exitCode, early>>

\* Mutant: the signal handler stops the server itself, past posted tasks.
HandleSignalInline ==
    /\ main = "run"
    /\ Ready("signal")
    /\ signal' = "over"
    /\ stopRequested' = TRUE
    /\ queue' = Tail(queue)
    /\ stopped' = TRUE
    /\ accepting' = FALSE
    /\ sessions' = {}
    /\ ses' = [c \in Connections |->
                  IF c \in sessions THEN Close(ses[c]) ELSE ses[c]]
    /\ UNCHANGED <<hello, latest, posted, main, sampler, failed, exitCode, early>>

\* The wait's handler ignores the error code: it also runs when cancelled.
HandleSignal ==
    /\ main = "run"
    /\ Ready("signal")
    /\ signal' = "over"
    /\ stopRequested' = TRUE
    /\ queue' = Append(Tail(queue), StopTask)
    /\ posted' = [posted EXCEPT !.stops = @ + 1]
    /\ UNCHANGED <<accepting, sessions, ses, hello, latest, stopped,
                   main, sampler, failed, exitCode, early>>

\* signals.cancel() aborts a wait that is still outstanding.
HandleCancel ==
    /\ main = "run"
    /\ Ready("cancel")
    /\ IF signal = "armed"
       THEN /\ signal' = "queued"
            /\ queue' = Append(Tail(queue), SignalTask)
       ELSE /\ queue' = Tail(queue)
            /\ UNCHANGED signal
    /\ UNCHANGED <<accepting, sessions, ses, hello, latest, stopped, posted,
                   main, sampler, stopRequested, failed, exitCode, early>>

IoStep ==
    /\ main = "run"
    /\ Handlers \/ \E c \in Connections : Completion(c)
    /\ UNCHANGED appVars

\* Clients connect as soon as the acceptor listens.
ClientConnects(c) ==
    /\ main \in {"hello", "spawn", "run"}
    /\ Connect(c)
    /\ early' = IF posted.hello THEN early ELSE early \cup {c}
    /\ UNCHANGED threadVars

\* The process has ended.
Terminated == main = "done" /\ UNCHANGED serveVars

----------------------------------------------------------------------------
ServeInit ==
    /\ Init
    /\ main = "bind"
    /\ sampler = "unborn"
    /\ stopRequested = FALSE
    /\ failed = FALSE
    /\ signal = "unarmed"
    /\ exitCode = NoExit
    /\ early = {}

MainStep    == BindFails \/ Bind \/ PostHello \/ Spawn \/ RunReturns \/ Join
SamplerStep == \/ CheckStop \/ Sample \/ SampleIdle \/ SampleThrows
               \/ PostStop \/ PostCancel

ServeNext ==
    \/ MainStep
    \/ SamplerStep
    \/ CtrlC \/ HandleSignal \/ HandleCancel
    \/ IoStep
    \/ \E c \in Connections : ClientConnects(c)
    \/ Terminated

ServeSpec == ServeInit /\ [][ServeNext]_serveVars

(***************************************************************************)
(* Threads run; the io_context takes every handler and the operations of a *)
(* session end as in WebSocketServer.  Nobody has to press Ctrl+C.         *)
(***************************************************************************)
ServeFairness ==
    /\ WF_serveVars(MainStep)
    /\ WF_serveVars(SamplerStep)
    /\ WF_serveVars(HandleSignal \/ HandleCancel \/ (IoStep /\ Handlers))
    /\ \A c \in Connections :
         /\ WF_serveVars(IoStep /\ (UpgradeDone(c) \/ UpgradeFailed(c)))
         /\ WF_serveVars(IoStep /\ (WriteDone(c) \/ WriteError(c)))
         /\ WF_serveVars(IoStep /\ CloseDone(c))
         /\ WF_serveVars(IoStep /\ ClosedSocketFails(c))

FairServeSpec == ServeSpec /\ ServeFairness

----------------------------------------------------------------------------
(***************************************************************************)
(* ServeApp.cpp:88-91 - run() returns only after the session cleanup that  *)
(* stop() posted has been executed: no session is left open, half closed   *)
(* or mid-handshake when the main thread goes on to destroy the server.    *)
(***************************************************************************)
CleanedUpBeforeReturn ==
    main = "join" \/ (main = "done" /\ exitCode # 2)
        => /\ stopped
           /\ sessions = {}
           /\ \A c \in Connections : ~Busy(ses[c]) /\ ~ses[c].open

(***************************************************************************)
(* WebSocketServer.h:31, for connections made once setHello has been       *)
(* called: posting hello before a connection completes is enough for it to *)
(* receive hello before any snapshot.                                      *)
(***************************************************************************)
HelloFirstOnceSet ==
    \A c \in Connections \ early : ses[c].last > Hello => ses[c].greeted

(***************************************************************************)
(* ServeApp.cpp:103-106 - an orderly return: the cleanup is done, and the  *)
(* error is read after the join, so that a sampling failure at any moment, *)
(* a shutdown under way included, ends in code 1.                          *)
(***************************************************************************)
ReturnsOrderly ==
    /\ CleanedUpBeforeReturn
    /\ main = "done" /\ exitCode # 2 => (exitCode = 1 <=> failed)

(***************************************************************************)
(* The process ends: after Ctrl+C, after the last sample or a failed one,  *)
(* whatever the clients do.                                                *)
(***************************************************************************)
ShutdownCompletes ==
    (signal = "queued" \/ sampler \in {"stop", "cancel"}) ~> (main = "done")

(***************************************************************************)
(* runServe uses the server within its interface: seen through its own     *)
(* tasks of the queue the server behaves as WebSocketServer specifies.     *)
(***************************************************************************)
IsServerTask(t) == t.kind \notin {"signal", "cancel"}

\* SelectSeq(q, IsServerTask), which the provers have no definition of.
ServerTasks(q) ==
    LET taken[n \in 0..Len(q)] ==
            IF n = 0 THEN <<>>
            ELSE IF IsServerTask(q[n]) THEN Append(taken[n - 1], q[n]) ELSE taken[n - 1]
    IN  taken[Len(q)]

Server == INSTANCE WebSocketServer WITH queue <- ServerTasks(queue)

ImplementsServer == Server!Spec
=============================================================================
