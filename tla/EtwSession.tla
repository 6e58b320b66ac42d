----------------------------- MODULE EtwSession -----------------------------
(***************************************************************************)
(* The life of an ETW collector (engine/src/platform/windows/              *)
(* EtwSchedulerCollector.cpp and EtwNetworkCollector.cpp, the same code    *)
(* but for one call) and of its console handler (engine/src/main.cpp), in  *)
(* several engine processes on one machine.  They meet in the kernel: one  *)
(* trace session of that name, and one named mutex that exists while any   *)
(* process has a handle of it.                                             *)
(***************************************************************************)
EXTENDS Naturals

CONSTANTS Engines,    \* processes; an ended one may be launched again
          Admins,     \* those with administrator rights
          None,       \* no session
          Network     \* the network collector, or else the scheduler's

ASSUME SessionAssumption ==
    /\ Admins \subseteq Engines /\ None \notin Engines /\ Network \in BOOLEAN

VARIABLES pc,       \* of each engine's main thread, "off" without a process
          session,  \* kernel: the engine that started the trace session
          handler,  \* kernel: the console handler is registered
          ctrl,     \* the thread that runs the console handler
          consumer, \* thread_, in ProcessTrace while "running"
          running,  \* running_
          left      \* history: the session's engine died without the handler

vars == <<pc, session, handler, ctrl, consumer, running, left>>

\* Between StartTrace and the end of the destructor's ControlTrace.
Using == {"enable", "open", "spawn", "register", "work", "unregister", "stop"}

\* From the creation of the mutex until the end of the destructor.
Owning == Using \cup {"stopOld", "startTrace", "closeTrace", "join", "closeMutex"}

\* The processes that have a handle of the mutex, as an owner or to look.
Handles == {e \in Engines : pc[e] \in Owning \cup {"look"}}

At(e, from, to) == pc[e] = from /\ pc' = [pc EXCEPT ![e] = to]

Init ==
    /\ pc = [e \in Engines |-> "off"]
    /\ session = None
    /\ handler = [e \in Engines |-> FALSE]
    /\ ctrl = [e \in Engines |-> "none"]
    /\ consumer = [e \in Engines |-> "none"]
    /\ running = [e \in Engines |-> FALSE]
    /\ left = FALSE

----------------------------------------------------------------------------
Launch(e) ==
    /\ At(e, "off", "create")
    /\ UNCHANGED <<session, handler, ctrl, consumer, running, left>>

\* CreateMutexW may fail, as for a mutex of an engine with more rights.
CreateMutex(e) ==
    /\ pc[e] = "create"
    /\ \E to \in {"plain", IF Handles = {} THEN "stopOld" ELSE "look"} :
          pc' = [pc EXCEPT ![e] = to]
    /\ UNCHANGED <<session, handler, ctrl, consumer, running, left>>

\* ERROR_ALREADY_EXISTS: the engine goes on without a collector.
CloseLook(e) ==
    /\ At(e, "look", "plain")
    /\ UNCHANGED <<session, handler, ctrl, consumer, running, left>>

\* stopSessionByName(), of whatever engine the session is.
StopByName(e) ==
    IF e \in Admins THEN session' = None /\ left' = FALSE
    ELSE UNCHANGED <<session, left>>

\* Mutant: what an earlier run left is not cleared.
StopOldSkipped(e) ==
    /\ At(e, "stopOld", "startTrace")
    /\ UNCHANGED <<session, left, handler, ctrl, consumer, running>>

StopOld(e) ==
    /\ At(e, "stopOld", "startTrace")
    /\ StopByName(e)
    /\ UNCHANGED <<handler, ctrl, consumer, running>>

StartTrace(e) ==
    /\ e \in Admins /\ session = None
    /\ At(e, "startTrace", IF Network THEN "enable" ELSE "open")
    /\ session' = e
    /\ UNCHANGED <<handler, ctrl, consumer, running, left>>

\* Without rights, with a session still there, or for another reason; the
\* destructor has only the mutex to close.
StartTraceFails(e) ==
    /\ At(e, "startTrace", "closeMutex")
    /\ UNCHANGED <<session, handler, ctrl, consumer, running, left>>

EnableTrace(e) ==
    /\ pc[e] = "enable"
    /\ \E to \in {"open", "stop"} : pc' = [pc EXCEPT ![e] = to]
    /\ UNCHANGED <<session, handler, ctrl, consumer, running, left>>

OpenTrace(e) ==
    /\ pc[e] = "open"
    /\ \E to \in {"spawn", "stop"} : pc' = [pc EXCEPT ![e] = to]
    /\ UNCHANGED <<session, handler, ctrl, consumer, running, left>>

Spawn(e) ==
    /\ At(e, "spawn", "register")
    /\ consumer' = [consumer EXCEPT ![e] = "running"]
    /\ running' = [running EXCEPT ![e] = TRUE]
    /\ UNCHANGED <<session, handler, ctrl, left>>

\* ProcessTrace returns when the session stops, when CloseTrace is called,
\* or with an error.
ConsumerEnds(e) ==
    /\ consumer[e] = "running"
    /\ consumer' = [consumer EXCEPT ![e] = "ended"]
    /\ running' = [running EXCEPT ![e] = FALSE]
    /\ UNCHANGED <<pc, session, handler, ctrl, left>>

\* SetConsoleCtrlHandler waits for a handler that is running.
Register(e) ==
    /\ ctrl[e] = "none"
    /\ At(e, "register", "work")
    /\ handler' = [handler EXCEPT ![e] = TRUE]
    /\ UNCHANGED <<session, ctrl, consumer, running, left>>

\* runServe, runDump, runJson or runConnections returns.
Finish(e) ==
    /\ At(e, "work", IF Network THEN "unregister" ELSE "stop")
    /\ UNCHANGED <<session, handler, ctrl, consumer, running, left>>

\* Mutant: the handler is left registered.
UnregisterNot(e) ==
    /\ At(e, "unregister", "stop")
    /\ UNCHANGED <<session, handler, ctrl, consumer, running, left>>

Unregister(e) ==
    /\ ctrl[e] = "none"
    /\ At(e, "unregister", "stop")
    /\ handler' = [handler EXCEPT ![e] = FALSE]
    /\ UNCHANGED <<session, ctrl, consumer, running, left>>

\* Mutant: the consumer is joined before its session is stopped.
StopAfterJoin(e) ==
    /\ consumer[e] # "running"
    /\ At(e, "stop", "closeTrace")
    /\ session' = IF session = e THEN None ELSE session
    /\ UNCHANGED <<handler, ctrl, consumer, running, left>>

\* The destructor stops its own session, by its handle.
Stop(e) ==
    /\ At(e, "stop", "closeTrace")
    /\ session' = IF session = e THEN None ELSE session
    /\ UNCHANGED <<handler, ctrl, consumer, running, left>>

CloseTrace(e) ==
    /\ At(e, "closeTrace", "join")
    /\ UNCHANGED <<session, handler, ctrl, consumer, running, left>>

Join(e) ==
    /\ consumer[e] # "running"
    /\ At(e, "join", "closeMutex")
    /\ UNCHANGED <<session, handler, ctrl, consumer, running, left>>

CloseMutex(e) ==
    /\ At(e, "closeMutex", "plain")
    /\ UNCHANGED <<session, handler, ctrl, consumer, running, left>>

----------------------------------------------------------------------------
\* The process is gone, and its handles with it; the session stays.
Gone(e) ==
    /\ pc' = [pc EXCEPT ![e] = "off"]
    /\ handler' = [handler EXCEPT ![e] = FALSE]
    /\ ctrl' = [ctrl EXCEPT ![e] = "none"]
    /\ consumer' = [consumer EXCEPT ![e] = "none"]
    /\ running' = [running EXCEPT ![e] = FALSE]

\* main returns; until then the process goes on without a collector.
Exit(e) ==
    /\ pc[e] = "plain"
    /\ Gone(e)
    /\ UNCHANGED <<session, left>>

\* TerminateProcess, a crash, or a console event with no handler.
Kill(e) ==
    /\ pc[e] # "off"
    /\ Gone(e)
    /\ left' = (left \/ (session = e /\ pc[e] \in Using))
    /\ UNCHANGED session

\* Ctrl+C, Ctrl+Break or the end of the console, on a thread of its own.
ConsoleEvent(e) ==
    /\ handler[e] /\ ctrl[e] = "none"
    /\ ctrl' = [ctrl EXCEPT ![e] = "stopping"]
    /\ UNCHANGED <<pc, session, handler, consumer, running, left>>

\* Mutant: the handler returns without stopping the session.
ControlNot(e) ==
    /\ ctrl[e] = "stopping"
    /\ ctrl' = [ctrl EXCEPT ![e] = "returned"]
    /\ UNCHANGED <<session, left, pc, handler, consumer, running>>

\* onConsoleControl, onNetworkConsoleControl
Control(e) ==
    /\ ctrl[e] = "stopping"
    /\ StopByName(e)
    /\ ctrl' = [ctrl EXCEPT ![e] = "returned"]
    /\ UNCHANGED <<pc, handler, consumer, running>>

\* The default handler comes next and ends the process.
DefaultHandler(e) ==
    /\ ctrl[e] = "returned"
    /\ Gone(e)
    /\ UNCHANGED <<session, left>>

MainStep(e) ==
    \/ CreateMutex(e) \/ CloseLook(e) \/ StopOld(e) \/ StartTrace(e) \/ StartTraceFails(e)
    \/ EnableTrace(e) \/ OpenTrace(e) \/ Spawn(e) \/ Register(e) \/ Unregister(e)
    \/ Stop(e) \/ CloseTrace(e) \/ Join(e) \/ CloseMutex(e)

Next == \E e \in Engines :
    \/ Launch(e) \/ MainStep(e) \/ ConsumerEnds(e) \/ Finish(e) \/ Exit(e) \/ Kill(e)
    \/ ConsoleEvent(e) \/ Control(e) \/ DefaultHandler(e)

Spec == Init /\ [][Next]_vars

(***************************************************************************)
(* A thread that can go on does.  ProcessTrace returns once its session is *)
(* stopped or its handle closed; nothing makes an engine finish or die.    *)
(***************************************************************************)
FairSpec ==
    /\ Spec
    /\ \A e \in Engines :
          /\ WF_vars(MainStep(e))
          /\ WF_vars(ConsumerEnds(e) /\ (session # e \/ pc[e] = "join"))
          /\ WF_vars(Control(e)) /\ WF_vars(DefaultHandler(e))

----------------------------------------------------------------------------
\* Each engine is at a place of its code, and the threads it has fit it.
TypeOK ==
    /\ pc \in [Engines -> Owning \cup {"off", "create", "look", "plain"}]
    /\ session \in Engines \cup {None}
    /\ handler \in [Engines -> BOOLEAN]
    /\ ctrl \in [Engines -> {"none", "stopping", "returned"}]
    /\ consumer \in [Engines -> {"none", "running", "ended"}]
    /\ running \in [Engines -> BOOLEAN]
    /\ left \in BOOLEAN
    /\ \A e \in Engines : pc[e] \in {"plain", "off"} => consumer[e] # "running"

(***************************************************************************)
(* EtwNetworkCollector.cpp:39 - a live engine's session is not stopped by  *)
(* another: it is there from StartTrace to the destructor, unless the      *)
(* engine's own console handler has run.                                   *)
(***************************************************************************)
LiveSessionKept ==
    \A e \in Engines : pc[e] \in Using /\ ctrl[e] # "returned" => session = e

(***************************************************************************)
(* EtwSchedulerCollector.cpp:148-149 - what a dead engine left is stopped  *)
(* before the name is used again: an administrator's StartTrace never      *)
(* finds a session there.                                                  *)
(***************************************************************************)
FreshStart ==
    \A e \in Admins : pc[e] = "startTrace" => session = None

(***************************************************************************)
(* main.cpp:60-63, EtwSchedulerCollector.h:42-43 - the kernel keeps        *)
(* collecting for nobody only when an engine died without the handler: not *)
(* after a return, nor a Ctrl+C; and drain() takes windows from a live     *)
(* consumer only.                                                          *)
(***************************************************************************)
NoLeftover ==
    /\ session # None /\ ~left => pc[session] \in Using
    /\ \A e \in Engines : running[e] => consumer[e] = "running"

(***************************************************************************)
(* The destructor gets to its end: the consumer's thread is not waited for *)
(* in vain.                                                                *)
(***************************************************************************)
DestructorEnds ==
    \A e \in Engines : pc[e] = "stop" ~> pc[e] \in {"plain", "off"}

=============================================================================
