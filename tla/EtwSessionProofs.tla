-------------------------- MODULE EtwSessionProofs --------------------------
(***************************************************************************)
(* However many engines start, end, crash and are interrupted, the network *)
(* collectors never stop each other's session, and neither collector finds *)
(* the name taken by a session that a dead engine left.                    *)
(***************************************************************************)
EXTENDS EtwSession, TLAPS

\* The mutex has one owner at most.
OneOwner ==
    \A e, f \in Engines : pc[e] \in Owning /\ pc[f] \in Owning => e = f

(***************************************************************************)
(* Why a network collector's handler stops its own session only: it is     *)
(* registered while the engine still owns the mutex, and Unregister waits  *)
(* for a handler that is running.                                          *)
(***************************************************************************)
HandlerOwns ==
    \A e \in Engines :
        /\ ctrl[e] # "none" => handler[e]
        /\ Network /\ handler[e] => pc[e] \in {"work", "unregister"}

PlaceOK ==
    /\ pc \in [Engines -> Owning \cup {"off", "create", "look", "plain"}]
    /\ session \in Engines \cup {None}
    /\ handler \in [Engines -> BOOLEAN]
    /\ ctrl \in [Engines -> {"none", "stopping", "returned"}]

Inv == PlaceOK /\ OneOwner /\ FreshStart

NetInv == Inv /\ HandlerOwns /\ LiveSessionKept

Places == Owning \cup {"off", "create", "look", "plain"}

----------------------------------------------------------------------------
\* A step of one engine from one place of its code to another leaves the
\* places of the others alone.
LEMMA AtStep ==
    ASSUME PlaceOK, NEW e \in Engines, NEW from, NEW to \in Places, At(e, from, to)
    PROVE  /\ pc' \in [Engines -> Places]
           /\ pc[e] = from /\ pc'[e] = to
           /\ \A f \in Engines : f # e => pc'[f] = pc[f]
BY DEF PlaceOK, Places, At

\* The steps that neither acquire the mutex nor touch the session.
LEMMA QuietStep ==
    ASSUME Inv, NEW e \in Engines,
           pc' \in [Engines -> Places],
           \A f \in Engines : f # e => pc'[f] = pc[f],
           pc'[e] \in Owning => pc[e] \in Owning,
           pc'[e] = "startTrace" => pc[e] = "startTrace",
           handler' \in [Engines -> BOOLEAN],
           ctrl' \in [Engines -> {"none", "stopping", "returned"}],
           session' = session
    PROVE  Inv'
<1>1. PlaceOK'
  BY DEF Inv, PlaceOK, Places
<1>2. \A f \in Engines : pc'[f] \in Owning => pc[f] \in Owning
  OBVIOUS
<1>3. OneOwner'
  BY <1>2 DEF Inv, OneOwner
<1>4. FreshStart'
  BY SessionAssumption DEF Inv, FreshStart
<1> QED
  BY <1>1, <1>3, <1>4 DEF Inv

\* The steps of an engine's owner that touch the session.
LEMMA OwnerStep ==
    ASSUME Inv, NEW e \in Engines, pc[e] \in Owning,
           pc' \in [Engines -> Places],
           \A f \in Engines : f # e => pc'[f] = pc[f],
           pc'[e] = "startTrace" /\ e \in Admins => session' = None,
           session' \in Engines \cup {None},
           handler' = handler, ctrl' \in [Engines -> {"none", "stopping", "returned"}]
    PROVE  Inv'
<1>1. PlaceOK'
  BY DEF Inv, PlaceOK, Places
<1>2. \A f \in Engines : pc'[f] \in Owning => pc[f] \in Owning
  OBVIOUS
<1>3. OneOwner'
  BY <1>2 DEF Inv, OneOwner
<1>4. FreshStart'
  <2> SUFFICES ASSUME NEW f \in Admins, pc'[f] = "startTrace" PROVE session' = None
    BY DEF FreshStart
  <2>1. f \in Engines /\ pc'[f] \in Owning
    BY SessionAssumption DEF Owning
  <2>2. f = e
    BY <1>2, <2>1 DEF Inv, OneOwner
  <2> QED
    BY <2>2
<1> QED
  BY <1>1, <1>3, <1>4 DEF Inv

\* Initially no engine runs.
LEMMA InitInv == Init => NetInv
<1> SUFFICES ASSUME Init PROVE NetInv
  OBVIOUS
<1>1. \A e \in Engines : pc[e] = "off" /\ ~handler[e] /\ ctrl[e] = "none"
  BY DEF Init
<1>2. PlaceOK
  BY DEF Init, PlaceOK
<1>3. \A e \in Engines : pc[e] \notin Owning
  BY <1>1 DEF Owning, Using
<1>4. OneOwner /\ LiveSessionKept
  BY <1>3 DEF OneOwner, LiveSessionKept, Owning
<1>5. FreshStart
  BY DEF Init, FreshStart
<1>6. HandlerOwns
  BY <1>1 DEF HandlerOwns
<1> QED
  BY <1>2, <1>4, <1>5, <1>6 DEF NetInv, Inv

\* Acquiring the mutex: nobody has a handle, so nobody owns it.
LEMMA CreateMutexInv ==
    ASSUME Inv, NEW e \in Engines, CreateMutex(e)
    PROVE  Inv'
<1>1. PICK to \in {"plain", IF Handles = {} THEN "stopOld" ELSE "look"} :
         pc' = [pc EXCEPT ![e] = to]
  BY DEF CreateMutex
<1>2. /\ to \in Places
      /\ pc' \in [Engines -> Places]
      /\ pc'[e] = to
      /\ \A f \in Engines : f # e => pc'[f] = pc[f]
      /\ session' = session /\ handler' = handler /\ ctrl' = ctrl
  BY <1>1 DEF Inv, PlaceOK, Places, Owning, CreateMutex
<1>3. PlaceOK'
  BY <1>2 DEF Inv, PlaceOK, Places
<1>4. to # "stopOld" => to \notin Owning
  BY <1>1 DEF Owning, Using
<1>5. to = "stopOld" => \A f \in Engines : pc[f] \notin Owning
  BY <1>1 DEF Handles
<1>6. OneOwner'
  BY <1>2, <1>4, <1>5 DEF Inv, OneOwner
<1>7. FreshStart'
  <2> SUFFICES ASSUME NEW f \in Admins, pc'[f] = "startTrace" PROVE session' = None
    BY DEF FreshStart
  <2>1. f \in Engines /\ f # e
    BY <1>1, <1>2, SessionAssumption
  <2> QED
    BY <1>2, <2>1 DEF Inv, FreshStart
<1> QED
  BY <1>3, <1>6, <1>7 DEF Inv

\* Every step but the console handler's keeps the mutex and the start apart.
LEMMA StepInv ==
    ASSUME Inv, NEW e \in Engines,
           \/ Launch(e) \/ MainStep(e) \/ ConsumerEnds(e) \/ Finish(e) \/ Exit(e)
           \/ Kill(e) \/ ConsoleEvent(e) \/ Control(e) \/ DefaultHandler(e)
    PROVE  Inv'
<1> USE DEF Places, Owning, Using
<1>0. PlaceOK /\ handler \in [Engines -> BOOLEAN]
      /\ ctrl \in [Engines -> {"none", "stopping", "returned"}]
      /\ session \in Engines \cup {None} /\ pc \in [Engines -> Places]
  BY DEF Inv, PlaceOK
<1>1. CASE Launch(e)
  BY <1>0, <1>1, AtStep, QuietStep DEF Launch
<1>2. CASE CreateMutex(e)
  BY <1>2, CreateMutexInv
<1>3. CASE CloseLook(e)
  BY <1>0, <1>3, AtStep, QuietStep DEF CloseLook
<1>4. CASE StopOld(e)
  <2>1. At(e, "stopOld", "startTrace") /\ handler' = handler /\ ctrl' = ctrl
    BY <1>4 DEF StopOld
  <2>2. (e \in Admins => session' = None) /\ session' \in Engines \cup {None}
    BY <1>0, <1>4 DEF StopOld, StopByName
  <2> QED
    BY <1>0, <2>1, <2>2, AtStep, OwnerStep
<1>5. CASE StartTrace(e)
  <2>1. CASE Network
    BY <1>0, <1>5, <2>1, AtStep, OwnerStep DEF StartTrace
  <2>2. CASE ~Network
    BY <1>0, <1>5, <2>2, AtStep, OwnerStep DEF StartTrace
  <2> QED
    BY <2>1, <2>2
<1>6. CASE StartTraceFails(e)
  BY <1>0, <1>6, AtStep, QuietStep DEF StartTraceFails
<1>7. CASE EnableTrace(e)
  <2>1. PICK to \in {"open", "stop"} : pc' = [pc EXCEPT ![e] = to]
    BY <1>7 DEF EnableTrace
  <2>2. At(e, "enable", to) /\ to \in Places
    BY <1>7, <2>1 DEF EnableTrace, At
  <2> QED
    BY <1>0, <1>7, <2>1, <2>2, AtStep, QuietStep DEF EnableTrace
<1>8. CASE OpenTrace(e)
  <2>1. PICK to \in {"spawn", "stop"} : pc' = [pc EXCEPT ![e] = to]
    BY <1>8 DEF OpenTrace
  <2>2. At(e, "open", to) /\ to \in Places
    BY <1>8, <2>1 DEF OpenTrace, At
  <2> QED
    BY <1>0, <1>8, <2>1, <2>2, AtStep, QuietStep DEF OpenTrace
<1>9. CASE Spawn(e)
  BY <1>0, <1>9, AtStep, QuietStep DEF Spawn
<1>10. CASE Register(e)
  <2>1. handler' \in [Engines -> BOOLEAN]
    BY <1>0, <1>10 DEF Register
  <2> QED
    BY <1>0, <1>10, <2>1, AtStep, QuietStep DEF Register
<1>11. CASE Unregister(e)
  <2>1. handler' \in [Engines -> BOOLEAN]
    BY <1>0, <1>11 DEF Unregister
  <2> QED
    BY <1>0, <1>11, <2>1, AtStep, QuietStep DEF Unregister
<1>12. CASE Stop(e)
  <2>1. session' \in Engines \cup {None}
    BY <1>0, <1>12 DEF Stop
  <2> QED
    BY <1>0, <1>12, <2>1, AtStep, OwnerStep DEF Stop
<1>13. CASE CloseTrace(e)
  BY <1>0, <1>13, AtStep, QuietStep DEF CloseTrace
<1>14. CASE Join(e)
  BY <1>0, <1>14, AtStep, QuietStep DEF Join
<1>15. CASE CloseMutex(e)
  BY <1>0, <1>15, AtStep, QuietStep DEF CloseMutex
<1>16. CASE ConsumerEnds(e)
  BY <1>0, <1>16, QuietStep DEF ConsumerEnds
<1>17. CASE Finish(e)
  <2>1. CASE Network
    BY <1>0, <1>17, <2>1, AtStep, QuietStep DEF Finish
  <2>2. CASE ~Network
    BY <1>0, <1>17, <2>2, AtStep, QuietStep DEF Finish
  <2> QED
    BY <2>1, <2>2
<1>18. CASE Gone(e) /\ session' = session
  <2>1. /\ handler' \in [Engines -> BOOLEAN]
        /\ ctrl' \in [Engines -> {"none", "stopping", "returned"}]
        /\ pc' \in [Engines -> Places] /\ pc'[e] = "off"
        /\ \A f \in Engines : f # e => pc'[f] = pc[f]
    BY <1>0, <1>18 DEF Gone
  <2> QED
    BY <1>18, <2>1, QuietStep
<1>19. CASE Exit(e)
  BY <1>18, <1>19 DEF Exit
<1>20. CASE Kill(e)
  BY <1>18, <1>20 DEF Kill
<1>21. CASE ConsoleEvent(e)
  <2>1. ctrl' \in [Engines -> {"none", "stopping", "returned"}]
    BY <1>0, <1>21 DEF ConsoleEvent
  <2> QED
    BY <1>0, <1>21, <2>1, QuietStep DEF ConsoleEvent
<1>22. CASE Control(e)
  <2>1. /\ pc' = pc /\ handler' = handler
        /\ ctrl' \in [Engines -> {"none", "stopping", "returned"}]
        /\ session' = None \/ session' = session
    BY <1>0, <1>22 DEF Control, StopByName
  <2>2. PlaceOK' /\ OneOwner'
    BY <1>0, <2>1 DEF PlaceOK, Inv, OneOwner
  <2>3. FreshStart'
    BY <2>1 DEF Inv, FreshStart
  <2> QED
    BY <2>2, <2>3 DEF Inv
<1>23. CASE DefaultHandler(e)
  BY <1>18, <1>23 DEF DefaultHandler
<1> QED
  BY <1>1, <1>2, <1>3, <1>4, <1>5, <1>6, <1>7, <1>8, <1>9, <1>10, <1>11, <1>12, <1>13, <1>14,
     <1>15, <1>16, <1>17, <1>19, <1>20, <1>21, <1>22, <1>23 DEF MainStep

\* Every step preserves the invariant, for either collector.
LEMMA NextInv == Inv /\ [Next]_vars => Inv'
<1> SUFFICES ASSUME Inv, [Next]_vars PROVE Inv'
  OBVIOUS
<1>1. CASE Next
  BY <1>1, StepInv DEF Next
<1>2. CASE UNCHANGED vars
  BY <1>2 DEF vars, Inv, PlaceOK, OneOwner, FreshStart
<1> QED
  BY <1>1, <1>2
\* What a step of one engine does to the others: their sessions stay, as
\* only an owner touches the session, and there is no second owner.
LEMMA Others ==
    ASSUME NetInv, NEW e \in Engines,
           session' = session \/ pc[e] \in Owning,
           \A f \in Engines : f # e =>
              pc'[f] = pc[f] /\ ctrl'[f] = ctrl[f] /\ handler'[f] = handler[f],
           pc'[e] \in Using /\ ctrl'[e] # "returned" => session' = e,
           ctrl'[e] # "none" => handler'[e],
           Network /\ handler'[e] => pc'[e] \in {"work", "unregister"}
    PROVE  HandlerOwns' /\ LiveSessionKept'
<1>1. HandlerOwns'
  BY DEF NetInv, HandlerOwns
<1>2. ASSUME NEW f \in Engines, f # e, pc'[f] \in Using, ctrl'[f] # "returned"
      PROVE  session' = f
  <2>1. pc[f] \in Using /\ ctrl[f] # "returned"
    BY <1>2
  <2>2. session = f
    BY <2>1 DEF NetInv, LiveSessionKept
  <2>3. pc[e] \notin Owning
    BY <1>2, <2>1 DEF NetInv, Inv, OneOwner, Owning
  <2> QED
    BY <2>2, <2>3
<1>3. LiveSessionKept'
  BY <1>2 DEF LiveSessionKept
<1> QED
  BY <1>1, <1>3

\* Every step of an engine with a network collector keeps the live sessions.
LEMMA NetStep ==
    ASSUME Network, NetInv, NEW e \in Engines,
           \/ Launch(e) \/ MainStep(e) \/ ConsumerEnds(e) \/ Finish(e) \/ Exit(e)
           \/ Kill(e) \/ ConsoleEvent(e) \/ Control(e) \/ DefaultHandler(e)
    PROVE  HandlerOwns' /\ LiveSessionKept'
<1>0. /\ PlaceOK /\ handler \in [Engines -> BOOLEAN]
      /\ ctrl \in [Engines -> {"none", "stopping", "returned"}]
      /\ pc \in [Engines -> Places]
      /\ ctrl[e] # "none" => handler[e]
      /\ handler[e] => pc[e] \in {"work", "unregister"}
      /\ pc[e] \in Using /\ ctrl[e] # "returned" => session = e
  BY DEF NetInv, Inv, PlaceOK, Places, HandlerOwns, LiveSessionKept
<1>1. ASSUME handler' = handler, ctrl' = ctrl, session' = session,
             NEW from, NEW to \in Places, At(e, from, to),
             from \notin {"work", "unregister"} \/ to \in {"work", "unregister"},
             to \in Using => from \in Using
      PROVE  HandlerOwns' /\ LiveSessionKept'
  BY <1>0, <1>1, AtStep, Others
<1> USE DEF Places, Owning, Using
<1>2. CASE Launch(e)
  BY <1>1, <1>2 DEF Launch
<1>3. CASE CreateMutex(e)
  <2>1. PICK to \in {"plain", IF Handles = {} THEN "stopOld" ELSE "look"} :
           pc' = [pc EXCEPT ![e] = to]
    BY <1>3 DEF CreateMutex
  <2>2. /\ At(e, "create", to) /\ to \in Places
        /\ to \notin Using
    BY <1>3, <2>1 DEF CreateMutex, At
  <2> QED
    BY <1>1, <1>3, <2>2 DEF CreateMutex
<1>4. CASE CloseLook(e)
  BY <1>1, <1>4 DEF CloseLook
<1>5. CASE StopOld(e)
  <2>1. At(e, "stopOld", "startTrace") /\ handler' = handler /\ ctrl' = ctrl
    BY <1>5 DEF StopOld
  <2> QED
    BY <1>0, <2>1, AtStep, Others
<1>6. CASE StartTrace(e)
  <2>1. /\ At(e, "startTrace", "enable") /\ session' = e
        /\ handler' = handler /\ ctrl' = ctrl
    BY <1>6 DEF StartTrace
  <2> QED
    BY <1>0, <2>1, AtStep, Others
<1>7. CASE StartTraceFails(e)
  BY <1>1, <1>7 DEF StartTraceFails
<1>8. CASE EnableTrace(e)
  <2>1. PICK to \in {"open", "stop"} : pc' = [pc EXCEPT ![e] = to]
    BY <1>8 DEF EnableTrace
  <2>2. At(e, "enable", to) /\ to \in Places
    BY <1>8, <2>1 DEF EnableTrace, At
  <2> QED
    BY <1>1, <1>8, <2>2 DEF EnableTrace
<1>9. CASE OpenTrace(e)
  <2>1. PICK to \in {"spawn", "stop"} : pc' = [pc EXCEPT ![e] = to]
    BY <1>9 DEF OpenTrace
  <2>2. At(e, "open", to) /\ to \in Places
    BY <1>9, <2>1 DEF OpenTrace, At
  <2> QED
    BY <1>1, <1>9, <2>2 DEF OpenTrace
<1>10. CASE Spawn(e)
  BY <1>1, <1>10 DEF Spawn
<1>11. CASE Register(e)
  <2>1. /\ At(e, "register", "work") /\ ctrl' = ctrl /\ session' = session
        /\ \A f \in Engines : f # e => handler'[f] = handler[f]
        /\ handler'[e]
    BY <1>0, <1>11 DEF Register
  <2> QED
    BY <1>0, <2>1, AtStep, Others
<1>12. CASE Unregister(e)
  <2>1. /\ At(e, "unregister", "stop") /\ ctrl' = ctrl /\ session' = session
        /\ \A f \in Engines : f # e => handler'[f] = handler[f]
        /\ ~handler'[e] /\ ctrl'[e] = "none"
    BY <1>0, <1>12 DEF Unregister
  <2> QED
    BY <1>0, <2>1, AtStep, Others
<1>13. CASE Stop(e)
  <2>1. At(e, "stop", "closeTrace") /\ handler' = handler /\ ctrl' = ctrl
    BY <1>13 DEF Stop
  <2> QED
    BY <1>0, <2>1, AtStep, Others
<1>14. CASE CloseTrace(e)
  BY <1>1, <1>14 DEF CloseTrace
<1>15. CASE Join(e)
  BY <1>1, <1>15 DEF Join
<1>16. CASE CloseMutex(e)
  BY <1>1, <1>16 DEF CloseMutex
<1>17. CASE ConsumerEnds(e)
  BY <1>0, <1>17, Others DEF ConsumerEnds
<1>18. CASE Finish(e)
  BY <1>1, <1>18 DEF Finish
<1>19. CASE Gone(e) /\ session' = session
  <2>1. /\ ~handler'[e] /\ ctrl'[e] = "none" /\ pc'[e] = "off"
        /\ \A f \in Engines : f # e =>
              pc'[f] = pc[f] /\ ctrl'[f] = ctrl[f] /\ handler'[f] = handler[f]
    BY <1>0, <1>19 DEF Gone
  <2> QED
    BY <1>19, <2>1, Others
<1>20. CASE Exit(e)
  BY <1>19, <1>20 DEF Exit
<1>21. CASE Kill(e)
  BY <1>19, <1>21 DEF Kill
<1>22. CASE DefaultHandler(e)
  BY <1>19, <1>22 DEF DefaultHandler
<1>23. CASE ConsoleEvent(e)
  <2>1. /\ pc' = pc /\ handler' = handler /\ session' = session
        /\ \A f \in Engines : f # e => ctrl'[f] = ctrl[f]
        /\ handler[e] /\ ctrl[e] = "none"
    BY <1>0, <1>23 DEF ConsoleEvent
  <2> QED
    BY <1>0, <2>1, Others
<1>24. CASE Control(e)
  <2>1. /\ pc' = pc /\ handler' = handler
        /\ \A f \in Engines : f # e => ctrl'[f] = ctrl[f]
        /\ ctrl[e] = "stopping" /\ ctrl'[e] = "returned"
    BY <1>0, <1>24 DEF Control
  <2>2. pc[e] \in Owning
    BY <1>0, <2>1
  <2> QED
    BY <1>0, <2>1, <2>2, Others
<1> QED
  BY <1>2, <1>3, <1>4, <1>5, <1>6, <1>7, <1>8, <1>9, <1>10, <1>11, <1>12, <1>13, <1>14,
     <1>15, <1>16, <1>17, <1>18, <1>20, <1>21, <1>22, <1>23, <1>24 DEF MainStep

\* Every step preserves the invariant of the network collectors.
LEMMA NextNetInv ==
    ASSUME Network
    PROVE  NetInv /\ [Next]_vars => NetInv'
<1> SUFFICES ASSUME NetInv, [Next]_vars PROVE NetInv'
  OBVIOUS
<1>1. Inv'
  BY NextInv DEF NetInv
<1>2. CASE Next
  BY <1>1, <1>2, NetStep DEF Next, NetInv
<1>3. CASE UNCHANGED vars
  BY <1>1, <1>3 DEF vars, NetInv, HandlerOwns, LiveSessionKept
<1> QED
  BY <1>2, <1>3

----------------------------------------------------------------------------
(***************************************************************************)
(* A dead engine's session is always out of the way when an administrator  *)
(* starts to measure, and the mutex never has two owners.                  *)
(***************************************************************************)
THEOREM StartsAfresh == Spec => [](OneOwner /\ FreshStart)
<1>1. NetInv => Inv
  BY DEF NetInv
<1>2. Inv => OneOwner /\ FreshStart
  BY DEF Inv
<1> QED
  BY <1>1, <1>2, InitInv, NextInv, PTL DEF Spec

(***************************************************************************)
(* EtwNetworkCollector.cpp:39 - no engine stops the session of a network   *)
(* collector that is alive in another.                                     *)
(***************************************************************************)
THEOREM NetworkSessionKept ==
    ASSUME Network
    PROVE  Spec => []LiveSessionKept
<1>1. NetInv => LiveSessionKept
  BY DEF NetInv
<1>2. NetInv /\ [Next]_vars => NetInv'
  BY NextNetInv
<1> QED
  BY <1>1, <1>2, InitInv, PTL DEF Spec

----------------------------------------------------------------------------
(***************************************************************************)
(* Whose session may be left in the kernel.  The console handler is only   *)
(* registered once the session has been started, and a handler that has    *)
(* returned has stopped it: its process starts no other one before its end.*)
(***************************************************************************)
Registered == {"work", "unregister", "stop", "closeTrace", "join", "closeMutex",
               "plain"}

ThreadOK ==
    /\ consumer \in [Engines -> {"none", "running", "ended"}]
    /\ running \in [Engines -> BOOLEAN]
    /\ left \in BOOLEAN

LeftInv ==
    /\ PlaceOK /\ ThreadOK /\ NoLeftover
    /\ session # None => session \in Admins
    /\ \A e \in Engines : /\ ctrl[e] # "none" => handler[e]
                          /\ handler[e] => pc[e] \in Registered
                          /\ ctrl[e] = "returned" => session # e

\* What one engine does leaves the invariant's parts of the others as they are.
LEMMA LeftStep ==
    ASSUME LeftInv, NEW e \in Engines, PlaceOK', ThreadOK',
           \A f \in Engines : f # e =>
              /\ pc'[f] = pc[f] /\ ctrl'[f] = ctrl[f] /\ handler'[f] = handler[f]
              /\ consumer'[f] = consumer[f] /\ running'[f] = running[f],
           running'[e] => consumer'[e] = "running",
           ctrl'[e] # "none" => handler'[e],
           handler'[e] => pc'[e] \in Registered,
           ctrl'[e] = "returned" => session' # e,
           \/ session' = session /\ (session # e => left' = left)
           \/ session' = None
           \/ session' = e /\ e \in Admins,
           session' = e => pc'[e] \in Using \/ left'
    PROVE  LeftInv'
<1>1. session' # None => session' \in Admins
  BY DEF LeftInv
<1>2. \A f \in Engines : /\ ctrl'[f] # "none" => handler'[f]
                         /\ handler'[f] => pc'[f] \in Registered
                         /\ ctrl'[f] = "returned" => session' # f
  BY SessionAssumption DEF LeftInv
<1>3. NoLeftover'
  <2>1. session' # None /\ ~left' => pc'[session'] \in Using
    BY SessionAssumption DEF LeftInv, NoLeftover, PlaceOK
  <2>2. \A f \in Engines : running'[f] => consumer'[f] = "running"
    BY DEF LeftInv, NoLeftover
  <2> QED
    BY <2>1, <2>2 DEF NoLeftover
<1> QED
  BY <1>1, <1>2, <1>3 DEF LeftInv

\* Every step of an engine keeps the account of what is left.
LEMMA StepLeft ==
    ASSUME LeftInv, NEW e \in Engines,
           \/ Launch(e) \/ MainStep(e) \/ ConsumerEnds(e) \/ Finish(e) \/ Exit(e)
           \/ Kill(e) \/ ConsoleEvent(e) \/ Control(e) \/ DefaultHandler(e)
    PROVE  LeftInv'
<1> USE DEF Places, Owning, Using, Registered
<1>0. /\ PlaceOK /\ ThreadOK
      /\ handler \in [Engines -> BOOLEAN]
      /\ ctrl \in [Engines -> {"none", "stopping", "returned"}]
      /\ consumer \in [Engines -> {"none", "running", "ended"}]
      /\ running \in [Engines -> BOOLEAN]
      /\ session \in Engines \cup {None} /\ pc \in [Engines -> Places]
      /\ left \in BOOLEAN
      /\ session = e => pc[e] \in Using \/ left
      /\ session = e => e \in Admins
      /\ ctrl[e] # "none" => handler[e]
      /\ handler[e] => pc[e] \in Registered
      /\ ctrl[e] = "returned" => session # e
      /\ running[e] => consumer[e] = "running"
  BY SessionAssumption DEF LeftInv, PlaceOK, ThreadOK, NoLeftover
\* a step of the main thread that touches neither the session nor the handler
<1>1. ASSUME handler' = handler, ctrl' = ctrl, session' = session, left' = left,
             consumer' = consumer, running' = running,
             NEW from, NEW to \in Places, At(e, from, to),
             from \in Registered => to \in Registered,
             from \in Using => to \in Using
      PROVE  LeftInv'
  <2>1. PlaceOK' /\ ThreadOK'
    BY <1>0, <1>1, AtStep DEF PlaceOK, ThreadOK
  <2> QED
    BY <1>0, <1>1, <2>1, AtStep, LeftStep
<1>2. CASE Launch(e)
  BY <1>1, <1>2 DEF Launch
<1>3. CASE CreateMutex(e)
  <2>1. PICK to \in {"plain", IF Handles = {} THEN "stopOld" ELSE "look"} :
           pc' = [pc EXCEPT ![e] = to]
    BY <1>3 DEF CreateMutex
  <2>2. At(e, "create", to) /\ to \in Places
    BY <1>3, <2>1 DEF CreateMutex, At
  <2> QED
    BY <1>1, <1>3, <2>2 DEF CreateMutex
<1>4. CASE CloseLook(e)
  BY <1>1, <1>4 DEF CloseLook
<1>5. CASE StopOld(e)
  <2>1. /\ At(e, "stopOld", "startTrace") /\ handler' = handler /\ ctrl' = ctrl
        /\ consumer' = consumer /\ running' = running
        /\ \/ session' = None /\ left' = FALSE
           \/ session' = session /\ left' = left
    BY <1>5 DEF StopOld, StopByName
  <2>2. PlaceOK' /\ ThreadOK'
    BY <1>0, <2>1, AtStep DEF PlaceOK, ThreadOK
  <2>3. pc[e] = "stopOld" /\ pc'[e] = "startTrace"
    BY <1>0, <2>1, AtStep
  <2>4. session' = e => left'
    BY <1>0, <2>1, <2>3, SessionAssumption
  <2> QED
    BY <1>0, <2>1, <2>2, <2>3, <2>4, AtStep, LeftStep
<1>6. CASE StartTrace(e)
  <2>1. PICK to \in {"enable", "open"} : At(e, "startTrace", to)
    BY <1>6 DEF StartTrace
  <2>2. /\ e \in Admins /\ session' = e /\ left' = left /\ handler' = handler
        /\ ctrl' = ctrl /\ consumer' = consumer /\ running' = running
    BY <1>6 DEF StartTrace
  <2>3. PlaceOK' /\ ThreadOK'
    BY <1>0, <2>1, <2>2, AtStep DEF PlaceOK, ThreadOK
  <2>4. pc[e] = "startTrace" /\ pc'[e] = to /\ ctrl[e] = "none" /\ ~handler[e]
    BY <1>0, <2>1, AtStep
  <2> QED
    BY <1>0, <2>1, <2>2, <2>3, <2>4, AtStep, LeftStep
<1>7. CASE StartTraceFails(e)
  BY <1>1, <1>7 DEF StartTraceFails
<1>8. CASE EnableTrace(e)
  <2>1. PICK to \in {"open", "stop"} : pc' = [pc EXCEPT ![e] = to]
    BY <1>8 DEF EnableTrace
  <2>2. At(e, "enable", to) /\ to \in Places
    BY <1>8, <2>1 DEF EnableTrace, At
  <2> QED
    BY <1>1, <1>8, <2>2 DEF EnableTrace
<1>9. CASE OpenTrace(e)
  <2>1. PICK to \in {"spawn", "stop"} : pc' = [pc EXCEPT ![e] = to]
    BY <1>9 DEF OpenTrace
  <2>2. At(e, "open", to) /\ to \in Places
    BY <1>9, <2>1 DEF OpenTrace, At
  <2> QED
    BY <1>1, <1>9, <2>2 DEF OpenTrace
<1>10. CASE Spawn(e)
  <2>1. /\ At(e, "spawn", "register") /\ session' = session /\ handler' = handler
        /\ ctrl' = ctrl /\ left' = left
        /\ consumer' = [consumer EXCEPT ![e] = "running"]
        /\ running' = [running EXCEPT ![e] = TRUE]
    BY <1>10 DEF Spawn
  <2>2. PlaceOK' /\ ThreadOK'
    BY <1>0, <2>1, AtStep DEF PlaceOK, ThreadOK
  <2>3. pc[e] = "spawn" /\ pc'[e] = "register" /\ consumer'[e] = "running"
    BY <1>0, <2>1, AtStep
  <2> QED
    BY <1>0, <2>1, <2>2, <2>3, AtStep, LeftStep
<1>11. CASE Register(e)
  <2>1. /\ At(e, "register", "work") /\ session' = session /\ ctrl' = ctrl
        /\ left' = left /\ consumer' = consumer /\ running' = running
        /\ handler' = [handler EXCEPT ![e] = TRUE]
    BY <1>11 DEF Register
  <2>2. PlaceOK' /\ ThreadOK'
    BY <1>0, <2>1, AtStep DEF PlaceOK, ThreadOK
  <2>3. pc[e] = "register" /\ pc'[e] = "work" /\ handler'[e]
    BY <1>0, <2>1, AtStep
  <2> QED
    BY <1>0, <2>1, <2>2, <2>3, AtStep, LeftStep
<1>12. CASE Unregister(e)
  <2>1. /\ At(e, "unregister", "stop") /\ session' = session /\ ctrl' = ctrl
        /\ left' = left /\ consumer' = consumer /\ running' = running
        /\ handler' = [handler EXCEPT ![e] = FALSE] /\ ctrl[e] = "none"
    BY <1>12 DEF Unregister
  <2>2. PlaceOK' /\ ThreadOK'
    BY <1>0, <2>1, AtStep DEF PlaceOK, ThreadOK
  <2>3. pc[e] = "unregister" /\ pc'[e] = "stop" /\ ~handler'[e]
    BY <1>0, <2>1, AtStep
  <2> QED
    BY <1>0, <2>1, <2>2, <2>3, AtStep, LeftStep
<1>13. CASE Stop(e)
  <2>1. /\ At(e, "stop", "closeTrace") /\ handler' = handler /\ ctrl' = ctrl
        /\ left' = left /\ consumer' = consumer /\ running' = running
        /\ session' = IF session = e THEN None ELSE session
    BY <1>13 DEF Stop
  <2>2. PlaceOK' /\ ThreadOK'
    BY <1>0, <2>1, AtStep DEF PlaceOK, ThreadOK
  <2>3. /\ pc[e] = "stop" /\ pc'[e] = "closeTrace" /\ session' # e
        /\ session' = None \/ session' = session
    BY <1>0, <2>1, AtStep, SessionAssumption
  <2> QED
    BY <1>0, <2>1, <2>2, <2>3, AtStep, LeftStep
<1>14. CASE CloseTrace(e)
  BY <1>1, <1>14 DEF CloseTrace
<1>15. CASE Join(e)
  BY <1>1, <1>15 DEF Join
<1>16. CASE CloseMutex(e)
  BY <1>1, <1>16 DEF CloseMutex
<1>17. CASE ConsumerEnds(e)
  <2>1. /\ pc' = pc /\ session' = session /\ handler' = handler /\ ctrl' = ctrl
        /\ left' = left /\ consumer' = [consumer EXCEPT ![e] = "ended"]
        /\ running' = [running EXCEPT ![e] = FALSE]
    BY <1>17 DEF ConsumerEnds
  <2>2. PlaceOK' /\ ThreadOK' /\ ~running'[e]
    BY <1>0, <2>1 DEF PlaceOK, ThreadOK
  <2> QED
    BY <1>0, <2>1, <2>2, LeftStep
<1>18. CASE Finish(e)
  <2>1. PICK to \in {"unregister", "stop"} : At(e, "work", to)
    BY <1>18 DEF Finish
  <2> QED
    BY <1>1, <1>18, <2>1 DEF Finish
\* the end of the process, unless its session stays without being counted
<1>19. ASSUME Gone(e), session' = session, left' \in BOOLEAN,
              session # e => left' = left, session = e => left'
       PROVE  LeftInv'
  <2>1. /\ pc'[e] = "off" /\ ~handler'[e] /\ ctrl'[e] = "none" /\ ~running'[e]
        /\ \A f \in Engines : f # e =>
              /\ pc'[f] = pc[f] /\ ctrl'[f] = ctrl[f] /\ handler'[f] = handler[f]
              /\ consumer'[f] = consumer[f] /\ running'[f] = running[f]
    BY <1>0, <1>19 DEF Gone
  <2>2. PlaceOK' /\ ThreadOK'
    BY <1>0, <1>19 DEF Gone, PlaceOK, ThreadOK
  <2> QED
    BY <1>19, <2>1, <2>2, LeftStep
<1>20. CASE Exit(e)
  <2>1. pc[e] = "plain"
    BY <1>20 DEF Exit
  <2> QED
    BY <1>0, <1>19, <1>20, <2>1 DEF Exit
<1>21. CASE Kill(e)
  BY <1>0, <1>19, <1>21 DEF Kill
<1>22. CASE DefaultHandler(e)
  BY <1>0, <1>19, <1>22 DEF DefaultHandler
<1>23. CASE ConsoleEvent(e)
  <2>1. /\ pc' = pc /\ handler' = handler /\ session' = session /\ left' = left
        /\ consumer' = consumer /\ running' = running
        /\ handler[e] /\ ctrl' = [ctrl EXCEPT ![e] = "stopping"]
    BY <1>23 DEF ConsoleEvent
  <2>2. PlaceOK' /\ ThreadOK' /\ ctrl'[e] = "stopping"
    BY <1>0, <2>1 DEF PlaceOK, ThreadOK
  <2> QED
    BY <1>0, <2>1, <2>2, LeftStep
<1>24. CASE Control(e)
  <2>1. /\ pc' = pc /\ handler' = handler /\ handler[e]
        /\ consumer' = consumer /\ running' = running
        /\ ctrl' = [ctrl EXCEPT ![e] = "returned"]
    BY <1>0, <1>24 DEF Control
  <2>2. \/ session' = None /\ left' = FALSE
        \/ e \notin Admins /\ session' = session /\ left' = left
    BY <1>24 DEF Control, StopByName
  <2>3. PlaceOK' /\ ThreadOK' /\ session' # e
    BY <1>0, <2>1, <2>2, SessionAssumption DEF PlaceOK, ThreadOK
  <2> QED
    BY <1>0, <2>1, <2>2, <2>3, LeftStep
<1> QED
  BY <1>2, <1>3, <1>4, <1>5, <1>6, <1>7, <1>8, <1>9, <1>10, <1>11, <1>12, <1>13, <1>14,
     <1>15, <1>16, <1>17, <1>18, <1>20, <1>21, <1>22, <1>23, <1>24 DEF MainStep

(***************************************************************************)
(* main.cpp:60-63, EtwSchedulerCollector.h:42-43 - for either collector:   *)
(* neither a return of main nor a console event leaves a session behind in *)
(* the kernel, and drain() finds running_ only with a live consumer.       *)
(***************************************************************************)
THEOREM NothingLeftOver == Spec => []NoLeftover
<1>1. Init => LeftInv
  BY DEF Init, LeftInv, PlaceOK, ThreadOK, NoLeftover, Owning
<1>2. LeftInv /\ [Next]_vars => LeftInv'
  <2> SUFFICES ASSUME LeftInv, [Next]_vars PROVE LeftInv'
    OBVIOUS
  <2>1. CASE Next
    BY <2>1, StepLeft DEF Next
  <2>2. CASE UNCHANGED vars
    BY <2>2 DEF vars, LeftInv, PlaceOK, ThreadOK, NoLeftover
  <2> QED
    BY <2>1, <2>2
<1>3. LeftInv => NoLeftover
  BY DEF LeftInv
<1> QED
  BY <1>1, <1>2, <1>3, PTL DEF Spec
=============================================================================
