------------------------------ MODULE MCEngine ------------------------------
(***************************************************************************)
(* The engine's sampling loop, its table of run times and its count of     *)
(* network traffic, which share no variable, each on its own: a behaviour  *)
(* picks one and only that moves.                                          *)
(***************************************************************************)
EXTENDS EngineLoop, RunTimeTable, NetworkTraffic

VARIABLE part

\* A process with a connection and two UDP flows, one with a port that is the
\* same at both ends; the machine's own and another address.
Flow(protocol, port, address) ==
    [protocol |-> protocol, pid |-> 1, local |-> <<"own", port>>, remote |-> <<address, 1>>]
OwnFlows == {Flow("tcp", 1, "far"), Flow("udp", 1, "far"), Flow("udp", 2, "far"),
             Flow("udp", 1, "near")}
OwnBinds == {1} \X {"own", "any"} \X {1, 2}

EngineInit ==
    part \in {"loop", "table", "traffic"} /\ Init /\ TableInit /\ TrafficInit

EngineNext ==
    /\ UNCHANGED part
    /\ \/ part = "loop" /\ Next /\ UNCHANGED <<allTableVars, netVars>>
       \/ part = "table" /\ TableNext /\ UNCHANGED <<vars, netVars>>
       \/ part = "traffic" /\ TrafficNext /\ UNCHANGED <<vars, allTableVars>>

EngineSpec == EngineInit /\ [][EngineNext]_<<part, vars, allTableVars, netVars>>
=============================================================================
