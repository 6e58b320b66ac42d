--------------------------- MODULE NetworkTraffic ---------------------------
(***************************************************************************)
(* Who exchanges how much with whom: the collector that counts the bytes   *)
(* of ETW events (engine/src/platform/windows/EtwNetworkCollector.cpp),    *)
(* the window EngineLoop closes with each sample, and the connections it   *)
(* makes of that and of the sockets it lists a moment later                *)
(* (engine/src/core/NetworkAggregator.cpp).                                *)
(*                                                                         *)
(* An event may be of a socket that was closed long before it is counted,  *)
(* and the sockets that are listed need not be those of the window.  An    *)
(* address stands for itself in both of its spellings.                     *)
(***************************************************************************)
EXTENDS Naturals, FiniteSets, FiniteSetsExt

CONSTANTS NetFlows,  \* traffic there may be, of a process, from its end to the other
          NetBinds,  \* UDP sockets there may be, <<pid, address or AnyAddress, port>>
          AnyAddress,
          NearBy,    \* addresses that are loopback or unspecified
          MaxBytes   \* bound: bytes counted in the last window and since

Directions == {"sent", "received"}

\* makeFlowKey: the two ends without an order.
FlowKey(f) == [protocol |-> f.protocol, pid |-> f.pid, ends |-> {f.local, f.remote}]

Foreign(f) == f.remote[1] \notin NearBy

\* The machine's traffic with itself by an address of its own is left out: it
\* has two local ends, and what is counted is shown with both.  A socket is
\* bound to an address of the machine.
ASSUME TrafficAssumption ==
    /\ MaxBytes \in Nat
    /\ \A f \in NetFlows : f.local # f.remote
    /\ \A f, g \in NetFlows : f.local[1] # g.remote[1]
                              /\ (f # g => FlowKey(f) # FlowKey(g))
    /\ \A s \in NetBinds, f \in NetFlows : s[2] # AnyAddress => s[2] # f.remote[1]

VARIABLES
    collecting, \* running_
    flows,      \* flows_
    windowed,   \* window_start_ is set
    stage,      \* where the sampling thread is
    window,     \* what drain() returned
    listed,     \* what the last scan found: rows of TCP, sockets of UDP
    view,       \* the connections made of it
    fresh,      \* history: the bytes delivered since the last exchange
    past        \* history: those of the window

netVars == <<collecting, flows, windowed, stage, window, listed, view, fresh, past>>

NoTraffic == [k \in {} |-> 0]
NoBytes == [f \in NetFlows |-> [d \in Directions |-> 0]]
Unmeasured == [measured |-> FALSE, flows |-> NoTraffic]

TrafficInit ==
    /\ collecting = TRUE /\ flows = NoTraffic /\ windowed = FALSE
    /\ stage = "idle" /\ window = Unmeasured
    /\ listed = [tcp |-> [f \in {} |-> "active"], udp |-> {}]
    /\ view = {}
    /\ fresh = NoBytes /\ past = NoBytes

----------------------------------------------------------------------------
(***************************************************************************)
(* The collector.                                                          *)
(***************************************************************************)
Counted(counts, key, direction) ==
    [counts EXCEPT ![key][direction] = @ + 1]

Total(bytes) == MapThenSumSet(LAMBDA f : bytes[f]["sent"] + bytes[f]["received"], NetFlows)

\* onEvent, on the consumer's thread.
OnEvent(f, direction) ==
    /\ collecting
    /\ Total(fresh) + Total(past) < MaxBytes
    /\ LET k == FlowKey(f)
           noted == [l \in DOMAIN flows \cup {k} |->
                        IF l \in DOMAIN flows THEN flows[l] ELSE [d \in Directions |-> 0]]
       IN  flows' = Counted(noted, k, direction)
    /\ fresh' = Counted(fresh, f, direction)
    /\ UNCHANGED <<collecting, windowed, stage, window, listed, view, past>>

\* ProcessTrace returns: the session was stopped.
TrafficEnds ==
    /\ collecting
    /\ collecting' = FALSE
    /\ UNCHANGED <<flows, windowed, stage, window, listed, view, fresh, past>>

\* drain(): the buffers are flushed, and a while is left for their events.
Flush ==
    /\ stage = "idle"
    /\ IF collecting THEN stage' = "flushed" /\ UNCHANGED window
                     ELSE stage' = "drained" /\ window' = Unmeasured
    /\ UNCHANGED <<collecting, flows, windowed, listed, view, fresh, past>>

\* Mutant: the flows are copied.
ExchangedNot(m) == m

\* What is left of the flows when the window is closed.
Exchanged(m) == NoTraffic

\* The window is closed; the first call only begins one.
CloseWindow ==
    /\ stage = "flushed"
    /\ stage' = "drained"
    /\ windowed' = TRUE
    /\ window' = IF windowed THEN [measured |-> TRUE, flows |-> flows] ELSE Unmeasured
    /\ flows' = Exchanged(flows)
    /\ past' = fresh
    /\ fresh' = NoBytes
    /\ UNCHANGED <<collecting, listed, view>>

----------------------------------------------------------------------------
(***************************************************************************)
(* The aggregation.                                                        *)
(***************************************************************************)
\* matchesSocket
Matches(scan, pid, end) ==
    \E s \in scan.udp : s[1] = pid /\ s[2] \in {AnyAddress, end[1]} /\ s[3] = end[2]

\* local_ips
LocalAddresses(scan) ==
    {f.local[1] : f \in DOMAIN scan.tcp} \cup ({s[2] : s \in scan.udp} \ {AnyAddress})

\* The ends of a UDP flow that are taken for the local one: one or none.
LocalEnds(scan, key) ==
    LET matching == {e \in key.ends : Matches(scan, key.pid, e)}
        known == {e \in matching : e[1] \in LocalAddresses(scan)}
    IN  CASE Cardinality(matching) = 1 -> matching
          [] Cardinality(known) = 1    -> known
          [] OTHER                     -> {}

Connection(protocol, pid, local, remote, bytes) ==
    [protocol |-> protocol, pid |-> pid, local |-> local, remote |-> remote, bytes |-> bytes]

\* In place of a rate the bytes of the window; none without a window.
TcpConnection(f) ==
    Connection("tcp", f.pid, f.local, f.remote,
               CASE ~window.measured                  -> {}
                 [] FlowKey(f) \in DOMAIN window.flows -> {window.flows[FlowKey(f)]}
                 [] OTHER                             -> {[d \in Directions |-> 0]})

UdpConnections(scan, key) ==
    {Connection("udp", key.pid, e, CHOOSE r \in key.ends : r # e, {window.flows[key]}) :
        e \in LocalEnds(scan, key)}

\* aggregateNetwork
NetworkView(scan) ==
    LET found == {TcpConnection(f) : f \in {f \in DOMAIN scan.tcp : scan.tcp[f] = "active"}}
                   \cup UNION {UdpConnections(scan, k) :
                                  k \in {k \in DOMAIN window.flows : k.protocol = "udp"}}
    IN  {c \in found : Foreign(c)}

\* A row of TCP is active, or one of those that count as inactive.
Scans ==
    [tcp : UNION {[rows -> {"active", "inactive"}] :
                     rows \in SUBSET {f \in NetFlows : f.protocol = "tcp"}},
     udp : SUBSET NetBinds]

AggregateTraffic ==
    /\ stage = "drained"
    /\ stage' = "idle"
    /\ listed' \in Scans
    /\ view' = NetworkView(listed')
    /\ UNCHANGED <<collecting, flows, windowed, window, fresh, past>>

TrafficNext ==
    \/ \E f \in NetFlows, d \in Directions : OnEvent(f, d)
    \/ TrafficEnds \/ Flush \/ CloseWindow \/ AggregateTraffic

TrafficSpec == TrafficInit /\ [][TrafficNext]_netVars

----------------------------------------------------------------------------
(***************************************************************************)
(* Properties.                                                             *)
(***************************************************************************)
\* Every byte delivered is in the flows of its window, once.
BytesKept ==
    /\ DOMAIN flows = {FlowKey(f) : f \in {f \in NetFlows : fresh[f] # NoBytes[f]}}
    /\ \A f \in NetFlows : fresh[f] # NoBytes[f] => flows[FlowKey(f)] = fresh[f]

\* Whether the scan lists what the flow goes through.
Listed(f) == \/ f.protocol = "tcp" /\ f \in DOMAIN listed.tcp /\ listed.tcp[f] = "active"
             \/ f.protocol = "udp" /\ Matches(listed, f.pid, f.local)

Shown(f) == {c \in view : FlowKey(c) = FlowKey(f)}

(***************************************************************************)
(* EtwNetworkCollector.cpp:209-216, NetworkAggregator.cpp:190-205 - though *)
(* bytes are counted, exchanged and matched with sockets at three moments: *)
(* what is shown of a connection is what was counted for it since the last *)
(* window, each byte in one window; while its socket is listed it is shown *)
(* once and with the right end as the remote one, or left out if that      *)
(* cannot be told; and nothing is measured without a window.               *)
(***************************************************************************)
TrafficHonest ==
    /\ BytesKept
    /\ stage = "idle" =>
          /\ \A c \in view : \E f \in NetFlows : FlowKey(f) = FlowKey(c)
          /\ \A f \in NetFlows :
                /\ \A c \in Shown(f) : c.bytes = IF window.measured THEN {past[f]} ELSE {}
                /\ Listed(f) /\ Foreign(f) =>
                      /\ Cardinality(Shown(f)) <= 1
                      /\ \A c \in Shown(f) : c.remote = f.remote
                      /\ \/ Shown(f) # {}
                         \/ f.protocol = "udp" /\ past[f] = NoBytes[f]
                         \/ f.protocol = "udp" /\ ~window.measured
                         \/ /\ Matches(listed, f.pid, f.remote)
                            /\ f.local[1] \notin LocalAddresses(listed)
=============================================================================
