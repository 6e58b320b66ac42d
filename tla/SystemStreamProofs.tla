------------------------- MODULE SystemStreamProofs -------------------------
(***************************************************************************)
(* However late a socket's events come, however often the page is mounted, *)
(* restarted and reconnected, and however many engine runs it meets: a     *)
(* mounted stream has one connection at most and is never idle, and the    *)
(* store never mixes engines nor goes back in time.                        *)
(***************************************************************************)
EXTENDS SystemStream, TLAPS

(***************************************************************************)
(* The events waiting at a socket: a close is the last thing that happens  *)
(* to it, hello comes before the snapshots, and these only get newer.      *)
(***************************************************************************)
EventsOK(r) ==
    LET q == r.events IN
    /\ r.phase \in {"unused", "connecting"} => q = <<>> /\ r.sent = 0
    /\ r.phase # "unused" => r.owner \in Mounts
    /\ r.phase = "dead" => q # <<>> /\ q[Len(q)].kind = "close"
    /\ \A i \in 1..Len(q) :
         /\ q[i].kind = "close" => r.phase = "dead" /\ i = Len(q)
         /\ q[i].kind = "hello" => q[i].run = r.run
         /\ q[i].kind = "snapshot" => q[i].snap.run = r.run /\ q[i].snap.seq <= r.sent
    /\ \A i, j \in 1..Len(q) :
         i < j /\ q[i].kind = "snapshot" =>
            /\ q[j].kind # "hello"
            /\ q[j].kind = "snapshot" => q[i].snap.seq < q[j].snap.seq

\* What a socket has been sent is of an engine run there was, and a live one
\* belongs to the engine that runs.
OfEngine(r, e) ==
    /\ r.run <= e.run
    /\ r.run = e.run => r.sent <= e.published
    /\ r.phase = "live" => e.up /\ r.run = e.run

Reporting == {"connecting", "live", "dead"}

\* Only the mounted stream has a timer or a socket, and that socket is its own
\* and will still report.
StreamOK(m) ==
    LET r == streams[m] IN
    /\ r.timer # 0 \/ r.socket # NoSocket => m = mounted
    /\ r.timer # 0 => r.socket = NoSocket
    /\ r.socket # NoSocket => /\ sockets[r.socket].owner = m
                              /\ sockets[r.socket].phase \in Reporting
                              /\ r.status.state # "version-mismatch"

\* The store has the status of the mounted stream and the session of its hello.
PageOK ==
    /\ mounted <= mounts
    /\ mounted # 0 =>
         /\ ~streams[mounted].stopped
         /\ store.status = streams[mounted].status
         /\ streams[mounted].status.hello # NoRun
              => store.session = streams[mounted].status.hello

\* The store holds nothing, or a snapshot that its engine has published.
StoreOK(e) ==
    /\ store.current = None => store.previous = None /\ store.log = <<>>
    /\ store.current.run <= e.run
    /\ store.current.run = e.run => store.current.seq <= e.published
    /\ BlankOnMismatch
    /\ ~e.early =>
         /\ OneEngineInStore /\ LogInOrder
         /\ \A i \in 1..Len(store.log) : store.log[i].seq <= store.current.seq

HasHello(q) == \E i \in 1..Len(q) : q[i].kind = "hello"

(***************************************************************************)
(* The socket of the mounted stream: its snapshots are not older than the  *)
(* one shown, and come after a hello that begins their session.            *)
(***************************************************************************)
CurrentOK(st, r, e) ==
    /\ st.current # None /\ st.current.run = r.run =>
         /\ \A i \in 1..Len(r.events) : r.events[i].kind = "snapshot"
               => st.current.seq <= r.events[i].snap.seq
         /\ r.phase = "live" => st.current.seq <= r.sent + 1
    /\ ~e.early =>
         \/ st.session = r.run \/ HasHello(r.events)
         \/ /\ \A i \in 1..Len(r.events) : r.events[i].kind # "snapshot"
            /\ r.phase = "live" => ~e.compatible

Inv ==
    /\ TypeOK /\ AtMostOne /\ NeverIdle
    /\ engine.up => engine.run # 0
    /\ \A s \in Sockets : EventsOK(sockets[s]) /\ OfEngine(sockets[s], engine)
    /\ \A m \in Mounts : StreamOK(m)
    /\ PageOK /\ StoreOK(engine)
    /\ mounted # 0 /\ streams[mounted].socket # NoSocket
         => CurrentOK(store, sockets[streams[mounted].socket], engine)

----------------------------------------------------------------------------
(***************************************************************************)
(* Steps of the network at one socket.                                     *)
(***************************************************************************)

\* The events are events of the page.
LEMMA EventTypes ==
    ASSUME NEW n \in Nat \ {0}, NEW k \in Nat \ {0}, NEW c \in {1000, 1006}
    PROVE  /\ Opened \in Event /\ Wrong \in Event /\ Invalid \in Event
           /\ Greeting(n) \in Event /\ Frame(n, k) \in Event /\ Closed(c) \in Event
           /\ Opened.kind = "open" /\ Wrong.kind = "version"
           /\ Invalid.kind = "invalid"
           /\ Greeting(n).kind = "hello" /\ Greeting(n).run = n
           /\ Frame(n, k).kind = "snapshot" /\ Frame(n, k).snap.run = n
           /\ Frame(n, k).snap.seq = k
           /\ Closed(c).kind = "close"
  BY DEF Opened, Wrong, Invalid, Greeting, Frame, Closed, Event, Snapshot

\* One more event arrives: a snapshot newer than what was sent, or the close
\* that ends the socket.
LEMMA AppendOK ==
    ASSUME NEW r \in Socket, NEW q \in Socket, NEW x \in Event, NEW e,
           EventsOK(r), r.phase # "dead", r.phase # "unused",
           q.events = Append(r.events, x), q.owner = r.owner, q.run = r.run,
           r.sent <= q.sent, x.kind # "hello",
           \/ q.phase = "dead" /\ x.kind = "close"
           \/ q.phase = "live" /\ r.phase = "live" /\ x.kind # "close",
           x.kind = "snapshot" => /\ x.snap.run = r.run /\ r.sent < x.snap.seq
                                  /\ x.snap.seq <= q.sent /\ e.compatible
    PROVE  /\ EventsOK(q)
           /\ store \in Store /\ CurrentOK(store, r, e) => CurrentOK(store, q, e)
<1>. DEFINE p == r.events
            t == q.events
<1>1. /\ p \in Seq(Event) /\ t \in Seq(Event) /\ Len(p) \in Nat
      /\ Len(t) = Len(p) + 1 /\ t[Len(t)] = x
      /\ \A i \in 1..Len(p) : t[i] = p[i]
      /\ r.sent \in Nat /\ q.sent \in Nat
  BY DEF Socket
<1>2. /\ \A i \in 1..Len(p) : p[i] \in Event
      /\ \A i \in 1..Len(p) : p[i].kind = "snapshot" => p[i].snap.seq \in Nat
      /\ x.kind = "snapshot" => x.snap.seq \in Nat
  BY <1>1 DEF Event, Snapshot
<1>3. \A i \in 1..Len(t) : i \in 1..Len(p) \/ i = Len(t)
  BY <1>1
<1>. HIDE DEF p, t
<1>4. /\ \A i \in 1..Len(p) :
           /\ p[i].kind # "close"
           /\ p[i].kind = "hello" => p[i].run = r.run
           /\ p[i].kind = "snapshot" => p[i].snap.run = r.run /\ p[i].snap.seq <= r.sent
      /\ \A i, j \in 1..Len(p) : i < j /\ p[i].kind = "snapshot" =>
            /\ p[j].kind # "hello"
            /\ p[j].kind = "snapshot" => p[i].snap.seq < p[j].snap.seq
  BY DEF EventsOK, p
<1>5. \A i \in 1..Len(t) :
         /\ t[i].kind = "close" => q.phase = "dead" /\ i = Len(t)
         /\ t[i].kind = "hello" => t[i].run = q.run
         /\ t[i].kind = "snapshot" => t[i].snap.run = q.run /\ t[i].snap.seq <= q.sent
  BY <1>1, <1>2, <1>3, <1>4
<1>6. \A i, j \in 1..Len(t) : i < j /\ t[i].kind = "snapshot" =>
            /\ t[j].kind # "hello"
            /\ t[j].kind = "snapshot" => t[i].snap.seq < t[j].snap.seq
  <2>. SUFFICES ASSUME NEW i \in 1..Len(t), NEW j \in 1..Len(t), i < j,
                       t[i].kind = "snapshot"
                PROVE  /\ t[j].kind # "hello"
                       /\ t[j].kind = "snapshot" => t[i].snap.seq < t[j].snap.seq
    OBVIOUS
  <2>1. i \in 1..Len(p) /\ t[i] = p[i]
    BY <1>1, <1>3
  <2>2. CASE j \in 1..Len(p)
    BY <1>1, <1>4, <2>1, <2>2
  <2>3. CASE j = Len(t)
    BY <1>1, <1>2, <1>4, <2>1, <2>3
  <2>. QED  BY <1>3, <2>2, <2>3
<1>7. /\ q.phase # "unused" /\ q.phase # "connecting" /\ q.owner \in Mounts
      /\ q.phase = "dead" => t[Len(t)].kind = "close"
      /\ t # <<>>
  BY <1>1 DEF EventsOK
<1>8. EventsOK(q)
  BY <1>5, <1>6, <1>7 DEF EventsOK, t
<1>9. ASSUME store \in Store, CurrentOK(store, r, e)
      PROVE  CurrentOK(store, q, e)
  <2>1. store.current.seq \in Nat
    BY <1>9 DEF Store, Snapshot, None
  <2>2. ASSUME store.current # None, store.current.run = q.run
        PROVE  /\ \A i \in 1..Len(t) : t[i].kind = "snapshot"
                     => store.current.seq <= t[i].snap.seq
               /\ q.phase = "live" => store.current.seq <= q.sent + 1
    <3>1. /\ \A i \in 1..Len(p) : p[i].kind = "snapshot"
                => store.current.seq <= p[i].snap.seq
          /\ r.phase = "live" => store.current.seq <= r.sent + 1
      BY <1>9, <2>2 DEF CurrentOK, p
    <3>2. x.kind = "snapshot" => store.current.seq <= x.snap.seq
      BY <1>1, <1>2, <2>1, <3>1
    <3>. QED  BY <1>1, <1>3, <2>1, <3>1, <3>2
  <2>3. ASSUME ~e.early
        PROVE  \/ store.session = q.run \/ HasHello(t)
               \/ /\ \A i \in 1..Len(t) : t[i].kind # "snapshot"
                  /\ q.phase = "live" => ~e.compatible
    <3>1. \/ store.session = r.run \/ HasHello(p)
          \/ /\ \A i \in 1..Len(p) : p[i].kind # "snapshot"
             /\ r.phase = "live" => ~e.compatible
      BY <1>9, <2>3 DEF CurrentOK, p
    <3>2. HasHello(p) => HasHello(t)
      BY <1>1 DEF HasHello
    <3>. QED  BY <1>1, <1>3, <3>1, <3>2
  <2>. QED  BY <2>2, <2>3 DEF CurrentOK, t
<1>. QED  BY <1>8, <1>9

\* What the steps below need of the invariant.
LEMMA Facts ==
    ASSUME Inv
    PROVE  /\ sockets \in [Sockets -> Socket] /\ streams \in [Mounts -> Stream]
           /\ store \in Store /\ faults \in 0..MaxFaults
           /\ mounted \in 0..MaxMounts /\ mounts \in 0..MaxMounts
           /\ mounted # 0 => mounted \in Mounts
           /\ engine \in [up : BOOLEAN, run : Nat, published : Nat,
                          compatible : BOOLEAN, early : BOOLEAN]
           /\ engine.run \in Nat /\ engine.published \in Nat
           /\ engine.up => engine.run # 0
           /\ \A s \in Sockets : /\ sockets[s] \in Socket /\ EventsOK(sockets[s])
                                 /\ OfEngine(sockets[s], engine)
                                 /\ sockets[s].run \in Nat /\ sockets[s].sent \in Nat
                                 /\ sockets[s].events \in Seq(Event)
                                 /\ sockets[s].phase \in {"unused", "connecting",
                                                  "live", "closing", "dead"}
           /\ \A m \in Mounts : /\ streams[m] \in Stream /\ StreamOK(m)
                                /\ streams[m].socket \in Sockets \cup {NoSocket}
                                /\ streams[m].timer \in Delays
                                /\ streams[m].status \in StreamStatus
  BY DEF Inv, TypeOK, Mounts, Socket, Stream

\* Steps that leave the streams and the store as they are: what a stream's own
\* socket reports stays in order, and no other socket comes to life.
LEMMA NetworkStep ==
    ASSUME Inv, sockets' \in [Sockets -> Socket],
           engine' \in [up : BOOLEAN, run : Nat, published : Nat,
                        compatible : BOOLEAN, early : BOOLEAN],
           engine'.up => engine'.run # 0, StoreOK(engine)',
           UNCHANGED <<mounted, mounts, streams, store>>, faults' \in 0..MaxFaults,
           \A s \in Sockets :
              /\ EventsOK(sockets'[s]) /\ OfEngine(sockets'[s], engine')
              /\ sockets'[s].phase \in {"connecting", "live"}
                   => /\ sockets[s].phase \in {"connecting", "live"}
                      /\ sockets'[s].owner = sockets[s].owner
              /\ (\E m \in Mounts : streams[m].socket = s)
                   => /\ sockets'[s].owner = sockets[s].owner
                      /\ sockets[s].phase \in Reporting => sockets'[s].phase \in Reporting
                      /\ sockets[s].phase \in Reporting /\ CurrentOK(store, sockets[s], engine)
                           => CurrentOK(store, sockets'[s], engine')
    PROVE  Inv'
<1>1. TypeOK'
  BY DEF Inv, TypeOK
<1>2. AtMostOne'
  BY DEF Inv, AtMostOne
<1>3. \A m \in Mounts : StreamOK(m)'
  BY Facts DEF StreamOK
<1>4. PageOK'
  BY DEF Inv, PageOK
<1>5. NeverIdle'
  <2>1. \A s \in Sockets : sockets'[s].phase \in Reporting
           => sockets'[s].phase \in {"connecting", "live"} \/ sockets'[s].events # <<>>
    BY DEF Reporting, EventsOK
  <2>2. mounted # 0 /\ streams[mounted].socket # NoSocket =>
           LET t == streams[mounted].socket
           IN  t \in Sockets /\ sockets[t].phase \in Reporting /\ sockets'[t].phase \in Reporting
    BY Facts DEF StreamOK
  <2>3. mounted # 0 => \/ streams[mounted].timer # 0
                       \/ streams[mounted].status.state = "version-mismatch"
                       \/ streams[mounted].socket # NoSocket
    BY DEF Inv, NeverIdle
  <2>4. UNCHANGED <<mounted, streams>>
    OBVIOUS
  <2>. QED  BY <2>1, <2>2, <2>3, <2>4 DEF NeverIdle
<1>6. mounted # 0 /\ streams[mounted].socket # NoSocket
         => CurrentOK(store, sockets[streams[mounted].socket], engine)'
  <2>. SUFFICES ASSUME mounted # 0, streams[mounted].socket # NoSocket
                PROVE  CurrentOK(store, sockets[streams[mounted].socket], engine)'
    OBVIOUS
  <2>. DEFINE t == streams[mounted].socket
  <2>1. /\ t \in Sockets /\ sockets[t].phase \in Reporting /\ mounted \in Mounts
        /\ CurrentOK(store, sockets[t], engine)
    BY Facts DEF Inv, StreamOK
  <2>2. CurrentOK(store, sockets'[t], engine')
    BY <2>1
  <2>. QED  BY <2>2 DEF CurrentOK
<1>. QED  BY <1>1, <1>2, <1>3, <1>4, <1>5, <1>6 DEF Inv

\* The store is the same and the engine has not lost a snapshot of it.
LEMMA StoreFrame ==
    ASSUME Inv, store' = store, engine.early => engine'.early,
           engine'.early \in BOOLEAN,
           store.current.run <= engine'.run,
           store.current.run = engine'.run => store.current.seq <= engine'.published
    PROVE  StoreOK(engine)'
  BY Facts DEF Inv, StoreOK, BlankOnMismatch, OneEngineInStore, LogInOrder

\* One socket changes; at most the note of an early acceptance is made.
LEMMA SocketStep ==
    ASSUME Inv, NEW s \in Sockets, NEW r \in Socket,
           sockets' = [sockets EXCEPT ![s] = r],
           engine' = engine \/ engine' = [engine EXCEPT !.early = TRUE],
           UNCHANGED <<mounted, mounts, streams, store>>, faults' \in 0..MaxFaults,
           r.owner = sockets[s].owner, EventsOK(r), OfEngine(r, engine),
           r.phase \in {"connecting", "live"}
             => sockets[s].phase \in {"connecting", "live"},
           sockets[s].phase \in Reporting => r.phase \in Reporting,
           sockets[s].phase \in Reporting /\ CurrentOK(store, sockets[s], engine)
             => CurrentOK(store, r, engine')
    PROVE  Inv'
<1>1. /\ engine'.up = engine.up /\ engine'.run = engine.run
      /\ engine'.published = engine.published
      /\ engine'.compatible = engine.compatible
      /\ engine'.early \in BOOLEAN /\ (engine.early => engine'.early)
      /\ engine' \in [up : BOOLEAN, run : Nat, published : Nat,
                      compatible : BOOLEAN, early : BOOLEAN]
  BY Facts
<1>2. /\ sockets' \in [Sockets -> Socket] /\ sockets'[s] = r
      /\ \A t \in Sockets : t # s => sockets'[t] = sockets[t]
  BY Facts
<1>3. StoreOK(engine)'
  BY <1>1, StoreFrame DEF Inv, StoreOK
<1>4. \A t \in Sockets : OfEngine(sockets'[t], engine')
  BY <1>1, <1>2, Facts DEF OfEngine
<1>5. \A t \in Sockets : t # s /\ CurrentOK(store, sockets[t], engine)
                            => CurrentOK(store, sockets'[t], engine')
  BY <1>1, <1>2 DEF CurrentOK
<1>. QED  BY <1>1, <1>2, <1>3, <1>4, <1>5, Facts, NetworkStep

\* A socket dies: its close is the last event.
LEMMA DieStep ==
    ASSUME Inv, NEW s \in Sockets, NEW code \in {1000, 1006},
           sockets[s].phase \in {"connecting", "live", "closing"}
    PROVE  /\ Die(s, code) \in Socket /\ Die(s, code).phase = "dead"
           /\ Die(s, code).owner = sockets[s].owner
           /\ Die(s, code).run = sockets[s].run /\ Die(s, code).sent = sockets[s].sent
           /\ EventsOK(Die(s, code)) /\ OfEngine(Die(s, code), engine)
           /\ \A e : CurrentOK(store, sockets[s], e) => CurrentOK(store, Die(s, code), e)
<1>. DEFINE r == sockets[s]  q == Die(s, code)
<1>1. Closed(code) \in Event /\ Closed(code).kind = "close"
  BY DEF Closed, Event
<1>2. /\ r \in Socket /\ r.events \in Seq(Event) /\ r.sent \in Nat
      /\ EventsOK(r) /\ OfEngine(r, engine) /\ store \in Store
  BY Facts
<1>3. /\ q.phase = "dead" /\ q.owner = r.owner /\ q.run = r.run /\ q.sent = r.sent
      /\ q.events = Append(r.events, Closed(code))
  BY <1>2 DEF Die, Socket
<1>4. q \in Socket
  <2>1. Append(r.events, Closed(code)) \in Seq(Event)
    BY <1>1, <1>2
  <2>. QED  BY <1>2, <2>1 DEF Die, Socket
<1>. HIDE DEF r, q
<1>5. OfEngine(q, engine)
  BY <1>2, <1>3 DEF OfEngine
<1>6. ASSUME NEW e PROVE EventsOK(q) /\ (CurrentOK(store, r, e) => CurrentOK(store, q, e))
  <2>1. r.phase # "dead" /\ r.phase # "unused" /\ r.sent <= q.sent
    BY <1>2, <1>3 DEF r
  <2>. QED  BY <1>1, <1>2, <1>3, <1>4, <2>1, AppendOK
<1>. QED  BY <1>3, <1>4, <1>5, <1>6 DEF r, q

\* The acceptance brings the first two events, or one if it came too early.
LEMMA AcceptStep ==
    ASSUME Inv, NEW s \in Sockets, Accept(s)
    PROVE  Inv'
<1>. DEFINE r == sockets[s]  q == sockets'[s]
            x == IF engine.compatible THEN Greeting(engine.run) ELSE Wrong
<1>1. /\ r \in Socket /\ EventsOK(r) /\ OfEngine(r, engine)
      /\ r.phase = "connecting" /\ engine.up /\ engine.run \in Nat \ {0}
      /\ engine.published \in Nat /\ store \in Store
      /\ sockets \in [Sockets -> Socket]
  BY Facts DEF Accept
<1>2. /\ sockets' = [sockets EXCEPT ![s] = q]
      /\ q.phase = "live" /\ q.owner = r.owner /\ q.run = engine.run
      /\ q.sent \in Nat /\ q.sent <= engine.published
      /\ engine.published <= q.sent + 1
      /\ q.events = <<Opened, x>>
      /\ q = [r EXCEPT !.phase = "live", !.run = engine.run, !.sent = q.sent,
                       !.events = <<Opened, x>>]
  <2>. DEFINE k == IF engine.published = 0 THEN 0 ELSE engine.published - 1
              l == IF engine.compatible THEN <<Opened, Greeting(engine.run)>>
                                        ELSE <<Opened, Wrong>>
  <2>1. k \in Nat /\ k <= engine.published /\ engine.published <= k + 1
    BY <1>1
  <2>2. l = <<Opened, x>>
    OBVIOUS
  <2>3. sockets' = [sockets EXCEPT ![s].phase = "live", ![s].run = engine.run,
                                   ![s].sent = k, ![s].events = l]
    BY DEF Accept
  <2>. HIDE DEF k, l, x
  <2>4. sockets'[s] = [r EXCEPT !.phase = "live", !.run = engine.run, !.sent = k,
                                !.events = <<Opened, x>>]
    BY <1>1, <2>2, <2>3
  <2>5. sockets' = [sockets EXCEPT ![s] = sockets'[s]]
    BY <1>1, <2>2, <2>3
  <2>6. /\ sockets'[s].phase = "live" /\ sockets'[s].owner = r.owner
        /\ sockets'[s].run = engine.run /\ sockets'[s].sent = k
        /\ sockets'[s].events = <<Opened, x>>
    BY <1>1, <2>4 DEF Socket
  <2>. QED  BY <2>1, <2>4, <2>5, <2>6
<1>3. /\ Opened \in Event /\ Opened.kind = "open" /\ x \in Event
      /\ engine.compatible => x.kind = "hello" /\ x.run = engine.run
      /\ ~engine.compatible => x.kind = "version"
  BY <1>1, EventTypes
<1>4. <<Opened, x>> \in Seq(Event)
  BY <1>3
<1>5. q \in Socket
  BY <1>1, <1>2, <1>4 DEF Socket
<1>. HIDE DEF q, x
<1>. DEFINE t == q.events
<1>6. /\ Len(t) = 2 /\ t[1] = Opened /\ t[2] = x /\ t # <<>>
      /\ \A i \in 1..Len(t) : i = 1 \/ i = 2
  BY <1>2
<1>. HIDE DEF t
<1>7. /\ \A i \in 1..Len(t) : /\ t[i].kind # "close" /\ t[i].kind # "snapshot"
                              /\ t[i].kind = "hello" => t[i].run = q.run
      /\ engine.compatible => HasHello(t)
  BY <1>2, <1>3, <1>6 DEF HasHello
<1>8. EventsOK(q)
  BY <1>1, <1>2, <1>7 DEF EventsOK, t
<1>9. OfEngine(q, engine)
  BY <1>1, <1>2 DEF OfEngine
<1>10. CurrentOK(store, q, engine)
  <2>1. /\ store.current.run = engine.run => store.current.seq <= engine.published
        /\ store.current.seq \in Nat
    BY <1>1 DEF Inv, StoreOK, Store, Snapshot, None
  <2>2. store.current.run = q.run => store.current.seq <= q.sent + 1
    BY <1>1, <1>2, <2>1
  <2>. QED  BY <1>2, <1>7, <2>2 DEF CurrentOK, t
<1>11. UNCHANGED <<mounted, mounts, streams, store, engine, faults>>
  BY DEF Accept
<1>12. faults' \in 0..MaxFaults
  BY <1>11, Facts
<1>. QED  BY <1>1, <1>2, <1>5, <1>8, <1>9, <1>10, <1>11, <1>12, SocketStep DEF Reporting, r

\* A session without hello, from before the engine's first snapshot.
LEMMA AcceptEarlyStep ==
    ASSUME Inv, NEW s \in Sockets, AcceptEarly(s)
    PROVE  Inv'
<1>. DEFINE r == sockets[s]  q == sockets'[s]
<1>1. /\ r \in Socket /\ EventsOK(r) /\ OfEngine(r, engine)
      /\ r.phase = "connecting" /\ engine.up /\ engine.run \in Nat \ {0}
      /\ engine.published = 0 /\ store \in Store /\ r.sent = 0
      /\ sockets \in [Sockets -> Socket]
  BY Facts DEF AcceptEarly, EventsOK
<1>2. /\ sockets' = [sockets EXCEPT ![s] = q]
      /\ q.phase = "live" /\ q.owner = r.owner /\ q.run = engine.run
      /\ q.sent = 0 /\ q.events = <<Opened>>
      /\ q = [r EXCEPT !.phase = "live", !.run = engine.run, !.events = <<Opened>>]
  BY <1>1 DEF AcceptEarly, Socket
<1>3. Opened \in Event /\ Opened.kind = "open"
  BY EventTypes DEF Opened, Event
<1>4. <<Opened>> \in Seq(Event)
  BY <1>3
<1>5. q \in Socket
  BY <1>1, <1>2, <1>4 DEF Socket
<1>. HIDE DEF q
<1>. DEFINE t == q.events
<1>6. /\ Len(t) = 1 /\ t[1] = Opened /\ t # <<>>
      /\ \A i \in 1..Len(t) : i = 1
  BY <1>2
<1>. HIDE DEF t
<1>7. EventsOK(q)
  BY <1>1, <1>2, <1>3, <1>6 DEF EventsOK, t
<1>8. OfEngine(q, engine)
  BY <1>1, <1>2 DEF OfEngine
<1>9. /\ engine' = [engine EXCEPT !.early = TRUE] /\ engine'.early
      /\ UNCHANGED <<mounted, mounts, streams, store>>
      /\ faults' \in 0..MaxFaults
  BY Facts, StreamAssumption DEF AcceptEarly
<1>10. CurrentOK(store, q, engine')
  <2>1. /\ store.current.run = engine.run => store.current.seq <= engine.published
        /\ store.current.seq \in Nat
    BY <1>1 DEF Inv, StoreOK, Store, Snapshot, None
  <2>. QED  BY <1>1, <1>2, <1>3, <1>6, <1>9, <2>1 DEF CurrentOK, t
<1>. QED  BY <1>1, <1>2, <1>5, <1>7, <1>8, <1>9, <1>10, SocketStep DEF Reporting, r

\* A snapshot, an invalid frame or the refusal of a foreign protocol arrives.
LEMMA SendStep ==
    ASSUME Inv, NEW s \in Sockets, Send(s) \/ SendInvalid(s)
    PROVE  Inv'
<1>. DEFINE r == sockets[s]  q == sockets'[s]
<1>1. /\ r \in Socket /\ EventsOK(r) /\ OfEngine(r, engine)
      /\ r.phase = "live" /\ engine.up /\ engine.run \in Nat \ {0}
      /\ r.run = engine.run /\ r.sent <= engine.published /\ r.sent \in Nat
      /\ engine.published \in Nat /\ store \in Store
      /\ r.events \in Seq(Event)
      /\ sockets \in [Sockets -> Socket]
  BY Facts DEF Send, SendInvalid, OfEngine
<1>2. PICK k \in r.sent .. engine.published, x \in Event :
         /\ sockets' = [sockets EXCEPT ![s].sent = k, ![s].events = Append(@, x)]
         /\ x.kind # "hello" /\ x.kind # "close"
         /\ x.kind = "snapshot" => /\ x.snap.run = r.run /\ r.sent < x.snap.seq
                                   /\ x.snap.seq <= k /\ engine.compatible
  <2>1. CASE Send(s)
    <3>1. PICK k \in (r.sent + 1) .. engine.published :
             sockets' = [sockets EXCEPT ![s].sent = k,
                ![s].events = Append(@, IF engine.compatible
                                        THEN Frame(engine.run, k) ELSE Wrong)]
      BY <2>1 DEF Send
    <3>2. k \in Nat \ {0} /\ k \in r.sent .. engine.published /\ r.sent < k
      BY <1>1
    <3>. DEFINE x == IF engine.compatible THEN Frame(engine.run, k) ELSE Wrong
    <3>3. /\ x \in Event /\ x.kind # "hello" /\ x.kind # "close"
          /\ x.kind = "snapshot" => /\ x.snap.run = r.run /\ r.sent < x.snap.seq
                                    /\ x.snap.seq <= k /\ engine.compatible
      BY <1>1, <3>2, EventTypes
    <3>4. sockets' = [sockets EXCEPT ![s].sent = k, ![s].events = Append(@, x)]
      BY <3>1
    <3>. HIDE DEF x
    <3>. QED  BY <3>2, <3>3, <3>4
  <2>2. CASE SendInvalid(s)
    <3>1. /\ sockets' = [sockets EXCEPT ![s].events = Append(@, Invalid)]
          /\ Invalid \in Event /\ Invalid.kind = "invalid"
      BY <2>2 DEF SendInvalid, Invalid, Event
    <3>2. [r EXCEPT !.events = Append(r.events, Invalid)]
            = [r EXCEPT !.sent = r.sent, !.events = Append(r.events, Invalid)]
      BY <1>1 DEF Socket
    <3>3. sockets' = [sockets EXCEPT ![s].sent = r.sent, ![s].events = Append(@, Invalid)]
      BY <1>1, <3>1, <3>2
    <3>4. r.sent \in r.sent .. engine.published
      BY <1>1
    <3>. QED  BY <3>1, <3>3, <3>4
  <2>. QED  BY <2>1, <2>2
<1>3. /\ q.phase = "live" /\ q.owner = r.owner /\ q.run = r.run /\ q.sent = k
      /\ q.events = Append(r.events, x)
      /\ q = [r EXCEPT !.sent = k, !.events = Append(r.events, x)]
      /\ sockets' = [sockets EXCEPT ![s] = q]
  BY <1>1, <1>2 DEF Socket
<1>4. q \in Socket
  <2>1. Append(r.events, x) \in Seq(Event) /\ k \in Nat
    BY <1>1
  <2>. QED  BY <1>1, <1>3, <2>1 DEF Socket
<1>. HIDE DEF q, r
<1>5. EventsOK(q) /\ (CurrentOK(store, r, engine) => CurrentOK(store, q, engine))
  <2>1. r.phase # "dead" /\ r.phase # "unused" /\ r.sent <= q.sent
    BY <1>1, <1>3
  <2>2. x.kind = "snapshot" => /\ x.snap.run = r.run /\ r.sent < x.snap.seq
                               /\ x.snap.seq <= q.sent /\ engine.compatible
    BY <1>2, <1>3
  <2>. QED  BY <1>1, <1>2, <1>3, <1>4, <2>1, <2>2, AppendOK
<1>6. OfEngine(q, engine)
  BY <1>1, <1>3 DEF OfEngine
<1>7. /\ UNCHANGED <<mounted, mounts, streams, store, engine>>
      /\ faults' \in 0..MaxFaults
  BY Facts, StreamAssumption DEF Send, SendInvalid
<1>. QED  BY <1>1, <1>3, <1>4, <1>5, <1>6, <1>7, SocketStep DEF Reporting, r

\* A socket is refused, lost, or at the end of its close().
LEMMA EndStep ==
    ASSUME Inv, NEW s \in Sockets, Refuse(s) \/ Lose(s) \/ CloseEnds(s)
    PROVE  Inv'
<1>1. /\ sockets[s].phase \in {"connecting", "live", "closing"}
      /\ sockets' = [sockets EXCEPT ![s] = Die(s, 1006)]
      /\ UNCHANGED <<mounted, mounts, streams, store, engine>>
      /\ faults' \in 0..MaxFaults
  BY Facts, StreamAssumption DEF Refuse, Lose, CloseEnds
<1>2. /\ Die(s, 1006) \in Socket /\ Die(s, 1006).phase = "dead"
      /\ Die(s, 1006).owner = sockets[s].owner
      /\ EventsOK(Die(s, 1006)) /\ OfEngine(Die(s, 1006), engine)
      /\ CurrentOK(store, sockets[s], engine) => CurrentOK(store, Die(s, 1006), engine)
  BY <1>1, DieStep
<1>. DEFINE q == Die(s, 1006)
<1>3. /\ q \in Socket /\ q.phase = "dead" /\ q.phase \in Reporting
      /\ q.owner = sockets[s].owner /\ EventsOK(q) /\ OfEngine(q, engine)
  BY <1>2 DEF Reporting
<1>4. sockets' = [sockets EXCEPT ![s] = q] /\ engine' = engine
  BY <1>1
<1>5. CurrentOK(store, sockets[s], engine) => CurrentOK(store, q, engine')
  BY <1>2, <1>4
<1>. HIDE DEF q
<1>. QED  BY <1>1, <1>3, <1>4, <1>5, SocketStep

----------------------------------------------------------------------------
(* Steps of the engine.                                                    *)

\* A new run has published nothing and no socket is of it.
LEMMA EngineStartsStep ==
    ASSUME Inv, EngineStarts
    PROVE  Inv'
<1>1. /\ engine' \in [up : BOOLEAN, run : Nat, published : Nat,
                      compatible : BOOLEAN, early : BOOLEAN]
      /\ engine'.run = engine.run + 1 /\ engine'.run # 0
      /\ engine'.published = 0 /\ engine'.early = engine.early
      /\ ~engine.up
      /\ UNCHANGED <<mounted, mounts, streams, sockets, store, faults>>
  <2>. DEFINE n == engine.run + 1
  <2>1. n \in Nat /\ n # 0
    BY Facts
  <2>2. PICK ok \in BOOLEAN :
           engine' = [engine EXCEPT !.up = TRUE, !.run = n, !.published = 0,
                                    !.compatible = ok]
    BY DEF EngineStarts
  <2>. HIDE DEF n
  <2>3. /\ engine' \in [up : BOOLEAN, run : Nat, published : Nat,
                        compatible : BOOLEAN, early : BOOLEAN]
        /\ engine'.run = n /\ engine'.published = 0
        /\ engine'.early = engine.early
    BY <2>1, <2>2, Facts
  <2>. QED  BY <2>1, <2>3 DEF EngineStarts, n
<1>2. \A s \in Sockets : sockets[s].phase # "live" /\ OfEngine(sockets[s], engine')
  BY <1>1, Facts DEF OfEngine
<1>3. \A s \in Sockets : CurrentOK(store, sockets[s], engine) => CurrentOK(store, sockets[s], engine')
  BY <1>1, <1>2 DEF CurrentOK
<1>4. StoreOK(engine)'
  <2>1. store.current.run \in Nat /\ store.current.run <= engine.run
    BY Facts DEF Inv, StoreOK, Store, Snapshot, None
  <2>2. store.current.run <= engine'.run /\ store.current.run # engine'.run
    BY <1>1, <2>1, Facts
  <2>. QED  BY <1>1, <2>2, StoreFrame, Facts
<1>. QED  BY <1>1, <1>2, <1>3, <1>4, Facts, NetworkStep

\* One more snapshot is published.
LEMMA PublishStep ==
    ASSUME Inv, Publish
    PROVE  Inv'
<1>1. /\ engine' \in [up : BOOLEAN, run : Nat, published : Nat,
                      compatible : BOOLEAN, early : BOOLEAN]
      /\ engine'.run = engine.run /\ engine'.up = engine.up
      /\ engine'.published = engine.published + 1
      /\ engine'.early = engine.early /\ engine'.compatible = engine.compatible
      /\ UNCHANGED <<mounted, mounts, streams, sockets, store, faults>>
  <2>. DEFINE n == engine.published + 1
  <2>1. n \in Nat
    BY Facts
  <2>2. engine' = [engine EXCEPT !.published = n]
    BY DEF Publish
  <2>. HIDE DEF n
  <2>3. /\ engine' \in [up : BOOLEAN, run : Nat, published : Nat,
                        compatible : BOOLEAN, early : BOOLEAN]
        /\ engine'.run = engine.run /\ engine'.up = engine.up
        /\ engine'.published = n
        /\ engine'.early = engine.early /\ engine'.compatible = engine.compatible
    BY <2>1, <2>2, Facts
  <2>. QED  BY <2>3 DEF Publish, n
<1>2. \A s \in Sockets : OfEngine(sockets[s], engine')
  BY <1>1, Facts DEF OfEngine
<1>3. \A s \in Sockets : CurrentOK(store, sockets[s], engine) => CurrentOK(store, sockets[s], engine')
  BY <1>1 DEF CurrentOK
<1>4. StoreOK(engine)'
  <2>1. /\ store.current.seq \in Nat /\ store.current.run <= engine.run
        /\ store.current.run = engine.run => store.current.seq <= engine.published
    BY Facts DEF Inv, StoreOK, Store, Snapshot, None
  <2>2. store.current.run = engine'.run => store.current.seq <= engine'.published
    BY <1>1, <2>1, Facts
  <2>. QED  BY <1>1, <2>1, <2>2, StoreFrame, Facts
<1>. QED  BY <1>1, <1>2, <1>3, <1>4, Facts, NetworkStep

\* The engine ends and its connections with it; the snapshots under way stay.
LEMMA EngineEndsStep ==
    ASSUME Inv, NEW code \in {1000, 1006}, EngineEnds(code)
    PROVE  Inv'
<1>1. /\ engine' \in [up : BOOLEAN, run : Nat, published : Nat,
                      compatible : BOOLEAN, early : BOOLEAN]
      /\ engine'.run = engine.run /\ ~engine'.up
      /\ engine'.published = engine.published
      /\ engine'.early = engine.early
      /\ UNCHANGED <<mounted, mounts, streams, store, faults>>
  BY Facts DEF EngineEnds
<1>2. \A s \in Sockets : sockets'[s] = IF sockets[s].phase = "live"
                                       THEN Die(s, code) ELSE sockets[s]
  BY DEF EngineEnds
<1>3. ASSUME NEW s \in Sockets
      PROVE  /\ sockets'[s] \in Socket
             /\ sockets'[s].owner = sockets[s].owner
             /\ EventsOK(sockets'[s]) /\ OfEngine(sockets'[s], engine')
             /\ sockets'[s].phase \in {"connecting", "live"}
                  => sockets[s].phase \in {"connecting", "live"}
             /\ sockets[s].phase \in Reporting => sockets'[s].phase \in Reporting
             /\ CurrentOK(store, sockets[s], engine) => CurrentOK(store, sockets'[s], engine')
  <2>1. CASE sockets[s].phase = "live"
    <3>. DEFINE q == Die(s, code)
    <3>1. /\ q \in Socket /\ q.phase = "dead" /\ q.owner = sockets[s].owner
          /\ EventsOK(q) /\ OfEngine(q, engine)
          /\ CurrentOK(store, sockets[s], engine) => CurrentOK(store, q, engine)
      BY <2>1, DieStep
    <3>2. sockets'[s] = q
      BY <1>2, <2>1
    <3>. HIDE DEF q
    <3>3. OfEngine(q, engine') /\ (CurrentOK(store, q, engine) => CurrentOK(store, q, engine'))
      BY <1>1, <3>1 DEF OfEngine, CurrentOK
    <3>. QED  BY <2>1, <3>1, <3>2, <3>3 DEF Reporting
  <2>2. CASE sockets[s].phase # "live"
    <3>1. sockets'[s] = sockets[s]
      BY <1>2, <2>2
    <3>2. OfEngine(sockets[s], engine')
          /\ (CurrentOK(store, sockets[s], engine) => CurrentOK(store, sockets[s], engine'))
      BY <1>1, <2>2, Facts DEF OfEngine, CurrentOK
    <3>. QED  BY <3>1, <3>2, Facts
  <2>. QED  BY <2>1, <2>2
<1>4. StoreOK(engine)'
  BY <1>1, StoreFrame DEF Inv, StoreOK
<1>5. sockets' \in [Sockets -> Socket]
  BY <1>3 DEF EngineEnds
<1>. QED  BY <1>1, <1>3, <1>4, <1>5, Facts, NetworkStep

\* Every step of the network and the engine keeps the invariant.
LEMMA NetworkKeeps ==
    ASSUME Inv, Network
    PROVE  Inv'
  BY AcceptStep, AcceptEarlyStep, SendStep, EndStep, EngineStartsStep, PublishStep,
     EngineEndsStep DEF Network

----------------------------------------------------------------------------
(***************************************************************************)
(* The store's operators.                                                  *)
(***************************************************************************)
Blank(st) == st.current = None /\ st.previous = None /\ st.log = <<>>

SameData(st, s) == /\ s.current = st.current /\ s.previous = st.previous
                   /\ s.log = st.log

\* A status whose hello began the session already: only a version mismatch
\* touches the data.
LEMMA StatusSame ==
    ASSUME NEW st \in Store, NEW status \in StreamStatus,
           status.hello # NoRun => st.session = status.hello
    PROVE  /\ OnStatus(st, status) \in Store
           /\ OnStatus(st, status).status = status
           /\ OnStatus(st, status).session = st.session
           /\ IF status.state = "version-mismatch" THEN Blank(OnStatus(st, status))
              ELSE SameData(st, OnStatus(st, status))
<1>. DEFINE s == [st EXCEPT !.status = status]
            i == [s EXCEPT !.interval = status.hello]
            h == IF status.hello = NoRun THEN s ELSE i
<1>1. status.hello \in Nat
  BY DEF StreamStatus
<1>2. /\ s \in Store /\ s.status = status /\ s.session = st.session
      /\ SameData(st, s)
  BY DEF Store, SameData
<1>3. /\ i \in Store /\ i.status = status /\ i.session = st.session
      /\ SameData(st, i)
  BY <1>1 DEF Store, SameData
<1>4. BeginSession(i, status.hello) = i \/ status.hello = NoRun
  BY <1>3 DEF BeginSession
<1>5. OnStatus(st, status)
        = IF status.state = "version-mismatch" THEN ClearSnapshots(h) ELSE h
  BY <1>4 DEF OnStatus
<1>. HIDE DEF s, i
<1>6. /\ h \in Store /\ h.status = status /\ h.session = st.session
      /\ SameData(st, h)
  BY <1>2, <1>3
<1>. HIDE DEF h
<1>7. /\ ClearSnapshots(h) \in Store /\ ClearSnapshots(h).status = status
      /\ ClearSnapshots(h).session = st.session /\ Blank(ClearSnapshots(h))
  <2>1. <<>> \in Seq(Snapshot)
    OBVIOUS
  <2>. QED  BY <1>6, <2>1 DEF ClearSnapshots, Store, Blank
<1>. QED  BY <1>5, <1>6, <1>7

\* A hello: its session begins, and keeps the data only if it had begun before.
LEMMA StatusHello ==
    ASSUME NEW st \in Store, NEW status \in StreamStatus,
           status.hello # NoRun, status.state # "version-mismatch"
    PROVE  /\ OnStatus(st, status) \in Store
           /\ OnStatus(st, status).status = status
           /\ OnStatus(st, status).session = status.hello
           /\ IF st.session = status.hello THEN SameData(st, OnStatus(st, status))
              ELSE Blank(OnStatus(st, status))
<1>1. CASE st.session = status.hello
  BY <1>1, StatusSame
<1>2. CASE st.session # status.hello
  <2>. DEFINE s == [[st EXCEPT !.status = status] EXCEPT !.interval = status.hello]
              c == ClearSnapshots(s)
  <2>1. status.hello \in Nat /\ <<>> \in Seq(Snapshot)
    BY DEF StreamStatus
  <2>2. s \in Store /\ s.status = status /\ s.session = st.session
    BY <2>1 DEF Store
  <2>3. OnStatus(st, status) = [c EXCEPT !.session = status.hello]
    BY <1>2, <2>2 DEF OnStatus, BeginSession
  <2>. HIDE DEF s
  <2>4. c \in Store /\ c.status = status /\ Blank(c)
    BY <2>1, <2>2 DEF ClearSnapshots, Store, Blank
  <2>. HIDE DEF c
  <2>. QED  BY <1>2, <2>1, <2>3, <2>4 DEF Store, Blank
<1>. QED  BY <1>1, <1>2

\* The data are as before or gone.
LEMMA StoreSame ==
    ASSUME Inv, store' \in Store, engine' = engine,
           \/ SameData(store, store') /\ store'.session = store.session
           \/ Blank(store'),
           store'.status.state = "version-mismatch" => Blank(store')
    PROVE  StoreOK(engine)'
<1>1. None.run = 0 /\ None.seq = 0
  BY DEF None
<1>2. CASE SameData(store, store') /\ store'.session = store.session
  BY <1>2 DEF Inv, StoreOK, BlankOnMismatch, OneEngineInStore, LogInOrder, SameData, Blank
<1>3. CASE Blank(store')
  BY <1>1, <1>3, Facts DEF StoreOK, BlankOnMismatch, OneEngineInStore, LogInOrder, Blank
<1>. QED  BY <1>2, <1>3

\* What the socket has yet to report suits them as before.
LEMMA CurrentSame ==
    ASSUME NEW r, NEW e, CurrentOK(store, r, e),
           \/ SameData(store, store') /\ store'.session = store.session
           \/ Blank(store') /\ store'.session = store.session
    PROVE  CurrentOK(store', r, e)
  BY DEF CurrentOK, SameData, Blank

----------------------------------------------------------------------------
(***************************************************************************)
(* Steps of the page.  m is the mounted stream after the step, q its       *)
(* object; the other streams have neither a timer nor a socket.            *)
(***************************************************************************)
LEMMA PageStep ==
    ASSUME Inv, NEW m \in Mounts, NEW q \in Stream,
           mounted' = m, mounts' \in 0..MaxMounts, m <= mounts',
           streams' = [streams EXCEPT ![m] = q],
           \A k \in Mounts : k # m => streams[k].timer = 0 /\ streams[k].socket = NoSocket,
           sockets' \in [Sockets -> Socket],
           \A s \in Sockets :
              /\ EventsOK(sockets'[s]) /\ OfEngine(sockets'[s], engine)
              /\ sockets'[s].phase \in {"connecting", "live"}
                   => sockets'[s].owner = m /\ q.socket = s,
           engine' = engine, faults' \in 0..MaxFaults,
           store' \in Store, StoreOK(engine)',
           ~q.stopped, store'.status = q.status,
           q.status.hello # NoRun => store'.session = q.status.hello,
           q.timer # 0 => q.socket = NoSocket,
           q.timer # 0 \/ q.socket # NoSocket \/ q.status.state = "version-mismatch",
           q.socket # NoSocket =>
              /\ sockets'[q.socket].owner = m
              /\ sockets'[q.socket].phase \in Reporting
              /\ q.status.state # "version-mismatch"
              /\ CurrentOK(store', sockets'[q.socket], engine)
    PROVE  Inv'
<1>1. /\ streams' \in [Mounts -> Stream] /\ streams'[m] = q
      /\ \A k \in Mounts : k # m => streams'[k] = streams[k]
  BY Facts
<1>2. m \in Nat /\ m # 0 /\ m \in 0..MaxMounts /\ q.socket \in Sockets \cup {NoSocket}
  BY StreamAssumption DEF Mounts, Stream
<1>3. TypeOK'
  BY <1>1, <1>2 DEF Inv, TypeOK
<1>4. \A k \in Mounts : StreamOK(k)'
  BY <1>1 DEF StreamOK
<1>5. AtMostOne'
  BY <1>1, <1>4 DEF AtMostOne, StreamOK
<1>6. NeverIdle'
  <2>1. \A s \in Sockets : sockets'[s].phase \in Reporting
           => sockets'[s].phase \in {"connecting", "live"} \/ sockets'[s].events # <<>>
    BY DEF Reporting, EventsOK
  <2>. QED  BY <1>1, <1>2, <2>1 DEF NeverIdle
<1>7. PageOK'
  BY <1>1 DEF PageOK
<1>8. mounted' # 0 /\ streams'[mounted'].socket # NoSocket
         => CurrentOK(store', sockets'[streams'[mounted'].socket], engine')
  BY <1>1
<1>9. \A s \in Sockets : EventsOK(sockets'[s]) /\ OfEngine(sockets'[s], engine')
  OBVIOUS
<1>10. engine'.up => engine'.run # 0
  BY Facts
<1>. QED  BY <1>3, <1>4, <1>5, <1>6, <1>7, <1>8, <1>9, <1>10 DEF Inv

\* close() on a socket changes at most its phase.
LEMMA CloseSocketOK ==
    ASSUME NEW all \in [Sockets -> Socket], NEW s \in Sockets \cup {NoSocket},
           \A t \in Sockets : EventsOK(all[t]) /\ OfEngine(all[t], engine),
           \A t \in Sockets : all[t].phase \in {"connecting", "live"} => t = s
    PROVE  /\ CloseSocket(all, s) \in [Sockets -> Socket]
           /\ \A t \in Sockets : /\ EventsOK(CloseSocket(all, s)[t])
                                 /\ OfEngine(CloseSocket(all, s)[t], engine)
                                 /\ CloseSocket(all, s)[t].phase
                                      \notin {"connecting", "live"}
<1>1. CASE s \in Sockets /\ all[s].phase \in {"connecting", "live"}
  <2>. DEFINE r == all[s]  q == [r EXCEPT !.phase = "closing"]
  <2>1. /\ r \in Socket /\ EventsOK(r) /\ OfEngine(r, engine)
    BY <1>1
  <2>2. CloseSocket(all, s) = [all EXCEPT ![s] = q]
    BY <1>1 DEF CloseSocket
  <2>3. /\ q \in Socket /\ q.phase = "closing" /\ q.events = r.events
        /\ q.owner = r.owner /\ q.run = r.run /\ q.sent = r.sent
    BY <2>1 DEF Socket
  <2>4. r.phase # "dead" /\ r.phase # "unused"
    BY <1>1
  <2>. HIDE DEF q, r
  <2>5. EventsOK(q) /\ OfEngine(q, engine)
    BY <2>1, <2>3, <2>4 DEF EventsOK, OfEngine
  <2>. QED  BY <1>1, <2>2, <2>3, <2>5
<1>2. CASE ~(s \in Sockets /\ all[s].phase \in {"connecting", "live"})
  BY <1>2 DEF CloseSocket
<1>. QED  BY <1>1, <1>2

\* An unused socket, and one that begins to connect for stream m.
LEMMA FreshSocket ==
    ASSUME NEW m \in Mounts, engine.run \in Nat, engine.published \in Nat
    PROVE  LET r == [UnusedSocket EXCEPT !.phase = "connecting", !.owner = m]
           IN  /\ UnusedSocket \in Socket /\ UnusedSocket.phase = "unused"
               /\ EventsOK(UnusedSocket) /\ OfEngine(UnusedSocket, engine)
               /\ r \in Socket /\ r.phase = "connecting" /\ r.owner = m
               /\ EventsOK(r) /\ OfEngine(r, engine)
               /\ r.events = <<>>
<1>. DEFINE r == [UnusedSocket EXCEPT !.phase = "connecting", !.owner = m]
<1>1. m \in Nat /\ <<>> \in Seq(Event)
  BY StreamAssumption DEF Mounts
<1>2. UnusedSocket \in Socket
  BY <1>1 DEF Socket, UnusedSocket
<1>3. /\ r \in Socket /\ r.phase = "connecting" /\ r.owner = m
      /\ r.run = UnusedSocket.run /\ r.sent = UnusedSocket.sent
      /\ r.events = UnusedSocket.events
  BY <1>1, <1>2 DEF Socket
<1>4. /\ UnusedSocket.phase = "unused" /\ UnusedSocket.run = 0
      /\ UnusedSocket.sent = 0 /\ UnusedSocket.events = <<>>
  BY DEF UnusedSocket
<1>. HIDE DEF r
<1>5. EventsOK(r) /\ EventsOK(UnusedSocket)
  BY <1>3, <1>4 DEF EventsOK
<1>6. OfEngine(r, engine) /\ OfEngine(UnusedSocket, engine)
  BY <1>3, <1>4 DEF OfEngine
<1>. QED  BY <1>2, <1>3, <1>4, <1>5, <1>6 DEF r

\* connect() of the mounted stream, when no other connection is left.
LEMMA ConnectStep ==
    ASSUME Inv, mounted # 0, NEW r \in Stream, ~r.stopped, r.timer = 0,
           r.status = streams[mounted].status,
           NEW all \in [Sockets -> Socket],
           \A s \in Sockets : /\ EventsOK(all[s]) /\ OfEngine(all[s], engine)
                              /\ all[s].phase \notin {"connecting", "live"},
           Connect(mounted, r, all),
           UNCHANGED <<mounted, mounts, engine>>, faults' \in 0..MaxFaults
    PROVE  Inv'
<1>. DEFINE m == mounted
            status == [r.status EXCEPT !.state = "connecting"]
            new == [UnusedSocket EXCEPT !.phase = "connecting", !.owner = m]
<1>1. /\ m \in Mounts /\ m <= mounts /\ mounts \in 0..MaxMounts
      /\ store \in Store
  BY Facts DEF Inv, PageOK
<1>2. PICK s \in Sockets :
         /\ sockets' = [all EXCEPT ![s] = new]
         /\ streams' = [streams EXCEPT ![m] = [r EXCEPT !.status = status, !.socket = s]]
         /\ store' = OnStatus(store, status)
  BY DEF Connect
<1>. DEFINE q == [r EXCEPT !.status = status, !.socket = s]
<1>3. /\ r.status \in StreamStatus /\ status \in StreamStatus
      /\ status.state = "connecting" /\ status.hello = r.status.hello
  BY DEF Stream, StreamStatus, States
<1>. HIDE DEF status
<1>4. /\ q \in Stream /\ q.socket = s /\ q.status = status /\ q.timer = 0
      /\ ~q.stopped
  BY <1>3 DEF Stream
<1>. HIDE DEF q
<1>5. status.hello # NoRun => store.session = status.hello
  BY <1>3 DEF Inv, PageOK
<1>6. /\ store' \in Store /\ store'.status = status /\ store'.session = store.session
      /\ SameData(store, store')
  BY <1>1, <1>2, <1>3, <1>5, StatusSame
<1>7. StoreOK(engine)'
  BY <1>3, <1>6, StoreSame
<1>8. /\ new \in Socket /\ new.phase = "connecting" /\ new.owner = m
      /\ EventsOK(new) /\ OfEngine(new, engine) /\ new.events = <<>>
  BY <1>1, Facts, FreshSocket
<1>. HIDE DEF new
<1>9. CurrentOK(store', new, engine)
  BY <1>8 DEF CurrentOK
<1>10. s # NoSocket
  BY SocketAssumption
<1>11. \A k \in Mounts : k # m => streams[k].timer = 0 /\ streams[k].socket = NoSocket
  BY Facts DEF StreamOK
<1>12. /\ sockets' \in [Sockets -> Socket] /\ sockets'[s] = new
       /\ \A t \in Sockets : t # s => sockets'[t] = all[t]
  BY <1>2, <1>8
<1>13. streams' = [streams EXCEPT ![m] = q]
  BY <1>2 DEF q
<1>. HIDE DEF m
<1>14. mounted' = m /\ mounts' = mounts /\ engine' = engine
  BY DEF m
<1>15. \A t \in Sockets :
              /\ EventsOK(sockets'[t]) /\ OfEngine(sockets'[t], engine)
              /\ sockets'[t].phase \in {"connecting", "live"}
                   => sockets'[t].owner = m /\ q.socket = t
  BY <1>4, <1>8, <1>12
<1>16. q.socket # NoSocket =>
              /\ sockets'[q.socket].owner = m
              /\ sockets'[q.socket].phase \in Reporting
              /\ q.status.state # "version-mismatch"
              /\ CurrentOK(store', sockets'[q.socket], engine)
  BY <1>3, <1>4, <1>8, <1>9, <1>12 DEF Reporting
<1>. QED  BY <1>1, <1>3, <1>4, <1>5, <1>6, <1>7, <1>10, <1>11, <1>12, <1>13, <1>14, <1>15,
             <1>16, PageStep

\* start(): whatever timer or connection there was is given up first.
LEMMA RestartStep ==
    ASSUME Inv, Restart
    PROVE  Inv'
<1>. DEFINE r == [streams[mounted] EXCEPT !.stopped = FALSE, !.timer = 0]
            all == CloseSocket(sockets, streams[mounted].socket)
<1>1. mounted \in Mounts /\ mounted # 0 /\ streams[mounted] \in Stream
  BY Facts DEF Restart
<1>2. r \in Stream /\ ~r.stopped /\ r.timer = 0 /\ r.status = streams[mounted].status
  BY <1>1 DEF Stream, Delays
<1>3. /\ all \in [Sockets -> Socket]
      /\ \A s \in Sockets : /\ EventsOK(all[s]) /\ OfEngine(all[s], engine)
                            /\ all[s].phase \notin {"connecting", "live"}
  <2>1. \A t \in Sockets : sockets[t].phase \in {"connecting", "live"}
           => t = streams[mounted].socket
    BY DEF Inv, AtMostOne
  <2>. QED  BY <1>1, <2>1, Facts, CloseSocketOK
<1>4. /\ Connect(mounted, r, all) /\ UNCHANGED <<mounted, mounts, engine>>
      /\ faults' \in 0..MaxFaults
  BY Facts, StreamAssumption DEF Restart, Start
<1>. HIDE DEF r, all
<1>. QED  BY <1>1, <1>2, <1>3, <1>4, ConnectStep

\* The timer of a stream fires: it is the mounted one and has no socket.
LEMMA TimerStep ==
    ASSUME Inv, NEW m \in Mounts, TimerFires(m)
    PROVE  Inv'
<1>. DEFINE r == [streams[m] EXCEPT !.timer = 0]
<1>1. /\ m = mounted /\ mounted # 0 /\ streams[m].socket = NoSocket
      /\ streams[m] \in Stream /\ ~streams[m].stopped
  <2>1. m # 0
    BY DEF Mounts
  <2>2. m = mounted /\ streams[m].socket = NoSocket
    BY Facts DEF TimerFires, StreamOK
  <2>. QED  BY <2>1, <2>2, Facts DEF Inv, PageOK
<1>2. r \in Stream /\ ~r.stopped /\ r.timer = 0 /\ r.status = streams[mounted].status
  BY <1>1 DEF Stream, Delays
<1>3. \A s \in Sockets : sockets[s].phase \notin {"connecting", "live"}
  BY <1>1, SocketAssumption DEF Inv, AtMostOne
<1>4. /\ Connect(mounted, r, sockets) /\ UNCHANGED <<mounted, mounts, engine>>
      /\ faults' \in 0..MaxFaults
  BY <1>1, Facts DEF TimerFires
<1>. HIDE DEF r
<1>. QED  BY <1>1, <1>2, <1>3, <1>4, Facts, ConnectStep

\* The emptied store.
LEMMA ResetStore ==
    /\ Reset \in Store /\ Blank(Reset) /\ Reset.status = InitialStatus
    /\ InitialStatus \in StreamStatus /\ InitialStatus.hello = NoRun
    /\ Reset.session = NoRun /\ NewStream \in Stream /\ NewStream.timer = 0
    /\ ~NewStream.stopped /\ NewStream.socket = NoSocket
<1>1. InitialStatus \in StreamStatus /\ InitialStatus.hello = NoRun
  BY DEF InitialStatus, StreamStatus, States, NoRun
<1>2. <<>> \in Seq(Snapshot)
  OBVIOUS
<1>3. Reset \in Store /\ Blank(Reset) /\ Reset.status = InitialStatus
  BY <1>1, <1>2 DEF Reset, Store, Blank, NoRun
<1>4. 0 \in Delays /\ BACKOFF_START_MS \in Delays \ {0}
  BY DEF Delays, BACKOFF_START_MS
<1>5. NewStream \in Stream
  BY <1>1, <1>4 DEF NewStream, Stream
<1>. QED  BY <1>1, <1>3, <1>5 DEF NewStream, Reset

\* A new mount: the page begins with an empty store and its first connection.
LEMMA MountStep ==
    ASSUME Inv, Mount
    PROVE  Inv'
<1>. DEFINE m == mounts + 1
            status == [InitialStatus EXCEPT !.state = "connecting"]
            new == [UnusedSocket EXCEPT !.phase = "connecting", !.owner = m]
<1>1. /\ m \in Mounts /\ m \in 0..MaxMounts /\ mounted = 0
      /\ mounts' = m /\ mounted' = m
      /\ engine' = engine /\ faults' \in 0..MaxFaults /\ m <= m
  BY Facts, StreamAssumption DEF Mount, Mounts
<1>2. PICK s \in Free :
         /\ sockets' = [sockets EXCEPT ![s] = new]
         /\ streams' = [streams EXCEPT ![m] =
                          [NewStream EXCEPT !.status = status, !.socket = s]]
         /\ store' = OnStatus(Reset, status)
  BY DEF Mount
<1>. DEFINE q == [NewStream EXCEPT !.status = status, !.socket = s]
<1>3. status \in StreamStatus /\ status.state = "connecting" /\ status.hello = NoRun
  BY ResetStore DEF StreamStatus, States
<1>4. s \in Sockets /\ s # NoSocket
  BY SocketAssumption DEF Free
<1>. HIDE DEF status
<1>5. /\ q \in Stream /\ q.socket = s /\ q.status = status /\ q.timer = 0
      /\ ~q.stopped
  BY <1>3, <1>4, ResetStore DEF Stream
<1>6. streams' = [streams EXCEPT ![m] = q]
  BY <1>2
<1>. HIDE DEF q
<1>7. store' \in Store /\ store'.status = status /\ Blank(store')
  BY <1>2, <1>3, ResetStore, StatusSame DEF SameData, Blank
<1>8. StoreOK(engine)'
  BY <1>1, <1>7, StoreSame
<1>9. /\ new \in Socket /\ new.phase = "connecting" /\ new.owner = m
      /\ EventsOK(new) /\ OfEngine(new, engine) /\ new.events = <<>>
  BY <1>1, Facts, FreshSocket
<1>. HIDE DEF new
<1>10. CurrentOK(store', new, engine)
  BY <1>9 DEF CurrentOK
<1>11. \A k \in Mounts : streams[k].timer = 0 /\ streams[k].socket = NoSocket
  <2>1. \A k \in Mounts : k # mounted
    BY <1>1 DEF Mounts
  <2>. QED  BY <2>1, Facts DEF StreamOK
<1>12. /\ sockets' \in [Sockets -> Socket] /\ sockets'[s] = new
       /\ \A t \in Sockets : t # s => sockets'[t] = sockets[t]
  BY <1>2, <1>4, <1>9, Facts
<1>13. \A t \in Sockets : sockets[t].phase \notin {"connecting", "live"}
  <2>1. \A t \in Sockets : sockets[t].phase # "unused" => sockets[t].owner \in Mounts
    BY Facts DEF EventsOK
  <2>2. 0 \notin Mounts
    BY DEF Mounts
  <2>. QED  BY <1>1, <2>1, <2>2 DEF Inv, AtMostOne
<1>. HIDE DEF m
<1>14. \A t \in Sockets :
              /\ EventsOK(sockets'[t]) /\ OfEngine(sockets'[t], engine)
              /\ sockets'[t].phase \in {"connecting", "live"}
                   => sockets'[t].owner = m /\ q.socket = t
  BY <1>5, <1>9, <1>12, <1>13, Facts
<1>15. /\ sockets'[q.socket].owner = m
       /\ sockets'[q.socket].phase \in Reporting
       /\ q.status.state # "version-mismatch"
       /\ CurrentOK(store', sockets'[q.socket], engine)
  BY <1>3, <1>5, <1>9, <1>10, <1>12 DEF Reporting
<1>. QED  BY <1>1, <1>3, <1>4, <1>5, <1>6, <1>7, <1>8, <1>11, <1>12, <1>14, <1>15, PageStep

\* The cleanup of the hook leaves neither a timer nor a connection.
LEMMA UnmountStep ==
    ASSUME Inv, Unmount
    PROVE  Inv'
<1>. DEFINE m == mounted  q == Stopped(streams[m])
<1>1. /\ m \in Mounts /\ m # 0 /\ mounted' = 0 /\ streams[m] \in Stream
      /\ streams' = [streams EXCEPT ![m] = q]
      /\ sockets' = CloseSocket(sockets, streams[m].socket)
      /\ UNCHANGED <<mounts, store, engine, faults>>
  BY Facts DEF Unmount
<1>2. q \in Stream /\ q.timer = 0 /\ q.socket = NoSocket
  <2>1. 0 \in Delays /\ BACKOFF_START_MS \in Delays \ {0}
    BY DEF Delays, BACKOFF_START_MS
  <2>. QED  BY <1>1, <2>1 DEF Stopped, Stream
<1>. HIDE DEF q
<1>3. /\ sockets' \in [Sockets -> Socket]
      /\ \A s \in Sockets : /\ EventsOK(sockets'[s]) /\ OfEngine(sockets'[s], engine)
                            /\ sockets'[s].phase \notin {"connecting", "live"}
  <2>1. \A t \in Sockets : sockets[t].phase \in {"connecting", "live"}
           => t = streams[m].socket
    BY DEF Inv, AtMostOne
  <2>. QED  BY <1>1, <2>1, Facts, CloseSocketOK
<1>4. /\ streams' \in [Mounts -> Stream] /\ streams'[m] = q
      /\ \A k \in Mounts : k # m => streams'[k] = streams[k]
  BY <1>1, <1>2, Facts
<1>5. \A k \in Mounts : streams'[k].timer = 0 /\ streams'[k].socket = NoSocket
  BY <1>2, <1>4, Facts DEF StreamOK
<1>6. TypeOK'
  BY <1>1, <1>3, <1>4, StreamAssumption DEF Inv, TypeOK
<1>7. AtMostOne' /\ NeverIdle'
  BY <1>1, <1>3, <1>5 DEF AtMostOne, NeverIdle
<1>8. \A k \in Mounts : StreamOK(k)'
  BY <1>5 DEF StreamOK
<1>9. PageOK'
  BY <1>1, Facts DEF PageOK
<1>10. StoreOK(engine)'
  BY <1>1 DEF Inv, StoreOK, BlankOnMismatch, OneEngineInStore, LogInOrder
<1>. QED  BY <1>1, <1>3, <1>6, <1>7, <1>8, <1>9, <1>10 DEF Inv

----------------------------------------------------------------------------
(***************************************************************************)
(* Delivery of an event.                                                   *)
(***************************************************************************)
Rest(r) == IF r.phase = "dead" /\ Tail(r.events) = <<>> THEN UnusedSocket
           ELSE [r EXCEPT !.events = Tail(r.events)]

\* The socket after its next event has been taken.  Snapshots follow hello and
\* are newer than those taken; the close comes last.
LEMMA RestOK ==
    ASSUME Inv, NEW r \in Socket, EventsOK(r), OfEngine(r, engine), r.events # <<>>
    PROVE  /\ Head(r.events) \in Event
           /\ Rest(r) \in Socket /\ EventsOK(Rest(r)) /\ OfEngine(Rest(r), engine)
           /\ \/ Rest(r).phase = "unused"
              \/ Rest(r).phase = r.phase /\ Rest(r).owner = r.owner
           /\ Head(r.events).kind = "close" =>
                 r.phase = "dead" /\ Rest(r).phase = "unused"
           /\ Head(r.events).kind # "close" =>
                 /\ Rest(r).phase = r.phase /\ Rest(r).owner = r.owner
                 /\ Rest(r).run = r.run /\ Rest(r).sent = r.sent
                 /\ Rest(r).events = Tail(r.events)
<1>. DEFINE p == r.events  t == Tail(p)  x == Head(p)  q == [r EXCEPT !.events = t]
<1>1. /\ p \in Seq(Event) /\ t \in Seq(Event) /\ x \in Event /\ x = p[1]
      /\ Len(p) \in Nat \ {0} /\ Len(t) = Len(p) - 1
      /\ \A i \in 1..Len(t) : t[i] = p[i + 1] /\ i + 1 \in 1..Len(p)
  BY DEF Socket
<1>2. /\ q \in Socket /\ q.phase = r.phase /\ q.owner = r.owner /\ q.run = r.run
      /\ q.sent = r.sent /\ q.events = t
  BY <1>1 DEF Socket
<1>3. r.phase # "unused" /\ r.phase # "connecting"
  BY DEF EventsOK
<1>. HIDE DEF p, t, x, q
<1>4. x.kind = "close" => r.phase = "dead" /\ Len(p) = 1 /\ t = <<>>
  <2>1. 1 \in 1..Len(p)
    BY <1>1
  <2>2. x.kind = "close" => r.phase = "dead" /\ 1 = Len(p)
    BY <1>1, <2>1 DEF EventsOK, p
  <2>3. Len(p) = 1 => t = <<>>
    BY <1>1
  <2>. QED  BY <2>2, <2>3
<1>5. r.phase = "dead" /\ x.kind # "close" => t # <<>>
  <2>1. r.phase = "dead" => p[Len(p)].kind = "close"
    BY DEF EventsOK, p
  <2>2. t = <<>> => Len(p) = 1
    BY <1>1
  <2>. QED  BY <1>1, <2>1, <2>2
<1>6. ~(r.phase = "dead" /\ t = <<>>) => EventsOK(q)
  <2>. SUFFICES ASSUME ~(r.phase = "dead" /\ t = <<>>) PROVE EventsOK(q)
    OBVIOUS
  <2>1. t # <<>> => t[Len(t)] = p[Len(p)]
    BY <1>1
  <2>2. /\ \A i \in 1..Len(p) :
             /\ p[i].kind = "close" => r.phase = "dead" /\ i = Len(p)
             /\ p[i].kind = "hello" => p[i].run = r.run
             /\ p[i].kind = "snapshot" => p[i].snap.run = r.run /\ p[i].snap.seq <= r.sent
        /\ \A i, j \in 1..Len(p) : i < j /\ p[i].kind = "snapshot" =>
              /\ p[j].kind # "hello"
              /\ p[j].kind = "snapshot" => p[i].snap.seq < p[j].snap.seq
        /\ r.phase # "unused" => r.owner \in Mounts
        /\ r.phase = "dead" => p # <<>> /\ p[Len(p)].kind = "close"
    BY DEF EventsOK, p
  <2>3. \A i \in 1..Len(t) :
             /\ t[i].kind = "close" => r.phase = "dead" /\ i = Len(t)
             /\ t[i].kind = "hello" => t[i].run = r.run
             /\ t[i].kind = "snapshot" => t[i].snap.run = r.run /\ t[i].snap.seq <= r.sent
    BY <1>1, <2>2
  <2>4. \A i, j \in 1..Len(t) : i < j /\ t[i].kind = "snapshot" =>
              /\ t[j].kind # "hello"
              /\ t[j].kind = "snapshot" => t[i].snap.seq < t[j].snap.seq
    BY <1>1, <2>2
  <2>. QED  BY <1>2, <1>3, <2>1, <2>2, <2>3, <2>4 DEF EventsOK
<1>7. OfEngine(q, engine)
  BY <1>2 DEF OfEngine
<1>8. Rest(r) = IF r.phase = "dead" /\ t = <<>> THEN UnusedSocket ELSE q
  BY DEF Rest, q, t, p
<1>9. /\ UnusedSocket \in Socket /\ UnusedSocket.phase = "unused"
      /\ EventsOK(UnusedSocket) /\ OfEngine(UnusedSocket, engine)
  <2>1. r.owner \in Mounts
    BY <1>3 DEF EventsOK
  <2>. QED  BY <2>1, Facts, FreshSocket
<1>10. /\ x.kind = "close" => Rest(r) = UnusedSocket
       /\ x.kind # "close" => Rest(r) = q
  BY <1>4, <1>5, <1>8
<1>11. /\ Rest(r) \in Socket /\ EventsOK(Rest(r)) /\ OfEngine(Rest(r), engine)
       /\ \/ Rest(r).phase = "unused"
          \/ Rest(r).phase = r.phase /\ Rest(r).owner = r.owner
  BY <1>2, <1>6, <1>7, <1>8, <1>9
<1>. QED  BY <1>1, <1>2, <1>4, <1>9, <1>10, <1>11 DEF x, t, p

\* What is left suits a store st that the event taken left as it was.
LEMMA RestCurrent ==
    ASSUME Inv, NEW r \in Socket, EventsOK(r), OfEngine(r, engine), r.events # <<>>,
           NEW st, Head(r.events).kind \in {"open", "invalid"},
           CurrentOK(st, r, engine)
    PROVE  CurrentOK(st, Rest(r), engine)
<1>. DEFINE p == r.events  t == Tail(p)
<1>1. /\ p \in Seq(Event) /\ t \in Seq(Event) /\ Head(p) = p[1]
      /\ Len(p) \in Nat \ {0} /\ Len(t) = Len(p) - 1
      /\ \A i \in 1..Len(t) : t[i] = p[i + 1] /\ i + 1 \in 1..Len(p)
  BY DEF Socket
<1>2. /\ Rest(r).phase = r.phase /\ Rest(r).run = r.run /\ Rest(r).sent = r.sent
      /\ Rest(r).events = t
  BY RestOK
<1>3. p[1].kind # "hello"
  BY <1>1
<1>. HIDE DEF p, t
<1>4. HasHello(p) => HasHello(t)
  <2>. SUFFICES ASSUME NEW i \in 1..Len(p), p[i].kind = "hello" PROVE HasHello(t)
    BY DEF HasHello
  <2>1. i - 1 \in 1..Len(t) /\ (i - 1) + 1 = i
    BY <1>1, <1>3
  <2>2. t[i - 1].kind = "hello"
    BY <1>1, <2>1
  <2>. QED  BY <2>1, <2>2 DEF HasHello
<1>5. /\ (\A i \in 1..Len(p) : p[i].kind = "snapshot" => st.current.seq <= p[i].snap.seq)
           => \A i \in 1..Len(t) : t[i].kind = "snapshot" => st.current.seq <= t[i].snap.seq
      /\ (\A i \in 1..Len(p) : p[i].kind # "snapshot")
           => \A i \in 1..Len(t) : t[i].kind # "snapshot"
  BY <1>1
<1>. QED  BY <1>2, <1>4, <1>5 DEF CurrentOK, p

\* A socket that is not its stream's own reports to nobody.
LEMMA StaleDelivery ==
    ASSUME Inv, NEW s \in Sockets, Deliver(s), ~IsCurrent(sockets[s].owner, s)
    PROVE  Inv'
<1>. DEFINE r == sockets[s]
<1>1. /\ r \in Socket /\ EventsOK(r) /\ OfEngine(r, engine) /\ r.events # <<>>
      /\ sockets \in [Sockets -> Socket]
  BY Facts DEF Deliver
<1>2. sockets' = [sockets EXCEPT ![s] = Rest(r)]
  BY DEF Deliver, Rest
<1>3. UNCHANGED <<mounted, mounts, streams, store, engine, faults>>
  BY DEF Deliver
<1>4. /\ Rest(r) \in Socket /\ EventsOK(Rest(r)) /\ OfEngine(Rest(r), engine)
      /\ \/ Rest(r).phase = "unused"
         \/ Rest(r).phase = r.phase /\ Rest(r).owner = r.owner
  BY <1>1, RestOK
<1>5. ~\E m \in Mounts : streams[m].socket = s
  BY Facts, SocketAssumption DEF IsCurrent, StreamOK
<1>6. StoreOK(engine)'
  BY <1>3 DEF Inv, StoreOK, BlankOnMismatch, OneEngineInStore, LogInOrder
<1>7. /\ sockets' \in [Sockets -> Socket] /\ sockets'[s] = Rest(r)
      /\ \A u \in Sockets : u # s => sockets'[u] = sockets[u]
  BY <1>1, <1>2, <1>4
<1>. QED  BY <1>3, <1>4, <1>5, <1>6, <1>7, Facts, NetworkStep

\* The socket is the stream's own: its stream is mounted and has not ended.
LEMMA OwnDelivery ==
    ASSUME Inv, NEW s \in Sockets, Deliver(s), IsCurrent(sockets[s].owner, s)
    PROVE  LET r == sockets[s]
               m == sockets[s].owner IN
           /\ m = mounted /\ m \in Mounts /\ m <= mounts
           /\ streams[m] \in Stream /\ streams[m].socket = s /\ s # NoSocket
           /\ ~Ended(m) /\ ~streams[m].stopped /\ streams[m].timer = 0
           /\ streams[m].status \in StreamStatus
           /\ streams[m].status.state # "version-mismatch"
           /\ store.status = streams[m].status
           /\ streams[m].status.hello # NoRun
                => store.session = streams[m].status.hello
           /\ r \in Socket /\ EventsOK(r) /\ OfEngine(r, engine) /\ r.events # <<>>
           /\ r.phase \in Reporting /\ CurrentOK(store, r, engine)
           /\ \A k \in Mounts : k # m => streams[k].timer = 0 /\ streams[k].socket = NoSocket
           /\ \A t \in Sockets : t # s => sockets[t].phase \notin {"connecting", "live"}
           /\ UNCHANGED <<mounted, mounts, engine, faults>>
<1>. DEFINE r == sockets[s]  m == sockets[s].owner
<1>1. /\ r \in Socket /\ EventsOK(r) /\ OfEngine(r, engine) /\ r.events # <<>>
      /\ UNCHANGED <<mounted, mounts, engine, faults>>
  BY Facts DEF Deliver
<1>2. m \in Mounts
  BY <1>1 DEF EventsOK
<1>3. streams[m].socket = s /\ s # NoSocket
  BY SocketAssumption DEF IsCurrent
<1>4. /\ m = mounted /\ streams[m].timer = 0 /\ r.phase \in Reporting
      /\ streams[m].status.state # "version-mismatch"
  BY <1>2, <1>3, Facts DEF StreamOK
<1>5. /\ mounted # 0 /\ streams[m] \in Stream /\ streams[m].status \in StreamStatus
  BY <1>2, <1>4, Facts DEF Mounts
<1>6. /\ m <= mounts /\ ~streams[m].stopped /\ store.status = streams[m].status
      /\ streams[m].status.hello # NoRun => store.session = streams[m].status.hello
  BY <1>4, <1>5 DEF Inv, PageOK
<1>7. CurrentOK(store, r, engine)
  BY <1>3, <1>4, <1>5 DEF Inv
<1>8. \A k \in Mounts : k # m => streams[k].timer = 0 /\ streams[k].socket = NoSocket
  BY <1>4, Facts DEF StreamOK
<1>9. \A t \in Sockets : t # s => sockets[t].phase \notin {"connecting", "live"}
  BY <1>3, <1>4 DEF Inv, AtMostOne
<1>10. ~Ended(m)
  BY <1>4, <1>6 DEF Ended
<1>. QED  BY <1>1, <1>2, <1>3, <1>4, <1>5, <1>6, <1>7, <1>8, <1>9, <1>10

\* The event taken leaves the socket the stream's own.
LEMMA DeliveryKeeps ==
    ASSUME Inv, NEW s \in Sockets, Deliver(s), IsCurrent(sockets[s].owner, s),
           Head(sockets[s].events).kind # "close",
           sockets' = [sockets EXCEPT ![s] = Rest(sockets[s])],
           NEW q \in Stream, streams' = [streams EXCEPT ![mounted] = q],
           q.socket = s, q.timer = 0, ~q.stopped,
           q.status.state # "version-mismatch",
           store' \in Store, StoreOK(engine)', store'.status = q.status,
           q.status.hello # NoRun => store'.session = q.status.hello,
           CurrentOK(store', Rest(sockets[s]), engine)
    PROVE  Inv'
<1>. DEFINE r == sockets[s]  x == Rest(sockets[s])  m == mounted
<1>1. /\ r.owner = m /\ m \in Mounts /\ m <= mounts /\ s # NoSocket
      /\ r \in Socket /\ EventsOK(r) /\ OfEngine(r, engine) /\ r.events # <<>>
      /\ r.phase \in Reporting
      /\ \A k \in Mounts : k # m => streams[k].timer = 0 /\ streams[k].socket = NoSocket
      /\ \A t \in Sockets : t # s => sockets[t].phase \notin {"connecting", "live"}
      /\ UNCHANGED <<mounted, mounts, engine, faults>>
  BY OwnDelivery
<1>2. /\ x \in Socket /\ EventsOK(x) /\ OfEngine(x, engine)
      /\ x.phase = r.phase /\ x.owner = m
  BY <1>1, RestOK
<1>. HIDE DEF x, m
<1>3. /\ sockets' \in [Sockets -> Socket] /\ sockets'[s] = x
      /\ \A t \in Sockets : t # s => sockets'[t] = sockets[t]
  BY <1>2, Facts DEF x
<1>4. \A t \in Sockets :
         /\ EventsOK(sockets'[t]) /\ OfEngine(sockets'[t], engine)
         /\ sockets'[t].phase \in {"connecting", "live"}
              => sockets'[t].owner = m /\ q.socket = t
  BY <1>1, <1>2, <1>3, Facts
<1>5. q.socket # NoSocket =>
              /\ sockets'[q.socket].owner = m
              /\ sockets'[q.socket].phase \in Reporting
              /\ q.status.state # "version-mismatch"
              /\ CurrentOK(store', sockets'[q.socket], engine)
  BY <1>1, <1>2, <1>3 DEF x
<1>6. /\ mounted' = m /\ mounts' = mounts /\ engine' = engine
      /\ streams' = [streams EXCEPT ![m] = q] /\ q.socket # NoSocket
  BY <1>1 DEF m
<1>7. /\ m \in Mounts /\ mounts' \in 0..MaxMounts /\ m <= mounts' /\ faults' \in 0..MaxFaults
      /\ \A k \in Mounts : k # m => streams[k].timer = 0 /\ streams[k].socket = NoSocket
      /\ sockets' \in [Sockets -> Socket]
      /\ q.timer # 0 => q.socket = NoSocket
      /\ q.timer # 0 \/ q.socket # NoSocket \/ q.status.state = "version-mismatch"
  BY <1>1, <1>3, <1>6, Facts
<1>. QED  BY <1>4, <1>5, <1>6, <1>7, PageStep

\* onopen, and a frame that does not validate.
LEMMA OpenDelivery ==
    ASSUME Inv, NEW s \in Sockets, Deliver(s), IsCurrent(sockets[s].owner, s),
           Head(sockets[s].events).kind \in {"open", "invalid"}
    PROVE  Inv'
<1>. DEFINE r == sockets[s]  m == sockets[s].owner
            a == [streams[m].status EXCEPT !.state = "open"]
            b == [streams[m].status EXCEPT !.invalid = @ + 1]
<1>1. /\ m = mounted /\ m \in Mounts /\ streams[m] \in Stream /\ streams[m].socket = s
      /\ ~Ended(m) /\ ~streams[m].stopped /\ streams[m].timer = 0
      /\ streams[m].status \in StreamStatus
      /\ streams[m].status.state # "version-mismatch"
      /\ streams[m].status.hello # NoRun => store.session = streams[m].status.hello
      /\ r \in Socket /\ EventsOK(r) /\ OfEngine(r, engine) /\ r.events # <<>>
      /\ CurrentOK(store, r, engine) /\ engine' = engine
  BY OwnDelivery
<1>2. /\ \/ OnOpen(m) \/ OnInvalid(m)
      /\ sockets' = [sockets EXCEPT ![s] = Rest(r)]
  BY <1>1 DEF Deliver, Rest
<1>3. BACKOFF_START_MS \in Delays \ {0}
  BY DEF Delays, BACKOFF_START_MS
<1>4. /\ a \in StreamStatus /\ a.state = "open" /\ a.hello = streams[m].status.hello
      /\ b \in StreamStatus /\ b.state = streams[m].status.state
      /\ b.hello = streams[m].status.hello
  <2>. DEFINE n == streams[m].status.invalid + 1
  <2>1. n \in Nat
    BY <1>1 DEF StreamStatus
  <2>2. b = [streams[m].status EXCEPT !.invalid = n]
    BY <1>1 DEF StreamStatus
  <2>. HIDE DEF n
  <2>. QED  BY <1>1, <2>1, <2>2 DEF StreamStatus, States
<1>5. PICK q \in Stream :
         /\ streams' = [streams EXCEPT ![m] = q] /\ q.status \in {a, b}
         /\ q.socket = s /\ q.timer = 0 /\ ~q.stopped
         /\ store' = OnStatus(store, q.status)
  <2>1. CASE OnOpen(m)
    <3>. DEFINE q == [streams[m] EXCEPT !.backoff = BACKOFF_START_MS, !.status = a]
    <3>1. /\ q \in Stream /\ q.status = a /\ q.socket = s /\ q.timer = 0 /\ ~q.stopped
      BY <1>1, <1>3, <1>4 DEF Stream
    <3>2. streams' = [streams EXCEPT ![m] = q] /\ store' = OnStatus(store, q.status)
      BY <2>1 DEF OnOpen, Emit
    <3>. QED  BY <3>1, <3>2
  <2>2. CASE OnInvalid(m)
    <3>. DEFINE q == [streams[m] EXCEPT !.status = b]
    <3>1. /\ q \in Stream /\ q.status = b /\ q.socket = s /\ q.timer = 0 /\ ~q.stopped
      BY <1>1, <1>4 DEF Stream
    <3>2. streams' = [streams EXCEPT ![m] = q] /\ store' = OnStatus(store, q.status)
      BY <2>2 DEF OnInvalid, Emit
    <3>. QED  BY <3>1, <3>2
  <2>. QED  BY <1>2, <2>1, <2>2
<1>6. /\ q.status \in StreamStatus /\ q.status.state # "version-mismatch"
      /\ q.status.hello = streams[m].status.hello
  BY <1>1, <1>4, <1>5
<1>. HIDE DEF a, b
<1>7. /\ store' \in Store /\ store'.status = q.status /\ store'.session = store.session
      /\ SameData(store, store')
  BY <1>1, <1>5, <1>6, Facts, StatusSame
<1>8. StoreOK(engine)'
  BY <1>1, <1>6, <1>7, StoreSame
<1>9. CurrentOK(store', Rest(r), engine)
  <2>1. Rest(r) \in Socket /\ CurrentOK(store, Rest(r), engine)
    BY <1>1, RestOK, RestCurrent
  <2>. QED  BY <1>7, <2>1, CurrentSame
<1>10. q.status.hello # NoRun => store'.session = q.status.hello
  BY <1>1, <1>6, <1>7
<1>11. streams' = [streams EXCEPT ![mounted] = q]
  BY <1>1, <1>5
<1>. QED  BY <1>2, <1>5, <1>6, <1>7, <1>8, <1>9, <1>10, <1>11, DeliveryKeeps

\* A hello: its session begins.
LEMMA HelloDelivery ==
    ASSUME Inv, NEW s \in Sockets, Deliver(s), IsCurrent(sockets[s].owner, s),
           Head(sockets[s].events).kind = "hello"
    PROVE  Inv'
<1>. DEFINE r == sockets[s]  m == sockets[s].owner  p == r.events
            a == [streams[m].status EXCEPT !.hello = r.run]
            q == [streams[m] EXCEPT !.status = a]
<1>1. /\ m = mounted /\ m \in Mounts /\ streams[m] \in Stream /\ streams[m].socket = s
      /\ ~Ended(m) /\ ~streams[m].stopped /\ streams[m].timer = 0
      /\ streams[m].status \in StreamStatus
      /\ streams[m].status.state # "version-mismatch"
      /\ r \in Socket /\ EventsOK(r) /\ OfEngine(r, engine) /\ p # <<>>
      /\ CurrentOK(store, r, engine) /\ engine' = engine
  BY OwnDelivery
<1>2. /\ p \in Seq(Event) /\ Len(p) \in Nat \ {0} /\ 1 \in 1..Len(p) /\ Head(p) = p[1]
      /\ p[1] \in Event
  BY <1>1 DEF Socket
<1>3. Head(p).run = r.run /\ r.run \in Nat \ {0}
  <2>1. p[1].run = r.run
    BY <1>1, <1>2 DEF EventsOK
  <2>2. p[1].run \in Nat \ {0}
    BY <1>2 DEF Event
  <2>. QED  BY <1>2, <2>1, <2>2
<1>4. OnHello(m, Head(p).run) /\ sockets' = [sockets EXCEPT ![s] = Rest(r)]
  BY <1>1 DEF Deliver, Rest
<1>5. /\ a \in StreamStatus /\ a.hello = r.run /\ a.hello # NoRun
      /\ a.state # "version-mismatch"
  BY <1>1, <1>3 DEF StreamStatus, NoRun
<1>6. streams' = [streams EXCEPT ![m] = q] /\ store' = OnStatus(store, q.status)
  BY <1>1, <1>3, <1>4 DEF OnHello, Emit, Stream
<1>. HIDE DEF a
<1>7. /\ q \in Stream /\ q.status = a /\ q.socket = s /\ q.timer = 0 /\ ~q.stopped
  BY <1>1, <1>5 DEF Stream
<1>. HIDE DEF q
<1>8. /\ store' \in Store /\ store'.status = a /\ store'.session = r.run
      /\ IF store.session = r.run THEN SameData(store, store') ELSE Blank(store')
  BY <1>5, <1>6, <1>7, Facts, StatusHello
<1>9. StoreOK(engine)'
  BY <1>1, <1>5, <1>8, StoreSame
<1>10. CurrentOK(store', Rest(r), engine)
  <2>. DEFINE x == Rest(r)
  <2>1. /\ x.run = r.run /\ x.sent = r.sent /\ x.events = Tail(p) /\ x.phase = r.phase
    BY <1>1, RestOK
  <2>2. \A i \in 1..Len(Tail(p)) : Tail(p)[i] = p[i + 1] /\ i + 1 \in 1..Len(p)
    BY <1>2
  <2>. HIDE DEF p, x
  <2>3. ASSUME store'.current # None, store'.current.run = x.run
        PROVE  /\ \A i \in 1..Len(x.events) : x.events[i].kind = "snapshot"
                     => store'.current.seq <= x.events[i].snap.seq
               /\ x.phase = "live" => store'.current.seq <= x.sent + 1
    <3>1. store'.current = store.current
      BY <1>8, <2>3 DEF SameData, Blank
    <3>2. /\ \A i \in 1..Len(p) : p[i].kind = "snapshot"
                => store.current.seq <= p[i].snap.seq
          /\ r.phase = "live" => store.current.seq <= r.sent + 1
      BY <1>1, <2>1, <2>3, <3>1 DEF CurrentOK, p
    <3>. QED  BY <2>1, <2>2, <3>1, <3>2
  <2>4. store'.session = x.run
    BY <1>8, <2>1
  <2>. QED  BY <2>3, <2>4 DEF CurrentOK, x
<1>11. streams' = [streams EXCEPT ![mounted] = q] /\ Head(r.events).kind # "close"
  BY <1>1, <1>6
<1>. QED  BY <1>4, <1>5, <1>7, <1>8, <1>9, <1>10, <1>11, DeliveryKeeps

\* The log keeps what it had, but perhaps its oldest entry, and gains the newest.
LEMMA LatestOK ==
    ASSUME NEW log \in Seq(Snapshot), NEW snap \in Snapshot
    PROVE  LET new == Latest(Append(log, snap)) IN
           /\ new \in Seq(Snapshot) /\ new # <<>>
           /\ \E d \in {0, 1} : \A i \in 1..Len(new) :
                 /\ i + d \in 1..(Len(log) + 1)
                 /\ new[i] = IF i + d \in 1..Len(log) THEN log[i + d] ELSE snap
<1>. DEFINE all == Append(log, snap)
<1>1. /\ all \in Seq(Snapshot) /\ Len(all) = Len(log) + 1 /\ Len(log) \in Nat
      /\ \A i \in 1..Len(all) : all[i] = IF i \in 1..Len(log) THEN log[i] ELSE snap
  OBVIOUS
<1>. HIDE DEF all
<1>2. CASE Len(all) > LogLimit
  <2>1. Latest(all) = Tail(all)
    BY <1>2 DEF Latest
  <2>2. /\ Tail(all) \in Seq(Snapshot) /\ Len(Tail(all)) = Len(all) - 1
        /\ Tail(all) # <<>>
        /\ \A i \in 1..Len(Tail(all)) : Tail(all)[i] = all[i + 1] /\ i + 1 \in 1..Len(all)
    BY <1>1, <1>2, LogLimitAssumption
  <2>3. \A i \in 1..Len(Tail(all)) :
            /\ i + 1 \in 1..(Len(log) + 1)
            /\ Tail(all)[i] = IF i + 1 \in 1..Len(log) THEN log[i + 1] ELSE snap
    BY <1>1, <2>2
  <2>. QED  BY <2>1, <2>2, <2>3 DEF all
<1>3. CASE ~(Len(all) > LogLimit)
  <2>1. Latest(all) = all /\ all # <<>>
    BY <1>1, <1>3 DEF Latest
  <2>2. \A i \in 1..Len(all) :
            /\ i + 0 \in 1..(Len(log) + 1)
            /\ all[i] = IF i + 0 \in 1..Len(log) THEN log[i + 0] ELSE snap
    BY <1>1
  <2>. QED  BY <1>1, <2>1, <2>2 DEF all
<1>. QED  BY <1>2, <1>3

\* A snapshot enters the store.
LEMMA PushOK ==
    ASSUME NEW st \in Store, NEW snap \in Snapshot
    PROVE  LET new == PushSnapshot(st, snap) IN
           /\ new \in Store /\ new.current = snap /\ new.session = st.session
           /\ new.status = st.status
           /\ \/ st.current = snap /\ new = st
              \/ st.current # snap /\ new.previous = st.current
                 /\ new.log = Latest(Append(st.log, snap))
<1>1. CASE st.current = snap
  BY <1>1 DEF PushSnapshot
<1>2. CASE st.current # snap
  <2>. DEFINE log == Latest(Append(st.log, snap))
  <2>1. log \in Seq(Snapshot)
    BY LatestOK DEF Store
  <2>2. PushSnapshot(st, snap)
          = [st EXCEPT !.previous = st.current, !.current = snap, !.log = log]
    BY <1>2 DEF PushSnapshot
  <2>. HIDE DEF log
  <2>3. /\ PushSnapshot(st, snap) \in Store /\ PushSnapshot(st, snap).current = snap
        /\ PushSnapshot(st, snap).session = st.session
        /\ PushSnapshot(st, snap).status = st.status
        /\ PushSnapshot(st, snap).previous = st.current
        /\ PushSnapshot(st, snap).log = log
    BY <2>1, <2>2 DEF Store
  <2>. QED  BY <1>2, <2>3 DEF log
<1>. QED  BY <1>1, <1>2

\* What a snapshot is when it is delivered: published by the engine run of the
\* socket, and not older than the one shown.
LEMMA SnapshotArrives ==
    ASSUME Inv, NEW s \in Sockets, Deliver(s), IsCurrent(sockets[s].owner, s),
           Head(sockets[s].events).kind = "snapshot"
    PROVE  LET snap == Head(sockets[s].events).snap
               r == sockets[s] IN
           /\ snap \in Snapshot /\ snap.run = r.run /\ snap.seq <= r.sent
           /\ r.run \in Nat /\ r.sent \in Nat
           /\ \A i \in 1..Len(Tail(r.events)) : Tail(r.events)[i].kind = "snapshot"
                 => snap.seq < Tail(r.events)[i].snap.seq
           /\ store.current # None /\ store.current.run = r.run
                 => store.current.seq <= snap.seq
           /\ ~engine.early => store.session = r.run
           /\ store' = PushSnapshot(store, snap) /\ UNCHANGED streams
           /\ sockets' = [sockets EXCEPT ![s] = Rest(r)]
<1>. DEFINE r == sockets[s]  p == r.events  snap == Head(p).snap
<1>1. /\ r \in Socket /\ EventsOK(r) /\ p # <<>> /\ CurrentOK(store, r, engine)
      /\ ~Ended(r.owner)
  BY OwnDelivery
<1>2. /\ p \in Seq(Event) /\ Len(p) \in Nat \ {0} /\ 1 \in 1..Len(p) /\ Head(p) = p[1]
      /\ p[1] \in Event /\ r.run \in Nat /\ r.sent \in Nat
      /\ Len(Tail(p)) = Len(p) - 1
      /\ \A i \in 1..Len(Tail(p)) : Tail(p)[i] = p[i + 1] /\ i + 1 \in 1..Len(p)
  BY <1>1 DEF Socket
<1>3. snap \in Snapshot
  BY <1>2 DEF Event
<1>4. store' = PushSnapshot(store, snap) /\ UNCHANGED streams
      /\ sockets' = [sockets EXCEPT ![s] = Rest(r)]
  BY <1>1 DEF Deliver, Rest, OnSnapshot
<1>5. snap = p[1].snap /\ p[1].kind = "snapshot"
  BY <1>2
<1>. HIDE DEF p, snap
<1>6. /\ snap.run = r.run /\ snap.seq <= r.sent
      /\ \A j \in 1..Len(p) : 1 < j =>
            /\ p[j].kind # "hello"
            /\ p[j].kind = "snapshot" => snap.seq < p[j].snap.seq
  BY <1>1, <1>2, <1>5 DEF EventsOK, p
<1>7. \A i \in 1..Len(Tail(p)) : Tail(p)[i].kind = "snapshot"
         => snap.seq < Tail(p)[i].snap.seq
  <2>1. \A i \in 1..Len(Tail(p)) : i + 1 \in 1..Len(p) /\ 1 < i + 1
    BY <1>2
  <2>. QED  BY <1>2, <1>6, <2>1
<1>8. ~HasHello(p)
  <2>1. \A j \in 1..Len(p) : j = 1 \/ 1 < j
    BY <1>2
  <2>. QED  BY <1>5, <1>6, <2>1 DEF HasHello
<1>9. /\ store.current # None /\ store.current.run = r.run
            => store.current.seq <= snap.seq
      /\ ~engine.early => store.session = r.run
  BY <1>1, <1>2, <1>5, <1>8 DEF CurrentOK, p
<1>. QED  BY <1>2, <1>3, <1>4, <1>6, <1>7, <1>9 DEF snap, p

\* The store honest as before, with one snapshot more.
LEMMA PushHonest ==
    ASSUME Inv, NEW snap \in Snapshot, snap.run <= engine.run,
           snap.run = engine.run => snap.seq <= engine.published,
           store.current # None /\ store.current.run = snap.run
              => store.current.seq <= snap.seq,
           ~engine.early => store.session = snap.run,
           store.status.state # "version-mismatch",
           store' = PushSnapshot(store, snap), engine' = engine
    PROVE  StoreOK(engine)'
<1>1. /\ store' \in Store /\ store'.current = snap /\ store'.session = store.session
      /\ store'.status = store.status
      /\ \/ store.current = snap /\ store' = store
         \/ store.current # snap /\ store'.previous = store.current
            /\ store'.log = Latest(Append(store.log, snap))
  BY Facts, PushOK
<1>2. snap # None /\ snap.run \in Nat /\ snap.seq \in Nat
  BY DEF Snapshot, None
<1>3. CASE store.current = snap
  BY <1>1, <1>3 DEF Inv, StoreOK, BlankOnMismatch, OneEngineInStore, LogInOrder
<1>4. CASE store.current # snap
  <2>. SUFFICES ASSUME ~engine.early
                PROVE  (/\ OneEngineInStore /\ LogInOrder
                        /\ \A i \in 1..Len(store.log) :
                              store.log[i].seq <= store.current.seq)'
    BY <1>1, <1>2 DEF StoreOK, BlankOnMismatch
  <2>1. /\ store.current = None => store.previous = None /\ store.log = <<>>
        /\ OneEngineInStore /\ LogInOrder
        /\ \A i \in 1..Len(store.log) : store.log[i].seq <= store.current.seq
        /\ store.session = snap.run
    BY DEF Inv, StoreOK
  <2>2. store.current # None =>
          store.current.run = snap.run /\ store.current.seq < snap.seq
    <3>. SUFFICES ASSUME store.current # None
                  PROVE  store.current.run = snap.run /\ store.current.seq < snap.seq
      OBVIOUS
    <3>1. store.current \in Snapshot
      BY Facts DEF Store
    <3>2. store.current.run = snap.run /\ store.current.seq <= snap.seq
      BY <2>1 DEF OneEngineInStore
    <3>3. store.current.seq # snap.seq
      BY <1>4, <3>1, <3>2 DEF Snapshot
    <3>. QED  BY <1>2, <3>1, <3>2, <3>3 DEF Snapshot
  <2>3. /\ store.log \in Seq(Snapshot)
        /\ \A i \in 1..Len(store.log) : store.log[i].seq \in Nat
    <3>1. store.log \in Seq(Snapshot)
      BY Facts DEF Store
    <3>2. \A i \in 1..Len(store.log) : store.log[i] \in Snapshot
      BY <3>1
    <3>. QED  BY <3>1, <3>2 DEF Snapshot
  <2>4. \A i \in 1..Len(store.log) :
           store.log[i].run = snap.run /\ store.log[i].seq < snap.seq
    <3>. SUFFICES ASSUME NEW i \in 1..Len(store.log)
                  PROVE  store.log[i].run = snap.run /\ store.log[i].seq < snap.seq
      OBVIOUS
    <3>1. store.current # None
      BY <2>1
    <3>2. store.current.seq \in Nat
      BY Facts DEF Store, Snapshot, None
    <3>. QED  BY <1>2, <2>1, <2>2, <2>3, <3>1, <3>2 DEF OneEngineInStore
  <2>. DEFINE new == store'.log
  <2>5. PICK d \in {0, 1} : \A i \in 1..Len(new) :
              /\ i + d \in 1..(Len(store.log) + 1)
              /\ new[i] = IF i + d \in 1..Len(store.log) THEN store.log[i + d] ELSE snap
    <3>. DEFINE log == store.log
    <3>1. log \in Seq(Snapshot) /\ new = Latest(Append(log, snap))
      BY <1>1, <1>4, <2>3
    <3>. HIDE DEF log, new
    <3>. DEFINE all == Latest(Append(log, snap))
    <3>2. \E d \in {0, 1} : \A i \in 1..Len(all) :
              /\ i + d \in 1..(Len(log) + 1)
              /\ all[i] = IF i + d \in 1..Len(log) THEN log[i + d] ELSE snap
      BY <3>1, LatestOK, Zenon
    <3>. HIDE DEF all
    <3>3. new = all
      BY <3>1 DEF all
    <3>. QED  BY <3>2, <3>3 DEF log
  <2>6. /\ new \in Seq(Snapshot) /\ Len(new) \in Nat
    BY <1>1 DEF Store
  <2>. HIDE DEF new
  <2>7. \A i \in 1..Len(new) : new[i].run = snap.run /\ new[i].seq <= snap.seq
    BY <1>2, <2>3, <2>4, <2>5
  <2>8. \A i, j \in 1..Len(new) : i < j => new[i].seq < new[j].seq
    <3>. SUFFICES ASSUME NEW i \in 1..Len(new), NEW j \in 1..Len(new), i < j
                  PROVE  new[i].seq < new[j].seq
      OBVIOUS
    <3>1. /\ i \in Nat /\ j \in Nat /\ d \in Nat /\ i + d < j + d
          /\ j + d \in 1..(Len(store.log) + 1) /\ Len(store.log) \in Nat
      BY <2>3, <2>5
    <3>2. i + d \in 1..Len(store.log) /\ new[i] = store.log[i + d]
      BY <2>5, <3>1
    <3>3. CASE j + d \in 1..Len(store.log)
      BY <2>1, <2>5, <3>1, <3>2, <3>3 DEF LogInOrder
    <3>4. CASE j + d \notin 1..Len(store.log)
      BY <2>4, <2>5, <3>2, <3>4
    <3>. QED  BY <3>3, <3>4
  <2>9. OneEngineInStore'
    BY <1>1, <1>4, <2>1, <2>2, <2>7 DEF OneEngineInStore, new
  <2>10. LogInOrder'
    BY <2>8 DEF LogInOrder, new
  <2>. QED  BY <1>1, <2>7, <2>9, <2>10 DEF new
<1>. QED  BY <1>3, <1>4

LEMMA SnapshotDelivery ==
    ASSUME Inv, NEW s \in Sockets, Deliver(s), IsCurrent(sockets[s].owner, s),
           Head(sockets[s].events).kind = "snapshot"
    PROVE  Inv'
<1>. DEFINE r == sockets[s]  m == sockets[s].owner  snap == Head(r.events).snap
            x == Rest(r)
<1>1. /\ m = mounted /\ m \in Mounts /\ streams[m] \in Stream /\ streams[m].socket = s
      /\ ~Ended(m) /\ ~streams[m].stopped /\ streams[m].timer = 0
      /\ streams[m].status.state # "version-mismatch"
      /\ store.status = streams[m].status
      /\ streams[m].status.hello # NoRun => store.session = streams[m].status.hello
      /\ r \in Socket /\ EventsOK(r) /\ OfEngine(r, engine) /\ r.events # <<>>
      /\ engine' = engine
  BY OwnDelivery
<1>2. /\ snap \in Snapshot /\ snap.run = r.run /\ snap.seq <= r.sent
      /\ r.run \in Nat /\ r.sent \in Nat
      /\ \A i \in 1..Len(Tail(r.events)) : Tail(r.events)[i].kind = "snapshot"
            => snap.seq < Tail(r.events)[i].snap.seq
      /\ store.current # None /\ store.current.run = r.run
            => store.current.seq <= snap.seq
      /\ ~engine.early => store.session = r.run
      /\ store' = PushSnapshot(store, snap) /\ UNCHANGED streams
      /\ sockets' = [sockets EXCEPT ![s] = Rest(r)]
  BY SnapshotArrives
<1>3. /\ store' \in Store /\ store'.current = snap /\ store'.session = store.session
      /\ store'.status = store.status
  BY <1>2, Facts, PushOK
<1>4. /\ snap.run \in Nat /\ snap.seq \in Nat
      /\ snap.run <= engine.run /\ (snap.run = engine.run => snap.seq <= engine.published)
  BY <1>1, <1>2, Facts DEF OfEngine, Snapshot
<1>5. StoreOK(engine)'
  BY <1>1, <1>2, <1>4, PushHonest
<1>6. /\ x.run = r.run /\ x.sent = r.sent /\ x.events = Tail(r.events)
  BY <1>1, RestOK
<1>. HIDE DEF x, snap
<1>7. CurrentOK(store', x, engine)
  <2>1. \A i \in 1..Len(x.events) : x.events[i].kind = "snapshot"
          => x.events[i].snap.seq \in Nat
    <3>1. Tail(r.events) \in Seq(Event)
      BY <1>1 DEF Socket
    <3>. QED  BY <1>6, <3>1 DEF Event, Snapshot
  <2>2. \A i \in 1..Len(x.events) : x.events[i].kind = "snapshot"
          => store'.current.seq <= x.events[i].snap.seq
    BY <1>2, <1>3, <1>4, <1>6, <2>1
  <2>3. store'.current.seq <= x.sent + 1
    BY <1>2, <1>3, <1>4, <1>6
  <2>4. ~engine.early => store'.session = x.run
    BY <1>2, <1>3, <1>6
  <2>. QED  BY <2>2, <2>3, <2>4 DEF CurrentOK
<1>8. streams' = [streams EXCEPT ![mounted] = streams[m]]
  BY <1>1, <1>2, Facts
<1>. QED  BY <1>1, <1>2, <1>3, <1>5, <1>7, <1>8, DeliveryKeeps DEF x

\* The stream lets the socket go: after a version mismatch or a close.
LEMMA LettingGo ==
    ASSUME Inv, NEW s \in Sockets, Deliver(s), IsCurrent(sockets[s].owner, s),
           NEW q \in Stream, streams' = [streams EXCEPT ![mounted] = q],
           q.socket = NoSocket, ~q.stopped,
           store' = OnStatus(store, q.status),
           q.status.hello \in {NoRun, streams[mounted].status.hello},
           q.timer # 0 \/ q.status.state = "version-mismatch",
           sockets' \in [Sockets -> Socket],
           \A t \in Sockets : /\ EventsOK(sockets'[t]) /\ OfEngine(sockets'[t], engine)
                              /\ sockets'[t].phase \notin {"connecting", "live"}
    PROVE  Inv'
<1>. DEFINE m == mounted
<1>1. /\ m \in Mounts /\ m <= mounts /\ mounts \in 0..MaxMounts
      /\ streams[m].status.hello # NoRun => store.session = streams[m].status.hello
      /\ \A k \in Mounts : k # m => streams[k].timer = 0 /\ streams[k].socket = NoSocket
      /\ UNCHANGED <<mounted, mounts, engine, faults>>
  BY OwnDelivery, Facts
<1>2. /\ q.status \in StreamStatus
      /\ q.status.hello # NoRun => store.session = q.status.hello
  BY <1>1 DEF Stream
<1>3. /\ store' \in Store /\ store'.status = q.status /\ store'.session = store.session
      /\ IF q.status.state = "version-mismatch" THEN Blank(store')
         ELSE SameData(store, store')
  BY <1>2, Facts, StatusSame
<1>4. StoreOK(engine)'
  BY <1>1, <1>3, StoreSame
<1>5. /\ mounted' = m /\ mounts' \in 0..MaxMounts /\ m <= mounts' /\ engine' = engine
      /\ faults' \in 0..MaxFaults /\ streams' = [streams EXCEPT ![m] = q]
      /\ q.status.hello # NoRun => store'.session = q.status.hello
  BY <1>1, <1>2, <1>3, Facts
<1>. HIDE DEF m
<1>. QED  BY <1>1, <1>3, <1>4, <1>5, PageStep

LEMMA VersionDelivery ==
    ASSUME Inv, NEW s \in Sockets, Deliver(s), IsCurrent(sockets[s].owner, s),
           Head(sockets[s].events).kind = "version"
    PROVE  Inv'
<1>. DEFINE r == sockets[s]  m == sockets[s].owner  x == Rest(r)
            after == [sockets EXCEPT ![s] = x]
            a == [streams[m].status EXCEPT !.state = "version-mismatch"]
            q == [streams[m] EXCEPT !.status = a, !.socket = NoSocket]
<1>1. /\ m = mounted /\ m \in Mounts /\ streams[m] \in Stream
      /\ ~Ended(m) /\ ~streams[m].stopped /\ streams[m].status \in StreamStatus
      /\ r \in Socket /\ EventsOK(r) /\ OfEngine(r, engine) /\ r.events # <<>>
      /\ \A t \in Sockets : t # s => sockets[t].phase \notin {"connecting", "live"}
  BY OwnDelivery
<1>2. OnVersionMismatch(m) /\ sockets' = CloseSocket(after, s)
  BY <1>1 DEF Deliver, Rest
<1>3. /\ a \in StreamStatus /\ a.state = "version-mismatch"
      /\ a.hello = streams[m].status.hello
  BY <1>1 DEF StreamStatus, States
<1>4. streams' = [streams EXCEPT ![m] = q] /\ store' = OnStatus(store, q.status)
  BY <1>2 DEF OnVersionMismatch, Emit
<1>. HIDE DEF a
<1>5. q \in Stream /\ q.status = a /\ q.socket = NoSocket /\ ~q.stopped
  BY <1>1, <1>3 DEF Stream
<1>6. x \in Socket /\ EventsOK(x) /\ OfEngine(x, engine)
  BY <1>1, RestOK
<1>. HIDE DEF x, q
<1>7. /\ after \in [Sockets -> Socket] /\ after[s] = x
      /\ \A t \in Sockets : t # s => after[t] = sockets[t]
  BY <1>6, Facts
<1>. HIDE DEF after
<1>8. /\ \A t \in Sockets : EventsOK(after[t]) /\ OfEngine(after[t], engine)
      /\ \A t \in Sockets : after[t].phase \in {"connecting", "live"} => t = s
  BY <1>1, <1>6, <1>7, Facts
<1>9. /\ sockets' \in [Sockets -> Socket]
      /\ \A t \in Sockets : /\ EventsOK(sockets'[t]) /\ OfEngine(sockets'[t], engine)
                            /\ sockets'[t].phase \notin {"connecting", "live"}
  BY <1>2, <1>7, <1>8, CloseSocketOK
<1>. QED  BY <1>1, <1>3, <1>4, <1>5, <1>9, LettingGo

LEMMA CloseDelivery ==
    ASSUME Inv, NEW s \in Sockets, Deliver(s), IsCurrent(sockets[s].owner, s),
           Head(sockets[s].events).kind = "close"
    PROVE  Inv'
<1>. DEFINE r == sockets[s]  m == sockets[s].owner  x == Rest(r)
            code == Head(r.events).code
            a == [[streams[m].status EXCEPT !.state = "closed"] EXCEPT !.hello = NoRun]
            b == streams[m].backoff
            c == IF 2 * b < BACKOFF_MAX_MS THEN 2 * b ELSE BACKOFF_MAX_MS
            o == [[streams[m] EXCEPT !.socket = NoSocket] EXCEPT !.status = a]
<1>1. /\ m = mounted /\ m \in Mounts /\ streams[m] \in Stream
      /\ ~Ended(m) /\ ~streams[m].stopped /\ streams[m].status \in StreamStatus
      /\ r \in Socket /\ EventsOK(r) /\ OfEngine(r, engine) /\ r.events # <<>>
      /\ \A t \in Sockets : t # s => sockets[t].phase \notin {"connecting", "live"}
  BY OwnDelivery
<1>2. HandleClose(m, code) /\ sockets' = [sockets EXCEPT ![s] = x]
  BY <1>1 DEF Deliver, Rest
<1>3. a \in StreamStatus /\ a.hello = NoRun
  BY <1>1 DEF StreamStatus, States, NoRun
<1>4. /\ b \in Delays \ {0} /\ c \in Delays \ {0} /\ CLEAN_RETRY_MS \in Delays \ {0}
  <2>1. b \in Delays \ {0}
    BY <1>1 DEF Stream
  <2>2. c \in Delays \ {0}
    BY <2>1 DEF Delays, BACKOFF_START_MS, BACKOFF_MAX_MS, CLEAN_RETRY_MS
  <2>. QED  BY <2>1, <2>2 DEF Delays, CLEAN_RETRY_MS
<1>5. \/ Emit(m, [o EXCEPT !.timer = CLEAN_RETRY_MS])
      \/ Emit(m, [o EXCEPT !.timer = b, !.backoff = c])
  <2>. DEFINE w == [streams[m] EXCEPT !.socket = NoSocket, !.status.state = "closed",
                                      !.status.hello = NoRun]
  <2>1. w = o
    BY <1>1 DEF Stream, StreamStatus
  <2>2. o.backoff = b
    BY <1>1 DEF Stream
  <2>3. \/ Emit(m, [w EXCEPT !.timer = CLEAN_RETRY_MS])
        \/ Emit(m, [w EXCEPT !.timer = w.backoff,
                             !.backoff = IF 2 * w.backoff < BACKOFF_MAX_MS
                                         THEN 2 * w.backoff ELSE BACKOFF_MAX_MS])
    BY <1>2, Zenon DEF HandleClose
  <2>. HIDE DEF w
  <2>. QED  BY <2>1, <2>2, <2>3
<1>. HIDE DEF a, c
<1>6. /\ o \in Stream /\ o.status = a /\ o.socket = NoSocket /\ ~o.stopped
  BY <1>1, <1>3 DEF Stream
<1>. HIDE DEF o
<1>7. PICK q \in Stream :
         /\ streams' = [streams EXCEPT ![m] = q] /\ store' = OnStatus(store, q.status)
         /\ q.status = a /\ q.socket = NoSocket /\ ~q.stopped /\ q.timer # 0
  <2>1. CASE Emit(m, [o EXCEPT !.timer = CLEAN_RETRY_MS])
    <3>. DEFINE q == [o EXCEPT !.timer = CLEAN_RETRY_MS]
    <3>1. /\ q \in Stream /\ q.status = a /\ q.socket = NoSocket /\ ~q.stopped
          /\ q.timer # 0
      BY <1>4, <1>6 DEF Stream
    <3>. QED  BY <2>1, <3>1 DEF Emit
  <2>2. CASE Emit(m, [o EXCEPT !.timer = b, !.backoff = c])
    <3>. DEFINE q == [o EXCEPT !.timer = b, !.backoff = c]
    <3>1. /\ q \in Stream /\ q.status = a /\ q.socket = NoSocket /\ ~q.stopped
          /\ q.timer # 0
      BY <1>4, <1>6 DEF Stream
    <3>. QED  BY <2>2, <3>1 DEF Emit
  <2>. QED  BY <1>5, <2>1, <2>2
<1>8. x \in Socket /\ EventsOK(x) /\ OfEngine(x, engine) /\ x.phase = "unused"
  BY <1>1, RestOK
<1>. HIDE DEF x
<1>9. /\ sockets' \in [Sockets -> Socket]
      /\ \A t \in Sockets : /\ EventsOK(sockets'[t]) /\ OfEngine(sockets'[t], engine)
                            /\ sockets'[t].phase \notin {"connecting", "live"}
  BY <1>1, <1>2, <1>8, Facts
<1>. QED  BY <1>1, <1>3, <1>7, <1>9, LettingGo

----------------------------------------------------------------------------
\* Whatever is delivered, the invariant holds.
LEMMA DeliverStep ==
    ASSUME Inv, NEW s \in Sockets, Deliver(s)
    PROVE  Inv'
<1>1. Head(sockets[s].events).kind
        \in {"open", "version", "invalid", "hello", "snapshot", "close"}
  <2>1. sockets[s].events \in Seq(Event) /\ sockets[s].events # <<>>
    BY Facts DEF Deliver
  <2>2. Head(sockets[s].events) \in Event
    BY <2>1
  <2>. QED  BY <2>2 DEF Event
<1>. QED  BY <1>1, StaleDelivery, OpenDelivery, HelloDelivery, SnapshotDelivery,
             VersionDelivery, CloseDelivery

LEMMA InitInv ==
    ASSUME Init
    PROVE  Inv
<1>1. /\ mounted = 0 /\ mounts = 0 /\ faults = 0 /\ store = Reset
      /\ engine.run = 0 /\ engine.published = 0 /\ ~engine.up
      /\ engine \in [up : BOOLEAN, run : Nat, published : Nat,
                     compatible : BOOLEAN, early : BOOLEAN]
      /\ 0 \in 0..MaxMounts /\ 0 \in 0..MaxFaults
  BY StreamAssumption DEF Init
<1>2. NewStream \in Stream /\ NewStream.timer = 0 /\ NewStream.socket = NoSocket
  BY ResetStore
<1>3. /\ \A m \in Mounts : streams[m] = NewStream
      /\ streams \in [Mounts -> Stream]
  BY <1>2 DEF Init
<1>4. /\ UnusedSocket \in Socket /\ UnusedSocket.phase = "unused"
      /\ EventsOK(UnusedSocket) /\ OfEngine(UnusedSocket, engine)
  <2>1. <<>> \in Seq(Event)
    OBVIOUS
  <2>2. UnusedSocket \in Socket
    BY <2>1 DEF UnusedSocket, Socket
  <2>. QED  BY <1>1, <2>2 DEF UnusedSocket, EventsOK, OfEngine
<1>5. /\ \A s \in Sockets : sockets[s] = UnusedSocket
      /\ sockets \in [Sockets -> Socket]
  BY <1>4 DEF Init
<1>6. store \in Store /\ Blank(store)
  BY <1>1, ResetStore DEF Blank, Reset
<1>7. TypeOK
  BY <1>1, <1>3, <1>5, <1>6 DEF TypeOK
<1>8. /\ AtMostOne /\ NeverIdle /\ PageOK
      /\ \A m \in Mounts : StreamOK(m)
  BY <1>1, <1>2, <1>3, <1>4, <1>5 DEF AtMostOne, NeverIdle, PageOK, StreamOK
<1>9. StoreOK(engine)
  BY <1>1, <1>6 DEF StoreOK, BlankOnMismatch, OneEngineInStore, LogInOrder, Blank, None
<1>. QED  BY <1>1, <1>4, <1>5, <1>7, <1>8, <1>9 DEF Inv

LEMMA NextInv ==
    ASSUME Inv, [Next]_vars
    PROVE  Inv'
<1>1. CASE Next
  BY <1>1, NetworkKeeps, MountStep, UnmountStep, RestartStep, TimerStep, DeliverStep
     DEF Next, Page
<1>2. CASE UNCHANGED vars
  BY <1>2 DEF vars, Inv, TypeOK, AtMostOne, NeverIdle, StreamOK, PageOK, StoreOK,
              BlankOnMismatch, OneEngineInStore, LogInOrder
<1>. QED  BY <1>1, <1>2

LEMMA Invariance == Spec => []Inv
<1>. QED  BY InitInv, NextInv, PTL DEF Spec

(***************************************************************************)
(* SystemStream.ts:60-65 - a mounted stream has at most one connection and *)
(* is at no dead end, and the page's objects are well formed, for every    *)
(* number of sockets, mounts, faults and engine runs.                      *)
(***************************************************************************)
THEOREM ConnectionKept == Spec => []OneConnection
<1>1. Inv => OneConnection
  BY DEF Inv, OneConnection
<1>. QED  BY <1>1, Invariance, PTL

(***************************************************************************)
(* useSystemStream.ts:51-56 - the store never mixes two engines nor tells  *)
(* anything twice, and is blank next to an incompatible engine.            *)
(***************************************************************************)
THEOREM StoreStaysHonest == Spec => []StoreHonest
<1>1. Inv => StoreHonest
  BY DEF Inv, StoreOK, StoreHonest
<1>. QED  BY <1>1, Invariance, PTL

----------------------------------------------------------------------------
(***************************************************************************)
(* The shown snapshot.                                                     *)
(***************************************************************************)

\* A status leaves the data as they are or discards them.
LEMMA StatusData ==
    ASSUME NEW st \in Store, NEW status \in StreamStatus
    PROVE  SameData(st, OnStatus(st, status)) \/ Blank(OnStatus(st, status))
<1>1. CASE status.hello = NoRun \/ st.session = status.hello
  BY <1>1, StatusSame
<1>2. CASE status.hello # NoRun /\ status.state # "version-mismatch"
  BY <1>2, StatusHello
<1>3. CASE /\ status.hello # NoRun /\ st.session # status.hello
           /\ status.state = "version-mismatch"
  <2>. DEFINE s == [[st EXCEPT !.status = status] EXCEPT !.interval = status.hello]
              h == [ClearSnapshots(s) EXCEPT !.session = status.hello]
  <2>1. status.hello \in Nat /\ <<>> \in Seq(Snapshot)
    BY DEF StreamStatus
  <2>2. s \in Store /\ s.session = st.session
    BY <2>1 DEF Store
  <2>3. OnStatus(st, status) = ClearSnapshots(h)
    BY <1>3, <2>2 DEF OnStatus, BeginSession
  <2>. HIDE DEF s
  <2>4. ClearSnapshots(s) \in Store
    BY <2>1, <2>2 DEF ClearSnapshots, Store
  <2>5. h \in Store
    BY <2>1, <2>4 DEF Store
  <2>. HIDE DEF h
  <2>6. Blank(ClearSnapshots(h))
    BY <2>5 DEF ClearSnapshots, Store, Blank
  <2>. QED  BY <2>3, <2>6
<1>. QED  BY <1>1, <1>2, <1>3

\* A step of the page brings a status or a snapshot to the store, or nothing.
LEMMA PageData ==
    ASSUME Inv, Inv', Page
    PROVE  \/ SameData(store, store') \/ Blank(store')
           \/ store'.current.run = store.current.run /\ store.current # None
                => store'.current.seq >= store.current.seq
<1>1. store \in Store /\ streams' \in [Mounts -> Stream] /\ streams \in [Mounts -> Stream]
  BY Facts DEF Inv, TypeOK
<1>2. ASSUME NEW m \in Mounts, store' = OnStatus(store, streams'[m].status)
      PROVE  SameData(store, store') \/ Blank(store')
  <2>1. streams'[m].status \in StreamStatus
    BY <1>1 DEF Stream
  <2>. QED  BY <1>1, <1>2, <2>1, StatusData
<1>3. ASSUME NEW m \in Mounts, NEW r, Emit(m, r)
      PROVE  store' = OnStatus(store, streams'[m].status)
  BY <1>1, <1>3 DEF Emit
<1>4. ASSUME NEW m \in Mounts, NEW r \in Stream, NEW all, Connect(m, r, all)
      PROVE  store' = OnStatus(store, streams'[m].status)
  <2>. DEFINE status == [r.status EXCEPT !.state = "connecting"]
  <2>1. PICK s : /\ streams' = [streams EXCEPT ![m] = [r EXCEPT !.status = status, !.socket = s]]
                 /\ store' = OnStatus(store, status)
    BY <1>4 DEF Connect
  <2>. HIDE DEF status
  <2>2. streams'[m].status = status
    BY <1>1, <2>1 DEF Stream
  <2>. QED  BY <2>1, <2>2
<1>5. CASE Mount
  <2>. DEFINE m == mounts + 1
              status == [InitialStatus EXCEPT !.state = "connecting"]
  <2>1. store' = OnStatus(Reset, status)
    BY <1>5 DEF Mount
  <2>2. Reset \in Store /\ Blank(Reset) /\ status \in StreamStatus
    <3>1. InitialStatus \in StreamStatus
      BY ResetStore
    <3>. QED  BY <3>1, ResetStore DEF StreamStatus, States
  <2>. HIDE DEF status
  <2>3. SameData(Reset, store') \/ Blank(store')
    BY <2>1, <2>2, StatusData
  <2>. QED  BY <2>2, <2>3 DEF SameData, Blank
<1>6. CASE Unmount
  BY <1>6 DEF Unmount, SameData
<1>7. CASE Restart
  <2>. DEFINE r == [streams[mounted] EXCEPT !.stopped = FALSE, !.timer = 0]
  <2>1. mounted \in Mounts /\ 0 \in Delays
    BY <1>7, Facts DEF Restart, Delays
  <2>2. r \in Stream
    BY <1>1, <2>1 DEF Stream
  <2>3. Connect(mounted, r, CloseSocket(sockets, streams[mounted].socket))
    BY <1>7 DEF Restart, Start
  <2>. QED  BY <1>2, <1>4, <2>1, <2>2, <2>3
<1>8. ASSUME NEW m \in Mounts, TimerFires(m)
      PROVE  SameData(store, store') \/ Blank(store')
  <2>. DEFINE r == [streams[m] EXCEPT !.timer = 0]
  <2>1. r \in Stream
    BY <1>1 DEF Stream, Delays
  <2>2. store' = store \/ Connect(m, r, sockets)
    BY <1>8 DEF TimerFires
  <2>. QED  BY <1>2, <1>4, <2>1, <2>2 DEF SameData
<1>9. ASSUME NEW s \in Sockets, Deliver(s)
      PROVE  \/ SameData(store, store') \/ Blank(store')
             \/ store'.current.run = store.current.run /\ store.current # None
                  => store'.current.seq >= store.current.seq
  <2>. DEFINE m == sockets[s].owner  e == Head(sockets[s].events)
  <2>1. CASE ~IsCurrent(m, s) \/ (e.kind # "open" /\ Ended(m))
    BY <1>9, <2>1 DEF Deliver, SameData
  <2>2. CASE ~(~IsCurrent(m, s) \/ (e.kind # "open" /\ Ended(m))) /\ e.kind # "snapshot"
    <3>1. m \in Mounts
      BY <1>9, <2>2, OwnDelivery
    <3>2. \E r : Emit(m, r)
      <4>1. e \in Event
        <5>1. sockets[s].events \in Seq(Event) /\ sockets[s].events # <<>>
          BY <1>9, Facts DEF Deliver
        <5>. QED  BY <5>1
      <4>2. e.kind \in {"open", "version", "invalid", "hello", "close"}
        BY <2>2, <4>1 DEF Event
      <4>3. \/ OnOpen(m) \/ OnVersionMismatch(m) \/ OnInvalid(m) \/ OnHello(m, e.run)
            \/ HandleClose(m, e.code)
        BY <1>9, <2>2, <4>2 DEF Deliver
      <4>. QED  BY <4>3, Zenon DEF OnOpen, OnVersionMismatch, OnInvalid, OnHello, HandleClose
    <3>. QED  BY <1>2, <1>3, <3>1, <3>2
  <2>3. CASE IsCurrent(m, s) /\ e.kind = "snapshot"
    <3>1. /\ e.snap \in Snapshot /\ store' = PushSnapshot(store, e.snap)
          /\ e.snap.run = sockets[s].run
          /\ store.current # None /\ store.current.run = sockets[s].run
                => store.current.seq <= e.snap.seq
      BY <1>9, <2>3, SnapshotArrives
    <3>2. store'.current = e.snap
      BY <1>1, <3>1, PushOK
    <3>3. e.snap.seq \in Nat /\ store.current.seq \in Nat
      BY <1>1, <3>1 DEF Store, Snapshot, None
    <3>. QED  BY <3>1, <3>2, <3>3
  <2>. QED  BY <2>1, <2>2, <2>3
<1>. QED  BY <1>5, <1>6, <1>7, <1>8, <1>9 DEF Page

(***************************************************************************)
(* snapshotStore.ts:57-75 - time does not run backwards on the page: a     *)
(* snapshot sent again after a reconnect, or delivered late by a socket    *)
(* that was replaced, never replaces a newer one of its engine run.        *)
(***************************************************************************)
THEOREM TimeMonotone == Spec => ShownMonotone
<1>. DEFINE A == store'.current.run = store.current.run
                   => store'.current.seq >= store.current.seq
<1>1. Inv /\ Inv' /\ [Next]_vars => [A]_vars
  <2>. SUFFICES ASSUME Inv, Inv', Next PROVE A
    OBVIOUS
  <2>1. store.current \in Snapshot \cup {None} /\ store'.current \in Snapshot \cup {None}
    <3>1. store \in Store /\ store' \in Store
      BY DEF Inv, TypeOK
    <3>. QED  BY <3>1 DEF Store
  <2>2. store.current.seq \in Nat /\ store'.current.seq \in Nat
    BY <2>1 DEF Snapshot, None
  <2>3. /\ None.run = 0 /\ None.seq = 0
        /\ store.current # None => store.current.run # 0
    BY <2>1 DEF Snapshot, None
  <2>4. CASE SameData(store, store')
    BY <2>2, <2>4 DEF SameData
  <2>5. CASE Blank(store')
    BY <2>2, <2>3, <2>5 DEF Blank
  <2>6. CASE Page
    <3>1. CASE store'.current.run = store.current.run /\ store.current # None
                 => store'.current.seq >= store.current.seq
      BY <2>2, <2>3, <3>1
    <3>. QED  BY <2>4, <2>5, <2>6, <3>1, PageData
  <2>7. CASE Network
    <3>1. store' = store
      BY <2>7 DEF Network, Accept, AcceptEarly, Refuse, Send, SendInvalid, Lose,
                  CloseEnds, EngineStarts, Publish, EngineEnds
    <3>. QED  BY <2>2, <3>1
  <2>. QED  BY <2>6, <2>7 DEF Next
<1>2. Spec => [][A]_vars
  BY <1>1, Invariance, PTL DEF Spec
<1>. QED  BY <1>2 DEF ShownMonotone

----------------------------------------------------------------------------
(***************************************************************************)
(* Nothing the engine has sent is forgotten on its way to the page: of an  *)
(* open connection that was sent the newest snapshot, the page shows it or *)
(* has it still to be delivered, and no hello after it that would clear it.*)
(***************************************************************************)
Coming(q, k) == \E i \in 1..Len(q) : q[i].kind = k

Told(r, state, current, e) ==
    /\ state = "open" \/ Coming(r.events, "open")
    /\ e.compatible /\ r.sent = e.published /\ r.sent # 0 =>
         \/ \E i \in 1..Len(r.events) : r.events[i].kind = "snapshot"
                                        /\ r.events[i].snap.seq = r.sent
         \/ ~HasHello(r.events) /\ current = [run |-> r.run, seq |-> r.sent]

ToldInv ==
    mounted # 0 => \A s \in Sockets :
        streams[mounted].socket = s /\ sockets[s].phase = "live"
            => Told(sockets[s], streams[mounted].status.state, store.current, engine)

\* An open connection of the page with nothing on its way.
AtRest ==
    /\ mounted # 0 /\ engine.compatible
    /\ \E s \in Sockets :
         /\ streams[mounted].socket = s /\ sockets[s].phase = "live"
         /\ sockets[s].events = <<>> /\ sockets[s].sent = engine.published

RestIsUpToDate == AtRest => UpToDate

\* One more event that is no hello.
LEMMA ToldAppended ==
    ASSUME NEW q \in Seq(Event), NEW x \in Event, x.kind # "hello"
    PROVE  /\ \A k : Coming(q, k) => Coming(Append(q, x), k)
           /\ Coming(Append(q, x), x.kind)
           /\ HasHello(Append(q, x)) => HasHello(q)
           /\ \A n : \/ x.kind = "snapshot" /\ x.snap.seq = n
                     \/ \E i \in 1..Len(q) : q[i].kind = "snapshot" /\ q[i].snap.seq = n
                => \E i \in 1..Len(Append(q, x)) : /\ Append(q, x)[i].kind = "snapshot"
                                                   /\ Append(q, x)[i].snap.seq = n
<1>. DEFINE p == Append(q, x)
<1>1. /\ Len(p) \in 1..Len(p) /\ p[Len(p)] = x
      /\ \A i \in 1..Len(q) : i \in 1..Len(p) /\ p[i] = q[i]
      /\ \A i \in 1..Len(p) : i = Len(p) \/ i \in 1..Len(q)
  OBVIOUS
<1>. HIDE DEF p
<1>2. /\ \A k : Coming(q, k) => Coming(p, k)
      /\ Coming(p, x.kind)
  BY <1>1 DEF Coming
<1>3. HasHello(p) => HasHello(q)
  BY <1>1 DEF HasHello
<1>4. \A n : \/ x.kind = "snapshot" /\ x.snap.seq = n
             \/ \E i \in 1..Len(q) : q[i].kind = "snapshot" /\ q[i].snap.seq = n
          => \E i \in 1..Len(p) : p[i].kind = "snapshot" /\ p[i].snap.seq = n
  BY <1>1
<1>. QED  BY <1>2, <1>3, <1>4 DEF p

LEMMA ToldNetwork ==
    ASSUME Inv, ToldInv, Network
    PROVE  ToldInv'
<1>1. UNCHANGED <<mounted, streams, store>>
  BY DEF Network, Accept, AcceptEarly, Refuse, Send, SendInvalid, Lose, CloseEnds,
         EngineStarts, Publish, EngineEnds
<1>. SUFFICES ASSUME mounted # 0, NEW s \in Sockets, streams[mounted].socket = s,
                     sockets'[s].phase = "live"
              PROVE  Told(sockets'[s], streams[mounted].status.state, store.current, engine')
  BY <1>1 DEF ToldInv
<1>. DEFINE r == sockets[s]  q == sockets'[s]  state == streams[mounted].status.state
<1>2. /\ r \in Socket /\ EventsOK(r) /\ OfEngine(r, engine) /\ r.sent \in Nat
      /\ r.events \in Seq(Event)
      /\ sockets \in [Sockets -> Socket] /\ engine.published \in Nat
      /\ engine \in [up : BOOLEAN, run : Nat, published : Nat,
                     compatible : BOOLEAN, early : BOOLEAN]
  BY Facts
<1>3. r.phase = "live" => Told(r, state, store.current, engine)
  BY DEF ToldInv
<1>4. CASE q = r /\ engine' = engine
  BY <1>3, <1>4
<1>5. ASSUME NEW t \in Sockets,
             Accept(t) \/ AcceptEarly(t) \/ Refuse(t) \/ Send(t) \/ SendInvalid(t)
               \/ Lose(t) \/ CloseEnds(t),
             t # s
      PROVE  q = r /\ engine'.compatible = engine.compatible
                   /\ engine'.published = engine.published
  BY <1>2, <1>5 DEF Accept, AcceptEarly, Refuse, Send, SendInvalid, Lose, CloseEnds
<1>6. CASE Refuse(s) \/ Lose(s) \/ CloseEnds(s)
  <2>1. \E c : q = Die(s, c)
    BY <1>2, <1>6 DEF Refuse, Lose, CloseEnds
  <2>2. \A c : Die(s, c).phase = "dead"
    BY <1>2 DEF Die, Socket
  <2>. QED  BY <2>1, <2>2
<1>7. CASE Accept(s)
  <2>1. /\ \/ q.events = <<Opened, Greeting(engine.run)>> \/ q.events = <<Opened, Wrong>>
        /\ q.sent = (IF engine.published = 0 THEN 0 ELSE engine.published - 1)
        /\ engine' = engine
    BY <1>2, <1>7 DEF Accept, Socket
  <2>2. Coming(q.events, "open")
    <3>1. 1 \in 1..Len(q.events) /\ q.events[1] = Opened
      <4>1. PICK x : q.events = <<Opened, x>>
        BY <2>1, Zenon
      <4>2. \A e : 1 \in 1..Len(<<e, x>>) /\ <<e, x>>[1] = e
        OBVIOUS
      <4>. QED  BY <4>1, <4>2, Zenon
    <3>2. Opened.kind = "open"
      BY DEF Opened
    <3>. QED  BY <3>1, <3>2 DEF Coming
  <2>3. ~(q.sent = engine'.published /\ q.sent # 0)
    BY <1>2, <2>1
  <2>. QED  BY <2>2, <2>3 DEF Told
<1>8. CASE AcceptEarly(s)
  <2>1. q.events = <<Opened>> /\ q.sent = r.sent /\ r.phase = "connecting"
    BY <1>2, <1>8 DEF AcceptEarly, Socket
  <2>2. q.sent = 0
    BY <1>2, <2>1 DEF EventsOK
  <2>3. Coming(q.events, "open")
    <3>1. 1 \in 1..Len(q.events) /\ q.events[1] = Opened
      BY <2>1
    <3>2. Opened.kind = "open"
      BY DEF Opened
    <3>. QED  BY <3>1, <3>2 DEF Coming
  <2>. QED  BY <2>2, <2>3 DEF Told
<1>9. CASE Send(s)
  <2>1. PICK k \in (r.sent + 1) .. engine.published :
           sockets' = [sockets EXCEPT ![s].sent = k,
             ![s].events = Append(@, IF engine.compatible THEN Frame(engine.run, k)
                                     ELSE Wrong)]
    BY <1>9 DEF Send
  <2>. DEFINE x == IF engine.compatible THEN Frame(engine.run, k) ELSE Wrong
  <2>2. /\ q.sent = k /\ q.events = Append(r.events, x) /\ engine' = engine
        /\ r.phase = "live"
    BY <1>2, <1>9, <2>1 DEF Send, Socket
  <2>3. k \in Nat \ {0} /\ engine.run \in Nat \ {0}
    BY <1>2, <2>1, <2>2, Facts DEF OfEngine
  <2>4. /\ x \in Event /\ x.kind # "hello"
        /\ engine.compatible => x.kind = "snapshot" /\ x.snap.seq = k
    BY <2>3, EventTypes DEF Wrong
  <2>. HIDE DEF x
  <2>5. state = "open" \/ Coming(q.events, "open")
    BY <1>2, <1>3, <2>2, <2>4, ToldAppended DEF Told
  <2>6. engine.compatible => \E i \in 1..Len(q.events) : q.events[i].kind = "snapshot"
                                                         /\ q.events[i].snap.seq = k
    BY <1>2, <2>2, <2>4, ToldAppended
  <2>. QED  BY <2>2, <2>5, <2>6 DEF Told
<1>10. CASE SendInvalid(s)
  <2>1. /\ q.sent = r.sent /\ q.run = r.run /\ q.events = Append(r.events, Invalid)
        /\ engine' = engine /\ r.phase = "live"
    BY <1>2, <1>10 DEF SendInvalid, Socket
  <2>2. Invalid \in Event /\ Invalid.kind = "invalid"
    BY DEF Invalid, Event
  <2>3. state = "open" \/ Coming(q.events, "open")
    BY <1>2, <1>3, <2>1, <2>2, ToldAppended DEF Told
  <2>4. \A n : (\E i \in 1..Len(r.events) : r.events[i].kind = "snapshot"
                                            /\ r.events[i].snap.seq = n)
               => \E i \in 1..Len(q.events) : q.events[i].kind = "snapshot"
                                              /\ q.events[i].snap.seq = n
    BY <1>2, <2>1, <2>2, ToldAppended
  <2>5. HasHello(q.events) => HasHello(r.events)
    BY <1>2, <2>1, <2>2, ToldAppended
  <2>. QED  BY <1>3, <2>1, <2>3, <2>4, <2>5 DEF Told
<1>11. CASE EngineStarts
  BY <1>2, <1>11 DEF EngineStarts, OfEngine
<1>12. CASE Publish
  <2>1. q = r /\ engine'.published = engine.published + 1
    BY <1>2, <1>12 DEF Publish
  <2>2. r.sent <= engine.published
    BY <1>2, <2>1 DEF OfEngine
  <2>3. r.sent # engine'.published
    BY <1>2, <2>1, <2>2
  <2>. QED  BY <1>3, <2>1, <2>3 DEF Told
<1>13. ASSUME NEW c, EngineEnds(c) PROVE FALSE
  <2>1. \/ q = Die(s, c) \/ (q = r /\ r.phase # "live")
    BY <1>13 DEF EngineEnds
  <2>2. Die(s, c).phase = "dead"
    BY <1>2 DEF Die, Socket
  <2>. QED  BY <2>1, <2>2
<1>14. ASSUME NEW t \in Sockets,
              Accept(t) \/ AcceptEarly(t) \/ Refuse(t) \/ Send(t) \/ SendInvalid(t)
                \/ Lose(t) \/ CloseEnds(t)
       PROVE  Told(q, state, store.current, engine')
  <2>1. CASE t = s
    BY <1>6, <1>7, <1>8, <1>9, <1>10, <1>14, <2>1
  <2>2. CASE t # s
    BY <1>3, <1>5, <1>14, <2>2 DEF Told
  <2>. QED  BY <2>1, <2>2
<1>. QED  BY <1>11, <1>12, <1>13, <1>14 DEF Network

\* The connection of the page is a new one, or none, after the page made it.
LEMMA ToldConnect ==
    ASSUME Inv, Mount \/ Unmount \/ Restart \/ (\E m \in Mounts : TimerFires(m)),
           mounted' # 0, NEW s \in Sockets, streams'[mounted'].socket = s,
           sockets'[s].phase = "live"
    PROVE  FALSE
<1>1. /\ streams \in [Mounts -> Stream] /\ sockets \in [Sockets -> Socket]
      /\ mounts \in 0..MaxMounts
      /\ mounted # 0 => mounted \in Mounts
  BY Facts
<1>2. ASSUME NEW m \in Mounts, NEW r \in Stream, NEW all \in [Sockets -> Socket],
             Connect(m, r, all), m = mounted'
      PROVE  FALSE
  <2>. DEFINE status == [r.status EXCEPT !.state = "connecting"]
  <2>1. PICK t \in Sockets :
           /\ sockets' = [all EXCEPT ![t] = [UnusedSocket EXCEPT
                                                !.phase = "connecting", !.owner = m]]
           /\ streams' = [streams EXCEPT ![m] = [r EXCEPT !.status = status, !.socket = t]]
    BY <1>2 DEF Connect
  <2>. HIDE DEF status
  <2>2. t = s
    BY <1>1, <1>2, <2>1 DEF Stream
  <2>3. sockets'[s].phase = "connecting"
    BY <1>2, <2>1, <2>2 DEF UnusedSocket
  <2>. QED  BY <2>3
<1>3. CASE Mount
  <2>. DEFINE m == mounts + 1
              status == [InitialStatus EXCEPT !.state = "connecting"]
  <2>1. PICK t \in Free :
           /\ sockets' = [sockets EXCEPT ![t] = [UnusedSocket EXCEPT
                             !.phase = "connecting", !.owner = m]]
           /\ streams' = [streams EXCEPT ![m] = [NewStream EXCEPT
                             !.status = status, !.socket = t]]
    BY <1>3 DEF Mount
  <2>2. m \in Mounts /\ mounted' = m
    <3>1. mounts < MaxMounts /\ mounted' = m
      BY <1>3 DEF Mount
    <3>. QED  BY <1>1, <3>1, StreamAssumption DEF Mounts
  <2>. HIDE DEF m, status
  <2>3. t = s
    BY <1>1, <2>1, <2>2 DEF NewStream
  <2>4. sockets'[s].phase = "connecting"
    BY <1>1, <2>1, <2>3 DEF UnusedSocket
  <2>. QED  BY <2>4
<1>4. CASE Unmount
  BY <1>4 DEF Unmount
<1>5. CASE Restart
  <2>. DEFINE r == [streams[mounted] EXCEPT !.stopped = FALSE, !.timer = 0]
              all == CloseSocket(sockets, streams[mounted].socket)
  <2>1. mounted \in Mounts /\ r \in Stream /\ mounted' = mounted
    <3>1. mounted # 0 /\ mounted' = mounted
      BY <1>5 DEF Restart
    <3>. QED  BY <1>1, <3>1 DEF Stream, Delays
  <2>2. all \in [Sockets -> Socket]
    BY <1>1 DEF CloseSocket, Socket
  <2>3. Connect(mounted, r, all)
    BY <1>5 DEF Restart, Start
  <2>. HIDE DEF r, all
  <2>. QED  BY <1>2, <2>1, <2>2, <2>3
<1>6. ASSUME NEW m \in Mounts, TimerFires(m) PROVE FALSE
  <2>. DEFINE r == [streams[m] EXCEPT !.timer = 0]
  <2>1. m = mounted /\ ~streams[m].stopped /\ mounted' = mounted
    <3>1. m = mounted
      BY <1>6, Facts DEF TimerFires, StreamOK
    <3>2. mounted # 0
      BY <3>1 DEF Mounts
    <3>. QED  BY <1>6, <3>1, <3>2 DEF TimerFires, Inv, PageOK
  <2>2. r \in Stream
    BY <1>1 DEF Stream, Delays
  <2>3. Connect(m, r, sockets)
    BY <1>6, <2>1 DEF TimerFires
  <2>. HIDE DEF r
  <2>. QED  BY <1>1, <1>2, <2>1, <2>2, <2>3
<1>. QED  BY <1>3, <1>4, <1>5, <1>6

\* The first of the events is taken.
LEMMA ToldTaken ==
    ASSUME NEW p \in Seq(Event), p # <<>>
    PROVE  /\ \A k : Coming(p, k) /\ Head(p).kind # k => Coming(Tail(p), k)
           /\ HasHello(Tail(p)) => HasHello(p)
           /\ \A i \in 1..Len(p) : \/ p[i] = Head(p) /\ i = 1
                                   \/ \E j \in 1..Len(Tail(p)) : Tail(p)[j] = p[i]
<1>. DEFINE t == Tail(p)
<1>1. /\ p[1] = Head(p)
      /\ \A i \in 1..Len(p) : i = 1 \/ (i - 1 \in 1..Len(t) /\ t[i - 1] = p[i])
      /\ \A i \in 1..Len(t) : i + 1 \in 1..Len(p) /\ t[i] = p[i + 1]
  OBVIOUS
<1>. HIDE DEF t
<1>2. \A k : Coming(p, k) /\ Head(p).kind # k => Coming(t, k)
  BY <1>1 DEF Coming
<1>3. HasHello(t) => HasHello(p)
  BY <1>1 DEF HasHello
<1>4. \A i \in 1..Len(p) : \/ p[i] = Head(p) /\ i = 1
                           \/ \E j \in 1..Len(t) : t[j] = p[i]
  BY <1>1
<1>. QED  BY <1>2, <1>3, <1>4 DEF t

\* An event of the page's own connection, which stays the page's.
LEMMA ToldOwn ==
    ASSUME Inv, ToldInv, NEW s \in Sockets, Deliver(s), IsCurrent(sockets[s].owner, s),
           Head(sockets[s].events).kind \in {"open", "invalid", "hello", "snapshot"},
           sockets[s].phase = "live"
    PROVE  Told(sockets'[s], streams'[mounted].status.state, store'.current, engine)
<1>. DEFINE r == sockets[s]  p == r.events  x == Head(p)  m == r.owner
            q == sockets'[s]
<1>1. /\ m = mounted /\ m \in Mounts /\ streams[m] \in Stream /\ streams[m].socket = s
      /\ streams[m].status \in StreamStatus /\ ~Ended(m)
      /\ streams[m].status.state # "version-mismatch"
      /\ streams[m].status.hello # NoRun => store.session = streams[m].status.hello
      /\ r \in Socket /\ EventsOK(r) /\ OfEngine(r, engine) /\ p # <<>>
  BY OwnDelivery
<1>2. /\ p \in Seq(Event) /\ r.sent \in Nat /\ x = p[1] /\ 1 \in 1..Len(p)
      /\ streams \in [Mounts -> Stream] /\ sockets \in [Sockets -> Socket]
      /\ store \in Store
  BY <1>1, Facts
<1>3. /\ Rest(r) \in Socket /\ Rest(r).run = r.run /\ Rest(r).sent = r.sent
      /\ Rest(r).events = Tail(p)
  BY <1>1, RestOK
<1>4. /\ sockets' = [sockets EXCEPT ![s] = Rest(r)]
      /\ x.kind = "open" => OnOpen(m)
      /\ x.kind = "invalid" => OnInvalid(m)
      /\ x.kind = "hello" => OnHello(m, x.run)
  BY <1>1 DEF Deliver, Rest
<1>5. q.run = r.run /\ q.sent = r.sent /\ q.events = Tail(p)
  BY <1>2, <1>3, <1>4
<1>6. Told(r, streams[m].status.state, store.current, engine)
  <2>1. mounted # 0
    BY <1>1 DEF Mounts
  <2>. QED  BY <1>1, <2>1 DEF ToldInv
<1>. SUFFICES Told(q, streams'[m].status.state, store'.current, engine)
  BY <1>1
<1>. HIDE DEF p, x, q, r, m
<1>7. CASE x.kind = "snapshot"
  <2>1. /\ x.snap \in Snapshot /\ x.snap.run = r.run /\ x.snap.seq <= r.sent
        /\ store.current # None /\ store.current.run = r.run
              => store.current.seq <= x.snap.seq
        /\ store' = PushSnapshot(store, x.snap) /\ streams' = streams
    BY <1>7, SnapshotArrives DEF x, p, r
  <2>2. store'.current = x.snap
    BY <1>2, <2>1, PushOK
  <2>3. streams'[m].status.state = "open" \/ Coming(q.events, "open")
    BY <1>2, <1>1, <1>5, <1>6, <1>7, <2>1, ToldTaken DEF Told, x, p
  <2>4. ~HasHello(Tail(p))
    <3>1. \A j \in 1..Len(p) : 1 < j => p[j].kind # "hello"
      BY <1>1, <1>2, <1>7 DEF EventsOK, p
    <3>2. \A i \in 1..Len(Tail(p)) : i + 1 \in 1..Len(p) /\ 1 < i + 1 /\ Tail(p)[i] = p[i + 1]
      BY <1>2, <1>1
    <3>. QED  BY <3>1, <3>2 DEF HasHello
  <2>5. ASSUME engine.compatible, r.sent = engine.published, r.sent # 0
        PROVE  \/ \E i \in 1..Len(q.events) : q.events[i].kind = "snapshot"
                                              /\ q.events[i].snap.seq = r.sent
               \/ x.snap = [run |-> r.run, seq |-> r.sent]
    <3>1. CASE \E i \in 1..Len(p) : p[i].kind = "snapshot" /\ p[i].snap.seq = r.sent
      <4>1. PICK i \in 1..Len(p) : p[i].kind = "snapshot" /\ p[i].snap.seq = r.sent
        BY <3>1
      <4>2. p[i] = x \/ \E j \in 1..Len(Tail(p)) : Tail(p)[j] = p[i]
        BY <1>1, <1>2, ToldTaken DEF x, p
      <4>3. p[i] = x => x.snap = [run |-> r.run, seq |-> r.sent]
        BY <2>1, <4>1 DEF Snapshot
      <4>. QED  BY <1>5, <4>1, <4>2, <4>3
    <3>2. CASE store.current = [run |-> r.run, seq |-> r.sent]
      <4>1. r.run # 0
        BY <2>1 DEF Snapshot
      <4>2. store.current # None
        BY <3>2, <4>1 DEF None
      <4>3. x.snap.seq = r.sent
        BY <1>2, <2>1, <3>2, <4>2 DEF Snapshot
      <4>. QED  BY <2>1, <4>3 DEF Snapshot
    <3>. QED  BY <1>6, <2>5, <3>1, <3>2 DEF Told, p
  <2>. QED  BY <1>1, <1>5, <2>2, <2>3, <2>4, <2>5 DEF Told
<1>8. CASE x.kind # "snapshot"
  <2>1. /\ \/ streams'[m].status.state = "open"
           \/ x.kind # "open" /\ streams'[m].status.state = streams[m].status.state
        /\ x.kind # "hello" => /\ streams'[m].status \in StreamStatus
                               /\ streams'[m].status.state # "version-mismatch"
                               /\ streams'[m].status.hello = streams[m].status.hello
                               /\ store' = OnStatus(store, streams'[m].status)
    <3>1. CASE OnOpen(m)
      BY <1>1, <1>2, <3>1 DEF OnOpen, Emit, Stream, StreamStatus, States
    <3>2. CASE OnInvalid(m) /\ x.kind = "invalid"
      <4>. DEFINE n == streams[m].status.invalid + 1
      <4>1. n \in Nat
        BY <1>1 DEF StreamStatus
      <4>2. /\ streams' = [streams EXCEPT ![m] = [streams[m] EXCEPT !.status.invalid = n]]
            /\ store' = OnStatus(store, [streams[m] EXCEPT !.status.invalid = n].status)
        BY <1>1, <3>2 DEF OnInvalid, Emit, Stream, StreamStatus
      <4>. HIDE DEF n
      <4>. QED  BY <1>1, <1>2, <3>2, <4>1, <4>2 DEF Stream, StreamStatus
    <3>3. CASE OnHello(m, x.run) /\ x.kind = "hello"
      BY <1>1, <1>2, <3>3 DEF OnHello, Emit, Stream, StreamStatus
    <3>. QED  BY <1>4, <1>8, <3>1, <3>2, <3>3 DEF x, p, r
  <2>2. streams'[m].status.state = "open" \/ Coming(q.events, "open")
    BY <1>1, <1>2, <1>5, <1>6, <2>1, ToldTaken DEF Told, x, p
  <2>3. x.kind # "hello" => store'.current = store.current
    BY <1>1, <1>2, <2>1, StatusSame DEF SameData
  <2>4. HasHello(Tail(p)) => HasHello(p)
    BY <1>1, <1>2, ToldTaken
  <2>5. x.kind = "hello" => HasHello(p)
    BY <1>2 DEF HasHello
  <2>6. \A n : (\E i \in 1..Len(p) : p[i].kind = "snapshot" /\ p[i].snap.seq = n)
               => \E i \in 1..Len(Tail(p)) : /\ Tail(p)[i].kind = "snapshot"
                                             /\ Tail(p)[i].snap.seq = n
    BY <1>1, <1>2, <1>8, ToldTaken DEF x
  <2>7. ASSUME engine.compatible, q.sent = engine.published, q.sent # 0
        PROVE  \/ \E i \in 1..Len(q.events) : q.events[i].kind = "snapshot"
                                              /\ q.events[i].snap.seq = q.sent
               \/ ~HasHello(q.events)
                  /\ store'.current = [run |-> q.run, seq |-> q.sent]
    <3>1. \/ \E i \in 1..Len(p) : p[i].kind = "snapshot" /\ p[i].snap.seq = r.sent
          \/ ~HasHello(p) /\ store.current = [run |-> r.run, seq |-> r.sent]
      BY <1>5, <1>6, <2>7 DEF Told, p
    <3>2. CASE \E i \in 1..Len(p) : p[i].kind = "snapshot" /\ p[i].snap.seq = r.sent
      <4>1. \E i \in 1..Len(Tail(p)) : /\ Tail(p)[i].kind = "snapshot"
                                       /\ Tail(p)[i].snap.seq = r.sent
        BY <2>6, <3>2, Zenon
      <4>. QED  BY <1>5, <4>1
    <3>3. CASE ~HasHello(p) /\ store.current = [run |-> r.run, seq |-> r.sent]
      BY <1>5, <2>3, <2>4, <2>5, <3>3
    <3>. QED  BY <3>1, <3>2, <3>3
  <2>. QED  BY <2>2, <2>7, Zenon DEF Told
<1>. QED  BY <1>7, <1>8

LEMMA ToldDeliver ==
    ASSUME Inv, ToldInv, NEW t \in Sockets, Deliver(t)
    PROVE  ToldInv'
<1>1. UNCHANGED <<mounted, engine>>
  BY DEF Deliver
<1>. SUFFICES ASSUME mounted # 0, NEW s \in Sockets, streams'[mounted].socket = s,
                     sockets'[s].phase = "live"
              PROVE  Told(sockets'[s], streams'[mounted].status.state, store'.current, engine)
  BY <1>1 DEF ToldInv
<1>2. /\ sockets \in [Sockets -> Socket] /\ streams \in [Mounts -> Stream]
      /\ mounted \in Mounts /\ s # NoSocket /\ Head(sockets[t].events) \in Event
      /\ sockets[t] \in Socket /\ sockets[t].events # <<>>
  <2>1. sockets[t].events \in Seq(Event) /\ sockets[t].events # <<>>
    BY Facts DEF Deliver
  <2>. QED  BY <2>1, Facts, SocketAssumption
<1>3. CASE ~IsCurrent(sockets[t].owner, t)
  <2>1. /\ UNCHANGED <<streams, store>> /\ sockets' = [sockets EXCEPT ![t] = Rest(sockets[t])]
    BY <1>3 DEF Deliver, Rest
  <2>2. sockets[s].owner = mounted
    BY <1>2, <2>1, Facts DEF StreamOK
  <2>3. s # t
    BY <1>3, <2>1, <2>2 DEF IsCurrent
  <2>. QED  BY <1>2, <2>1, <2>3 DEF ToldInv
<1>4. CASE IsCurrent(sockets[t].owner, t)
  <2>. DEFINE m == sockets[t].owner  x == Head(sockets[t].events)
  <2>1. m = mounted /\ m \in Mounts /\ streams[m] \in Stream /\ streams[m].socket = t /\ ~Ended(m)
    BY <1>4, OwnDelivery
  <2>2. x.kind \in {"open", "version", "invalid", "hello", "snapshot", "close"}
    BY <1>2 DEF Event
  <2>3. x.kind \notin {"version", "close"}
    <3>1. CASE x.kind = "version"
      <4>1. OnVersionMismatch(m)
        BY <1>4, <2>1, <3>1 DEF Deliver
      <4>. QED  BY <1>2, <2>1, <4>1 DEF OnVersionMismatch, Emit, Stream
    <3>2. CASE x.kind = "close"
      <4>. DEFINE w == [streams[m] EXCEPT !.socket = NoSocket, !.status.state = "closed",
                                          !.status.hello = NoRun]
                  o == [[streams[m] EXCEPT !.socket = NoSocket] EXCEPT !.status =
                          [[streams[m].status EXCEPT !.state = "closed"] EXCEPT !.hello = NoRun]]
                  c == IF 2 * w.backoff < BACKOFF_MAX_MS THEN 2 * w.backoff
                                                         ELSE BACKOFF_MAX_MS
      <4>1. HandleClose(m, x.code)
        BY <1>4, <2>1, <3>2 DEF Deliver
      <4>2. \/ Emit(m, [w EXCEPT !.timer = CLEAN_RETRY_MS])
            \/ Emit(m, [w EXCEPT !.timer = w.backoff, !.backoff = c])
        BY <4>1, Zenon DEF HandleClose
      <4>3. w = o
        BY <2>1 DEF Stream, StreamStatus
      <4>4. o.socket = NoSocket /\ {"socket", "timer", "backoff"} \subseteq DOMAIN o
        BY <2>1 DEF Stream
      <4>. HIDE DEF w, o, c
      <4>5. /\ [w EXCEPT !.timer = CLEAN_RETRY_MS].socket = NoSocket
            /\ [w EXCEPT !.timer = w.backoff, !.backoff = c].socket = NoSocket
        BY <4>3, <4>4
      <4>6. \A q : Emit(m, q) => streams'[m] = q
        BY <1>2, <2>1 DEF Emit
      <4>7. streams'[m].socket = NoSocket
        BY <4>2, <4>5, <4>6
      <4>. QED  BY <1>2, <2>1, <4>7
    <3>. QED  BY <3>1, <3>2
  <2>4. streams'[m].socket = t
    <3>1. \/ OnOpen(m) \/ OnInvalid(m) \/ OnHello(m, x.run) \/ UNCHANGED streams
      BY <1>4, <2>1, <2>2, <2>3 DEF Deliver, OnSnapshot
    <3>2. CASE OnOpen(m)
      BY <1>2, <2>1, <3>2 DEF OnOpen, Emit, Stream, StreamStatus
    <3>3. CASE OnInvalid(m)
      <4>. DEFINE n == streams[m].status.invalid + 1
      <4>1. streams' = [streams EXCEPT ![m] = [streams[m] EXCEPT !.status.invalid = n]]
        BY <2>1, <3>3 DEF OnInvalid, Emit, Stream, StreamStatus
      <4>. HIDE DEF n
      <4>. QED  BY <1>2, <2>1, <4>1 DEF Stream, StreamStatus
    <3>4. CASE OnHello(m, x.run)
      BY <1>2, <2>1, <3>4 DEF OnHello, Emit, Stream, StreamStatus
    <3>5. CASE UNCHANGED streams
      BY <2>1, <3>5
    <3>. QED  BY <3>1, <3>2, <3>3, <3>4, <3>5
  <2>5. s = t
    BY <2>1, <2>4
  <2>6. sockets[s].phase = "live"
    <3>1. sockets' = [sockets EXCEPT ![t] = Rest(sockets[t])]
      BY <2>1, <2>3 DEF Deliver, Rest
    <3>2. Rest(sockets[t]).phase = sockets[t].phase
      BY <1>2, <2>2, <2>3, Facts, RestOK
    <3>. QED  BY <1>2, <2>5, <3>1, <3>2
  <2>. QED  BY <1>4, <2>2, <2>3, <2>5, <2>6, ToldOwn
<1>. QED  BY <1>3, <1>4

(***************************************************************************)
(* Contract 7.2 - whatever was lost, refused, restarted or delivered late  *)
(* before: a page whose connection is open with all delivered and nothing  *)
(* unsent has the status "open" and shows the engine's newest snapshot.    *)
(***************************************************************************)
THEOREM RestShowsNewest == Spec => []RestIsUpToDate
<1>1. Init => ToldInv
  BY DEF Init, ToldInv
<1>2. Inv /\ ToldInv /\ [Next]_vars => ToldInv'
  <2>. SUFFICES ASSUME Inv, ToldInv, [Next]_vars PROVE ToldInv'
    OBVIOUS
  <2>1. CASE Mount \/ Unmount \/ Restart \/ (\E m \in Mounts : TimerFires(m))
    BY <2>1, ToldConnect DEF ToldInv
  <2>2. CASE UNCHANGED vars
    BY <2>2 DEF vars, ToldInv
  <2>. QED  BY <2>1, <2>2, ToldNetwork, ToldDeliver DEF Next, Page
<1>3. Inv /\ ToldInv => RestIsUpToDate
  <2>. SUFFICES ASSUME Inv, ToldInv, AtRest PROVE UpToDate
    BY DEF RestIsUpToDate
  <2>1. PICK s \in Sockets :
          /\ streams[mounted].socket = s /\ sockets[s].phase = "live"
          /\ sockets[s].events = <<>> /\ sockets[s].sent = engine.published
    BY DEF AtRest
  <2>2. mounted # 0 /\ engine.compatible
        /\ Told(sockets[s], streams[mounted].status.state, store.current, engine)
    BY <2>1 DEF AtRest, ToldInv
  <2>3. engine.published \in Nat /\ sockets[s].run = engine.run
    BY <2>1, Facts DEF OfEngine
  <2>. QED  BY <2>1, <2>2, <2>3 DEF Told, Coming, UpToDate
<1>. QED  BY <1>1, <1>2, <1>3, Invariance, PTL DEF Spec
=============================================================================
