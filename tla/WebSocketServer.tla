-------------------------- MODULE WebSocketServer --------------------------
(***************************************************************************)
(* The broadcast server of the engine (engine/src/network/WebSocketServer) *)
(* with its sessions.  Everything it does runs as handlers of one          *)
(* io_context thread; the API calls setHello, broadcast and stop come from *)
(* any thread and only post a handler.                                     *)
(*                                                                         *)
(* `queue' is the completion queue of the io_context (an I/O completion    *)
(* port on Windows, first in first out): posted API handlers and accepted  *)
(* connections wait in it together.  The completion of a session's own     *)
(* operation is one step, possible at any moment the operation is          *)
(* outstanding, which allows every order of such completions.              *)
(***************************************************************************)
EXTENDS Integers, Sequences

CONSTANTS Connections,    \* TCP connections clients may make, each once
          MaxBroadcasts,  \* bound: snapshots handed to broadcast()
          MaxStops        \* bound: calls of stop()

ASSUME BoundsAssumption == MaxBroadcasts \in Nat /\ MaxStops \in Nat

(***************************************************************************)
(* Frames are numbers, so that "older" is "<": nothing, the hello frame,   *)
(* and snapshot number n.  Vacant is a null shared_ptr.                    *)
(***************************************************************************)
Vacant == -1
Hello  == 0
Frame  == {Vacant} \cup Nat

VARIABLES queue,     \* completion queue of the io_context
          accepting, \* an async_accept is outstanding
          sessions,  \* sessions_: connections in the server's list
          ses,       \* the Session object of each connection
          hello,     \* hello_
          latest,    \* latest_
          stopped,   \* stopped_
          posted     \* how often each API function has been called

serverVars == <<queue, accepting, sessions, ses, hello, latest, stopped, posted>>

(***************************************************************************)
(* A connection's stage: not made yet; in the listen backlog; accepted and *)
(* waiting in the queue; its HTTP request being read; async_accept of the  *)
(* upgrade outstanding ("doomed" when started on a socket already closed); *)
(* an HTTP response being written; websocket; finished.                    *)
(* `last' and `greeted' record what the peer has received.                 *)
(***************************************************************************)
Stage == {"away", "backlog", "queued", "http", "upgrade", "doomed", "reply",
          "ws", "over"}

Session == [stage : Stage, reading : BOOLEAN, writing : BOOLEAN,
            closeOp : BOOLEAN, open : BOOLEAN, closing : BOOLEAN,
            socket : BOOLEAN, first : {Vacant, Hello}, sending : Frame,
            pending : Frame \ {Hello}, last : Frame, greeted : BOOLEAN]

NewSession ==
    [stage |-> "away", reading |-> FALSE, writing |-> FALSE,
     closeOp |-> FALSE, open |-> FALSE, closing |-> FALSE, socket |-> TRUE,
     first |-> Vacant, sending |-> Vacant, pending |-> Vacant,
     last |-> Vacant, greeted |-> FALSE]

Task == [kind : {"accept"}, conn : Connections]
          \cup [kind : {"broadcast"}, frame : Nat \ {0}]
          \cup [kind : {"hello", "stop"}]

AcceptTask(c)    == [kind |-> "accept", conn |-> c]
BroadcastTask(n) == [kind |-> "broadcast", frame |-> n]
HelloTask        == [kind |-> "hello"]
StopTask         == [kind |-> "stop"]

----------------------------------------------------------------------------
(***************************************************************************)
(* The session's own functions, as operators from a session to a session.  *)
(***************************************************************************)
DoWrite(r, m) == [r EXCEPT !.sending = m, !.writing = TRUE]

\* Mutant: a message is written at once, whether or not one is being written.
SendAtOnce(r, m) == IF ~r.open \/ r.closing THEN r ELSE DoWrite(r, m)

Send(r, m) ==
    IF ~r.open \/ r.closing THEN r
    ELSE IF r.writing THEN [r EXCEPT !.pending = m]
    ELSE DoWrite(r, m)

DoClose(r) == [r EXCEPT !.open = FALSE, !.closeOp = TRUE]

\* Mutant: the close handshake does not wait for the write under way.
CloseAtOnce(r) ==
    IF r.closing THEN r
    ELSE IF ~r.open THEN [r EXCEPT !.closing = TRUE, !.socket = FALSE]
    ELSE DoClose([r EXCEPT !.closing = TRUE, !.pending = Vacant])

Close(r) ==
    IF r.closing THEN r
    ELSE IF ~r.open THEN [r EXCEPT !.closing = TRUE, !.socket = FALSE]
    ELSE LET c == [r EXCEPT !.closing = TRUE, !.pending = Vacant]
         IN  IF r.writing THEN c ELSE DoClose(c)

Run(r, greeting, snapshot) ==
    [r EXCEPT !.stage = "http", !.first = greeting, !.pending = snapshot]

\* Mutant: the snapshot goes out first, hello waits for its turn.
OpenedSnapshotFirst(r) ==
    LET o == [r EXCEPT !.stage = "ws", !.open = TRUE, !.reading = TRUE]
    IN  IF r.pending # Vacant
        THEN [DoWrite(o, r.pending) EXCEPT !.pending = r.first, !.first = Vacant]
        ELSE IF r.first # Vacant THEN [DoWrite(o, r.first) EXCEPT !.first = Vacant]
        ELSE o

\* onAccept without an error: open, start reading, write hello or the
\* snapshot the session was given.
Opened(r) ==
    LET o == [r EXCEPT !.stage = "ws", !.open = TRUE, !.reading = TRUE]
    IN  IF r.first # Vacant THEN [DoWrite(o, r.first) EXCEPT !.first = Vacant]
        ELSE IF r.pending # Vacant
             THEN [DoWrite(o, r.pending) EXCEPT !.pending = Vacant]
             ELSE o

\* The peer has received the frame of the write that ended.
Sent(r) == [r EXCEPT !.writing = FALSE, !.sending = Vacant, !.last = r.sending,
                     !.greeted = r.greeted \/ r.sending = Hello]

\* Mutant: what waited in pending_ is not sent when the write ends.
WrittenForgettingPending(r) == IF r.closing THEN DoClose(Sent(r)) ELSE Sent(r)

\* onWrite without an error.
Written(r) ==
    IF r.closing THEN DoClose(Sent(r))
    ELSE IF r.pending # Vacant
         THEN [DoWrite(Sent(r), r.pending) EXCEPT !.pending = Vacant]
         ELSE Sent(r)

\* Mutant: onWrite just returns on an error, so nothing closes the socket.
WriteFailedReturning(r) ==
    [r EXCEPT !.writing = FALSE, !.sending = Vacant]

\* onWrite with an error closes the socket itself: nothing else would.
WriteFailed(r) ==
    [r EXCEPT !.writing = FALSE, !.sending = Vacant, !.open = FALSE,
              !.closing = TRUE, !.socket = FALSE]

Dropped(r) == [r EXCEPT !.stage = "over", !.socket = FALSE]

\* An asynchronous operation of the session is outstanding: its handler
\* holds a reference to the session and is work for io_context::run().
Busy(r) == \/ r.stage \in {"http", "upgrade", "doomed", "reply"}
           \/ r.reading \/ r.writing \/ r.closeOp

----------------------------------------------------------------------------
(***************************************************************************)
(* API calls: each posts one handler.  broadcast() is called with one new  *)
(* snapshot after the other.                                               *)
(***************************************************************************)
SetHello ==
    /\ ~posted.hello
    /\ queue' = Append(queue, HelloTask)
    /\ posted' = [posted EXCEPT !.hello = TRUE]
    /\ UNCHANGED <<accepting, sessions, ses, hello, latest, stopped>>

Broadcast ==
    /\ posted.frames < MaxBroadcasts
    /\ queue' = Append(queue, BroadcastTask(posted.frames + 1))
    /\ posted' = [posted EXCEPT !.frames = @ + 1]
    /\ UNCHANGED <<accepting, sessions, ses, hello, latest, stopped>>

Stop ==
    /\ posted.stops < MaxStops
    /\ queue' = Append(queue, StopTask)
    /\ posted' = [posted EXCEPT !.stops = @ + 1]
    /\ UNCHANGED <<accepting, sessions, ses, hello, latest, stopped>>

\* A client connects.  The outstanding async_accept completes with it, or it
\* waits in the listen backlog.
Connect(c) ==
    /\ ses[c].stage = "away"
    /\ ~stopped
    /\ IF accepting
       THEN /\ ses' = [ses EXCEPT ![c].stage = "queued"]
            /\ queue' = Append(queue, AcceptTask(c))
            /\ accepting' = FALSE
       ELSE /\ ses' = [ses EXCEPT ![c].stage = "backlog"]
            /\ UNCHANGED <<queue, accepting>>
    /\ UNCHANGED <<sessions, hello, latest, stopped, posted>>

----------------------------------------------------------------------------
(***************************************************************************)
(* Handlers taken from the queue.  Each removes its own task.              *)
(***************************************************************************)
Ready(kind) == queue # <<>> /\ Head(queue).kind = kind

HandleSetHello ==
    /\ Ready("hello")
    /\ queue' = Tail(queue)
    /\ hello' = Hello
    /\ UNCHANGED <<accepting, sessions, ses, latest, stopped, posted>>

HandleBroadcast ==
    /\ Ready("broadcast")
    /\ queue' = Tail(queue)
    /\ latest' = Head(queue).frame
    /\ ses' = [c \in Connections |->
                 IF c \in sessions THEN Send(ses[c], Head(queue).frame)
                                   ELSE ses[c]]
    /\ UNCHANGED <<accepting, sessions, hello, stopped, posted>>

\* Closing the acceptor cancels the outstanding async_accept (its handler
\* finds stopped_ and returns, so it has no task here) and resets the
\* connections of the backlog.
HandleStop ==
    /\ Ready("stop")
    /\ queue' = Tail(queue)
    /\ IF stopped THEN UNCHANGED <<accepting, sessions, ses, stopped>>
       ELSE /\ stopped' = TRUE
            /\ accepting' = FALSE
            /\ sessions' = {}
            /\ ses' = [c \in Connections |->
                         IF c \in sessions THEN Close(ses[c])
                         ELSE IF ses[c].stage = "backlog" THEN Dropped(ses[c])
                         ELSE ses[c]]
    /\ UNCHANGED <<hello, latest, posted>>

\* doAccept: a connection of the backlog completes the new async_accept at
\* once, otherwise it stays outstanding.  f is the sessions after the rest of
\* the handler, rest the queue without the handler's task.
DoAccept(f, rest) ==
    LET waiting == {b \in Connections : f[b].stage = "backlog"} IN
    \/ /\ waiting = {}
       /\ accepting' = TRUE
       /\ queue' = rest
       /\ ses' = f
    \/ \E b \in waiting :
          /\ queue' = Append(rest, AcceptTask(b))
          /\ ses' = [f EXCEPT ![b].stage = "queued"]
          /\ UNCHANGED accepting

\* Mutant: a connection accepted while stop() ran is taken in all the same.
HandleAcceptUnchecked ==
    /\ Ready("accept")
    /\ LET c == Head(queue).conn IN
       /\ sessions' = sessions \cup {c}
       /\ DoAccept([ses EXCEPT ![c] = Run(@, hello, latest)], Tail(queue))
    /\ UNCHANGED <<hello, latest, stopped, posted>>

\* onAccept of the acceptor with a connection; stopped_ lets the socket go.
HandleAccept ==
    /\ Ready("accept")
    /\ LET c == Head(queue).conn IN
       IF stopped
       THEN /\ queue' = Tail(queue)
            /\ ses' = [ses EXCEPT ![c] = Dropped(@)]
            /\ UNCHANGED <<accepting, sessions>>
       ELSE /\ sessions' = sessions \cup {c}
            /\ DoAccept([ses EXCEPT ![c] = Run(@, hello, latest)], Tail(queue))
    /\ UNCHANGED <<hello, latest, stopped, posted>>

\* onAccept of the acceptor with an error: no session, accept again.
HandleAcceptError ==
    /\ Ready("accept")
    /\ ~stopped
    /\ LET c == Head(queue).conn IN
       DoAccept([ses EXCEPT ![c] = Dropped(@)], Tail(queue))
    /\ UNCHANGED <<sessions, hello, latest, stopped, posted>>

----------------------------------------------------------------------------
(***************************************************************************)
(* Completions of a session's own operations.                              *)
(***************************************************************************)
SessionStep(c, r) ==
    /\ ses' = [ses EXCEPT ![c] = r]
    /\ UNCHANGED <<queue, accepting, sessions, hello, latest, stopped, posted>>

RemoveSession(c, r) ==
    /\ ses' = [ses EXCEPT ![c] = r]
    /\ sessions' = sessions \ {c}
    /\ UNCHANGED <<queue, accepting, hello, latest, stopped, posted>>

RequestFailed(c) ==
    /\ ses[c].stage = "http"
    /\ RemoveSession(c, [ses[c] EXCEPT !.stage = "over"])

\* Not an upgrade, or a foreign origin: one HTTP response, then the end.
RequestAnswered(c) ==
    /\ ses[c].stage = "http"
    /\ SessionStep(c, [ses[c] EXCEPT !.stage = "reply"])

RequestUpgrade(c) ==
    /\ ses[c].stage = "http"
    /\ SessionStep(c, [ses[c] EXCEPT !.stage = IF ses[c].socket THEN "upgrade"
                                                                ELSE "doomed"])

ReplyWritten(c) ==
    /\ ses[c].stage = "reply"
    /\ RemoveSession(c, [ses[c] EXCEPT !.stage = "over"])

UpgradeFailed(c) ==
    /\ ses[c].stage \in {"upgrade", "doomed"}
    /\ RemoveSession(c, [ses[c] EXCEPT !.stage = "over"])

\* A completion that was already queued when close() shut the socket still
\* arrives as a success, so this does not depend on `socket'.
UpgradeDone(c) ==
    /\ ses[c].stage = "upgrade"
    /\ SessionStep(c, Opened(ses[c]))

\* The peer closed, the connection failed, timed out or was closed here.
ReadFailed(c) ==
    /\ ses[c].reading
    /\ RemoveSession(c, [ses[c] EXCEPT !.reading = FALSE, !.open = FALSE])

WriteDone(c) ==
    /\ ses[c].writing
    /\ ses[c].socket
    /\ SessionStep(c, Written(ses[c]))

WriteError(c) ==
    /\ ses[c].writing
    /\ RemoveSession(c, WriteFailed(ses[c]))

CloseDone(c) ==
    /\ ses[c].closeOp
    /\ SessionStep(c, [ses[c] EXCEPT !.closeOp = FALSE, !.socket = FALSE])

----------------------------------------------------------------------------
Init ==
    /\ queue = <<>>
    /\ accepting = TRUE
    /\ sessions = {}
    /\ ses = [c \in Connections |-> NewSession]
    /\ hello = Vacant
    /\ latest = Vacant
    /\ stopped = FALSE
    /\ posted = [hello |-> FALSE, frames |-> 0, stops |-> 0]

Handlers ==
    \/ HandleSetHello \/ HandleBroadcast \/ HandleStop
    \/ HandleAccept \/ HandleAcceptError

Completion(c) ==
    \/ RequestFailed(c) \/ RequestAnswered(c) \/ RequestUpgrade(c)
    \/ ReplyWritten(c)
    \/ UpgradeFailed(c) \/ UpgradeDone(c)
    \/ ReadFailed(c)
    \/ WriteDone(c) \/ WriteError(c)
    \/ CloseDone(c)

Api == SetHello \/ Broadcast \/ Stop

Next ==
    \/ Api
    \/ Handlers
    \/ \E c \in Connections : Connect(c) \/ Completion(c)

Spec == Init /\ [][Next]_serverVars

(***************************************************************************)
(* Fairness.  io_context::run() takes every handler in turn.  A started    *)
(* websocket write and a close handshake end because the session's stream  *)
(* timeouts bound them; an operation on a socket closed here fails.  The   *)
(* upgrade response is a few bytes into an empty send buffer.  Nothing     *)
(* makes a client send its request, read or close: no fairness for that.   *)
(***************************************************************************)
ClosedSocketFails(c) ==
    /\ ~ses[c].socket
    /\ RequestFailed(c) \/ ReplyWritten(c) \/ ReadFailed(c)

Fairness ==
    /\ WF_serverVars(Handlers)
    /\ \A c \in Connections :
         /\ WF_serverVars(UpgradeDone(c) \/ UpgradeFailed(c))
         /\ WF_serverVars(WriteDone(c) \/ WriteError(c))
         /\ WF_serverVars(CloseDone(c))
         /\ WF_serverVars(ClosedSocketFails(c))

FairSpec == Spec /\ Fairness

----------------------------------------------------------------------------
\* The state of the server and its sessions is well formed.
TypeOK ==
    /\ queue \in Seq(Task)
    /\ accepting \in BOOLEAN
    /\ sessions \in SUBSET Connections
    /\ ses \in [Connections -> Session]
    /\ hello \in {Vacant, Hello}
    /\ latest \in Frame \ {Hello}
    /\ stopped \in BOOLEAN
    /\ posted \in [hello : BOOLEAN, frames : Nat, stops : Nat]

(***************************************************************************)
(* Beast allows one outgoing operation per stream, and async_write reads   *)
(* sending_ until it completes.  No session ever has a write and a close   *)
(* handshake outstanding together, and the buffer of an outstanding write  *)
(* is alive (Session::send, close, doWrite, doClose, onWrite).             *)
(***************************************************************************)
OneOutgoingOperation ==
    \A c \in Connections :
        /\ ~(ses[c].writing /\ ses[c].closeOp)
        /\ ses[c].writing <=> ses[c].sending # Vacant

(***************************************************************************)
(* The buffer handed to async_write is not replaced before its completion  *)
(* handler has run: send() parks a newer message in pending_ instead.      *)
(***************************************************************************)
BufferStable ==
    [][\A c \in Connections :
          (ses[c].writing /\ ses'[c].sending # ses[c].sending)
             => \/ ~ses'[c].writing
                \/ ses'[c].last = ses[c].sending]_serverVars

(***************************************************************************)
(* Along the slots of a session the frames only get newer: what the peer   *)
(* has, what is being written, what waits, what the server keeps, what is  *)
(* still posted.  A session never sends an old snapshot after a new one,   *)
(* and never the hello after a snapshot, however writes, overwrites of     *)
(* pending_ and broadcasts interleave.                                     *)
(***************************************************************************)
FramesInOrder ==
    \A c \in Connections :
        LET r == ses[c] IN
        /\ r.sending # Vacant => r.last < r.sending
        /\ r.pending # Vacant => r.last < r.pending /\ r.sending < r.pending
        /\ r.first # Vacant => r.sending = Vacant /\ r.last = Vacant
        /\ r.pending <= latest
        /\ r.sending <= latest \/ r.sending = Hello

(***************************************************************************)
(* A listed session always has an operation outstanding whose end removes  *)
(* it, and a closed server lists none: no session leaks (removeSession,    *)
(* stop, the acceptor's onAccept).                                         *)
(***************************************************************************)
NoLeakedSession ==
    /\ \A c \in sessions : Busy(ses[c]) /\ (ses[c].stage = "ws" => ses[c].reading)
    /\ stopped => sessions = {}

(***************************************************************************)
(* WebSocketServer.h:34 - broadcast() reaches all connected sessions.  A   *)
(* snapshot given to an open session is delivered, or overtaken by a newer *)
(* one that is, unless the session closes.                                 *)
(***************************************************************************)
BroadcastDelivered ==
    \A c \in Connections : \A n \in 1..MaxBroadcasts :
        (ses[c].sending = n \/ (ses[c].pending = n /\ ses[c].open))
            ~> (ses[c].last >= n \/ ~ses[c].open \/ ses[c].closing)

(***************************************************************************)
(* WebSocketServer.h:37 - after stop() every operation of every session    *)
(* ends, with peers that are silent, slow or in the middle of the          *)
(* handshake; otherwise io_context::run() could not return.                *)
(***************************************************************************)
StopDrains == stopped ~> (\A c \in Connections : ~Busy(ses[c]))

(***************************************************************************)
(* docs m2-transport-design.md:112 - the server keeps the most recent      *)
(* snapshot and sends it right after hello: while a session's hello is on  *)
(* its way, the snapshot that follows it is the most recent one.           *)
(***************************************************************************)
NewcomerGetsLatest ==
    \A c \in sessions :
        ses[c].open /\ ses[c].sending = Hello /\ ~ses[c].closing
            => ses[c].pending = latest

(***************************************************************************)
(* The server implements the feed: a viewer is tuned in while its session  *)
(* is open and not being closed.                                           *)
(***************************************************************************)
Presence(r) ==
    IF r.open /\ ~r.closing THEN "tuned"
    ELSE IF r.stage \in {"ws", "reply", "over"} THEN "left" ELSE "away"

Seen(r) == IF r.last = Vacant THEN 0 ELSE r.last

Feed == INSTANCE SnapshotFeed
          WITH Viewers <- Connections,
               MaxPublished <- MaxBroadcasts,
               published <- posted.frames,
               presence <- [c \in Connections |-> Presence(ses[c])],
               seen <- [c \in Connections |-> Seen(ses[c])]

\* WebSocketServer.h:14-35 - every behaviour of the server is one of the
\* feed: no snapshot is invented, repeated or reordered for any viewer.
ImplementsFeed == Feed!FeedSpec
=============================================================================
