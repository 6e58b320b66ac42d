---------------------------- MODULE ServerProofs ----------------------------
(***************************************************************************)
(* Proofs about WebSocketServer for any set of connections and any bounds, *)
(* and about runServe above it with any number of clients and samples,     *)
(* which uses the server within its interface.                             *)
(*                                                                         *)
(* The server's inductive invariant has a part for each session alone      *)
(* (SessionInv, preserved by each function of the session) and a part for  *)
(* the queue.                                                              *)
(***************************************************************************)
EXTENDS ServeApp, FiniteSums

SessionInv(r, top) ==
    /\ r.writing <=> r.sending # Vacant
    /\ ~(r.writing /\ r.closeOp)
    /\ r.closeOp => ~r.open
    /\ r.stage # "ws" => /\ ~r.open /\ ~r.reading /\ ~r.writing /\ ~r.closeOp
                         /\ r.last = Vacant
    /\ r.sending # Vacant => r.last < r.sending
    /\ r.pending # Vacant => r.last < r.pending /\ r.sending < r.pending
    /\ r.first # Vacant => r.stage # "ws" /\ r.sending = Vacant
    /\ r.pending <= top
    /\ r.sending <= top \/ r.sending = Hello
    /\ r.last <= top \/ r.last = Hello
    /\ r.open /\ ~r.closing /\ ~r.writing => r.pending = Vacant

Unhandled == {"away", "backlog", "queued"}

\* Tasks in the order of the calls: snapshots newer than the one kept (top)
\* and none beyond the last one posted (bound); a connection waits at most
\* once and has no session yet in f.
QueueOrder(q, f, top, bound) ==
    /\ \A i \in 1..Len(q) :
         /\ q[i].kind = "broadcast" =>
              top < q[i].frame /\ q[i].frame <= bound
         /\ q[i].kind = "accept" => f[q[i].conn].stage = "queued"
    /\ \A i, j \in 1..Len(q) :
         i < j =>
           /\ q[i].kind = "broadcast" /\ q[j].kind = "broadcast"
                => q[i].frame < q[j].frame
           /\ q[i].kind = "accept" /\ q[j].kind = "accept"
                => q[i].conn # q[j].conn

QueueInv == /\ latest <= posted.frames
            /\ QueueOrder(queue, ses, latest, posted.frames)

Listed(r) == \/ r.stage \in {"http", "upgrade", "doomed", "reply"}
             \/ r.stage = "ws" /\ r.reading

ListInv == /\ \A c \in sessions : Listed(ses[c])
           /\ stopped => sessions = {}

Inv == /\ TypeOK
       /\ \A c \in Connections : SessionInv(ses[c], latest)
       /\ QueueInv
       /\ ListInv

----------------------------------------------------------------------------
(***************************************************************************)
(* The session's functions keep SessionInv.                                *)
(***************************************************************************)

\* A newer bound on the frames the server keeps does no harm.
LEMMA SessionInvMonotone ==
    ASSUME NEW r \in Session, NEW top \in Frame, NEW m \in Frame,
           top <= m, SessionInv(r, top)
    PROVE  SessionInv(r, m)
  BY SMT DEF SessionInv, Session, Frame, Vacant, Hello

\* send() with a snapshot newer than any before.
LEMMA SendKeeps ==
    ASSUME NEW r \in Session, NEW top \in Frame, NEW m \in Nat \ {0},
           top < m, SessionInv(r, top)
    PROVE  Send(r, m) \in Session /\ SessionInv(Send(r, m), m)
<1>1. m \in Frame /\ m \in Frame \ {Hello}
  BY DEF Frame, Hello
<1>2. Send(r, m) \in Session
  BY <1>1, Zenon DEF Send, DoWrite, Session
<1>3. SessionInv(Send(r, m), m)
  BY SMT DEF SessionInv, Session, Frame, Vacant, Hello, Send, DoWrite
<1>. QED  BY <1>2, <1>3

\* close() in any state of the session.
LEMMA CloseKeeps ==
    ASSUME NEW r \in Session, NEW top \in Frame, SessionInv(r, top)
    PROVE  Close(r) \in Session /\ SessionInv(Close(r), top)
<1>1. Vacant \in Frame /\ Vacant \in Frame \ {Hello}
  BY DEF Frame, Vacant, Hello
<1>2. Close(r) \in Session
  BY <1>1, Zenon DEF Close, DoClose, Session
<1>3. SessionInv(Close(r), top)
  BY SMT DEF SessionInv, Session, Frame, Vacant, Hello, Close, DoClose
<1>. QED  BY <1>2, <1>3

\* run() hands hello and the kept snapshot to a session that has not begun.
LEMMA RunKeeps ==
    ASSUME NEW r \in Session, NEW top \in Frame \ {Hello},
           NEW h \in {Vacant, Hello}, SessionInv(r, top),
           r.stage \in Unhandled
    PROVE  Run(r, h, top) \in Session /\ SessionInv(Run(r, h, top), top)
<1>1. Run(r, h, top) \in Session
  <2>1. "http" \in Stage
    BY DEF Stage
  <2>. QED  BY <2>1, Zenon DEF Run, Session
<1>2. SessionInv(Run(r, h, top), top)
  BY SMT DEF SessionInv, Session, Stage, Frame, Vacant, Hello, Run, Unhandled
<1>. QED  BY <1>1, <1>2

\* The end of the handshake: the session opens, reads and starts its first write.
LEMMA OpenedKeeps ==
    ASSUME NEW r \in Session, NEW top \in Frame, SessionInv(r, top),
           r.stage = "upgrade"
    PROVE  /\ Opened(r) \in Session /\ SessionInv(Opened(r), top)
           /\ Opened(r).stage = "ws" /\ Opened(r).reading
<1>1. Opened(r) \in Session
  <2>1. "ws" \in Stage /\ Vacant \in Frame \ {Hello} /\ Hello \in Frame
    BY DEF Stage, Frame, Vacant, Hello
  <2>2. r.first \in Frame
    BY <2>1 DEF Session, Frame
  <2>3. r.pending \in Frame
    BY DEF Session
  <2>. QED  BY <2>1, <2>2, <2>3, Zenon DEF Opened, DoWrite, Session
<1>2. SessionInv(Opened(r), top)
  BY SMT DEF SessionInv, Session, Stage, Frame, Vacant, Hello, Opened, DoWrite
<1>3. Opened(r).stage = "ws" /\ Opened(r).reading
  BY SMT DEF Session, Opened, DoWrite
<1>. QED  BY <1>1, <1>2, <1>3

\* A write that ended well; its frame becomes the last one the peer has.
LEMMA WrittenKeeps ==
    ASSUME NEW r \in Session, NEW top \in Frame, SessionInv(r, top), r.writing
    PROVE  /\ Written(r) \in Session /\ SessionInv(Written(r), top)
           /\ Written(r).stage = r.stage /\ Written(r).reading = r.reading
           /\ Written(r).last = r.sending
<1>1. Written(r) \in Session
  <2>1. Vacant \in Frame \ {Hello} /\ Vacant \in Frame /\ r.pending \in Frame
    BY DEF Frame, Vacant, Hello, Session
  <2>. QED  BY <2>1, Zenon DEF Written, Sent, DoWrite, DoClose, Session
<1>2. SessionInv(Written(r), top)
  BY SMT DEF SessionInv, Session, Frame, Vacant, Hello, Written, Sent, DoWrite, DoClose
<1>3. /\ Written(r).stage = r.stage /\ Written(r).reading = r.reading
      /\ Written(r).last = r.sending
  BY SMT DEF Session, Written, Sent, DoWrite, DoClose
<1>. QED  BY <1>1, <1>2, <1>3

\* A write that failed: the session closes its own socket.
LEMMA WriteFailedKeeps ==
    ASSUME NEW r \in Session, NEW top \in Frame, SessionInv(r, top), r.writing
    PROVE  WriteFailed(r) \in Session /\ SessionInv(WriteFailed(r), top)
<1>1. WriteFailed(r) \in Session
  <2>1. Vacant \in Frame
    BY DEF Frame
  <2>. QED  BY <2>1, Zenon DEF WriteFailed, Session
<1>2. SessionInv(WriteFailed(r), top)
  BY SMT DEF SessionInv, Session, Frame, Vacant, Hello, WriteFailed
<1>. QED  BY <1>1, <1>2

----------------------------------------------------------------------------
(***************************************************************************)
(* The order of the queue under the operations on it.                      *)
(***************************************************************************)

\* Only which connections wait matters of the sessions.
LEMMA QueueOrderFrame ==
    ASSUME NEW q \in Seq(Task), NEW f, NEW g, NEW top, NEW bound,
           QueueOrder(q, f, top, bound),
           \A c \in Connections : f[c].stage = "queued" => g[c].stage = "queued"
    PROVE  QueueOrder(q, g, top, bound)
<1>1. \A i \in 1..Len(q) : q[i].kind = "accept" => q[i].conn \in Connections
  BY DEF Task
<1>. QED  BY <1>1, SMT DEF QueueOrder

\* Taking a task: the rest stays in order, above the snapshot just taken.
LEMMA QueueOrderTail ==
    ASSUME NEW q \in Seq(Task), q # <<>>, NEW f, NEW top \in Int, NEW bound \in Int,
           QueueOrder(q, f, top, bound)
    PROVE  /\ Tail(q) \in Seq(Task) /\ Head(q) \in Task
           /\ QueueOrder(Tail(q), f, top, bound)
           /\ Head(q).kind = "broadcast" =>
                /\ top < Head(q).frame /\ Head(q).frame <= bound
                /\ QueueOrder(Tail(q), f, Head(q).frame, bound)
           /\ Head(q).kind = "accept" =>
                /\ f[Head(q).conn].stage = "queued"
                /\ \A i \in 1..Len(Tail(q)) : Tail(q)[i].kind = "accept"
                      => Tail(q)[i].conn # Head(q).conn
<1>1. /\ Tail(q) \in Seq(Task) /\ Head(q) \in Task /\ Head(q) = q[1]
      /\ Len(Tail(q)) = Len(q) - 1 /\ Len(q) \in Nat \ {0}
      /\ \A i \in 1..Len(Tail(q)) : Tail(q)[i] = q[i + 1]
  OBVIOUS
<1>2. \A i \in 1..Len(Tail(q)) : i + 1 \in 1..Len(q) /\ 1 < i + 1
  BY <1>1
<1>3. 1 \in 1..Len(q)
  BY <1>1
<1>4. QueueOrder(Tail(q), f, top, bound)
  BY <1>1, <1>2, SMT DEF QueueOrder
<1>. QED  BY <1>1, <1>2, <1>3, <1>4, SMT DEF QueueOrder

\* Posting a task: a newer snapshot, a connection not yet waiting, or one of
\* the tasks without data.
LEMMA QueueOrderAppend ==
    ASSUME NEW q \in Seq(Task), NEW f, NEW top \in Int, NEW bound \in Int,
           QueueOrder(q, f, top, bound),
           NEW t \in Task, NEW limit \in Int, bound <= limit,
           t.kind = "broadcast" =>
             top < t.frame /\ bound < t.frame /\ t.frame <= limit,
           t.kind = "accept" => /\ f[t.conn].stage = "queued"
                                /\ \A i \in 1..Len(q) : q[i].kind = "accept"
                                      => q[i].conn # t.conn
    PROVE  /\ Append(q, t) \in Seq(Task)
           /\ QueueOrder(Append(q, t), f, top, limit)
<1>1. /\ Append(q, t) \in Seq(Task) /\ Len(Append(q, t)) = Len(q) + 1
      /\ Len(q) \in Nat
      /\ \A i \in 1..Len(q) : Append(q, t)[i] = q[i]
      /\ Append(q, t)[Len(q) + 1] = t
  OBVIOUS
<1>2. \A i \in 1..(Len(q) + 1) : i \in 1..Len(q) \/ i = Len(q) + 1
  BY <1>1
<1>3. /\ \A i \in 1..Len(q) : q[i].kind = "broadcast" => q[i].frame \in Int
      /\ t.kind = "broadcast" => t.frame \in Int
  BY DEF Task
<1>. DEFINE p == Append(q, t)
<1>. HIDE DEF p
<1>4. ASSUME NEW i \in 1..Len(p)
      PROVE  /\ p[i].kind = "broadcast" => top < p[i].frame /\ p[i].frame <= limit
             /\ p[i].kind = "accept" => f[p[i].conn].stage = "queued"
  <2>1. CASE i \in 1..Len(q)
    BY <2>1, <1>1, <1>3, SMT DEF QueueOrder, p
  <2>2. CASE i = Len(q) + 1
    BY <2>2, <1>1, SMT DEF p
  <2>. QED  BY <1>1, <1>2, <2>1, <2>2 DEF p
<1>5. ASSUME NEW i \in 1..Len(p), NEW j \in 1..Len(p), i < j
      PROVE  /\ p[i].kind = "broadcast" /\ p[j].kind = "broadcast"
                   => p[i].frame < p[j].frame
             /\ p[i].kind = "accept" /\ p[j].kind = "accept"
                   => p[i].conn # p[j].conn
  <2>1. i \in 1..Len(q)
    BY <1>1, <1>2, <1>5, SMT DEF p
  <2>2. CASE j \in 1..Len(q)
    BY <2>1, <2>2, <1>1, <1>5, SMT DEF QueueOrder, p
  <2>3. CASE j = Len(q) + 1
    BY <2>1, <2>3, <1>1, <1>3, SMT DEF QueueOrder, p
  <2>. QED  BY <1>1, <1>2, <2>2, <2>3 DEF p
<1>6. QueueOrder(p, f, top, limit)
  BY <1>4, <1>5, Zenon DEF QueueOrder
<1>. QED  BY <1>1, <1>6 DEF p

----------------------------------------------------------------------------
(***************************************************************************)
(* The invariant is kept by every action.                                  *)
(***************************************************************************)

\* A completion changes one session and at most takes it off the list.
LEMMA CompletionKeeps ==
    ASSUME Inv, NEW c \in Connections, NEW r \in Session,
           SessionInv(r, latest), ses[c].stage # "queued",
           ses' = [ses EXCEPT ![c] = r],
           sessions' = sessions \/ sessions' = sessions \ {c},
           c \in sessions' => Listed(r),
           UNCHANGED <<queue, accepting, hello, latest, stopped, posted>>
    PROVE  Inv'
<1>1. /\ ses \in [Connections -> Session]
      /\ ses' \in [Connections -> Session]
      /\ \A d \in Connections : ses'[d] = IF d = c THEN r ELSE ses[d]
  BY DEF Inv, TypeOK
<1>2. TypeOK'
  BY <1>1 DEF Inv, TypeOK
<1>3. \A d \in Connections : SessionInv(ses'[d], latest')
  BY <1>1 DEF Inv
<1>4. QueueInv'
  <2>1. QueueOrder(queue, ses', latest, posted.frames)
    <3>1. queue \in Seq(Task) /\ QueueOrder(queue, ses, latest, posted.frames)
      BY DEF Inv, TypeOK, QueueInv
    <3>2. \A d \in Connections : ses[d].stage = "queued" => ses'[d].stage = "queued"
      BY <1>1
    <3>. QED  BY <3>1, <3>2, QueueOrderFrame
  <2>. QED  BY <2>1 DEF Inv, QueueInv
<1>5. ListInv'
  <2>1. \A d \in sessions' : d \in sessions /\ d \in Connections
    BY DEF Inv, TypeOK
  <2>2. \A d \in sessions' : Listed(ses'[d])
    BY <1>1, <2>1 DEF Inv, ListInv
  <2>. QED  BY <2>2 DEF Inv, ListInv
<1>. QED  BY <1>2, <1>3, <1>4, <1>5 DEF Inv

\* Every completion of a session's own operation keeps the invariant.
LEMMA CompletionStep ==
    ASSUME Inv, NEW c \in Connections, Completion(c)
    PROVE  Inv'
<1>1. ses[c] \in Session /\ latest \in Frame /\ SessionInv(ses[c], latest)
  BY DEF Inv, TypeOK
<1>2. c \in sessions => Listed(ses[c])
  BY DEF Inv, ListInv
<1>3. \A st \in {"reply", "over", "upgrade", "doomed"} : st \in Stage
  BY DEF Stage
<1>4. ASSUME NEW st \in {"reply", "over", "upgrade", "doomed"},
             ses[c].stage \in {"http", "reply", "upgrade", "doomed"}
      PROVE  /\ [ses[c] EXCEPT !.stage = st] \in Session
             /\ SessionInv([ses[c] EXCEPT !.stage = st], latest)
             /\ [ses[c] EXCEPT !.stage = st].stage = st
  <2>1. [ses[c] EXCEPT !.stage = st] \in Session
    BY <1>1, <1>3, Zenon DEF Session
  <2>2. SessionInv([ses[c] EXCEPT !.stage = st], latest)
    BY <1>1, <1>4, SMT DEF SessionInv, Session, Frame, Vacant, Hello
  <2>. QED  BY <1>1, <2>1, <2>2, SMT DEF Session
<1>5. CASE RequestFailed(c)
  BY <1>4, <1>5, CompletionKeeps DEF RequestFailed, RemoveSession
<1>6. CASE RequestAnswered(c)
  BY <1>4, <1>6, CompletionKeeps DEF RequestAnswered, SessionStep, Listed
<1>7. CASE RequestUpgrade(c)
  <2>. DEFINE st == IF ses[c].socket THEN "upgrade" ELSE "doomed"
  <2>1. st \in {"upgrade", "doomed"}
    OBVIOUS
  <2>2. ses' = [ses EXCEPT ![c] = [ses[c] EXCEPT !.stage = st]]
    BY <1>7 DEF RequestUpgrade, SessionStep
  <2>. HIDE DEF st
  <2>. QED  BY <1>4, <1>7, <2>1, <2>2, CompletionKeeps
            DEF RequestUpgrade, SessionStep, Listed
<1>8. CASE ReplyWritten(c)
  BY <1>4, <1>8, CompletionKeeps DEF ReplyWritten, RemoveSession
<1>9. CASE UpgradeFailed(c)
  BY <1>4, <1>9, CompletionKeeps DEF UpgradeFailed, RemoveSession
<1>10. CASE UpgradeDone(c)
  BY <1>1, <1>10, OpenedKeeps, CompletionKeeps DEF UpgradeDone, SessionStep, Listed
<1>11. CASE ReadFailed(c)
  <2>. DEFINE r == [ses[c] EXCEPT !.reading = FALSE, !.open = FALSE]
  <2>1. r \in Session
    BY <1>1, Zenon DEF Session
  <2>2. SessionInv(r, latest)
    BY <1>1, SMT DEF SessionInv, Session, Frame, Vacant, Hello
  <2>3. ses[c].stage # "queued"
    BY <1>1, <1>11 DEF ReadFailed, SessionInv
  <2>. QED  BY <1>11, <2>1, <2>2, <2>3, CompletionKeeps DEF ReadFailed, RemoveSession
<1>12. CASE WriteDone(c)
  <2>1. ses[c].writing /\ ses[c].stage # "queued"
    BY <1>1, <1>12 DEF WriteDone, SessionInv
  <2>2. c \in sessions => Listed(Written(ses[c]))
    BY <1>1, <1>2, <2>1, WrittenKeeps DEF Listed
  <2>. QED  BY <1>1, <1>12, <2>1, <2>2, WrittenKeeps, CompletionKeeps
            DEF WriteDone, SessionStep
<1>13. CASE WriteError(c)
  <2>1. ses[c].writing /\ ses[c].stage # "queued"
    BY <1>1, <1>13 DEF WriteError, SessionInv
  <2>. QED  BY <1>1, <1>13, <2>1, WriteFailedKeeps, CompletionKeeps
            DEF WriteError, RemoveSession
<1>14. CASE CloseDone(c)
  <2>. DEFINE r == [ses[c] EXCEPT !.closeOp = FALSE, !.socket = FALSE]
  <2>1. r \in Session
    BY <1>1, Zenon DEF Session
  <2>2. SessionInv(r, latest)
    BY <1>1, SMT DEF SessionInv, Session, Frame, Vacant, Hello
  <2>3. ses[c].stage # "queued"
    BY <1>1, <1>14 DEF CloseDone, SessionInv
  <2>4. c \in sessions => Listed(r)
    BY <1>1, <1>2, SMT DEF Listed, Session
  <2>. QED  BY <1>14, <2>1, <2>2, <2>3, <2>4, CompletionKeeps
            DEF CloseDone, SessionStep
<1>. QED  BY <1>5, <1>6, <1>7, <1>8, <1>9, <1>10, <1>11, <1>12, <1>13, <1>14
          DEF Completion

\* An API call or a new connection appends a task.
LEMMA ApiStep ==
    ASSUME Inv, Api
    PROVE  Inv'
<1>1. /\ queue \in Seq(Task) /\ latest \in Int /\ posted.frames \in Nat
      /\ latest <= posted.frames
      /\ QueueOrder(queue, ses, latest, posted.frames)
  BY DEF Inv, TypeOK, QueueInv, Frame, Vacant
<1>2. CASE SetHello
  <2>1. HelloTask \in Task /\ HelloTask.kind = "hello"
    BY DEF Task, HelloTask
  <2>2. posted'.frames = posted.frames /\ posted' \in [hello : BOOLEAN, frames : Nat, stops : Nat]
    BY <1>2 DEF SetHello, Inv, TypeOK
  <2>3. /\ Append(queue, HelloTask) \in Seq(Task)
        /\ QueueOrder(Append(queue, HelloTask), ses, latest, posted.frames)
    <3>1. posted.frames <= posted.frames /\ posted.frames \in Int
      BY <1>1
    <3>2. HelloTask.kind # "broadcast" /\ HelloTask.kind # "accept"
      BY <2>1
    <3>. QED  BY <1>1, <2>1, <3>1, <3>2, QueueOrderAppend
  <2>. QED  BY <1>1, <1>2, <2>2, <2>3 DEF SetHello, Inv, TypeOK, QueueInv, ListInv
<1>3. CASE Broadcast
  <2>. DEFINE t == BroadcastTask(posted.frames + 1)
  <2>1. t \in Task /\ t.kind = "broadcast" /\ t.frame = posted.frames + 1
    BY <1>1 DEF Task, BroadcastTask
  <2>2. /\ posted'.frames = posted.frames + 1
        /\ posted' \in [hello : BOOLEAN, frames : Nat, stops : Nat]
    BY <1>1, <1>3 DEF Broadcast, Inv, TypeOK
  <2>. HIDE DEF t
  <2>3. /\ Append(queue, t) \in Seq(Task)
        /\ QueueOrder(Append(queue, t), ses, latest, posted.frames + 1)
    <3>1. /\ posted.frames <= posted.frames + 1 /\ posted.frames + 1 \in Int
          /\ posted.frames \in Int /\ latest < t.frame /\ posted.frames < t.frame
          /\ t.frame <= posted.frames + 1 /\ t.kind # "accept"
      BY <1>1, <2>1
    <3>. QED  BY <1>1, <2>1, <3>1, QueueOrderAppend
  <2>4. latest <= posted.frames + 1
    BY <1>1
  <2>. QED  BY <1>3, <2>2, <2>3, <2>4 DEF Broadcast, Inv, TypeOK, QueueInv, ListInv, t
<1>4. CASE Stop
  <2>1. StopTask \in Task /\ StopTask.kind = "stop"
    BY DEF Task, StopTask
  <2>2. posted'.frames = posted.frames /\ posted' \in [hello : BOOLEAN, frames : Nat, stops : Nat]
    BY <1>4 DEF Stop, Inv, TypeOK
  <2>3. /\ Append(queue, StopTask) \in Seq(Task)
        /\ QueueOrder(Append(queue, StopTask), ses, latest, posted.frames)
    <3>1. posted.frames <= posted.frames /\ posted.frames \in Int
      BY <1>1
    <3>2. StopTask.kind # "broadcast" /\ StopTask.kind # "accept"
      BY <2>1
    <3>. QED  BY <1>1, <2>1, <3>1, <3>2, QueueOrderAppend
  <2>. QED  BY <1>1, <1>4, <2>2, <2>3 DEF Stop, Inv, TypeOK, QueueInv, ListInv
<1>. QED  BY <1>2, <1>3, <1>4 DEF Api

\* A session before its handshake has no operation the stage could disturb.
LEMMA StageKeeps ==
    ASSUME NEW r \in Session, NEW top \in Frame, SessionInv(r, top),
           r.stage # "ws", NEW st \in Stage \ {"ws"}
    PROVE  /\ [r EXCEPT !.stage = st] \in Session
           /\ SessionInv([r EXCEPT !.stage = st], top)
           /\ [r EXCEPT !.stage = st].stage = st
<1>1. [r EXCEPT !.stage = st] \in Session
  BY Zenon DEF Session
<1>2. SessionInv([r EXCEPT !.stage = st], top) /\ [r EXCEPT !.stage = st].stage = st
  BY SMT DEF SessionInv, Session, Frame, Vacant, Hello
<1>. QED  BY <1>1, <1>2

\* A connection let go before it had a session.
LEMMA DroppedKeeps ==
    ASSUME NEW r \in Session, NEW top \in Frame, SessionInv(r, top),
           r.stage # "ws"
    PROVE  /\ Dropped(r) \in Session
           /\ SessionInv(Dropped(r), top)
           /\ Dropped(r).stage = "over"
<1>1. Dropped(r) \in Session
  <2>1. "over" \in Stage
    BY DEF Stage
  <2>. QED  BY <2>1, Zenon DEF Session, Dropped
<1>2. SessionInv(Dropped(r), top) /\ Dropped(r).stage = "over"
  BY SMT DEF SessionInv, Session, Frame, Vacant, Hello, Dropped
<1>. QED  BY <1>1, <1>2

\* What the steps below need of the invariant.
LEMMA Facts ==
    ASSUME Inv
    PROVE  /\ queue \in Seq(Task) /\ latest \in Int /\ posted.frames \in Nat
           /\ posted.frames \in Int /\ posted.frames <= posted.frames
           /\ latest <= posted.frames
           /\ latest \in Frame /\ latest \in Frame \ {Hello}
           /\ hello \in {Vacant, Hello}
           /\ QueueOrder(queue, ses, latest, posted.frames)
           /\ sessions \subseteq Connections
           /\ ses \in [Connections -> Session]
           /\ \A c \in Connections :
                ses[c] \in Session /\ SessionInv(ses[c], latest)
           /\ \A c \in sessions : Listed(ses[c])
           /\ stopped => sessions = {}
  BY DEF Inv, TypeOK, QueueInv, ListInv, Frame, Vacant, Hello

\* A client's connection completes the async_accept or waits in the backlog.
LEMMA ConnectStep ==
    ASSUME Inv, NEW c \in Connections, Connect(c)
    PROVE  Inv'
<1>1. /\ ses[c] \in Session /\ ses[c].stage # "ws" /\ ses[c].stage = "away"
      /\ {"queued", "backlog"} \subseteq Stage \ {"ws"}
  BY Facts DEF Connect, Stage
<1>2. c \notin sessions
  BY <1>1, Facts DEF Listed
<1>3. ASSUME NEW st \in {"queued", "backlog"}, ses' = [ses EXCEPT ![c].stage = st]
      PROVE  /\ ses' \in [Connections -> Session]
             /\ \A d \in Connections : SessionInv(ses'[d], latest)
             /\ \A d \in sessions : Listed(ses'[d])
             /\ \A d \in Connections \ {c} : ses'[d] = ses[d]
             /\ ses'[c].stage = st
  <2>. DEFINE r == [ses[c] EXCEPT !.stage = st]
  <2>1. r \in Session /\ SessionInv(r, latest) /\ r.stage = st
    BY <1>1, StageKeeps, Facts
  <2>2. ses' = [ses EXCEPT ![c] = r]
    BY <1>3, Facts
  <2>. HIDE DEF r
  <2>. QED  BY <1>2, <2>1, <2>2, Facts
<1>4. CASE accepting
  <2>1. ses' = [ses EXCEPT ![c].stage = "queued"] /\ queue' = Append(queue, AcceptTask(c))
    BY <1>4 DEF Connect
  <2>2. /\ \A d \in Connections : ses[d].stage = "queued" => ses'[d].stage = "queued"
        /\ ses'[c].stage = "queued"
    BY <1>1, <1>3, <2>1
  <2>3. QueueOrder(queue, ses', latest, posted.frames)
    BY <2>2, QueueOrderFrame, Facts
  <2>. DEFINE t == AcceptTask(c)
  <2>4. t \in Task /\ t.kind = "accept" /\ t.conn = c
    BY DEF AcceptTask, Task
  <2>5. \A i \in 1..Len(queue) : queue[i].kind = "accept" => queue[i].conn # c
    BY <1>1, Facts DEF QueueOrder
  <2>. HIDE DEF t
  <2>6. /\ Append(queue, t) \in Seq(Task)
        /\ QueueOrder(Append(queue, t), ses', latest, posted.frames)
    BY <2>2, <2>3, <2>4, <2>5, QueueOrderAppend, Facts
  <2>. QED  BY <1>3, <2>1, <2>6, <1>4 DEF Connect, Inv, TypeOK, QueueInv, ListInv, t
<1>5. CASE ~accepting
  <2>1. ses' = [ses EXCEPT ![c].stage = "backlog"] /\ UNCHANGED <<queue, accepting>>
    BY <1>5 DEF Connect
  <2>2. \A d \in Connections : ses[d].stage = "queued" => ses'[d].stage = "queued"
    BY <1>1, <1>3, <2>1
  <2>3. QueueOrder(queue, ses', latest, posted.frames)
    BY <2>2, QueueOrderFrame, Facts
  <2>. QED  BY <1>3, <2>1, <2>3, <1>5 DEF Connect, Inv, TypeOK, QueueInv, ListInv
<1>. QED  BY <1>4, <1>5

\* The handler that setHello posted.
LEMMA HandleSetHelloStep ==
    ASSUME Inv, HandleSetHello
    PROVE  Inv'
<1>1. queue # <<>> /\ queue' = Tail(queue)
  BY DEF HandleSetHello, Ready
<1>2. Tail(queue) \in Seq(Task) /\ QueueOrder(Tail(queue), ses, latest, posted.frames)
  BY <1>1, QueueOrderTail, Facts
<1>. QED  BY <1>1, <1>2 DEF HandleSetHello, Inv, TypeOK, QueueInv, ListInv

\* The handler that broadcast posted sends to every listed session.
LEMMA HandleBroadcastStep ==
    ASSUME Inv, HandleBroadcast
    PROVE  Inv'
<1>. DEFINE m == Head(queue).frame
<1>1. queue # <<>> /\ queue' = Tail(queue) /\ Head(queue).kind = "broadcast"
  BY DEF HandleBroadcast, Ready
<1>2. /\ Tail(queue) \in Seq(Task) /\ Head(queue) \in Task
      /\ latest < m /\ m <= posted.frames
      /\ QueueOrder(Tail(queue), ses, m, posted.frames)
  BY <1>1, QueueOrderTail, Facts
<1>3. m \in Nat \ {0} /\ m \in Frame \ {Hello} /\ latest <= m
  BY <1>1, <1>2, Facts DEF Task, Frame, Hello
<1>4. /\ latest' = m
      /\ ses' = [c \in Connections |-> IF c \in sessions THEN Send(ses[c], m) ELSE ses[c]]
  BY DEF HandleBroadcast
<1>. HIDE DEF m
<1>5. ASSUME NEW c \in Connections
      PROVE  ses'[c] \in Session /\ SessionInv(ses'[c], m)
  <2>1. CASE c \in sessions
    BY <1>2, <1>3, <1>4, <2>1, SendKeeps, Facts
  <2>2. CASE c \notin sessions
    BY <1>3, <1>4, <2>2, SessionInvMonotone, Facts
  <2>. QED  BY <2>1, <2>2
<1>6. ses' \in [Connections -> Session]
  BY <1>4, <1>5
<1>7. ASSUME NEW c \in Connections
      PROVE  ses'[c].stage = ses[c].stage /\ ses'[c].reading = ses[c].reading
  <2>1. /\ Send(ses[c], m).stage = ses[c].stage
        /\ Send(ses[c], m).reading = ses[c].reading
    <3>1. ses[c] \in Session
      BY Facts
    <3>. QED  BY <3>1, SMT DEF Send, DoWrite, Session
  <2>. QED  BY <1>4, <2>1
<1>8. QueueOrder(Tail(queue), ses', m, posted.frames)
  BY <1>2, <1>7, QueueOrderFrame
<1>9. \A c \in sessions : Listed(ses'[c])
  BY <1>7, Facts DEF Listed
<1>. QED  BY <1>1, <1>2, <1>3, <1>4, <1>5, <1>6, <1>8, <1>9
          DEF HandleBroadcast, Inv, TypeOK, QueueInv, ListInv

\* close() leaves the stage of a session alone.
LEMMA CloseStage ==
    ASSUME NEW r \in Session
    PROVE  Close(r).stage = r.stage
  BY SMT DEF Close, DoClose, Session

\* The handler that stop posted closes every session and empties the list.
LEMMA HandleStopStep ==
    ASSUME Inv, HandleStop
    PROVE  Inv'
<1>1. queue # <<>> /\ queue' = Tail(queue)
  BY DEF HandleStop, Ready
<1>2. Tail(queue) \in Seq(Task) /\ QueueOrder(Tail(queue), ses, latest, posted.frames)
  BY <1>1, QueueOrderTail, Facts
<1>3. CASE stopped
  BY <1>1, <1>2, <1>3 DEF HandleStop, Inv, TypeOK, QueueInv, ListInv
<1>4. CASE ~stopped
  <2>1. /\ stopped' = TRUE /\ accepting' = FALSE /\ sessions' = {}
        /\ ses' = [c \in Connections |->
                      IF c \in sessions THEN Close(ses[c])
                      ELSE IF ses[c].stage = "backlog" THEN Dropped(ses[c])
                      ELSE ses[c]]
    BY <1>4 DEF HandleStop
  <2>2. ASSUME NEW c \in Connections
        PROVE  /\ ses'[c] \in Session /\ SessionInv(ses'[c], latest)
               /\ ses[c].stage = "queued" => ses'[c].stage = "queued"
    <3>1. CASE c \in sessions
      BY <2>1, <3>1, CloseKeeps, CloseStage, Facts
    <3>2. CASE c \notin sessions /\ ses[c].stage = "backlog"
      BY <2>1, <3>2, DroppedKeeps, Facts
    <3>3. CASE c \notin sessions /\ ses[c].stage # "backlog"
      BY <2>1, <3>3, Facts
    <3>. QED  BY <3>1, <3>2, <3>3
  <2>3. ses' \in [Connections -> Session]
    BY <2>1, <2>2
  <2>4. QueueOrder(Tail(queue), ses', latest, posted.frames)
    BY <1>2, <2>2, QueueOrderFrame
  <2>. QED  BY <1>1, <1>2, <2>1, <2>2, <2>3, <2>4
            DEF HandleStop, Inv, TypeOK, QueueInv, ListInv
<1>. QED  BY <1>3, <1>4

\* The rest of the acceptor's handler: f are the sessions once the accepted
\* connection is dealt with, list the sessions listed by then.
LEMMA DoAcceptKeeps ==
    ASSUME Inv, NEW f \in [Connections -> Session], NEW rest \in Seq(Task),
           NEW list \in SUBSET Connections,
           \A c \in Connections : SessionInv(f[c], latest),
           QueueOrder(rest, f, latest, posted.frames),
           \A c \in list : Listed(f[c]),
           ~stopped, sessions' = list,
           DoAccept(f, rest), UNCHANGED <<hello, latest, stopped, posted>>
    PROVE  Inv'
<1>1. CASE /\ accepting' = TRUE /\ queue' = rest /\ ses' = f
  BY <1>1 DEF Inv, TypeOK, QueueInv, ListInv
<1>2. ASSUME NEW b \in Connections, f[b].stage = "backlog",
             queue' = Append(rest, AcceptTask(b)),
             ses' = [f EXCEPT ![b].stage = "queued"],
             UNCHANGED accepting
      PROVE  Inv'
  <2>. DEFINE r == [f[b] EXCEPT !.stage = "queued"]
  <2>1. r \in Session /\ SessionInv(r, latest) /\ r.stage = "queued"
    <3>1. "queued" \in Stage \ {"ws"} /\ f[b] \in Session /\ f[b].stage # "ws"
      BY <1>2 DEF Stage
    <3>. QED  BY <3>1, StageKeeps, Facts
  <2>2. ses' = [f EXCEPT ![b] = r]
    BY <1>2
  <2>. HIDE DEF r
  <2>3. /\ ses' \in [Connections -> Session]
        /\ \A c \in Connections : SessionInv(ses'[c], latest)
        /\ \A c \in Connections : f[c].stage = "queued" => ses'[c].stage = "queued"
        /\ ses'[b].stage = "queued"
    BY <2>1, <2>2
  <2>4. \A c \in list : Listed(ses'[c])
    <3>1. b \notin list
      BY <1>2 DEF Listed
    <3>. QED  BY <2>2, <3>1
  <2>5. QueueOrder(rest, ses', latest, posted.frames)
    BY <2>3, QueueOrderFrame
  <2>6. \A i \in 1..Len(rest) : rest[i].kind = "accept" => rest[i].conn # b
    BY <1>2 DEF QueueOrder
  <2>. DEFINE t == AcceptTask(b)
  <2>7. t \in Task /\ t.kind = "accept" /\ t.conn = b
    BY DEF AcceptTask, Task
  <2>. HIDE DEF t
  <2>8. /\ Append(rest, t) \in Seq(Task)
        /\ QueueOrder(Append(rest, t), ses', latest, posted.frames)
    BY <2>3, <2>5, <2>6, <2>7, QueueOrderAppend, Facts
  <2>. QED  BY <1>2, <2>3, <2>4, <2>8 DEF Inv, TypeOK, QueueInv, ListInv, t
<1>. QED  BY <1>1, <1>2 DEF DoAccept

\* Replacing the session of the accepted connection leaves the rest in order.
LEMMA AcceptedRest ==
    ASSUME Inv, Ready("accept"), NEW r \in Session
    PROVE  /\ Head(queue).conn \in Connections
           /\ ses[Head(queue).conn].stage = "queued"
           /\ Tail(queue) \in Seq(Task)
           /\ QueueOrder(Tail(queue), [ses EXCEPT ![Head(queue).conn] = r],
                         latest, posted.frames)
<1>. DEFINE c == Head(queue).conn  f == [ses EXCEPT ![c] = r]
<1>1. queue # <<>> /\ Head(queue).kind = "accept"
  BY DEF Ready
<1>2. /\ Tail(queue) \in Seq(Task) /\ Head(queue) \in Task
      /\ QueueOrder(Tail(queue), ses, latest, posted.frames)
      /\ ses[c].stage = "queued"
      /\ \A i \in 1..Len(Tail(queue)) :
           Tail(queue)[i].kind = "accept" => Tail(queue)[i].conn # c
  BY <1>1, QueueOrderTail, Facts
<1>3. c \in Connections
  BY <1>1, <1>2 DEF Task
<1>4. \A d \in Connections \ {c} : f[d] = ses[d]
  BY Facts
<1>5. \A i \in 1..Len(Tail(queue)) :
        Tail(queue)[i].kind = "accept" => Tail(queue)[i].conn \in Connections \ {c}
  BY <1>2 DEF Task
<1>. HIDE DEF f
<1>6. QueueOrder(Tail(queue), f, latest, posted.frames)
  BY <1>2, <1>4, <1>5, SMT DEF QueueOrder
<1>. QED  BY <1>2, <1>3, <1>6 DEF f

\* The connection of an accept task has no session yet.
LEMMA AcceptedConnection ==
    ASSUME Inv, Ready("accept")
    PROVE  /\ Head(queue).conn \in Connections
           /\ ses[Head(queue).conn].stage = "queued"
           /\ ses[Head(queue).conn] \in Session
<1>1. NewSession \in Session
  BY SMT DEF NewSession, Session, Stage, Frame, Vacant, Hello
<1>. QED  BY <1>1, AcceptedRest, Facts

\* The acceptor's handler, with a connection or with an error.
LEMMA HandleAcceptStep ==
    ASSUME Inv, HandleAccept \/ HandleAcceptError
    PROVE  Inv'
<1>. DEFINE c == Head(queue).conn
<1>1. Ready("accept")
  BY DEF HandleAccept, HandleAcceptError
<1>2. c \in Connections /\ ses[c].stage = "queued" /\ ses[c] \in Session
  BY <1>1, AcceptedConnection
<1>3. ses[c].stage \in Unhandled /\ ses[c].stage # "ws" /\ c \notin sessions
  BY <1>2, Facts DEF Listed, Unhandled
<1>4. CASE HandleAccept /\ stopped
  <2>. DEFINE r == Dropped(ses[c])
  <2>1. r \in Session /\ SessionInv(r, latest)
    BY <1>2, <1>3, DroppedKeeps, Facts
  <2>2. /\ queue' = Tail(queue) /\ ses' = [ses EXCEPT ![c] = r]
        /\ UNCHANGED <<accepting, sessions, hello, latest, stopped, posted>>
    BY <1>4 DEF HandleAccept
  <2>. HIDE DEF r
  <2>3. Tail(queue) \in Seq(Task) /\ QueueOrder(Tail(queue), ses', latest, posted.frames)
    BY <1>1, <2>1, <2>2, AcceptedRest
  <2>4. /\ ses' \in [Connections -> Session]
        /\ \A d \in Connections : SessionInv(ses'[d], latest)
        /\ \A d \in sessions : Listed(ses'[d])
    BY <1>2, <1>3, <2>1, <2>2, Facts
  <2>. QED  BY <2>2, <2>3, <2>4 DEF Inv, TypeOK, QueueInv, ListInv
<1>5. CASE HandleAccept /\ ~stopped
  <2>. DEFINE r == Run(ses[c], hello, latest)
              f == [ses EXCEPT ![c] = r]
              list == sessions \cup {c}
  <2>1. r \in Session /\ SessionInv(r, latest)
    BY <1>2, <1>3, RunKeeps, Facts
  <2>2. Listed(r)
    BY <1>2, SMT DEF Run, Listed, Session
  <2>3. /\ sessions' = list /\ UNCHANGED <<hello, latest, stopped, posted>>
        /\ DoAccept(f, Tail(queue))
    BY <1>5 DEF HandleAccept
  <2>. HIDE DEF r
  <2>4. Tail(queue) \in Seq(Task) /\ QueueOrder(Tail(queue), f, latest, posted.frames)
    BY <1>1, <2>1, AcceptedRest
  <2>5. /\ f \in [Connections -> Session]
        /\ \A d \in Connections : SessionInv(f[d], latest)
        /\ list \in SUBSET Connections
        /\ \A d \in list : Listed(f[d])
    BY <1>2, <1>3, <2>1, <2>2, Facts
  <2>. HIDE DEF f, list
  <2>. QED  BY <1>5, <2>3, <2>4, <2>5, DoAcceptKeeps
<1>6. CASE HandleAcceptError
  <2>. DEFINE r == Dropped(ses[c])
              f == [ses EXCEPT ![c] = r]
  <2>1. r \in Session /\ SessionInv(r, latest)
    BY <1>2, <1>3, DroppedKeeps, Facts
  <2>2. /\ ~stopped /\ UNCHANGED <<sessions, hello, latest, stopped, posted>>
        /\ DoAccept(f, Tail(queue))
    BY <1>6 DEF HandleAcceptError
  <2>. HIDE DEF r
  <2>3. Tail(queue) \in Seq(Task) /\ QueueOrder(Tail(queue), f, latest, posted.frames)
    BY <1>1, <2>1, AcceptedRest
  <2>4. /\ f \in [Connections -> Session]
        /\ \A d \in Connections : SessionInv(f[d], latest)
        /\ sessions \in SUBSET Connections
        /\ \A d \in sessions : Listed(f[d])
    BY <1>2, <1>3, <2>1, Facts
  <2>. HIDE DEF f
  <2>. QED  BY <2>2, <2>3, <2>4, DoAcceptKeeps
<1>. QED  BY <1>4, <1>5, <1>6

----------------------------------------------------------------------------
\* The constructed server satisfies the invariant.
LEMMA InitInv == Init => Inv
<1>. SUFFICES ASSUME Init PROVE Inv
  OBVIOUS
<1>1. NewSession \in Session
  BY SMT DEF NewSession, Session, Stage, Frame, Vacant, Hello
<1>2. SessionInv(NewSession, Vacant)
  <2>1. /\ ~NewSession.writing /\ ~NewSession.closeOp /\ ~NewSession.open
        /\ ~NewSession.reading
        /\ NewSession.sending = Vacant /\ NewSession.pending = Vacant
        /\ NewSession.first = Vacant /\ NewSession.last = Vacant
    BY DEF NewSession
  <2>. QED  BY <2>1, SMT DEF SessionInv, Vacant, Hello
<1>3. \A c \in Connections : ses[c] = NewSession
  BY DEF Init
<1>4. TypeOK
  <2>1. queue \in Seq(Task)
    BY DEF Init
  <2>2. ses \in [Connections -> Session]
    BY <1>1 DEF Init
  <2>3. latest \in Frame \ {Hello} /\ hello \in {Vacant, Hello}
    BY DEF Init, Frame, Vacant, Hello
  <2>4. posted \in [hello : BOOLEAN, frames : Nat, stops : Nat]
    BY DEF Init
  <2>. QED  BY <2>1, <2>2, <2>3, <2>4 DEF Init, TypeOK
<1>5. QueueInv
  BY DEF Init, QueueInv, QueueOrder, Vacant
<1>. QED  BY <1>2, <1>3, <1>4, <1>5 DEF Init, Inv, ListInv

\* Every step of the server keeps the invariant.
LEMMA NextInv == Inv /\ [Next]_serverVars => Inv'
<1>. SUFFICES ASSUME Inv, [Next]_serverVars PROVE Inv'
  OBVIOUS
<1>1. CASE Api
  BY <1>1, ApiStep
<1>2. CASE Handlers
  BY <1>2, HandleSetHelloStep, HandleBroadcastStep, HandleStopStep,
     HandleAcceptStep DEF Handlers
<1>3. ASSUME NEW c \in Connections, Connect(c) \/ Completion(c)
      PROVE  Inv'
  BY <1>3, ConnectStep, CompletionStep
<1>4. CASE UNCHANGED serverVars
  BY <1>4 DEF serverVars, Inv, TypeOK, QueueInv, ListInv
<1>. QED  BY <1>1, <1>2, <1>3, <1>4 DEF Next

\* The inductive invariant holds, in particular the server's state keeps its
\* type for every number of connections, snapshots and calls of stop().
LEMMA Invariance == Spec => []Inv
<1>. QED  BY InitInv, NextInv, PTL DEF Spec

\* The state of the server keeps its type, for every number of connections,
\* snapshots and calls of stop().
THEOREM TypeCorrect == Spec => []TypeOK
<1>1. Inv => TypeOK
  BY DEF Inv
<1>. QED  BY <1>1, Invariance, PTL

\* Session::send, close, doWrite, doClose, onWrite: at most one outgoing
\* operation per stream, and the buffer of a write lives as long as it.
THEOREM OneOutgoing == Spec => []OneOutgoingOperation
<1>1. Inv => OneOutgoingOperation
  BY DEF Inv, SessionInv, OneOutgoingOperation
<1>. QED  BY <1>1, Invariance, PTL

\* The slots of a session only ever hold newer and newer frames.
THEOREM InOrder == Spec => []FramesInOrder
<1>1. Inv => FramesInOrder
  <2>. SUFFICES ASSUME Inv PROVE FramesInOrder
    OBVIOUS
  <2>1. ASSUME NEW c \in Connections
        PROVE  LET r == ses[c] IN
               /\ r.sending # Vacant => r.last < r.sending
               /\ r.pending # Vacant => r.last < r.pending /\ r.sending < r.pending
               /\ r.first # Vacant => r.sending = Vacant /\ r.last = Vacant
               /\ r.pending <= latest
               /\ r.sending <= latest \/ r.sending = Hello
    BY Facts DEF SessionInv
  <2>. QED  BY <2>1 DEF FramesInOrder
<1>. QED  BY <1>1, Invariance, PTL

\* removeSession, stop and the acceptor's onAccept: no session leaks.
THEOREM NoLeak == Spec => []NoLeakedSession
<1>1. Inv => NoLeakedSession
  <2>. SUFFICES ASSUME Inv PROVE NoLeakedSession
    OBVIOUS
  <2>1. \A c \in sessions : Busy(ses[c]) /\ (ses[c].stage = "ws" => ses[c].reading)
    BY Facts DEF Listed, Busy
  <2>. QED  BY <2>1, Facts DEF NoLeakedSession
<1>. QED  BY <1>1, Invariance, PTL

----------------------------------------------------------------------------
(***************************************************************************)
(* The server implements the feed.  A step that shows no new frame to any  *)
(* viewer and at most ends some of them is a Leave, with nobody leaving if *)
(* the step is internal.                                                   *)
(***************************************************************************)
Quiet(r, q) == Seen(q) = Seen(r) /\ Presence(q) \in {Presence(r), "left"}

\* When no session changes for its viewer, the feed stutters or viewers leave.
LEMMA QuietStep ==
    ASSUME posted.frames' = posted.frames,
           \A c \in Connections : Quiet(ses[c], ses'[c])
    PROVE  Feed!FeedNext
<1>. DEFINE gone == {c \in Connections : Presence(ses'[c]) = "left"}
<1>1. \A c \in Connections :
        Presence(ses'[c]) = IF c \in gone THEN "left" ELSE Presence(ses[c])
  BY DEF Quiet
<1>2. \A c \in Connections : Seen(ses'[c]) = Seen(ses[c])
  BY DEF Quiet
<1>. HIDE DEF gone
<1>3. [c \in Connections |-> Presence(ses'[c])]
        = [v \in Connections |->
             IF v \in gone THEN "left"
             ELSE [c \in Connections |-> Presence(ses[c])][v]]
  BY <1>1
<1>4. [c \in Connections |-> Seen(ses'[c])] = [c \in Connections |-> Seen(ses[c])]
  BY <1>2
<1>5. Feed!Leave(gone)
  BY <1>3, <1>4 DEF Feed!Leave
<1>6. gone \in SUBSET Connections
  BY DEF gone
<1>. QED  BY <1>5, <1>6 DEF Feed!FeedNext

\* Sending changes nothing for the viewer: it has received nothing yet.
LEMMA SendQuiet ==
    ASSUME NEW r \in Session, NEW m
    PROVE  Quiet(r, Send(r, m))
  BY SMT DEF Quiet, Seen, Presence, Send, DoWrite, Session

\* Closing takes a viewer out of the feed at most.
LEMMA CloseQuiet ==
    ASSUME NEW r \in Session, NEW top, SessionInv(r, top)
    PROVE  Quiet(r, Close(r))
  BY SMT DEF Quiet, Seen, Presence, Close, DoClose, Session, SessionInv

\* A connection that never was a session leaves.
LEMMA DroppedQuiet ==
    ASSUME NEW r \in Session, NEW top, SessionInv(r, top), r.stage # "ws"
    PROVE  Quiet(r, Dropped(r))
  BY SMT DEF Quiet, Seen, Presence, Dropped, Session, SessionInv

\* A stage before the websocket, to another such stage or to an end.
LEMMA StageQuiet ==
    ASSUME NEW r \in Session, NEW top, SessionInv(r, top),
           r.stage \in Stage \ {"ws", "reply", "over"},
           NEW st \in Stage \ {"ws"}
    PROVE  Quiet(r, [r EXCEPT !.stage = st])
  BY SMT DEF Quiet, Seen, Presence, Session, SessionInv

\* A session that begins its HTTP exchange is not a viewer yet.
LEMMA RunQuiet ==
    ASSUME NEW r \in Session, NEW top, SessionInv(r, top),
           r.stage \in Unhandled, NEW h, NEW m
    PROVE  Quiet(r, Run(r, h, m))
  BY SMT DEF Quiet, Seen, Presence, Run, Unhandled, Session, SessionInv

\* One session changes without its viewer seeing anything new.
LEMMA OneQuiet ==
    ASSUME Inv, NEW c \in Connections, NEW q, Quiet(ses[c], q),
           ses' = [ses EXCEPT ![c] = q], posted' = posted
    PROVE  Feed!FeedNext
<1>1. \A d \in Connections : Quiet(ses[d], ses'[d])
  BY Facts DEF Quiet
<1>. QED  BY <1>1, QuietStep

\* Every completion is a step of the feed: TuneIn when the handshake ends,
\* See when a snapshot has been written.
LEMMA CompletionFeed ==
    ASSUME Inv, NEW c \in Connections, Completion(c)
    PROVE  Feed!FeedNext
<1>1. ses[c] \in Session /\ latest \in Frame /\ SessionInv(ses[c], latest)
  BY Facts
<1>2. posted' = posted
  BY DEF Completion, RequestFailed, RequestAnswered, RequestUpgrade,
         ReplyWritten, UpgradeFailed, UpgradeDone, ReadFailed, WriteDone,
         WriteError, CloseDone, SessionStep, RemoveSession
<1>3. ASSUME NEW st \in {"reply", "over", "upgrade", "doomed"},
             ses[c].stage \in {"http", "upgrade", "doomed"},
             ses' = [ses EXCEPT ![c] = [ses[c] EXCEPT !.stage = st]]
      PROVE  Feed!FeedNext
  <2>1. st \in Stage \ {"ws"} /\ ses[c].stage \in Stage \ {"ws", "reply", "over"}
    BY <1>3 DEF Stage
  <2>. QED  BY <1>1, <1>2, <1>3, <2>1, StageQuiet, OneQuiet
<1>4. CASE RequestFailed(c) \/ RequestAnswered(c) \/ UpgradeFailed(c)
  BY <1>3, <1>4 DEF RequestFailed, RequestAnswered, UpgradeFailed,
                    SessionStep, RemoveSession
<1>5. CASE RequestUpgrade(c)
  <2>. DEFINE st == IF ses[c].socket THEN "upgrade" ELSE "doomed"
  <2>1. st \in {"upgrade", "doomed"}
    OBVIOUS
  <2>2. ses' = [ses EXCEPT ![c] = [ses[c] EXCEPT !.stage = st]] /\ ses[c].stage = "http"
    BY <1>5 DEF RequestUpgrade, SessionStep
  <2>. HIDE DEF st
  <2>. QED  BY <1>3, <2>1, <2>2
<1>6. CASE ReplyWritten(c)
  <2>. DEFINE q == [ses[c] EXCEPT !.stage = "over"]
  <2>1. Quiet(ses[c], q)
    BY <1>1, <1>6, SMT DEF ReplyWritten, Quiet, Seen, Presence, Session, SessionInv
  <2>. QED  BY <1>2, <1>6, <2>1, OneQuiet DEF ReplyWritten, RemoveSession
<1>7. CASE UpgradeDone(c)
  <2>. DEFINE q == Opened(ses[c])
  <2>1. ses' = [ses EXCEPT ![c] = q] /\ ses[c].stage = "upgrade"
    BY <1>7 DEF UpgradeDone, SessionStep
  <2>2. /\ Seen(q) = Seen(ses[c]) /\ Presence(ses[c]) = "away"
        /\ Presence(q) = IF ses[c].closing THEN "left" ELSE "tuned"
    BY <1>1, <2>1, SMT
       DEF Seen, Presence, Opened, DoWrite, Session, SessionInv
  <2>. HIDE DEF q
  <2>3. CASE ses[c].closing
    <3>1. Quiet(ses[c], q)
      BY <2>2, <2>3 DEF Quiet
    <3>. QED  BY <1>2, <2>1, <3>1, OneQuiet
  <2>4. CASE ~ses[c].closing
    <3>1. [d \in Connections |-> Presence(ses'[d])]
            = [[d \in Connections |-> Presence(ses[d])] EXCEPT ![c] = "tuned"]
      BY <2>1, <2>2, <2>4, Facts
    <3>2. [d \in Connections |-> Seen(ses'[d])] = [d \in Connections |-> Seen(ses[d])]
      BY <2>1, <2>2, Facts
    <3>3. Feed!TuneIn(c)
      BY <1>2, <2>2, <3>1, <3>2 DEF Feed!TuneIn
    <3>. QED  BY <3>3 DEF Feed!FeedNext
  <2>. QED  BY <2>3, <2>4
<1>8. CASE ReadFailed(c)
  <2>. DEFINE q == [ses[c] EXCEPT !.reading = FALSE, !.open = FALSE]
  <2>1. Quiet(ses[c], q)
    BY <1>1, <1>8, SMT DEF ReadFailed, Quiet, Seen, Presence, Session, SessionInv
  <2>. QED  BY <1>2, <1>8, <2>1, OneQuiet DEF ReadFailed, RemoveSession
<1>9. CASE WriteDone(c)
  <2>. DEFINE q == Written(ses[c])
  <2>1. ses' = [ses EXCEPT ![c] = q] /\ ses[c].writing
    BY <1>9 DEF WriteDone, SessionStep
  <2>2. /\ Presence(ses[c]) # "away" /\ Presence(q) = Presence(ses[c])
        /\ ses[c].sending # Vacant /\ q.last = ses[c].sending
        /\ ses[c].last < ses[c].sending
    BY <1>1, <2>1, SMT
       DEF Presence, Written, Sent, DoWrite, DoClose, Session, SessionInv
  <2>. HIDE DEF q
  <2>3. CASE ses[c].sending = Hello
    <3>1. Quiet(ses[c], q)
      BY <1>1, <2>2, <2>3 DEF Quiet, Seen, Vacant, Hello, Session, Frame
    <3>. QED  BY <1>2, <2>1, <3>1, OneQuiet
  <2>4. CASE ses[c].sending # Hello
    <3>1. /\ ses[c].sending \in (Seen(ses[c]) + 1) .. posted.frames
          /\ Seen(q) = ses[c].sending
      <4>1. ses[c].sending <= latest /\ latest <= posted.frames
        BY <1>1, <2>4, Facts DEF SessionInv
      <4>2. /\ ses[c].sending \in Nat \ {0} /\ latest \in Int
            /\ posted.frames \in Int /\ ses[c].last \in Frame
        BY <1>1, <2>2, <2>4, Facts DEF Session, Frame, Vacant, Hello
      <4>. QED  BY <2>2, <4>1, <4>2 DEF Seen, Vacant, Frame
    <3>2. [d \in Connections |-> Presence(ses'[d])]
            = [d \in Connections |-> Presence(ses[d])]
      BY <2>1, <2>2, Facts
    <3>3. [d \in Connections |-> Seen(ses'[d])]
            = [[d \in Connections |-> Seen(ses[d])] EXCEPT ![c] = ses[c].sending]
      BY <2>1, <3>1, Facts
    <3>4. Feed!See(c)
      BY <1>2, <2>2, <3>1, <3>2, <3>3 DEF Feed!See
    <3>. QED  BY <3>4 DEF Feed!FeedNext
  <2>. QED  BY <2>3, <2>4
<1>10. CASE WriteError(c)
  <2>. DEFINE q == WriteFailed(ses[c])
  <2>1. Quiet(ses[c], q)
    BY <1>1, <1>10, SMT
       DEF WriteError, Quiet, Seen, Presence, WriteFailed, Session, SessionInv
  <2>. QED  BY <1>2, <1>10, <2>1, OneQuiet DEF WriteError, RemoveSession
<1>11. CASE CloseDone(c)
  <2>. DEFINE q == [ses[c] EXCEPT !.closeOp = FALSE, !.socket = FALSE]
  <2>1. Quiet(ses[c], q)
    BY <1>1, <1>11, SMT DEF CloseDone, Quiet, Seen, Presence, Session, SessionInv
  <2>. QED  BY <1>2, <1>11, <2>1, OneQuiet DEF CloseDone, SessionStep
<1>. QED  BY <1>4, <1>5, <1>6, <1>7, <1>8, <1>9, <1>10, <1>11 DEF Completion

\* A session that stays as it is.
LEMMA SelfQuiet == \A r : Quiet(r, r)
  BY DEF Quiet

\* The rest of the acceptor's handler moves at most a connection of the
\* backlog, whose session has not begun.
LEMMA DoAcceptFeed ==
    ASSUME Inv, NEW c \in Connections, NEW q \in Session, Quiet(ses[c], q),
           q.stage # "backlog", NEW rest,
           DoAccept([ses EXCEPT ![c] = q], rest), posted' = posted
    PROVE  Feed!FeedNext
<1>. DEFINE f == [ses EXCEPT ![c] = q]
<1>1. /\ f \in [Connections -> Session]
      /\ f[c] = q /\ \A d \in Connections \ {c} : f[d] = ses[d]
  BY Facts
<1>2. ses' = f \/ \E b \in Connections : /\ f[b].stage = "backlog"
                                         /\ ses' = [f EXCEPT ![b].stage = "queued"]
  BY DEF DoAccept
<1>. HIDE DEF f
<1>3. CASE ses' = f
  BY <1>1, <1>3, SelfQuiet, QuietStep
<1>4. ASSUME NEW b \in Connections, f[b].stage = "backlog",
             ses' = [f EXCEPT ![b].stage = "queued"]
      PROVE  Feed!FeedNext
  <2>1. b # c /\ f[b] = ses[b] /\ ses[b].stage = "backlog"
    BY <1>1, <1>4
  <2>. DEFINE r == [ses[b] EXCEPT !.stage = "queued"]
  <2>2. Quiet(ses[b], r)
    BY <2>1, StageQuiet, Facts DEF Stage
  <2>3. ses' = [f EXCEPT ![b] = r]
    BY <1>1, <1>4, <2>1
  <2>. HIDE DEF r
  <2>4. \A d \in Connections : Quiet(ses[d], ses'[d])
    BY <1>1, <2>1, <2>2, <2>3, SelfQuiet
  <2>. QED  BY <2>4, QuietStep
<1>. QED  BY <1>2, <1>3, <1>4

\* The handlers of the io_context do not show to the viewers, apart from leaving.
LEMMA HandlerFeed ==
    ASSUME Inv, Handlers
    PROVE  Feed!FeedNext
<1>1. CASE HandleSetHello
  BY <1>1, SelfQuiet, QuietStep DEF HandleSetHello
<1>2. CASE HandleBroadcast
  <2>1. \A c \in Connections : Quiet(ses[c], ses'[c])
    BY <1>2, SelfQuiet, SendQuiet, Facts DEF HandleBroadcast
  <2>. QED  BY <1>2, <2>1, QuietStep DEF HandleBroadcast
<1>3. CASE HandleStop
  <2>1. ASSUME NEW c \in Connections
        PROVE  Quiet(ses[c], ses'[c])
    <3>1. \/ ses'[c] = ses[c]
          \/ ses'[c] = Close(ses[c])
          \/ ses'[c] = Dropped(ses[c]) /\ ses[c].stage = "backlog"
      BY <1>3 DEF HandleStop
    <3>. QED  BY <3>1, SelfQuiet, CloseQuiet, DroppedQuiet, Facts
  <2>. QED  BY <1>3, <2>1, QuietStep DEF HandleStop
<1>4. CASE HandleAccept \/ HandleAcceptError
  <2>. DEFINE c == Head(queue).conn
  <2>1. Ready("accept") /\ posted' = posted
    BY <1>4 DEF HandleAccept, HandleAcceptError
  <2>2. c \in Connections /\ ses[c].stage = "queued"
    BY <2>1, AcceptedConnection
  <2>3. /\ Dropped(ses[c]) \in Session /\ Dropped(ses[c]).stage = "over"
        /\ Quiet(ses[c], Dropped(ses[c]))
    BY <2>2, DroppedKeeps, DroppedQuiet, Facts
  <2>4. /\ Run(ses[c], hello, latest) \in Session
        /\ Run(ses[c], hello, latest).stage = "http"
        /\ Quiet(ses[c], Run(ses[c], hello, latest))
    <3>1. ses[c] \in Session /\ ses[c].stage \in Unhandled
      BY <2>2, Facts DEF Unhandled
    <3>2. Run(ses[c], hello, latest).stage = "http"
      BY <3>1, SMT DEF Run, Session
    <3>. QED  BY <2>2, <3>1, <3>2, RunKeeps, RunQuiet, Facts
  <2>5. CASE HandleAccept /\ stopped
    BY <2>1, <2>2, <2>3, <2>5, OneQuiet DEF HandleAccept
  <2>6. CASE HandleAccept /\ ~stopped
    BY <2>1, <2>2, <2>4, <2>6, DoAcceptFeed DEF HandleAccept
  <2>7. CASE HandleAcceptError
    BY <2>1, <2>2, <2>3, <2>7, DoAcceptFeed DEF HandleAcceptError
  <2>. QED  BY <1>4, <2>5, <2>6, <2>7
<1>. QED  BY <1>1, <1>2, <1>3, <1>4 DEF Handlers

\* A connection is not a viewer yet.
LEMMA ConnectFeed ==
    ASSUME Inv, NEW c \in Connections, Connect(c)
    PROVE  Feed!FeedNext
<1>1. ses[c].stage = "away" /\ posted' = posted
  BY DEF Connect
<1>2. ASSUME NEW st \in {"queued", "backlog"}, ses' = [ses EXCEPT ![c].stage = st]
      PROVE  Feed!FeedNext
  <2>. DEFINE q == [ses[c] EXCEPT !.stage = st]
  <2>1. Quiet(ses[c], q)
    BY <1>1, StageQuiet, Facts DEF Stage
  <2>2. ses' = [ses EXCEPT ![c] = q]
    BY <1>2, Facts
  <2>. HIDE DEF q
  <2>. QED  BY <1>1, <2>1, <2>2, OneQuiet
<1>. QED  BY <1>2 DEF Connect

\* broadcast() publishes; the other calls do not show.
LEMMA ApiFeed ==
    ASSUME Inv, Api
    PROVE  Feed!FeedNext
<1>1. CASE SetHello
  BY <1>1, SelfQuiet, QuietStep DEF SetHello, Inv, TypeOK
<1>2. CASE Stop
  BY <1>2, SelfQuiet, QuietStep DEF Stop, Inv, TypeOK
<1>3. CASE Broadcast
  <2>1. posted.frames < MaxBroadcasts /\ posted'.frames = posted.frames + 1 /\ ses' = ses
    BY <1>3 DEF Broadcast, Inv, TypeOK
  <2>2. Feed!Publish
    BY <2>1 DEF Feed!Publish
  <2>. QED  BY <2>2 DEF Feed!FeedNext
<1>. QED  BY <1>1, <1>2, <1>3 DEF Api

\* WebSocketServer.h:14-35 - whatever the clients, the threads and the network
\* do, every viewer sees a feed: some of the published snapshots, each newer
\* than the one before, none invented.
THEOREM ServerImplementsFeed == Spec => ImplementsFeed
<1>1. Init => Feed!FeedInit
  <2>. SUFFICES ASSUME Init PROVE Feed!FeedInit
    OBVIOUS
  <2>1. posted.frames = 0
    BY DEF Init
  <2>2. \A c \in Connections : Presence(ses[c]) = "away" /\ Seen(ses[c]) = 0
    BY DEF Init, NewSession, Presence, Seen
  <2>. QED  BY <2>1, <2>2 DEF Feed!FeedInit
<1>2. Inv /\ [Next]_serverVars => [Feed!FeedNext]_(Feed!feedVars)
  <2>. SUFFICES ASSUME Inv, [Next]_serverVars
                PROVE  Feed!FeedNext \/ UNCHANGED Feed!feedVars
    OBVIOUS
  <2>1. CASE UNCHANGED serverVars
    BY <2>1 DEF serverVars, Feed!feedVars
  <2>2. CASE Next
    BY <2>2, ApiFeed, HandlerFeed, ConnectFeed, CompletionFeed DEF Next
  <2>. QED  BY <2>1, <2>2
<1>. QED  BY <1>1, <1>2, Invariance, PTL DEF Spec, ImplementsFeed, Feed!FeedSpec

----------------------------------------------------------------------------
(***************************************************************************)
(* The buffer of a write.  Of the session's functions only the end of the  *)
(* write itself puts another frame into sending_ of a session that writes. *)
(***************************************************************************)
Steady(r, q) ==
    r.writing /\ q.sending # r.sending => ~q.writing \/ q.last = r.sending

\* send() and close() leave the write under way alone.
LEMMA SendSteady ==
    ASSUME NEW r \in Session, NEW m
    PROVE  Steady(r, Send(r, m)) /\ Steady(r, Close(r))
  BY SMT DEF Steady, Send, Close, DoWrite, DoClose, Session

\* A session before its handshake writes nothing.
LEMMA UnopenedSteady ==
    ASSUME NEW r, NEW top, SessionInv(r, top), r.stage # "ws", NEW q
    PROVE  Steady(r, q)
  BY DEF Steady, SessionInv

\* Changing one session, and that one steadily.
LEMMA OneSteady ==
    ASSUME Inv, NEW c \in Connections, NEW q, Steady(ses[c], q),
           ses' = [ses EXCEPT ![c] = q]
    PROVE  \A d \in Connections : Steady(ses[d], ses'[d])
<1>1. \A d \in Connections : d # c => ses'[d] = ses[d]
  BY Facts
<1>2. ses'[c] = q
  BY Facts
<1>. QED  BY <1>1, <1>2 DEF Steady

\* The acceptor's new wait moves a connection of the backlog to the queue.
LEMMA DoAcceptSteady ==
    ASSUME Inv, NEW c \in Connections, NEW q \in Session, ses[c].stage # "ws",
           NEW rest, DoAccept([ses EXCEPT ![c] = q], rest), q.stage # "backlog"
    PROVE  \A d \in Connections : Steady(ses[d], ses'[d])
<1>. DEFINE f == [ses EXCEPT ![c] = q]
<1>1. \A d \in Connections : d # c => f[d] = ses[d]
  BY Facts
<1>2. f[c] = q
  BY Facts
<1>3. CASE ses' = f
  BY <1>1, <1>2, <1>3, UnopenedSteady, Facts DEF Steady
<1>4. ASSUME NEW b \in Connections, f[b].stage = "backlog",
             ses' = [f EXCEPT ![b].stage = "queued"]
      PROVE  \A d \in Connections : Steady(ses[d], ses'[d])
  <2>1. b # c /\ ses[b].stage # "ws"
    BY <1>1, <1>2, <1>4
  <2>2. \A d \in Connections : d # b => ses'[d] = f[d]
    BY <1>4, Facts
  <2>. QED  BY <1>1, <1>2, <2>1, <2>2, UnopenedSteady, Facts DEF Steady
<1>. QED  BY <1>3, <1>4 DEF DoAccept

\* Every completion of a session's own operation is steady.
LEMMA CompletionSteady ==
    ASSUME Inv, NEW c \in Connections, Completion(c)
    PROVE  \A d \in Connections : Steady(ses[d], ses'[d])
<1>1. ses[c] \in Session /\ SessionInv(ses[c], latest)
  BY Facts
<1>2. CASE ses[c].stage # "ws"
  <2>1. PICK q : ses' = [ses EXCEPT ![c] = q]
    BY DEF Completion, RequestFailed, RequestAnswered, RequestUpgrade,
           ReplyWritten, UpgradeFailed, UpgradeDone, ReadFailed, WriteDone,
           WriteError, CloseDone, SessionStep, RemoveSession
  <2>. QED  BY <1>1, <1>2, <2>1, UnopenedSteady, OneSteady
<1>3. CASE ReadFailed(c)
  <2>. DEFINE q == [ses[c] EXCEPT !.reading = FALSE, !.open = FALSE]
  <2>1. Steady(ses[c], q)
    BY <1>1, SMT DEF Steady, Session
  <2>. QED  BY <1>3, <2>1, OneSteady DEF ReadFailed, RemoveSession
<1>4. CASE WriteDone(c)
  <2>1. Steady(ses[c], Written(ses[c]))
    BY <1>1, <1>4, WrittenKeeps, Facts DEF WriteDone, Steady
  <2>. QED  BY <1>4, <2>1, OneSteady DEF WriteDone, SessionStep
<1>5. CASE WriteError(c)
  <2>1. Steady(ses[c], WriteFailed(ses[c]))
    BY <1>1, SMT DEF Steady, WriteFailed, Session
  <2>. QED  BY <1>5, <2>1, OneSteady DEF WriteError, RemoveSession
<1>6. CASE CloseDone(c)
  <2>. DEFINE q == [ses[c] EXCEPT !.closeOp = FALSE, !.socket = FALSE]
  <2>1. Steady(ses[c], q)
    BY <1>1, SMT DEF Steady, Session
  <2>. QED  BY <1>6, <2>1, OneSteady DEF CloseDone, SessionStep
<1>. QED  BY <1>2, <1>3, <1>4, <1>5, <1>6 DEF Completion, RequestFailed,
             RequestAnswered, RequestUpgrade, ReplyWritten, UpgradeFailed,
             UpgradeDone

\* Session::send - whatever is broadcast or closed meanwhile, the buffer that
\* async_write reads is not replaced before its completion handler has run.
THEOREM BufferKept == Spec => BufferStable
<1>1. ASSUME Inv, Next
      PROVE  \A c \in Connections : Steady(ses[c], ses'[c])
  <2>1. CASE Api \/ HandleSetHello
    BY <1>1, <2>1 DEF Steady, Api, SetHello, Broadcast, Stop, HandleSetHello
  <2>2. CASE HandleBroadcast
    BY <1>1, <2>2, SendSteady, Facts DEF HandleBroadcast, Steady
  <2>3. CASE HandleStop
    <3>1. CASE stopped
      BY <2>3, <3>1 DEF HandleStop, Steady
    <3>2. ASSUME ~stopped, NEW c \in Connections
          PROVE  \/ ses'[c] = Close(ses[c]) \/ ses[c].stage = "backlog"
                 \/ ses'[c] = ses[c]
      BY <2>3, <3>2 DEF HandleStop
    <3>. QED  BY <1>1, <3>1, <3>2, SendSteady, UnopenedSteady, Facts DEF Steady
  <2>4. CASE HandleAccept \/ HandleAcceptError
    <3>. DEFINE c == Head(queue).conn
    <3>1. Ready("accept")
      BY <2>4 DEF HandleAccept, HandleAcceptError
    <3>2. c \in Connections /\ ses[c].stage = "queued" /\ ses[c] \in Session
      BY <1>1, <3>1, AcceptedConnection
    <3>3. /\ Dropped(ses[c]) \in Session /\ Dropped(ses[c]).stage = "over"
          /\ Run(ses[c], hello, latest) \in Session
          /\ Run(ses[c], hello, latest).stage = "http"
      <4>1. ses[c].stage \in Unhandled
        BY <3>2 DEF Unhandled
      <4>2. Run(ses[c], hello, latest).stage = "http"
        BY <3>2, SMT DEF Run, Session
      <4>. QED  BY <1>1, <3>2, <4>1, <4>2, DroppedKeeps, RunKeeps, Facts
    <3>4. CASE ses' = [ses EXCEPT ![c] = Dropped(@)]
      BY <1>1, <3>2, <3>4, UnopenedSteady, OneSteady, Facts
    <3>5. CASE \/ DoAccept([ses EXCEPT ![c] = Run(@, hello, latest)], Tail(queue))
               \/ DoAccept([ses EXCEPT ![c] = Dropped(@)], Tail(queue))
      BY <1>1, <3>2, <3>3, <3>5, DoAcceptSteady
    <3>. QED  BY <2>4, <3>4, <3>5 DEF HandleAccept, HandleAcceptError
  <2>5. ASSUME NEW c \in Connections, Connect(c)
        PROVE  \A d \in Connections : Steady(ses[d], ses'[d])
    <3>1. ses[c].stage # "ws" /\ \E q : ses' = [ses EXCEPT ![c] = q]
      BY <2>5 DEF Connect
    <3>. QED  BY <1>1, <3>1, UnopenedSteady, OneSteady, Facts
  <2>. QED  BY <1>1, <2>1, <2>2, <2>3, <2>4, <2>5, CompletionSteady
            DEF Next, Handlers
<1>2. Inv /\ [Next]_serverVars
        => [\A c \in Connections :
              (ses[c].writing /\ ses'[c].sending # ses[c].sending)
                 => \/ ~ses'[c].writing
                    \/ ses'[c].last = ses[c].sending]_serverVars
  BY <1>1 DEF Steady
<1>. QED  BY <1>2, Invariance, PTL DEF Spec, BufferStable

----------------------------------------------------------------------------
(***************************************************************************)
(* runServe: the main thread returns only after the sessions are cleaned   *)
(* up, and every connection made after setHello gets hello first.          *)
(***************************************************************************)
ServeTask == Task \cup [kind : {"signal", "cancel"}]

ServerTypes ==
    /\ queue \in Seq(ServeTask)
    /\ accepting \in BOOLEAN
    /\ sessions \in SUBSET Connections
    /\ ses \in [Connections -> Session]
    /\ hello \in {Vacant, Hello}
    /\ latest \in Frame \ {Hello}
    /\ stopped \in BOOLEAN
    /\ posted \in [hello : BOOLEAN, frames : Nat, stops : Nat]

\* An open session is read, and none has an operation before the handshake ends.
Sound(r) ==
    /\ r.writing <=> r.sending # Vacant
    /\ r.open => r.stage = "ws" /\ r.reading
    /\ r.stage = "ws" => r.first = Vacant
    /\ r.stage # "ws" => /\ ~r.reading /\ ~r.writing /\ ~r.closeOp
                         /\ r.last = Vacant

\* A session that was given hello has received it, is being sent it, or was
\* lost before anything reached the peer.
Greeted(r) ==
    /\ r.stage \in {"http", "upgrade", "doomed", "reply"} => r.first = Hello
    /\ r.stage = "ws" =>
         \/ r.greeted
         \/ r.last = Vacant /\ (r.sending = Hello \/ (~r.open /\ ~r.writing))

Unbegun == {"away", "backlog", "queued"}

Pending(q, k) == \E i \in 1..Len(q) : q[i].kind = k

(***************************************************************************)
(* The accepted connections in the queue q: each once and without a        *)
(* session in f; those not among the early ones behind hello's task, as    *)
(* long as h is not set.                                                   *)
(***************************************************************************)
InLine(q, f, h, e) ==
    /\ \A i \in 1..Len(q) : q[i].kind = "accept" =>
         /\ f[q[i].conn].stage = "queued"
         /\ \/ q[i].conn \in e \/ h = Hello
            \/ \E j \in 1..Len(q) : j < i /\ q[j].kind = "hello"
    /\ \A i, j \in 1..Len(q) :
         i < j /\ q[i].kind = "accept" /\ q[j].kind = "accept"
            => q[i].conn # q[j].conn

ServerInv ==
    /\ ServerTypes
    /\ \A c \in Connections :
         /\ Sound(ses[c])
         /\ c \notin early => /\ Greeted(ses[c])
                              /\ ses[c].stage # "away" => posted.hello
    /\ InLine(queue, ses, hello, early)
    /\ posted.hello => hello = Hello \/ Pending(queue, "hello")
    /\ stopped => sessions = {}

ThreadInv ==
    /\ signal = "over" => stopped \/ Pending(queue, "stop")
    /\ main = "run" => signal # "unarmed"
    /\ CleanedUpBeforeReturn
    /\ main = "done" /\ exitCode # 2
         => sampler = "done" /\ (exitCode = 1 <=> failed)

ServeInv == ServerInv /\ ThreadInv

----------------------------------------------------------------------------
(***************************************************************************)
(* The session's functions.                                                *)
(***************************************************************************)

\* They stay within the type of a session.
LEMMA SessionTypes ==
    ASSUME NEW r \in Session
    PROVE  /\ Close(r) \in Session /\ Dropped(r) \in Session
           /\ Opened(r) \in Session /\ Written(r) \in Session
           /\ WriteFailed(r) \in Session
           /\ \A m \in Nat \ {0} : Send(r, m) \in Session
           /\ \A h \in {Vacant, Hello}, top \in Frame \ {Hello} : Run(r, h, top) \in Session
           /\ \A st \in Stage : [r EXCEPT !.stage = st] \in Session
           /\ [r EXCEPT !.reading = FALSE, !.open = FALSE] \in Session
           /\ [r EXCEPT !.closeOp = FALSE, !.socket = FALSE] \in Session
<1>1. /\ Vacant \in Frame \ {Hello} /\ Vacant \in Frame /\ Vacant \in {Vacant, Hello}
      /\ Hello \in Frame
      /\ \A m \in Nat \ {0} : m \in Frame /\ m \in Frame \ {Hello}
      /\ {"http", "ws", "over"} \subseteq Stage
  BY DEF Frame, Vacant, Hello, Stage
<1>2. r.first \in Frame /\ r.pending \in Frame
  BY <1>1 DEF Session
<1>3. ASSUME NEW m \in Nat \ {0}
      PROVE  Send(r, m) \in Session
  <2>1. m \in Frame /\ m \in Frame \ {Hello}
    BY <1>1
  <2>. QED  BY <2>1, Zenon DEF Send, DoWrite, Session
<1>4. ASSUME NEW h \in {Vacant, Hello}, NEW top \in Frame \ {Hello}
      PROVE  Run(r, h, top) \in Session
  BY <1>1, Zenon DEF Run, Session
<1>5. Close(r) \in Session /\ Dropped(r) \in Session
  BY <1>1, Zenon DEF Close, DoClose, Dropped, Session
<1>6. Opened(r) \in Session
  BY <1>1, <1>2, Zenon DEF Opened, DoWrite, Session
<1>7. Written(r) \in Session
  BY <1>1, <1>2, Zenon DEF Written, Sent, DoWrite, DoClose, Session
<1>8. WriteFailed(r) \in Session
  BY <1>1, Zenon DEF WriteFailed, Session
<1>9. /\ \A st \in Stage : [r EXCEPT !.stage = st] \in Session
      /\ [r EXCEPT !.reading = FALSE, !.open = FALSE] \in Session
      /\ [r EXCEPT !.closeOp = FALSE, !.socket = FALSE] \in Session
  BY Zenon DEF Session
<1>. QED  BY <1>3, <1>4, <1>5, <1>6, <1>7, <1>8, <1>9

\* A session that is sound, and greeted unless it is one of the early ones.
Fine(r, late) == r \in Session /\ Sound(r) /\ (late => Greeted(r))

LEMMA SendFine ==
    ASSUME NEW r, NEW late, Fine(r, late), NEW m \in Nat \ {0}
    PROVE  Fine(Send(r, m), late) /\ Send(r, m).stage = r.stage
<1>1. r \in Session /\ Send(r, m) \in Session
  BY SessionTypes DEF Fine
<1>2. Sound(Send(r, m)) /\ Send(r, m).stage = r.stage
  BY <1>1, SMT DEF Fine, Sound, Send, DoWrite, Session, Vacant
<1>3. late => Greeted(Send(r, m))
  BY <1>1, SMT DEF Fine, Sound, Greeted, Send, DoWrite, Session, Vacant, Hello
<1>. QED  BY <1>1, <1>2, <1>3 DEF Fine

LEMMA CloseFine ==
    ASSUME NEW r, NEW late, Fine(r, late)
    PROVE  Fine(Close(r), late) /\ Close(r).stage = r.stage
<1>1. r \in Session /\ Close(r) \in Session
  BY SessionTypes DEF Fine
<1>2. Sound(Close(r)) /\ Close(r).stage = r.stage
  BY <1>1, SMT DEF Fine, Sound, Close, DoClose, Session
<1>3. late => Greeted(Close(r))
  BY <1>1, SMT DEF Fine, Sound, Greeted, Close, DoClose, Session
<1>. QED  BY <1>1, <1>2, <1>3 DEF Fine

\* Before it begins a session may be dropped or wait; with hello it may begin.
LEMMA UnbegunFine ==
    ASSUME NEW r, NEW late, Fine(r, late), r.stage \in Unbegun
    PROVE  /\ Fine(Dropped(r), late) /\ Dropped(r).stage = "over"
           /\ \A st \in {"queued", "backlog"} :
                 /\ Fine([r EXCEPT !.stage = st], late)
                 /\ [r EXCEPT !.stage = st].stage = st
<1>1. r \in Session /\ Dropped(r) \in Session
  BY SessionTypes DEF Fine
<1>2. Fine(Dropped(r), late) /\ Dropped(r).stage = "over"
  BY <1>1, SMT DEF Fine, Sound, Greeted, Dropped, Session, Unbegun
<1>3. ASSUME NEW st \in {"queued", "backlog"}
      PROVE  Fine([r EXCEPT !.stage = st], late) /\ [r EXCEPT !.stage = st].stage = st
  <2>1. st \in Stage
    BY DEF Stage
  <2>2. [r EXCEPT !.stage = st] \in Session
    BY <1>1, <2>1, SessionTypes
  <2>. QED  BY <1>1, <2>2, SMT DEF Fine, Sound, Greeted, Session, Unbegun
<1>. QED  BY <1>2, <1>3

LEMMA RunFine ==
    ASSUME NEW r, NEW late, Fine(r, late), r.stage \in Unbegun,
           NEW h \in {Vacant, Hello}, NEW top \in Frame \ {Hello}, late => h = Hello
    PROVE  Fine(Run(r, h, top), late) /\ Run(r, h, top).stage = "http"
<1>1. r \in Session /\ Run(r, h, top) \in Session
  BY SessionTypes DEF Fine
<1>. QED  BY <1>1, SMT DEF Fine, Sound, Greeted, Run, Session, Unbegun

LEMMA OpenedFine ==
    ASSUME NEW r, NEW late, Fine(r, late), r.stage = "upgrade"
    PROVE  Fine(Opened(r), late)
<1>1. r \in Session /\ Opened(r) \in Session
  BY SessionTypes DEF Fine
<1>2. Sound(Opened(r))
  BY <1>1, SMT DEF Fine, Sound, Opened, DoWrite, Session, Vacant, Hello
<1>3. late => Greeted(Opened(r))
  BY <1>1, SMT DEF Fine, Sound, Greeted, Opened, DoWrite, Session, Vacant, Hello
<1>. QED  BY <1>1, <1>2, <1>3 DEF Fine

LEMMA WriteEndFine ==
    ASSUME NEW r, NEW late, Fine(r, late), r.writing
    PROVE  Fine(Written(r), late) /\ Fine(WriteFailed(r), late)
<1>1. r \in Session /\ Written(r) \in Session /\ WriteFailed(r) \in Session
  BY SessionTypes DEF Fine
<1>2. Sound(Written(r)) /\ Sound(WriteFailed(r))
  BY <1>1, SMT DEF Fine, Sound, Written, Sent, DoWrite, DoClose, WriteFailed, Session,
                   Vacant, Hello
<1>3. late => Greeted(Written(r)) /\ Greeted(WriteFailed(r))
  BY <1>1, SMT DEF Fine, Sound, Greeted, Written, Sent, DoWrite, DoClose, WriteFailed,
                   Session, Vacant, Hello
<1>. QED  BY <1>1, <1>2, <1>3 DEF Fine

----------------------------------------------------------------------------
(***************************************************************************)
(* The queue.                                                              *)
(***************************************************************************)

\* Only who waits matters of the sessions; more may be known to be early.
LEMMA LineFrame ==
    ASSUME NEW q \in Seq(ServeTask), NEW f, NEW g, NEW h, NEW e, NEW d,
           InLine(q, f, h, e), e \subseteq d,
           \A c \in Connections : f[c].stage = "queued" => g[c].stage = "queued"
    PROVE  InLine(q, g, h, d)
<1>1. \A i \in 1..Len(q) : q[i].kind = "accept" => q[i].conn \in Connections
  BY DEF ServeTask, Task
<1>. QED  BY <1>1, SMT DEF InLine

\* A task is taken: what waits behind it still waits.
LEMMA LineTail ==
    ASSUME NEW q \in Seq(ServeTask), q # <<>>, NEW f, NEW h, NEW e,
           InLine(q, f, h, e)
    PROVE  /\ Tail(q) \in Seq(ServeTask) /\ Head(q) \in ServeTask
           /\ Head(q).kind # "hello" => InLine(Tail(q), f, h, e)
           /\ InLine(Tail(q), f, Hello, e)
           /\ Head(q).kind = "accept" =>
                /\ Head(q).conn \in Connections
                /\ f[Head(q).conn].stage = "queued"
                /\ Head(q).conn \in e \/ h = Hello
                /\ \A i \in 1..Len(Tail(q)) : Tail(q)[i].kind = "accept"
                      => Tail(q)[i].conn # Head(q).conn
           /\ \A k : Pending(q, k) /\ Head(q).kind # k => Pending(Tail(q), k)
<1>. DEFINE t == Tail(q)  x == Head(q)
<1>1. /\ t \in Seq(ServeTask) /\ x \in ServeTask /\ x = q[1]
      /\ Len(t) = Len(q) - 1 /\ Len(q) \in Nat \ {0}
      /\ \A i \in 1..Len(t) : t[i] = q[i + 1] /\ i + 1 \in 1..Len(q) /\ 1 < i + 1
      /\ 1 \in 1..Len(q)
  OBVIOUS
<1>2. \A j \in 1..Len(q) : j = 1 \/ (j - 1 \in 1..Len(t) /\ t[j - 1] = q[j])
  BY <1>1
<1>. HIDE DEF t, x
<1>3. \A i \in 1..Len(t) : t[i].kind = "accept" => f[t[i].conn].stage = "queued"
  BY <1>1 DEF InLine
<1>4. \A i, j \in 1..Len(t) :
         i < j /\ t[i].kind = "accept" /\ t[j].kind = "accept" => t[i].conn # t[j].conn
  <2>. SUFFICES ASSUME NEW i \in 1..Len(t), NEW j \in 1..Len(t), i < j,
                       t[i].kind = "accept", t[j].kind = "accept"
                PROVE  t[i].conn # t[j].conn
    OBVIOUS
  <2>1. i + 1 \in 1..Len(q) /\ j + 1 \in 1..Len(q) /\ i + 1 < j + 1
    BY <1>1
  <2>. QED  BY <1>1, <2>1 DEF InLine
<1>5. ASSUME x.kind # "hello", NEW i \in 1..Len(t), t[i].kind = "accept"
      PROVE  \/ t[i].conn \in e \/ h = Hello
             \/ \E j \in 1..Len(t) : j < i /\ t[j].kind = "hello"
  <2>. SUFFICES ASSUME t[i].conn \notin e, h # Hello
                PROVE  \E j \in 1..Len(t) : j < i /\ t[j].kind = "hello"
    OBVIOUS
  <2>1. PICK j \in 1..Len(q) : j < i + 1 /\ q[j].kind = "hello"
    BY <1>1, <1>5 DEF InLine
  <2>2. j - 1 \in 1..Len(t) /\ j - 1 < i /\ t[j - 1].kind = "hello"
    BY <1>1, <1>2, <1>5, <2>1
  <2>. QED  BY <2>2
<1>6. /\ x.kind # "hello" => InLine(t, f, h, e)
      /\ InLine(t, f, Hello, e)
  BY <1>3, <1>4, <1>5 DEF InLine
<1>7. ASSUME x.kind = "accept"
      PROVE  /\ x.conn \in Connections /\ f[x.conn].stage = "queued"
             /\ x.conn \in e \/ h = Hello
             /\ \A i \in 1..Len(t) : t[i].kind = "accept" => t[i].conn # x.conn
  <2>1. x.conn \in Connections
    BY <1>1, <1>7 DEF ServeTask, Task
  <2>2. f[x.conn].stage = "queued" /\ (x.conn \in e \/ h = Hello)
    BY <1>1, <1>7 DEF InLine
  <2>. QED  BY <1>1, <1>7, <2>1, <2>2 DEF InLine
<1>8. \A k : Pending(q, k) /\ x.kind # k => Pending(t, k)
  BY <1>1, <1>2 DEF Pending
<1>. QED  BY <1>1, <1>6, <1>7, <1>8 DEF t, x

\* A task is posted.
LEMMA LineAppend ==
    ASSUME NEW q \in Seq(ServeTask), NEW f, NEW h, NEW e, InLine(q, f, h, e),
           NEW t \in ServeTask,
           t.kind = "accept" =>
             /\ f[t.conn].stage = "queued"
             /\ t.conn \in e \/ h = Hello \/ Pending(q, "hello")
             /\ \A i \in 1..Len(q) : q[i].kind = "accept" => q[i].conn # t.conn
    PROVE  /\ Append(q, t) \in Seq(ServeTask) /\ InLine(Append(q, t), f, h, e)
           /\ Pending(Append(q, t), t.kind)
           /\ \A k : Pending(q, k) => Pending(Append(q, t), k)
<1>. DEFINE p == Append(q, t)
<1>1. /\ p \in Seq(ServeTask) /\ Len(p) = Len(q) + 1 /\ Len(q) \in Nat
      /\ \A i \in 1..Len(q) : p[i] = q[i] /\ i \in 1..Len(p)
      /\ p[Len(q) + 1] = t /\ Len(q) + 1 \in 1..Len(p)
  OBVIOUS
<1>2. \A i \in 1..Len(p) : i \in 1..Len(q) \/ i = Len(q) + 1
  BY <1>1
<1>. HIDE DEF p
<1>3. ASSUME NEW i \in 1..Len(p), p[i].kind = "accept"
      PROVE  /\ f[p[i].conn].stage = "queued"
             /\ \/ p[i].conn \in e \/ h = Hello
                \/ \E j \in 1..Len(p) : j < i /\ p[j].kind = "hello"
  <2>1. CASE i \in 1..Len(q)
    BY <1>1, <1>3, <2>1 DEF InLine
  <2>2. CASE i = Len(q) + 1
    BY <1>1, <1>3, <2>2 DEF Pending
  <2>. QED  BY <1>2, <2>1, <2>2
<1>4. ASSUME NEW i \in 1..Len(p), NEW j \in 1..Len(p), i < j,
             p[i].kind = "accept", p[j].kind = "accept"
      PROVE  p[i].conn # p[j].conn
  <2>1. i \in 1..Len(q) /\ p[i] = q[i]
    BY <1>1, <1>2, <1>4
  <2>2. CASE j \in 1..Len(q)
    BY <1>1, <1>4, <2>1, <2>2 DEF InLine
  <2>3. CASE j = Len(q) + 1
    BY <1>1, <1>4, <2>1, <2>3
  <2>. QED  BY <1>2, <2>2, <2>3
<1>5. InLine(p, f, h, e)
  BY <1>3, <1>4 DEF InLine
<1>6. Pending(p, t.kind) /\ \A k : Pending(q, k) => Pending(p, k)
  BY <1>1 DEF Pending
<1>. QED  BY <1>1, <1>5, <1>6 DEF p

\* The rest of a queue without connection c does not mind what becomes of c.
LEMMA LineOther ==
    ASSUME NEW q \in Seq(ServeTask), NEW f, NEW g, NEW h, NEW e, NEW c,
           InLine(q, f, h, e),
           \A i \in 1..Len(q) : q[i].kind = "accept" => q[i].conn # c,
           \A d \in Connections : d # c => g[d] = f[d]
    PROVE  InLine(q, g, h, e)
<1>1. \A i \in 1..Len(q) : q[i].kind = "accept" => q[i].conn \in Connections
  BY DEF ServeTask, Task
<1>. QED  BY <1>1, SMT DEF InLine

----------------------------------------------------------------------------
(***************************************************************************)
(* The server's part of the invariant.                                     *)
(***************************************************************************)
LEMMA ServeFacts ==
    ASSUME ServerInv
    PROVE  /\ queue \in Seq(ServeTask) /\ accepting \in BOOLEAN
           /\ sessions \in SUBSET Connections /\ ses \in [Connections -> Session]
           /\ hello \in {Vacant, Hello} /\ latest \in Frame \ {Hello}
           /\ stopped \in BOOLEAN
           /\ posted \in [hello : BOOLEAN, frames : Nat, stops : Nat]
           /\ InLine(queue, ses, hello, early)
           /\ \A c \in Connections :
                /\ ses[c] \in Session /\ Fine(ses[c], c \notin early)
                /\ c \notin early /\ ses[c].stage # "away" => posted.hello
           /\ posted.hello => hello = Hello \/ Pending(queue, "hello")
           /\ stopped => sessions = {}
  BY DEF ServerInv, ServerTypes, Fine

\* The parts of the invariant put together again.
LEMMA Together ==
    ASSUME ServerTypes',
           \A c \in Connections :
             /\ Fine(ses'[c], c \notin early')
             /\ c \notin early' /\ ses'[c].stage # "away" => posted'.hello,
           InLine(queue', ses', hello', early'),
           posted'.hello => hello' = Hello \/ Pending(queue', "hello"),
           stopped' => sessions' = {}
    PROVE  ServerInv'
  BY DEF ServerInv, Fine

\* A task without a connection is posted.
LEMMA PostStep ==
    ASSUME ServerInv, NEW t \in ServeTask, t.kind # "accept",
           queue' = Append(queue, t),
           posted' \in [hello : BOOLEAN, frames : Nat, stops : Nat],
           posted'.hello => posted.hello \/ t.kind = "hello",
           posted.hello => posted'.hello,
           UNCHANGED <<accepting, sessions, ses, hello, latest, stopped, early>>
    PROVE  /\ ServerInv' /\ Pending(queue', t.kind)
           /\ \A k : Pending(queue, k) => Pending(queue', k)
<1>1. /\ queue' \in Seq(ServeTask) /\ InLine(queue', ses, hello, early)
      /\ Pending(queue', t.kind) /\ \A k : Pending(queue, k) => Pending(queue', k)
  BY ServeFacts, LineAppend
<1>2. ServerTypes'
  BY <1>1, ServeFacts DEF ServerTypes
<1>3. ServerInv'
  BY <1>1, <1>2, ServeFacts, Together
<1>. QED  BY <1>1, <1>3

\* One session changes by the end of one of its own operations.
LEMMA SessionStepKeeps ==
    ASSUME ServerInv, NEW c \in Connections, NEW r, Fine(r, c \notin early),
           ses[c].stage \notin Unbegun, ses' = [ses EXCEPT ![c] = r],
           sessions' \in {sessions, sessions \ {c}},
           UNCHANGED <<queue, accepting, hello, latest, stopped, posted, early>>
    PROVE  ServerInv'
<1>1. r \in Session
  BY DEF Fine
<1>2. /\ ses' \in [Connections -> Session] /\ ses'[c] = r
      /\ \A d \in Connections : d # c => ses'[d] = ses[d]
  BY <1>1, ServeFacts
<1>3. ServerTypes'
  BY <1>2, ServeFacts DEF ServerTypes
<1>4. InLine(queue', ses', hello', early')
  <2>1. \A d \in Connections : ses[d].stage = "queued" => ses'[d].stage = "queued"
    BY <1>2 DEF Unbegun
  <2>. QED  BY <2>1, ServeFacts, LineFrame
<1>5. \A d \in Connections :
             /\ Fine(ses'[d], d \notin early')
             /\ d \notin early' /\ ses'[d].stage # "away" => posted'.hello
  BY <1>2, ServeFacts DEF Unbegun
<1>. QED  BY <1>3, <1>4, <1>5, ServeFacts, Together

LEMMA ServeCompletionStep ==
    ASSUME ServerInv, NEW c \in Connections, Completion(c), early' = early
    PROVE  ServerInv'
<1>. DEFINE r == ses[c]  late == c \notin early
            a == [r EXCEPT !.reading = FALSE, !.open = FALSE]
            b == [r EXCEPT !.closeOp = FALSE, !.socket = FALSE]
<1>1. r \in Session /\ Fine(r, late) /\ a \in Session /\ b \in Session
  BY ServeFacts, SessionTypes
<1>2. ASSUME NEW st \in {"over", "reply", "upgrade", "doomed"},
             r.stage \in {"http", "reply", "upgrade", "doomed"},
             r.stage = "http" \/ st = "over"
      PROVE  Fine([r EXCEPT !.stage = st], late)
  <2>1. st \in Stage
    BY DEF Stage
  <2>2. [r EXCEPT !.stage = st] \in Session
    BY <1>1, <2>1, SessionTypes
  <2>3. Sound([r EXCEPT !.stage = st])
    BY <1>1, <1>2, SMT DEF Fine, Sound, Session
  <2>4. late => Greeted([r EXCEPT !.stage = st])
    BY <1>1, <1>2, SMT DEF Fine, Greeted, Session
  <2>. QED  BY <2>2, <2>3, <2>4 DEF Fine
<1>3. CASE RequestFailed(c) \/ ReplyWritten(c) \/ UpgradeFailed(c)
  BY <1>2, <1>3, SessionStepKeeps
     DEF RequestFailed, ReplyWritten, UpgradeFailed, RemoveSession, Unbegun
<1>4. CASE RequestAnswered(c)
  BY <1>2, <1>4, SessionStepKeeps DEF RequestAnswered, SessionStep, Unbegun
<1>5. CASE RequestUpgrade(c)
  <2>. DEFINE st == IF r.socket THEN "upgrade" ELSE "doomed"
  <2>1. st \in {"upgrade", "doomed"}
    OBVIOUS
  <2>2. ses' = [ses EXCEPT ![c] = [r EXCEPT !.stage = st]]
    BY <1>5 DEF RequestUpgrade, SessionStep
  <2>. HIDE DEF st
  <2>. QED  BY <1>2, <1>5, <2>1, <2>2, SessionStepKeeps
            DEF RequestUpgrade, SessionStep, Unbegun
<1>6. CASE UpgradeDone(c)
  BY <1>1, <1>6, OpenedFine, SessionStepKeeps DEF UpgradeDone, SessionStep, Unbegun
<1>7. r.reading \/ r.writing \/ r.closeOp => r.stage \notin Unbegun
  BY <1>1 DEF Fine, Sound, Unbegun
<1>8. CASE ReadFailed(c)
  <2>1. Fine(a, late)
    BY <1>1, SMT DEF Fine, Sound, Greeted, Session
  <2>. QED  BY <1>7, <1>8, <2>1, SessionStepKeeps DEF ReadFailed, RemoveSession
<1>9. CASE WriteDone(c)
  BY <1>1, <1>7, <1>9, WriteEndFine, SessionStepKeeps DEF WriteDone, SessionStep
<1>10. CASE WriteError(c)
  BY <1>1, <1>7, <1>10, WriteEndFine, SessionStepKeeps DEF WriteError, RemoveSession
<1>11. CASE CloseDone(c)
  <2>1. Fine(b, late)
    BY <1>1, SMT DEF Fine, Sound, Greeted, Session
  <2>. QED  BY <1>7, <1>11, <2>1, SessionStepKeeps DEF CloseDone, SessionStep
<1>. QED  BY <1>3, <1>4, <1>5, <1>6, <1>8, <1>9, <1>10, <1>11 DEF Completion

----------------------------------------------------------------------------
(***************************************************************************)
(* Handlers of the queue.  None of them but stop's own takes stop's task.  *)
(***************************************************************************)
StopKept == Pending(queue, "stop") => stopped' \/ Pending(queue', "stop")

\* The acceptor's handler after it took connection c, now the session r.
LEMMA AcceptRest ==
    ASSUME ServerInv, Ready("accept"), NEW c \in Connections, c = Head(queue).conn,
           NEW r, Fine(r, c \notin early), r.stage \in {"http", "over"},
           DoAccept([ses EXCEPT ![c] = r], Tail(queue)),
           sessions' \in SUBSET Connections, stopped => sessions' = {},
           UNCHANGED <<hello, latest, stopped, posted, early>>
    PROVE  ServerInv' /\ StopKept
<1>. DEFINE q == Tail(queue)  f == [ses EXCEPT ![c] = r]
<1>1. queue # <<>> /\ Head(queue).kind = "accept" /\ r \in Session
  BY DEF Ready, Fine
<1>2. /\ q \in Seq(ServeTask) /\ InLine(q, ses, hello, early)
      /\ ses[c].stage = "queued"
      /\ \A i \in 1..Len(q) : q[i].kind = "accept" => q[i].conn # c
      /\ \A k \in {"hello", "stop"} : Pending(queue, k) => Pending(q, k)
  BY <1>1, ServeFacts, LineTail
<1>3. /\ f \in [Connections -> Session] /\ f[c] = r
      /\ \A d \in Connections : d # c => f[d] = ses[d]
  BY <1>1, ServeFacts
<1>. HIDE DEF q, f
<1>4. InLine(q, f, hello, early)
  BY <1>2, <1>3, LineOther
<1>5. posted.hello => hello = Hello \/ Pending(q, "hello")
  BY <1>2, ServeFacts
<1>6. \A d \in Connections :
             /\ Fine(f[d], d \notin early)
             /\ d \notin early /\ f[d].stage # "away" => posted.hello
  BY <1>2, <1>3, ServeFacts
<1>7. CASE accepting' = TRUE /\ queue' = q /\ ses' = f
  <2>1. ServerTypes'
    BY <1>2, <1>3, <1>7, ServeFacts DEF ServerTypes
  <2>2. ServerInv'
    BY <1>4, <1>5, <1>6, <1>7, <2>1, ServeFacts, Together
  <2>. QED  BY <1>2, <1>7, <2>2 DEF StopKept
<1>8. ASSUME NEW b \in Connections, f[b].stage = "backlog",
             queue' = Append(q, AcceptTask(b)),
             ses' = [f EXCEPT ![b].stage = "queued"], UNCHANGED accepting
      PROVE  ServerInv' /\ StopKept
  <2>. DEFINE g == [f[b] EXCEPT !.stage = "queued"]  t == AcceptTask(b)
  <2>1. /\ f[b] \in Session /\ Fine(f[b], b \notin early) /\ f[b].stage \in Unbegun
        /\ b \notin early => posted.hello
    BY <1>3, <1>6, <1>8 DEF Unbegun
  <2>2. g \in Session /\ Fine(g, b \notin early) /\ g.stage = "queued"
    BY <2>1, UnbegunFine DEF Fine
  <2>3. ses' = [f EXCEPT ![b] = g]
    BY <1>3, <1>8
  <2>4. /\ t \in ServeTask /\ t.kind = "accept" /\ t.conn = b
    BY DEF AcceptTask, ServeTask, Task
  <2>. HIDE DEF g, t
  <2>5. /\ ses' \in [Connections -> Session] /\ ses'[b] = g
        /\ \A d \in Connections : d # b => ses'[d] = f[d]
    BY <1>3, <2>2, <2>3
  <2>6. InLine(q, ses', hello, early)
    <3>1. \A d \in Connections : f[d].stage = "queued" => ses'[d].stage = "queued"
      BY <2>2, <2>5
    <3>. QED  BY <1>2, <1>4, <3>1, LineFrame
  <2>7. \A i \in 1..Len(q) : q[i].kind = "accept" => q[i].conn # b
    BY <1>4, <1>8 DEF InLine
  <2>8. t.conn \in early \/ hello = Hello \/ Pending(q, "hello")
    BY <1>5, <2>1, <2>4
  <2>9. queue' = Append(q, t)
    BY <1>8 DEF t
  <2>10. /\ queue' \in Seq(ServeTask) /\ InLine(queue', ses', hello, early)
         /\ \A k : Pending(q, k) => Pending(queue', k)
    BY <1>2, <2>2, <2>4, <2>5, <2>6, <2>7, <2>8, <2>9, LineAppend
  <2>11. ServerTypes'
    BY <1>8, <2>5, <2>10, ServeFacts DEF ServerTypes
  <2>12. \A d \in Connections :
             /\ Fine(ses'[d], d \notin early')
             /\ d \notin early' /\ ses'[d].stage # "away" => posted'.hello
    BY <1>6, <2>1, <2>2, <2>5
  <2>13. ServerInv'
    BY <1>5, <2>10, <2>11, <2>12, ServeFacts, Together
  <2>. QED  BY <1>2, <2>10, <2>13 DEF StopKept
<1>. QED  BY <1>7, <1>8 DEF DoAccept, q, f

LEMMA HandlerStep ==
    ASSUME ServerInv, Handlers, early' = early
    PROVE  ServerInv' /\ StopKept
<1>. DEFINE q == Tail(queue)  x == Head(queue)
<1>1. ASSUME queue # <<>>
      PROVE  /\ q \in Seq(ServeTask) /\ x \in ServeTask
             /\ x.kind # "hello" => InLine(q, ses, hello, early)
             /\ InLine(q, ses, Hello, early)
             /\ x.kind = "accept" =>
                  /\ x.conn \in Connections /\ ses[x.conn].stage = "queued"
                  /\ x.conn \in early \/ hello = Hello
             /\ \A k \in {"hello", "stop"} :
                   Pending(queue, k) /\ x.kind # k => Pending(q, k)
  BY <1>1, ServeFacts, LineTail
<1>2. CASE HandleSetHello
  <2>1. /\ queue # <<>> /\ x.kind = "hello" /\ queue' = q /\ hello' = Hello
        /\ UNCHANGED <<accepting, sessions, ses, latest, stopped, posted>>
    BY <1>2 DEF HandleSetHello, Ready
  <2>2. ServerTypes'
    BY <1>1, <2>1, ServeFacts DEF ServerTypes
  <2>3. ServerInv'
    BY <1>1, <2>1, <2>2, ServeFacts, Together
  <2>. QED  BY <1>1, <2>1, <2>3 DEF StopKept
<1>3. CASE HandleBroadcast
  <2>1. /\ queue # <<>> /\ x.kind = "broadcast" /\ queue' = q /\ latest' = x.frame
        /\ UNCHANGED <<accepting, sessions, hello, stopped, posted>>
        /\ ses' = [c \in Connections |-> IF c \in sessions THEN Send(ses[c], x.frame)
                                         ELSE ses[c]]
    BY <1>3 DEF HandleBroadcast, Ready
  <2>2. x.frame \in Nat \ {0} /\ x.frame \in Frame \ {Hello}
    BY <1>1, <2>1 DEF ServeTask, Task, Frame, Hello
  <2>3. ASSUME NEW c \in Connections
        PROVE  Fine(ses'[c], c \notin early) /\ ses'[c].stage = ses[c].stage
    BY <2>1, <2>2, ServeFacts, SendFine
  <2>4. ses' \in [Connections -> Session]
    BY <2>1, <2>3 DEF Fine
  <2>5. ServerTypes'
    BY <1>1, <2>1, <2>2, <2>4, ServeFacts DEF ServerTypes
  <2>6. InLine(q, ses', hello, early)
    BY <1>1, <2>1, <2>3, LineFrame
  <2>7. posted.hello => hello = Hello \/ Pending(q, "hello")
    BY <1>1, <2>1, ServeFacts
  <2>8. ServerInv'
    BY <2>1, <2>3, <2>5, <2>6, <2>7, ServeFacts, Together
  <2>. QED  BY <1>1, <2>1, <2>8 DEF StopKept
<1>4. CASE HandleStop
  <2>1. /\ queue # <<>> /\ x.kind = "stop" /\ queue' = q
        /\ UNCHANGED <<hello, latest, posted>>
        /\ \/ stopped /\ UNCHANGED <<accepting, sessions, ses, stopped>>
           \/ /\ stopped' = TRUE /\ accepting' = FALSE /\ sessions' = {}
              /\ ses' = [c \in Connections |->
                           IF c \in sessions THEN Close(ses[c])
                           ELSE IF ses[c].stage = "backlog" THEN Dropped(ses[c])
                           ELSE ses[c]]
    BY <1>4 DEF HandleStop, Ready
  <2>2. ASSUME NEW c \in Connections
        PROVE  /\ Fine(ses'[c], c \notin early)
               /\ ses[c].stage = "queued" => ses'[c].stage = "queued"
               /\ ses'[c].stage # "away" => ses[c].stage # "away"
    <3>1. \/ ses'[c] = ses[c]
          \/ ses'[c] = Close(ses[c])
          \/ ses'[c] = Dropped(ses[c]) /\ ses[c].stage = "backlog"
      BY <2>1
    <3>2. ses[c].stage = "backlog" =>
            Fine(Dropped(ses[c]), c \notin early) /\ Dropped(ses[c]).stage = "over"
      BY ServeFacts, UnbegunFine DEF Unbegun
    <3>3. Fine(Close(ses[c]), c \notin early) /\ Close(ses[c]).stage = ses[c].stage
      BY ServeFacts, CloseFine
    <3>. QED  BY <3>1, <3>2, <3>3, ServeFacts
  <2>3. ses' \in [Connections -> Session]
    BY <2>1, <2>2, ServeFacts DEF Fine
  <2>4. ServerTypes'
    BY <1>1, <2>1, <2>3, ServeFacts DEF ServerTypes
  <2>5. InLine(q, ses', hello, early)
    BY <1>1, <2>1, <2>2, LineFrame
  <2>6. posted.hello => hello = Hello \/ Pending(q, "hello")
    BY <1>1, <2>1, ServeFacts
  <2>7. stopped' /\ sessions' = {}
    BY <2>1, ServeFacts
  <2>8. ServerInv'
    BY <2>1, <2>2, <2>4, <2>5, <2>6, <2>7, ServeFacts, Together
  <2>. QED  BY <2>7, <2>8 DEF StopKept
<1>5. CASE HandleAccept \/ HandleAcceptError
  <2>. DEFINE c == x.conn
  <2>1. /\ Ready("accept") /\ queue # <<>> /\ x.kind = "accept"
        /\ UNCHANGED <<hello, latest, stopped, posted>>
    BY <1>5 DEF HandleAccept, HandleAcceptError, Ready
  <2>2. c \in Connections /\ ses[c].stage = "queued" /\ (c \notin early => hello = Hello)
    BY <1>1, <2>1
  <2>3. /\ Fine(Dropped(ses[c]), c \notin early) /\ Dropped(ses[c]).stage = "over"
        /\ Fine(Run(ses[c], hello, latest), c \notin early)
        /\ Run(ses[c], hello, latest).stage = "http"
    <3>. DEFINE late == c \notin early
    <3>1. /\ Fine(ses[c], late) /\ ses[c].stage \in Unbegun
          /\ hello \in {Vacant, Hello} /\ latest \in Frame \ {Hello}
          /\ late => hello = Hello
      BY <2>2, ServeFacts DEF Unbegun
    <3>. HIDE DEF c, late
    <3>2. Fine(Dropped(ses[c]), late) /\ Dropped(ses[c]).stage = "over"
      BY <3>1, UnbegunFine
    <3>3. /\ Fine(Run(ses[c], hello, latest), late)
          /\ Run(ses[c], hello, latest).stage = "http"
      BY <3>1, RunFine
    <3>. QED  BY <3>2, <3>3 DEF late
  <2>4. CASE HandleAccept /\ stopped
    <3>1. /\ queue' = q /\ ses' = [ses EXCEPT ![c] = Dropped(ses[c])]
          /\ UNCHANGED <<accepting, sessions>>
      BY <2>4 DEF HandleAccept
    <3>2. Dropped(ses[c]) \in Session
      BY <2>3 DEF Fine
    <3>3. /\ ses' \in [Connections -> Session] /\ ses'[c] = Dropped(ses[c])
          /\ \A d \in Connections : d # c => ses'[d] = ses[d]
      <4>1. ses \in [Connections -> Session]
        BY ServeFacts
      <4>. HIDE DEF c
      <4>. QED  BY <3>1, <3>2, <4>1, <2>2
    <3>4. ServerTypes'
      BY <1>1, <2>1, <3>1, <3>3, ServeFacts DEF ServerTypes
    <3>5. InLine(q, ses', hello, early)
      <4>1. /\ InLine(q, ses, hello, early) /\ q \in Seq(ServeTask)
            /\ \A i \in 1..Len(q) : q[i].kind = "accept" => q[i].conn # c
        BY <2>1, ServeFacts, LineTail
      <4>. QED  BY <3>3, <4>1, LineOther
    <3>6. posted.hello => hello = Hello \/ Pending(q, "hello")
      BY <1>1, <2>1, ServeFacts
    <3>7. \A d \in Connections :
             /\ Fine(ses'[d], d \notin early')
             /\ d \notin early' /\ ses'[d].stage # "away" => posted'.hello
      BY <2>1, <2>2, <2>3, <3>3, ServeFacts
    <3>8. ServerInv'
      BY <2>1, <3>1, <3>4, <3>5, <3>6, <3>7, ServeFacts, Together
    <3>. QED  BY <1>1, <2>1, <3>1, <3>8 DEF StopKept
  <2>5. CASE HandleAccept /\ ~stopped
    <3>1. /\ DoAccept([ses EXCEPT ![c] = Run(ses[c], hello, latest)], q)
          /\ sessions' = sessions \cup {c}
      BY <2>5 DEF HandleAccept
    <3>2. sessions' \in SUBSET Connections
      BY <2>2, <3>1, ServeFacts
    <3>. QED  BY <2>1, <2>2, <2>3, <2>5, <3>1, <3>2, AcceptRest
  <2>6. CASE HandleAcceptError
    <3>1. /\ DoAccept([ses EXCEPT ![c] = Dropped(ses[c])], q)
          /\ sessions' = sessions
      BY <2>6 DEF HandleAcceptError
    <3>. QED  BY <2>1, <2>2, <2>3, <3>1, ServeFacts, AcceptRest
  <2>. QED  BY <1>5, <2>4, <2>5, <2>6
<1>. QED  BY <1>2, <1>3, <1>4, <1>5 DEF Handlers

\* A client connects: early if setHello has not been called.
LEMMA ServeConnectStep ==
    ASSUME ServerInv, NEW c \in Connections, Connect(c),
           early' = IF posted.hello THEN early ELSE early \cup {c}
    PROVE  ServerInv' /\ (Pending(queue, "stop") => Pending(queue', "stop"))
<1>1. /\ ses[c].stage = "away" /\ early \subseteq early'
      /\ c \notin early' => posted.hello
      /\ UNCHANGED <<sessions, hello, latest, stopped, posted>>
  BY DEF Connect
<1>2. ASSUME NEW st \in {"queued", "backlog"}, ses' = [ses EXCEPT ![c].stage = st]
      PROVE  /\ ses' \in [Connections -> Session] /\ ses'[c].stage = st
             /\ \A d \in Connections : d # c => ses'[d] = ses[d]
             /\ \A d \in Connections :
                  /\ Fine(ses'[d], d \notin early')
                  /\ d \notin early' /\ ses'[d].stage # "away" => posted'.hello
             /\ InLine(queue, ses', hello, early')
  <2>. DEFINE g == [ses[c] EXCEPT !.stage = st]
  <2>1. g \in Session /\ Fine(g, c \notin early') /\ g.stage = st
    <3>1. Fine(ses[c], c \notin early') /\ ses[c].stage \in Unbegun
      BY <1>1, ServeFacts DEF Fine, Unbegun
    <3>2. Fine(g, c \notin early') /\ g.stage = st
      BY <3>1, UnbegunFine
    <3>. QED  BY <3>2 DEF Fine
  <2>2. ses' = [ses EXCEPT ![c] = g]
    BY <1>2, ServeFacts
  <2>. HIDE DEF g
  <2>3. /\ ses' \in [Connections -> Session] /\ ses'[c] = g
        /\ \A d \in Connections : d # c => ses'[d] = ses[d]
    BY <2>1, <2>2, ServeFacts
  <2>4. \A d \in Connections : d # c => Fine(ses'[d], d \notin early')
    BY <1>1, <2>3, ServeFacts DEF Fine
  <2>5. \A d \in Connections : ses[d].stage = "queued" => ses'[d].stage = "queued"
    BY <1>1, <2>3
  <2>6. InLine(queue, ses', hello, early')
    BY <1>1, <2>5, ServeFacts, LineFrame
  <2>. QED  BY <1>1, <2>1, <2>3, <2>4, <2>6, ServeFacts
<1>3. CASE accepting
  <2>. DEFINE t == AcceptTask(c)
  <2>1. /\ ses' = [ses EXCEPT ![c].stage = "queued"] /\ queue' = Append(queue, t)
        /\ accepting' = FALSE
    BY <1>3 DEF Connect
  <2>2. t \in ServeTask /\ t.kind = "accept" /\ t.conn = c
    BY DEF AcceptTask, ServeTask, Task
  <2>. HIDE DEF t
  <2>3. \A i \in 1..Len(queue) : queue[i].kind = "accept" => queue[i].conn # c
    BY <1>1, ServeFacts DEF InLine
  <2>4. t.conn \in early' \/ hello = Hello \/ Pending(queue, "hello")
    BY <1>1, <2>2, ServeFacts
  <2>5. /\ queue' \in Seq(ServeTask) /\ InLine(queue', ses', hello, early')
        /\ \A k : Pending(queue, k) => Pending(queue', k)
    BY <1>2, <2>1, <2>2, <2>3, <2>4, ServeFacts, LineAppend
  <2>6. ServerTypes'
    BY <1>1, <1>2, <2>1, <2>5, ServeFacts DEF ServerTypes
  <2>7. ServerInv'
    BY <1>1, <1>2, <2>1, <2>5, <2>6, ServeFacts, Together
  <2>. QED  BY <2>5, <2>7
<1>4. CASE ~accepting
  <2>1. /\ ses' = [ses EXCEPT ![c].stage = "backlog"]
        /\ UNCHANGED <<queue, accepting>>
    BY <1>4 DEF Connect
  <2>2. ServerTypes'
    BY <1>1, <1>2, <2>1, ServeFacts DEF ServerTypes
  <2>3. ServerInv'
    BY <1>1, <1>2, <2>1, <2>2, ServeFacts, Together
  <2>. QED  BY <2>1, <2>3
<1>. QED  BY <1>3, <1>4

----------------------------------------------------------------------------
(***************************************************************************)
(* The threads.                                                            *)
(***************************************************************************)

\* Steps of a thread that leave the server alone.
LEMMA ServerSame ==
    ASSUME ServerInv, UNCHANGED <<serverVars, early>>
    PROVE  ServerInv'
  BY DEF ServerInv, ServerTypes, serverVars

\* The handlers of the application's own tasks post at most one other task.
LEMMA OwnTaskStep ==
    ASSUME ServerInv, queue # <<>>, Head(queue).kind \in {"signal", "cancel"},
           NEW t \in ServeTask, t.kind \in {"stop", "signal"},
           queue' = Tail(queue) \/ queue' = Append(Tail(queue), t),
           posted' \in [hello : BOOLEAN, frames : Nat, stops : Nat],
           posted'.hello = posted.hello,
           UNCHANGED <<accepting, sessions, ses, hello, latest, stopped, early>>
    PROVE  /\ ServerInv' /\ StopKept
           /\ queue' = Append(Tail(queue), t) => Pending(queue', t.kind)
<1>. DEFINE q == Tail(queue)
<1>1. /\ q \in Seq(ServeTask) /\ InLine(q, ses, hello, early)
      /\ \A k \in {"hello", "stop"} : Pending(queue, k) => Pending(q, k)
  BY ServeFacts, LineTail
<1>. HIDE DEF q
<1>2. /\ Append(q, t) \in Seq(ServeTask) /\ InLine(Append(q, t), ses, hello, early)
      /\ Pending(Append(q, t), t.kind)
      /\ \A k : Pending(q, k) => Pending(Append(q, t), k)
  BY <1>1, LineAppend
<1>3. queue' = q \/ queue' = Append(q, t)
  BY DEF q
<1>4. /\ queue' \in Seq(ServeTask) /\ InLine(queue', ses, hello, early)
      /\ \A k \in {"hello", "stop"} : Pending(queue, k) => Pending(queue', k)
  BY <1>1, <1>2, <1>3
<1>5. ServerTypes'
  BY <1>4, ServeFacts DEF ServerTypes
<1>6. ServerInv'
  BY <1>4, <1>5, ServeFacts, Together
<1>. QED  BY <1>2, <1>4, <1>6 DEF StopKept, q

LEMMA MainStepKeeps ==
    ASSUME ServeInv, MainStep
    PROVE  ServeInv'
<1>1. ServerInv /\ ThreadInv
  BY DEF ServeInv
<1>2. CASE BindFails \/ Bind \/ Spawn
  <2>1. ServerInv'
    BY <1>1, <1>2, ServerSame DEF BindFails, Bind, Spawn
  <2>2. ThreadInv'
    BY <1>1, <1>2 DEF BindFails, Bind, Spawn, ThreadInv, CleanedUpBeforeReturn, serverVars
  <2>. QED  BY <2>1, <2>2 DEF ServeInv
<1>3. CASE PostHello
  <2>1. /\ queue' = Append(queue, HelloTask)
        /\ posted' = [posted EXCEPT !.hello = TRUE] /\ posted'.hello
        /\ UNCHANGED <<accepting, sessions, ses, hello, latest, stopped, early>>
        /\ main' = "spawn" /\ UNCHANGED signal
    BY <1>1, <1>3, ServeFacts DEF PostHello, SetHello
  <2>2. HelloTask \in ServeTask /\ HelloTask.kind = "hello"
    BY DEF HelloTask, ServeTask, Task
  <2>3. posted' \in [hello : BOOLEAN, frames : Nat, stops : Nat]
    BY <1>1, <2>1, ServeFacts
  <2>4. ServerInv' /\ \A k : Pending(queue, k) => Pending(queue', k)
    BY <1>1, <2>1, <2>2, <2>3, PostStep
  <2>5. ThreadInv'
    BY <1>1, <2>1, <2>4 DEF ThreadInv, CleanedUpBeforeReturn
  <2>. QED  BY <2>4, <2>5 DEF ServeInv
<1>4. CASE RunReturns
  <2>1. ServerInv'
    BY <1>1, <1>4, ServerSame DEF RunReturns
  <2>2. signal = "over" /\ queue = <<>>
    BY <1>1, <1>4 DEF RunReturns, NoWork, ThreadInv
  <2>3. stopped /\ sessions = {}
    BY <1>1, <2>2, ServeFacts DEF ThreadInv, Pending
  <2>4. \A c \in Connections : ~Busy(ses[c]) /\ ~ses[c].open
    BY <1>1, <1>4, ServeFacts DEF RunReturns, NoWork, Busy, Fine, Sound
  <2>5. ThreadInv'
    BY <1>4, <2>3, <2>4 DEF RunReturns, ThreadInv, CleanedUpBeforeReturn, serverVars
  <2>. QED  BY <2>1, <2>5 DEF ServeInv
<1>5. CASE Join
  <2>1. ServerInv'
    BY <1>1, <1>5, ServerSame DEF Join
  <2>2. ThreadInv'
    BY <1>1, <1>5 DEF Join, ThreadInv, CleanedUpBeforeReturn, serverVars
  <2>. QED  BY <2>1, <2>2 DEF ServeInv
<1>. QED  BY <1>2, <1>3, <1>4, <1>5 DEF MainStep

\* The sampler has not ended, so the exit code is not yet given.
LEMMA SamplerStepKeeps ==
    ASSUME ServeInv, SamplerStep
    PROVE  ServeInv'
<1>1. ServerInv /\ ThreadInv
  BY DEF ServeInv
<1>2. sampler # "done" /\ UNCHANGED <<main, signal, exitCode, early>>
  BY DEF SamplerStep, CheckStop, Sample, SampleIdle, SampleThrows, PostStop, PostCancel
<1>3. CASE CheckStop \/ SampleIdle \/ SampleThrows
  <2>1. UNCHANGED serverVars
    BY <1>3 DEF CheckStop, SampleIdle, SampleThrows
  <2>2. ServerInv'
    BY <1>1, <1>2, <2>1, ServerSame
  <2>3. ThreadInv'
    BY <1>1, <1>2, <2>1 DEF ThreadInv, CleanedUpBeforeReturn, serverVars
  <2>. QED  BY <2>2, <2>3 DEF ServeInv
<1>4. CASE Sample \/ PostStop \/ PostCancel
  <2>1. PICK t \in ServeTask :
           /\ t.kind \notin {"accept", "hello"} /\ queue' = Append(queue, t)
           /\ posted' \in [hello : BOOLEAN, frames : Nat, stops : Nat]
           /\ posted'.hello = posted.hello
           /\ UNCHANGED <<accepting, sessions, ses, hello, latest, stopped>>
    <3>1. posted \in [hello : BOOLEAN, frames : Nat, stops : Nat]
      BY <1>1, ServeFacts
    <3>2. CASE Sample
      <4>. DEFINE n == posted.frames + 1
      <4>1. n \in Nat \ {0}
        BY <3>1
      <4>2. /\ queue' = Append(queue, BroadcastTask(n))
            /\ posted' = [posted EXCEPT !.frames = n]
            /\ UNCHANGED <<accepting, sessions, ses, hello, latest, stopped>>
        BY <3>1, <3>2 DEF Sample, Broadcast
      <4>. HIDE DEF n
      <4>3. BroadcastTask(n) \in ServeTask /\ BroadcastTask(n).kind = "broadcast"
        BY <4>1 DEF BroadcastTask, ServeTask, Task
      <4>4. /\ posted' \in [hello : BOOLEAN, frames : Nat, stops : Nat]
            /\ posted'.hello = posted.hello
        BY <3>1, <4>1, <4>2
      <4>. QED  BY <4>2, <4>3, <4>4
    <3>3. CASE PostStop
      <4>. DEFINE n == posted.stops + 1
      <4>1. n \in Nat
        BY <3>1
      <4>2. /\ queue' = Append(queue, StopTask)
            /\ posted' = [posted EXCEPT !.stops = n]
            /\ UNCHANGED <<accepting, sessions, ses, hello, latest, stopped>>
        BY <3>1, <3>3 DEF PostStop, Stop
      <4>. HIDE DEF n
      <4>3. StopTask \in ServeTask /\ StopTask.kind = "stop"
        BY DEF StopTask, ServeTask, Task
      <4>4. /\ posted' \in [hello : BOOLEAN, frames : Nat, stops : Nat]
            /\ posted'.hello = posted.hello
        BY <3>1, <4>1, <4>2
      <4>. QED  BY <4>2, <4>3, <4>4
    <3>4. CASE PostCancel
      <4>1. CancelTask \in ServeTask /\ CancelTask.kind = "cancel"
        BY DEF CancelTask, ServeTask
      <4>. QED  BY <3>1, <3>4, <4>1 DEF PostCancel
    <3>. QED  BY <1>4, <3>2, <3>3, <3>4
  <2>2. ServerInv' /\ \A k : Pending(queue, k) => Pending(queue', k)
    BY <1>1, <1>2, <2>1, PostStep
  <2>3. ThreadInv'
    BY <1>1, <1>2, <2>1, <2>2 DEF ThreadInv, CleanedUpBeforeReturn
  <2>. QED  BY <2>2, <2>3 DEF ServeInv
<1>. QED  BY <1>3, <1>4 DEF SamplerStep

LEMMA SignalStepKeeps ==
    ASSUME ServeInv, CtrlC \/ HandleSignal \/ HandleCancel
    PROVE  ServeInv'
<1>1. ServerInv /\ ThreadInv
  BY DEF ServeInv
<1>2. /\ SignalTask \in ServeTask /\ SignalTask.kind = "signal"
      /\ StopTask \in ServeTask /\ StopTask.kind = "stop"
  BY DEF SignalTask, StopTask, ServeTask, Task
<1>3. posted \in [hello : BOOLEAN, frames : Nat, stops : Nat]
  BY <1>1, ServeFacts
<1>4. CASE CtrlC
  <2>1. /\ queue' = Append(queue, SignalTask) /\ signal' = "queued"
        /\ UNCHANGED <<accepting, sessions, ses, hello, latest, stopped, early, posted>>
        /\ UNCHANGED <<main, sampler, failed, exitCode>>
    BY <1>4 DEF CtrlC
  <2>2. ServerInv'
    BY <1>1, <1>2, <1>3, <2>1, PostStep
  <2>3. ThreadInv'
    BY <1>1, <2>1 DEF ThreadInv, CleanedUpBeforeReturn
  <2>. QED  BY <2>2, <2>3 DEF ServeInv
<1>5. CASE HandleSignal
  <2>. DEFINE n == posted.stops + 1
  <2>1. n \in Nat
    BY <1>3
  <2>2. /\ main = "run" /\ main' = main /\ signal' = "over"
        /\ queue # <<>> /\ Head(queue).kind = "signal"
        /\ queue' = Append(Tail(queue), StopTask)
        /\ posted' = [posted EXCEPT !.stops = n]
        /\ UNCHANGED <<accepting, sessions, ses, hello, latest, stopped, early>>
    BY <1>3, <1>5 DEF HandleSignal, Ready
  <2>. HIDE DEF n
  <2>3. /\ posted' \in [hello : BOOLEAN, frames : Nat, stops : Nat]
        /\ posted'.hello = posted.hello
    BY <1>3, <2>1, <2>2
  <2>4. ServerInv' /\ Pending(queue', "stop")
    BY <1>1, <1>2, <2>2, <2>3, OwnTaskStep
  <2>5. ThreadInv'
    BY <2>2, <2>4 DEF ThreadInv, CleanedUpBeforeReturn
  <2>. QED  BY <2>4, <2>5 DEF ServeInv
<1>6. CASE HandleCancel
  <2>1. /\ main = "run" /\ main' = main /\ signal' \in {signal, "queued"}
        /\ queue # <<>> /\ Head(queue).kind = "cancel"
        /\ queue' = Tail(queue) \/ queue' = Append(Tail(queue), SignalTask)
        /\ UNCHANGED <<accepting, sessions, ses, hello, latest, stopped, early, posted>>
    BY <1>6 DEF HandleCancel, Ready
  <2>2. ServerInv' /\ StopKept
    BY <1>1, <1>2, <1>3, <2>1, OwnTaskStep
  <2>3. ThreadInv'
    BY <1>1, <2>1, <2>2 DEF ThreadInv, CleanedUpBeforeReturn, StopKept
  <2>. QED  BY <2>2, <2>3 DEF ServeInv
<1>. QED  BY <1>4, <1>5, <1>6

LEMMA IoStepKeeps ==
    ASSUME ServeInv, IoStep
    PROVE  ServeInv'
<1>1. ServerInv /\ ThreadInv
  BY DEF ServeInv
<1>2. main = "run" /\ UNCHANGED <<main, signal, early>>
  BY DEF IoStep, appVars, threadVars
<1>3. ServerInv' /\ StopKept
  <2>1. CASE Handlers
    BY <1>1, <1>2, <2>1, HandlerStep
  <2>2. ASSUME NEW c \in Connections, Completion(c)
        PROVE  ServerInv' /\ StopKept
    <3>1. queue' = queue
      BY <2>2 DEF Completion, RequestFailed, RequestAnswered, RequestUpgrade,
             ReplyWritten, UpgradeFailed, UpgradeDone, ReadFailed, WriteDone,
             WriteError, CloseDone, SessionStep, RemoveSession
    <3>. QED  BY <1>1, <1>2, <2>2, <3>1, ServeCompletionStep DEF StopKept
  <2>. QED  BY <2>1, <2>2 DEF IoStep
<1>4. stopped => stopped'
  BY DEF IoStep, Handlers, HandleSetHello, HandleBroadcast, HandleStop, HandleAccept,
         HandleAcceptError, Completion, RequestFailed, RequestAnswered, RequestUpgrade,
         ReplyWritten, UpgradeFailed, UpgradeDone, ReadFailed, WriteDone,
         WriteError, CloseDone, SessionStep, RemoveSession
<1>5. ThreadInv'
  BY <1>1, <1>2, <1>3, <1>4 DEF ThreadInv, CleanedUpBeforeReturn, StopKept
<1>. QED  BY <1>3, <1>5 DEF ServeInv

LEMMA ClientStepKeeps ==
    ASSUME ServeInv, NEW c \in Connections, ClientConnects(c)
    PROVE  ServeInv'
<1>1. ServerInv /\ ThreadInv
  BY DEF ServeInv
<1>2. /\ main \in {"hello", "spawn", "run"} /\ UNCHANGED <<main, signal>>
      /\ Connect(c) /\ stopped' = stopped
      /\ early' = IF posted.hello THEN early ELSE early \cup {c}
  BY DEF ClientConnects, threadVars, Connect
<1>3. ServerInv' /\ (Pending(queue, "stop") => Pending(queue', "stop"))
  BY <1>1, <1>2, ServeConnectStep
<1>4. ThreadInv'
  BY <1>1, <1>2, <1>3 DEF ThreadInv, CleanedUpBeforeReturn
<1>. QED  BY <1>3, <1>4 DEF ServeInv

----------------------------------------------------------------------------
LEMMA ServeInitInv ==
    ASSUME ServeInit
    PROVE  ServeInv
<1>1. /\ queue = <<>> /\ sessions = {} /\ accepting = TRUE /\ hello = Vacant
      /\ latest = Vacant /\ stopped = FALSE /\ early = {}
      /\ posted = [hello |-> FALSE, frames |-> 0, stops |-> 0]
      /\ ses = [c \in Connections |-> NewSession]
      /\ main = "bind" /\ signal = "unarmed"
  BY DEF ServeInit, Init
<1>2. NewSession \in Session /\ Sound(NewSession) /\ Greeted(NewSession)
      /\ NewSession.stage = "away"
  <2>1. NewSession \in Session
    BY DEF NewSession, Session, Stage, Frame, Vacant, Hello
  <2>. QED  BY <2>1 DEF NewSession, Sound, Greeted
<1>3. ServerTypes
  <2>1. ses \in [Connections -> Session]
    BY <1>1, <1>2
  <2>2. queue \in Seq(ServeTask)
    BY <1>1
  <2>3. hello \in {Vacant, Hello} /\ latest \in Frame \ {Hello}
    BY <1>1 DEF Frame, Vacant, Hello
  <2>4. posted \in [hello : BOOLEAN, frames : Nat, stops : Nat]
    BY <1>1
  <2>. QED  BY <1>1, <2>1, <2>2, <2>3, <2>4 DEF ServerTypes
<1>4. InLine(queue, ses, hello, early)
  BY <1>1 DEF InLine
<1>5. ServerInv
  BY <1>1, <1>2, <1>3, <1>4 DEF ServerInv
<1>6. ThreadInv
  BY <1>1 DEF ThreadInv, CleanedUpBeforeReturn
<1>. QED  BY <1>5, <1>6 DEF ServeInv

LEMMA ServeNextInv ==
    ASSUME ServeInv, [ServeNext]_serveVars
    PROVE  ServeInv'
<1>1. CASE ServeNext /\ ~Terminated
  BY <1>1, MainStepKeeps, SamplerStepKeeps, SignalStepKeeps, IoStepKeeps, ClientStepKeeps
     DEF ServeNext
<1>2. CASE Terminated \/ UNCHANGED serveVars
  <2>1. UNCHANGED <<serverVars, early>> /\ UNCHANGED <<main, sampler, signal, failed, exitCode>>
    BY <1>2 DEF Terminated, serveVars, appVars, threadVars
  <2>2. ServerInv'
    BY <2>1, ServerSame DEF ServeInv
  <2>3. ThreadInv'
    BY <2>1 DEF ServeInv, ThreadInv, CleanedUpBeforeReturn, serverVars
  <2>. QED  BY <2>2, <2>3 DEF ServeInv
<1>. QED  BY <1>1, <1>2

LEMMA ServeInvariance == ServeSpec => []ServeInv
<1>. QED  BY ServeInitInv, ServeNextInv, PTL DEF ServeSpec

(***************************************************************************)
(* ServeApp.cpp:88-106 - whenever the signal comes, a sample fails or the  *)
(* samples run out, and with any number of clients in any state: run()     *)
(* returns only when every session is cleaned up, and the exit code tells  *)
(* a failed sample.                                                        *)
(***************************************************************************)
THEOREM OrderlyReturn == ServeSpec => []ReturnsOrderly
<1>1. ServeInv => ReturnsOrderly
  BY DEF ServeInv, ThreadInv, ReturnsOrderly
<1>. QED  BY <1>1, ServeInvariance, PTL

(***************************************************************************)
(* WebSocketServer.h:31 - a connection made after setHello was called      *)
(* never gets a snapshot before hello, though hello is only posted.        *)
(***************************************************************************)
THEOREM HelloComesFirst == ServeSpec => []HelloFirstOnceSet
<1>1. ServeInv => HelloFirstOnceSet
  <2>. SUFFICES ASSUME ServeInv, NEW c \in Connections \ early, ses[c].last > Hello
                PROVE  ses[c].greeted
    BY DEF HelloFirstOnceSet
  <2>1. ses[c] \in Session /\ Sound(ses[c]) /\ Greeted(ses[c])
    BY DEF ServeInv, ServerInv, ServerTypes
  <2>2. ses[c].last # Vacant
    BY DEF Vacant, Hello
  <2>. QED  BY <2>1, <2>2 DEF Sound, Greeted
<1>. QED  BY <1>1, ServeInvariance, PTL

----------------------------------------------------------------------------
(***************************************************************************)
(* runServe keeps to the server's interface.  The server's queue is the    *)
(* application's without the tasks of the application itself: t holds what *)
(* is left of q after each task.                                           *)
(***************************************************************************)
With(s, x) == IF IsServerTask(x) THEN Append(s, x) ELSE s

IsTaken(t, q) == t = [n \in 0..Len(q) |-> IF n = 0 THEN <<>> ELSE With(t[n - 1], q[n])]

Takes(t, q) == t[0] = <<>> /\ \A n \in 1..Len(q) : t[n] = With(t[n - 1], q[n])

LEMMA TakenStep ==
    ASSUME NEW q, Len(q) \in Nat, NEW t, IsTaken(t, q)
    PROVE  Takes(t, q)
<1>. DEFINE u == [n \in 0..Len(q) |-> IF n = 0 THEN <<>> ELSE With(t[n - 1], q[n])]
<1>1. t = u
  BY DEF IsTaken
<1>2. u[0] = <<>> /\ \A n \in 1..Len(q) : u[n] = With(t[n - 1], q[n])
  OBVIOUS
<1>. HIDE DEF u
<1>3. t[0] = u[0] /\ \A n \in 1..Len(q) : t[n] = u[n]
  BY <1>1, Zenon
<1>. QED  BY <1>2, <1>3 DEF Takes

LEMMA TakenExists ==
    ASSUME NEW q, Len(q) \in Nat
    PROVE  \E t : IsTaken(t, q)
<1>. DEFINE D == 0..Len(q)
            Upto(t, n) == /\ t = [k \in D |-> t[k]]
                          /\ t[0] = <<>>
                          /\ \A k \in 1..n : t[k] = With(t[k - 1], q[k])
            Has(n) == \E t : Upto(t, n)
            T == {n \in D : ~Has(n)}
<1>1. Has(0)
  <2>1. Upto([k \in D |-> <<>>], 0)
    OBVIOUS
  <2>. QED  BY <2>1
<1>2. ASSUME NEW n \in Nat, n + 1 \in D, Has(n)
      PROVE  Has(n + 1)
  <2>1. PICK t : Upto(t, n)
    BY <1>2
  <2>. DEFINE u == [k \in D |-> IF k = n + 1 THEN With(t[n], q[n + 1]) ELSE t[k]]
  <2>2. u[n + 1] = With(t[n], q[n + 1]) /\ \A k \in 0..n : u[k] = t[k]
    BY <1>2
  <2>3. u = [k \in D |-> u[k]]
    OBVIOUS
  <2>. HIDE DEF u
  <2>4. Upto(u, n + 1)
    <3>1. u[0] = <<>>
      <4>1. t[0] = <<>>
        BY <2>1, Zenon
      <4>2. 0 \in 0..n
        OBVIOUS
      <4>. QED  BY <2>2, <4>1, <4>2
    <3>2. ASSUME NEW k \in 1..(n + 1) PROVE u[k] = With(u[k - 1], q[k])
      <4>1. k \in Nat /\ k - 1 \in 0..n
        OBVIOUS
      <4>2. u[k - 1] = t[k - 1]
        BY <2>2, <4>1
      <4>3. CASE k = n + 1
        <5>1. k - 1 = n
          BY <4>3
        <5>. QED  BY <2>2, <4>2, <4>3, <5>1
      <4>4. CASE k # n + 1
        <5>1. k \in 1..n /\ k \in 0..n
          BY <4>1, <4>4
        <5>2. t[k] = With(t[k - 1], q[k])
          BY <2>1, <5>1
        <5>. QED  BY <2>2, <4>2, <5>1, <5>2
      <4>. QED  BY <4>3, <4>4
    <3>. QED  BY <2>3, <3>1, <3>2
  <2>. QED  BY <2>4
<1>. HIDE DEF Has
<1>3. Has(Len(q))
  <2>1. SUFFICES ASSUME T # {} PROVE FALSE
    OBVIOUS
  <2>2. PICK n \in T : \A m \in T : n <= m
    <3>1. T \in SUBSET Nat
      OBVIOUS
    <3>. HIDE DEF T
    <3>. QED  BY <2>1, <3>1, LeastNat
  <2>3. n \in Nat /\ n <= Len(q) /\ ~Has(n) /\ n # 0
    BY <1>1, <2>2
  <2>4. n - 1 \in D /\ n - 1 \in Nat /\ n - 1 \notin T
    BY <2>2, <2>3
  <2>5. Has(n - 1) /\ (n - 1) + 1 = n
    BY <2>3, <2>4
  <2>6. (n - 1) + 1 \in D
    BY <2>3
  <2>7. Has((n - 1) + 1)
    BY <1>2, <2>4, <2>5, <2>6
  <2>. QED  BY <2>3, <2>5, <2>7
<1>4. PICK t : Upto(t, Len(q))
  BY <1>3 DEF Has
<1>5. \A k \in D : t[k] = IF k = 0 THEN <<>> ELSE With(t[k - 1], q[k])
  <2>1. t[0] = <<>> /\ \A k \in 1..Len(q) : t[k] = With(t[k - 1], q[k])
    BY <1>4, Zenon
  <2>2. \A k \in D : k = 0 \/ k \in 1..Len(q)
    OBVIOUS
  <2>. QED  BY <2>1, <2>2
<1>6. IsTaken(t, q)
  <2>1. [k \in D |-> t[k]]
          = [k \in D |-> IF k = 0 THEN <<>> ELSE With(t[k - 1], q[k])]
    BY <1>5
  <2>2. t = [k \in D |-> t[k]]
    BY <1>4, Zenon
  <2>3. t = [k \in D |-> IF k = 0 THEN <<>> ELSE With(t[k - 1], q[k])]
    BY <2>1, <2>2, Zenon
  <2>. QED  BY <2>3 DEF IsTaken
<1>. QED  BY <1>6

LEMMA TasksAre ==
    ASSUME NEW q, Len(q) \in Nat
    PROVE  \E t : Takes(t, q) /\ ServerTasks(q) = t[Len(q)]
<1>. DEFINE taken[n \in 0..Len(q)] ==
              IF n = 0 THEN <<>>
              ELSE IF IsServerTask(q[n]) THEN Append(taken[n - 1], q[n]) ELSE taken[n - 1]
<1>1. ServerTasks(q) = taken[Len(q)]
  BY DEF ServerTasks
<1>2. taken = CHOOSE t : IsTaken(t, q)
  BY DEF IsTaken, With
<1>. HIDE DEF taken
<1>3. IsTaken(taken, q)
  BY <1>2, TakenExists
<1>. QED  BY <1>1, <1>3, TakenStep

\* What is left of a queue of tasks, and of the queue with one more.
LEMMA TakenIn ==
    ASSUME NEW S, NEW q \in Seq(S), NEW t, Takes(t, q)
    PROVE  \A n \in 0..Len(q) : t[n] \in Seq(S)
<1>. DEFINE T == {n \in 0..Len(q) : t[n] \notin Seq(S)}
<1>1. SUFFICES ASSUME T # {} PROVE FALSE
  OBVIOUS
<1>2. PICK n \in T : \A m \in T : n <= m
  <2>1. T \in SUBSET Nat
    OBVIOUS
  <2>. HIDE DEF T
  <2>. QED  BY <1>1, <2>1, LeastNat
<1>3. t[0] \in Seq(S)
  BY DEF Takes
<1>4. n \in 1..Len(q) /\ n - 1 \in 0..Len(q) /\ n - 1 \notin T
  <2>1. n \in 0..Len(q) /\ n # 0 /\ Len(q) \in Nat
    BY <1>2, <1>3
  <2>2. n - 1 \in 0..Len(q) /\ ~(n <= n - 1)
    BY <2>1
  <2>. QED  BY <1>2, <2>1, <2>2
<1>5. t[n] = With(t[n - 1], q[n]) /\ t[n - 1] \in Seq(S) /\ q[n] \in S
  BY <1>4 DEF Takes
<1>6. t[n] \in Seq(S)
  BY <1>5 DEF With
<1>. QED  BY <1>2, <1>6

LEMMA TakenSame ==
    ASSUME NEW S, NEW q \in Seq(S), NEW x \in S, NEW t, Takes(t, q),
           NEW u, Takes(u, Append(q, x))
    PROVE  \A n \in 0..Len(q) : t[n] = u[n]
<1>. DEFINE T == {n \in 0..Len(q) : t[n] # u[n]}
            p == Append(q, x)
<1>1. SUFFICES ASSUME T # {} PROVE FALSE
  OBVIOUS
<1>2. PICK n \in T : \A m \in T : n <= m
  <2>1. T \in SUBSET Nat
    OBVIOUS
  <2>. HIDE DEF T
  <2>. QED  BY <1>1, <2>1, LeastNat
<1>3. Len(p) = Len(q) + 1 /\ \A k \in 1..Len(q) : p[k] = q[k]
  OBVIOUS
<1>. HIDE DEF p
<1>4. t[0] = u[0]
  BY DEF Takes, p
<1>5. n \in 1..Len(q) /\ n \in 1..Len(p) /\ n - 1 \in 0..Len(q) /\ n - 1 \notin T
  BY <1>2, <1>3, <1>4
<1>6. t[n] = With(t[n - 1], q[n]) /\ u[n] = With(u[n - 1], p[n])
  BY <1>5 DEF Takes, p
<1>7. t[n - 1] = u[n - 1] /\ p[n] = q[n]
  BY <1>3, <1>5
<1>. QED  BY <1>2, <1>6, <1>7

LEMMA TakenRest ==
    ASSUME NEW S, NEW q \in Seq(S), q # <<>>, NEW t, Takes(t, q),
           NEW u, Takes(u, Tail(q))
    PROVE  \A n \in 0..Len(Tail(q)) :
             t[n + 1] = IF IsServerTask(Head(q)) THEN <<Head(q)>> \o u[n] ELSE u[n]
<1>. DEFINE p == Tail(q)
            h == Head(q)
            Shifted(n) == t[n + 1] = IF IsServerTask(h) THEN <<h>> \o u[n] ELSE u[n]
            T == {n \in 0..Len(p) : ~Shifted(n)}
<1>1. SUFFICES ASSUME T # {} PROVE FALSE
  OBVIOUS
<1>2. PICK n \in T : \A m \in T : n <= m
  <2>1. T \in SUBSET Nat
    OBVIOUS
  <2>. HIDE DEF T
  <2>. QED  BY <1>1, <2>1, LeastNat
<1>3. /\ p \in Seq(S) /\ h \in S /\ h = q[1]
      /\ Len(p) + 1 = Len(q) /\ \A k \in 1..Len(p) : p[k] = q[k + 1]
  OBVIOUS
<1>4. \A k \in 0..Len(p) : u[k] \in Seq(S)
  BY <1>3, TakenIn
<1>. HIDE DEF p, h
<1>5. Shifted(0)
  <2>1. t[0] = <<>> /\ u[0] = <<>> /\ t[1] = With(t[0], h)
    <3>1. 1 \in 1..Len(q) /\ 1 - 1 = 0
      BY <1>3
    <3>. QED  BY <1>3, <3>1 DEF Takes, p
  <2>2. With(<<>>, h) = IF IsServerTask(h) THEN <<h>> \o <<>> ELSE <<>>
    BY <1>3 DEF With
  <2>. QED  BY <2>1, <2>2
<1>6. /\ n \in 1..Len(p) /\ n - 1 \in 0..Len(p) /\ n - 1 \notin T
      /\ n + 1 \in 1..Len(q) /\ (n + 1) - 1 = n /\ (n - 1) + 1 = n
  BY <1>2, <1>3, <1>5
<1>7. Shifted(n - 1)
  BY <1>6
<1>8. t[n + 1] = With(t[n], q[n + 1]) /\ u[n] = With(u[n - 1], p[n])
  BY <1>6 DEF Takes, p
<1>9. p[n] = q[n + 1] /\ p[n] \in S /\ u[n - 1] \in Seq(S)
  BY <1>3, <1>4, <1>6
<1>10. t[n] = IF IsServerTask(h) THEN <<h>> \o u[n - 1] ELSE u[n - 1]
  BY <1>6, <1>7
<1>11. With(<<h>> \o u[n - 1], p[n]) = <<h>> \o With(u[n - 1], p[n])
  BY <1>3, <1>9 DEF With
<1>12. Shifted(n)
  BY <1>8, <1>9, <1>10, <1>11
<1>. QED  BY <1>2, <1>12

\* No task, a task posted and a task taken, seen by the server.
LEMMA TasksNone == ServerTasks(<<>>) = <<>>
<1>1. Len(<<>>) = 0 /\ Len(<<>>) \in Nat
  OBVIOUS
<1>2. PICK t : Takes(t, <<>>) /\ ServerTasks(<<>>) = t[Len(<<>>)]
  BY <1>1, TasksAre
<1>. QED  BY <1>1, <1>2 DEF Takes

LEMMA TasksPosted ==
    ASSUME NEW S, NEW q \in Seq(S), NEW x \in S
    PROVE  /\ ServerTasks(q) \in Seq(S)
           /\ ServerTasks(Append(q, x)) = With(ServerTasks(q), x)
<1>. DEFINE p == Append(q, x)
<1>1. PICK t : Takes(t, q) /\ ServerTasks(q) = t[Len(q)]
  <2>1. Len(q) \in Nat
    OBVIOUS
  <2>. QED  BY <2>1, TasksAre
<1>2. Len(p) = Len(q) + 1 /\ p[Len(p)] = x /\ Len(q) \in Nat
  OBVIOUS
<1>3. PICK u : Takes(u, p) /\ ServerTasks(p) = u[Len(p)]
  <2>1. Len(p) \in Nat
    BY <1>2
  <2>. QED  BY <2>1, TasksAre, Zenon
<1>4. t[Len(q)] = u[Len(q)] /\ t[Len(q)] \in Seq(S)
  BY <1>1, <1>2, <1>3, TakenSame, TakenIn
<1>. HIDE DEF p
<1>5. u[Len(p)] = With(u[Len(q)], p[Len(p)])
  <2>1. Len(p) \in 1..Len(p) /\ Len(p) - 1 = Len(q)
    BY <1>2
  <2>. QED  BY <1>3, <2>1 DEF Takes
<1>6. ServerTasks(p) = With(ServerTasks(q), x)
  BY <1>1, <1>2, <1>3, <1>4, <1>5
<1>. QED  BY <1>1, <1>4, <1>6 DEF p

LEMMA TasksTaken ==
    ASSUME NEW S, NEW q \in Seq(S), q # <<>>
    PROVE  IF IsServerTask(Head(q))
           THEN /\ ServerTasks(q) # <<>> /\ Head(ServerTasks(q)) = Head(q)
                /\ Tail(ServerTasks(q)) = ServerTasks(Tail(q))
           ELSE ServerTasks(Tail(q)) = ServerTasks(q)
<1>. DEFINE p == Tail(q)
            h == Head(q)
<1>1. /\ p \in Seq(S) /\ h \in S /\ Len(p) \in Nat /\ Len(q) \in Nat
      /\ Len(p) + 1 = Len(q)
  OBVIOUS
<1>2. PICK t : Takes(t, q) /\ ServerTasks(q) = t[Len(q)]
  BY <1>1, TasksAre
<1>3. PICK u : Takes(u, p) /\ ServerTasks(p) = u[Len(p)]
  BY <1>1, TasksAre
<1>4. /\ t[Len(p) + 1] = IF IsServerTask(h) THEN <<h>> \o u[Len(p)] ELSE u[Len(p)]
      /\ u[Len(p)] \in Seq(S)
  <2>1. Len(p) \in 0..Len(p)
    BY <1>1
  <2>. QED  BY <1>1, <1>2, <1>3, <2>1, TakenRest, TakenIn
<1>. HIDE DEF p, h
<1>5. /\ ServerTasks(p) \in Seq(S)
      /\ ServerTasks(q) = IF IsServerTask(h) THEN <<h>> \o ServerTasks(p) ELSE ServerTasks(p)
  BY <1>1, <1>2, <1>3, <1>4
<1>6. \A s \in Seq(S) : <<h>> \o s # <<>> /\ Head(<<h>> \o s) = h /\ Tail(<<h>> \o s) = s
  BY <1>1
<1>7. IF IsServerTask(h)
      THEN /\ ServerTasks(q) # <<>> /\ Head(ServerTasks(q)) = h
           /\ Tail(ServerTasks(q)) = ServerTasks(p)
      ELSE ServerTasks(p) = ServerTasks(q)
  BY <1>5, <1>6
<1>. QED  BY <1>7 DEF p, h

(***************************************************************************)
(* stop() is called twice at most: by the sampler at its end, and by the   *)
(* handler of the signal, whose only task is in the queue q while the wait *)
(* s is over but not handled.                                              *)
(***************************************************************************)
Waits(q, s) ==
    /\ \A i \in 1..Len(q) : q[i].kind = "signal" => s = "queued"
    /\ \A i, j \in 1..Len(q) : i < j => ~(q[i].kind = "signal" /\ q[j].kind = "signal")

StopsInv ==
    /\ Waits(queue, signal)
    /\ main \in {"bind", "hello", "spawn"} => signal = "unarmed" /\ sampler = "unborn"
    /\ posted.stops = (IF sampler \in {"cancel", "done"} THEN 1 ELSE 0)
                        + (IF signal = "over" THEN 1 ELSE 0)

LEMMA WaitsPosted ==
    ASSUME NEW q \in Seq(ServeTask), NEW s, Waits(q, s), NEW t \in ServeTask
    PROVE  /\ t.kind # "signal" => Waits(Append(q, t), s)
           /\ s # "queued" => Waits(Append(q, t), "queued")
<1>. DEFINE p == Append(q, t)
<1>1. /\ Len(p) = Len(q) + 1 /\ p[Len(p)] = t /\ Len(q) \in Nat
      /\ \A i \in 1..Len(q) : p[i] = q[i]
      /\ \A i \in 1..Len(p) : i = Len(p) \/ i \in 1..Len(q)
  OBVIOUS
<1>. HIDE DEF p
<1>2. ASSUME t.kind # "signal" PROVE Waits(p, s)
  BY <1>1, <1>2 DEF Waits
<1>3. ASSUME s # "queued" PROVE Waits(p, "queued")
  BY <1>1, <1>3 DEF Waits
<1>. QED  BY <1>2, <1>3 DEF p

LEMMA WaitsTaken ==
    ASSUME NEW q \in Seq(ServeTask), q # <<>>, NEW s, Waits(q, s)
    PROVE  /\ Waits(Tail(q), s)
           /\ Head(q).kind = "signal" => s = "queued" /\ \A z : Waits(Tail(q), z)
<1>. DEFINE p == Tail(q)
<1>1. /\ Len(p) + 1 = Len(q) /\ Len(p) \in Nat /\ q[1] = Head(q)
      /\ \A i \in 1..Len(p) : p[i] = q[i + 1] /\ i + 1 \in 1..Len(q)
      /\ 1 \in 1..Len(q)
  OBVIOUS
<1>. HIDE DEF p
<1>2. Waits(p, s)
  <2>1. ASSUME NEW i \in 1..Len(p), p[i].kind = "signal" PROVE s = "queued"
    BY <1>1, <2>1 DEF Waits
  <2>2. ASSUME NEW i \in 1..Len(p), NEW j \in 1..Len(p), i < j
        PROVE  ~(p[i].kind = "signal" /\ p[j].kind = "signal")
    <3>1. i + 1 < j + 1
      BY <2>2
    <3>. QED  BY <1>1, <3>1 DEF Waits
  <2>. QED  BY <2>1, <2>2 DEF Waits
<1>3. ASSUME q[1].kind = "signal", NEW z PROVE s = "queued" /\ Waits(p, z)
  <2>1. s = "queued"
    BY <1>1, <1>3 DEF Waits
  <2>2. \A i \in 1..Len(p) : p[i].kind # "signal"
    <3>. SUFFICES ASSUME NEW i \in 1..Len(p) PROVE p[i].kind # "signal"
      OBVIOUS
    <3>1. 1 < i + 1
      BY <1>1
    <3>. QED  BY <1>1, <1>3, <3>1 DEF Waits
  <2>. QED  BY <2>1, <2>2 DEF Waits
<1>. QED  BY <1>1, <1>2, <1>3 DEF p

LEMMA StopsIoStep ==
    ASSUME ServeInv, StopsInv, IoStep
    PROVE  StopsInv'
<1>1. UNCHANGED <<main, sampler, signal, posted>>
  BY DEF IoStep, appVars, threadVars, Handlers, HandleSetHello, HandleBroadcast, HandleStop,
         HandleAccept, HandleAcceptError, Completion, RequestFailed, RequestAnswered,
         RequestUpgrade, ReplyWritten, UpgradeFailed, UpgradeDone, ReadFailed, WriteDone,
         WriteError, CloseDone, SessionStep, RemoveSession
<1>2. queue \in Seq(ServeTask)
  BY ServeFacts DEF ServeInv
<1>3. \/ queue' = queue
      \/ /\ queue # <<>>
         /\ \/ queue' = Tail(queue)
            \/ \E b \in Connections : queue' = Append(Tail(queue), AcceptTask(b))
  BY DEF IoStep, Handlers, HandleSetHello, HandleBroadcast, HandleStop,
         HandleAccept, HandleAcceptError, DoAccept, Ready, Completion, RequestFailed,
         RequestAnswered, RequestUpgrade, ReplyWritten, UpgradeFailed, UpgradeDone,
         ReadFailed, WriteDone, WriteError, CloseDone, SessionStep, RemoveSession
<1>4. \A b \in Connections : AcceptTask(b) \in ServeTask /\ AcceptTask(b).kind # "signal"
  BY DEF AcceptTask, ServeTask, Task
<1>5. queue # <<>> => Tail(queue) \in Seq(ServeTask) /\ Waits(Tail(queue), signal)
  BY <1>2, WaitsTaken DEF StopsInv
<1>6. Waits(queue', signal)
  BY <1>2, <1>3, <1>4, <1>5, WaitsPosted DEF StopsInv
<1>. QED  BY <1>1, <1>6 DEF StopsInv

LEMMA StopsStep ==
    ASSUME ServeInv, StopsInv, [ServeNext]_serveVars
    PROVE  StopsInv'
<1>1. /\ queue \in Seq(ServeTask) /\ Waits(queue, signal)
      /\ posted \in [hello : BOOLEAN, frames : Nat, stops : Nat]
  BY ServeFacts DEF ServeInv, StopsInv
<1>2. /\ HelloTask \in ServeTask /\ StopTask \in ServeTask /\ CancelTask \in ServeTask
      /\ SignalTask \in ServeTask /\ HelloTask.kind = "hello" /\ StopTask.kind = "stop"
      /\ CancelTask.kind = "cancel"
      /\ \A n \in Nat : BroadcastTask(n + 1) \in ServeTask
                        /\ BroadcastTask(n + 1).kind = "broadcast"
      /\ \A c \in Connections : AcceptTask(c) \in ServeTask /\ AcceptTask(c).kind = "accept"
  BY DEF HelloTask, StopTask, CancelTask, SignalTask, BroadcastTask, AcceptTask,
         ServeTask, Task
<1>3. CASE BindFails \/ Bind \/ Spawn \/ RunReturns \/ Join \/ CheckStop \/ SampleIdle
             \/ SampleThrows \/ Terminated \/ UNCHANGED serveVars
  <2>1. UNCHANGED <<queue, posted>>
    BY <1>3 DEF BindFails, Bind, Spawn, RunReturns, Join, CheckStop, SampleIdle,
                SampleThrows, Terminated, serveVars, serverVars
  <2>2. /\ main' \in {"bind", "hello", "spawn"} => signal' = "unarmed" /\ sampler' = "unborn"
        /\ signal' = signal \/ (signal = "unarmed" /\ signal' = "armed")
        /\ sampler' = sampler \/ {sampler, sampler'} \cap {"cancel", "done"} = {}
    <3>1. CASE BindFails \/ Bind \/ Spawn \/ RunReturns \/ Join
      BY <3>1 DEF BindFails, Bind, Spawn, RunReturns, Join, StopsInv
    <3>2. CASE CheckStop \/ SampleIdle \/ SampleThrows
      BY <3>2 DEF CheckStop, SampleIdle, SampleThrows, StopsInv
    <3>3. CASE Terminated \/ UNCHANGED serveVars
      <4>1. UNCHANGED <<main, signal, sampler>>
        BY <3>3 DEF Terminated, serveVars, appVars, threadVars
      <4>. QED  BY <4>1 DEF StopsInv
    <3>. QED  BY <1>3, <3>1, <3>2, <3>3
  <2>3. Waits(queue', signal')
    BY <1>1, <2>1, <2>2 DEF Waits
  <2>. QED  BY <2>1, <2>2, <2>3 DEF StopsInv
<1>4. CASE PostHello
  <2>1. /\ queue' = Append(queue, HelloTask) /\ main' = "spawn"
        /\ posted'.stops = posted.stops /\ UNCHANGED <<sampler, signal>>
    BY <1>1, <1>4 DEF PostHello, SetHello
  <2>2. main = "hello"
    BY <1>4 DEF PostHello
  <2>. QED  BY <1>1, <1>2, <2>1, <2>2, WaitsPosted DEF StopsInv
<1>5. CASE Sample
  <2>1. /\ queue' = Append(queue, BroadcastTask(posted.frames + 1)) /\ posted.frames \in Nat
        /\ posted'.stops = posted.stops /\ UNCHANGED <<main, signal>>
        /\ sampler = "sample" /\ sampler' \in {"stop", "check"}
    BY <1>1, <1>5 DEF Sample, Broadcast
  <2>2. Waits(queue', signal')
    BY <1>1, <1>2, <2>1, WaitsPosted
  <2>. QED  BY <2>1, <2>2 DEF StopsInv
<1>6. CASE PostStop
  <2>1. /\ queue' = Append(queue, StopTask) /\ posted'.stops = posted.stops + 1
        /\ UNCHANGED <<main, signal>> /\ sampler = "stop" /\ sampler' = "cancel"
    BY <1>1, <1>6 DEF PostStop, Stop
  <2>2. Waits(queue', signal')
    BY <1>1, <1>2, <2>1, WaitsPosted
  <2>. QED  BY <2>1, <2>2 DEF StopsInv
<1>7. CASE PostCancel
  <2>1. /\ queue' = Append(queue, CancelTask) /\ UNCHANGED <<main, signal, posted>>
        /\ sampler = "cancel" /\ sampler' = "done"
    BY <1>7 DEF PostCancel
  <2>2. Waits(queue', signal')
    BY <1>1, <1>2, <2>1, WaitsPosted
  <2>. QED  BY <2>1, <2>2 DEF StopsInv
<1>8. CASE CtrlC
  <2>1. /\ queue' = Append(queue, SignalTask) /\ UNCHANGED <<main, sampler, posted>>
        /\ signal = "armed" /\ signal' = "queued"
    BY <1>8 DEF CtrlC
  <2>2. Waits(queue', signal')
    BY <1>1, <1>2, <2>1, WaitsPosted
  <2>. QED  BY <2>1, <2>2 DEF StopsInv
<1>9. CASE HandleSignal
  <2>1. /\ queue # <<>> /\ Head(queue).kind = "signal" /\ UNCHANGED <<main, sampler>>
        /\ main = "run" /\ signal' = "over" /\ queue' = Append(Tail(queue), StopTask)
        /\ posted'.stops = posted.stops + 1
    BY <1>1, <1>9 DEF HandleSignal, Ready
  <2>2. /\ Tail(queue) \in Seq(ServeTask) /\ signal = "queued"
        /\ Waits(Tail(queue), "over")
    BY <1>1, <2>1, WaitsTaken
  <2>3. Waits(queue', signal')
    BY <1>2, <2>1, <2>2, WaitsPosted
  <2>. QED  BY <2>1, <2>2, <2>3 DEF StopsInv
<1>10. CASE HandleCancel
  <2>1. /\ queue # <<>> /\ UNCHANGED <<main, sampler, posted>> /\ main = "run"
        /\ \/ signal = "armed" /\ signal' = "queued" /\ queue' = Append(Tail(queue), SignalTask)
           \/ signal' = signal /\ queue' = Tail(queue)
    BY <1>10 DEF HandleCancel, Ready
  <2>2. Tail(queue) \in Seq(ServeTask) /\ Waits(Tail(queue), signal)
    BY <1>1, <2>1, WaitsTaken
  <2>3. Waits(queue', signal')
    BY <1>2, <2>1, <2>2, WaitsPosted
  <2>. QED  BY <2>1, <2>3 DEF StopsInv
<1>11. CASE IoStep
  BY <1>11, StopsIoStep
<1>12. ASSUME NEW c \in Connections, ClientConnects(c) PROVE StopsInv'
  <2>1. /\ queue' = queue \/ queue' = Append(queue, AcceptTask(c))
        /\ UNCHANGED <<main, sampler, signal, posted>>
    BY <1>12 DEF ClientConnects, Connect, threadVars
  <2>2. Waits(queue', signal')
    BY <1>1, <1>2, <2>1, WaitsPosted
  <2>. QED  BY <2>1, <2>2 DEF StopsInv
<1>. QED  BY <1>3, <1>4, <1>5, <1>6, <1>7, <1>8, <1>9, <1>10, <1>11, <1>12
          DEF ServeNext, MainStep, SamplerStep

\* What the server is made of does not depend on its queue.
LEMMA SameServer ==
    /\ Server!HelloTask = HelloTask /\ Server!StopTask = StopTask
    /\ Server!NewSession = NewSession /\ Server!Vacant = Vacant /\ Server!Hello = Hello
    /\ \A x : Server!AcceptTask(x) = AcceptTask(x) /\ Server!BroadcastTask(x) = BroadcastTask(x)
    /\ \A r, m : Server!Send(r, m) = Send(r, m)
    /\ \A r : Server!Close(r) = Close(r) /\ Server!Dropped(r) = Dropped(r)
    /\ \A r, g, n : Server!Run(r, g, n) = Run(r, g, n)
    /\ \A r : Server!Opened(r) = Opened(r) /\ Server!Written(r) = Written(r)
    /\ \A r : Server!WriteFailed(r) = WriteFailed(r)
<1>1. /\ Server!HelloTask = HelloTask /\ Server!StopTask = StopTask
      /\ Server!Vacant = Vacant /\ Server!Hello = Hello
  BY DEF Server!HelloTask, HelloTask, Server!StopTask, StopTask, Server!Vacant, Vacant,
         Server!Hello, Hello
<1>2. Server!NewSession = NewSession
  BY DEF Server!NewSession, NewSession, Server!Vacant, Vacant
<1>3. \A x : Server!AcceptTask(x) = AcceptTask(x) /\ Server!BroadcastTask(x) = BroadcastTask(x)
  BY DEF Server!AcceptTask, AcceptTask, Server!BroadcastTask, BroadcastTask
<1>4. \A r, m : Server!DoWrite(r, m) = DoWrite(r, m)
  BY DEF Server!DoWrite, DoWrite
<1>5. \A r : Server!DoClose(r) = DoClose(r)
  BY DEF Server!DoClose, DoClose
<1>6. \A r : Server!Sent(r) = Sent(r)
  BY <1>1 DEF Server!Sent, Sent
<1>7. \A r, m : Server!Send(r, m) = Send(r, m)
  BY <1>4 DEF Server!Send, Send
<1>8. \A r : Server!Close(r) = Close(r)
  BY <1>1, <1>5 DEF Server!Close, Close
<1>9. \A r : Server!Dropped(r) = Dropped(r)
  BY DEF Server!Dropped, Dropped
<1>10. \A r, g, n : Server!Run(r, g, n) = Run(r, g, n)
  BY DEF Server!Run, Run
<1>11. \A r : Server!Opened(r) = Opened(r)
  BY <1>1, <1>4 DEF Server!Opened, Opened
<1>12. \A r : Server!Written(r) = Written(r)
  BY <1>1, <1>4, <1>5, <1>6 DEF Server!Written, Written
<1>13. \A r : Server!WriteFailed(r) = WriteFailed(r)
  BY <1>1 DEF Server!WriteFailed, WriteFailed
<1>. QED  BY <1>1, <1>2, <1>3, <1>7, <1>8, <1>9, <1>10, <1>11, <1>12, <1>13

\* The completions of the operations of a session.
LEMMA CompletionServed ==
    ASSUME NEW c \in Connections, Completion(c), queue' = queue
    PROVE  Server!Completion(c)
<1>1. CASE RequestFailed(c) \/ ReplyWritten(c) \/ UpgradeFailed(c) \/ ReadFailed(c)
             \/ WriteError(c)
  BY <1>1, SameServer
     DEF RequestFailed, ReplyWritten, UpgradeFailed, ReadFailed, WriteError, RemoveSession,
         Server!RequestFailed, Server!ReplyWritten, Server!UpgradeFailed, Server!ReadFailed,
         Server!WriteError, Server!RemoveSession, Server!Completion
<1>2. CASE RequestAnswered(c) \/ RequestUpgrade(c) \/ UpgradeDone(c) \/ WriteDone(c)
             \/ CloseDone(c)
  BY <1>2, SameServer
     DEF RequestAnswered, RequestUpgrade, UpgradeDone, WriteDone, CloseDone, SessionStep,
         Server!RequestAnswered, Server!RequestUpgrade, Server!UpgradeDone, Server!WriteDone,
         Server!CloseDone, Server!SessionStep, Server!Completion
<1>. QED  BY <1>1, <1>2 DEF Completion

\* A task at the head of the queue is the next one of the server.
LEMMA HeadServed ==
    ASSUME queue \in Seq(ServeTask), NEW k \in {"hello", "broadcast", "stop", "accept"},
           Ready(k)
    PROVE  /\ Server!Ready(k) /\ queue # <<>>
           /\ Tail(queue) \in Seq(ServeTask)
           /\ Head(ServerTasks(queue)) = Head(queue)
           /\ Tail(ServerTasks(queue)) = ServerTasks(Tail(queue))
<1>1. IsServerTask(Head(queue)) /\ queue # <<>>
  BY DEF Ready, IsServerTask
<1>2. /\ ServerTasks(queue) # <<>> /\ Head(ServerTasks(queue)) = Head(queue)
      /\ Tail(ServerTasks(queue)) = ServerTasks(Tail(queue))
  BY <1>1, TasksTaken
<1>. QED  BY <1>1, <1>2 DEF Ready, Server!Ready

LEMMA AcceptServed ==
    ASSUME NEW f, NEW q \in Seq(ServeTask), DoAccept(f, q)
    PROVE  Server!DoAccept(f, ServerTasks(q))
<1>. DEFINE waiting == {b \in Connections : f[b].stage = "backlog"}
<1>1. CASE /\ waiting = {} /\ accepting' = TRUE /\ queue' = q /\ ses' = f
  BY <1>1 DEF Server!DoAccept
<1>2. ASSUME NEW b \in waiting, queue' = Append(q, AcceptTask(b)),
             ses' = [f EXCEPT ![b].stage = "queued"], UNCHANGED accepting
      PROVE  Server!DoAccept(f, ServerTasks(q))
  <2>1. AcceptTask(b) \in ServeTask /\ IsServerTask(AcceptTask(b))
    BY DEF AcceptTask, ServeTask, Task, IsServerTask
  <2>2. ServerTasks(queue') = Append(ServerTasks(q), Server!AcceptTask(b))
    BY <1>2, <2>1, TasksPosted, SameServer DEF With
  <2>. QED  BY <1>2, <2>2 DEF Server!DoAccept
<1>. QED  BY <1>1, <1>2 DEF DoAccept

LEMMA HandlersServed ==
    ASSUME queue \in Seq(ServeTask), Handlers
    PROVE  Server!Handlers
<1>. DEFINE sq == ServerTasks(queue)
<1>1. CASE HandleSetHello
  <2>1. Ready("hello") /\ queue' = Tail(queue)
    BY <1>1 DEF HandleSetHello
  <2>2. Server!Ready("hello") /\ ServerTasks(queue') = Tail(sq)
    BY <2>1, HeadServed
  <2>. QED  BY <1>1, <2>2, SameServer
            DEF HandleSetHello, Server!HandleSetHello, Server!Handlers
<1>2. CASE HandleBroadcast
  <2>1. Ready("broadcast") /\ queue' = Tail(queue)
    BY <1>2 DEF HandleBroadcast
  <2>2. /\ Server!Ready("broadcast") /\ ServerTasks(queue') = Tail(sq)
        /\ Head(sq) = Head(queue)
    BY <2>1, HeadServed
  <2>. QED  BY <1>2, <2>2, SameServer
            DEF HandleBroadcast, Server!HandleBroadcast, Server!Handlers
<1>3. CASE HandleStop
  <2>1. Ready("stop") /\ queue' = Tail(queue)
    BY <1>3 DEF HandleStop
  <2>2. Server!Ready("stop") /\ ServerTasks(queue') = Tail(sq)
    BY <2>1, HeadServed
  <2>. QED  BY <1>3, <2>2, SameServer DEF HandleStop, Server!HandleStop, Server!Handlers
<1>4. CASE HandleAccept
  <2>1. /\ Server!Ready("accept") /\ Head(sq) = Head(queue)
        /\ Tail(queue) \in Seq(ServeTask) /\ Tail(sq) = ServerTasks(Tail(queue))
    BY <1>4, HeadServed DEF HandleAccept
  <2>2. CASE stopped
    <3>1. ServerTasks(queue') = Tail(sq)
      BY <1>4, <2>1, <2>2 DEF HandleAccept
    <3>. QED  BY <1>4, <2>1, <2>2, <3>1, SameServer
              DEF HandleAccept, Server!HandleAccept, Server!Handlers
  <2>3. CASE ~stopped
    <3>. DEFINE c == Head(queue).conn
                f == [ses EXCEPT ![c] = Run(@, hello, latest)]
    <3>1. DoAccept(f, Tail(queue)) /\ sessions' = sessions \cup {c}
          /\ UNCHANGED <<hello, latest, stopped, posted>>
      BY <1>4, <2>3 DEF HandleAccept
    <3>2. Server!DoAccept(f, Tail(sq))
      BY <2>1, <3>1, AcceptServed
    <3>3. f = [ses EXCEPT ![Head(sq).conn] = Server!Run(@, hello, latest)]
      BY <2>1, SameServer
    <3>. HIDE DEF f
    <3>. QED  BY <2>1, <2>3, <3>1, <3>2, <3>3 DEF Server!HandleAccept, Server!Handlers
  <2>. QED  BY <2>2, <2>3
<1>5. CASE HandleAcceptError
  <2>1. /\ Server!Ready("accept") /\ Head(sq) = Head(queue)
        /\ Tail(queue) \in Seq(ServeTask) /\ Tail(sq) = ServerTasks(Tail(queue))
    BY <1>5, HeadServed DEF HandleAcceptError
  <2>. DEFINE c == Head(queue).conn
              f == [ses EXCEPT ![c] = Dropped(@)]
  <2>2. DoAccept(f, Tail(queue)) /\ ~stopped
        /\ UNCHANGED <<sessions, hello, latest, stopped, posted>>
    BY <1>5 DEF HandleAcceptError
  <2>3. Server!DoAccept(f, Tail(sq))
    BY <2>1, <2>2, AcceptServed
  <2>4. f = [ses EXCEPT ![Head(sq).conn] = Server!Dropped(@)]
    BY <2>1, SameServer
  <2>. HIDE DEF f
  <2>. QED  BY <2>1, <2>2, <2>3, <2>4 DEF Server!HandleAcceptError, Server!Handlers
<1>. QED  BY <1>1, <1>2, <1>3, <1>4, <1>5 DEF Handlers

\* Tasks posted: the server's own, and those of the application.
LEMMA PostServed ==
    ASSUME queue \in Seq(ServeTask), NEW t \in ServeTask, queue' = Append(queue, t)
    PROVE  ServerTasks(queue') = IF IsServerTask(t) THEN Append(ServerTasks(queue), t)
                                                    ELSE ServerTasks(queue)
BY TasksPosted DEF With

LEMMA StepServed ==
    ASSUME ServeInv, StopsInv, MaxStops >= 2, [ServeNext]_serveVars
    PROVE  Server!Next \/ UNCHANGED Server!serverVars
<1>1. /\ queue \in Seq(ServeTask)
      /\ posted \in [hello : BOOLEAN, frames : Nat, stops : Nat]
  BY ServeFacts DEF ServeInv
<1>2. /\ HelloTask \in ServeTask /\ IsServerTask(HelloTask)
      /\ StopTask \in ServeTask /\ IsServerTask(StopTask)
      /\ CancelTask \in ServeTask /\ ~IsServerTask(CancelTask)
      /\ SignalTask \in ServeTask /\ ~IsServerTask(SignalTask)
      /\ \A n \in Nat : BroadcastTask(n + 1) \in ServeTask
                        /\ IsServerTask(BroadcastTask(n + 1))
      /\ \A c \in Connections : AcceptTask(c) \in ServeTask /\ IsServerTask(AcceptTask(c))
  BY DEF HelloTask, StopTask, CancelTask, SignalTask, BroadcastTask, AcceptTask,
         ServeTask, Task, IsServerTask
<1>3. CASE BindFails \/ Bind \/ Spawn \/ RunReturns \/ Join \/ CheckStop \/ SampleIdle
             \/ SampleThrows \/ Terminated \/ UNCHANGED serveVars
  <2>1. UNCHANGED serverVars
    BY <1>3 DEF BindFails, Bind, Spawn, RunReturns, Join, CheckStop, SampleIdle,
                SampleThrows, Terminated, serveVars
  <2>. QED  BY <2>1 DEF serverVars, Server!serverVars
<1>4. CASE PostHello
  <2>1. SetHello /\ queue' = Append(queue, HelloTask)
    BY <1>4 DEF PostHello, SetHello
  <2>2. ServerTasks(queue') = Append(ServerTasks(queue), HelloTask)
    BY <1>1, <1>2, <2>1, PostServed
  <2>3. Server!SetHello
    BY <2>1, <2>2, SameServer DEF SetHello, Server!SetHello
  <2>. QED  BY <2>3 DEF Server!Next, Server!Api
<1>5. CASE Sample
  <2>1. /\ Broadcast /\ posted.frames \in Nat
        /\ queue' = Append(queue, BroadcastTask(posted.frames + 1))
    BY <1>1, <1>5 DEF Sample, Broadcast
  <2>2. ServerTasks(queue') = Append(ServerTasks(queue), BroadcastTask(posted.frames + 1))
    BY <1>1, <1>2, <2>1, PostServed
  <2>3. Server!Broadcast
    BY <2>1, <2>2, SameServer DEF Broadcast, Server!Broadcast
  <2>. QED  BY <2>3 DEF Server!Next, Server!Api
<1>6. CASE PostStop
  <2>1. Stop /\ queue' = Append(queue, StopTask)
    BY <1>6 DEF PostStop, Stop
  <2>2. ServerTasks(queue') = Append(ServerTasks(queue), StopTask)
    BY <1>1, <1>2, <2>1, PostServed
  <2>3. Server!Stop
    BY <2>1, <2>2, SameServer DEF Stop, Server!Stop
  <2>. QED  BY <2>3 DEF Server!Next, Server!Api
<1>7. CASE PostCancel \/ CtrlC
  <2>1. /\ queue' = Append(queue, CancelTask) \/ queue' = Append(queue, SignalTask)
        /\ UNCHANGED <<accepting, sessions, ses, hello, latest, stopped, posted>>
    BY <1>7 DEF PostCancel, CtrlC
  <2>2. ServerTasks(queue') = ServerTasks(queue)
    BY <1>1, <1>2, <2>1, PostServed
  <2>. QED  BY <2>1, <2>2 DEF Server!serverVars
<1>8. CASE HandleSignal
  <2>1. /\ queue # <<>> /\ Head(queue).kind = "signal"
        /\ queue' = Append(Tail(queue), StopTask)
        /\ posted' = [posted EXCEPT !.stops = @ + 1]
        /\ UNCHANGED <<accepting, sessions, ses, hello, latest, stopped>>
    BY <1>8 DEF HandleSignal, Ready
  <2>2. signal = "queued" /\ posted.stops < MaxStops
    <3>1. signal = "queued"
      BY <1>1, <2>1, WaitsTaken DEF StopsInv
    <3>2. posted.stops <= 1 /\ posted.stops \in Nat /\ MaxStops \in Nat
      BY <1>1, <3>1, BoundsAssumption DEF StopsInv
    <3>. QED  BY <3>1, <3>2
  <2>3. /\ Tail(queue) \in Seq(ServeTask)
        /\ ServerTasks(Tail(queue)) = ServerTasks(queue)
    <3>1. ~IsServerTask(Head(queue)) /\ Tail(queue) \in Seq(ServeTask)
      BY <1>1, <2>1 DEF IsServerTask
    <3>. QED  BY <1>1, <2>1, <3>1, TasksTaken
  <2>4. ServerTasks(queue') = Append(ServerTasks(queue), StopTask)
    BY <1>2, <2>1, <2>3, TasksPosted DEF With
  <2>5. Server!Stop
    BY <2>1, <2>2, <2>4, SameServer DEF Server!Stop
  <2>. QED  BY <2>5 DEF Server!Next, Server!Api
<1>9. CASE HandleCancel
  <2>1. /\ queue # <<>> /\ Head(queue).kind = "cancel"
        /\ queue' = Tail(queue) \/ queue' = Append(Tail(queue), SignalTask)
        /\ UNCHANGED <<accepting, sessions, ses, hello, latest, stopped, posted>>
    BY <1>9 DEF HandleCancel, Ready
  <2>2. /\ Tail(queue) \in Seq(ServeTask)
        /\ ServerTasks(Tail(queue)) = ServerTasks(queue)
    <3>1. ~IsServerTask(Head(queue)) /\ Tail(queue) \in Seq(ServeTask)
      BY <1>1, <2>1 DEF IsServerTask
    <3>. QED  BY <1>1, <2>1, <3>1, TasksTaken
  <2>3. ServerTasks(Append(Tail(queue), SignalTask)) = ServerTasks(Tail(queue))
    BY <1>2, <2>2, TasksPosted DEF With
  <2>4. ServerTasks(queue') = ServerTasks(queue)
    BY <2>1, <2>2, <2>3
  <2>. QED  BY <2>1, <2>4 DEF Server!serverVars
<1>10. CASE IoStep
  <2>1. CASE Handlers
    BY <1>1, <2>1, HandlersServed DEF Server!Next
  <2>2. ASSUME NEW c \in Connections, Completion(c) PROVE Server!Next
    <3>1. queue' = queue
      BY <2>2 DEF Completion, RequestFailed, RequestAnswered, RequestUpgrade,
             ReplyWritten, UpgradeFailed, UpgradeDone, ReadFailed, WriteDone,
             WriteError, CloseDone, SessionStep, RemoveSession
    <3>. QED  BY <2>2, <3>1, CompletionServed DEF Server!Next
  <2>. QED  BY <1>10, <2>1, <2>2 DEF IoStep
<1>11. ASSUME NEW c \in Connections, ClientConnects(c) PROVE Server!Next
  <2>1. Connect(c)
    BY <1>11 DEF ClientConnects
  <2>2. accepting => ServerTasks(queue') = Append(ServerTasks(queue), AcceptTask(c))
    <3>1. accepting => queue' = Append(queue, AcceptTask(c))
      BY <2>1 DEF Connect
    <3>. QED  BY <1>1, <1>2, <3>1, PostServed
  <2>3. Server!Connect(c)
    BY <2>1, <2>2, SameServer DEF Connect, Server!Connect
  <2>. QED  BY <2>3 DEF Server!Next
<1>. QED  BY <1>3, <1>4, <1>5, <1>6, <1>7, <1>8, <1>9, <1>10, <1>11
          DEF ServeNext, MainStep, SamplerStep

(***************************************************************************)
(* ServeApp.cpp:36-106 - whatever the threads, Ctrl+C and the clients do,  *)
(* runServe uses the server as WebSocketServer specifies it, so that all   *)
(* that is shown of the server holds in the process; it stops the server   *)
(* twice at most, which MaxStops has to allow.                             *)
(***************************************************************************)
THEOREM ServeImplementsServer == MaxStops >= 2 => (ServeSpec => ImplementsServer)
<1>1. ServeInit => Server!Init
  <2>1. ServerTasks(<<>>) = <<>>
    BY TasksNone
  <2>. QED  BY <2>1, SameServer DEF ServeInit, Init, Server!Init
<1>2. ServeInit => StopsInv
  <2>1. ASSUME ServeInit PROVE StopsInv
    <3>1. queue = <<>> /\ posted.stops = 0 /\ signal = "unarmed" /\ sampler = "unborn"
      BY <2>1 DEF ServeInit, Init
    <3>. QED  BY <3>1 DEF StopsInv, Waits
  <2>. QED  BY <2>1
<1>3. ServeInv /\ StopsInv /\ [ServeNext]_serveVars => StopsInv'
  BY StopsStep
<1>4. ASSUME MaxStops >= 2
      PROVE  ServeInv /\ StopsInv /\ [ServeNext]_serveVars => [Server!Next]_(Server!serverVars)
  BY <1>4, StepServed
<1>5. ServeSpec => []StopsInv
  BY <1>2, <1>3, ServeInvariance, PTL DEF ServeSpec
<1>6. ASSUME MaxStops >= 2
      PROVE  ServeSpec => Server!Spec
  <2>1. ServeInv /\ StopsInv /\ [ServeNext]_serveVars => [Server!Next]_(Server!serverVars)
    BY <1>4, <1>6
  <2>. QED  BY <1>1, <1>5, <2>1, ServeInvariance, PTL DEF ServeSpec, Server!Spec
<1>. QED  BY <1>6 DEF ImplementsServer

----------------------------------------------------------------------------
(***************************************************************************)
(* After a stop nothing waits for a client: what StopDrains and            *)
(* ShutdownCompletes, which are left to TLC, need of every state.          *)
(***************************************************************************)
\* The session has an operation outstanding that the server's timeouts, or the
\* end of its socket, bring to an end (the guards of the actions in Fairness).
EndsAlone(r) ==
    \/ r.stage \in {"upgrade", "doomed"} \/ r.writing \/ r.closeOp
    \/ ~r.socket /\ (r.stage \in {"http", "reply"} \/ r.reading)

NeedsNoClient == stopped => \A c \in Connections : Busy(ses[c]) => EndsAlone(ses[c])

\* What a client could hold up: a request, its answer, the next message.
Held(r) == r.reading \/ r.stage \in {"http", "upgrade", "doomed", "reply"}

(***************************************************************************)
(* A session that is not listed (any more) has lost its socket or is about *)
(* to: it closes as soon as the write or the close handshake has ended.    *)
(***************************************************************************)
Drains(r, listed) ==
    /\ listed => r.stage \notin Unbegun
    /\ listed \/ r.stage \in Unbegun => ~r.closing
    /\ Held(r) /\ ~listed => ~r.socket \/ (r.closing /\ (r.writing \/ r.closeOp))

DrainInv == \A c \in Connections : Drains(ses[c], c \in sessions)

\* A session before its handshake has no operation but that.
Idle(r) == r.stage # "ws" => ~r.reading /\ ~r.writing /\ ~r.closeOp

\* What the steps need of either invariant, the server's and the process's.
Grounds ==
    /\ ses \in [Connections -> Session] /\ sessions \subseteq Connections
    /\ \A c \in Connections : Idle(ses[c])
    /\ stopped => sessions = {}
    /\ Ready("accept") => /\ Head(queue).conn \in Connections
                          /\ ses[Head(queue).conn].stage = "queued"

LEMMA GroundsOfInv == Inv => Grounds
<1>. SUFFICES ASSUME Inv PROVE Grounds
  OBVIOUS
<1>1. \A c \in Connections : Idle(ses[c])
  BY Facts DEF Idle, SessionInv
<1>. QED  BY <1>1, Facts, AcceptedConnection DEF Grounds

LEMMA GroundsOfServe == ServeInv => Grounds
<1>. SUFFICES ASSUME ServerInv PROVE Grounds
  BY DEF ServeInv
<1>1. \A c \in Connections : Idle(ses[c])
  BY ServeFacts DEF Idle, Fine, Sound
<1>2. Ready("accept") => /\ Head(queue).conn \in Connections
                         /\ ses[Head(queue).conn].stage = "queued"
  BY ServeFacts, LineTail DEF Ready
<1>. QED  BY <1>1, <1>2, ServeFacts DEF Grounds

\* Only the session of c is another one.
LEMMA OneDrains ==
    ASSUME Grounds, DrainInv, NEW c \in Connections, NEW r,
           ses' = [ses EXCEPT ![c] = r], Drains(r, c \in sessions'),
           \A d \in Connections \ {c} : d \in sessions' <=> d \in sessions
    PROVE  DrainInv'
<1>1. ses'[c] = r /\ \A d \in Connections \ {c} : ses'[d] = ses[d]
  BY DEF Grounds
<1>. QED  BY <1>1 DEF DrainInv

LEMMA CompletionDrains ==
    ASSUME Grounds, DrainInv, NEW c \in Connections, Completion(c)
    PROVE  DrainInv'
<1>. DEFINE r == ses[c]  listed == c \in sessions
<1>1. r \in Session /\ Idle(r) /\ Drains(r, listed)
  BY DEF Grounds, DrainInv
<1>2. \A q : ses' = [ses EXCEPT ![c] = q]
             /\ (\A d \in Connections \ {c} : d \in sessions' <=> d \in sessions)
             /\ Drains(q, c \in sessions') => DrainInv'
  BY OneDrains
<1>. HIDE DEF r, listed
<1>3. CASE RequestFailed(c) \/ ReplyWritten(c) \/ UpgradeFailed(c)
  <2>. DEFINE q == [r EXCEPT !.stage = "over"]
  <2>1. /\ ses' = [ses EXCEPT ![c] = q] /\ sessions' = sessions \ {c}
        /\ r.stage # "ws"
    BY <1>3 DEF RequestFailed, ReplyWritten, UpgradeFailed, RemoveSession, r
  <2>2. Drains(q, FALSE)
    BY <1>1, <2>1 DEF Drains, Held, Unbegun, Idle, Session
  <2>. HIDE DEF q
  <2>3. Drains(q, c \in sessions')
    BY <2>1, <2>2 DEF Drains
  <2>. QED  BY <1>2, <2>1, <2>3
<1>4. CASE RequestAnswered(c) \/ RequestUpgrade(c)
  <2>1. PICK to \in {"reply", "upgrade", "doomed"} :
           /\ ses' = [ses EXCEPT ![c] = [r EXCEPT !.stage = to]]
           /\ sessions' = sessions /\ r.stage = "http"
    BY <1>4 DEF RequestAnswered, RequestUpgrade, SessionStep, r
  <2>. DEFINE q == [r EXCEPT !.stage = to]
  <2>2. Drains(q, listed)
    BY <1>1, <2>1 DEF Drains, Held, Unbegun, Idle, Session
  <2>3. ses' = [ses EXCEPT ![c] = q]
    BY <2>1
  <2>. HIDE DEF q
  <2>. QED  BY <1>2, <2>1, <2>2, <2>3 DEF listed
<1>5. CASE UpgradeDone(c)
  <2>. DEFINE q == Opened(r)
  <2>1. ses' = [ses EXCEPT ![c] = q] /\ sessions' = sessions /\ r.stage = "upgrade"
    BY <1>5 DEF UpgradeDone, SessionStep, r
  <2>2. q.stage = "ws" /\ q.socket = r.socket /\ q.closing = r.closing
    BY <1>1 DEF Opened, DoWrite, Session
  <2>3. Drains(q, listed)
    <3>. HIDE DEF q
    <3>. QED  BY <1>1, <2>1, <2>2 DEF Drains, Held, Unbegun, Idle
  <2>. HIDE DEF q
  <2>. QED  BY <1>2, <2>1, <2>3 DEF listed
<1>6. CASE ReadFailed(c)
  <2>. DEFINE q == [r EXCEPT !.reading = FALSE, !.open = FALSE]
  <2>1. /\ ses' = [ses EXCEPT ![c] = q] /\ sessions' = sessions \ {c} /\ r.reading
    BY <1>6 DEF ReadFailed, RemoveSession, r
  <2>2. q.stage = "ws" /\ ~q.reading
    BY <1>1, <2>1 DEF Idle, Session
  <2>. HIDE DEF q
  <2>3. Drains(q, c \in sessions')
    BY <2>1, <2>2 DEF Drains, Held, Unbegun
  <2>. QED  BY <1>2, <2>1, <2>3
<1>7. CASE WriteDone(c)
  <2>. DEFINE q == Written(r)
  <2>1. /\ ses' = [ses EXCEPT ![c] = q] /\ sessions' = sessions
        /\ r.writing /\ r.socket /\ r.stage = "ws"
    BY <1>1, <1>7 DEF WriteDone, SessionStep, r, Idle
  <2>2. /\ q.stage = "ws" /\ q.closing = r.closing /\ q.reading = r.reading
        /\ r.closing => q.closeOp
    BY <1>1, <2>1 DEF Written, Sent, DoWrite, DoClose, Session
  <2>3. Drains(q, listed)
    <3>. HIDE DEF q
    <3>. QED  BY <1>1, <2>1, <2>2 DEF Drains, Held, Unbegun
  <2>. HIDE DEF q
  <2>. QED  BY <1>2, <2>1, <2>3 DEF listed
<1>8. CASE WriteError(c)
  <2>. DEFINE q == WriteFailed(r)
  <2>1. /\ ses' = [ses EXCEPT ![c] = q] /\ sessions' = sessions \ {c}
        /\ r.writing /\ r.stage = "ws"
    BY <1>1, <1>8 DEF WriteError, RemoveSession, r, Idle
  <2>2. q.stage = "ws" /\ ~q.socket
    BY <1>1, <2>1 DEF WriteFailed, Session
  <2>. HIDE DEF q
  <2>3. Drains(q, c \in sessions')
    BY <2>1, <2>2 DEF Drains, Held, Unbegun
  <2>. QED  BY <1>2, <2>1, <2>3
<1>9. CASE CloseDone(c)
  <2>. DEFINE q == [r EXCEPT !.closeOp = FALSE, !.socket = FALSE]
  <2>1. /\ ses' = [ses EXCEPT ![c] = q] /\ sessions' = sessions /\ r.stage = "ws"
    BY <1>1, <1>9 DEF CloseDone, SessionStep, r, Idle
  <2>2. q.stage = "ws" /\ ~q.socket /\ q.closing = r.closing
    BY <1>1, <2>1 DEF Session
  <2>3. Drains(q, listed)
    <3>. HIDE DEF q
    <3>. QED  BY <1>1, <2>1, <2>2 DEF Drains, Held, Unbegun
  <2>. HIDE DEF q
  <2>. QED  BY <1>2, <2>1, <2>3 DEF listed
<1>. QED  BY <1>3, <1>4, <1>5, <1>6, <1>7, <1>8, <1>9 DEF Completion

LEMMA ConnectDrains ==
    ASSUME Grounds, DrainInv, NEW c \in Connections, Connect(c)
    PROVE  DrainInv'
<1>1. ses[c] \in Session /\ Idle(ses[c]) /\ Drains(ses[c], c \in sessions)
      /\ ses[c].stage = "away" /\ sessions' = sessions
  BY DEF Grounds, DrainInv, Connect
<1>2. PICK to \in {"queued", "backlog"} : ses' = [ses EXCEPT ![c].stage = to]
  BY DEF Connect
<1>. DEFINE q == [ses[c] EXCEPT !.stage = to]
<1>3. Drains(q, c \in sessions)
  BY <1>1 DEF Drains, Held, Unbegun, Idle, Session
<1>4. ses' = [ses EXCEPT ![c] = q]
  BY <1>2
<1>. HIDE DEF q
<1>. QED  BY <1>1, <1>3, <1>4, OneDrains

\* doAccept after the handler has dealt with the connection c.
LEMMA AcceptDrains ==
    ASSUME Grounds, DrainInv, NEW c \in Connections, NEW r, r.stage # "backlog",
           Drains(r, c \in sessions'), NEW rest, DoAccept([ses EXCEPT ![c] = r], rest),
           \A d \in Connections \ {c} : d \in sessions' <=> d \in sessions
    PROVE  DrainInv'
<1>. DEFINE f == [ses EXCEPT ![c] = r]
<1>1. f[c] = r /\ \A d \in Connections \ {c} : f[d] = ses[d]
  BY DEF Grounds
<1>2. DOMAIN f = Connections
  BY DEF Grounds
<1>3. CASE ses' = f
  BY <1>1, <1>3 DEF DrainInv
<1>4. ASSUME NEW b \in Connections, f[b].stage = "backlog",
             ses' = [f EXCEPT ![b].stage = "queued"]
      PROVE  DrainInv'
  <2>. DEFINE q == [ses[b] EXCEPT !.stage = "queued"]
  <2>1. b # c /\ ses[b].stage = "backlog" /\ ses[b] \in Session /\ Idle(ses[b])
        /\ Drains(ses[b], b \in sessions) /\ f[b] = ses[b]
    BY <1>1, <1>4 DEF Grounds, DrainInv
  <2>2. Drains(q, b \in sessions)
    BY <2>1 DEF Drains, Held, Unbegun, Idle, Session
  <2>3. ses'[b] = q /\ \A d \in Connections \ {b} : ses'[d] = f[d]
    BY <1>2, <1>4, <2>1
  <2>. HIDE DEF f, q
  <2>. QED  BY <1>1, <2>1, <2>2, <2>3 DEF DrainInv
<1>. QED  BY <1>3, <1>4 DEF DoAccept

LEMMA HandlerDrains ==
    ASSUME Grounds, DrainInv, Handlers
    PROVE  DrainInv'
<1>1. \A c \in Connections :
        ses[c] \in Session /\ Idle(ses[c]) /\ Drains(ses[c], c \in sessions)
  BY DEF Grounds, DrainInv
<1>2. CASE HandleSetHello
  BY <1>2 DEF HandleSetHello, DrainInv
<1>3. CASE HandleBroadcast
  <2>1. /\ sessions' = sessions
        /\ \A c \in Connections : ses'[c] = IF c \in sessions THEN Send(ses[c], Head(queue).frame)
                                            ELSE ses[c]
    BY <1>3 DEF HandleBroadcast
  <2>2. ASSUME NEW c \in Connections PROVE Drains(ses'[c], c \in sessions)
    <3>. DEFINE r == ses[c]  q == Send(r, Head(queue).frame)
    <3>1. q.stage = r.stage /\ q.closing = r.closing
      BY <1>1 DEF Send, DoWrite, Session
    <3>2. c \in sessions => Drains(q, c \in sessions)
      <4>. HIDE DEF q
      <4>. QED  BY <1>1, <3>1 DEF Drains
    <3>. QED  BY <1>1, <2>1, <3>2
  <2>. QED  BY <2>1, <2>2 DEF DrainInv
<1>4. CASE HandleStop
  <2>1. CASE stopped
    BY <1>4, <2>1 DEF HandleStop, DrainInv
  <2>2. CASE ~stopped
    <3>1. /\ sessions' = {}
          /\ \A c \in Connections : ses'[c] = IF c \in sessions THEN Close(ses[c])
                                              ELSE IF ses[c].stage = "backlog" THEN Dropped(ses[c])
                                              ELSE ses[c]
      BY <1>4, <2>2 DEF HandleStop
    <3>2. ASSUME NEW c \in Connections PROVE Drains(ses'[c], c \in sessions')
      <4>. DEFINE r == ses[c]
      <4>1. r \in Session /\ Idle(r) /\ Drains(r, c \in sessions) /\ c \notin sessions'
        BY <1>1, <3>1
      <4>2. CASE c \in sessions
        <5>. DEFINE q == Close(r)
        <5>1. ~r.closing /\ r.stage \notin Unbegun
          BY <4>1, <4>2 DEF Drains
        <5>2. /\ q.stage = r.stage
              /\ ~q.socket \/ (q.closing /\ (q.writing \/ q.closeOp))
          BY <4>1, <5>1 DEF Close, DoClose, Session
        <5>3. ses'[c] = q
          BY <3>1, <4>2
        <5>. HIDE DEF q
        <5>. QED  BY <4>1, <5>1, <5>2, <5>3 DEF Drains
      <4>3. CASE c \notin sessions /\ r.stage = "backlog"
        <5>. DEFINE q == Dropped(r)
        <5>1. q.stage = "over" /\ q.reading = r.reading /\ ~r.reading
          BY <4>1, <4>3 DEF Dropped, Idle, Session
        <5>2. ses'[c] = q
          BY <3>1, <4>3
        <5>. HIDE DEF q
        <5>. QED  BY <4>1, <5>1, <5>2 DEF Drains, Held, Unbegun
      <4>4. CASE c \notin sessions /\ r.stage # "backlog"
        BY <3>1, <4>1, <4>4 DEF Drains
      <4>. QED  BY <4>2, <4>3, <4>4
    <3>. QED  BY <3>2 DEF DrainInv
  <2>. QED  BY <2>1, <2>2
<1>5. CASE HandleAccept \/ HandleAcceptError
  <2>. DEFINE c == Head(queue).conn  r == ses[c]  gone == Dropped(r)
              run == Run(r, hello, latest)
  <2>1. c \in Connections /\ r.stage = "queued" /\ r \in Session /\ Idle(r)
        /\ Drains(r, c \in sessions) /\ c \notin sessions
    <3>1. Ready("accept")
      BY <1>5 DEF HandleAccept, HandleAcceptError
    <3>. QED  BY <1>1, <3>1 DEF Grounds, Drains, Unbegun
  <2>2. gone.stage = "over" /\ gone.reading = r.reading /\ ~r.reading
    BY <2>1 DEF Dropped, Idle, Session
  <2>3. run.stage = "http" /\ run.closing = r.closing /\ ~r.closing
    BY <2>1 DEF Run, Drains, Unbegun, Session
  <2>4. CASE HandleAccept /\ stopped
    <3>1. ses' = [ses EXCEPT ![c] = gone] /\ sessions' = sessions
      BY <2>4 DEF HandleAccept
    <3>. HIDE DEF c, r, gone
    <3>2. Drains(gone, c \in sessions')
      BY <2>1, <2>2, <3>1 DEF Drains, Held, Unbegun
    <3>. QED  BY <2>1, <3>1, <3>2, OneDrains
  <2>5. CASE HandleAccept /\ ~stopped
    <3>1. DoAccept([ses EXCEPT ![c] = run], Tail(queue)) /\ sessions' = sessions \cup {c}
      BY <2>5 DEF HandleAccept
    <3>. HIDE DEF c, r, run
    <3>2. Drains(run, c \in sessions') /\ run.stage # "backlog"
      BY <2>1, <2>3, <3>1 DEF Drains, Held, Unbegun
    <3>3. \A d \in Connections \ {c} : d \in sessions' <=> d \in sessions
      BY <3>1
    <3>. QED  BY <2>1, <3>1, <3>2, <3>3, AcceptDrains
  <2>6. CASE HandleAcceptError
    <3>1. DoAccept([ses EXCEPT ![c] = gone], Tail(queue)) /\ sessions' = sessions
      BY <2>6 DEF HandleAcceptError
    <3>. HIDE DEF c, r, gone
    <3>2. Drains(gone, c \in sessions') /\ gone.stage # "backlog"
      BY <2>1, <2>2, <3>1 DEF Drains, Held, Unbegun
    <3>. QED  BY <2>1, <3>1, <3>2, AcceptDrains
  <2>. QED  BY <1>5, <2>4, <2>5, <2>6
<1>. QED  BY <1>2, <1>3, <1>4, <1>5 DEF Handlers

LEMMA DrainInit == Init => DrainInv
<1>. SUFFICES ASSUME Init, NEW c \in Connections PROVE Drains(ses[c], c \in sessions)
  BY DEF DrainInv
<1>1. ses[c].stage = "away" /\ ~ses[c].reading /\ ~ses[c].closing /\ c \notin sessions
  BY DEF Init, NewSession
<1>. QED  BY <1>1 DEF Drains, Held

\* Whatever is outstanding after a stop ends by itself.
LEMMA DrainsAlone == Grounds /\ DrainInv => NeedsNoClient
<1>. SUFFICES ASSUME Grounds, DrainInv, stopped, NEW c \in Connections, Busy(ses[c])
              PROVE  EndsAlone(ses[c])
  BY DEF NeedsNoClient
<1>1. c \notin sessions /\ Drains(ses[c], c \in sessions)
  BY DEF Grounds, DrainInv
<1>. QED  BY <1>1 DEF Drains, Held, Busy, EndsAlone

(***************************************************************************)
(* WebSocketServer.h:37 - after stop() every operation that a session has  *)
(* under way, in whatever state it was, is one that ends without its       *)
(* client: its socket is closed, or the operation has a timeout.           *)
(***************************************************************************)
THEOREM StopNeedsNoClient == Spec => []NeedsNoClient
<1>1. Inv /\ DrainInv /\ [Next]_serverVars => DrainInv'
  <2>. SUFFICES ASSUME Grounds, DrainInv, [Next]_serverVars PROVE DrainInv'
    BY GroundsOfInv
  <2>1. CASE Api \/ UNCHANGED serverVars
    BY <2>1 DEF Api, SetHello, Broadcast, Stop, serverVars, DrainInv
  <2>. QED  BY <2>1, HandlerDrains, CompletionDrains, ConnectDrains DEF Next
<1>2. Inv /\ DrainInv => NeedsNoClient
  BY GroundsOfInv, DrainsAlone
<1>. QED  BY <1>1, <1>2, DrainInit, Invariance, PTL DEF Spec

----------------------------------------------------------------------------
(***************************************************************************)
(* The same of the process, and that its last tasks are not lost: what the *)
(* sampler and the signal still have to bring about is in the queue.       *)
(***************************************************************************)
EndInv ==
    /\ signal \in {"unarmed", "armed", "queued", "over"}
    /\ accepting => ~stopped
    /\ sampler \in {"cancel", "done"} => stopped \/ Pending(queue, "stop")
    /\ signal = "queued" => Pending(queue, "signal")
    /\ sampler = "done" /\ signal = "armed" => Pending(queue, "cancel")

GoesOnInv == ServeInv /\ DrainInv /\ EndInv

ShutdownGoesOn ==
    main = "run" /\ sampler = "done" =>
        queue # <<>> \/ NoWork \/ \E c \in Connections : EndsAlone(ses[c])

LEMMA PendingPosted ==
    ASSUME NEW q \in Seq(ServeTask), NEW t \in ServeTask
    PROVE  /\ Pending(Append(q, t), t.kind)
           /\ \A k : Pending(q, k) => Pending(Append(q, t), k)
<1>. DEFINE p == Append(q, t)
<1>1. /\ Len(p) \in 1..Len(p) /\ p[Len(p)] = t
      /\ \A i \in 1..Len(q) : p[i] = q[i] /\ i \in 1..Len(p)
  OBVIOUS
<1>. HIDE DEF p
<1>2. Pending(p, t.kind) /\ \A k : Pending(q, k) => Pending(p, k)
  BY <1>1 DEF Pending
<1>. QED  BY <1>2 DEF p

LEMMA PendingTaken ==
    ASSUME NEW q \in Seq(ServeTask), q # <<>>, NEW k, Pending(q, k), Head(q).kind # k
    PROVE  Pending(Tail(q), k)
<1>. DEFINE p == Tail(q)
<1>1. /\ q[1] = Head(q)
      /\ \A i \in 1..Len(q) : i = 1 \/ (i - 1 \in 1..Len(p) /\ p[i - 1] = q[i])
  OBVIOUS
<1>. HIDE DEF p
<1>2. Pending(p, k)
  BY <1>1 DEF Pending
<1>. QED  BY <1>2 DEF p

LEMMA TasksOfServe ==
    /\ HelloTask \in ServeTask /\ StopTask \in ServeTask /\ CancelTask \in ServeTask
    /\ SignalTask \in ServeTask /\ StopTask.kind = "stop" /\ CancelTask.kind = "cancel"
    /\ SignalTask.kind = "signal"
    /\ \A n \in Nat : BroadcastTask(n + 1) \in ServeTask
    /\ \A c \in Connections : AcceptTask(c) \in ServeTask
BY DEF HelloTask, StopTask, CancelTask, SignalTask, BroadcastTask, AcceptTask,
       ServeTask, Task

\* The threads and the signal, each with its own task.
LEMMA EndThreadStep ==
    ASSUME ServeInv, EndInv,
           MainStep \/ SamplerStep \/ CtrlC \/ HandleSignal \/ HandleCancel
    PROVE  EndInv'
<1>1. queue \in Seq(ServeTask) /\ stopped \in BOOLEAN /\ posted.frames \in Nat
      /\ (queue # <<>> => Tail(queue) \in Seq(ServeTask))
  BY ServeFacts DEF ServeInv
<1>2. CASE BindFails \/ Bind \/ Spawn \/ RunReturns \/ Join
             \/ CheckStop \/ SampleIdle \/ SampleThrows
  <2>1. UNCHANGED serverVars
    BY <1>2 DEF BindFails, Bind, Spawn, RunReturns, Join, CheckStop, SampleIdle, SampleThrows
  <2>2. \/ UNCHANGED <<signal, sampler>>
        \/ signal' = "armed" /\ sampler' = "check"
        \/ signal' = signal /\ sampler' \in {"check", "sample", "stop"}
    BY <1>2 DEF BindFails, Bind, Spawn, RunReturns, Join, CheckStop, SampleIdle, SampleThrows
  <2>. QED  BY <2>1, <2>2 DEF EndInv, serverVars
<1>3. CASE PostHello \/ Sample \/ PostStop \/ PostCancel
  <2>1. UNCHANGED <<signal, accepting, stopped>>
    BY <1>3 DEF PostHello, SetHello, Sample, Broadcast, PostStop, Stop, PostCancel
  <2>2. CASE PostHello \/ Sample
    <3>1. PICK t \in ServeTask : queue' = Append(queue, t)
      BY <1>1, <2>2, TasksOfServe DEF PostHello, SetHello, Sample, Broadcast
    <3>2. sampler' = sampler \/ sampler' \in {"check", "stop"}
      BY <2>2 DEF PostHello, Sample
    <3>. QED  BY <1>1, <2>1, <3>1, <3>2, PendingPosted DEF EndInv
  <2>3. CASE PostStop
    <3>1. queue' = Append(queue, StopTask) /\ sampler' = "cancel"
      BY <2>3 DEF PostStop, Stop
    <3>2. /\ Pending(queue', "stop") /\ \A k : Pending(queue, k) => Pending(queue', k)
      BY <1>1, <3>1, PendingPosted, TasksOfServe
    <3>. QED  BY <2>1, <3>1, <3>2 DEF EndInv
  <2>4. CASE PostCancel
    <3>1. queue' = Append(queue, CancelTask) /\ sampler = "cancel"
      BY <2>4 DEF PostCancel
    <3>2. /\ Pending(queue', "cancel") /\ \A k : Pending(queue, k) => Pending(queue', k)
      BY <1>1, <3>1, PendingPosted, TasksOfServe
    <3>. QED  BY <2>1, <3>1, <3>2 DEF EndInv
  <2>. QED  BY <1>3, <2>2, <2>3, <2>4
<1>4. CASE CtrlC
  <2>1. queue' = Append(queue, SignalTask) /\ signal' = "queued"
        /\ UNCHANGED <<accepting, stopped, sampler>>
    BY <1>4 DEF CtrlC
  <2>2. /\ Pending(queue', "signal") /\ \A k : Pending(queue, k) => Pending(queue', k)
    BY <1>1, <2>1, PendingPosted, TasksOfServe
  <2>. QED  BY <2>1, <2>2 DEF EndInv
<1>5. CASE HandleSignal
  <2>1. /\ queue # <<>> /\ queue' = Append(Tail(queue), StopTask) /\ signal' = "over"
        /\ UNCHANGED <<accepting, stopped, sampler>>
    BY <1>5 DEF HandleSignal, Ready
  <2>2. Pending(queue', "stop")
    BY <1>1, <2>1, PendingPosted, TasksOfServe
  <2>. QED  BY <2>1, <2>2 DEF EndInv
<1>6. CASE HandleCancel
  <2>1. /\ queue # <<>> /\ Head(queue).kind = "cancel"
        /\ UNCHANGED <<accepting, stopped, sampler>>
        /\ \/ signal' = "queued" /\ queue' = Append(Tail(queue), SignalTask)
           \/ signal # "armed" /\ signal' = signal /\ queue' = Tail(queue)
    BY <1>6 DEF HandleCancel, Ready
  <2>2. \A k : Pending(queue, k) /\ k # "cancel" => Pending(Tail(queue), k)
    BY <1>1, <2>1, PendingTaken
  <2>3. CASE signal' = "queued" /\ queue' = Append(Tail(queue), SignalTask)
    <3>1. /\ Pending(queue', "signal")
          /\ \A k : Pending(Tail(queue), k) => Pending(queue', k)
      BY <1>1, <2>1, <2>3, PendingPosted, TasksOfServe
    <3>. QED  BY <2>1, <2>2, <2>3, <3>1 DEF EndInv
  <2>. QED  BY <2>1, <2>2, <2>3 DEF EndInv
<1>. QED  BY <1>2, <1>3, <1>4, <1>5, <1>6 DEF MainStep, SamplerStep

\* The server's own handlers take none of those tasks but stop's.
LEMMA EndIoStep ==
    ASSUME ServeInv, EndInv, IoStep
    PROVE  EndInv'
<1>1. queue \in Seq(ServeTask) /\ stopped \in BOOLEAN
      /\ (queue # <<>> => Tail(queue) \in Seq(ServeTask))
  BY ServeFacts DEF ServeInv
<1>2. UNCHANGED <<sampler, signal>>
  BY DEF IoStep, appVars, threadVars
<1>3. /\ stopped' = stopped \/ (stopped' = TRUE /\ accepting' = FALSE)
      /\ accepting' = accepting \/ accepting' = FALSE \/ ~stopped
      /\ \/ queue' = queue
         \/ /\ queue # <<>> /\ Head(queue).kind \notin {"signal", "cancel"}
            /\ Head(queue).kind = "stop" => stopped'
            /\ \/ queue' = Tail(queue)
               \/ \E b \in Connections : queue' = Append(Tail(queue), AcceptTask(b))
  BY <1>1 DEF IoStep, Handlers, HandleSetHello, HandleBroadcast, HandleStop,
         HandleAccept, HandleAcceptError, DoAccept, Ready, Completion, RequestFailed,
         RequestAnswered, RequestUpgrade, ReplyWritten, UpgradeFailed, UpgradeDone,
         ReadFailed, WriteDone, WriteError, CloseDone, SessionStep, RemoveSession
<1>4. \A k : Pending(queue, k) /\ (k \in {"signal", "cancel"} \/ (k = "stop" /\ ~stopped'))
               => Pending(queue', k)
  <2>. SUFFICES ASSUME NEW k, Pending(queue, k),
                       k \in {"signal", "cancel"} \/ (k = "stop" /\ ~stopped')
                PROVE  Pending(queue', k)
    OBVIOUS
  <2>1. queue # <<>> /\ Head(queue).kind # k => Pending(Tail(queue), k)
    BY <1>1, PendingTaken
  <2>2. ASSUME NEW b \in Connections, queue # <<>>, Pending(Tail(queue), k)
        PROVE  Pending(Append(Tail(queue), AcceptTask(b)), k)
    BY <1>1, <2>2, PendingPosted, TasksOfServe
  <2>. QED  BY <1>3, <2>1, <2>2
<1>5. accepting' => ~stopped'
  BY <1>1, <1>3 DEF EndInv
<1>. QED  BY <1>1, <1>2, <1>3, <1>4, <1>5 DEF EndInv

LEMMA EndClientStep ==
    ASSUME ServeInv, EndInv, NEW c \in Connections, ClientConnects(c)
    PROVE  EndInv'
<1>1. /\ queue \in Seq(ServeTask) /\ UNCHANGED <<sampler, signal, stopped>>
      /\ queue' = queue \/ queue' = Append(queue, AcceptTask(c))
      /\ ~stopped
  BY ServeFacts DEF ServeInv, ClientConnects, Connect, threadVars
<1>2. \A k : Pending(queue, k) => Pending(queue', k)
  BY <1>1, PendingPosted, TasksOfServe
<1>. QED  BY <1>1, <1>2 DEF EndInv

LEMMA ServeDrains ==
    ASSUME ServeInv, DrainInv, [ServeNext]_serveVars
    PROVE  DrainInv'
<1>1. Grounds
  BY GroundsOfServe
<1>2. CASE IoStep \/ \E c \in Connections : ClientConnects(c)
  BY <1>1, <1>2, HandlerDrains, CompletionDrains, ConnectDrains DEF IoStep, ClientConnects
<1>3. CASE MainStep \/ SamplerStep \/ CtrlC \/ HandleSignal \/ HandleCancel \/ Terminated
             \/ UNCHANGED serveVars
  <2>1. UNCHANGED <<ses, sessions>>
    BY <1>3 DEF MainStep, BindFails, Bind, PostHello, SetHello, Spawn, RunReturns, Join,
         SamplerStep, CheckStop, Sample, Broadcast, SampleIdle, SampleThrows, PostStop, Stop,
         PostCancel, CtrlC, HandleSignal, HandleCancel, Terminated, serveVars, serverVars
  <2>. QED  BY <2>1 DEF DrainInv
<1>. QED  BY <1>2, <1>3 DEF ServeNext

LEMMA GoesOnStep ==
    ASSUME GoesOnInv, [ServeNext]_serveVars
    PROVE  GoesOnInv'
<1>1. ASSUME Terminated \/ UNCHANGED serveVars PROVE EndInv'
  <2>1. UNCHANGED <<queue, accepting, stopped, sampler, signal>>
    BY <1>1 DEF Terminated, serveVars, serverVars, appVars, threadVars
  <2>. QED  BY <2>1 DEF GoesOnInv, EndInv
<1>2. EndInv'
  BY <1>1, EndThreadStep, EndIoStep, EndClientStep DEF GoesOnInv, ServeNext
<1>. QED  BY <1>2, ServeNextInv, ServeDrains DEF GoesOnInv

(***************************************************************************)
(* ServeApp.cpp:88-91 - once the sampler has posted its last task, run()   *)
(* is never left waiting for somebody: it has a task to take, or an        *)
(* operation that ends by itself, or no work and returns.                  *)
(***************************************************************************)
THEOREM ShutdownNeedsNobody == ServeSpec => []ShutdownGoesOn
<1>1. ServeInit => GoesOnInv
  BY ServeInitInv, DrainInit DEF ServeInit, Init, GoesOnInv, EndInv
<1>2. GoesOnInv => ShutdownGoesOn
  <2>. SUFFICES ASSUME GoesOnInv, main = "run", sampler = "done", queue = <<>>,
                       ~ \E c \in Connections : EndsAlone(ses[c])
                PROVE  NoWork
    BY DEF ShutdownGoesOn
  <2>1. \A k : ~Pending(queue, k)
    BY DEF Pending
  <2>2. stopped /\ ~accepting /\ signal \in {"unarmed", "over"}
    BY <2>1 DEF GoesOnInv, EndInv
  <2>3. \A c \in Connections : ~Busy(ses[c])
    BY <2>2, GroundsOfServe, DrainsAlone DEF GoesOnInv, NeedsNoClient
  <2>. QED  BY <2>2, <2>3 DEF NoWork
<1>. QED  BY <1>1, <1>2, GoesOnStep, PTL DEF ServeSpec
=============================================================================
