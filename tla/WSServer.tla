------------------------------ MODULE WSServer ------------------------------
(***************************************************************************)
(* The session layer of duetto's server, src/source/units/WS.Server.pas:   *)
(* what TWSServer and TWSConnection do with the five callbacks of a        *)
(* completion-shaped transport (OnAccept, OnData, OnSendReady, OnClosed,   *)
(* OnPost), with the host's handlers (OnOpen, OnMessage, OnClientClose and *)
(* posted procs), with the sweeper thread and with Post from any thread.   *)
(*                                                                         *)
(* A connection is one record, conn[c].  The procedures of the unit are    *)
(* pure operators from record to record under their own names; an action   *)
(* runs the procedures one callback makes and commits the record.  Host    *)
(* code runs between two actions: while run is "onopen", "onmessage" or    *)
(* "onpost" the handler may send, close, raise or return, and other        *)
(* connections, the sweeper and posting threads interleave with it.        *)
(*                                                                         *)
(* Time is kept as time left: a clock is 0 when it is not armed, v + 1     *)
(* when it lapses in v ticks, 1 once it has lapsed.  The code only ever    *)
(* compares a clock with now or with another clock, and both comparisons   *)
(* read the same on this form, so time itself is unbounded.                *)
(***************************************************************************)
EXTENDS Integers, FiniteSets, SequencesExt

CONSTANTS
  Conns,             \* connections the transport may accept
  Threads,           \* host threads that call Post
  Nobody,            \* no connection
  MaxConnections,    \* TWSServer.MaxConnections, 0 = no limit
  HandshakeTimeout,  \* HandshakeTimeoutMs, CloseTimeoutMs, IdleTimeoutMs and
  CloseTimeout,      \*   PingIntervalMs in ticks; 0 = never
  IdleTimeout,
  PingInterval,
  MaxPendingOutput,  \* MaxPendingOutput in queued items, 0 = no limit
  Frames,            \* what a peer may send: a subset of FrameKinds
  MaxRead,           \* bound: frames one read may complete
  MaxReads,          \* bound: reads of one connection
  MaxCalls,          \* bound: Send and Close calls on one connection
  MaxPosts           \* bound: procs pending for one connection

(* "msg" is a complete data message, "bad" a protocol violation of any     *)
(* kind: TWSProtocol answers every one of them with Fail.                  *)
FrameKinds == {"msg", "ping", "close", "bad"}

ASSUME ServerAssumption ==
  /\ Nobody \notin Conns
  /\ MaxConnections \in Nat /\ MaxPendingOutput \in Nat
  /\ HandshakeTimeout \in Nat /\ CloseTimeout \in Nat
  /\ IdleTimeout \in Nat /\ PingInterval \in Nat
  /\ Frames \subseteq FrameKinds
  /\ MaxRead \in Nat /\ MaxReads \in Nat /\ MaxCalls \in Nat /\ MaxPosts \in Nat

VARIABLES
  conn,      \* conn[c]: the session object of c and its transport side
  registry,  \* FRegistry[0 .. FRegistryCount - 1]; index i is position i + 1
  slot,      \* slot[c]: FRegistryIndex + 1; 0 = not registered
  inbox,     \* inbox[c]: envelopes the transport owes c's context, in order
  poster,    \* poster[t]: the target a thread looked up and not yet submitted
  up,        \* TRUE until Destroy has shut the transport down
  leaving    \* the connections Destroy has still to release

vars == <<conn, registry, slot, inbox, poster, up, leaving>>

-----------------------------------------------------------------------------
(* The connection record.                                                  *)

Item == [kind : {"101", "answer", "data", "ping", "pong", "close"}, n : Nat]
It(kind) == [kind |-> kind, n |-> 0]
DataItem(n) == [kind |-> "data", n |-> n]

ConnRec ==
  [ life         : {"none", "live", "freed"},  \* the TWSConnection object
    state        : {"handshake", "open", "closing"},           \* FState
    proto        : BOOLEAN,                    \* FProto <> nil
    out          : Seq(Item),                  \* the protocol's out queue
    closeSent    : BOOLEAN,                    \* TWSProtocol.FCloseSent
    closeRecv    : BOOLEAN,                    \* TWSProtocol.FCloseReceived
    failed       : BOOLEAN,                    \* TWSProtocol.FFailed
    dropPending  : BOOLEAN,                    \* FDropPending
    inDelivery   : BOOLEAN,                    \* FInDelivery
    dropping     : BOOLEAN,                    \* FDropping
    dropDeferred : BOOLEAN,                    \* FDropDeferred
    faulted      : BOOLEAN,                    \* FFaulted
    deadline     : Nat,                        \* FDeadline
    pingDue      : Nat,                        \* FPingDue
    sweepAt      : Nat,                        \* FSweepAt
    sweepPosted  : BOOLEAN,                    \* FSweepPosted
    tport        : {"none", "open", "dead", "closed"},  \* TWSTransportConn
    owed         : BOOLEAN,                    \* it must fire OnSendReady
    userData     : BOOLEAN,                    \* its UserData <> nil
    run          : {"idle", "ingest", "onopen", "onmessage", "onpost",
                    "onclose"},                \* what c's context is inside
    todo         : Seq(FrameKinds),            \* frames of this read to parse
    opened       : BOOLEAN,                    \* history: OnOpen ran
    closes       : Nat,                        \* history: OnClientClose calls
    wire         : Seq(Item),                  \* history: taken by the socket
    sent         : Nat,                        \* history: data messages queued
    asked        : Nat,                        \* history: age of our ping + 1
    reads        : Nat,
    calls        : Nat ]

NoConn ==
  [ life |-> "none", state |-> "handshake", proto |-> FALSE, out |-> <<>>,
    closeSent |-> FALSE, closeRecv |-> FALSE, failed |-> FALSE,
    dropPending |-> FALSE, inDelivery |-> FALSE, dropping |-> FALSE,
    dropDeferred |-> FALSE, faulted |-> FALSE, deadline |-> 0, pingDue |-> 0,
    sweepAt |-> 0, sweepPosted |-> FALSE, tport |-> "none", owed |-> FALSE,
    userData |-> FALSE, run |-> "idle", todo |-> <<>>, opened |-> FALSE,
    closes |-> 0, wire |-> <<>>, sent |-> 0, asked |-> 0, reads |-> 0,
    calls |-> 0 ]

-----------------------------------------------------------------------------
(* The clocks of a connection.                                             *)

Armed(ms) == IF ms > 0 THEN ms + 1 ELSE 0
Lapsed(clock) == clock = 1

Reschedule(s) ==
  IF s.deadline = 0 \/ (s.pingDue # 0 /\ s.pingDue < s.deadline)
    THEN [s EXCEPT !.sweepAt = s.pingDue]
    ELSE [s EXCEPT !.sweepAt = s.deadline]

(* Mutant: FSweepAt is not recomputed.                                     *)
ArmDeadline_Unscheduled(s, ms) == [s EXCEPT !.deadline = Armed(ms)]

ArmDeadline(s, ms) == Reschedule([s EXCEPT !.deadline = Armed(ms)])

BeginDrain(s) ==
  IF s.dropPending THEN s
  ELSE ArmDeadline([s EXCEPT !.dropPending = TRUE, !.pingDue = 0],
                   CloseTimeout)

(* A connection whose clocks traffic may not touch.                        *)
Waiting(s) == s.state # "open" \/ s.dropPending

(* Mutant: a draining connection still counts as open.                     *)
NoteActivity_Draining(s) ==
  IF s.state # "open" THEN s
  ELSE Reschedule([s EXCEPT !.deadline = Armed(IdleTimeout),
                            !.pingDue = Armed(PingInterval)])

NoteActivity(s) ==
  IF Waiting(s) THEN s
  ELSE Reschedule([s EXCEPT !.deadline = Armed(IdleTimeout),
                            !.pingDue = Armed(PingInterval),
                            !.asked = 0])

-----------------------------------------------------------------------------
(* Teardown.                                                               *)

(* TWSConnection.Free: the object is gone, only the history stays.         *)
Freed(s) ==
  [NoConn EXCEPT !.life = "freed", !.dropping = TRUE,
                 !.tport = IF s.tport = "dead" THEN "dead" ELSE "closed",
                 !.opened = s.opened, !.closes = s.closes, !.wire = s.wire]

(* Mutant: a connection that never opened is notified too.                 *)
ReleaseConn_Unopened(s) ==
  [s EXCEPT !.run = "onclose", !.todo = <<>>, !.closes = @ + 1]

(* The record's part of ReleaseConn; Commit does RegistryRemove.  The      *)
(* transport's SubmitClose (or its own free) follows the handler.          *)
ReleaseConn(s) ==
  IF s.state # "handshake"
    THEN [s EXCEPT !.run = "onclose", !.todo = <<>>, !.closes = @ + 1]
    ELSE Freed(s)

(* Mutant: the drop does not wait for the delivery to unwind.              *)
DropConn_Undeferred(s) ==
  IF s.dropping THEN s
  ELSE ReleaseConn([s EXCEPT !.dropping = TRUE, !.userData = FALSE])

DropConn(s) ==
  IF s.inDelivery THEN [s EXCEPT !.dropDeferred = TRUE]
  ELSE IF s.dropping THEN s
  ELSE ReleaseConn([s EXCEPT !.dropping = TRUE, !.userData = FALSE])

(* What SubmitSend may answer: the connection is dead, or it takes         *)
(* nothing, the first item or everything.                                  *)
SendResults(s) ==
  IF s.tport = "dead" THEN {"dead"} ELSE {"dead", "none", "some", "all"}

Taken(s, e) ==
  CASE e = "all" -> Len(s.out)
    [] e = "some" -> 1
    [] OTHER -> 0

(* A short send owes an OnSendReady; one that took everything pays an      *)
(* earlier debt (epoll disarms EPOLLOUT, SendDrained).                     *)
OutConsume(s, n) ==
  [s EXCEPT !.wire = @ \o SubSeq(s.out, 1, n),
            !.out = SubSeq(s.out, n + 1, Len(s.out)),
            !.owed = n < Len(s.out)]

(* Mutant: the cap is judged one item late.                                *)
OverCap_Late(s) ==
  MaxPendingOutput > 0 /\ ~s.dropPending /\ Len(s.out) > MaxPendingOutput + 1

OverCap(s) ==
  MaxPendingOutput > 0 /\ ~s.dropPending /\ Len(s.out) > MaxPendingOutput

(* The code's False is "dropped": s.dropping afterwards, or dropDeferred   *)
(* when a delivery is on the stack.                                        *)
FlushConn(s, e) ==
  IF s.out = <<>> THEN s
  ELSE IF e = "dead" THEN DropConn([s EXCEPT !.tport = "dead"])
  ELSE LET t == OutConsume(s, Taken(s, e))
       IN IF OverCap(t) THEN DropConn(t) ELSE t

(* Mutant: the flush, and its cap, come before draining starts.            *)
DrainThenDrop_FlushFirst(s, e) ==
  IF ~s.proto THEN DropConn(s)
  ELSE LET t == FlushConn(s, e)
       IN IF t.dropping THEN t
          ELSE IF t.out = <<>> THEN DropConn(t) ELSE BeginDrain(t)

DrainThenDrop(s, e) ==
  IF ~s.proto THEN DropConn(s)
  ELSE LET t == FlushConn(BeginDrain(s), e)
       IN IF ~t.dropping /\ t.out = <<>> THEN DropConn(t) ELSE t

SettleDelivery(s, e) ==
  IF s.dropDeferred THEN DropConn([s EXCEPT !.dropDeferred = FALSE])
  ELSE IF s.faulted THEN DrainThenDrop(s, e)
  ELSE s

-----------------------------------------------------------------------------
(* The protocol object, as far as the session sees it.                     *)

Queue(s, item) == [s EXCEPT !.out = Append(@, item)]

(* SendPing, SendPong and SendDataMessage: nothing follows our Close.      *)
SendFrame(s, item) == IF s.closeSent THEN s ELSE Queue(s, item)

(* SendClose and QueueClose.                                               *)
SendClose(s) ==
  IF s.closeSent THEN s
  ELSE Queue([s EXCEPT !.closeSent = TRUE], It("close"))

Fail(s) == SendClose([s EXCEPT !.failed = TRUE])

CloseDone(s) == s.failed \/ (s.closeSent /\ s.closeRecv)

(* FDrain: input is ignored from here on.                                  *)
Deaf(s) == s.failed \/ s.closeRecv

HandlerRaised(s) ==
  IF s.dropping THEN s
  ELSE LET t == [s EXCEPT !.faulted = TRUE]
       IN IF t.state = "open" THEN [SendClose(t) EXCEPT !.state = "closing"]
                              ELSE t

-----------------------------------------------------------------------------
(* CheckClock, run in the connection's context when the sweeper's post     *)
(* arrives.                                                                *)

(* The ping is judged first; the idle deadline is put off so that the peer *)
(* gets IdleTimeout - PingInterval to answer it.                           *)
AnswerBy == Armed(IdleTimeout - PingInterval)

(* Mutants: the deadline is not put off; FSweepAt is not recomputed.       *)
PingLapsed_SameDeadline(s) == Reschedule([s EXCEPT !.pingDue = 0])

PingLapsed_Unscheduled(s) == [s EXCEPT !.pingDue = 0]

PingLapsed(s) ==
  LET put == /\ s.state = "open" /\ s.deadline # 0 /\ PingInterval > 0
             /\ IdleTimeout > PingInterval /\ AnswerBy > s.deadline
  IN Reschedule([s EXCEPT !.pingDue = 0,
                          !.deadline = IF put THEN AnswerBy ELSE @])

DeadlineLapsed(s, e) ==
  LET z == [s EXCEPT !.deadline = 0]
  IN IF z.state = "open"
       THEN LET t == FlushConn([SendClose(z) EXCEPT !.state = "closing"], e)
            IN DropConn(t)
       ELSE DropConn(z)

JudgeDeadline(s, e) == IF Lapsed(s.deadline) THEN DeadlineLapsed(s, e) ELSE s

CheckClock(s, e) ==
  LET z == [s EXCEPT !.sweepPosted = FALSE]
  IN IF z.dropping THEN z
     ELSE IF Lapsed(z.pingDue)
       THEN LET p == PingLapsed(z)
            IN IF p.state = "open" /\ ~Lapsed(p.deadline)
                 THEN FlushConn([SendFrame(p, It("ping")) EXCEPT !.asked = 1],
                                e)
                 ELSE JudgeDeadline(p, e)
       ELSE JudgeDeadline(z, e)

-----------------------------------------------------------------------------
(* The registry, under FLock.                                              *)

Registered(c) ==
  slot[c] \in 1 .. Len(registry) /\ registry[slot[c]] = c

RegistryAdd(c) ==
  /\ registry' = Append(registry, c)
  /\ slot' = [slot EXCEPT ![c] = Len(registry) + 1]

(* Mutant: the moved connection keeps its old index.                       *)
RegistryRemove_StaleIndex(c) ==
  IF ~Registered(c) THEN UNCHANGED <<registry, slot>>
  ELSE /\ registry' = Front([registry EXCEPT ![slot[c]] = Last(registry)])
       /\ slot' = [slot EXCEPT ![c] = 0]

(* Swap-remove: the tail moves into the hole and learns its new index.     *)
RegistryRemove(c) ==
  IF ~Registered(c) THEN UNCHANGED <<registry, slot>>
  ELSE LET hole == slot[c]
           tail == Last(registry)
       IN /\ registry' = Front([registry EXCEPT ![hole] = tail])
          /\ slot' = [slot EXCEPT ![tail] = hole, ![c] = 0]

(* The end of a callback: the record is written back, and a ReleaseConn    *)
(* that ran in it took c out of the registry.                              *)
Commit(c, s) ==
  /\ conn' = [conn EXCEPT ![c] = s]
  /\ IF s.dropping /\ ~conn[c].dropping
       THEN RegistryRemove(c)
       ELSE UNCHANGED <<registry, slot>>

-----------------------------------------------------------------------------
(* Transport callbacks.  The transport serializes the callbacks of one     *)
(* connection: each starts only when c's context is idle.                  *)

Ready(c) == conn[c].run = "idle" /\ conn[c].userData

Full == MaxConnections > 0 /\ Len(registry) >= MaxConnections

(* HandleAccept.  One context runs every OnAccept, so nothing is added     *)
(* between the check and RegistryAdd.                                      *)
Accept(c) ==
  /\ up /\ conn[c].life = "none" /\ conn[c].tport = "none"
  /\ IF Full
       THEN /\ conn' = [conn EXCEPT ![c].tport = "closed"]
            /\ UNCHANGED <<registry, slot>>
       ELSE /\ conn' = [conn EXCEPT ![c] = ArmDeadline(
                 [NoConn EXCEPT !.life = "live", !.tport = "open",
                                !.userData = TRUE], HandshakeTimeout)]
            /\ RegistryAdd(c)
  /\ UNCHANGED <<inbox, poster, up, leaving>>

(* HandleData in wcsHandshake, once the header block is complete (an       *)
(* incomplete one only grows FHsBuf).  "refuse" is a 400 or a 431, sent    *)
(* best effort; "answer" a plain response or a 403, drained; "upgrade" the *)
(* 101, with the frames pipelined behind the request.                      *)
Refuse(s, e) ==
  DropConn(IF e = "dead" THEN [s EXCEPT !.tport = "dead"]
           ELSE IF e = "none" THEN s
           ELSE [s EXCEPT !.wire = Append(@, It("answer"))])

Answer(s, e) ==
  DrainThenDrop(Queue([s EXCEPT !.proto = TRUE], It("answer")), e)

(* Mutant: wcsOpen before the 101 is on its way.                           *)
Upgrade_OpenFirst(s, e, left) ==
  LET t == FlushConn(Queue([s EXCEPT !.proto = TRUE, !.state = "open"],
                           It("101")), e)
  IN IF t.dropping THEN t
     ELSE [NoteActivity(t) EXCEPT !.inDelivery = TRUE, !.run = "onopen",
                                  !.opened = TRUE, !.todo = left]

Upgrade(s, e, left) ==
  LET t == FlushConn(Queue([s EXCEPT !.proto = TRUE], It("101")), e)
  IN IF t.dropping THEN t
     ELSE [NoteActivity([t EXCEPT !.state = "open"])
             EXCEPT !.inDelivery = TRUE, !.run = "onopen", !.opened = TRUE,
                    !.todo = left]

Reads == UNION {[1 .. n -> Frames] : n \in 1 .. MaxRead}

HandshakeData(c) ==
  /\ Ready(c) /\ conn[c].state = "handshake" /\ ~conn[c].dropPending
  /\ \E e \in SendResults(conn[c]) :
       \/ Commit(c, Refuse(conn[c], e))
       \/ Commit(c, Answer(conn[c], e))
       \/ \E left \in Reads \union {<<>>} : Commit(c, Upgrade(conn[c], e, left))
  /\ UNCHANGED <<inbox, poster, up, leaving>>

(* Entering IngestAndFlush: a machine that failed or saw the peer's Close  *)
(* ignores the bytes.                                                      *)
StartIngest(s, frames) ==
  [s EXCEPT !.inDelivery = TRUE, !.run = "ingest",
            !.todo = IF Deaf(s) THEN <<>> ELSE frames]

(* HandleData in wcsOpen and wcsClosing.                                   *)
HandleData(c) ==
  /\ Ready(c) /\ conn[c].tport = "open" /\ conn[c].state # "handshake"
  /\ ~conn[c].faulted /\ conn[c].reads < MaxReads
  /\ \E frames \in Reads :
       Commit(c, [StartIngest(NoteActivity(conn[c]), frames)
                    EXCEPT !.reads = @ + 1])
  /\ UNCHANGED <<inbox, poster, up, leaving>>

(* One frame of the read.  ProtoMessage keeps a message from the host when *)
(* a drop is already waiting for the loop to unwind.                       *)
ParseFrame(s, f) ==
  CASE f = "msg" -> IF s.dropDeferred THEN s ELSE [s EXCEPT !.run = "onmessage"]
    [] f = "ping" -> SendFrame(s, It("pong"))
    [] f = "close" -> SendClose([s EXCEPT !.closeRecv = TRUE])
    [] f = "bad" -> Fail(s)

IngestFrame(c) ==
  LET s == conn[c] IN
  /\ s.run = "ingest" /\ s.todo # <<>>
  /\ LET t == ParseFrame(s, Head(s.todo))
     IN Commit(c, [t EXCEPT !.todo = IF Deaf(t) THEN <<>> ELSE Tail(@)])
  /\ UNCHANGED <<inbox, poster, up, leaving>>

(* IngestAndFlush once Ingest has unwound.                                 *)
IngestDone(s, e) ==
  LET u == [s EXCEPT !.inDelivery = FALSE, !.run = "idle"]
      v == FlushConn(u, e)
  IN IF u.dropDeferred \/ u.faulted THEN SettleDelivery(u, e)
     ELSE IF u.failed THEN DrainThenDrop(u, e)
     ELSE IF v.dropping \/ ~CloseDone(v) THEN v
     ELSE IF v.out = <<>> THEN DropConn(v)
     ELSE BeginDrain(v)

IngestEnd(c) ==
  /\ conn[c].run = "ingest" /\ conn[c].todo = <<>>
  /\ \E e \in SendResults(conn[c]) : Commit(c, IngestDone(conn[c], e))
  /\ UNCHANGED <<inbox, poster, up, leaving>>

(* HandleSendReady.  Before FProto exists there is nothing to flush.       *)
SendReady(s, e) ==
  LET t == FlushConn([s EXCEPT !.owed = FALSE], e)
  IN IF ~t.dropping /\ t.out = <<>> /\ (t.dropPending \/ CloseDone(t))
       THEN DropConn(t) ELSE t

HandleSendReady(c) ==
  /\ Ready(c) /\ conn[c].proto
  /\ \E e \in SendResults(conn[c]) : Commit(c, SendReady(conn[c], e))
  /\ UNCHANGED <<inbox, poster, up, leaving>>

(* The peer is gone: seen by a send, or reported by OnClosed.              *)
HandleClosed(c) ==
  /\ Ready(c)
  /\ Commit(c, ReleaseConn([conn[c] EXCEPT !.userData = FALSE,
                                           !.dropping = TRUE,
                                           !.tport = "dead"]))
  /\ UNCHANGED <<inbox, poster, up, leaving>>

-----------------------------------------------------------------------------
(* Host handlers.                                                          *)

InHandler(c) == conn[c].run \in {"onopen", "onmessage", "onpost"}

Calling(c) == InHandler(c) /\ conn[c].calls < MaxCalls

(* Mutant: a direct send may overtake queued output.                       *)
DirectHeader_Overtaking(s) == ~s.closeSent

(* SendData.  A direct send offers header and payload to the socket before *)
(* anything is queued; DirectHeader allows it only on an empty queue with  *)
(* no Close sent, and DirectSent queues what the socket left.              *)
DirectHeader(s) == s.out = <<>> /\ ~s.closeSent

DirectSend(s, e) ==
  LET item == DataItem(s.sent + 1)
      t == [s EXCEPT !.sent = @ + 1]
  IN IF e = "dead" THEN DropConn([s EXCEPT !.tport = "dead"])
     ELSE IF e = "none" THEN FlushConn(Queue(t, item), e)
     ELSE [t EXCEPT !.wire = Append(@, item), !.owed = FALSE]

(* Mutant: the frame is queued and never offered.                          *)
QueuedSend_Unflushed(s, e) ==
  IF s.closeSent THEN s
  ELSE Queue([s EXCEPT !.sent = @ + 1], DataItem(s.sent + 1))

QueuedSend(s, e) ==
  FlushConn(IF s.closeSent THEN s
            ELSE Queue([s EXCEPT !.sent = @ + 1], DataItem(s.sent + 1)), e)

SendData(c) ==
  LET s == [conn[c] EXCEPT !.calls = @ + 1] IN
  /\ Calling(c) /\ s.state = "open"
  /\ \E e \in SendResults(s) :
       \/ Commit(c, QueuedSend(s, e))
       \/ DirectHeader(s) /\ Commit(c, DirectSend(s, e))
  /\ UNCHANGED <<inbox, poster, up, leaving>>

(* TWSConnection.Close.                                                    *)
CloseCall(s, e) ==
  FlushConn(ArmDeadline([SendClose(s) EXCEPT !.state = "closing",
                                             !.pingDue = 0], CloseTimeout), e)

Close(c) ==
  LET s == [conn[c] EXCEPT !.calls = @ + 1] IN
  /\ Calling(c) /\ s.state = "open"
  /\ \E e \in SendResults(s) : Commit(c, CloseCall(s, e))
  /\ UNCHANGED <<inbox, poster, up, leaving>>

(* What runs when a handler is done: OnMessage goes back to the frame      *)
(* loop, OnOpen and a posted proc to DeliverContained.  A raise in         *)
(* OnMessage abandons the read.                                            *)
Settled(s, e) ==
  SettleDelivery([s EXCEPT !.inDelivery = FALSE, !.run = "idle"], e)

(* HandleData after FinishHandshake: frames pipelined behind the request   *)
(* are replayed only when the handler left the connection open.            *)
AfterOpen(s, e) ==
  LET t == Settled(s, e) IN
  IF t.state = "open" /\ ~s.dropDeferred /\ ~s.faulted /\ s.todo # <<>>
    THEN StartIngest(t, s.todo)
    ELSE [t EXCEPT !.todo = <<>>]

HandlerReturns(c) ==
  LET s == conn[c] IN
  /\ InHandler(c)
  /\ \E e \in SendResults(s) :
       Commit(c, CASE s.run = "onmessage" -> [s EXCEPT !.run = "ingest"]
                   [] s.run = "onopen" -> AfterOpen(s, e)
                   [] s.run = "onpost" -> Settled(s, e))
  /\ UNCHANGED <<inbox, poster, up, leaving>>

HandlerRaises(c) ==
  LET s == [HandlerRaised(conn[c]) EXCEPT !.todo = <<>>] IN
  /\ InHandler(c)
  /\ \E e \in SendResults(s) : Commit(c, Settled(s, e))
  /\ UNCHANGED <<inbox, poster, up, leaving>>

(* OnClientClose returned or raised; sends and Close inside it answered    *)
(* False.  ReleaseConn frees the object and the transport side goes too.   *)
CloseReturns(c) ==
  /\ conn[c].run = "onclose"
  /\ Commit(c, Freed(conn[c]))
  /\ UNCHANGED <<inbox, poster, up, leaving>>

-----------------------------------------------------------------------------
(* Posts: from any thread to a connection's context.                       *)

SubmitPost(c, what) ==
  inbox' = [inbox EXCEPT ![c] = IF up THEN Append(@, what) ELSE @]

(* PostToConn, first half: the rendezvous under the lock.  The lifetime    *)
(* contract lets the host call from OnOpen until OnClientClose returns.    *)
PostLookup(t, c) ==
  /\ poster[t] = Nobody /\ conn[c].life = "live" /\ conn[c].opened
  /\ Len(SelectSeq(inbox[c], LAMBDA p : p = "proc")) < MaxPosts
  /\ Registered(c)
  /\ poster' = [poster EXCEPT ![t] = c]
  /\ UNCHANGED <<conn, registry, slot, inbox, up, leaving>>

(* PostToConn, second half, outside the lock.                              *)
PostSubmit(t) ==
  /\ poster[t] # Nobody
  /\ SubmitPost(poster[t], "proc")
  /\ poster' = [poster EXCEPT ![t] = Nobody]
  /\ UNCHANGED <<conn, registry, slot, up, leaving>>

(* HandlePost with CheckClock: DeliverContained around it.                 *)
ClockChecked(s, e) ==
  SettleDelivery([CheckClock([s EXCEPT !.inDelivery = TRUE], e)
                    EXCEPT !.inDelivery = FALSE], e)

DeliverPost(c) ==
  /\ conn[c].run = "idle" /\ inbox[c] # <<>>
  /\ inbox' = [inbox EXCEPT ![c] = Tail(@)]
  /\ IF ~conn[c].userData
       THEN UNCHANGED <<conn, registry, slot>>   \* discarded
       ELSE IF Head(inbox[c]) = "check"
         THEN \E e \in SendResults(conn[c]) :
                Commit(c, ClockChecked(conn[c], e))
         ELSE Commit(c, [conn[c] EXCEPT !.inDelivery = TRUE,
                                        !.run = "onpost"])
  /\ UNCHANGED <<poster, up, leaving>>

-----------------------------------------------------------------------------
(* The sweeper thread and the passage of time.                             *)

Due(c) == Lapsed(conn[c].sweepAt)

Unswept(c) == Registered(c) /\ ~conn[c].sweepPosted

PostChecks(cs) ==
  /\ conn' = [c \in Conns |-> IF c \in cs
                THEN [conn[c] EXCEPT !.sweepPosted = TRUE] ELSE conn[c]]
  /\ inbox' = [c \in Conns |-> IF c \in cs
                THEN Append(inbox[c], "check") ELSE inbox[c]]
  /\ UNCHANGED <<registry, slot, poster, up, leaving>>

(* One pass over the registry under the lock.                              *)
SweepClocks ==
  LET due == {c \in Conns : Unswept(c) /\ Due(c)} IN
  /\ up /\ due # {}
  /\ PostChecks(due)

(* FSweepAt is read without synchronizing with the context that writes it: *)
(* the sweeper may act on a value the context has just replaced.           *)
SweepStale(c) ==
  /\ up /\ Unswept(c) /\ ~Due(c) /\ conn[c].sweepAt # 0
  /\ PostChecks({c})

TickDown(clock) == IF clock > 1 THEN clock - 1 ELSE clock

TickUp(age) == IF age \in 1 .. IdleTimeout THEN age + 1 ELSE age

Tick ==
  /\ conn' = [c \in Conns |->
       [conn[c] EXCEPT !.deadline = TickDown(@), !.pingDue = TickDown(@),
                       !.sweepAt = TickDown(@), !.asked = TickUp(@)]]
  /\ UNCHANGED <<registry, slot, inbox, poster, up, leaving>>

-----------------------------------------------------------------------------
(* TWSServer.Destroy.  The sweeper is joined and the transport shut down:  *)
(* no callback is running or will start, the envelopes in flight are       *)
(* discarded and the transport's connections are freed.  Every session     *)
(* still registered is detached before the first handler runs.             *)

Detach(s) ==
  [s EXCEPT !.dropping = TRUE, !.userData = FALSE, !.tport = "closed"]

Destroy ==
  /\ up
  /\ \A c \in Conns : conn[c].run = "idle"
  /\ up' = FALSE
  /\ leaving' = registry
  /\ conn' = [c \in Conns |-> IF Registered(c) THEN Detach(conn[c])
                              ELSE conn[c]]
  /\ registry' = <<>>
  /\ slot' = [c \in Conns |-> 0]
  /\ inbox' = [c \in Conns |-> <<>>]
  /\ UNCHANGED poster

(* The release loop: the next connection's handler starts when the         *)
(* previous one has returned.                                              *)
ReleaseNext ==
  /\ leaving # <<>>
  /\ \A c \in Conns : conn[c].run = "idle"
  /\ conn' = [conn EXCEPT ![Head(leaving)] = ReleaseConn(@)]
  /\ leaving' = Tail(leaving)
  /\ UNCHANGED <<registry, slot, inbox, poster, up>>

-----------------------------------------------------------------------------

Init ==
  /\ conn = [c \in Conns |-> NoConn]
  /\ registry = <<>>
  /\ slot = [c \in Conns |-> 0]
  /\ inbox = [c \in Conns |-> <<>>]
  /\ poster = [t \in Threads |-> Nobody]
  /\ up = TRUE
  /\ leaving = <<>>

(* What the transport's contexts must carry through once it has begun or   *)
(* has been handed over: the frame loop, a posted envelope, the close of a *)
(* dead connection.                                                        *)
ContextStep(c) ==
  \/ IngestFrame(c)
  \/ IngestEnd(c)
  \/ DeliverPost(c)
  \/ conn[c].tport = "dead" /\ HandleClosed(c)

HostStep(c) == HandlerReturns(c) \/ HandlerRaises(c) \/ CloseReturns(c)

Next ==
  \/ \E c \in Conns :
       \/ Accept(c)
       \/ HandshakeData(c)
       \/ HandleData(c)
       \/ IngestFrame(c)
       \/ IngestEnd(c)
       \/ HandleSendReady(c)
       \/ HandleClosed(c)
       \/ SendData(c)
       \/ Close(c)
       \/ HandlerReturns(c)
       \/ HandlerRaises(c)
       \/ CloseReturns(c)
       \/ DeliverPost(c)
       \/ SweepStale(c)
       \/ \E t \in Threads : PostLookup(t, c)
  \/ \E t \in Threads : PostSubmit(t)
  \/ SweepClocks
  \/ Tick
  \/ Destroy
  \/ ReleaseNext

Spec == Init /\ [][Next]_vars

(* Time passes, the sweeper thread runs, contexts finish what they began   *)
(* and handlers return.  Nothing is asked of peers or of the host.         *)
FairSpec ==
  /\ Spec
  /\ WF_vars(Tick)
  /\ WF_vars(SweepClocks)
  /\ WF_vars(ReleaseNext)
  /\ \A c \in Conns : WF_vars(ContextStep(c)) /\ WF_vars(HostStep(c))

-----------------------------------------------------------------------------
(* Invariants.                                                             *)

(* Every variable keeps its type.                                          *)
TypeOK ==
  /\ conn \in [Conns -> ConnRec]
  /\ registry \in Seq(Conns)
  /\ slot \in [Conns -> Nat]
  /\ inbox \in [Conns -> Seq({"check", "proc"})]
  /\ poster \in [Threads -> Conns \union {Nobody}]
  /\ up \in BOOLEAN
  /\ leaving \in Seq(Conns)

(* OnClientClose "fires exactly once for every connection that saw         *)
(* OnOpen", whichever of the teardown paths gets there first, and never    *)
(* for one whose 101 did not go out.                                       *)
OpenClosePaired ==
  \A c \in Conns : LET s == conn[c] IN
    s.closes = IF s.opened /\ (s.life = "freed" \/ s.run = "onclose")
                 THEN 1 ELSE 0

(* Nothing refers to a freed session object: not the transport's UserData, *)
(* not a call still on its context's stack, not the registry, not the list *)
(* Destroy works through.  A drop never starts below a running delivery.   *)
NoUseAfterFree ==
  \A c \in Conns : LET s == conn[c] IN
    /\ (\/ s.userData \/ s.run # "idle" \/ s.inDelivery \/ Registered(c)
        \/ c \in ToSet(leaving)) => s.life = "live"
    /\ s.userData \/ s.inDelivery => ~s.dropping

(* The registry holds exactly the sessions that are not being torn down,   *)
(* each at the index it carries, and never more than MaxConnections.       *)
RegistryExact ==
  /\ \A c \in Conns :
       /\ slot[c] # 0 <=> conn[c].life = "live" /\ ~conn[c].dropping
       /\ slot[c] # 0 => Registered(c)
  /\ \A i \in 1 .. Len(registry) : slot[registry[i]] = i
  /\ MaxConnections > 0 => Len(registry) <= MaxConnections

(* Where the host's messages are among the first n items of q.             *)
DataAmong(q, n) == {i \in 1 .. n : q[i].kind = "data"}

(* What reaches the socket: the answer to the request first; a refusal is  *)
(* all a refused peer gets; after our Close nothing; the host's messages   *)
(* in the order it sent them and none missing, whether a send went through *)
(* the queue or directly.                                                  *)
WireDiscipline ==
  \A c \in Conns :
    LET all == conn[c].wire \o conn[c].out
    IN \A i \in 1 .. Len(all) :
         /\ all[i].kind \in {"101", "answer"} <=> i = 1
         /\ all[i].kind \in {"answer", "close"} => i = Len(all)
         /\ all[i].kind = "data"
              => all[i].n = Cardinality(DataAmong(all, i))

(* A connection at rest never holds more unsent output than the cap,       *)
(* unless only its last bytes stand between it and the drop.               *)
OutputBounded ==
  \A c \in Conns : LET s == conn[c] IN
    s.run = "idle" /\ MaxPendingOutput > 0 /\ ~s.dropPending
      => Len(s.out) <= MaxPendingOutput

(* Output a connection at rest still holds has a wake coming: the transport *)
(* owes it an OnSendReady.                                                 *)
NothingStranded ==
  \A c \in Conns : LET s == conn[c] IN
    s.run = "idle" /\ s.out # <<>> => s.owed \/ s.dropping

(* The sweeper looks at FSweepAt and FSweepPosted only: the first is       *)
(* always the earlier of the two clocks, and the second is set exactly     *)
(* while one check of this connection is on its way.                       *)
Checks(c) == {i \in 1 .. Len(inbox[c]) : inbox[c][i] = "check"}

NoClockForgotten ==
  \A c \in Conns : Registered(c) =>
    /\ conn[c].sweepAt = Reschedule(conn[c]).sweepAt
    /\ Cardinality(Checks(c)) = IF conn[c].sweepPosted THEN 1 ELSE 0

(* The inductive invariant behind the three invariants on teardown.  Beside *)
(* them it says what every procedure relies on: the transport keeps its     *)
(* reference exactly while nothing has begun to drop a live session;        *)
(* FInDelivery is set exactly while a frame of its context is on the stack, *)
(* and never under a drop; OnOpen has run exactly when the state has left   *)
(* the handshake; what Destroy still has to release is detached, idle and   *)
(* listed once.                                                             *)
Untouched(s) ==
  /\ s.run = "idle" /\ s.closes = 0
  /\ ~s.userData /\ ~s.inDelivery /\ ~s.dropping /\ ~s.opened

Lawful(s) ==
  /\ s.userData <=> s.life = "live" /\ ~s.dropping
  /\ s.life = "freed" => s.dropping /\ s.run = "idle"
  /\ s.inDelivery <=> s.run \in {"ingest", "onopen", "onmessage", "onpost"}
  /\ s.inDelivery => ~s.dropping
  /\ s.run = "onclose" => s.dropping
  /\ s.life = "live" => (s.opened <=> s.state # "handshake")
  /\ s.closes = IF s.opened /\ (s.life = "freed" \/ s.run = "onclose")
                  THEN 1 ELSE 0

SessionsLawful ==
  \A c \in Conns : IF conn[c].life = "none" THEN Untouched(conn[c])
                   ELSE Lawful(conn[c])

LeavingExact ==
  /\ up => leaving = <<>>
  /\ \A i, j \in 1 .. Len(leaving) : leaving[i] = leaving[j] => i = j
  /\ \A i \in 1 .. Len(leaving) :
       LET s == conn[leaving[i]]
       IN s.life = "live" /\ s.dropping /\ s.run = "idle"

IInv == TypeOK /\ SessionsLawful /\ RegistryExact /\ LeavingExact

-----------------------------------------------------------------------------
(* Action properties.                                                      *)

Torn(c) == ~conn[c].dropping /\ conn'[c].dropping

(* The close frame or the answer of a connection that is only waiting for  *)
(* it is on the wire before the drop, unless the peer is gone, its close   *)
(* budget is spent or the server is destroyed.                             *)
DrainedBeforeDrop ==
  [][\A c \in Conns :
       LET s == conn[c]
       IN Torn(c) /\ (s.dropPending \/ s.failed \/ s.faulted) /\ ~s.dropDeferred
            => \/ Len(conn'[c].wire) = Len(s.wire) + Len(s.out)
               \/ conn'[c].tport = "dead"
               \/ Lapsed(s.deadline)
               \/ ~up']_vars

(* A deadline that bounds a handshake, a close or a drain is not put off   *)
(* while that wait lasts, whatever the peer sends and whatever else runs.  *)
WaitNotExtended ==
  [][\A c \in Conns :
       LET s == conn[c]
           t == conn'[c]
       IN s.life = "live" /\ (s.state # "open" \/ s.dropPending)
            /\ s.state = t.state /\ s.dropPending = t.dropPending
            => t.deadline <= s.deadline]_vars

(* "The idle deadline is never sooner than IdleTimeoutMs - PingIntervalMs  *)
(* after the ping is queued": a peer closed as idle was asked, and had     *)
(* that long to answer, however late the check ran.                        *)
AskedBeforeIdleClose ==
  [][\A c \in Conns :
       LET s == conn[c]
       IN s.run = "idle" /\ s.state = "open" /\ ~s.closeSent
            /\ conn'[c].state = "closing"
            => (PingInterval > 0 /\ IdleTimeout > PingInterval
                  => s.asked > IdleTimeout - PingInterval)]_vars

(* The host sees the lifecycle WSLifecycle promises.                       *)
Phase(s) ==
  CASE s.life = "none" -> "none"
    [] s.life = "freed" -> "gone"
    [] s.life = "live" /\ s.run = "onclose" -> "ending"
    [] s.life = "live" /\ s.run # "onclose" /\ s.opened -> "open"
    [] s.life = "live" /\ s.run # "onclose" /\ ~s.opened -> "pending"

Condemned(s) ==
  s.dropping \/ s.dropDeferred \/ s.dropPending \/ s.faulted \/ Deaf(s)

Lifecycle == INSTANCE WSLifecycle WITH
  phase <- [c \in Conns |-> Phase(conn[c])],
  handler <- [c \in Conns |->
                IF conn[c].run = "ingest" THEN "idle" ELSE conn[c].run],
  condemned <- [c \in Conns |-> Condemned(conn[c])]

HostContract == Lifecycle!Spec

-----------------------------------------------------------------------------
(* Liveness.                                                               *)

Live(c) == conn[c].life = "live"

(* Nothing hangs: a peer that never completes its request is dropped, a    *)
(* connection that is closing or draining is released even if the peer     *)
(* neither reads nor answers, and so is, with an idle timeout, a peer that *)
(* has fallen silent.                                                      *)
StallsEnd ==
  \A c \in Conns :
    /\ Live(c) /\ conn[c].state = "handshake"
         ~> ~Live(c) \/ conn[c].state # "handshake"
    /\ Live(c) /\ (conn[c].state = "closing" \/ conn[c].dropPending) ~> ~Live(c)
    /\ IdleTimeout > 0 => (Live(c) ~> ~Live(c))
=============================================================================
